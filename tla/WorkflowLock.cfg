CONSTANTS
    NoOne = NoOne
    Runs = {r1, r2}
    FailFast = {r1}
    Staged = {r1}
    TTL = 6
    Interval = 2
    Buffer = 2
    MaxTries = 2
    MaxLag = 1
SPECIFICATION FairSpec
INVARIANT TypeOK
INVARIANT UnstagedBodyHoldsLock
PROPERTY LostLockNoticed
PROPERTY WaitersServed
CHECK_DEADLOCK FALSE
