CONSTANTS
    NoOne = NoOne
    Runs = {r1, r2}
    FailFast = {}
    Staged = {r1}
    TTL = 24
    Interval = 9
    Buffer = 3
    MaxTries = 3
    MaxLag = 2
SPECIFICATION Spec
INVARIANT BodyHoldsLock
CHECK_DEADLOCK FALSE
