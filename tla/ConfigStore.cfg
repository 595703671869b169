CONSTANTS
    f1 = f1
    f2 = f2
    c1 = c1
    c2 = c2
    Files = {f1, f2}
    Contents = {c1, c2}
    Requests = {r1, r2, r3}
    Batches <- MCBatches
SPECIFICATION FairSpec
INVARIANT TypeOK
INVARIANT VersionsUnique
PROPERTY ImplementsVersionLog
PROPERTY RequestsAnswered
CHECK_DEADLOCK FALSE
