CONSTANTS
    Targets <- EveryTarget
    MaxTries = 3
    MaxAttempts = 4
    MaxFaults = 3
SPECIFICATION FairSpec
INVARIANT TypeOK
INVARIANT SuccessWithoutTrialIsPermanent
INVARIANT DiffChangedIsForeign
PROPERTY ForeignChangeKept
PROPERTY ApplyEnds
CHECK_DEADLOCK FALSE
