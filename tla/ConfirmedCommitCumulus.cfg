CONSTANTS
    Targets <- Cumulus
    MaxTries = 3
    MaxAttempts = 4
    MaxFaults = 3
SPECIFICATION Spec
INVARIANT SuccessIsPermanent
CHECK_DEADLOCK FALSE
