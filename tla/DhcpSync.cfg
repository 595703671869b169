SPECIFICATION Spec
CONSTANTS
    Refreshers = {r1, r2}
    MaxVersion = 4
    Invalid <- MCInvalid
    Rejected <- MCRejected
    STARTUP_APPLY_ATTEMPTS = 2
    MaxFaults = 2
    None = None
    Bootstrap = Bootstrap
INVARIANTS TypeOK NeverReadyUnconfigured BaselineMatches ReconciledIsServed
PROPERTIES DriftRepaired EventuallyServed
