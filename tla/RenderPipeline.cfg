CONSTANTS
    NoOne = NoOne
    EventConsumers = {e1, e2}
    ApiCallers = {}
    DeviceConsumers = {c1, c2}
    Renderers = {r1}
    Messages = {m1, m2, m3}
    MaxChanges = 2
    MaxFaults = 1
    Faults = {"slow"}
    DeployableChanges = {1}
SPECIFICATION Spec
SYMMETRY Symmetry
INVARIANT TypeOK
INVARIANT RendersExclusive
INVARIANT NoChangeLost
INVARIANT FlagMeansPending
PROPERTY StoreNeverRegresses
CHECK_DEADLOCK FALSE
