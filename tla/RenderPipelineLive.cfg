CONSTANTS
    NoOne = NoOne
    EventConsumers = {e1}
    ApiCallers = {a1}
    DeviceConsumers = {c1, c2}
    Renderers = {}
    Messages = {m1, m2}
    MaxChanges = 2
    MaxFaults = 1
    Faults = {"publish", "dcim", "render", "store", "slow", "lease", "api"}
    DeployableChanges = {1, 2}
SPECIFICATION FairSpec
PROPERTY EventuallyFresh
PROPERTY WorkDrains
CHECK_DEADLOCK FALSE
