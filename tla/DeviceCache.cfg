SPECIFICATION Spec
CONSTANTS
    Devices = {d1, d2}
    Names = {a, b, c}
    Readers = {r1}
    MaxChanges = 2
    MaxDeletes = 1
    MaxFaults = 1
    None = None
INVARIANT TypeOK
PROPERTIES ManagedFound UnmanagedHidden
CHECK_DEADLOCK FALSE
