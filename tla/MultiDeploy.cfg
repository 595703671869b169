SPECIFICATION Spec
CONSTANTS
  N = 3
  Diffs = {"x", "y"}
  BatchSizes = {2}
  Namings <- Both
  MaxAttempts = 2
  MaxFaults = 2
INVARIANTS TypeOK BatchesPartition CountsAddUp 
PROPERTY EndsOrWaits
