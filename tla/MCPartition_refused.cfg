SPECIFICATION Spec
CONSTANTS
    MaxSize = 14
    MaxPartitionSize = 6
    Sizes <- MCSizes
    PartitionSizes <- MCPartitionSizes
INVARIANTS
    NoPartitionRefused
CHECK_DEADLOCK FALSE
