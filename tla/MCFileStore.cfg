SPECIFICATION MCSpec
CONSTANTS
    Uploads = {u1, u2}
    MaxSize = 14
    MaxPartitionSize = 6
    Sizes <- MCSizes
    PartitionSizes <- MCPartitionSizes
    PathInputs <- MCPathInputs
    Values = {v, w}
    Numbers = {v}
    MaxParts = 2
    MaxPieces = 2
INVARIANTS
    EveryByteOnce
    AckedStored
    CreatedByOverlapOnly
    WholeFileRead
    RelativeLeadsBack
    SimplifyPathRight
    FormMeansRequest
SYMMETRY MCSymmetry
CHECK_DEADLOCK FALSE
