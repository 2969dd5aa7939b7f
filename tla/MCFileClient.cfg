SPECIFICATION Spec
CONSTANTS
    Files = {f1}
    Parts = 2
    MaxTries = 3
INVARIANTS
    SuccessMeansStored
PROPERTIES
    WritesDoneWhenAllAnswered
    
CHECK_DEADLOCK FALSE
