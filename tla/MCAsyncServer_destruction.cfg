SPECIFICATION Spec
CONSTANTS
    Bidi = {b1}
    Normal = {n1}
    Spare = {s1}
    num_event_threads = 2
    MaxRequests = 1
INVARIANTS
    AllRemovedAtDestruction
CHECK_DEADLOCK FALSE
