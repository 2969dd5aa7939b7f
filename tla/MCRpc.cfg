SPECIFICATION ServingSpec
CONSTANTS
    Bidi = {b1}
    Normal = {n1}
    Spare = {s1}
    num_event_threads = 2
    MaxRequests = 2
INVARIANTS
    NoUseAfterRemove
    PendingExact
    WireProtocol
PROPERTIES
    OverCallsRemoved
    UnaryCallsEnd
CHECK_DEADLOCK FALSE
