SPECIFICATION MCSpec
CONSTANTS
    Bidi = {b1}
    Normal = {}
    Spare = {s1}
    num_event_threads = 2
    MaxRequests = 1
INVARIANTS
    ServersEndFirst
    FailedConnectionOnlyInShutdown
PROPERTIES
    SignalEndsServer
    RepeatedSignalEndsServer
CHECK_DEADLOCK FALSE
