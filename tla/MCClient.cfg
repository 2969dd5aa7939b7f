SPECIFICATION MCSpec
CONSTANTS
    max_attempts = 2
    MaxCount = 4
    Unary = {u1}
    Streaming = {s1, s2}
    number_completion_queues_ = 1
    MaxStarts = 2
    MaxResponses = 1
INVARIANTS
    WriteResultTrue
    
PROPERTIES
    CallsGetFinalCallback
    PoolShutdownReturns
CHECK_DEADLOCK FALSE
