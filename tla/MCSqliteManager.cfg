SPECIFICATION Spec
CONSTANTS
    u1 = u1
    u2 = u2
    f1 = f1
    h = h
    None = None
    Threads = {t1, t2}
    Users = {u1, u2}
    Single = {u1}
    Files = {f1}
    ThumbHash <- MCThumbHash
    kConnNum = 1
    MaxConns = 3
    MaxFaults = 1
    MaxCrashes = 1
    MaxCalls = 3
INVARIANTS
    PoolSound
    AnswersTrue
PROPERTY LockReleased
CHECK_DEADLOCK FALSE
