SPECIFICATION Spec
CONSTANTS
    r = r
    d1 = d1
    Dirs = {r, d1}
    Root = r
    Parent <- MCParent
    Owner <- MCOwner
    f1 = f1
    Files = {f1}
    FirstFiles <- MCFirstFiles
    FirstHash = h1
    Ignored = {d1}
    HashMethods = {h0}
    NoHash = h0
    None = None
    Threads = {0, 1}
    PoolSize = 3
    MaxEvents = 1
    MaxCalls = 2
INVARIANTS
    
    
    SyncLocalCopies
    
    
PROPERTIES
    WalksAreTraversals
    
CHECK_DEADLOCK FALSE
