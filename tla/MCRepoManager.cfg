SPECIFICATION Spec
CONSTANTS
    Requests = {r1, r2, r3, r4}
    Dirs = {d1, d2}
    None = None
    Torn = Torn
    MaxInFlight = 1
SYMMETRY Symmetry
INVARIANTS
    FlushedReposOnDisk
    OneRepoPerDirectory
CHECK_DEADLOCK FALSE
