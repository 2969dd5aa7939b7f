------------------------------ MODULE Traversal ------------------------------
(***************************************************************************)
(* What a crew of workers that walks a tree promises: directories are      *)
(* found only below directories that are being visited, a directory leaves *)
(* only by being visited, and a walk is over only when none is left,       *)
(* unless it was interrupted.                                              *)
(***************************************************************************)
CONSTANTS Dirs, Children(_)

VARIABLES
    todo,           \* directories waiting or being visited
    phase,          \* no walk, a walk, or the walk is over
    interrupted     \* the walks were told to stop

vars == <<todo, phase, interrupted>>

Init == todo = {} /\ phase = "none" /\ interrupted = FALSE

\* A walk from some directories, or a call that ends without one.
Begin ==
    /\ phase = "none"
    /\ \/ phase' = "walk" /\ todo' \in SUBSET Dirs
       \/ phase' = "over" /\ todo' = {}
    /\ UNCHANGED interrupted

Visit(d) ==
    /\ phase = "walk" /\ d \in todo
    /\ \E found \in SUBSET Children(d) : todo' \in {todo \cup found, (todo \ {d}) \cup found}
    /\ UNCHANGED <<phase, interrupted>>

End ==
    /\ phase = "walk" /\ phase' = "over"
    /\ todo = {} \/ interrupted
    /\ todo' = {}
    /\ UNCHANGED interrupted

Interrupt == interrupted' = TRUE /\ UNCHANGED <<todo, phase>>

\* The call returns, or the process dies in it.
Leave == phase' = "none" /\ todo' = {} /\ interrupted' \in {interrupted, FALSE}

Next == Begin \/ (\E d \in Dirs : Visit(d)) \/ End \/ Interrupt \/ Leave

Spec == Init /\ [][Next]_vars

==============================================================================
