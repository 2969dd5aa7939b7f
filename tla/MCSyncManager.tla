---------------------------- MODULE MCSyncManager ----------------------------
(* Instances of SyncManager for TLC: a directory and a sub-directory. *)
EXTENDS SyncManager

CONSTANTS r, d1, f1

MCParent == [d \in {d1} |-> r]
MCFirstFiles == [d \in {r, d1} |-> IF d = r THEN {f1} ELSE {}]
MCOwner == [d \in {r, d1} |-> IF d = r THEN 0 ELSE 1]

=============================================================================
