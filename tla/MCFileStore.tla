----------------------------- MODULE MCFileStore -----------------------------
(* Partitions, the file store, HTTP forms and paths, for TLC. *)
EXTENDS FileStore, Paths, Multipart

CONSTANTS MaxSize, MaxPartitionSize
MCSizes == 0 .. MaxSize
MCPartitionSizes == 1 .. MaxPartitionSize

\* Two partitions; one that may be written in part; one that is refused.
MCStoreSizes == {<<2, 1>>, <<2, 2>>, <<1, 2>>}
MCSymmetry == Permutations(Uploads)

\* Pairs for Relative (absolute ones longer), and paths with dots for SimplifyPath.
MCPathInputs ==
    LET relatives == SeqOf({"/", "a", "b"}, 3)
        pairs == relatives \cup {Slash \o s : s \in relatives}
    IN  (pairs \X pairs) \cup (SeqOf({"/", ".", "a"}, 6) \X {<<>>})

\* A behaviour is one of one of the modules.
VARIABLE uses
allVars == <<vars, storeVars, pathVars, formVars, uses>>

MCInit ==
    /\ uses \in {"Partition", "FileStore", "Paths", "Multipart"}
    /\ Init /\ StoreInit
    /\ uses = "FileStore" => <<file_size, partition_size>> \in MCStoreSizes
    /\ uses \in {"Paths", "Multipart"} => file_size = 0 /\ partition_size = 1
    /\ IF uses = "Paths" THEN PathInit
       ELSE path = <<>> /\ base = <<>> /\ relative = NotCalled
    /\ form \in IF uses = "Multipart" THEN Forms ELSE {<<>>}
    /\ FormInit

MCNext ==
    \/ /\ uses = "Partition" /\ Next
       /\ UNCHANGED <<storeVars, pathVars, formVars, uses>>
    \/ /\ uses = "FileStore" /\ StoreNext
       /\ UNCHANGED <<partition_num, refused, written, pathVars, formVars, uses>>
    \/ /\ uses = "Paths" /\ PathNext
       /\ UNCHANGED <<vars, storeVars, formVars, uses>>
    \/ /\ uses = "Multipart" /\ FormNext
       /\ UNCHANGED <<vars, storeVars, pathVars, uses>>

MCSpec == MCInit /\ [][MCNext]_allVars

==============================================================================
