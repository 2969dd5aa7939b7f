---------------------------- MODULE MCRepoManager ----------------------------
(* Instances of RepoManager for TLC. *)
EXTENDS RepoManager, TLC

\* Requests, and directories, are interchangeable.
Symmetry == Permutations(Requests) \cup Permutations(Dirs)

=============================================================================
