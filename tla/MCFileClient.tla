---------------------------- MODULE MCFileClient ----------------------------
(* Instances of FileClient for TLC. *)
EXTENDS FileClient, TLC

=============================================================================
