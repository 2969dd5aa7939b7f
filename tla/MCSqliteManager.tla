--------------------------- MODULE MCSqliteManager ---------------------------
(* Instances of SqliteManager for TLC: the files have no thumbnails. *)
EXTENDS SqliteManager

CONSTANTS u1, u2, f1, h

MCThumbHash == [f \in {f1} |-> h]

=============================================================================
