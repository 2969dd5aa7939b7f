---------------------------- MODULE MCUserManager ----------------------------
(* Instances of UserManager for TLC. *)
EXTENDS UserManager, TLC

Symmetry == Permutations(Requests) \cup Permutations(Passwords)
                \cup Permutations(Tokens) \cup Permutations(Users \ {Admin})

=============================================================================
