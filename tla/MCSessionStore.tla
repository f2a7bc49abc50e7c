--------------------------- MODULE MCSessionStore ---------------------------
(* Instances of SessionStore for TLC. *)
EXTENDS SessionStore, TLC

Symmetry == Permutations(Ids)
=============================================================================
