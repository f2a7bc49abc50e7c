--------------------------- MODULE MCJobRegistry ----------------------------
(***************************************************************************)
(* Instances of JobRegistry for TLC: one background command and one child  *)
(* agent, owned by either of two sessions.                                 *)
(***************************************************************************)
EXTENDS JobRegistry, TLC

CONSTANTS s1, s2

SessionSymmetry == Permutations(Sessions)
=============================================================================
