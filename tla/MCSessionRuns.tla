---------------------------- MODULE MCSessionRuns ---------------------------
(* Instances of SessionRuns for TLC. *)
EXTENDS SessionRuns, TLC

CONSTANTS s1, s2

SessionSymmetry == Permutations(Sessions)
=============================================================================
