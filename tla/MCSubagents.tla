----------------------------- MODULE MCSubagents ----------------------------
(* Instances of Subagents for TLC: one root, children interchangeable. *)
EXTENDS Subagents, TLC

ChildrenSymmetry == Permutations(Children)
=============================================================================
