-------------------------- MODULE MCCheckpointStore -------------------------
(* Instances of CheckpointStore for TLC; every constant is a number. *)
EXTENDS CheckpointStore
=============================================================================
