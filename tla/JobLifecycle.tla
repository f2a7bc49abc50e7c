---------------------------- MODULE JobLifecycle ----------------------------
(***************************************************************************)
(* What the background-job registry (crates/oz-core/src/jobs.rs) promises  *)
(* of one job record: it is created running, may be asked to stop, reaches *)
(* exactly one terminal status, keeps it, and may finally be forgotten.    *)
(* JobRegistry.tla is shown to implement this specification.               *)
(***************************************************************************)

CONSTANT Ids    \* the job ids the registry can hand out

VARIABLE state  \* the lifecycle state of every id

Terminal == {"completed", "killed", "failed"}
States == {"none", "running", "stopping", "gone"} \cup Terminal

(***************************************************************************)
(* The legal changes.  A job that was asked to stop never ends as          *)
(* "completed", a job nobody asked to stop never ends as "killed", and     *)
(* nothing leaves a terminal status except housekeeping.                   *)
(***************************************************************************)
Legal ==
  {<<"none", "running">>, <<"running", "stopping">>}
    \cup ({"running"} \X {"completed", "failed"})
    \cup ({"stopping"} \X {"killed", "failed"})
    \cup (Terminal \X {"gone"})

Init == state = [id \in Ids |-> "none"]

\* Stopping a whole session, or pruning, changes several records at once.
Next ==
  /\ state' \in [Ids -> States]
  /\ \A id \in Ids : state'[id] # state[id] => <<state[id], state'[id]>> \in Legal

Spec == Init /\ [][Next]_state

=============================================================================
