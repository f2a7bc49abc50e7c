----------------------------- MODULE MCAgentLoop -----------------------------
(* Instances of AgentLoop for TLC; a call is a string. *)
EXTENDS AgentLoop

\* Two identical calls at a time, calls that only read or ask, failing streams and
\* pauses come with the first reply; later replies act or respond.  What two
\* calls do together leaves the work alone; the first slot is used first; a
\* complex task starts without a list.
Narrow ==
  /\ pc = "llm" /\ pc' = "tools" =>
       /\ batch'[1] # Idle
       /\ \A s \in Slots \ {1} : batch'[s] # Idle => batch'[s].key = batch'[1].key
       /\ turn > 1 => /\ \A s \in Slots \ {1} : batch'[s] = Idle
                      /\ batch'[1].key \notin ReadOnly
                      /\ wrote # "none" => batch'[1].key \notin Questions
  /\ pc = "tools" /\ work' # work => \A s \in Slots \ {1} : batch[s] = Idle
  /\ errors' > errors => turn <= 1
  /\ pausing' /\ ~pausing => turn = 0 /\ ~stop
  /\ wrote' = "complex" /\ wrote # "complex" => todos' = "none"
=============================================================================
