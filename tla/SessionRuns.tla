----------------------------- MODULE SessionRuns ----------------------------
(***************************************************************************)
(* How agent runs of a conversation are started, stopped, detached and     *)
(* cleaned up: the desktop commands (src-tauri/src/commands.rs), the run   *)
(* itself as far as it touches the shared maps (src-tauri/src/runner.rs)   *)
(* and the IM bridge that shares those maps (crates/oz-platform/src/       *)
(* bridge.rs).                                                             *)
(*                                                                         *)
(* Each map of AppState has its own mutex and no command holds one across  *)
(* two of the steps below, so one action is one critical section (or one   *)
(* step of a task), and commands of one session interleave with each other *)
(* and with the tasks they spawned.  What a run says to the model, parked  *)
(* questions and reminders' clocks are not modelled.                       *)
(***************************************************************************)
EXTENDS Naturals, Sequences, FiniteSets

CONSTANTS
  Sessions,   \* conversations
  Commands,   \* the start commands in use, a subset of DOMAIN Program
  MaxRuns,    \* bound: start commands issued
  MaxStops,   \* bound: stop_session calls issued
  Cap         \* the limit on running_agents.len(), 3 in the code

ASSUME SizesAssumption ==
  MaxRuns \in Nat /\ MaxStops \in Nat /\ Cap \in Nat \ {0}

Runs == 1..MaxRuns
None == 0                          \* no such key in the map

(***************************************************************************)
(* The commands that start a run, as the critical sections they go         *)
(* through.  `rerun` is regenerate and resume_session, `reminder` is       *)
(* deliver_fired_reminder followed by start_reminder_run, `platform` is    *)
(* AgentBridge::send_message.                                              *)
(***************************************************************************)
Program ==
  [send     |-> <<"store", "clear", "gate", "spawn", "insert">>,
   rerun    |-> <<"clear", "single", "store", "spawn", "insert">>,
   reminder |-> <<"queue", "gate", "store", "clear", "gate", "spawn", "insert">>,
   platform |-> <<"store", "replace", "signal", "spawn", "insert">>]

ASSUME CommandsAssumption == Commands \subseteq DOMAIN Program

VARIABLES
  cmd,        \* the start command of a run: its kind, session and next step
  outer,      \* the wrapper task that owns the AgentSessionGuard
  inner,      \* run_agent_for_session, or the one task of a platform run
  killing,    \* platform runs whose task was told to abort
  running,    \* running_agents: session -> handle
  detached,   \* detached_agents: session -> handle
  queueOf,    \* intervention_queues: session -> the run whose queue it is
  signalOf,   \* stop_signals: session -> the run that created the signal
  signal,     \* the signal a run's loop polls
  raised,     \* the signals that are true
  stop,       \* stop_session of a session: idle, waiting or detaching
  taken,      \* the handle a detaching stop_session holds
  status,     \* SessionStatus in the session store
  stopCount,  \* stop_session calls so far
  unseen      \* history: <<q, k>> when k was filed after q had been let through

maps == <<running, detached, queueOf, signalOf>>
signals == <<signal, raised>>
stops == <<stop, taken, stopCount>>
vars == <<cmd, outer, inner, killing, maps, signals, stops, status, unseen>>

Idle == [kind |-> "none", session |-> "nobody", pc |-> 0]
Calls == {Idle} \cup [kind : Commands, session : Sessions, pc : 1..8]
Over == 8                          \* pc of a command that returned

At(r, step) ==
  /\ cmd[r].kind \in Commands
  /\ cmd[r].pc \in 1..Len(Program[cmd[r].kind])
  /\ Program[cmd[r].kind][cmd[r].pc] = step
Sess(r) == cmd[r].session
IsPlatform(r) == cmd[r].kind = "platform"
Advance(r) == cmd' = [cmd EXCEPT ![r].pc = @ + 1]
Return(r) == cmd' = [cmd EXCEPT ![r].pc = Over]

\* The agent loop of the run is executing, or about to, or still cleaning up.
Alive(r) == inner[r] \in {"starting", "queued", "looping", "ended", "unsignalled"}

Init ==
  /\ cmd = [r \in Runs |-> Idle]
  /\ outer = [r \in Runs |-> "none"]
  /\ inner = [r \in Runs |-> "none"]
  /\ killing = {}
  /\ running = [s \in Sessions |-> None]
  /\ detached = [s \in Sessions |-> None]
  /\ queueOf = [s \in Sessions |-> None]
  /\ signalOf = [s \in Sessions |-> None]
  /\ signal = [r \in Runs |-> None]
  /\ raised = {}
  /\ stop = [s \in Sessions |-> "idle"]
  /\ taken = [s \in Sessions |-> None]
  /\ stopCount = 0
  /\ status = [s \in Sessions |-> "idle"]
  /\ unseen = {}

-----------------------------------------------------------------------------
(* Start commands.                                                         *)

Call(r, s, k) ==
  /\ cmd[r] = Idle
  /\ \A q \in Runs : q < r => cmd[q] # Idle
  /\ cmd' = [cmd EXCEPT ![r] = [kind |-> k, session |-> s, pc |-> 1]]
  /\ UNCHANGED <<outer, inner, killing, maps, signals, stops, status, unseen>>

\* The user turn goes into the store and the session is marked Running.
StoreTurn(r) ==
  /\ At(r, "store")
  /\ status' = [status EXCEPT ![Sess(r)] = "running"]
  /\ Advance(r)
  /\ UNCHANGED <<outer, inner, killing, maps, signals, stops, unseen>>

\* regenerate without a user message, resume without a checkpoint.
NothingToRerun(r) ==
  /\ At(r, "store")
  /\ cmd[r].kind = "rerun"
  /\ Return(r)
  /\ UNCHANGED <<outer, inner, killing, maps, signals, stops, status, unseen>>

\* JoinHandle::abort.  A desktop handle is that of the wrapper task.
Abort(h) ==
  IF IsPlatform(h)
    THEN /\ killing' = killing \cup {h}
         /\ UNCHANGED outer
    ELSE /\ outer' = [outer EXCEPT ![h] = IF @ = "spawned" THEN "gone"
                                          ELSE IF @ = "live" THEN "aborted" ELSE @]
         /\ UNCHANGED killing

\* abort_detached_agent.
ClearDetached(r) ==
  /\ At(r, "clear")
  /\ detached' = [detached EXCEPT ![Sess(r)] = None]
  /\ IF detached[Sess(r)] = None THEN UNCHANGED <<outer, killing>>
                                 ELSE Abort(detached[Sess(r)])
  /\ Advance(r)
  /\ UNCHANGED <<inner, running, queueOf, signalOf, signals, stops, status, unseen>>

\* deliver_fired_reminder: a run with a queue takes the reminder, no run is started.
QueueReminder(r) ==
  /\ At(r, "queue")
  /\ IF queueOf[Sess(r)] # None THEN Return(r) ELSE Advance(r)
  /\ UNCHANGED <<outer, inner, killing, maps, signals, stops, status, unseen>>

Full == Cardinality({s \in Sessions : running[s] # None}) >= Cap

\* The single-flight and concurrency gate; the lock is released after it.
Gate(r) ==
  /\ At(r, "gate") \/ At(r, "single")
  /\ IF running[Sess(r)] # None \/ (At(r, "gate") /\ Full)
       THEN Return(r) ELSE Advance(r)
  /\ UNCHANGED <<outer, inner, killing, maps, signals, stops, status, unseen>>

\* AgentBridge: signal and abort whatever runs under this id.
Replace(r) ==
  LET s == Sess(r) IN
  /\ At(r, "replace")
  /\ running' = [running EXCEPT ![s] = None]
  /\ IF running[s] = None
       THEN UNCHANGED <<outer, killing, raised>>
       ELSE /\ raised' = raised \cup ({signalOf[s]} \ {None})
            /\ Abort(running[s])
  /\ Advance(r)
  /\ UNCHANGED <<inner, detached, queueOf, signalOf, signal, stops, status, unseen>>

\* AgentBridge: a fresh signal replaces the one in the map.
InsertSignal(r) ==
  /\ At(r, "signal")
  /\ signalOf' = [signalOf EXCEPT ![Sess(r)] = r]
  /\ signal' = [signal EXCEPT ![r] = r]
  /\ Advance(r)
  /\ UNCHANGED <<outer, inner, killing, running, detached, queueOf, raised, stops,
                 status, unseen>>

\* AgentBridge: the configuration cannot be read, or names no usable model.
BadConfig(r) ==
  /\ At(r, "signal")
  /\ Return(r)
  /\ UNCHANGED <<outer, inner, killing, maps, signals, stops, status, unseen>>

Spawn(r) ==
  /\ At(r, "spawn")
  /\ IF IsPlatform(r)
       THEN inner' = [inner EXCEPT ![r] = "looping"] /\ UNCHANGED outer
       ELSE outer' = [outer EXCEPT ![r] = "spawned"] /\ UNCHANGED inner
  /\ Advance(r)
  /\ UNCHANGED <<killing, maps, signals, stops, status, unseen>>

\* The command is past its gate (the bridge: past its replacement of the handle).
Admitted(r) ==
  \/ At(r, "signal") \/ At(r, "spawn") \/ At(r, "insert")
  \/ At(r, "store") /\ cmd[r].kind = "rerun"

\* The handle is filed only now; the one it overwrites is forgotten.
InsertHandle(r) ==
  /\ At(r, "insert")
  /\ running' = [running EXCEPT ![Sess(r)] = r]
  /\ unseen' = unseen \cup {<<q, r>> : q \in {q \in Runs \ {r} :
                                             Admitted(q) /\ Sess(q) = Sess(r)}}
  /\ Return(r)
  /\ UNCHANGED <<outer, inner, killing, detached, queueOf, signalOf, signals, stops,
                 status>>

-----------------------------------------------------------------------------
(* The run.                                                                *)

\* First poll of the wrapper: it spawns the run as a task of its own.
OuterStarts(r) ==
  /\ outer[r] = "spawned"
  /\ outer' = [outer EXCEPT ![r] = "live"]
  /\ inner' = [inner EXCEPT ![r] = "starting"]
  /\ UNCHANGED <<cmd, killing, maps, signals, stops, status, unseen>>

\* An early error return, or a panic anywhere before the run persisted.
RunFails(r) ==
  /\ Alive(r)
  /\ ~IsPlatform(r)
  /\ inner' = [inner EXCEPT ![r] = "failed"]
  /\ UNCHANGED <<cmd, outer, killing, maps, signals, stops, status, unseen>>

RegisterQueue(r) ==
  /\ inner[r] = "starting"
  /\ inner' = [inner EXCEPT ![r] = "queued"]
  /\ queueOf' = [queueOf EXCEPT ![Sess(r)] = r]
  /\ UNCHANGED <<cmd, outer, killing, running, detached, signalOf, signals, stops,
                 status, unseen>>

\* entry(..).or_insert_with(..): a signal already in the map is reused as it is.
AcquireSignal(r) ==
  LET s == Sess(r) IN
  /\ inner[r] = "queued"
  /\ inner' = [inner EXCEPT ![r] = "looping"]
  /\ signalOf' = [signalOf EXCEPT ![s] = IF @ = None THEN r ELSE @]
  /\ signal' = [signal EXCEPT ![r] = signalOf'[s]]
  /\ UNCHANGED <<cmd, outer, killing, running, detached, queueOf, raised, stops,
                 status, unseen>>

\* The loop returned: its signal is up, or the task is done or out of budget.
LoopEnds(r) ==
  /\ inner[r] = "looping"
  /\ inner' = [inner EXCEPT ![r] = "ended"]
  /\ UNCHANGED <<cmd, outer, killing, maps, signals, stops, status, unseen>>

RemoveSignal(r) ==
  /\ inner[r] = "ended"
  /\ inner' = [inner EXCEPT ![r] = "unsignalled"]
  /\ signalOf' = [signalOf EXCEPT ![Sess(r)] = None]
  /\ UNCHANGED <<cmd, outer, killing, running, detached, queueOf, signals, stops,
                 status, unseen>>

\* The assistant message goes into the store and the session is Idle.
Persist(r) ==
  /\ inner[r] = "unsignalled"
  /\ inner' = [inner EXCEPT ![r] = "done"]
  /\ status' = [status EXCEPT ![Sess(r)] = "idle"]
  /\ UNCHANGED <<cmd, outer, killing, maps, signals, stops, unseen>>

\* An aborted platform task is dropped where it awaits, inside the loop.
PlatformKilled(r) ==
  /\ r \in killing
  /\ inner[r] = "looping"
  /\ inner' = [inner EXCEPT ![r] = "killed"]
  /\ UNCHANGED <<cmd, outer, killing, maps, signals, stops, status, unseen>>

\* Mutation: the error path writes a status the store does not know.
OuterJoinsInError(r) ==
  /\ outer[r] = "live"
  /\ inner[r] \in {"done", "failed"}
  /\ outer' = [outer EXCEPT ![r] = "dropping"]
  /\ status' = [status EXCEPT ![Sess(r)] = IF inner[r] = "failed" THEN "error" ELSE @]
  /\ UNCHANGED <<cmd, inner, killing, maps, signals, stops, unseen>>

\* inner.await returned; emit_agent_run_error resets the status of a failed run.
OuterJoins(r) ==
  /\ outer[r] = "live"
  /\ inner[r] \in {"done", "failed"}
  /\ outer' = [outer EXCEPT ![r] = "dropping"]
  /\ status' = [status EXCEPT ![Sess(r)] = IF inner[r] = "failed" /\ @ = "running"
                                           THEN "idle" ELSE @]
  /\ UNCHANGED <<cmd, inner, killing, maps, signals, stops, unseen>>

\* The aborted wrapper is dropped at inner.await; the inner task is not.
OuterDropped(r) ==
  /\ outer[r] = "aborted"
  /\ outer' = [outer EXCEPT ![r] = "dropping"]
  /\ UNCHANGED <<cmd, inner, killing, maps, signals, stops, status, unseen>>

\* Mutation: the guard removes whatever handle is under its session id.
GuardAnyHandle(r) ==
  /\ outer[r] = "dropping"
  /\ outer' = [outer EXCEPT ![r] = "dropped"]
  /\ running' = [running EXCEPT ![Sess(r)] = None]
  /\ UNCHANGED <<cmd, inner, killing, detached, queueOf, signalOf, signals, stops,
                 status, unseen>>

\* AgentSessionGuard::drop, the handle: only if it is this task's own.
GuardHandle(r) ==
  /\ outer[r] = "dropping"
  /\ outer' = [outer EXCEPT ![r] = "dropped"]
  /\ running' = [running EXCEPT ![Sess(r)] = IF @ = r THEN None ELSE @]
  /\ UNCHANGED <<cmd, inner, killing, detached, queueOf, signalOf, signals, stops,
                 status, unseen>>

\* AgentSessionGuard::drop, the other maps: whatever is under the session id.
GuardRest(r) ==
  /\ outer[r] = "dropped"
  /\ outer' = [outer EXCEPT ![r] = "gone"]
  /\ detached' = [detached EXCEPT ![Sess(r)] = None]
  /\ queueOf' = [queueOf EXCEPT ![Sess(r)] = None]
  /\ signalOf' = [signalOf EXCEPT ![Sess(r)] = None]
  /\ UNCHANGED <<cmd, inner, killing, running, signals, stops, status, unseen>>

-----------------------------------------------------------------------------
(* stop_session, the IM /stop, and the repair of a ghost session.          *)

StopBegins(s) ==
  /\ stop[s] = "idle"
  /\ stopCount < MaxStops
  /\ stop' = [stop EXCEPT ![s] = "waiting"]
  /\ stopCount' = stopCount + 1
  /\ raised' = raised \cup ({signalOf[s]} \ {None})
  /\ UNCHANGED <<cmd, outer, inner, killing, maps, signal, status, taken, unseen>>

StopReturns(s) ==
  /\ stop' = [stop EXCEPT ![s] = "idle"]
  /\ taken' = [taken EXCEPT ![s] = None]

\* A poll finds the handle gone.
StopSeesEnd(s) ==
  /\ stop[s] = "waiting"
  /\ running[s] = None
  /\ StopReturns(s)
  /\ UNCHANGED <<cmd, outer, inner, killing, maps, signals, stopCount, status, unseen>>

\* Mutation: give up after ten seconds and leave the handle where it is.
StopGivesUp(s) ==
  /\ stop[s] = "waiting"
  /\ running[s] # None
  /\ StopReturns(s)
  /\ UNCHANGED <<cmd, outer, inner, killing, maps, signals, stopCount, status, unseen>>

\* Mutation: force-abort the agent after ten seconds.
StopKills(s) ==
  /\ stop[s] = "waiting"
  /\ running[s] # None
  /\ running' = [running EXCEPT ![s] = None]
  /\ stop' = [stop EXCEPT ![s] = "detaching"]
  /\ taken' = [taken EXCEPT ![s] = running[s]]
  /\ inner' = [inner EXCEPT ![running[s]] = IF Alive(running[s]) THEN "killed" ELSE @]
  /\ UNCHANGED <<cmd, outer, killing, detached, queueOf, signalOf, signals, stopCount,
                 status, unseen>>

\* Ten seconds passed: take the handle out of running_agents ...
StopTimesOut(s) ==
  /\ stop[s] = "waiting"
  /\ running[s] # None
  /\ running' = [running EXCEPT ![s] = None]
  /\ stop' = [stop EXCEPT ![s] = "detaching"]
  /\ taken' = [taken EXCEPT ![s] = running[s]]
  /\ UNCHANGED <<cmd, outer, inner, killing, detached, queueOf, signalOf, signals,
                 stopCount, status, unseen>>

\* ... and file it under detached_agents.
StopDetaches(s) ==
  /\ stop[s] = "detaching"
  /\ detached' = [detached EXCEPT ![s] = taken[s]]
  /\ StopReturns(s)
  /\ UNCHANGED <<cmd, outer, inner, killing, running, queueOf, signalOf, signals,
                 stopCount, status, unseen>>

PlatformStop(s) ==
  /\ "platform" \in Commands
  /\ raised' = raised \cup ({signalOf[s]} \ {None})
  /\ status' = [status EXCEPT ![s] = "stopped"]
  /\ UNCHANGED <<cmd, outer, inner, killing, maps, signal, stops, unseen>>

\* list_sessions and get_session: Running in the store, no handle in the map.
Recover(s) ==
  /\ status[s] = "running"
  /\ running[s] = None
  /\ status' = [status EXCEPT ![s] = "idle"]
  /\ UNCHANGED <<cmd, outer, inner, killing, maps, signals, stops, unseen>>

-----------------------------------------------------------------------------
StartStep(r) ==
  \/ StoreTurn(r) \/ NothingToRerun(r) \/ ClearDetached(r) \/ QueueReminder(r)
  \/ Gate(r) \/ Replace(r) \/ InsertSignal(r) \/ BadConfig(r) \/ Spawn(r)
  \/ InsertHandle(r)
RunStep(r) ==
  \/ OuterStarts(r) \/ RunFails(r) \/ RegisterQueue(r) \/ AcquireSignal(r)
  \/ LoopEnds(r) \/ RemoveSignal(r) \/ Persist(r) \/ PlatformKilled(r)
  \/ OuterJoins(r) \/ OuterDropped(r) \/ GuardHandle(r) \/ GuardRest(r)
StopStep(s) == StopSeesEnd(s) \/ StopTimesOut(s) \/ StopDetaches(s)

Next ==
  \/ \E r \in Runs, s \in Sessions, k \in Commands : Call(r, s, k)
  \/ \E r \in Runs : StartStep(r) \/ RunStep(r)
  \/ \E s \in Sessions : StopBegins(s) \/ StopStep(s) \/ PlatformStop(s) \/ Recover(s)

(***************************************************************************)
(* Spawned tasks run to their end; a stop polls until it sees the end or   *)
(* its ten seconds are over; an agent loop returns, since its turns are    *)
(* bounded.                                                                *)
(***************************************************************************)
Fairness ==
  /\ \A r \in Runs : WF_vars(RunStep(r))
  /\ \A s \in Sessions : WF_vars(StopStep(s))

Spec == Init /\ [][Next]_vars
FairSpec == Spec /\ Fairness

-----------------------------------------------------------------------------
(* Properties.                                                             *)

TypeOK ==
  /\ cmd \in [Runs -> Calls]
  /\ outer \in [Runs -> {"none", "spawned", "live", "aborted", "dropping",
                         "dropped", "gone"}]
  /\ inner \in [Runs -> {"none", "starting", "queued", "looping", "ended",
                         "unsignalled", "done", "failed", "killed"}]
  /\ killing \subseteq Runs
  /\ running \in [Sessions -> 0..MaxRuns]
  /\ detached \in [Sessions -> 0..MaxRuns]
  /\ queueOf \in [Sessions -> 0..MaxRuns]
  /\ signalOf \in [Sessions -> 0..MaxRuns]
  /\ signal \in [Runs -> 0..MaxRuns]
  /\ raised \subseteq Runs
  /\ stop \in [Sessions -> {"idle", "waiting", "detaching"}]
  /\ taken \in [Sessions -> 0..MaxRuns]
  /\ stopCount \in 0..MaxStops
  /\ status \in [Sessions -> {"idle", "running", "stopped"}]
  /\ unseen \subseteq Runs \X Runs

(***************************************************************************)
(* A run that was told nothing is still at work: its wrapper runs and was  *)
(* not aborted, or it is a platform task nobody told to abort.             *)
(***************************************************************************)
AtWork(r) ==
  \/ outer[r] \in {"spawned", "live"}
  \/ IsPlatform(r) /\ inner[r] = "looping" /\ r \notin killing

(***************************************************************************)
(* running_agents forgets a run at work, whether its entry is cleared or   *)
(* overwritten, in two ways only: a Stop takes the handle to detach it, or *)
(* a start command files its own over it which was let through the gate    *)
(* before this run was filed, the window the gate leaves open since it     *)
(* releases the lock (commands.rs 2892-2898) before the insert (2940).     *)
(* Neither the cleanup of an older run of the session, which may come at   *)
(* any time after the newer one was filed, nor a command that came later,  *)
(* takes it out; the bridge takes only what it aborts.                     *)
(***************************************************************************)
NeverForgotten ==
  [][\A s \in Sessions, k \in Runs :
       (running[s] = k /\ running'[s] # k /\ AtWork(k)')
         => taken'[s] = k \/ <<running'[s], k>> \in unseen]_vars

\* The wrapper of the run was aborted for a newer run; abort() does not reach
\* the agent itself, which goes on (AbortedRunIsOver).
Superseded(r) ==
  Alive(r) /\ outer[r] \in {"aborted", "dropping", "dropped", "gone"}

(***************************************************************************)
(* "Never force-aborts ... after_run must execute to persist messages"     *)
(* (commands.rs 2977-2979): a desktop run whose loop was entered gets to   *)
(* persist its messages unless it panics or a newer run aborts it, however *)
(* often it was stopped, timed out on and detached in between.  What       *)
(* becomes of a superseded run is not asked here.                          *)
(***************************************************************************)
EveryRunPersists ==
  \A r \in Runs :
    (inner[r] = "looping" /\ ~IsPlatform(r))
      ~> (inner[r] \in {"done", "failed"} \/ Superseded(r))

(***************************************************************************)
(* A Stop frees the session: the run it found under the id, alive or a     *)
(* leftover, does not stay in running_agents, where it would refuse every  *)
(* later message.                                                          *)
(***************************************************************************)
StopFreesSession ==
  \A s \in Sessions, r \in Runs :
    (stop[s] = "waiting" /\ running[s] = r) ~> (running[s] # r)

(***************************************************************************)
(* stop_running_agent says a new run aborts the detached one "so two       *)
(* agents can never write the same session concurrently".  abort() reaches *)
(* the wrapper task only: the agent inside keeps running beside the new.   *)
(***************************************************************************)
AbortedRunIsOver ==
  \A r, q \in Runs :
    ~ /\ r # q /\ Sess(r) = Sess(q)
      /\ ~IsPlatform(r) /\ ~IsPlatform(q)
      /\ outer[r] \notin {"none", "spawned", "live"}
      /\ Alive(r) /\ Alive(q)

(***************************************************************************)
(* stop_running_agent files the handle of a run it waited ten seconds for  *)
(* under detached_agents: "the task will finish naturally when stop_signal *)
(* takes effect" (commands.rs 3019).  So a detached run that still loops   *)
(* polls a raised signal.  It does not when the Stop found no signal under *)
(* the session: the run had not registered one yet, or the guard of an     *)
(* older run had removed the newer run's.                                  *)
(***************************************************************************)
DetachedIsStopping ==
  \A s \in Sessions, r \in Runs :
    (detached[s] = r /\ inner[r] = "looping") => signal[r] \in raised
=============================================================================
