---------------------------- MODULE JobRegistry -----------------------------
(***************************************************************************)
(* The background job registry of OpenZen (crates/oz-core/src/jobs.rs) and *)
(* its two producers: background code_run (crates/oz-tools/src/job_bg.rs)  *)
(* and background spawn_agent (crates/oz-tools/src/spawn_agent.rs).        *)
(*                                                                         *)
(* Every critical section of the `entries` mutex is one action.  What the  *)
(* code does between two of them is a step of its own, so that the        *)
(* caller of start(), the settlement task, the producer and any number of  *)
(* readers and cancellers interleave as the tokio runtime lets them.       *)
(***************************************************************************)
EXTENDS Naturals, FiniteSets

CONSTANTS
  Sessions,   \* owner sessions
  MaxSeq,     \* bound: ids handed out per kind
  MaxChunks,  \* bound: chunks of output one job writes
  OutputCap   \* OUTPUT_CAP, in chunks

ASSUME BoundsAssumption ==
  /\ MaxSeq \in Nat
  /\ MaxChunks \in Nat
  /\ OutputCap \in Nat \ {0}

Kinds == {"bash", "agent"}         \* JobKind; no producer registers `tool`
Ids == Kinds \X (1..MaxSeq)        \* "<kind>-N"
Chunks == 1..MaxChunks             \* the n-th piece of output of a job
TruncationMark == 0                \* "[... output truncated; ...]"
Text == SUBSET (Chunks \cup {TruncationMark})

VARIABLES
  seq,        \* seq_bash, seq_agent
  phase,      \* how far the start() call / settlement task of an id got
  entries,    \* the registry map; status "absent" = no record under this id
  cancels,    \* ids whose cancel hook was cloned out of the lock, not yet called
  producer,   \* the producer of an id: idle, working, or what it reported
  cancelled,  \* the producer was told to stop
  ring,       \* output the producer holds for the next read of the cursor
  written,    \* how many chunks the producer wrote so far
  \* What an observer saw; the code keeps none of it.
  delivered,  \* output handed to a reader
  dropped,    \* output the full ring pushed out
  settledAt,  \* `written` when the settlement task drained the cursor
  events      \* listener calls made for the id, and the status of the last

output == <<ring, written, delivered, dropped, settledAt>>
vars == <<seq, phase, entries, cancels, producer, cancelled, output, events>>

Terminal == {"completed", "killed", "failed"}     \* JobStatus::is_terminal
Statuses == {"absent", "running", "stopping"} \cup Terminal
Outcomes == {"completed", "killed", "failed", "dropped"}
Phases == {"unused", "allocated", "refused", "ran", "inserted", "waiting",
           "committed", "announced"}
Owners == Sessions \cup {"nobody"}

Absent == [status |-> "absent", owner |-> "nobody", cursor |-> FALSE,
           pending_final |-> {}, reported |-> FALSE]
Entry == [status : Statuses, owner : Owners, cursor : BOOLEAN,
          pending_final : Text, reported : BOOLEAN]
Calls == 0..2                      \* a listener call that came twice shows as 2
Events == [started : Calls, finished : Calls, status : Statuses]

Live(id) == entries[id].status \in {"running", "stopping"}
Settled(id) == entries[id].status \in Terminal

Init ==
  /\ seq = [k \in Kinds |-> 0]
  /\ phase = [id \in Ids |-> "unused"]
  /\ entries = [id \in Ids |-> Absent]
  /\ cancels = {}
  /\ producer = [id \in Ids |-> "idle"]
  /\ cancelled = [id \in Ids |-> FALSE]
  /\ ring = [id \in Ids |-> {}]
  /\ written = [id \in Ids |-> 0]
  /\ delivered = [id \in Ids |-> {}]
  /\ dropped = [id \in Ids |-> {}]
  /\ settledAt = [id \in Ids |-> 0]
  /\ events = [id \in Ids |-> [started |-> 0, finished |-> 0, status |-> "absent"]]

-----------------------------------------------------------------------------
(* start(): preflight, run, insert, announce, spawn the settlement task.   *)

\* next_id: one atomic fetch_add per kind.
NextId(k) ==
  /\ seq[k] < MaxSeq
  /\ seq' = [seq EXCEPT ![k] = @ + 1]
  /\ phase' = [phase EXCEPT ![<<k, seq[k] + 1>>] = "allocated"]
  /\ UNCHANGED <<entries, cancels, producer, cancelled, output, events>>

\* (spec.run)(ctx)?: an error leaves no record behind, only a gap in the ids.
RunRefused(id) ==
  /\ phase[id] = "allocated"
  /\ phase' = [phase EXCEPT ![id] = "refused"]
  /\ UNCHANGED <<seq, entries, cancels, producer, cancelled, output, events>>

\* (spec.run)(ctx): the producer works from here on, before the record exists.
RunStarted(id) ==
  /\ phase[id] = "allocated"
  /\ phase' = [phase EXCEPT ![id] = "ran"]
  /\ producer' = [producer EXCEPT ![id] = "working"]
  /\ UNCHANGED <<seq, entries, cancels, cancelled, output, events>>

Insert(id, s) ==
  /\ phase[id] = "ran"
  /\ phase' = [phase EXCEPT ![id] = "inserted"]
  /\ entries' = [entries EXCEPT ![id] =
                   [status |-> "running", owner |-> s, cursor |-> TRUE,
                    pending_final |-> {}, reported |-> FALSE]]
  /\ UNCHANGED <<seq, cancels, producer, cancelled, output, events>>

\* emit(Started(snapshot)) with the snapshot start() built, then tokio::spawn.
EmitStarted(id) ==
  /\ phase[id] = "inserted"
  /\ phase' = [phase EXCEPT ![id] = "waiting"]
  /\ events' = [events EXCEPT ![id].started = @ + 1, ![id].status = "running"]
  /\ UNCHANGED <<seq, entries, cancels, producer, cancelled, output>>

\* Mutation: trust the producer's word alone, a dropped channel included.
SettledStatusAsReported(status, outcome) == outcome

\* Mutation: forget that the record was stopping.
SettledStatusIgnoresStop(status, outcome) ==
  IF outcome = "dropped" THEN "failed" ELSE outcome

\* The status the settlement commits, from the record and the producer's word.
SettledStatus(status, outcome) ==
  IF outcome = "dropped" THEN "failed"
  ELSE IF status = "stopping" /\ outcome # "failed" THEN "killed"
  ELSE outcome

\* Mutation: drop the cursor without draining it into pending_final.
SettleDropsCursor(id) ==
  /\ phase[id] = "waiting"
  /\ producer[id] \in Outcomes
  /\ phase' = [phase EXCEPT ![id] = "committed"]
  /\ entries' = [entries EXCEPT ![id].status = SettledStatus(@, producer[id]),
                                ![id].cursor = FALSE]
  /\ settledAt' = [settledAt EXCEPT ![id] = written[id]]
  /\ UNCHANGED <<seq, cancels, producer, cancelled, ring, written, delivered,
                 dropped, events>>

\* The settlement task, under the lock: commit, drain the cursor.
Settle(id) ==
  /\ phase[id] = "waiting"
  /\ producer[id] \in Outcomes
  /\ IF entries[id].status = "absent"
       THEN /\ phase' = [phase EXCEPT ![id] = "announced"]
            /\ UNCHANGED <<entries, ring, settledAt>>
       ELSE /\ phase' = [phase EXCEPT ![id] = "committed"]
            /\ entries' = [entries EXCEPT ![id].status = SettledStatus(@, producer[id]),
                                          ![id].cursor = FALSE,
                                          ![id].pending_final = ring[id]]
            /\ ring' = [ring EXCEPT ![id] = {}]
            /\ settledAt' = [settledAt EXCEPT ![id] = written[id]]
  /\ UNCHANGED <<seq, cancels, producer, cancelled, written, delivered, dropped, events>>

\* emit(Finished(snapshot)), after the lock was released.
EmitFinished(id) ==
  /\ phase[id] = "committed"
  /\ phase' = [phase EXCEPT ![id] = "announced"]
  /\ events' = [events EXCEPT ![id].finished = @ + 1,
                              ![id].status = entries[id].status]
  /\ UNCHANGED <<seq, entries, cancels, producer, cancelled, output>>

-----------------------------------------------------------------------------
(* Consumers, fenced by the owner session.  A call that the fence or a     *)
(* missing record turns down changes nothing.                              *)

read(id, s) ==
  /\ entries[id].status # "absent"
  /\ entries[id].owner = s
  /\ IF entries[id].cursor
       THEN /\ delivered' = [delivered EXCEPT ![id] = @ \cup ring[id]]
            /\ ring' = [ring EXCEPT ![id] = {}]
            /\ UNCHANGED entries
       ELSE /\ delivered' = [delivered EXCEPT ![id] = @ \cup entries[id].pending_final]
            /\ entries' = [entries EXCEPT ![id].pending_final = {}]
            /\ UNCHANGED ring
  /\ UNCHANGED <<seq, phase, cancels, producer, cancelled, written, dropped,
                 settledAt, events>>

\* Mutation: mark the records and forget to collect their cancel hooks.
MarkStoppingOnly(S) ==
  /\ S # {}
  /\ entries' = [id \in Ids |->
                   IF id \in S THEN [entries[id] EXCEPT !.status = "stopping"]
                               ELSE entries[id]]
  /\ UNCHANGED <<seq, phase, cancels, producer, cancelled, output, events>>

\* The marking half of cancel, cancel_owner and cancel_all.
MarkStopping(S) ==
  /\ S # {}
  /\ entries' = [id \in Ids |->
                   IF id \in S THEN [entries[id] EXCEPT !.status = "stopping"]
                               ELSE entries[id]]
  /\ cancels' = cancels \cup S
  /\ UNCHANGED <<seq, phase, producer, cancelled, output, events>>

\* Mutation: cancel() without its is_terminal early return.
CancelSettled(id, s) ==
  /\ entries[id].owner = s
  /\ entries[id].status # "absent"
  /\ MarkStopping({id})

cancel(id, s) ==
  /\ entries[id].owner = s
  /\ Live(id)
  /\ MarkStopping({id})

cancel_owner(s) == MarkStopping({id \in Ids : entries[id].owner = s /\ Live(id)})

cancel_all == MarkStopping({id \in Ids : Live(id)})

\* c(reason), outside the lock.
CallCancel(id) ==
  /\ id \in cancels
  /\ cancels' = cancels \ {id}
  /\ cancelled' = [cancelled EXCEPT ![id] = TRUE]
  /\ UNCHANGED <<seq, phase, entries, producer, output, events>>

mark_reported(id) ==
  /\ Settled(id)
  /\ ~entries[id].reported
  /\ entries' = [entries EXCEPT ![id].reported = TRUE]
  /\ UNCHANGED <<seq, phase, cancels, producer, cancelled, output, events>>

\* Mutation: prune by age alone, live records included.
PruneLive(S) ==
  /\ S # {}
  /\ \A id \in S : entries[id].status # "absent" /\ id \notin cancels
  /\ entries' = [id \in Ids |-> IF id \in S THEN Absent ELSE entries[id]]
  /\ UNCHANGED <<seq, phase, cancels, producer, cancelled, output, events>>

(***************************************************************************)
(* prune drops the terminal records older than max_age.  Ages are not      *)
(* modelled: any set of settled records may be the old ones, provided the  *)
(* settlement task has announced them and no cancel() call still holds     *)
(* their hook, both of which take no time next to max_age.                 *)
(***************************************************************************)
prune(S) ==
  /\ S # {}
  /\ \A id \in S : Settled(id) /\ phase[id] = "announced" /\ id \notin cancels
  /\ entries' = [id \in Ids |-> IF id \in S THEN Absent ELSE entries[id]]
  /\ UNCHANGED <<seq, phase, cancels, producer, cancelled, output, events>>

-----------------------------------------------------------------------------
(* Producers.                                                              *)

\* Ring::push of the next chunk: a full ring gives up its oldest chunk and
\* remembers that it did.
push(id) ==
  LET n == written[id] + 1
      held == ring[id] \ {TruncationMark}
  IN  /\ n <= MaxChunks
      /\ written' = [written EXCEPT ![id] = n]
      /\ \/ /\ Cardinality(held) + 1 <= OutputCap
            /\ ring' = [ring EXCEPT ![id] = @ \cup {n}]
            /\ UNCHANGED dropped
         \/ /\ Cardinality(held) + 1 > OutputCap
            /\ \E oldest \in held :
                 /\ \A c \in held : oldest <= c
                 /\ ring' = [ring EXCEPT ![id] = (@ \ {oldest}) \cup {n, TruncationMark}]
                 /\ dropped' = [dropped EXCEPT ![id] = @ \cup {oldest}]
      /\ UNCHANGED <<delivered, settledAt>>

\* A pipe reader of a background command.  The producer stops waiting for the
\* pipes after 5s, so a daemonised descendant may write after the outcome.
BashWrites(id) ==
  /\ id[1] = "bash"
  /\ producer[id] # "idle"
  /\ push(id)
  /\ UNCHANGED <<seq, phase, entries, cancels, producer, cancelled, events>>

\* The command exited: killed if we were cancelled, else by its exit code.
\* "dropped" is a producer task that died without reporting.
BashEnds(id, outcome) ==
  /\ id[1] = "bash"
  /\ producer[id] = "working"
  /\ outcome \in (IF cancelled[id] THEN {"killed"} ELSE {"completed", "failed"})
                    \cup {"dropped"}
  /\ producer' = [producer EXCEPT ![id] = outcome]
  /\ UNCHANGED <<seq, phase, entries, cancels, cancelled, output, events>>

\* host.run returned: the reply becomes the whole output, an error leaves none.
AgentEnds(id, outcome) ==
  /\ id[1] = "agent"
  /\ producer[id] = "working"
  /\ outcome \in {"completed", "failed", "dropped"}
  /\ IF outcome = "completed" THEN push(id) ELSE UNCHANGED output
  /\ producer' = [producer EXCEPT ![id] = outcome]
  /\ UNCHANGED <<seq, phase, entries, cancels, cancelled, events>>

-----------------------------------------------------------------------------
Start == \/ \E k \in Kinds : NextId(k)
         \/ \E id \in Ids : RunRefused(id) \/ RunStarted(id) \/ EmitStarted(id)
         \/ \E id \in Ids, s \in Sessions : Insert(id, s)
SettlementTask == \E id \in Ids : Settle(id) \/ EmitFinished(id)
Consumer == \/ \E id \in Ids, s \in Sessions : read(id, s) \/ cancel(id, s)
            \/ \E s \in Sessions : cancel_owner(s)
            \/ cancel_all
            \/ \E id \in Ids : CallCancel(id) \/ mark_reported(id)
            \/ \E S \in SUBSET Ids : prune(S)
Producer == \E id \in Ids : \/ BashWrites(id)
                            \/ \E o \in Outcomes : BashEnds(id, o) \/ AgentEnds(id, o)

Next == Start \/ SettlementTask \/ Consumer \/ Producer

(***************************************************************************)
(* start() runs to its end, spawned tasks are scheduled, a cloned cancel   *)
(* hook is called.  A command that was told to stop ends: its group gets   *)
(* SIGKILL after the grace period and the pipe drain is bounded.  A child  *)
(* agent's loop ends by itself, within its turn budget.  A command nobody  *)
(* stops may run for ever.                                                 *)
(***************************************************************************)
Fairness ==
  \A id \in Ids :
    /\ WF_vars(EmitStarted(id))
    /\ WF_vars(\E s \in Sessions : Insert(id, s))
    /\ WF_vars(Settle(id))
    /\ WF_vars(EmitFinished(id))
    /\ WF_vars(CallCancel(id))
    /\ WF_vars(cancelled[id] /\ \E o \in Outcomes : BashEnds(id, o))
    /\ WF_vars(\E o \in Outcomes : AgentEnds(id, o))

Spec == Init /\ [][Next]_vars
FairSpec == Spec /\ Fairness

-----------------------------------------------------------------------------
(* Properties.                                                             *)

TypeOK ==
  /\ seq \in [Kinds -> 0..MaxSeq]
  /\ phase \in [Ids -> Phases]
  /\ entries \in [Ids -> Entry]
  /\ cancels \subseteq Ids
  /\ producer \in [Ids -> {"idle", "working"} \cup Outcomes]
  /\ cancelled \in [Ids -> BOOLEAN]
  /\ ring \in [Ids -> Text]
  /\ written \in [Ids -> 0..MaxChunks]
  /\ delivered \in [Ids -> Text]
  /\ dropped \in [Ids -> SUBSET Chunks]
  /\ settledAt \in [Ids -> 0..MaxChunks]
  /\ events \in [Ids -> Events]

\* A stop was requested: the hook is about to be called, or was called.
StopRequested(id) == id \in cancels \/ cancelled[id]

(***************************************************************************)
(* The listener hears of a job once when it starts and once, later, when   *)
(* it ends, with the status the record settled on; the settlement task     *)
(* never finds its record gone, so no ending goes unannounced              *)
(* (jobs.rs: "announces it exactly once").                                 *)
(***************************************************************************)
AnnouncedOnce ==
  \A id \in Ids :
    /\ events[id].finished <= events[id].started
    /\ events[id].started <= 1
    /\ phase[id] = "announced" => events[id].finished = 1
    /\ events[id].finished = 1 => events[id].status \in Terminal
    /\ Settled(id) /\ events[id].finished = 1 => events[id].status = entries[id].status

(***************************************************************************)
(* A job somebody asked to stop never settles as completed, and a job      *)
(* settles as killed only if somebody asked: whatever the order of the     *)
(* cancel() call, its hook, the producer's report and the settlement.      *)
(***************************************************************************)
StopIsHonest ==
  \A id \in Ids :
    /\ Settled(id) /\ StopRequested(id) => entries[id].status # "completed"
    /\ entries[id].status = "killed" => StopRequested(id)

(***************************************************************************)
(* No output is lost or handed out twice.  Every chunk written is in one   *)
(* place: delivered, waiting in the ring, saved in pending_final, or       *)
(* pushed out of a full ring, and then the truncation marker is (or was)   *)
(* on its way to the reader.  What was written before the settlement never *)
(* stays behind in the ring, which nobody reads any more (jobs.rs:         *)
(* "Dropping the cursor here used to make a settle-then-read return        *)
(* empty").  A pruned record takes its unread tail with it.                *)
(***************************************************************************)
Pruned(id) == phase[id] = "announced" /\ entries[id].status = "absent"
Kept(id) == delivered[id] \cup ring[id] \cup entries[id].pending_final \cup dropped[id]

OutputConserved ==
  \A id \in Ids :
    /\ \A c \in 1..written[id] : Pruned(id) \/ c \in Kept(id)
    /\ \A c \in Chunks :
         /\ c \in ring[id] =>
              c \notin delivered[id] \cup entries[id].pending_final \cup dropped[id]
         /\ c \in entries[id].pending_final => c \notin delivered[id] \cup dropped[id]
         /\ c \in dropped[id] => c \notin delivered[id]
         /\ c \in ring[id] /\ Settled(id) => c > settledAt[id]
    /\ dropped[id] = {} \/ Pruned(id) \/ TruncationMark \in Kept(id)

(***************************************************************************)
(* What the three invariants above need to be inductive.                   *)
(*   PhaseInv: how far start() and the settlement task of an id got        *)
(*     decides whether its record exists, is live or is settled, and what  *)
(*     the listener heard; an id not yet handed out is unused.             *)
(*   StopInv: a live record says "stopping" exactly when a stop was        *)
(*     requested, and a command reports "killed" only when it was told to. *)
(*   OutputInv: the cursor is attached exactly while the record is live or *)
(*     not yet there, and no place holds a chunk that was not written.     *)
(***************************************************************************)
PhaseInv ==
  \A id \in Ids :
    /\ id[2] > seq[id[1]] => phase[id] = "unused"
    /\ producer[id] = "idle" <=> phase[id] \in {"unused", "allocated", "refused"}
    /\ phase[id] \in {"unused", "allocated", "refused", "ran"} =>
         entries[id].status = "absent" /\ ~StopRequested(id)
    /\ phase[id] \in {"inserted", "waiting"} => Live(id)
    /\ phase[id] = "committed" => Settled(id)
    /\ phase[id] = "announced" => ~Live(id)
    /\ events[id].started = (IF phase[id] \in {"waiting", "committed", "announced"}
                               THEN 1 ELSE 0)
    /\ events[id].finished = (IF phase[id] = "announced" THEN 1 ELSE 0)
    /\ phase[id] = "announced" => events[id].status \in Terminal
    /\ phase[id] = "announced" /\ Settled(id) => events[id].status = entries[id].status

StopInv ==
  \A id \in Ids :
    /\ Live(id) => (entries[id].status = "stopping" <=> StopRequested(id))
    /\ producer[id] = "killed" => cancelled[id]

OutputInv ==
  \A id \in Ids :
    /\ entries[id].cursor <=> Live(id)
    /\ entries[id].pending_final # {} => Settled(id)
    /\ producer[id] = "idle" => written[id] = 0
    /\ settledAt[id] <= written[id]
    /\ \A c \in Chunks :
         c \in ring[id] \cup entries[id].pending_final \cup delivered[id] \cup dropped[id]
           => c <= written[id]

(***************************************************************************)
(* The registry implements the lifecycle it promises of a record: one      *)
(* terminal status, kept until the record is pruned.                       *)
(***************************************************************************)
LifecycleState ==
  [id \in Ids |-> IF entries[id].status # "absent" THEN entries[id].status
                  ELSE IF phase[id] = "announced" THEN "gone" ELSE "none"]

Lifecycle == INSTANCE JobLifecycle WITH state <- LifecycleState
LifecycleSpec == Lifecycle!Spec

(***************************************************************************)
(* Whatever a producer ends with, the listener eventually hears that the   *)
(* job finished, and a job asked to stop does finish.                      *)
(***************************************************************************)
EveryEndIsAnnounced ==
  \A id \in Ids :
    (producer[id] \in Outcomes \/ entries[id].status = "stopping")
      ~> (events[id].finished = 1)
=============================================================================
