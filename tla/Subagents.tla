------------------------------ MODULE Subagents -----------------------------
(***************************************************************************)
(* Delegation to child agents: the spawn_agent and send_message tools      *)
(* (crates/oz-tools), the depth, slot, turn-limit and continuation tables  *)
(* (crates/oz-core/src/subagent.rs) and the desktop host that runs the     *)
(* children (src-tauri/src/subagents.rs).                                  *)
(*                                                                         *)
(* A call is one run of a child: a fresh child in the foreground or as a   *)
(* background job, or one more message to a child that exists.  Foreground *)
(* calls and continuations are tool futures of the calling loop, which     *)
(* waits for them, and drops them when it is stopped or the tool times     *)
(* out; background calls are tasks of their own.  Every table has its own  *)
(* mutex, so one action is one critical section, or a few that follow each *)
(* other at once.  The warm cache holds the transcript the sidecar holds   *)
(* and is left out.                                                        *)
(***************************************************************************)
EXTENDS Integers, FiniteSets

CONSTANTS
  Roots,      \* conversations of the user
  Children,   \* child ids, each a fresh uuid
  Kinds,      \* the calls in use: "foreground", "background", "continue"
  Budgets,    \* whether spawn_agent is given max_turns: a subset of BOOLEAN
  MaxCalls,   \* bound: calls made
  MaxDepth,   \* MAX_DEPTH, 3 in the code
  MaxSlots    \* MAX_CHILDREN_PER_ROOT, 4 in the code

ASSUME BoundsAssumption ==
  /\ {MaxCalls, MaxDepth, MaxSlots} \subseteq Nat
  /\ Kinds \subseteq {"foreground", "background", "continue"}
  /\ Budgets \subseteq BOOLEAN
  /\ Roots \cap Children = {}

Calls == 1..MaxCalls
Sessions == Roots \cup Children
None == 0

Steps == {"asked", "slotted", "single", "published", "started", "looping",
          "returned", "cleanup", "jobless", "rowless", "forgotten"}

VARIABLES
  step,        \* how far a call got: "none", a member of Steps, "over"
  kind,        \* the kind of a call, "none" before it is made
  child,       \* the child it runs
  parent,      \* the session that called
  by,          \* the call whose loop made it, None for a root's
  slots,       \* ACTIVE: session -> child slots taken
  depth,       \* DEPTHS: child -> its depth, 0 without an entry
  given,       \* the depth a call was given
  continuing,  \* CONTINUING
  limit,       \* TURN_LIMITS: child -> the call that set it
  ran,         \* the call whose turn limit a call runs under
  rows,        \* children with a row in the session store
  kids,        \* child_sessions: session -> live children
  signalOf,    \* stop_signals: child -> the call that registered the signal
  signal,      \* the signal a call's loop polls
  raised,      \* the signals that are true
  meta,        \* the sidecar's status
  origin,      \* the sidecar's parent
  halted,      \* roots the user stopped
  cancelled    \* history: calls that were cancelled once they had a signal

tables == <<slots, depth, continuing, limit, kids>>
signals == <<signalOf, signal, raised, cancelled>>
disk == <<rows, meta, origin>>
call == <<kind, child, parent, by>>
vars == <<step, call, tables, given, ran, signals, disk, halted>>

InFlight(k) == step[k] \in Steps
Awaited(k) == InFlight(k) /\ kind[k] # "background"
HoldsSlot(k, p) == parent[k] = p /\ step[k] \in Steps \ {"asked"}

\* The calls whose loops wait, directly or not, for call k.
Awaiters ==
  LET up[k \in 0..MaxCalls] ==
        IF k = None THEN {}
        ELSE IF ~Awaited(k) THEN {}
        ELSE {by[k]} \cup (IF by[k] < k THEN up[by[k]] ELSE {})
  IN  [k \in Calls |-> up[k] \ {None}]
Under(k) == {k} \cup {q \in Calls : k \in Awaiters[q]}

Goto(k, s) == step' = [step EXCEPT ![k] = s]

Init ==
  /\ step = [k \in Calls |-> "none"] /\ kind = [k \in Calls |-> "none"]
  /\ child = [k \in Calls |-> None] /\ parent = [k \in Calls |-> None]
  /\ by = [k \in Calls |-> None]
  /\ slots = [s \in Sessions |-> 0] /\ depth = [c \in Children |-> 0]
  /\ given = [k \in Calls |-> 0]
  /\ continuing = {} /\ limit = [c \in Children |-> None] /\ ran = [k \in Calls |-> None]
  /\ rows = {} /\ kids = [s \in Sessions |-> {}]
  /\ signalOf = [c \in Children |-> None] /\ signal = [k \in Calls |-> None]
  /\ raised = {}
  /\ meta = [c \in Children |-> "none"] /\ origin = [c \in Children |-> None]
  /\ halted = {} /\ cancelled = {}

-----------------------------------------------------------------------------
(* The tools.                                                              *)

DepthOf(s) == IF s \in Children THEN depth[s] ELSE 0
HasRow(s) == s \in Roots \cup rows

\* Session p can call tools: a root that runs, or the child a loop is of.
Caller(p, q) ==
  \/ p \in Roots \ halted /\ q = None
  \/ q \in Calls /\ step[q] = "looping" /\ child[q] = p

Make(k, kd, c, p, q) ==
  /\ step[k] = "none"
  /\ \A j \in Calls : j < k => step[j] # "none"
  /\ Goto(k, "asked")
  /\ kind' = [kind EXCEPT ![k] = kd] /\ child' = [child EXCEPT ![k] = c]
  /\ parent' = [parent EXCEPT ![k] = p] /\ by' = [by EXCEPT ![k] = q]

\* spawn_agent: a fresh id, perhaps with a turn budget.
Spawn(k, kd, c, p, q) ==
  /\ kd \in Kinds \ {"continue"}
  /\ Caller(p, q)
  /\ \A j \in Calls : child[j] # c
  /\ DepthOf(p) + 1 <= MaxDepth
  /\ Make(k, kd, c, p, q)
  /\ \E b \in Budgets : limit' = IF b THEN [limit EXCEPT ![c] = k] ELSE limit
  /\ UNCHANGED <<slots, depth, continuing, kids, given, ran, signals, disk, halted>>

\* The caller learns a child's id from the job or from the finished tool.
Known(c) ==
  \E j \in Calls : child[j] = c /\ (kind[j] = "background" \/ step[j] = "over")

\* send_message: only the conversation that spawned the child.
Continue(k, c, p, q) ==
  /\ "continue" \in Kinds
  /\ Caller(p, q)
  /\ Known(c)
  /\ meta[c] # "none" /\ origin[c] = p
  /\ Make(k, "continue", c, p, q)
  /\ UNCHANGED <<tables, given, ran, signals, disk, halted>>

-----------------------------------------------------------------------------
(* The host: run, continue_child and run_child.                            *)

\* Too deep, or the parent is at capacity.
Refuse(k) ==
  /\ step[k] = "asked"
  /\ DepthOf(parent[k]) + 1 > MaxDepth \/ slots[parent[k]] >= MaxSlots
  /\ Goto(k, "over")
  /\ UNCHANGED <<call, tables, given, ran, signals, disk, halted>>

\* Mutation: one child too many.
TakeSlotOffByOne(k) ==
  /\ step[k] = "asked"
  /\ DepthOf(parent[k]) + 1 <= MaxDepth
  /\ slots[parent[k]] <= MaxSlots
  /\ slots' = [slots EXCEPT ![parent[k]] = @ + 1]
  /\ given' = [given EXCEPT ![k] = DepthOf(parent[k]) + 1]
  /\ Goto(k, IF kind[k] = "continue" THEN "slotted" ELSE "single")
  /\ UNCHANGED <<call, depth, continuing, limit, kids, ran, signals, disk, halted>>

TakeSlot(k) ==
  /\ step[k] = "asked"
  /\ DepthOf(parent[k]) + 1 <= MaxDepth
  /\ slots[parent[k]] < MaxSlots
  /\ slots' = [slots EXCEPT ![parent[k]] = @ + 1]
  /\ given' = [given EXCEPT ![k] = DepthOf(parent[k]) + 1]
  /\ Goto(k, IF kind[k] = "continue" THEN "slotted" ELSE "single")
  /\ UNCHANGED <<call, depth, continuing, limit, kids, ran, signals, disk, halted>>

\* Mutation: the refused continuation keeps its slot.
BeginContinueLeaks(k) ==
  /\ step[k] = "slotted"
  /\ IF child[k] \in continuing
       THEN Goto(k, "over") /\ UNCHANGED <<slots, continuing>>
       ELSE /\ continuing' = continuing \cup {child[k]}
            /\ Goto(k, "single")
            /\ UNCHANGED slots
  /\ UNCHANGED <<call, depth, limit, kids, given, ran, signals, disk, halted>>

\* Mutation: continuations of one child side by side.
BeginContinueAnyway(k) ==
  /\ step[k] = "slotted"
  /\ continuing' = continuing \cup {child[k]}
  /\ Goto(k, "single")
  /\ UNCHANGED <<call, slots, depth, limit, kids, given, ran, signals, disk, halted>>

\* try_begin_continue: one continuation of a child at a time.
BeginContinue(k) ==
  /\ step[k] = "slotted"
  /\ IF child[k] \in continuing
       THEN /\ slots' = [slots EXCEPT ![parent[k]] = @ - 1]
            /\ Goto(k, "over")
            /\ UNCHANGED continuing
       ELSE /\ continuing' = continuing \cup {child[k]}
            /\ Goto(k, "single")
            /\ UNCHANGED slots
  /\ UNCHANGED <<call, depth, limit, kids, given, ran, signals, disk, halted>>

EndContinue(k) == continuing' = IF kind[k] = "continue" THEN continuing \ {child[k]}
                                ELSE continuing

\* Mutation: the early return keeps the slot.
NoParentLeaks(k) ==
  /\ step[k] = "single"
  /\ ~HasRow(parent[k])
  /\ EndContinue(k)
  /\ Goto(k, "over")
  /\ UNCHANGED <<call, slots, depth, limit, kids, given, ran, signals, disk, halted>>

\* "parent session not found": the calling child was disposed meanwhile.
NoParent(k) ==
  /\ step[k] = "single"
  /\ ~HasRow(parent[k])
  /\ slots' = [slots EXCEPT ![parent[k]] = @ - 1]
  /\ EndContinue(k)
  /\ Goto(k, "over")
  /\ UNCHANGED <<call, depth, limit, kids, given, ran, signals, disk, halted>>

\* Mutation: the parent's row is not looked up.
PublishAnyway(k) ==
  /\ step[k] = "single"
  /\ rows' = rows \cup {child[k]}
  /\ meta' = [meta EXCEPT ![child[k]] = "running"]
  /\ origin' = [origin EXCEPT ![child[k]] = parent[k]]
  /\ depth' = [depth EXCEPT ![child[k]] = given[k]]
  /\ signalOf' = [signalOf EXCEPT ![child[k]] = IF @ = None THEN k ELSE @]
  /\ Goto(k, "published")
  /\ UNCHANGED <<call, slots, continuing, limit, kids, given, ran, signal, raised,
                 cancelled, halted>>

\* The row, the running record, depth, label and stop signal of the child.
Publish(k) ==
  /\ step[k] = "single"
  /\ HasRow(parent[k])
  /\ rows' = rows \cup {child[k]}
  /\ meta' = [meta EXCEPT ![child[k]] = "running"]
  /\ origin' = [origin EXCEPT ![child[k]] = parent[k]]
  /\ depth' = [depth EXCEPT ![child[k]] = given[k]]
  /\ signalOf' = [signalOf EXCEPT ![child[k]] = IF @ = None THEN k ELSE @]
  /\ Goto(k, "published")
  /\ UNCHANGED <<call, slots, continuing, limit, kids, given, ran, signal, raised,
                 cancelled, halted>>

\* child_sessions, for the stop cascade; then the run begins.
Register(k) ==
  /\ step[k] = "published"
  /\ kids' = [kids EXCEPT ![parent[k]] = @ \cup {child[k]}]
  /\ Goto(k, "started")
  /\ UNCHANGED <<call, slots, depth, continuing, limit, given, ran, signals, disk,
                 halted>>

\* Mutation: the run polls a signal of its own, which nobody else knows.
BeginLoopFreshSignal(k) ==
  LET c == child[k] IN
  /\ step[k] = "started"
  /\ ran' = [ran EXCEPT ![k] = limit[c]]
  /\ limit' = [limit EXCEPT ![c] = None]
  /\ signalOf' = [signalOf EXCEPT ![c] = None]
  /\ signal' = [signal EXCEPT ![k] = None]
  /\ Goto(k, "looping")
  /\ UNCHANGED <<call, slots, depth, continuing, kids, given, raised, cancelled, disk,
                 halted>>

\* Mutation: the turn budget is read and stays.
BeginLoopKeepsLimit(k) ==
  LET c == child[k] IN
  /\ step[k] = "started"
  /\ ran' = [ran EXCEPT ![k] = limit[c]]
  /\ signalOf' = [signalOf EXCEPT ![c] = IF @ = None THEN k ELSE @]
  /\ signal' = [signal EXCEPT ![k] = signalOf'[c]]
  /\ Goto(k, "looping")
  /\ UNCHANGED <<call, tables, given, raised, cancelled, disk, halted>>

\* run_agent_for_session: the turn budget is consumed, the signal reused.
BeginLoop(k) ==
  LET c == child[k] IN
  /\ step[k] = "started"
  /\ ran' = [ran EXCEPT ![k] = limit[c]]
  /\ limit' = [limit EXCEPT ![c] = None]
  /\ signalOf' = [signalOf EXCEPT ![c] = IF @ = None THEN k ELSE @]
  /\ signal' = [signal EXCEPT ![k] = signalOf'[c]]
  /\ Goto(k, "looping")
  /\ UNCHANGED <<call, slots, depth, continuing, kids, given, raised, cancelled, disk,
                 halted>>

\* It fails before that: no usable configuration, model or message.
RunFails(k) ==
  /\ step[k] = "started"
  /\ Goto(k, "returned")
  /\ UNCHANGED <<call, tables, given, ran, signals, disk, halted>>

\* The loop returns when no tool is under way, and the signal is removed.
LoopEnds(k) ==
  /\ step[k] = "looping"
  /\ \A q \in Calls : by[q] = k => ~Awaited(q)
  /\ signalOf' = [signalOf EXCEPT ![child[k]] = None]
  /\ Goto(k, "returned")
  /\ UNCHANGED <<call, tables, given, ran, signal, raised, cancelled, disk, halted>>

\* The sidecar gets the transcript and its last status.
Export(k) ==
  /\ step[k] = "returned"
  /\ meta' = [meta EXCEPT ![child[k]] = "finished"]
  /\ Goto(k, "cleanup")
  /\ UNCHANGED <<call, tables, given, ran, signals, rows, origin, halted>>

\* The calling loop drops the tool future, stopped or timed out, and with it
\* the loops that it was waiting for: only their guards run.
Drop(k) ==
  /\ Awaited(k)
  /\ \A q \in Under(k) : step[q] \in {"started", "looping"}
  /\ step' = [q \in Calls |-> IF q \in Under(k) THEN "cleanup" ELSE step[q]]
  /\ UNCHANGED <<call, tables, given, ran, signals, disk, halted>>

-----------------------------------------------------------------------------
(* ChildGuard::cleanup.                                                    *)

\* cancel_child: raise the signal under the child's id, if there is one.
CancelChildren(Q) ==
  /\ raised' = raised \cup ({signalOf[child[q]] : q \in Q} \ {None})
  /\ cancelled' = cancelled \cup {q \in Q : signalOf[child[q]] # None}
JobsOf(s) == {q \in Calls : InFlight(q) /\ kind[q] = "background" /\ parent[q] = s}

\* cancel_owner: the hook of every job the child owns.
CancelJobs(k) ==
  /\ step[k] = "cleanup"
  /\ CancelChildren(JobsOf(child[k]))
  /\ Goto(k, "jobless")
  /\ UNCHANGED <<call, tables, given, ran, signalOf, signal, disk, halted>>

DeleteRow(k) ==
  /\ step[k] = "jobless"
  /\ rows' = rows \ {child[k]}
  /\ Goto(k, "rowless")
  /\ UNCHANGED <<call, tables, given, ran, signals, meta, origin, halted>>

Forget(k) ==
  /\ step[k] = "rowless"
  /\ kids' = [kids EXCEPT ![parent[k]] = @ \ {child[k]}]
  /\ depth' = [depth EXCEPT ![child[k]] = 0]
  /\ Goto(k, "forgotten")
  /\ UNCHANGED <<call, slots, continuing, limit, given, ran, signals, disk, halted>>

ReleaseSlot(k) ==
  /\ step[k] = "forgotten"
  /\ slots' = [slots EXCEPT ![parent[k]] = @ - 1]
  /\ EndContinue(k)
  /\ Goto(k, "over")
  /\ UNCHANGED <<call, depth, limit, kids, given, ran, signals, disk, halted>>

-----------------------------------------------------------------------------
(* Stop, kill and restart.                                                 *)

\* job_kill.
Kill(k) ==
  /\ k \in JobsOf(parent[k])
  /\ CancelChildren({k})
  /\ UNCHANGED <<step, call, tables, given, ran, signalOf, signal, disk, halted>>

\* stop_session of a root: its jobs, and the children it has registered.
Stop(r) ==
  /\ r \notin halted
  /\ halted' = halted \cup {r}
  /\ CancelChildren(JobsOf(r) \cup {q \in Calls : InFlight(q) /\ child[q] \in kids[r]})
  /\ UNCHANGED <<step, call, tables, given, ran, signalOf, signal, disk>>

\* The application is quit or dies; at its next start mark_interrupted_children.
Restart ==
  /\ \E k \in Calls : InFlight(k)
  /\ step' = [k \in Calls |-> IF InFlight(k) THEN "over" ELSE step[k]]
  /\ slots' = [s \in Sessions |-> 0] /\ depth' = [c \in Children |-> 0]
  /\ continuing' = {} /\ limit' = [c \in Children |-> None]
  /\ kids' = [s \in Sessions |-> {}]
  /\ signalOf' = [c \in Children |-> None] /\ raised' = {} /\ cancelled' = {}
  /\ rows' = {}
  /\ meta' = [c \in Children |-> IF meta[c] = "running" THEN "interrupted" ELSE meta[c]]
  /\ UNCHANGED <<call, given, ran, signal, origin, halted>>

-----------------------------------------------------------------------------
HostStep(k) ==
  \/ Refuse(k) \/ TakeSlot(k) \/ BeginContinue(k) \/ NoParent(k) \/ Publish(k)
  \/ Register(k) \/ BeginLoop(k) \/ RunFails(k) \/ Export(k)
  \/ CancelJobs(k) \/ DeleteRow(k) \/ Forget(k) \/ ReleaseSlot(k)

Next ==
  \/ \E k \in Calls, q \in 0..MaxCalls, c \in Children, p \in Sessions :
       \/ \E kd \in {"foreground", "background"} : Spawn(k, kd, c, p, q)
       \/ Continue(k, c, p, q)
  \/ \E k \in Calls : HostStep(k) \/ LoopEnds(k) \/ Drop(k) \/ Kill(k)
  \/ \E r \in Roots : Stop(r)
  \/ Restart

\* Mutation: the dispatch polls the intra-turn cancel flag instead.
CallerNeverStops(k) == FALSE

\* The loop that made the call has been told to stop.
CallerStopping(k) ==
  IF by[k] = None THEN parent[k] \in halted ELSE signal[by[k]] \in raised

(***************************************************************************)
(* A loop need not end by itself.  It does once its signal is raised, and  *)
(* a stopped loop drops the tools it waits for (the select of the tool     *)
(* dispatch polls the signal every 100 ms).                                *)
(***************************************************************************)
Fairness ==
  \A k \in Calls :
    /\ WF_vars(HostStep(k))
    /\ WF_vars(signal[k] \in raised /\ LoopEnds(k))
    /\ WF_vars(CallerStopping(k) /\ Drop(k))

Spec == Init /\ [][Next]_vars
FairSpec == Spec /\ Fairness

-----------------------------------------------------------------------------
(* Properties.                                                             *)

\* The types of the variables; a call's caller was called before it.
TypeOK ==
  /\ step \in [Calls -> Steps \cup {"none", "over"}]
  /\ kind \in [Calls -> Kinds \cup {"none"}]
  /\ child \in [Calls -> Children \cup {None}]
  /\ parent \in [Calls -> Sessions \cup {None}]
  /\ by \in [Calls -> 0..MaxCalls]
  /\ slots \in [Sessions -> 0..MaxSlots]
  /\ depth \in [Children -> 0..MaxDepth]
  /\ given \in [Calls -> 0..MaxDepth]
  /\ continuing \subseteq Children
  /\ limit \in [Children -> 0..MaxCalls]
  /\ ran \in [Calls -> 0..MaxCalls]
  /\ rows \subseteq Children
  /\ kids \in [Sessions -> SUBSET Children]
  /\ signalOf \in [Children -> 0..MaxCalls]
  /\ signal \in [Calls -> 0..MaxCalls]
  /\ raised \subseteq Calls
  /\ meta \in [Children -> {"none", "running", "finished", "interrupted"}]
  /\ origin \in [Children -> Sessions \cup {None}]
  /\ halted \subseteq Roots
  /\ cancelled \subseteq Calls

(***************************************************************************)
(* Slots are neither leaked nor given back twice: ACTIVE counts exactly    *)
(* the calls between try_acquire_slot and release_slot, over every refusal,*)
(* failure, drop and restart.                                              *)
(***************************************************************************)
SlotsBalanced ==
  \A s \in Sessions : slots[s] = Cardinality({k \in Calls : HoldsSlot(k, s)})

\* How many loops of children are above the loop of call k, itself included.
Nesting ==
  LET up[k \in 0..MaxCalls] == IF k = None THEN 0
                               ELSE 1 + (IF by[k] < k THEN up[by[k]] ELSE 0)
  IN  [k \in Calls |-> up[k]]

(***************************************************************************)
(* MAX_DEPTH is a "Hard cap on delegation depth": no loop runs deeper,     *)
(* although a background call may be started by a child that has been      *)
(* disposed, and forgotten, by the time the host looks up its depth.       *)
(***************************************************************************)
DepthCapped == \A k \in Calls : step[k] = "looping" => Nesting[k] <= MaxDepth

(***************************************************************************)
(* send_message is to "Continue a finished subagent": a child has one loop *)
(* at a time, so nobody deletes its row or forgets its depth under it.     *)
(***************************************************************************)
OneLoopPerChild ==
  \A k, q \in Calls :
    k # q /\ child[k] = child[q] => ~(step[k] = "looping" /\ step[q] = "looping")

(***************************************************************************)
(* A kill, a stop or the disposal of the parent is heard by every child    *)
(* that has its signal registered, also one whose run has not begun        *)
(* (run_child: "Pre-register the stop signal so a job_kill / Stop that     *)
(* lands before the loop starts still cancels this child"): the runner     *)
(* takes over the signal it finds under the id, so no child loops on deaf. *)
(***************************************************************************)
CancelIsHeard ==
  \A k \in cancelled : step[k] = "looping" => signal[k] \in raised

\* A loop runs under the budget that was given to another call.
Inherits(k) == ran[k] \notin {None, k}

\* No two loops run under one budget.
BudgetsApart == \A k, q \in Calls : k # q /\ ran[k] # None => ran[k] # ran[q]

(***************************************************************************)
(* A turn budget is "consumed exactly once" (subagent.rs 181): it limits   *)
(* at most one loop, however often the child is continued, and a loop has  *)
(* another call's budget only if that call made the same child and is over *)
(* without its loop ever having begun.                                     *)
(***************************************************************************)
BudgetSpentOnce ==
  /\ BudgetsApart
  /\ \A k \in Calls : Inherits(k) =>
       child[ran[k]] = child[k] /\ step[ran[k]] = "over" /\ signal[ran[k]] = None

(***************************************************************************)
(* NOT a property of the code.  "They are cleared by the child guard so a  *)
(* reused id cannot inherit stale state" (subagent.rs 182-183), but        *)
(* ChildGuard::cleanup leaves TURN_LIMITS alone: after RunFails or a Drop  *)
(* before the loop, the next continuation runs under the old budget.       *)
(***************************************************************************)
BudgetIsOwn == \A k \in Calls : ~Inherits(k)

(***************************************************************************)
(* Stop means "stop the work I started": once a root is stopped, every     *)
(* child below it ends, though only the direct children are signalled.     *)
(***************************************************************************)
StopEndsTree ==
  (Roots \subseteq halted) ~> (\A k \in Calls : ~InFlight(k))
=============================================================================
