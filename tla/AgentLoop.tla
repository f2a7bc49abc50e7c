------------------------------ MODULE AgentLoop ------------------------------
(***************************************************************************)
(* One run of run_agent_loop (crates/oz-core/src/agent_loop.rs): turns of  *)
(* a model's reply, the calls it makes, the questions it asks the user,    *)
(* and the gates a finished reply passes before the run may end.           *)
(*                                                                         *)
(* The user's stop flag and interventions change at any time; the loop     *)
(* reads them where the code does.  What messages say is left out (module  *)
(* Transcript follows them): a tool call is its failure_key, the work done *)
(* is what the gates ask about it.  The model is the environment: any      *)
(* reply, any outcome of a call, any verdict of a reviewer.                *)
(***************************************************************************)
EXTENDS Naturals, FiniteSets

CONSTANTS
  MaxTurns,         \* LoopConfig::max_turns
  MaxErrors,        \* llm_error_retries
  StuckAfter,       \* replies without a call before "llm_stuck", 10
  RefuseAfter,      \* identical failures before a call is refused, 3
  MaxContinuations, \* MAX_GATE_CONTINUATIONS, 4
  MaxRefunds,       \* unanswered questions that do not cost a turn, 3
  AssertionRounds,  \* assertion_max_rounds
  Interval,         \* checkpoint_interval
  Width,            \* bound: calls in one reply
  Keys,             \* the calls, up to failure_key
  ReadOnly,         \* those that may run speculatively
  Questions         \* those that ask the user

ASSUME ParametersAssumption ==
  /\ {MaxTurns, MaxErrors, StuckAfter, RefuseAfter, MaxContinuations, MaxRefunds,
      AssertionRounds} \subseteq Nat
  /\ {Interval, Width} \subseteq Nat \ {0}
  /\ ReadOnly \subseteq Keys /\ Questions \subseteq Keys \ ReadOnly

Slots == 1..Width
Flags == {"spec", "suspicion", "auto", "policy", "exhausted", "diff"}
Reasons == {"none", "EXITED", "stopped_by_user", "paused_by_user", "llm_error",
            "llm_timeout", "llm_stuck", "max_turns_exhausted",
            "waiting_for_clarification"}
Idle == [key |-> "none", st |-> "none"]
Entry == {Idle} \cup
  [key : Keys, st : {"queued", "running", "ok", "failed", "blocked"}]

VARIABLES
  pc,       \* where the loop is
  turn,     \* turn
  exit,     \* exit_reason of the turn
  reason,   \* exit_reason of the outcome
  stop,     \* stop_signal
  pausing,  \* intervention_rx holds a Pause
  errors,   \* consecutive_llm_errors
  empties,  \* consecutive_empty_turns
  batch,    \* the calls of the reply
  fails,    \* failure_counts
  asks,     \* pending_ask_user
  refunds,  \* ask_user_timeouts
  wrote,    \* tool_sequence: "none", "some" writes, or a "complex" task
  todos,    \* the list: "none", "open" items, or all "closed"
  spec,     \* task_spec.md: "none", its assertions "hold", or "fail"
  gates,    \* gate_continuations
  once,     \* the one-shot gates that have been used
  asserted, \* assertion_rounds
  reviewed, \* review_rounds
  review_status, \* that of the quality outcome
  note,     \* quality_note is set
  newest,   \* the checkpoint written last
  best,     \* the one load_best_loop_checkpoint would take
  replies,  \* history: replies of the model
  sentBack, \* history: times a budgeted gate turned an exit into another turn
  tries     \* history: per call, executions since the turn it last succeeded in

control == <<pc, turn, exit, reason>>
input == <<stop, pausing>>
calls == <<batch, fails, tries>>
work == <<wrote, todos, spec>>
quality == <<gates, once, asserted, reviewed, review_status, note, sentBack>>
checkpoints == <<newest, best>>
vars == <<control, input, errors, empties, calls, asks, refunds, work,
          quality, checkpoints, replies>>

Checkpoint == [turn : Nat, at : Nat, reason : Reasons]

Init ==
  /\ pc = "top" /\ turn = 0 /\ exit = "none" /\ reason = "none"
  /\ stop = FALSE /\ pausing = FALSE
  /\ errors = 0 /\ empties = 0 /\ asks = 0 /\ refunds = 0
  /\ batch = [s \in Slots |-> Idle]
  /\ fails = [k \in Keys |-> 0] /\ tries = [k \in Keys |-> 0]
  /\ wrote = "none" /\ todos = "none" /\ spec = "none"
  /\ gates = 0 /\ once = {} /\ asserted = 0 /\ reviewed = 0
  /\ review_status = "not_run" /\ note = FALSE
  /\ newest = [turn |-> 0, at |-> 0, reason |-> "none"] /\ best = newest
  /\ replies = 0 /\ sentBack = 0

-----------------------------------------------------------------------------
(* What several steps do                                                   *)

\* The turns whose messages the vector holds: those of the current reply are
\* added at the end of its turn.
Recorded == IF pc \in {"top", "llm"} THEN replies ELSE replies - 1

\* save_stop_checkpoint_async, load_best_loop_checkpoint: the file is named
\* after the turn and the highest turn is taken.
Save(why) ==
  /\ newest' = [turn |-> turn, at |-> Recorded, reason |-> why]
  /\ best' = IF turn >= best.turn THEN newest' ELSE best

Return(why) == pc' = "done" /\ reason' = why

-----------------------------------------------------------------------------
(* The user                                                                *)

Stop ==
  /\ pc # "done" /\ ~stop
  /\ stop' = TRUE
  /\ UNCHANGED <<control, pausing, errors, empties, calls, asks, refunds, work,
                 quality, checkpoints, replies>>

\* The other interventions only add messages.
SendPause ==
  /\ pc # "done" /\ ~pausing
  /\ pausing' = TRUE
  /\ UNCHANGED <<control, stop, errors, empties, calls, asks, refunds, work,
                 quality, checkpoints, replies>>

-----------------------------------------------------------------------------
(* The top of the loop                                                     *)

StopAtTop ==
  /\ pc = "top" /\ turn < MaxTurns /\ stop
  /\ Save("stopped_by_user") /\ Return("stopped_by_user")
  /\ UNCHANGED <<turn, exit, input, errors, empties, calls, asks, refunds,
                 work, quality, replies>>

\* Everything queued is taken; what comes after the pause is dropped.
Pause ==
  /\ pc = "top" /\ turn < MaxTurns /\ ~stop /\ pausing
  /\ pausing' = FALSE
  /\ Save("paused_by_user") /\ Return("paused_by_user")
  /\ UNCHANGED <<turn, exit, stop, errors, empties, calls, asks, refunds,
                 work, quality, replies>>

\* Mutant: one turn too many.
BeginTurnLate ==
  /\ pc = "top" /\ turn <= MaxTurns /\ ~stop /\ ~pausing
  /\ pc' = "llm" /\ turn' = turn + 1
  /\ UNCHANGED <<exit, reason, input, errors, empties, calls, asks, refunds,
                 work, quality, checkpoints, replies>>

BeginTurn ==
  /\ pc = "top" /\ turn < MaxTurns /\ ~stop /\ ~pausing
  /\ pc' = "llm" /\ turn' = turn + 1
  /\ UNCHANGED <<exit, reason, input, errors, empties, calls, asks, refunds,
                 work, quality, checkpoints, replies>>

OutOfTurns ==
  /\ pc = "top" /\ turn >= MaxTurns
  /\ Return("max_turns_exhausted")
  /\ UNCHANGED <<turn, exit, input, errors, empties, calls, asks, refunds,
                 work, quality, checkpoints, replies>>

-----------------------------------------------------------------------------
(* The model's reply                                                       *)

StopInStream ==
  /\ pc = "llm" /\ stop
  /\ Save("stopped_by_user") /\ Return("stopped_by_user")
  /\ UNCHANGED <<turn, exit, input, errors, empties, calls, asks, refunds,
                 work, quality, replies>>

\* An attempt fails.  Only the loop's own hang timer saves first; the retry
\* budget can end the series from the second failure on.
StreamError(kind, overBudget) ==
  /\ pc = "llm"
  /\ errors' = errors + 1
  /\ IF kind = "hang" THEN Save("llm_timeout") ELSE UNCHANGED checkpoints
  /\ IF kind = "permanent" THEN Return("llm_error")
     ELSE IF errors' > MaxErrors \/ (errors' > 1 /\ overBudget)
     THEN Return(IF kind = "error" THEN "llm_error" ELSE "llm_timeout")
     ELSE UNCHANGED <<pc, reason>>
  /\ UNCHANGED <<turn, exit, input, empties, calls, asks, refunds, work,
                 quality, replies>>

Replied == pc = "llm" /\ errors' = 0 /\ replies' = replies + 1

\* A text that announces a call and makes none: a hint and another turn.
IntentOnly ==
  /\ Replied /\ turn + 1 < MaxTurns
  /\ empties' = empties + 1 /\ pc' = "end"
  /\ UNCHANGED <<turn, exit, reason, input, calls, asks, refunds, work, quality,
                 checkpoints>>

\* A text, or the respond call alone.
Respond ==
  /\ Replied
  /\ empties' = empties + 1 /\ exit' = "EXITED" /\ pc' = "gates"
  /\ UNCHANGED <<turn, reason, input, calls, asks, refunds, work, quality,
                 checkpoints>>

\* A call as the reply leaves it.
Calls == [key : Keys, st : {"queued"}] \cup [key : ReadOnly, st : {"ok", "failed"}]

\* Calls, with respond among them or not: it is dispatched and ignored.  A
\* read-only call may have run while the reply was streamed, whatever its
\* failure count; its result is then taken before the count is looked at.
CallTools(b) ==
  LET ahead(k) == {s \in Slots : b[s].key = k /\ b[s].st \in {"ok", "failed"}} IN
  /\ Replied
  /\ \E s \in Slots : b[s] # Idle
  /\ empties' = 0 /\ pc' = "tools" /\ batch' = b
  /\ tries' = [k \in Keys |-> tries[k] + Cardinality(ahead(k))]
  /\ UNCHANGED <<turn, exit, reason, input, fails, asks, refunds, work,
                 quality, checkpoints>>

-----------------------------------------------------------------------------
(* The calls, all at once                                                  *)

Settle(s, from, to) ==
  /\ pc = "tools" /\ batch[s].st = from
  /\ batch' = [batch EXCEPT ![s].st = to]
  /\ UNCHANGED <<control, input, errors, empties, asks, refunds, work, quality,
                 checkpoints, fails, replies>>

\* The breaker refuses: no outcome to count.
Block(s) == Settle(s, "queued", "blocked") /\ UNCHANGED tries

\* No permit in time, denied, blocked by policy, stopped while the user was
\* asked, or failed too often: an error, though nothing ran.
Refuse(s) == Settle(s, "queued", "failed") /\ UNCHANGED tries

\* Mutant: the failure count is not consulted.
DispatchAlways(s) ==
  /\ Settle(s, "queued", "running")
  /\ tries' = [tries EXCEPT ![batch[s].key] = @ + 1]

\* The count is that of the turns before: this turn's failures are added
\* when every call is back.
Dispatch(s) ==
  /\ Settle(s, "queued", "running")
  /\ fails[batch[s].key] < RefuseAfter
  /\ tries' = [tries EXCEPT ![batch[s].key] = @ + 1]

\* An outcome, the timeout, or the stop flag.
ToolReturns(s, ok) ==
  Settle(s, "running", IF ok THEN "ok" ELSE "failed") /\ UNCHANGED tries

Settled(st) == {s \in Slots : batch[s].st = st}

\* process_tool_outcome over the calls in order: a success forgets the
\* failures, an error adds one (counts over the limit are not told apart).
Counted(k) ==
  LET ok == {s \in Settled("ok") : batch[s].key = k}
      failed == {s \in Settled("failed") : batch[s].key = k}
      count == (IF ok = {} THEN fails[k] ELSE 0)
               + Cardinality({s \in failed : \A t \in ok : t < s})
  IN IF count < RefuseAfter THEN count ELSE RefuseAfter

Acting == {s \in Slots : batch[s].key \in Keys \ (ReadOnly \cup Questions)}

\* Every call is back.  What the calls did to the files, the list and the
\* spec is any of what such calls can do; tool_sequence has them all, whether
\* they ran or not.  Then quick_verify_after_write, unless a tool has given
\* the model something to read: a failing check costs a continuation,
\* although the run was not ending.
Results(w, t, p, failing) ==
  /\ pc = "tools" /\ Settled("queued") \cup Settled("running") = {}
  /\ LET ok == {batch[s].key : s \in Settled("ok")}
     IN /\ fails' = [k \in Keys |-> Counted(k)]
        /\ tries' = [k \in Keys |-> IF k \in ok THEN 0 ELSE tries[k]]
        /\ asks' = Cardinality(ok \cap Questions)
  /\ Acting = {} => <<w, t, p>> = work
  /\ wrote # "none" => w \in {wrote, "complex"}
  /\ todos # "none" => t # "none"
  /\ spec # "none" => p # "none"
  /\ wrote' = w /\ todos' = t /\ spec' = p
  /\ failing => /\ gates < MaxContinuations /\ Acting # {}
                /\ Settled("failed") \cup Settled("blocked") = {}
  /\ gates' = IF failing THEN gates + 1 ELSE gates
  /\ batch' = [s \in Slots |-> Idle] /\ pc' = "asks"
  /\ UNCHANGED <<turn, exit, reason, input, errors, empties, refunds, once, asserted,
                 reviewed, review_status, note, sentBack, checkpoints, replies>>

-----------------------------------------------------------------------------
(* The questions, one after the other                                      *)

Answered == pc = "asks" /\ asks > 0 /\ asks' = asks - 1

\* An approved plan fills the list.
AskReply(approved) ==
  /\ Answered
  /\ todos' = IF approved THEN "open" ELSE todos
  /\ UNCHANGED <<control, input, errors, empties, calls, refunds, wrote, spec, quality,
                 checkpoints, replies>>

\* Mutant: every unanswered question gives its turn back.
RefundAlways ==
  /\ refunds' = IF refunds < MaxRefunds THEN refunds + 1 ELSE refunds
  /\ turn' = IF turn > 0 THEN turn - 1 ELSE 0

\* turn.saturating_sub(1), a few times.
Refund ==
  IF refunds < MaxRefunds
  THEN refunds' = refunds + 1 /\ turn' = (IF turn > 0 THEN turn - 1 ELSE 0)
  ELSE UNCHANGED <<refunds, turn>>

\* Only where ask_user_timeout_secs is set.
AskTimeout ==
  /\ Answered
  /\ Save("waiting_for_clarification") /\ Refund
  /\ UNCHANGED <<pc, exit, reason, input, errors, empties, calls, work, quality, replies>>

\* Mutant: the wait does not look at the stop flag.
AskStopNever == FALSE /\ UNCHANGED vars

\* Mutant: the run ends without a checkpoint.
AskStopUnsaved ==
  /\ pc = "asks" /\ asks > 0 /\ stop
  /\ exit' = "stopped_by_user" /\ Return("stopped_by_user")
  /\ UNCHANGED <<turn, input, errors, empties, calls, asks, refunds, work,
                 quality, checkpoints, replies>>

AskStop ==
  /\ pc = "asks" /\ asks > 0 /\ stop
  /\ exit' = "stopped_by_user"
  /\ Save("stopped_by_user") /\ Return("stopped_by_user")
  /\ UNCHANGED <<turn, input, errors, empties, calls, asks, refunds, work,
                 quality, replies>>

\* Calls never end a run: the gates are for a reply without any.
AsksDone ==
  /\ pc = "asks" /\ asks = 0
  /\ pc' = "end"
  /\ UNCHANGED <<turn, exit, reason, input, errors, empties, calls, asks, refunds,
                 work, quality, checkpoints, replies>>

-----------------------------------------------------------------------------
(* The gates a reply without calls passes                                  *)

\* A budgeted gate sends the run back to work.
SendBack == exit' = "none" /\ sentBack' = sentBack + 1

\* The checklist gates, which have no budget: an open item, or a complex task
\* without a list.
Checklist == todos = "open" \/ (todos = "none" /\ turn >= 2 /\ wrote = "complex")

\* The one hint to write task_spec.md.
Anchor == "spec" \notin once /\ wrote # "none" /\ spec = "none"

\* Those two in one pass, and the closure of suspicions, once and from the budget.
ExitGates(suspicion) ==
  LET blocked == Checklist \/ Anchor
      asked == ~blocked /\ "suspicion" \notin once /\ gates < MaxContinuations
      found == asked /\ suspicion
  IN /\ pc = "gates" /\ (suspicion => asked)
     /\ once' = once \cup (IF Anchor THEN {"spec"} ELSE {})
                     \cup (IF asked THEN {"suspicion"} ELSE {})
     /\ gates' = IF found THEN gates + 1 ELSE gates
     /\ IF found THEN SendBack
        ELSE /\ exit' = IF blocked THEN "none" ELSE exit
             /\ UNCHANGED sentBack
     /\ pc' = IF exit' = "none" THEN "end" ELSE "spec"
     /\ UNCHANGED <<turn, reason, input, errors, empties, calls, asks, refunds,
                    work, asserted, reviewed, review_status, note, checkpoints, replies>>

\* The first delivery of files without a spec: one is asked of the summary
\* model, which may fail.
AutoSpec(made) ==
  LET due == "auto" \notin once /\ wrote # "none" /\ spec = "none" IN
  /\ pc = "spec" /\ pc' = "assertions"
  /\ once' = IF due THEN once \cup {"auto"} ELSE once
  /\ IF due THEN spec' = made ELSE made = spec /\ UNCHANGED spec
  /\ UNCHANGED <<turn, exit, reason, input, errors, empties, calls, asks, refunds,
                 wrote, todos, gates, asserted, reviewed, review_status, note, sentBack,
                 checkpoints, replies>>

\* run_assertion_gate_checked.  A line the policy refuses and a line that
\* fails both cost a continuation, in one pass; with no budget left the
\* assertions run one last time, for the note.
AssertionGate(refused) ==
  LET open == spec # "none" /\ asserted < AssertionRounds /\ gates < MaxContinuations
      rewrite == open /\ refused /\ "policy" \notin once
      fix == open /\ spec = "fail"
      last == spec # "none" /\ ~open /\ "exhausted" \notin once
  IN /\ pc = "assertions" /\ (refused => open)
     /\ once' = once \cup (IF rewrite THEN {"policy"} ELSE {})
                     \cup (IF last THEN {"exhausted"} ELSE {})
     /\ gates' = gates + (IF rewrite THEN 1 ELSE 0) + (IF fix THEN 1 ELSE 0)
     /\ asserted' = IF fix THEN asserted + 1 ELSE asserted
     /\ note' = (note \/ (last /\ spec = "fail"))
     /\ IF rewrite \/ fix THEN SendBack ELSE UNCHANGED <<exit, sentBack>>
     /\ pc' = "review"
     /\ UNCHANGED <<turn, reason, input, errors, empties, calls, asks, refunds,
                    work, reviewed, review_status, checkpoints, replies>>

\* A reviewer's answer: its verdict word, its pass field and the severities of
\* its issues.
Answers == [verdict : {"pass", "fail", "insufficient_evidence", "absent"},
            pass : {"true", "false", "absent"}, issues : SUBSET {"high", "low"}]

\* The word wins, then the field, then the issues; a failure that names no
\* issue counts as a high one.
parse_review_response(a) ==
  LET pass == CASE a.verdict # "absent" -> a.verdict = "pass"
                [] a.verdict = "absent" /\ a.pass # "absent" -> a.pass = "true"
                [] OTHER -> "high" \notin a.issues
      status == IF pass THEN "passed"
                ELSE IF a.verdict = "insufficient_evidence" THEN a.verdict ELSE "failed"
  IN [pass |-> pass, status |-> status,
      high |-> "high" \in a.issues \/ (status = "failed" /\ a.issues = {})]

\* No review, no answer, or what is made of one.
Verdicts == {parse_review_response(a) : a \in Answers} \cup
            [pass : {FALSE}, status : {"not_run", "unavailable"}, high : {FALSE}]

review_requires_fix(v) == v.status = "failed" \/ v.high

\* Mutant: a defect always buys another round.
MustFixAlways(v) == review_requires_fix(v)

\* must_fix: the first review only, and within the budget.
MustFix(v) == review_requires_fix(v) /\ gates < MaxContinuations /\ reviewed + 1 < 2

\* Mutant: one review is enough.
ReviewDueOnce == exit # "none" /\ wrote # "none" /\ reviewed < 1

ReviewDue == exit # "none" /\ wrote # "none" /\ reviewed < 2

\* A review that fails beyond the budget, or cannot judge, ends the run with a
\* note; one that never answered is only recorded.
Review(v) ==
  /\ pc = "review" /\ pc' = "diff"
  /\ v.status = "not_run" <=> ~ReviewDue
  /\ IF ReviewDue
     THEN /\ reviewed' = reviewed + 1
          /\ review_status' = IF v.pass /\ v.high THEN "failed" ELSE v.status
     ELSE UNCHANGED <<reviewed, review_status>>
  /\ IF MustFix(v)
     THEN SendBack /\ gates' = gates + 1 /\ UNCHANGED note
     ELSE /\ note' = (note \/ (v.status \notin {"not_run", "unavailable"}
                               /\ (~v.pass \/ v.high)))
          /\ UNCHANGED <<exit, sentBack, gates>>
  /\ UNCHANGED <<turn, reason, input, errors, empties, calls, asks, refunds, work,
                 once, asserted, checkpoints, replies>>

DiffCheck(large) ==
  LET due == /\ exit # "none" /\ "diff" \notin once
             /\ gates < MaxContinuations /\ wrote # "none"
  IN /\ pc = "diff" /\ pc' = "end" /\ (large => due)
     /\ once' = IF due THEN once \cup {"diff"} ELSE once
     /\ IF large THEN SendBack /\ gates' = gates + 1
        ELSE UNCHANGED <<exit, sentBack, gates>>
     /\ UNCHANGED <<turn, reason, input, errors, empties, calls, asks, refunds,
                    work, asserted, reviewed, review_status, note, checkpoints, replies>>

-----------------------------------------------------------------------------
(* The end of the turn                                                     *)

Deliver ==
  /\ pc = "end" /\ exit # "none"
  /\ Return(exit)
  /\ UNCHANGED <<turn, exit, input, errors, empties, calls, asks, refunds, work,
                 quality, checkpoints, replies>>

Stuck ==
  /\ pc = "end" /\ exit = "none" /\ empties >= StuckAfter
  /\ Save("llm_stuck") /\ Return("llm_stuck")
  /\ UNCHANGED <<turn, exit, input, errors, empties, calls, asks, refunds, work,
                 quality, replies>>

\* The periodic checkpoint, then the messages of the turn.
EndTurn ==
  /\ pc = "end" /\ exit = "none" /\ empties < StuckAfter
  /\ IF turn % Interval = 0 THEN Save("none") ELSE UNCHANGED checkpoints
  /\ pc' = "top"
  /\ UNCHANGED <<turn, exit, reason, input, errors, empties, calls, asks, refunds, work,
                 quality, replies>>

-----------------------------------------------------------------------------
Top == StopAtTop \/ Pause \/ BeginTurn \/ OutOfTurns

Stream ==
  /\ pc = "llm"
  /\ \/ StopInStream \/ IntentOnly \/ Respond
     \/ \E kind \in {"hang", "timed_out", "error", "permanent"}, b \in BOOLEAN :
          StreamError(kind, b)
     \/ \E b \in [Slots -> {Idle} \cup Calls] : CallTools(b)

Tools ==
  /\ pc = "tools"
  /\ \/ \E s \in Slots : Block(s) \/ Refuse(s) \/ Dispatch(s)
     \/ \E s \in Slots, ok \in BOOLEAN : ToolReturns(s, ok)
     \/ \E w \in {"none", "some", "complex"}, t \in {"none", "open", "closed"},
           p \in {"none", "hold", "fail"}, b \in BOOLEAN : Results(w, t, p, b)

Ask == (\E b \in BOOLEAN : AskReply(b)) \/ AskTimeout \/ AskStop \/ AsksDone

Gates ==
  \/ \E b \in BOOLEAN : ExitGates(b) \/ AssertionGate(b) \/ DiffCheck(b)
  \/ \E p \in {"none", "hold", "fail"} : AutoSpec(p)
  \/ \E v \in Verdicts : Review(v)

Loop == Top \/ Stream \/ Tools \/ Ask \/ Gates \/ Deliver \/ Stuck \/ EndTurn

Next == Stop \/ SendPause \/ Loop

Spec == Init /\ [][Next]_vars

\* The task keeps running: streams and calls end (the hang timer, the tool's
\* timeout) and the wait for an answer polls the stop flag.  Nobody has to
\* answer, stop or pause, and questions need not time out.
Progress ==
  Top \/ Stream \/ Tools \/ AskStop \/ AsksDone \/ Gates \/ Deliver \/ Stuck \/ EndTurn

FairSpec == Spec /\ WF_vars(Progress)

-----------------------------------------------------------------------------
(* Properties                                                              *)

\* Every variable has its type; the turn never passes max_turns, reviews and
\* assertion rounds keep to their limits, and what follows a reply has one.
TypeOK ==
  /\ pc \in {"top", "llm", "tools", "asks", "gates", "spec", "assertions",
             "review", "diff", "end", "done"}
  /\ turn \in 0..MaxTurns /\ replies \in Nat
  /\ pc \notin {"top", "llm", "done"} => replies # 0
  /\ exit \in {"none", "EXITED", "stopped_by_user"} /\ reason \in Reasons
  /\ stop \in BOOLEAN /\ pausing \in BOOLEAN
  /\ errors \in Nat /\ empties \in Nat /\ asks \in Nat /\ refunds \in 0..MaxRefunds
  /\ note \in BOOLEAN
  /\ batch \in [Slots -> Entry]
  /\ fails \in [Keys -> Nat] /\ tries \in [Keys -> Nat]
  /\ wrote \in {"none", "some", "complex"} /\ todos \in {"none", "open", "closed"}
  /\ spec \in {"none", "hold", "fail"}
  /\ gates \in Nat /\ sentBack \in Nat /\ once \subseteq Flags
  /\ asserted \in 0..AssertionRounds /\ reviewed \in 0..2
  /\ review_status \in {"not_run", "unavailable", "passed", "failed",
                        "insufficient_evidence"}
  /\ newest \in Checkpoint /\ best \in Checkpoint

\* The budgeted gates (suspicion, assertions, review, diff) together send one
\* run back at most MAX_GATE_CONTINUATIONS times, although two of them can
\* count in one pass and the quick check shares the counter.
SendBacksBounded == sentBack <= MaxContinuations

\* A run that says it was stopped, paused or stuck has just written the
\* checkpoint that says so: StopAtTop, StopInStream, AskStop, Pause, Stuck.  One
\* that runs out of turns saves nothing at its end.
StopSaved ==
  reason \in {"stopped_by_user", "paused_by_user", "llm_stuck"} =>
    newest.reason = reason /\ newest.turn = turn

\* Refunded turns do not let a run go on: the model is asked at most max_turns
\* times, and once more for each of the few refunds.
RepliesBounded == replies <= MaxTurns + MaxRefunds

\* A call that keeps failing and is not read-only is executed a bounded number
\* of times: the count it is refused by is read while the other calls of the
\* reply run, so up to Width of them pass at the last moment.  A read-only call
\* has no bound: see FourthRefused.
TriesBounded == \A k \in Keys \ ReadOnly : tries[k] < RefuseAfter + Width

\* A delivery whose last review found a defect, or could not judge, has a note
\* that says so, whichever form the reviewer's answer took, and a run sent back by
\* one review is not delivered on it alone: the second review is due.  What the
\* second says stands: if it never answers, the run is recorded as unavailable,
\* "unverified, not passed", and the defect of the first is not mentioned.
DefectsNoted ==
  reason = "EXITED" /\ review_status \in {"failed", "insufficient_evidence"} => note

\* A run ends, unless it waits for its user for ever and nobody stops it: the
\* stop button works in a stream, in a call, between attempts and while a
\* question is open, and neither failing streams nor gates nor refunds keep a
\* run going.
RunEnds == <>(pc = "done") \/ <>[](pc = "asks" /\ ~stop)

\* "the 4th call is refused with a structured error" (agent_loop.rs, before the
\* gate), of every call: false of one that runs while the reply is streamed, which
\* no count refuses.
FourthRefused == \A k \in Keys : tries[k] < RefuseAfter + Width

\* load_best_loop_checkpoint, "the one with the highest turn (latest
\* progress)": what a stopped run wrote last is what a resume starts from.
BestIsNewest ==
  reason \in {"stopped_by_user", "paused_by_user"} => best.at = newest.at

\* "check once more for the exit note so the final reply honestly states
\* unverified state" (agent_loop.rs, budget exhausted): what is delivered with
\* failing assertions says so.
HonestNote == reason = "EXITED" /\ spec = "fail" => note
=============================================================================
