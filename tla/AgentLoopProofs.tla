--------------------------- MODULE AgentLoopProofs --------------------------
(***************************************************************************)
(* Proofs about AgentLoop, for any limits, calls and questions.            *)
(***************************************************************************)
EXTENDS AgentLoop, FiniteSetTheorems, TLAPS

-----------------------------------------------------------------------------
(* Types                                                                   *)

LEMMA TypeInit == Init => TypeOK
<1> SUFFICES ASSUME Init PROVE TypeOK
  OBVIOUS
<1>1. batch \in [Slots -> Entry]
  BY DEF Init, Entry
<1>2. /\ 0 \in 0..MaxTurns /\ 0 \in 0..MaxRefunds /\ 0 \in 0..AssertionRounds
      /\ 0 \in 0..2
  BY ParametersAssumption
<1>3. newest \in Checkpoint /\ best \in Checkpoint
  BY DEF Init, Checkpoint, Reasons
<1> QED BY <1>1, <1>2, <1>3 DEF Init, TypeOK, Reasons

\* A set of calls of a reply is finite, and so is what is made of it.
LEMMA SlotsFinite ==
  ASSUME NEW S, S \subseteq Slots
  PROVE  IsFiniteSet(S) /\ Cardinality(S) \in Nat
<1>1. IsFiniteSet(Slots)
  BY FS_Interval, ParametersAssumption DEF Slots
<1>2. IsFiniteSet(S)
  BY <1>1, FS_Subset
<1> QED BY <1>2, FS_CardinalityType

LEMMA SavedType ==
  ASSUME TypeOK, pc # "done", NEW why \in Reasons, Save(why)
  PROVE  newest' \in Checkpoint /\ best' \in Checkpoint
<1>1. Recorded \in Nat
  BY DEF Recorded, TypeOK
<1>2. newest' = [turn |-> turn, at |-> Recorded, reason |-> why]
  BY DEF Save
<1>3. turn \in Nat
  BY DEF TypeOK
<1>4. newest' \in Checkpoint
  BY <1>1, <1>2, <1>3 DEF Checkpoint
<1> QED BY <1>4 DEF Save, TypeOK

\* A call that settles keeps its key.
LEMMA SettleType ==
  ASSUME TypeOK, NEW s \in Slots, NEW from \in {"queued", "running"},
         NEW to \in {"blocked", "failed", "running", "ok"}, Settle(s, from, to)
  PROVE  batch' \in [Slots -> Entry]
<1>1. batch \in [Slots -> Entry] /\ batch[s].st # "none"
  BY DEF Settle, TypeOK
<1>2. batch[s] \in [key : Keys, st : {"queued", "running", "ok", "failed", "blocked"}]
  BY <1>1 DEF Entry, Idle
<1>3. [batch[s] EXCEPT !.st = to] \in Entry
  BY <1>2 DEF Entry
<1>4. batch' = [batch EXCEPT ![s] = [batch[s] EXCEPT !.st = to]]
  BY <1>1 DEF Settle
<1> QED BY <1>1, <1>3, <1>4

LEMMA CountedType ==
  ASSUME TypeOK, NEW k \in Keys
  PROVE  Counted(k) \in Nat
<1> DEFINE ok == {s \in Settled("ok") : batch[s].key = k}
           failed == {s \in Settled("failed") : batch[s].key = k}
           after == {s \in failed : \A t \in ok : t < s}
<1>1. Cardinality(after) \in Nat
  BY SlotsFinite DEF Settled
<1>2. fails[k] \in Nat /\ RefuseAfter \in Nat
  BY ParametersAssumption DEF TypeOK
<1> HIDE DEF ok, after
<1>3. (IF ok = {} THEN fails[k] ELSE 0) + Cardinality(after) \in Nat
  BY <1>1, <1>2
<1> QED BY <1>2, <1>3 DEF Counted, ok, after

LEMMA QuestionsCounted ==
  Cardinality({batch[s].key : s \in Settled("ok")} \cap Questions) \in Nat
<1> DEFINE keys == {batch[s].key : s \in Settled("ok")}
<1>1. IsFiniteSet(Settled("ok"))
  BY SlotsFinite DEF Settled
<1> DEFINE f == [s \in Settled("ok") |-> batch[s].key]
<1>2. f \in Surjection(Settled("ok"), keys)
  BY DEF Surjection
<1>3. IsFiniteSet(keys)
  BY <1>1, <1>2, FS_Surjection
<1> HIDE DEF keys
<1>4. IsFiniteSet(keys \cap Questions)
  BY <1>3, FS_Subset
<1>5. Cardinality(keys \cap Questions) \in Nat
  BY <1>4, FS_CardinalityType
<1> QED BY <1>5 DEF keys

LEMMA VerdictsAre ==
  ASSUME NEW v \in Verdicts
  PROVE  v.status \in {"not_run", "unavailable", "passed", "failed", "insufficient_evidence"}
<1>1. CASE v \in [pass : {FALSE}, status : {"not_run", "unavailable"}, high : {FALSE}]
  BY <1>1
<1>2. ASSUME NEW a \in Answers, v = parse_review_response(a)
      PROVE  v.status \in {"passed", "failed", "insufficient_evidence"}
  <2>1. a.verdict = "insufficient_evidence" => a.verdict \in {"insufficient_evidence"}
    OBVIOUS
  <2> QED BY <1>2, <2>1 DEF parse_review_response
<1> QED BY <1>1, <1>2 DEF Verdicts

LEMMA TypeNext == TypeOK /\ [Next]_vars => TypeOK'
<1> SUFFICES ASSUME TypeOK, [Next]_vars PROVE TypeOK'
  OBVIOUS
<1>1. ASSUME Stop PROVE TypeOK'
  BY <1>1 DEF Stop, TypeOK, control, input, calls, work, quality, checkpoints
<1>2. ASSUME SendPause PROVE TypeOK'
  BY <1>2 DEF SendPause, TypeOK, control, input, calls, work, quality, checkpoints
<1>3. ASSUME StopAtTop PROVE TypeOK'
  <2>1. newest' \in Checkpoint /\ best' \in Checkpoint
    BY <1>3, SavedType DEF StopAtTop, Reasons
  <2> QED BY <1>3, <2>1
          DEF StopAtTop, Return, Reasons, TypeOK, control, input, calls, work,
              quality, checkpoints
<1>4. ASSUME Pause PROVE TypeOK'
  <2>1. newest' \in Checkpoint /\ best' \in Checkpoint
    BY <1>4, SavedType DEF Pause, Reasons
  <2>2. /\ UNCHANGED <<turn, exit, stop, errors, empties, asks, refunds, replies>>
        /\ UNCHANGED <<calls, work, quality>>
        /\ pausing' = FALSE /\ pc' = "done" /\ reason' = "paused_by_user"
    BY <1>4 DEF Pause, Return
  <2>3. pausing' \in BOOLEAN /\ reason' \in Reasons
    BY <2>2 DEF Reasons
  <2> QED BY <2>1, <2>2, <2>3 DEF TypeOK, calls, work, quality
<1>5. ASSUME BeginTurn PROVE TypeOK'
  BY <1>5, ParametersAssumption
  DEF BeginTurn, TypeOK, control, input, calls, work, quality, checkpoints
<1>6. ASSUME OutOfTurns PROVE TypeOK'
  BY <1>6
  DEF OutOfTurns, Return, Reasons, TypeOK, control, input, calls, work, quality,
      checkpoints
<1>7. ASSUME StopInStream PROVE TypeOK'
  <2>1. newest' \in Checkpoint /\ best' \in Checkpoint
    BY <1>7, SavedType DEF StopInStream, Reasons
  <2> QED BY <1>7, <2>1
          DEF StopInStream, Return, Reasons, TypeOK, control, input, calls, work,
              quality, checkpoints
<1>8. ASSUME NEW kind \in {"hang", "timed_out", "error", "permanent"}, NEW b \in BOOLEAN,
             StreamError(kind, b)
      PROVE  TypeOK'
  <2>1. newest' \in Checkpoint /\ best' \in Checkpoint
    BY <1>8, SavedType DEF StreamError, Reasons, checkpoints, TypeOK
  <2>2. errors' \in Nat
    BY <1>8 DEF StreamError, TypeOK
  <2>3. pc' \in {"llm", "done"} /\ reason' \in Reasons
    BY <1>8 DEF StreamError, Return, Reasons, TypeOK
  <2> QED BY <1>8, <2>1, <2>2, <2>3
          DEF StreamError, TypeOK, control, input, calls, work, quality, checkpoints
<1>9. ASSUME IntentOnly PROVE TypeOK'
  BY <1>9
  DEF IntentOnly, Replied, TypeOK, control, input, calls, work, quality, checkpoints
<1>10. ASSUME Respond PROVE TypeOK'
  BY <1>10
  DEF Respond, Replied, TypeOK, control, input, calls, work, quality, checkpoints
<1>11. ASSUME NEW b \in [Slots -> {Idle} \cup Calls],
             CallTools(b)
      PROVE  TypeOK'
  <2>1. b \in [Slots -> Entry]
    BY ParametersAssumption DEF Calls, Entry
  <2> DEFINE ahead(k) == {s \in Slots : b[s].key = k /\ b[s].st \in {"ok", "failed"}}
  <2>2. tries' \in [Keys -> Nat]
    <3>1. ASSUME NEW k \in Keys PROVE Cardinality(ahead(k)) \in Nat
      <4>1. ahead(k) \subseteq Slots
        OBVIOUS
      <4> HIDE DEF ahead
      <4> QED BY <4>1, SlotsFinite
    <3>2. tries' = [k \in Keys |-> tries[k] + Cardinality(ahead(k))]
      BY <1>11 DEF CallTools
    <3> HIDE DEF ahead
    <3>3. \A k \in Keys : tries[k] + Cardinality(ahead(k)) \in Nat
      BY <3>1 DEF TypeOK
    <3> QED BY <3>2, <3>3
  <2> QED BY <1>11, <2>1, <2>2
          DEF CallTools, Replied, TypeOK, control, input, calls, work, quality,
              checkpoints
<1>12. ASSUME NEW s \in Slots,
             Block(s)
      PROVE  TypeOK'
  <2>1. batch' \in [Slots -> Entry]
    BY <1>12, SettleType DEF Block
  <2> QED BY <1>12, <2>1
          DEF Block, Settle, TypeOK, control, input, calls, work, quality, checkpoints
<1>13. ASSUME NEW s \in Slots,
             Refuse(s)
      PROVE  TypeOK'
  <2>1. batch' \in [Slots -> Entry]
    BY <1>13, SettleType DEF Refuse
  <2> QED BY <1>13, <2>1
          DEF Refuse, Settle, TypeOK, control, input, calls, work, quality,
              checkpoints
<1>14. ASSUME NEW s \in Slots,
             Dispatch(s)
      PROVE  TypeOK'
  <2>1. batch' \in [Slots -> Entry]
    BY <1>14, SettleType DEF Dispatch
  <2>2. tries' \in [Keys -> Nat]
    <3>1. tries' = [tries EXCEPT ![batch[s].key] = tries[batch[s].key] + 1]
      BY <1>14 DEF Dispatch
    <3>2. \A k \in Keys : tries[k] \in Nat /\ tries[k] + 1 \in Nat
      BY DEF TypeOK
    <3> QED BY <3>1, <3>2 DEF TypeOK
  <2> QED BY <1>14, <2>1, <2>2
          DEF Dispatch, Settle, TypeOK, control, input, calls, work, quality,
              checkpoints
<1>15. ASSUME NEW s \in Slots, NEW ok \in BOOLEAN,
             ToolReturns(s, ok)
      PROVE  TypeOK'
  <2>1. batch' \in [Slots -> Entry]
    BY <1>15, SettleType DEF ToolReturns
  <2> QED BY <1>15, <2>1
          DEF ToolReturns, Settle, TypeOK, control, input, calls, work, quality,
              checkpoints
<1>16. ASSUME NEW w \in {"none", "some", "complex"}, NEW t \in {"none", "open", "closed"},
             NEW p \in {"none", "hold", "fail"}, NEW b \in BOOLEAN,
             Results(w, t, p, b)
      PROVE  TypeOK'
  <2>1. fails' \in [Keys -> Nat]
    <3>1. fails' = [k \in Keys |-> Counted(k)]
      BY <1>16 DEF Results
    <3> QED BY <3>1, CountedType
  <2>2. tries' \in [Keys -> Nat]
    BY <1>16 DEF Results, TypeOK
  <2>3. asks' \in Nat
    <3>1. asks' = Cardinality({batch[s].key : s \in Settled("ok")} \cap Questions)
      BY <1>16 DEF Results
    <3> QED BY <3>1, QuestionsCounted
  <2>4. batch' \in [Slots -> Entry]
    BY <1>16 DEF Results, Entry
  <2>5. gates' \in Nat
    BY <1>16 DEF Results, TypeOK
  <2> QED BY <1>16, <2>1, <2>2, <2>3, <2>4, <2>5
          DEF Results, TypeOK, control, input, calls, work, quality, checkpoints
<1>17. ASSUME NEW b \in BOOLEAN,
             AskReply(b)
      PROVE  TypeOK'
  BY <1>17
  DEF AskReply, Answered, TypeOK, control, input, calls, work, quality, checkpoints
<1>18. ASSUME AskTimeout PROVE TypeOK'
  <2>1. newest' \in Checkpoint /\ best' \in Checkpoint
    BY <1>18, SavedType DEF AskTimeout, Answered, Reasons
  <2>2. asks' \in Nat
    BY <1>18 DEF AskTimeout, Answered, TypeOK
  <2>3. refunds' \in 0..MaxRefunds /\ turn' \in 0..MaxTurns
    BY <1>18, ParametersAssumption DEF AskTimeout, Refund, TypeOK
  <2> QED BY <1>18, <2>1, <2>2, <2>3
          DEF AskTimeout, TypeOK, control, input, calls, work, quality, checkpoints
<1>19. ASSUME AskStop PROVE TypeOK'
  <2>1. newest' \in Checkpoint /\ best' \in Checkpoint
    BY <1>19, SavedType DEF AskStop, Reasons
  <2> QED BY <1>19, <2>1
          DEF AskStop, Return, Reasons, TypeOK, control, input, calls, work, quality,
              checkpoints
<1>20. ASSUME AsksDone PROVE TypeOK'
  BY <1>20 DEF AsksDone, TypeOK, control, input, calls, work, quality, checkpoints
<1>21. ASSUME NEW b \in BOOLEAN,
             ExitGates(b)
      PROVE  TypeOK'
  <2>1. once' \subseteq Flags /\ gates' \in Nat /\ sentBack' \in Nat
    BY <1>21 DEF ExitGates, SendBack, TypeOK, Flags
  <2>2. exit' \in {"none", "EXITED", "stopped_by_user"} /\ pc' \in {"end", "spec"}
    BY <1>21 DEF ExitGates, SendBack, TypeOK
  <2> QED BY <1>21, <2>1, <2>2
          DEF ExitGates, TypeOK, control, input, calls, work, quality, checkpoints
<1>22. ASSUME NEW b \in BOOLEAN,
             AssertionGate(b)
      PROVE  TypeOK'
  <2>1. once' \subseteq Flags /\ gates' \in Nat
    BY <1>22 DEF AssertionGate, TypeOK, Flags
  <2>2. asserted' \in 0..AssertionRounds
    BY <1>22, ParametersAssumption DEF AssertionGate, TypeOK
  <2>3. exit' \in {"none", "EXITED", "stopped_by_user"} /\ sentBack' \in Nat
    BY <1>22 DEF AssertionGate, SendBack, TypeOK
  <2>4. note' \in BOOLEAN /\ pc' = "review"
    BY <1>22 DEF AssertionGate, TypeOK
  <2> QED BY <1>22, <2>1, <2>2, <2>3, <2>4
          DEF AssertionGate, TypeOK, control, input, calls, work, quality, checkpoints
<1>23. ASSUME NEW b \in BOOLEAN,
             DiffCheck(b)
      PROVE  TypeOK'
  <2>1. once' \subseteq Flags
    BY <1>23 DEF DiffCheck, TypeOK, Flags
  <2> QED BY <1>23, <2>1
          DEF DiffCheck, SendBack, TypeOK, control, input, calls, work, quality,
              checkpoints
<1>24. ASSUME NEW p \in {"none", "hold", "fail"},
             AutoSpec(p)
      PROVE  TypeOK'
  <2>1. once' \subseteq Flags
    BY <1>24 DEF AutoSpec, TypeOK, Flags
  <2> QED BY <1>24, <2>1
          DEF AutoSpec, TypeOK, control, input, calls, work, quality, checkpoints
<1>25. ASSUME NEW v \in Verdicts,
             Review(v)
      PROVE  TypeOK'
  <2>1. v.status \in {"not_run", "unavailable", "passed", "failed", "insufficient_evidence"}
    BY VerdictsAre DEF Verdicts
  <2>2. reviewed' \in 0..2 /\ review_status' \in {"not_run", "unavailable", "passed", "failed",
                                                "insufficient_evidence"}
    BY <1>25, <2>1 DEF Review, ReviewDue, TypeOK
  <2>3. /\ exit' \in {"none", "EXITED", "stopped_by_user"} /\ sentBack' \in Nat
        /\ gates' \in Nat
    BY <1>25 DEF Review, SendBack, TypeOK
  <2>4. note' \in BOOLEAN /\ pc' = "diff"
    BY <1>25 DEF Review, TypeOK
  <2> QED BY <1>25, <2>2, <2>3, <2>4
          DEF Review, TypeOK, control, input, calls, work, quality, checkpoints
<1>26. ASSUME Deliver PROVE TypeOK'
  BY <1>26
  DEF Deliver, Return, Reasons, TypeOK, control, input, calls, work, quality,
      checkpoints
<1>27. ASSUME Stuck PROVE TypeOK'
  <2>1. newest' \in Checkpoint /\ best' \in Checkpoint
    BY <1>27, SavedType DEF Stuck, Reasons
  <2> QED BY <1>27, <2>1
          DEF Stuck, Return, Reasons, TypeOK, control, input, calls, work, quality,
              checkpoints
<1>28. ASSUME EndTurn PROVE TypeOK'
  <2>1. newest' \in Checkpoint /\ best' \in Checkpoint
    BY <1>28, SavedType DEF EndTurn, Reasons, checkpoints, TypeOK
  <2> QED BY <1>28, <2>1
          DEF EndTurn, TypeOK, control, input, calls, work, quality, checkpoints
<1>29. CASE UNCHANGED vars
  BY <1>29 DEF TypeOK, control, input, calls, work, quality, checkpoints, vars
<1> QED
  BY <1>1, <1>2, <1>3, <1>4, <1>5, <1>6, <1>7, <1>8, <1>9, <1>10, <1>11, <1>12,
     <1>13, <1>14, <1>15, <1>16, <1>17, <1>18, <1>19, <1>20, <1>21, <1>22, <1>23,
     <1>24, <1>25, <1>26, <1>27, <1>28, <1>29
  DEF Next, Loop, Top, Stream, Tools, Ask, Gates

\* Every variable keeps its type: the turn stays within max_turns, reviews and
\* assertion rounds within their limits (TypeOK of the run agent_loop).
THEOREM TypeCorrect == Spec => []TypeOK
  BY TypeInit, TypeNext, PTL DEF Spec


-----------------------------------------------------------------------------
(* The budget of the gates                                                 *)

\* Every exit sent back has been counted; the counter may run ahead, by the quick
\* check and where a pass counts twice.
Budgeted == sentBack <= gates /\ SendBacksBounded

LEMMA BudgetedInit == Init => Budgeted
  BY ParametersAssumption DEF Init, Budgeted, SendBacksBounded

LEMMA BudgetedNext == TypeOK /\ Budgeted /\ [Next]_vars => Budgeted'
<1> SUFFICES ASSUME TypeOK, Budgeted, [Next]_vars PROVE Budgeted'
  OBVIOUS
<1> USE ParametersAssumption
<1>0. sentBack \in Nat /\ gates \in Nat /\ MaxContinuations \in Nat
  BY DEF TypeOK

<1>1. ASSUME Stop PROVE Budgeted'
  BY <1>1 DEF Stop, Budgeted, SendBacksBounded, quality
<1>2. ASSUME SendPause PROVE Budgeted'
  BY <1>2 DEF SendPause, Budgeted, SendBacksBounded, quality
<1>3. ASSUME StopAtTop PROVE Budgeted'
  BY <1>3 DEF StopAtTop, Budgeted, SendBacksBounded, quality
<1>4. ASSUME Pause PROVE Budgeted'
  BY <1>4 DEF Pause, Budgeted, SendBacksBounded, quality
<1>5. ASSUME BeginTurn PROVE Budgeted'
  BY <1>5 DEF BeginTurn, Budgeted, SendBacksBounded, quality
<1>6. ASSUME OutOfTurns PROVE Budgeted'
  BY <1>6 DEF OutOfTurns, Budgeted, SendBacksBounded, quality
<1>7. ASSUME StopInStream PROVE Budgeted'
  BY <1>7 DEF StopInStream, Budgeted, SendBacksBounded, quality
<1>8. ASSUME NEW kind \in {"hang", "timed_out", "error", "permanent"}, NEW b \in BOOLEAN,
             StreamError(kind, b)
      PROVE  Budgeted'
  BY <1>8 DEF StreamError, Budgeted, SendBacksBounded, quality
<1>9. ASSUME IntentOnly PROVE Budgeted'
  BY <1>9 DEF IntentOnly, Replied, Budgeted, SendBacksBounded, quality
<1>10. ASSUME Respond PROVE Budgeted'
  BY <1>10 DEF Respond, Replied, Budgeted, SendBacksBounded, quality
<1>11. ASSUME NEW b \in [Slots -> {Idle} \cup Calls],
             CallTools(b)
      PROVE  Budgeted'
  BY <1>11 DEF CallTools, Replied, Budgeted, SendBacksBounded, quality
<1>12. ASSUME NEW s \in Slots,
             Block(s)
      PROVE  Budgeted'
  BY <1>12 DEF Block, Settle, Budgeted, SendBacksBounded, quality
<1>13. ASSUME NEW s \in Slots,
             Refuse(s)
      PROVE  Budgeted'
  BY <1>13 DEF Refuse, Settle, Budgeted, SendBacksBounded, quality
<1>14. ASSUME NEW s \in Slots,
             Dispatch(s)
      PROVE  Budgeted'
  BY <1>14 DEF Dispatch, Settle, Budgeted, SendBacksBounded, quality
<1>15. ASSUME NEW s \in Slots, NEW ok \in BOOLEAN,
             ToolReturns(s, ok)
      PROVE  Budgeted'
  BY <1>15 DEF ToolReturns, Settle, Budgeted, SendBacksBounded, quality
<1>16. ASSUME NEW w \in {"none", "some", "complex"}, NEW t \in {"none", "open", "closed"},
             NEW p \in {"none", "hold", "fail"}, NEW b \in BOOLEAN,
             Results(w, t, p, b)
      PROVE  Budgeted'
  <2>1. sentBack' = sentBack /\ gates' \in {gates, gates + 1}
    BY <1>16 DEF Results
  <2> QED BY <1>0, <2>1 DEF Budgeted, SendBacksBounded
<1>17. ASSUME NEW b \in BOOLEAN,
             AskReply(b)
      PROVE  Budgeted'
  BY <1>17 DEF AskReply, Answered, Budgeted, SendBacksBounded, quality
<1>18. ASSUME AskTimeout PROVE Budgeted'
  BY <1>18 DEF AskTimeout, Answered, Budgeted, SendBacksBounded, quality
<1>19. ASSUME AskStop PROVE Budgeted'
  BY <1>19 DEF AskStop, Budgeted, SendBacksBounded, quality
<1>20. ASSUME AsksDone PROVE Budgeted'
  BY <1>20 DEF AsksDone, Budgeted, SendBacksBounded, quality
<1>21. ASSUME NEW b \in BOOLEAN,
             ExitGates(b)
      PROVE  Budgeted'
  <2>1. CASE UNCHANGED <<gates, sentBack>>
    BY <2>1 DEF Budgeted, SendBacksBounded
  <2>2. CASE gates < MaxContinuations /\ gates' = gates + 1 /\ sentBack' = sentBack + 1
    BY <1>0, <2>2 DEF Budgeted, SendBacksBounded
  <2> QED BY <1>21, <2>1, <2>2 DEF ExitGates, SendBack
<1>22. ASSUME NEW b \in BOOLEAN,
             AssertionGate(b)
      PROVE  Budgeted'
  <2>1. gates' \in {gates, gates + 1, gates + 2}
    BY <1>22, <1>0 DEF AssertionGate
  <2>2. CASE UNCHANGED sentBack
    BY <1>0, <2>1, <2>2 DEF Budgeted, SendBacksBounded
  <2>3. CASE gates < MaxContinuations /\ gates' # gates /\ sentBack' = sentBack + 1
    BY <1>0, <2>1, <2>3 DEF Budgeted, SendBacksBounded
  <2> QED BY <1>22, <1>0, <2>2, <2>3 DEF AssertionGate, SendBack
<1>23. ASSUME NEW b \in BOOLEAN,
             DiffCheck(b)
      PROVE  Budgeted'
  <2>1. CASE UNCHANGED <<gates, sentBack>>
    BY <2>1 DEF Budgeted, SendBacksBounded
  <2>2. CASE gates < MaxContinuations /\ gates' = gates + 1 /\ sentBack' = sentBack + 1
    BY <1>0, <2>2 DEF Budgeted, SendBacksBounded
  <2> QED BY <1>23, <2>1, <2>2 DEF DiffCheck, SendBack
<1>24. ASSUME NEW p \in {"none", "hold", "fail"},
             AutoSpec(p)
      PROVE  Budgeted'
  BY <1>24 DEF AutoSpec, Budgeted, SendBacksBounded
<1>25. ASSUME NEW v \in Verdicts,
             Review(v)
      PROVE  Budgeted'
  <2>1. CASE UNCHANGED <<gates, sentBack>>
    BY <2>1 DEF Budgeted, SendBacksBounded
  <2>2. CASE gates < MaxContinuations /\ gates' = gates + 1 /\ sentBack' = sentBack + 1
    BY <1>0, <2>2 DEF Budgeted, SendBacksBounded
  <2> QED BY <1>25, <2>1, <2>2 DEF Review, SendBack, MustFix
<1>26. ASSUME Deliver PROVE Budgeted'
  BY <1>26 DEF Deliver, Budgeted, SendBacksBounded, quality
<1>27. ASSUME Stuck PROVE Budgeted'
  BY <1>27 DEF Stuck, Budgeted, SendBacksBounded, quality
<1>28. ASSUME EndTurn PROVE Budgeted'
  BY <1>28 DEF EndTurn, Budgeted, SendBacksBounded, quality
<1>29. CASE UNCHANGED vars
  BY <1>29 DEF Budgeted, SendBacksBounded, quality, vars
<1> QED
  BY <1>1, <1>2, <1>3, <1>4, <1>5, <1>6, <1>7, <1>8, <1>9, <1>10, <1>11, <1>12,
     <1>13, <1>14, <1>15, <1>16, <1>17, <1>18, <1>19, <1>20, <1>21, <1>22, <1>23,
     <1>24, <1>25, <1>26, <1>27, <1>28, <1>29
  DEF Next, Loop, Top, Stream, Tools, Ask, Gates

\* Two gates that count in one pass, or a quick check that shares the counter, never
\* let a run be sent back more often than the limit (SendBacksBounded of the run
\* agent_loop).
THEOREM SendBacksBoundedHolds == Spec => []SendBacksBounded
<1>1. Budgeted => SendBacksBounded
  BY DEF Budgeted
<1>2. Spec => [](TypeOK /\ Budgeted)
  BY TypeInit, TypeNext, BudgetedInit, BudgetedNext, PTL DEF Spec
<1> QED BY <1>1, <1>2, PTL

-----------------------------------------------------------------------------
(* What a stopped run leaves                                               *)

\* A run has a reason once it is over, and the reason of the turn is a stop only
\* where the run ends by it.
Reasoned ==
  /\ pc # "done" => reason = "none" /\ exit # "stopped_by_user"
  /\ StopSaved

LEMMA ReasonedInit == Init => Reasoned
  BY DEF Init, Reasoned, StopSaved

LEMMA ReasonedNext == TypeOK /\ Reasoned /\ [Next]_vars => Reasoned'
<1> SUFFICES ASSUME TypeOK, Reasoned, [Next]_vars PROVE Reasoned'
  OBVIOUS

<1>1. ASSUME Stop PROVE Reasoned'
  BY <1>1 DEF Stop, Reasoned, StopSaved, control, checkpoints
<1>2. ASSUME SendPause PROVE Reasoned'
  BY <1>2 DEF SendPause, Reasoned, StopSaved, control, checkpoints
<1>3. ASSUME StopAtTop PROVE Reasoned'
  BY <1>3
  DEF StopAtTop, Save, Recorded, Return, Reasoned, StopSaved, control, checkpoints
<1>4. ASSUME Pause PROVE Reasoned'
  BY <1>4 DEF Pause, Save, Recorded, Return, Reasoned, StopSaved, control, checkpoints
<1>5. ASSUME BeginTurn PROVE Reasoned'
  BY <1>5 DEF BeginTurn, Reasoned, StopSaved, control, checkpoints
<1>6. ASSUME OutOfTurns PROVE Reasoned'
  BY <1>6 DEF OutOfTurns, Return, Reasoned, StopSaved, control, checkpoints
<1>7. ASSUME StopInStream PROVE Reasoned'
  BY <1>7
  DEF StopInStream, Save, Recorded, Return, Reasoned, StopSaved, control, checkpoints
<1>8. ASSUME NEW kind \in {"hang", "timed_out", "error", "permanent"}, NEW b \in BOOLEAN,
             StreamError(kind, b)
      PROVE  Reasoned'
  <2>1. pc' \in {"llm", "done"} /\ reason' \in {"none", "llm_error", "llm_timeout"}
        /\ (pc' # "done" => reason' = "none") /\ exit' = exit
    BY <1>8 DEF StreamError, Return, Reasoned
  <2>2. exit # "stopped_by_user"
    BY <1>8 DEF StreamError, Reasoned
  <2> QED BY <2>1, <2>2 DEF Reasoned, StopSaved
<1>9. ASSUME IntentOnly PROVE Reasoned'
  BY <1>9 DEF IntentOnly, Replied, Reasoned, StopSaved, control, checkpoints
<1>10. ASSUME Respond PROVE Reasoned'
  BY <1>10 DEF Respond, Replied, Reasoned, StopSaved, control, checkpoints
<1>11. ASSUME NEW b \in [Slots -> {Idle} \cup Calls],
             CallTools(b)
      PROVE  Reasoned'
  BY <1>11 DEF CallTools, Replied, Reasoned, StopSaved, control, checkpoints
<1>12. ASSUME NEW s \in Slots,
             Block(s)
      PROVE  Reasoned'
  BY <1>12 DEF Block, Settle, Reasoned, StopSaved, control, checkpoints
<1>13. ASSUME NEW s \in Slots,
             Refuse(s)
      PROVE  Reasoned'
  BY <1>13 DEF Refuse, Settle, Reasoned, StopSaved, control, checkpoints
<1>14. ASSUME NEW s \in Slots,
             Dispatch(s)
      PROVE  Reasoned'
  BY <1>14 DEF Dispatch, Settle, Reasoned, StopSaved, control, checkpoints
<1>15. ASSUME NEW s \in Slots, NEW ok \in BOOLEAN,
             ToolReturns(s, ok)
      PROVE  Reasoned'
  BY <1>15 DEF ToolReturns, Settle, Reasoned, StopSaved, control, checkpoints
<1>16. ASSUME NEW w \in {"none", "some", "complex"}, NEW t \in {"none", "open", "closed"},
             NEW p \in {"none", "hold", "fail"}, NEW b \in BOOLEAN,
             Results(w, t, p, b)
      PROVE  Reasoned'
  BY <1>16 DEF Results, Reasoned, StopSaved, control, checkpoints
<1>17. ASSUME NEW b \in BOOLEAN,
             AskReply(b)
      PROVE  Reasoned'
  BY <1>17 DEF AskReply, Answered, Reasoned, StopSaved, control, checkpoints
<1>18. ASSUME AskTimeout PROVE Reasoned'
  BY <1>18
  DEF AskTimeout, Answered, Save, Recorded, Reasoned, StopSaved, control, checkpoints
<1>19. ASSUME AskStop PROVE Reasoned'
  BY <1>19
  DEF AskStop, Save, Recorded, Return, Reasoned, StopSaved, control, checkpoints
<1>20. ASSUME AsksDone PROVE Reasoned'
  BY <1>20 DEF AsksDone, Reasoned, StopSaved, control, checkpoints
<1>21. ASSUME NEW b \in BOOLEAN,
             ExitGates(b)
      PROVE  Reasoned'
  <2>1. pc' # "done" /\ reason' = reason /\ reason = "none" /\ exit' \in {"none", exit}
    BY <1>21 DEF ExitGates, SendBack, Reasoned
  <2>2. exit # "stopped_by_user"
    BY <1>21 DEF ExitGates, Reasoned
  <2> QED BY <2>1, <2>2 DEF Reasoned, StopSaved
<1>22. ASSUME NEW b \in BOOLEAN,
             AssertionGate(b)
      PROVE  Reasoned'
  <2>1. pc' # "done" /\ reason' = reason /\ reason = "none" /\ exit' \in {"none", exit}
    BY <1>22 DEF AssertionGate, SendBack, Reasoned
  <2>2. exit # "stopped_by_user"
    BY <1>22 DEF AssertionGate, Reasoned
  <2> QED BY <2>1, <2>2 DEF Reasoned, StopSaved
<1>23. ASSUME NEW b \in BOOLEAN,
             DiffCheck(b)
      PROVE  Reasoned'
  <2>1. pc' # "done" /\ reason' = reason /\ reason = "none" /\ exit' \in {"none", exit}
    BY <1>23 DEF DiffCheck, SendBack, Reasoned
  <2>2. exit # "stopped_by_user"
    BY <1>23 DEF DiffCheck, Reasoned
  <2> QED BY <2>1, <2>2 DEF Reasoned, StopSaved
<1>24. ASSUME NEW p \in {"none", "hold", "fail"},
             AutoSpec(p)
      PROVE  Reasoned'
  BY <1>24 DEF AutoSpec, Reasoned, StopSaved, control, checkpoints
<1>25. ASSUME NEW v \in Verdicts,
             Review(v)
      PROVE  Reasoned'
  <2>1. pc' # "done" /\ reason' = reason /\ reason = "none" /\ exit' \in {"none", exit}
    BY <1>25 DEF Review, SendBack, Reasoned
  <2>2. exit # "stopped_by_user"
    BY <1>25 DEF Review, Reasoned
  <2> QED BY <2>1, <2>2 DEF Reasoned, StopSaved
<1>26. ASSUME Deliver PROVE Reasoned'
  <2>1. pc' = "done" /\ reason' = exit /\ exit \in {"EXITED"}
    BY <1>26 DEF Deliver, Return, Reasoned, TypeOK
  <2> QED BY <2>1 DEF Reasoned, StopSaved
<1>27. ASSUME Stuck PROVE Reasoned'
  BY <1>27 DEF Stuck, Save, Recorded, Return, Reasoned, StopSaved, control, checkpoints
<1>28. ASSUME EndTurn PROVE Reasoned'
  BY <1>28 DEF EndTurn, Save, Recorded, Reasoned, StopSaved, control, checkpoints
<1>29. CASE UNCHANGED vars
  BY <1>29 DEF Reasoned, StopSaved, control, checkpoints, vars
<1> QED
  BY <1>1, <1>2, <1>3, <1>4, <1>5, <1>6, <1>7, <1>8, <1>9, <1>10, <1>11, <1>12,
     <1>13, <1>14, <1>15, <1>16, <1>17, <1>18, <1>19, <1>20, <1>21, <1>22, <1>23,
     <1>24, <1>25, <1>26, <1>27, <1>28, <1>29
  DEF Next, Loop, Top, Stream, Tools, Ask, Gates

\* A run that says it was stopped, paused or stuck has written the checkpoint that
\* says so, wherever the flag was raised (StopSaved of the run agent_loop).
THEOREM StopSavedHolds == Spec => []StopSaved
<1>1. Reasoned => StopSaved
  BY DEF Reasoned
<1>2. Spec => [](TypeOK /\ Reasoned)
  BY TypeInit, TypeNext, ReasonedInit, ReasonedNext, PTL DEF Spec
<1> QED BY <1>1, <1>2, PTL

-----------------------------------------------------------------------------
(* What a delivery says                                                    *)

Unproven == {"failed", "insufficient_evidence"}

(***************************************************************************)
(* A review that found a defect or could not judge has left a note, or was *)
(* the first one, of files that are still there: then no exit has passed   *)
(* the review since.                                                       *)
(***************************************************************************)
Answerable ==
  /\ pc # "done" => reason = "none"
  /\ pc \in {"top", "llm", "tools", "asks"} => exit = "none"
  /\ review_status \in Unproven /\ ~note /\ pc # "done" =>
       /\ reviewed = 1 /\ wrote # "none"
       /\ pc \in {"diff", "end"} => exit = "none"
  /\ DefectsNoted

LEMMA AnswerableInit == Init => Answerable
  BY DEF Init, Answerable, DefectsNoted, Unproven

\* A verdict that fails is not a pass, and one that must be fixed is no pass either
\* or has a high issue.
LEMMA FailedIsNoPass ==
  ASSUME NEW v \in Verdicts
  PROVE  (v.status \in Unproven => ~v.pass) /\ v.pass \in BOOLEAN /\ v.high \in BOOLEAN
<1>1. CASE v \in [pass : {FALSE}, status : {"not_run", "unavailable"}, high : {FALSE}]
  BY <1>1 DEF Unproven
<1>2. ASSUME NEW a \in Answers, v = parse_review_response(a)
      PROVE  (v.status \in Unproven => ~v.pass) /\ v.pass \in BOOLEAN /\ v.high \in BOOLEAN
  BY <1>2 DEF parse_review_response, Answers, Unproven
<1> QED BY <1>1, <1>2 DEF Verdicts

LEMMA NotRunIsQuiet ==
  ASSUME NEW v \in Verdicts, v.status = "not_run"
  PROVE  v.high = FALSE
<1>1. ASSUME NEW a \in Answers, v = parse_review_response(a) PROVE FALSE
  BY <1>1 DEF parse_review_response
<1> QED BY <1>1 DEF Verdicts

\* A verdict with a high issue is one of a reviewer that answered.
LEMMA HighIsAnswered ==
  ASSUME NEW v \in Verdicts, v.high \/ v.status \in Unproven
  PROVE  v.status \notin {"not_run", "unavailable"}
<1>1. CASE v \in [pass : {FALSE}, status : {"not_run", "unavailable"}, high : {FALSE}]
  BY <1>1 DEF Unproven
<1>2. ASSUME NEW a \in Answers, v = parse_review_response(a)
      PROVE  v.status \notin {"not_run", "unavailable"}
  BY <1>2 DEF parse_review_response, Unproven
<1> QED BY <1>1, <1>2 DEF Verdicts

LEMMA AnswerableNext == TypeOK /\ Answerable /\ [Next]_vars => Answerable'
<1> SUFFICES ASSUME TypeOK, Answerable, [Next]_vars PROVE Answerable'
  OBVIOUS

<1>1. ASSUME Stop PROVE Answerable'
  BY <1>1 DEF Stop, Answerable, DefectsNoted, Unproven, control, work, quality
<1>2. ASSUME SendPause PROVE Answerable'
  BY <1>2 DEF SendPause, Answerable, DefectsNoted, Unproven, control, work, quality
<1>3. ASSUME StopAtTop PROVE Answerable'
  BY <1>3 DEF StopAtTop, Return, Answerable, DefectsNoted, Unproven, control, work, quality
<1>4. ASSUME Pause PROVE Answerable'
  BY <1>4 DEF Pause, Return, Answerable, DefectsNoted, Unproven, control, work, quality
<1>5. ASSUME BeginTurn PROVE Answerable'
  BY <1>5 DEF BeginTurn, Answerable, DefectsNoted, Unproven, control, work, quality
<1>6. ASSUME OutOfTurns PROVE Answerable'
  BY <1>6 DEF OutOfTurns, Return, Answerable, DefectsNoted, Unproven, control, work, quality
<1>7. ASSUME StopInStream PROVE Answerable'
  BY <1>7 DEF StopInStream, Return, Answerable, DefectsNoted, Unproven, control, work, quality
<1>8. ASSUME NEW kind \in {"hang", "timed_out", "error", "permanent"}, NEW b \in BOOLEAN,
             StreamError(kind, b)
      PROVE  Answerable'
  <2>1. /\ pc = "llm" /\ UNCHANGED <<exit, wrote, reviewed, review_status, note>>
        /\ \/ pc' = "llm" /\ reason' = "none"
           \/ pc' = "done" /\ reason' \in {"llm_error", "llm_timeout"}
    BY <1>8 DEF StreamError, Return, Answerable, quality, work
  <2> QED BY <2>1 DEF Answerable, DefectsNoted, Unproven
<1>9. ASSUME IntentOnly PROVE Answerable'
  BY <1>9 DEF IntentOnly, Replied, Answerable, DefectsNoted, Unproven, control, work, quality
<1>10. ASSUME Respond PROVE Answerable'
  BY <1>10 DEF Respond, Replied, Answerable, DefectsNoted, Unproven, control, work, quality
<1>11. ASSUME NEW b \in [Slots -> {Idle} \cup Calls],
             CallTools(b)
      PROVE  Answerable'
  BY <1>11 DEF CallTools, Replied, Answerable, DefectsNoted, Unproven, control, work, quality
<1>12. ASSUME NEW s \in Slots,
             Block(s)
      PROVE  Answerable'
  BY <1>12 DEF Block, Settle, Answerable, DefectsNoted, Unproven, control, work, quality
<1>13. ASSUME NEW s \in Slots,
             Refuse(s)
      PROVE  Answerable'
  BY <1>13 DEF Refuse, Settle, Answerable, DefectsNoted, Unproven, control, work, quality
<1>14. ASSUME NEW s \in Slots,
             Dispatch(s)
      PROVE  Answerable'
  BY <1>14 DEF Dispatch, Settle, Answerable, DefectsNoted, Unproven, control, work, quality
<1>15. ASSUME NEW s \in Slots, NEW ok \in BOOLEAN,
             ToolReturns(s, ok)
      PROVE  Answerable'
  BY <1>15 DEF ToolReturns, Settle, Answerable, DefectsNoted, Unproven, control, work, quality
<1>16. ASSUME NEW w \in {"none", "some", "complex"}, NEW t \in {"none", "open", "closed"},
             NEW p \in {"none", "hold", "fail"}, NEW b \in BOOLEAN,
             Results(w, t, p, b)
      PROVE  Answerable'
  <2>1. /\ pc' = "asks" /\ (wrote # "none" => wrote' # "none")
        /\ UNCHANGED <<reason, exit, reviewed, review_status, note>> /\ pc = "tools"
    BY <1>16 DEF Results
  <2> QED BY <2>1 DEF Answerable, DefectsNoted, Unproven
<1>17. ASSUME NEW b \in BOOLEAN,
             AskReply(b)
      PROVE  Answerable'
  BY <1>17 DEF AskReply, Answered, Answerable, DefectsNoted, Unproven, control, work, quality
<1>18. ASSUME AskTimeout PROVE Answerable'
  BY <1>18 DEF AskTimeout, Answered, Answerable, DefectsNoted, Unproven, control, work, quality
<1>19. ASSUME AskStop PROVE Answerable'
  BY <1>19 DEF AskStop, Return, Answerable, DefectsNoted, Unproven, control, work, quality
<1>20. ASSUME AsksDone PROVE Answerable'
  BY <1>20 DEF AsksDone, Answerable, DefectsNoted, Unproven, control, work, quality
<1>21. ASSUME NEW b \in BOOLEAN,
             ExitGates(b)
      PROVE  Answerable'
  <2>1. /\ pc = "gates" /\ UNCHANGED <<reason, wrote, reviewed, review_status, note>>
        /\ (pc' = "spec" \/ (pc' = "end" /\ exit' = "none"))
    BY <1>21 DEF ExitGates, work
  <2> QED BY <2>1 DEF Answerable, DefectsNoted, Unproven
<1>22. ASSUME NEW b \in BOOLEAN,
             AssertionGate(b)
      PROVE  Answerable'
  <2>1. /\ pc = "assertions" /\ pc' = "review" /\ (note => note')
        /\ UNCHANGED <<reason, wrote, reviewed, review_status>>
    BY <1>22 DEF AssertionGate, work
  <2> QED BY <2>1 DEF Answerable, DefectsNoted, Unproven
<1>23. ASSUME NEW b \in BOOLEAN,
             DiffCheck(b)
      PROVE  Answerable'
  <2>1. /\ pc = "diff" /\ pc' = "end" /\ exit' \in {exit, "none"}
        /\ UNCHANGED <<reason, wrote, reviewed, review_status, note>>
    BY <1>23 DEF DiffCheck, SendBack, work
  <2> QED BY <2>1 DEF Answerable, DefectsNoted, Unproven
<1>24. ASSUME NEW p \in {"none", "hold", "fail"},
             AutoSpec(p)
      PROVE  Answerable'
  <2>1. pc = "spec" /\ pc' = "assertions" /\ UNCHANGED <<reason, wrote, reviewed, review_status, note>>
    BY <1>24 DEF AutoSpec
  <2> QED BY <2>1 DEF Answerable, DefectsNoted, Unproven
<1>25. ASSUME NEW v \in Verdicts,
             Review(v)
      PROVE  Answerable'
  <2>1. /\ pc = "review" /\ pc' = "diff" /\ reason' = "none" /\ wrote' = wrote
    BY <1>25 DEF Review, Answerable, work
  <2>2. CASE ~ReviewDue
    <3>1. UNCHANGED <<reviewed, review_status>> /\ v.status = "not_run"
      BY <1>25, <2>2 DEF Review
    <3>2. v.high = FALSE
      BY <3>1, NotRunIsQuiet
    <3>3. ~MustFix(v)
      BY <3>1, <3>2 DEF MustFix, review_requires_fix
    <3>4. exit' = exit /\ note' = (note \/ (v.status \notin {"not_run", "unavailable"}
                                          /\ (~v.pass \/ v.high)))
      BY <1>25, <3>3 DEF Review
    <3>5. note' = note
      BY <3>1, <3>4 DEF TypeOK
    <3> QED BY <2>1, <2>2, <3>1, <3>4, <3>5 DEF ReviewDue, Answerable, DefectsNoted, Unproven
  <2>3. CASE ReviewDue /\ MustFix(v)
    <3>1. reviewed' = reviewed + 1 /\ exit' = "none" /\ reviewed + 1 < 2
      BY <1>25, <2>3 DEF Review, SendBack, MustFix
    <3>2. reviewed' = 1 /\ wrote # "none"
      BY <2>3, <3>1 DEF ReviewDue, TypeOK
    <3> QED BY <2>1, <3>1, <3>2 DEF Answerable, DefectsNoted, Unproven
  <2>4. CASE ReviewDue /\ ~MustFix(v)
    <3>1. /\ review_status' = IF v.pass /\ v.high THEN "failed" ELSE v.status
          /\ note' = (note \/ (v.status \notin {"not_run", "unavailable"}
                               /\ (~v.pass \/ v.high)))
      BY <1>25, <2>4 DEF Review
    <3>2. review_status' \in Unproven => note'
      <4>1. CASE v.pass /\ v.high
        BY <3>1, <4>1, HighIsAnswered
      <4>2. CASE ~(v.pass /\ v.high)
        BY <3>1, <4>2, FailedIsNoPass, HighIsAnswered
      <4> QED BY <4>1, <4>2
    <3> QED BY <2>1, <3>2 DEF Answerable, DefectsNoted, Unproven
  <2> QED BY <2>2, <2>3, <2>4
<1>26. ASSUME Deliver PROVE Answerable'
  <2>1. /\ pc = "end" /\ pc' = "done" /\ exit # "none"
        /\ UNCHANGED <<reviewed, review_status, note, wrote>>
    BY <1>26 DEF Deliver, Return, quality, work
  <2>2. review_status \in Unproven => note
    BY <2>1 DEF Answerable, TypeOK
  <2> QED BY <2>1, <2>2 DEF Answerable, DefectsNoted, Unproven
<1>27. ASSUME Stuck PROVE Answerable'
  BY <1>27 DEF Stuck, Return, Answerable, DefectsNoted, Unproven, control, work, quality
<1>28. ASSUME EndTurn PROVE Answerable'
  BY <1>28 DEF EndTurn, Answerable, DefectsNoted, Unproven, control, work, quality
<1>29. CASE UNCHANGED vars
  BY <1>29 DEF Answerable, DefectsNoted, Unproven, control, work, quality, vars
<1> QED
  BY <1>1, <1>2, <1>3, <1>4, <1>5, <1>6, <1>7, <1>8, <1>9, <1>10, <1>11, <1>12,
     <1>13, <1>14, <1>15, <1>16, <1>17, <1>18, <1>19, <1>20, <1>21, <1>22, <1>23,
     <1>24, <1>25, <1>26, <1>27, <1>28, <1>29
  DEF Next, Loop, Top, Stream, Tools, Ask, Gates

\* Whatever form the reviewer's answer takes and whatever the budget, a delivery whose
\* last review found a defect or could not judge says so (DefectsNoted of the run
\* agent_loop).
THEOREM DefectsNotedHolds == Spec => []DefectsNoted
<1>1. Answerable => DefectsNoted
  BY DEF Answerable
<1>2. Spec => [](TypeOK /\ Answerable)
  BY TypeInit, TypeNext, AnswerableInit, AnswerableNext, PTL DEF Spec
<1> QED BY <1>1, <1>2, PTL

-----------------------------------------------------------------------------
(* How long a run can be                                                   *)

\* The reply of this turn is still to come in "llm", and every turn that was given
\* back is a refund.
Paid ==
  /\ replies + (IF pc = "llm" THEN 1 ELSE 0) <= turn + refunds
  /\ RepliesBounded

LEMMA PaidInit == Init => Paid
  BY ParametersAssumption DEF Init, Paid, RepliesBounded

\* Sums within their limits, and one that has not shrunk.
LEMMA PaidSum ==
  \A r, o \in Nat : \A t \in 0..MaxTurns, f \in 0..MaxRefunds :
    r + o <= t + f => r <= MaxTurns + MaxRefunds
  BY ParametersAssumption

LEMMA SumKept ==
  \A r, t, f, u, g \in Nat : r <= t + f /\ g + u >= f + t => r + 0 <= u + g
  OBVIOUS

LEMMA PaidNext == TypeOK /\ Paid /\ [Next]_vars => Paid'
<1> SUFFICES ASSUME TypeOK, Paid, [Next]_vars PROVE Paid'
  OBVIOUS
<1>0. replies \in Nat /\ turn \in Nat /\ refunds \in Nat /\ MaxTurns \in Nat /\ MaxRefunds \in Nat
  BY ParametersAssumption DEF TypeOK
<1>a. ASSUME replies' + (IF pc' = "llm" THEN 1 ELSE 0) <= turn' + refunds' PROVE Paid'
  <2>1. replies' \in Nat /\ turn' \in 0..MaxTurns /\ refunds' \in 0..MaxRefunds
    BY TypeNext DEF TypeOK
  <2>2. (IF pc' = "llm" THEN 1 ELSE 0) \in Nat
    OBVIOUS
  <2>3. replies' <= MaxTurns + MaxRefunds
    BY <1>a, <2>1, <2>2, PaidSum
  <2> QED BY <1>a, <2>3 DEF Paid, RepliesBounded

<1>1. ASSUME Stop PROVE Paid'
  BY <1>1, <1>0, <1>a DEF Stop, Paid, control
<1>2. ASSUME SendPause PROVE Paid'
  BY <1>2, <1>0, <1>a DEF SendPause, Paid, control
<1>3. ASSUME StopAtTop PROVE Paid'
  BY <1>3, <1>0, <1>a DEF StopAtTop, Return, Paid, control
<1>4. ASSUME Pause PROVE Paid'
  BY <1>4, <1>0, <1>a DEF Pause, Return, Paid, control
<1>5. ASSUME BeginTurn PROVE Paid'
  BY <1>5, <1>0, <1>a DEF BeginTurn, Paid, control
<1>6. ASSUME OutOfTurns PROVE Paid'
  BY <1>6, <1>0, <1>a DEF OutOfTurns, Return, Paid, control
<1>7. ASSUME StopInStream PROVE Paid'
  BY <1>7, <1>0, <1>a DEF StopInStream, Return, Paid, control
<1>8. ASSUME NEW kind \in {"hang", "timed_out", "error", "permanent"}, NEW b \in BOOLEAN,
             StreamError(kind, b)
      PROVE  Paid'
  BY <1>8, <1>0, <1>a DEF StreamError, Return, Paid, control
<1>9. ASSUME IntentOnly PROVE Paid'
  BY <1>9, <1>0, <1>a DEF IntentOnly, Replied, Paid, control
<1>10. ASSUME Respond PROVE Paid'
  BY <1>10, <1>0, <1>a DEF Respond, Replied, Paid, control
<1>11. ASSUME NEW b \in [Slots -> {Idle} \cup Calls],
             CallTools(b)
      PROVE  Paid'
  BY <1>11, <1>0, <1>a DEF CallTools, Replied, Paid, control
<1>12. ASSUME NEW s \in Slots,
             Block(s)
      PROVE  Paid'
  BY <1>12, <1>0, <1>a DEF Block, Settle, Paid, control
<1>13. ASSUME NEW s \in Slots,
             Refuse(s)
      PROVE  Paid'
  BY <1>13, <1>0, <1>a DEF Refuse, Settle, Paid, control
<1>14. ASSUME NEW s \in Slots,
             Dispatch(s)
      PROVE  Paid'
  BY <1>14, <1>0, <1>a DEF Dispatch, Settle, Paid, control
<1>15. ASSUME NEW s \in Slots, NEW ok \in BOOLEAN,
             ToolReturns(s, ok)
      PROVE  Paid'
  BY <1>15, <1>0, <1>a DEF ToolReturns, Settle, Paid, control
<1>16. ASSUME NEW w \in {"none", "some", "complex"}, NEW t \in {"none", "open", "closed"},
             NEW p \in {"none", "hold", "fail"}, NEW b \in BOOLEAN,
             Results(w, t, p, b)
      PROVE  Paid'
  <2>1. pc # "llm" /\ pc' # "llm" /\ UNCHANGED <<replies, turn, refunds>>
    BY <1>16 DEF Results
  <2> QED BY <1>0, <1>a, <2>1 DEF Paid
<1>17. ASSUME NEW b \in BOOLEAN,
             AskReply(b)
      PROVE  Paid'
  BY <1>17, <1>0, <1>a DEF AskReply, Answered, Paid, control
<1>18. ASSUME AskTimeout PROVE Paid'
  <2>1. pc # "llm" /\ pc' = pc /\ replies' = replies
    BY <1>18 DEF AskTimeout, Answered
  <2>2. refunds' + turn' >= refunds + turn
    BY <1>18, <1>0, ParametersAssumption DEF AskTimeout, Refund
  <2>3. refunds' \in Nat /\ turn' \in Nat
    BY TypeNext, ParametersAssumption DEF TypeOK
  <2>4. replies <= turn + refunds
    BY <1>0, <2>1 DEF Paid
  <2>5. replies' + 0 <= turn' + refunds'
    BY <1>0, <2>1, <2>2, <2>3, <2>4, SumKept
  <2> QED BY <1>a, <2>1, <2>5
<1>19. ASSUME AskStop PROVE Paid'
  BY <1>19, <1>0, <1>a DEF AskStop, Return, Paid, control
<1>20. ASSUME AsksDone PROVE Paid'
  BY <1>20, <1>0, <1>a DEF AsksDone, Paid, control
<1>21. ASSUME NEW b \in BOOLEAN,
             ExitGates(b)
      PROVE  Paid'
  <2>1. pc # "llm" /\ pc' # "llm" /\ UNCHANGED <<replies, turn, refunds>>
    BY <1>21 DEF ExitGates
  <2> QED BY <1>0, <1>a, <2>1 DEF Paid
<1>22. ASSUME NEW b \in BOOLEAN,
             AssertionGate(b)
      PROVE  Paid'
  <2>1. pc # "llm" /\ pc' # "llm" /\ UNCHANGED <<replies, turn, refunds>>
    BY <1>22 DEF AssertionGate
  <2> QED BY <1>0, <1>a, <2>1 DEF Paid
<1>23. ASSUME NEW b \in BOOLEAN,
             DiffCheck(b)
      PROVE  Paid'
  BY <1>23, <1>0, <1>a DEF DiffCheck, Paid, control
<1>24. ASSUME NEW p \in {"none", "hold", "fail"},
             AutoSpec(p)
      PROVE  Paid'
  BY <1>24, <1>0, <1>a DEF AutoSpec, Paid, control
<1>25. ASSUME NEW v \in Verdicts,
             Review(v)
      PROVE  Paid'
  BY <1>25, <1>0, <1>a DEF Review, Paid, control
<1>26. ASSUME Deliver PROVE Paid'
  BY <1>26, <1>0, <1>a DEF Deliver, Return, Paid, control
<1>27. ASSUME Stuck PROVE Paid'
  BY <1>27, <1>0, <1>a DEF Stuck, Return, Paid, control
<1>28. ASSUME EndTurn PROVE Paid'
  BY <1>28, <1>0, <1>a DEF EndTurn, Paid, control
<1>29. CASE UNCHANGED vars
  BY <1>29 DEF Paid, RepliesBounded, control, vars
<1> QED
  BY <1>1, <1>2, <1>3, <1>4, <1>5, <1>6, <1>7, <1>8, <1>9, <1>10, <1>11, <1>12,
     <1>13, <1>14, <1>15, <1>16, <1>17, <1>18, <1>19, <1>20, <1>21, <1>22, <1>23,
     <1>24, <1>25, <1>26, <1>27, <1>28, <1>29
  DEF Next, Loop, Top, Stream, Tools, Ask, Gates

\* Whatever questions go unanswered, the model replies at most max_turns times and
\* once more for each refund.
THEOREM RepliesBoundedHolds == Spec => []RepliesBounded
<1>1. Paid => RepliesBounded
  BY DEF Paid
<1>2. Spec => [](TypeOK /\ Paid)
  BY TypeInit, TypeNext, PaidInit, PaidNext, PTL DEF Spec
<1> QED BY <1>1, <1>2, PTL

-----------------------------------------------------------------------------
(* Calls that keep failing                                                 *)

\* The calls of the reply that were executed, or count as failed all the same.
Tried(k) == {s \in Slots : batch[s].key = k /\ batch[s].st \in {"running", "ok", "failed"}}

(***************************************************************************)
(* While call k, which is not read-only, is not refused, its executions    *)
(* are among the failures counted and the calls of this reply; the count   *)
(* is capped.                                                              *)
(***************************************************************************)
Counting(k) ==
  /\ fails[k] <= RefuseAfter
  /\ fails[k] < RefuseAfter => tries[k] <= fails[k] + Cardinality(Tried(k))
  /\ tries[k] < RefuseAfter + Width

Retrying ==
  /\ pc # "tools" => batch = [s \in Slots |-> Idle]
  /\ \A k \in Keys \ ReadOnly : Counting(k)

LEMMA SlotsCounted ==
  ASSUME NEW S \in SUBSET Slots
  PROVE  Cardinality(S) \in Nat /\ Cardinality(S) <= Width /\ IsFiniteSet(S)
<1>0. Width \in Nat /\ Width >= 1 /\ 1 \in Int /\ Width \in Int
  BY ParametersAssumption
<1>a. /\ IsFiniteSet(1..Width)
      /\ Cardinality(1..Width) = IF 1 > Width THEN 0 ELSE Width - 1 + 1
  BY <1>0, FS_Interval
<1>b. (IF 1 > Width THEN 0 ELSE Width - 1 + 1) = Width
  BY <1>0
<1>1. IsFiniteSet(Slots) /\ Cardinality(Slots) = Width
  BY <1>a, <1>b DEF Slots
<1>2. Cardinality(S) <= Cardinality(Slots)
  BY <1>1, FS_Subset
<1> QED BY <1>1, <1>2, SlotsFinite

\* The sums below, about numbers.
LEMMA MoreTried ==
  \A t, f, c, d \in Nat : t <= f + c /\ c <= d => t <= f + d
  OBVIOUS

LEMMA OneMoreTried ==
  \A t, f, c \in Nat : t <= f + c /\ f < RefuseAfter /\ c + 1 <= Width =>
    t + 1 <= f + (c + 1) /\ t + 1 < RefuseAfter + Width
  BY ParametersAssumption

LEMMA NothingTried ==
  \A c \in Nat : /\ (IF c < RefuseAfter THEN c ELSE RefuseAfter) <= RefuseAfter
                 /\ 0 <= (IF c < RefuseAfter THEN c ELSE RefuseAfter) + 0
                 /\ 0 < RefuseAfter + Width
  BY ParametersAssumption

LEMMA AllTried ==
  \A t, f, c \in Nat :
    (f < RefuseAfter => t <= f + c) =>
      LET g == IF f + c < RefuseAfter THEN f + c ELSE RefuseAfter
      IN g <= RefuseAfter /\ (g < RefuseAfter => t <= g + 0)
  BY ParametersAssumption

LEMMA RetryingInit == Init => Retrying
<1> SUFFICES ASSUME Init PROVE Retrying
  OBVIOUS
<1>1. ASSUME NEW k \in Keys \ ReadOnly PROVE Counting(k)
  <2>1. Cardinality(Tried(k)) \in Nat
    BY SlotsCounted DEF Tried
  <2>2. fails[k] = 0 /\ tries[k] = 0
    BY DEF Init
  <2> QED BY <2>1, <2>2, ParametersAssumption DEF Counting
<1> QED BY <1>1 DEF Init, Retrying

\* Calls that are added to those tried leave the counts in order.
LEMMA TriedGrows ==
  ASSUME TypeOK, Retrying, pc' = "tools", fails' = fails, NEW k \in Keys \ ReadOnly,
         tries'[k] = tries[k], Tried(k) \subseteq Tried(k)'
  PROVE  Counting(k)'
<1>1. /\ Cardinality(Tried(k)) \in Nat /\ Cardinality(Tried(k)') \in Nat
      /\ Cardinality(Tried(k)) <= Cardinality(Tried(k)')
  <2>1. Tried(k)' \in SUBSET Slots
    BY DEF Tried, Slots
  <2>2. IsFiniteSet(Tried(k)') /\ Cardinality(Tried(k)') \in Nat
    BY <2>1, SlotsCounted
  <2> QED BY <2>2, FS_Subset, FS_CardinalityType
<1>2. tries[k] \in Nat /\ fails[k] \in Nat
  BY DEF TypeOK
<1>3. Counting(k)
  BY DEF Retrying
<1>4. fails[k] < RefuseAfter => tries[k] <= fails[k] + Cardinality(Tried(k)')
  BY <1>1, <1>2, <1>3, MoreTried DEF Counting
<1> QED BY <1>3, <1>4 DEF Counting

LEMMA RetryingNext == TypeOK /\ Retrying /\ [Next]_vars => Retrying'
<1> SUFFICES ASSUME TypeOK, Retrying, [Next]_vars PROVE Retrying'
  OBVIOUS
<1>1. ASSUME Stop PROVE Retrying'
  BY <1>1 DEF Stop, Retrying, Counting, Tried, control, calls
<1>2. ASSUME SendPause PROVE Retrying'
  BY <1>2 DEF SendPause, Retrying, Counting, Tried, control, calls
<1>3. ASSUME StopAtTop PROVE Retrying'
  BY <1>3 DEF StopAtTop, Retrying, Counting, Tried, control, calls
<1>4. ASSUME Pause PROVE Retrying'
  BY <1>4 DEF Pause, Retrying, Counting, Tried, control, calls
<1>5. ASSUME BeginTurn PROVE Retrying'
  BY <1>5 DEF BeginTurn, Retrying, Counting, Tried, control, calls
<1>6. ASSUME OutOfTurns PROVE Retrying'
  BY <1>6 DEF OutOfTurns, Retrying, Counting, Tried, control, calls
<1>7. ASSUME StopInStream PROVE Retrying'
  BY <1>7 DEF StopInStream, Retrying, Counting, Tried, control, calls
<1>8. ASSUME NEW kind \in {"hang", "timed_out", "error", "permanent"}, NEW b \in BOOLEAN,
             StreamError(kind, b)
      PROVE  Retrying'
  BY <1>8 DEF StreamError, Retrying, Counting, Tried, control, calls
<1>9. ASSUME IntentOnly PROVE Retrying'
  BY <1>9 DEF IntentOnly, Replied, Retrying, Counting, Tried, control, calls
<1>10. ASSUME Respond PROVE Retrying'
  BY <1>10 DEF Respond, Replied, Retrying, Counting, Tried, control, calls
<1>11. ASSUME NEW b \in [Slots -> {Idle} \cup Calls],
             CallTools(b)
      PROVE  Retrying'
  <2> DEFINE ahead(k) == {s \in Slots : b[s].key = k /\ b[s].st \in {"ok", "failed"}}
  <2>1. /\ pc = "llm" /\ pc' = "tools" /\ fails' = fails
        /\ tries' = [k \in Keys |-> tries[k] + Cardinality(ahead(k))]
    BY <1>11 DEF CallTools, Replied
  <2>2. ASSUME NEW k \in Keys \ ReadOnly PROVE Counting(k)'
    <3>1. Tried(k) = {}
      BY <2>1 DEF Retrying, Tried, Idle
    <3>2. ahead(k) = {}
      BY DEF Calls, Idle
    <3>3. tries'[k] = tries[k] + 0 /\ tries[k] \in Nat
      BY <2>1, <3>2, FS_EmptySet DEF TypeOK
    <3>4. tries'[k] = tries[k]
      BY <3>3
    <3> QED BY <2>1, <3>1, <3>4, TriedGrows
  <2> QED BY <2>1, <2>2 DEF Retrying
<1>12. ASSUME NEW s \in Slots,
             Block(s)
      PROVE  Retrying'
  <2>1. /\ pc = "tools" /\ pc' = "tools" /\ fails' = fails /\ tries' = tries
        /\ batch[s].st = "queued" /\ batch' = [batch EXCEPT ![s].st = "blocked"]
    BY <1>12 DEF Block, Settle, control
  <2>2. ASSUME NEW k \in Keys \ ReadOnly PROVE Counting(k)'
    <3>1. Tried(k) \subseteq Tried(k)'
      BY <2>1 DEF Tried, TypeOK
    <3> QED BY <2>1, <3>1, TriedGrows
  <2> QED BY <2>1, <2>2 DEF Retrying
<1>13. ASSUME NEW s \in Slots,
             Refuse(s)
      PROVE  Retrying'
  <2>1. /\ pc = "tools" /\ pc' = "tools" /\ fails' = fails /\ tries' = tries
        /\ batch[s].st = "queued" /\ batch' = [batch EXCEPT ![s].st = "failed"]
    BY <1>13 DEF Refuse, Settle, control
  <2>2. ASSUME NEW k \in Keys \ ReadOnly PROVE Counting(k)'
    <3>1. Tried(k) \subseteq Tried(k)'
      BY <2>1 DEF Tried, TypeOK
    <3> QED BY <2>1, <3>1, TriedGrows
  <2> QED BY <2>1, <2>2 DEF Retrying
<1>14. ASSUME NEW s \in Slots,
             Dispatch(s)
      PROVE  Retrying'
  <2>1. /\ pc = "tools" /\ pc' = "tools" /\ fails' = fails
        /\ batch[s].st = "queued" /\ batch' = [batch EXCEPT ![s].st = "running"]
        /\ fails[batch[s].key] < RefuseAfter
        /\ tries' = [tries EXCEPT ![batch[s].key] = tries[batch[s].key] + 1]
    BY <1>14 DEF Dispatch, Settle, control
  <2>2. ASSUME NEW k \in Keys \ ReadOnly, k # batch[s].key PROVE Counting(k)'
    <3>1. Tried(k) \subseteq Tried(k)' /\ tries'[k] = tries[k]
      BY <2>1, <2>2 DEF Tried, TypeOK
    <3> QED BY <2>1, <3>1, TriedGrows
  <2>3. ASSUME NEW k \in Keys \ ReadOnly, k = batch[s].key PROVE Counting(k)'
    <3>1. Tried(k)' = Tried(k) \cup {s} /\ s \notin Tried(k)
      BY <2>1, <2>3 DEF Tried, TypeOK
    <3>2. IsFiniteSet(Tried(k)) /\ Cardinality(Tried(k)) \in Nat
      BY SlotsCounted DEF Tried
    <3>3. Cardinality(Tried(k)') = Cardinality(Tried(k)) + 1
      BY <3>1, <3>2, FS_AddElement
    <3>4. Cardinality(Tried(k)) + 1 <= Width
      <4>1. Tried(k) \cup {s} \in SUBSET Slots
        BY DEF Tried
      <4> QED BY <3>1, <3>3, <4>1, SlotsCounted
    <3>5. tries[k] \in Nat /\ fails[k] \in Nat /\ fails[k] < RefuseAfter
      BY <2>1, <2>3 DEF TypeOK
    <3>6. Counting(k)
      BY DEF Retrying
    <3>7. /\ tries[k] + 1 <= fails[k] + (Cardinality(Tried(k)) + 1)
          /\ tries[k] + 1 < RefuseAfter + Width
      BY <3>2, <3>4, <3>5, <3>6, OneMoreTried DEF Counting
    <3>8. tries'[k] = tries[k] + 1
      BY <2>1, <2>3 DEF TypeOK
    <3> QED BY <2>1, <3>3, <3>6, <3>7, <3>8 DEF Counting
  <2> QED BY <2>1, <2>2, <2>3 DEF Retrying
<1>15. ASSUME NEW s \in Slots, NEW ok \in BOOLEAN,
             ToolReturns(s, ok)
      PROVE  Retrying'
  <2>1. /\ pc = "tools" /\ pc' = "tools" /\ fails' = fails /\ tries' = tries
        /\ batch[s].st = "running" /\ batch' = [batch EXCEPT ![s].st = (IF ok THEN "ok" ELSE "failed")]
    BY <1>15 DEF ToolReturns, Settle, control
  <2>2. ASSUME NEW k \in Keys \ ReadOnly PROVE Counting(k)'
    <3>1. Tried(k) \subseteq Tried(k)'
      BY <2>1 DEF Tried, TypeOK
    <3> QED BY <2>1, <3>1, TriedGrows
  <2> QED BY <2>1, <2>2 DEF Retrying
<1>16. ASSUME NEW w \in {"none", "some", "complex"}, NEW t \in {"none", "open", "closed"},
             NEW p \in {"none", "hold", "fail"}, NEW b \in BOOLEAN,
             Results(w, t, p, b)
      PROVE  Retrying'
  <2>1. /\ pc = "tools" /\ pc' = "asks" /\ batch' = [x \in Slots |-> Idle]
        /\ Settled("running") = {} /\ fails' = [k \in Keys |-> Counted(k)]
    BY <1>16 DEF Results
  <2>2. tries' = [k \in Keys |-> IF k \in {batch[x].key : x \in Settled("ok")} THEN 0
                                 ELSE tries[k]]
    BY <1>16 DEF Results
  <2>3. ASSUME NEW k \in Keys \ ReadOnly PROVE Counting(k)'
    <3> DEFINE ok == {x \in Settled("ok") : batch[x].key = k}
               failed == {x \in Settled("failed") : batch[x].key = k}
               after == {x \in failed : \A y \in ok : y < x}
               count == (IF ok = {} THEN fails[k] ELSE 0) + Cardinality(after)
    <3>1. fails'[k] = IF count < RefuseAfter THEN count ELSE RefuseAfter
      BY <2>1 DEF Counted
    <3>2. Cardinality(after) \in Nat /\ Cardinality(after) <= Width
      BY SlotsCounted DEF Settled
    <3>3. Tried(k)' = {} /\ Cardinality(Tried(k)') = 0
      <4>1. Tried(k)' = {}
        BY <2>1 DEF Tried, Idle
      <4> QED BY <4>1, FS_EmptySet
    <3>4. tries[k] \in Nat /\ fails[k] \in Nat /\ RefuseAfter \in Nat /\ Width \in Nat /\ Width # 0
      BY ParametersAssumption DEF TypeOK
    <3>5. Counting(k)
      BY DEF Retrying
    <3>6. CASE ok # {}
      <4>1. tries'[k] = 0
        BY <2>2, <3>6
      <4> HIDE DEF ok, after
      <4>2. count \in Nat
        BY <3>2, <3>4
      <4> QED BY <3>1, <3>3, <3>4, <4>1, <4>2, NothingTried DEF Counting
    <3>7. CASE ok = {}
      <4>1. tries'[k] = tries[k]
        BY <2>2, <3>7
      <4>2. after = Tried(k)
        BY <2>1, <3>7 DEF Tried, Settled
      <4>3. count = fails[k] + Cardinality(Tried(k))
        BY <3>7, <4>2
      <4> HIDE DEF ok, after, count
      <4>4. Cardinality(Tried(k)) \in Nat
        BY SlotsCounted DEF Tried
      <4> QED BY <3>1, <3>3, <3>4, <3>5, <4>1, <4>3, <4>4, AllTried DEF Counting
    <3> QED BY <3>6, <3>7
  <2> QED BY <2>1, <2>3 DEF Retrying
<1>17. ASSUME NEW b \in BOOLEAN,
             AskReply(b)
      PROVE  Retrying'
  BY <1>17 DEF AskReply, Answered, Retrying, Counting, Tried, control, calls
<1>18. ASSUME AskTimeout PROVE Retrying'
  BY <1>18 DEF AskTimeout, Answered, Retrying, Counting, Tried, control, calls
<1>19. ASSUME AskStop PROVE Retrying'
  BY <1>19 DEF AskStop, Retrying, Counting, Tried, control, calls
<1>20. ASSUME AsksDone PROVE Retrying'
  BY <1>20 DEF AsksDone, Retrying, Counting, Tried, control, calls
<1>21. ASSUME NEW b \in BOOLEAN,
             ExitGates(b)
      PROVE  Retrying'
  BY <1>21 DEF ExitGates, Retrying, Counting, Tried, control, calls
<1>22. ASSUME NEW b \in BOOLEAN,
             AssertionGate(b)
      PROVE  Retrying'
  BY <1>22 DEF AssertionGate, Retrying, Counting, Tried, control, calls
<1>23. ASSUME NEW b \in BOOLEAN,
             DiffCheck(b)
      PROVE  Retrying'
  BY <1>23 DEF DiffCheck, Retrying, Counting, Tried, control, calls
<1>24. ASSUME NEW p \in {"none", "hold", "fail"},
             AutoSpec(p)
      PROVE  Retrying'
  BY <1>24 DEF AutoSpec, Retrying, Counting, Tried, control, calls
<1>25. ASSUME NEW v \in Verdicts,
             Review(v)
      PROVE  Retrying'
  BY <1>25 DEF Review, Retrying, Counting, Tried, control, calls
<1>26. ASSUME Deliver PROVE Retrying'
  BY <1>26 DEF Deliver, Retrying, Counting, Tried, control, calls
<1>27. ASSUME Stuck PROVE Retrying'
  BY <1>27 DEF Stuck, Retrying, Counting, Tried, control, calls
<1>28. ASSUME EndTurn PROVE Retrying'
  BY <1>28 DEF EndTurn, Retrying, Counting, Tried, control, calls
<1>29. CASE UNCHANGED vars
  BY <1>29 DEF Retrying, Counting, Tried, control, calls, vars
<1> QED
  BY <1>1, <1>2, <1>3, <1>4, <1>5, <1>6, <1>7, <1>8, <1>9, <1>10, <1>11, <1>12,
     <1>13, <1>14, <1>15, <1>16, <1>17, <1>18, <1>19, <1>20, <1>21, <1>22, <1>23,
     <1>24, <1>25, <1>26, <1>27, <1>28, <1>29
  DEF Next, Loop, Top, Stream, Tools, Ask, Gates

\* The count a call is refused by is read while other calls of the reply run; still a
\* call that keeps failing, and does not run ahead of the reply as a read-only one may,
\* is executed a bounded number of times (TriesBounded of the run agent_loop).
THEOREM TriesBoundedHolds == Spec => []TriesBounded
<1>1. Retrying => TriesBounded
  BY DEF Retrying, Counting, TriesBounded
<1>2. Spec => [](TypeOK /\ Retrying)
  BY TypeInit, TypeNext, RetryingInit, RetryingNext, PTL DEF Spec
<1> QED BY <1>1, <1>2, PTL
=============================================================================
