--------------------------- MODULE ModelCallProofs --------------------------
(***************************************************************************)
(* Proofs about ModelCall, for any number of sessions of any kind, any     *)
(* retries, any window and any number of pieces, calls and turns.          *)
(***************************************************************************)
EXTENDS ModelCall, SequenceTheorems, TLAPS

\* The index of a session, counted round, is one of a session.
LEMMA CurrentIsASession == ASSUME TypeOK PROVE Current \in Sessions
  BY ModelCallAssumption DEF TypeOK, Sessions, Current

-----------------------------------------------------------------------------
(* Types                                                                   *)

Texts == [Blocks -> Seq(Nat)]

LEMMA NothingType == Nothing \in Texts /\ <<>> \in Seq(Nat)
  BY DEF Nothing, Texts

\* One block gets one more piece.
LEMMA AddedIs ==
  ASSUME NEW c \in Texts, NEW b \in Blocks, pieces' \in Nat
  PROVE  /\ Added(c, b) \in Texts /\ Added(c, b)[b] = Append(c[b], pieces')
         /\ \A o \in Blocks \ {b} : Added(c, b)[o] = c[o]
<1>1. Append(c[b], pieces') \in Seq(Nat)
  BY AppendProperties DEF Texts
<1> QED BY <1>1 DEF Added, Texts

LEMMA GrowType ==
  ASSUME TypeOK, NEW b \in Blocks, Grow(b)
  PROVE  /\ pieces' \in Nat /\ part' \in Seq(Nat)
         /\ shown' \in Texts /\ kept' \in Texts
<1>1. pieces' \in Nat
  BY DEF Grow, Piece, TypeOK
<1>2. shown \in Texts /\ kept \in Texts /\ part \in Seq(Nat)
  BY DEF TypeOK, Texts
<1> QED BY <1>1, <1>2, AddedIs DEF Grow

LEMMA TypeInit == Init => TypeOK
<1> SUFFICES ASSUME Init PROVE TypeOK
  OBVIOUS
<1>1. 0 \in Sessions /\ 0 \in 0..(Window + 1) /\ 0 \in 0..HopRetries /\ 0 \in 0..SendRetries
  BY ModelCallAssumption DEF Sessions
<1>2. last \in [by : Sessions \cup {None}, age : 0..(Window + 1)]
  BY <1>1 DEF Init
<1>3. calls \in [Index -> {"none", "started", "complete"}]
  BY DEF Init
<1> QED BY <1>1, <1>2, <1>3, NothingType DEF Init, TypeOK, Texts

\* A failed attempt of the agent loop keeps the types.
LEMMA AttemptFailsType ==
  ASSUME TypeOK, NEW e \in Errors, NEW b \in BOOLEAN, AttemptFails(e, b)
  PROVE  TypeOK'
<1>1. pc' \in {"over", "ask"}
  BY Zenon DEF AttemptFails
<1>2. errors' \in Nat
  BY DEF AttemptFails, TypeOK
<1>3. /\ pending' = {}
      /\ UNCHANGED <<streaming, turn, clientVars, requestVars, answer, ready, cache,
                     reply, emitted>>
  BY DEF AttemptFails
<1> QED BY <1>1, <1>2, <1>3 DEF TypeOK, clientVars, requestVars, answer, content

\* Whether the next session is asked or not.
LEMMA HopFailsType ==
  ASSUME TypeOK, NEW e \in Errors, HopFails(e)
  PROVE  TypeOK'
<1>1. CASE SafeToFailover(e) /\ hop < HopRetries
  <2>1. /\ pc' = "send" /\ hop' = hop + 1 /\ tries' = 0
        /\ FreshAnswer
        /\ UNCHANGED <<streaming, turn, errors, clientVars, base, lane, emitted>>
    BY <1>1 DEF HopFails
  <2>2. hop' \in 0..HopRetries /\ tries' \in 0..SendRetries
    BY <1>1, <2>1, ModelCallAssumption DEF TypeOK
  <2>3. calls' \in [Index -> {"none", "started", "complete"}]
    BY <2>1 DEF FreshAnswer
  <2> QED BY <2>1, <2>2, <2>3, NothingType DEF TypeOK, FreshAnswer, Texts, clientVars, lane
<1>2. CASE ~(SafeToFailover(e) /\ hop < HopRetries)
  BY <1>2, AttemptFailsType DEF HopFails
<1> QED BY <1>1, <1>2

LEMMA TypeNext == TypeOK /\ [Next]_vars => TypeOK'
<1> SUFFICES ASSUME TypeOK, [Next]_vars PROVE TypeOK'
  OBVIOUS
<1> USE ModelCallAssumption
<1>1. ASSUME BeginCall PROVE TypeOK'
  <2>1. base' \in Sessions /\ hop' \in 0..HopRetries /\ tries' \in 0..SendRetries
    BY <1>1 DEF BeginCall, Pick, TypeOK, Sessions
  <2>2. calls' \in [Index -> {"none", "started", "complete"}]
    BY <1>1 DEF BeginCall, FreshAnswer
  <2>3. emitted' \subseteq 0..HopRetries /\ ready' = {}
    BY <1>1 DEF BeginCall
  <2> QED BY <1>1, <2>1, <2>2, <2>3, NothingType DEF BeginCall, FreshAnswer, Texts, TypeOK, clientVars
<1>2. ASSUME NEW e \in Errors, SendAgain(e) PROVE TypeOK'
  <2>1. tries' \in 0..SendRetries
    BY <1>2 DEF SendAgain, TypeOK
  <2>2. /\ UNCHANGED <<pc, streaming, turn, errors, base, hop, emitted>>
        /\ UNCHANGED <<clientVars, answer, lane>>
    BY <1>2 DEF SendAgain
  <2> QED BY <2>1, <2>2 DEF TypeOK, clientVars, answer, content, lane
<1>3. ASSUME NEW e \in Errors, SendFails(e) PROVE TypeOK'
  BY <1>3, HopFailsType DEF SendFails, Errors
<1>4. ASSUME Headers PROVE TypeOK'
  BY <1>4 DEF Headers, TypeOK, clientVars, requestVars, answer, content, lane
<1>5. ASSUME OaiTag PROVE TypeOK'
  BY <1>5
  DEF OaiTag, Streams, Emits, Blocks, TypeOK, clientVars, requestVars, content, lane
<1>6. ASSUME OaiReasoning PROVE TypeOK'
  <2>1. Grow("thinking") /\ open' = open \cup {"thinking"}
    BY <1>6 DEF OaiReasoning
  <2>2. open' \subseteq Blocks
    BY <2>1 DEF Blocks, TypeOK
  <2>3. /\ pieces' \in Nat /\ part' \in Seq(Nat)
        /\ shown' \in Texts /\ kept' \in Texts
    BY <2>1, GrowType DEF Blocks
  <2> QED BY <1>6, <2>2, <2>3
          DEF OaiReasoning, Streams, Emits, Texts, TypeOK, clientVars, requestVars, lane
<1>7. ASSUME Answered PROVE TypeOK'
  <2>1. active' \in Sessions /\ age' \in 0..(Window + 1)
    <3>1. Current \in Sessions /\ active \in Sessions /\ age \in 0..(Window + 1)
      BY CurrentIsASession DEF TypeOK
    <3>2. active' \in {active, Current} /\ age' \in {age, 0}
      BY <1>7 DEF Answered, RecordSuccess
    <3> QED BY <3>1, <3>2
  <2>2. last' \in [by : Sessions \cup {None}, age : 0..(Window + 1)]
    BY <1>7, CurrentIsASession DEF Answered
  <2>3. reply' \in SUBSET CallIds
    <3>1. reply' = Returned /\ errors \in Nat /\ hop \in 0..HopRetries
      BY <1>7 DEF Answered, TypeOK
    <3> QED BY <3>1 DEF Returned, CallIds
  <2>4. shown' \in Texts /\ emitted' \subseteq 0..HopRetries
    BY <1>7 DEF Answered, TypeOK, Texts
  <2> QED BY <1>7, <2>1, <2>2, <2>3, <2>4 DEF Answered, TypeOK, Texts, requestVars
<1>8. ASSUME StreamBreaks PROVE TypeOK'
  BY <1>8, HopFailsType DEF StreamBreaks, Errors
<1>9. ASSUME OaiContent PROVE TypeOK'
  <2>1. /\ Grow(IF tag THEN "thinking" ELSE "text")
        /\ open' = IF tag THEN open ELSE open \cup {"text"}
    BY <1>9 DEF OaiContent
  <2>2. open' \subseteq Blocks
    BY <2>1 DEF Blocks, TypeOK
  <2>3. /\ pieces' \in Nat /\ part' \in Seq(Nat)
        /\ shown' \in Texts /\ kept' \in Texts
    BY <2>1, GrowType DEF Blocks
  <2>4. tag' \in BOOLEAN
    BY <1>9 DEF OaiContent, TypeOK
  <2> QED BY <1>9, <2>2, <2>3, <2>4
          DEF OaiContent, Streams, Emits, Texts, TypeOK, clientVars, requestVars, lane
<1>10. ASSUME NEW b \in BOOLEAN, OaiEndTag(b) PROVE TypeOK'
  <2>1. /\ Grow(IF b THEN "thinking" ELSE "text")
        /\ open' = IF b THEN open ELSE open \cup {"text"}
    BY <1>10 DEF OaiEndTag
  <2>2. open' \subseteq Blocks
    BY <2>1 DEF Blocks, TypeOK
  <2>3. /\ pieces' \in Nat /\ part' \in Seq(Nat)
        /\ shown' \in Texts /\ kept' \in Texts
    BY <2>1, GrowType DEF Blocks
  <2>4. tag' \in BOOLEAN
    BY <1>10 DEF OaiEndTag, TypeOK
  <2> QED BY <1>10, <2>2, <2>3, <2>4
          DEF OaiEndTag, Streams, Emits, Texts, TypeOK, clientVars, requestVars, lane
<1>11. ASSUME NEW b \in Blocks, ClaudeBlock(b) PROVE TypeOK'
  BY <1>11, NothingType
  DEF ClaudeBlock, Streams, Emits, Blocks, TypeOK, clientVars, requestVars, lane
<1>12. ASSUME NEW b \in Blocks, ClaudeDelta(b) PROVE TypeOK'
  <2>1. pieces' \in Nat /\ part' = Append(part, pieces')
    BY <1>12 DEF ClaudeDelta, Piece, TypeOK
  <2>2. part' \in Seq(Nat)
    BY <2>1, AppendProperties DEF TypeOK
  <2>3. shown' \in Texts
    BY <1>12, <2>1, AddedIs DEF ClaudeDelta, TypeOK, Texts
  <2> QED BY <1>12, <2>1, <2>2, <2>3
          DEF ClaudeDelta, Streams, Emits, Texts, TypeOK, clientVars, requestVars, lane
<1>13. ASSUME NEW b \in Blocks, ClaudeBlockStops(b) PROVE TypeOK'
  <2>1. kept[b] \o part \in Seq(Nat)
    BY ConcatProperties DEF TypeOK
  <2>2. kept' \in Texts /\ part' \in Seq(Nat)
    BY <1>13, <2>1, NothingType DEF ClaudeBlockStops, TypeOK, Texts
  <2> QED BY <1>13, <2>2
          DEF ClaudeBlockStops, Streams, Emits, Texts, TypeOK, clientVars, requestVars, lane
<1>14. ASSUME NEW i \in Index, CallStarts(i) PROVE TypeOK'
  BY <1>14 DEF CallStarts, Streams, Emits, Advance, TypeOK, clientVars, requestVars, answer, content, lane
<1>15. ASSUME NEW i \in Index, CallCompletes(i) PROVE TypeOK'
  <2>1. calls' \in [Index -> {"none", "started", "complete"}]
    BY <1>15 DEF CallCompletes, Advance, TypeOK
  <2>2. [err |-> errors, hop |-> hop, index |-> i] \in CallIds
    BY DEF CallIds, TypeOK
  <2>3. ready' \subseteq CallIds
    BY <1>15, <2>2 DEF CallCompletes, TypeOK
  <2>4. UNCHANGED <<tag, open, content>>
    BY <1>15 DEF CallCompletes, Advance
  <2> QED BY <1>15, <2>1, <2>3, <2>4
          DEF CallCompletes, Streams, Emits, TypeOK, clientVars, requestVars, content
<1>16. ASSUME NEW id \in ready, NEW b \in BOOLEAN, Receive(id, b) PROVE TypeOK'
  BY <1>16 DEF Receive, TypeOK, clientVars, requestVars, answer, content, lane
<1>17. ASSUME Hang PROVE TypeOK'
  BY <1>17, AttemptFailsType DEF Hang, Errors
<1>18. ASSUME NextTurn PROVE TypeOK'
  BY <1>18 DEF NextTurn, TypeOK, clientVars, requestVars, answer, content, lane
<1>19. ASSUME Stop PROVE TypeOK'
  BY <1>19 DEF Stop, TypeOK, clientVars, requestVars, answer, content, lane
<1>20. ASSUME Tick PROVE TypeOK'
  <2>1. \A t \in 0..(Window + 1) : Older(t) \in 0..(Window + 1)
    BY DEF Older
  <2>2. last.by \in Sessions \cup {None} /\ last.age \in 0..(Window + 1)
    BY DEF TypeOK
  <2>3. last' = [by |-> last.by, age |-> Older(last.age)]
    BY <1>20 DEF Tick, TypeOK
  <2>4. last' \in [by : Sessions \cup {None}, age : 0..(Window + 1)]
    BY <2>1, <2>2, <2>3
  <2>5. age' \in 0..(Window + 1)
    BY <1>20, <2>1 DEF Tick, TypeOK
  <2> QED BY <1>20, <2>4, <2>5 DEF Tick, TypeOK, requestVars, answer, content, lane
<1>21. CASE UNCHANGED vars
  BY <1>21 DEF TypeOK, clientVars, requestVars, answer, content, lane, vars
<1> QED
  BY <1>1, <1>2, <1>3, <1>4, <1>5, <1>6, <1>7, <1>8, <1>9, <1>10, <1>11, <1>12,
     <1>13, <1>14, <1>15, <1>16, <1>17, <1>18, <1>19, <1>20, <1>21
  DEF Next, Client, Stream, Agent

\* Every variable keeps its type (TypeOK of the run model_call).
THEOREM TypeCorrect == Spec => []TypeOK
  BY TypeInit, TypeNext, PTL DEF Spec

-----------------------------------------------------------------------------
(* Output and speculation                                                  *)

\* The identity of a call of the request in progress, which is complete.
Own(id) == id.err = errors /\ id.hop = hop /\ calls[id.index] = "complete"

(***************************************************************************)
(* What a request has left behind when another one is made: nothing, since *)
(* only a request that failed before its stream is followed by another hop *)
(* while the run streams, and nothing is emitted or queued otherwise.      *)
(***************************************************************************)
Lane ==
  /\ emitted \subseteq {hop}
  /\ ~streaming => emitted = {} /\ ready = {} /\ pending = {}
  /\ pc = "send" => emitted = {} /\ ready = {}
  /\ pc # "stream" /\ pc # "over" => pending = {}
  /\ pc = "stream" => \A id \in ready \cup pending : Own(id)
  /\ pc = "tools" => cache \subseteq reply

LEMMA LaneInit == Init => Lane
  BY DEF Init, Lane

\* A hop that fails after its stream began is the last one of the call.
LEMMA HopFailsLane ==
  ASSUME TypeOK, Lane, NEW e \in Errors, HopFails(e),
         pc = "send" \/ (pc = "stream" /\ e = "stream")
  PROVE  Lane'
<1>1. CASE SafeToFailover(e) /\ hop < HopRetries
  BY <1>1, ModelCallAssumption
  DEF HopFails, SafeToFailover, Lane, lane, TypeOK
<1>2. CASE ~(SafeToFailover(e) /\ hop < HopRetries)
  BY <1>2 DEF HopFails, AttemptFails, GivesUp, Lane, requestVars
<1> QED BY <1>1, <1>2

\* Calls that were queued are calls of the answer.
LEMMA OwnIsReturned ==
  ASSUME TypeOK, NEW id \in CallIds, Own(id)
  PROVE  id \in Returned
  BY DEF Own, Returned, CallIds

LEMMA LaneNext == TypeOK /\ Lane /\ [Next]_vars => Lane'
<1> SUFFICES ASSUME TypeOK, Lane, [Next]_vars PROVE Lane'
  OBVIOUS
<1> USE ModelCallAssumption
<1>1. ASSUME BeginCall PROVE Lane'
  BY <1>1 DEF BeginCall, Lane, Own, clientVars, requestVars, answer, content, lane
<1>2. ASSUME NEW e \in Errors, SendAgain(e) PROVE Lane'
  BY <1>2 DEF SendAgain, Lane, Own, clientVars, requestVars, answer, content, lane
<1>3. ASSUME NEW e \in Errors, SendFails(e) PROVE Lane'
  <2>1. HopFails(e)
    BY <1>3 DEF SendFails
  <2>2. pc = "send" \/ (pc = "stream" /\ e = "stream")
    BY <1>3 DEF SendFails
  <2> QED BY <2>1, <2>2, HopFailsLane
<1>4. ASSUME Headers PROVE Lane'
  BY <1>4 DEF Headers, Lane, Own, clientVars, requestVars, answer, content, lane
<1>5. ASSUME OaiTag PROVE Lane'
  BY <1>5 DEF OaiTag, Streams, Emits, Lane, Own, clientVars, requestVars, answer, content, lane
<1>6. ASSUME OaiReasoning PROVE Lane'
  BY <1>6 DEF OaiReasoning, Streams, Emits, Lane, Own, clientVars, requestVars, answer, content, lane
<1>7. ASSUME Answered PROVE Lane'
  <2>1. reply' = Returned /\ cache' = pending /\ pending' = {}
    BY <1>7 DEF Answered
  <2>2. pending \subseteq Returned
    BY <1>7, OwnIsReturned DEF Answered, Lane, TypeOK
  <2>3. emitted' \subseteq {hop} /\ (~streaming => emitted' = {} /\ ready' = {})
    BY <1>7 DEF Answered, Lane
  <2>4. pc' = "tools" /\ hop' = hop /\ streaming' = streaming
    BY <1>7 DEF Answered, requestVars
  <2> QED BY <2>1, <2>2, <2>3, <2>4 DEF Lane
<1>8. ASSUME StreamBreaks PROVE Lane'
  BY <1>8, HopFailsLane DEF StreamBreaks, Errors
<1>9. ASSUME OaiContent PROVE Lane'
  BY <1>9 DEF OaiContent, Streams, Emits, Lane, Own, clientVars, requestVars
<1>10. ASSUME NEW b \in BOOLEAN, OaiEndTag(b) PROVE Lane'
  BY <1>10 DEF OaiEndTag, Streams, Emits, Lane, Own, clientVars, requestVars
<1>11. ASSUME NEW b \in Blocks, ClaudeBlock(b) PROVE Lane'
  BY <1>11 DEF ClaudeBlock, Streams, Emits, Lane, Own, clientVars, requestVars
<1>12. ASSUME NEW b \in Blocks, ClaudeDelta(b) PROVE Lane'
  BY <1>12 DEF ClaudeDelta, Streams, Emits, Lane, Own, clientVars, requestVars
<1>13. ASSUME NEW b \in Blocks, ClaudeBlockStops(b) PROVE Lane'
  BY <1>13 DEF ClaudeBlockStops, Streams, Emits, Lane, Own, clientVars, requestVars, answer, content, lane
<1>14. ASSUME NEW i \in Index, CallStarts(i) PROVE Lane'
  BY <1>14 DEF CallStarts, Streams, Emits, Advance, TypeOK, CallIds, Lane, Own, clientVars, requestVars, answer, content, lane
<1>15. ASSUME NEW i \in Index, CallCompletes(i) PROVE Lane'
  <2>1. /\ pc = "stream" /\ pc' = "stream"
        /\ emitted' = IF Emits THEN emitted \cup {hop} ELSE emitted
        /\ UNCHANGED <<streaming, errors, hop, pending, cache, reply>>
    BY <1>15 DEF CallCompletes, Streams, requestVars
  <2>2. ASSUME NEW id \in CallIds, Own(id) PROVE Own(id)'
    BY <1>15, <2>1, <2>2 DEF CallCompletes, Advance, Own, TypeOK, CallIds
  <2>3. ASSUME NEW id \in ready' PROVE Own(id)'
    <3>1. CASE id \in ready
      BY <2>1, <2>2, <3>1 DEF Lane, TypeOK
    <3>2. CASE id = [err |-> errors, hop |-> hop, index |-> i]
      BY <1>15, <2>1, <3>2 DEF CallCompletes, Advance, Own, TypeOK
    <3> QED BY <1>15, <2>3, <3>1, <3>2 DEF CallCompletes
  <2>4. \A id \in ready' \cup pending' : Own(id)'
    BY <2>1, <2>2, <2>3 DEF Lane, TypeOK
  <2>5. ~streaming => ready' = {}
    BY <1>15 DEF CallCompletes, Lane
  <2> QED BY <2>1, <2>4, <2>5 DEF Emits, Lane
<1>16. ASSUME NEW id \in ready, NEW b \in BOOLEAN, Receive(id, b) PROVE Lane'
  BY <1>16 DEF Receive, Lane, Own, clientVars, requestVars, answer, content, lane
<1>17. ASSUME Hang PROVE Lane'
  BY <1>17 DEF Hang, AttemptFails, GivesUp, Lane, Own, clientVars, requestVars, answer, content, lane
<1>18. ASSUME NextTurn PROVE Lane'
  BY <1>18 DEF NextTurn, Lane, Own, clientVars, requestVars, answer, content, lane
<1>19. ASSUME Stop PROVE Lane'
  BY <1>19 DEF Stop, Lane, Own, clientVars, requestVars, answer, content, lane
<1>20. ASSUME Tick PROVE Lane'
  BY <1>20 DEF Tick, Lane, Own, clientVars, requestVars, answer, content, lane
<1>21. CASE UNCHANGED vars
  BY <1>21 DEF Lane, Own, clientVars, requestVars, answer, content, lane, vars
<1> QED
  BY <1>1, <1>2, <1>3, <1>4, <1>5, <1>6, <1>7, <1>8, <1>9, <1>10, <1>11, <1>12,
     <1>13, <1>14, <1>15, <1>16, <1>17, <1>18, <1>19, <1>20, <1>21
  DEF Next, Client, Stream, Agent

\* However many requests a call of the model takes, its events come from one
\* (NoOutputTwice of the run model_call).
THEOREM NoOutputTwiceHolds == Spec => []NoOutputTwice
<1>1. TypeOK /\ Lane => NoOutputTwice
  BY DEF Lane, NoOutputTwice
<1>2. Spec => [](TypeOK /\ Lane)
  BY TypeInit, TypeNext, LaneInit, LaneNext, PTL DEF Spec
<1> QED BY <1>1, <1>2, PTL

\* What was executed ahead of an answer belongs to it, whatever failed before
\* (SpeculationFaithful of the run model_call).
THEOREM SpeculationFaithfulHolds == Spec => []SpeculationFaithful
<1>1. TypeOK /\ Lane => SpeculationFaithful
  BY DEF Lane, SpeculationFaithful
<1>2. Spec => [](TypeOK /\ Lane)
  BY TypeInit, TypeNext, LaneInit, LaneNext, PTL DEF Spec
<1> QED BY <1>1, <1>2, PTL

-----------------------------------------------------------------------------
(* The session that is asked first                                         *)

\* What record_success keeps is the last answer and its age: of the primary only
\* that it was the primary.
Remembered ==
  \/ active = 0 /\ last.by \in {None, 0}
  \/ active # 0 /\ last.by = active /\ last.age = age

LEMMA RememberedInit == Init => Remembered
  BY DEF Init, Remembered

LEMMA RememberedNext == TypeOK /\ Remembered /\ [Next]_vars => Remembered'
<1> SUFFICES ASSUME TypeOK, Remembered, [Next]_vars PROVE Remembered'
  OBVIOUS
<1>1. ASSUME BeginCall PROVE Remembered'
  BY <1>1 DEF BeginCall, Remembered, clientVars
<1>2. ASSUME NEW e \in Errors, SendAgain(e) PROVE Remembered'
  BY <1>2 DEF SendAgain, Remembered, clientVars
<1>3. ASSUME NEW e \in Errors, SendFails(e) PROVE Remembered'
  <2>1. UNCHANGED clientVars
    BY <1>3 DEF SendFails, HopFails, AttemptFails
  <2> QED BY <2>1 DEF Remembered, clientVars
<1>4. ASSUME Headers PROVE Remembered'
  BY <1>4 DEF Headers, Remembered, clientVars
<1>5. ASSUME OaiTag PROVE Remembered'
  BY <1>5 DEF OaiTag, Streams, Remembered, clientVars
<1>6. ASSUME OaiReasoning PROVE Remembered'
  BY <1>6 DEF OaiReasoning, Streams, Remembered, clientVars
<1>7. ASSUME Answered PROVE Remembered'
  <2>1. last' = [by |-> Current, age |-> 0]
    BY <1>7 DEF Answered
  <2>2. CASE Current # 0 \/ active # 0
    <3>1. active' = Current /\ age' = 0
      BY <1>7, <2>2 DEF Answered, RecordSuccess
    <3> QED BY <2>1, <3>1 DEF Remembered
  <2>3. CASE Current = 0 /\ active = 0
    <3>1. active' = 0
      BY <1>7, <2>3 DEF Answered, RecordSuccess
    <3> QED BY <2>1, <2>3, <3>1 DEF Remembered
  <2> QED BY <2>2, <2>3
<1>8. ASSUME StreamBreaks PROVE Remembered'
  <2>1. UNCHANGED clientVars
    BY <1>8 DEF StreamBreaks, HopFails, AttemptFails
  <2> QED BY <2>1 DEF Remembered, clientVars
<1>9. ASSUME OaiContent PROVE Remembered'
  BY <1>9 DEF OaiContent, Streams, Remembered, clientVars
<1>10. ASSUME NEW b \in BOOLEAN, OaiEndTag(b) PROVE Remembered'
  BY <1>10 DEF OaiEndTag, Streams, Remembered, clientVars
<1>11. ASSUME NEW b \in Blocks, ClaudeBlock(b) PROVE Remembered'
  BY <1>11 DEF ClaudeBlock, Streams, Remembered, clientVars
<1>12. ASSUME NEW b \in Blocks, ClaudeDelta(b) PROVE Remembered'
  BY <1>12 DEF ClaudeDelta, Streams, Remembered, clientVars
<1>13. ASSUME NEW b \in Blocks, ClaudeBlockStops(b) PROVE Remembered'
  BY <1>13 DEF ClaudeBlockStops, Streams, Remembered, clientVars
<1>14. ASSUME NEW i \in Index, CallStarts(i) PROVE Remembered'
  BY <1>14 DEF CallStarts, Streams, Advance, Remembered, clientVars
<1>15. ASSUME NEW i \in Index, CallCompletes(i) PROVE Remembered'
  BY <1>15 DEF CallCompletes, Streams, Advance, Remembered, clientVars
<1>16. ASSUME NEW id \in ready, NEW b \in BOOLEAN, Receive(id, b) PROVE Remembered'
  BY <1>16 DEF Receive, Remembered, clientVars
<1>17. ASSUME Hang PROVE Remembered'
  <2>1. UNCHANGED clientVars
    BY <1>17 DEF Hang, AttemptFails
  <2> QED BY <2>1 DEF Remembered, clientVars
<1>18. ASSUME NextTurn PROVE Remembered'
  BY <1>18 DEF NextTurn, Remembered, clientVars
<1>19. ASSUME Stop PROVE Remembered'
  BY <1>19 DEF Stop, Remembered, clientVars
<1>20. ASSUME Tick PROVE Remembered'
  <2>1. last'.by = last.by /\ last'.age = Older(last.age)
    BY <1>20 DEF Tick, TypeOK
  <2>2. age' = Older(age) /\ active' = active
    BY <1>20 DEF Tick
  <2> QED BY <2>1, <2>2 DEF Remembered
<1>21. CASE UNCHANGED vars
  BY <1>21 DEF Remembered, clientVars, vars
<1> QED
  BY <1>1, <1>2, <1>3, <1>4, <1>5, <1>6, <1>7, <1>8, <1>9, <1>10, <1>11, <1>12,
     <1>13, <1>14, <1>15, <1>16, <1>17, <1>18, <1>19, <1>20, <1>21
  DEF Next, Client, Stream, Agent

\* A backup that answered last is asked first while the window lasts, and the
\* primary otherwise (StickyFailover of the run model_call).
THEOREM StickyFailoverHolds == Spec => StickyFailover
<1>1. ASSUME TypeOK, Remembered, BeginCall
      PROVE  base' = IF last.by \in {None, 0} \/ last.age > Window THEN 0 ELSE last.by
  <2>1. base' = IF active # 0 /\ age > Window THEN 0 ELSE active
    BY <1>1 DEF BeginCall, Pick
  <2>2. CASE active = 0
    BY <1>1, <2>1, <2>2 DEF Remembered
  <2>3. CASE active # 0
    <3>1. last.by = active /\ last.age = age
      BY <1>1, <2>3 DEF Remembered
    <3>2. active # None
      BY <1>1, ModelCallAssumption DEF TypeOK, Sessions, None
    <3> QED BY <2>1, <2>3, <3>1, <3>2
  <2> QED BY <2>2, <2>3
<1>2. Spec => [](TypeOK /\ Remembered)
  BY TypeInit, TypeNext, RememberedInit, RememberedNext, PTL DEF Spec
<1> QED BY <1>1, <1>2, PTL DEF Spec, StickyFailover

-----------------------------------------------------------------------------
(* What the user sees                                                      *)

\* What a block session has of block b.
Told(b) == kept[b] \o (IF b \in open THEN part ELSE <<>>)

(***************************************************************************)
(* While an answer arrives, chunk sessions show what they keep, the        *)
(* thinking block being open under a tag, and block sessions have shown    *)
(* what they keep and what the one open block has so far.                  *)
(***************************************************************************)
Display ==
  /\ pc = "send" => ~tag /\ open = {} /\ shown = Nothing /\ kept = Nothing
  /\ pc = "stream" /\ streaming =>
       /\ Current \in Oai => kept = shown /\ (tag => "thinking" \in open)
       /\ Current \in Native => /\ \A b, c \in open : b = c
                               /\ \A b \in Blocks : shown[b] = Told(b)
  /\ ShownIsReturned

LEMMA DisplayInit == Init => Display
  BY DEF Init, Display, ShownIsReturned

\* An empty answer has shown what it keeps.
LEMMA NothingTold ==
  ASSUME shown = Nothing, kept = Nothing, open = {}
  PROVE  \A b \in Blocks : shown[b] = Told(b)
<1>1. <<>> \o <<>> = <<>>
  BY NothingType, ConcatEmptySeq
<1> QED BY <1>1 DEF Nothing, Told

\* One more piece at the end of the open part is one more of what is told.
LEMMA OneMoreTold ==
  ASSUME NEW k \in Seq(Nat), NEW q \in Seq(Nat), NEW e \in Nat
  PROVE  k \o Append(q, e) = Append(k \o q, e)
<1>1. Append(q, e) = q \o <<e>> /\ <<e>> \in Seq(Nat)
  BY AppendIsConcat
<1>2. k \o q \in Seq(Nat)
  BY ConcatProperties
<1>3. Append(k \o q, e) = (k \o q) \o <<e>>
  BY <1>2, AppendIsConcat
<1> QED BY <1>1, <1>3, ConcatAssociative

\* The next session starts on an empty answer, and a failed turn shows none.
LEMMA HopFailsDisplay ==
  ASSUME TypeOK, Display, NEW e \in Errors, HopFails(e)
  PROVE  Display'
<1>1. CASE SafeToFailover(e) /\ hop < HopRetries
  <2>1. FreshAnswer /\ pc' = "send"
    BY <1>1 DEF HopFails
  <2> QED BY <2>1 DEF FreshAnswer, Nothing, Display, ShownIsReturned
<1>2. CASE ~(SafeToFailover(e) /\ hop < HopRetries)
  <2>1. PICK b \in BOOLEAN : AttemptFails(e, b)
    BY <1>2 DEF HopFails
  <2>2. pc' \in {"over", "ask"}
    BY <2>1, Zenon DEF AttemptFails
  <2> QED BY <2>2 DEF Display, ShownIsReturned
<1> QED BY <1>1, <1>2

\* A chunk of content is shown as it is kept, where its block is open after it.
LEMMA ChunkDisplay ==
  ASSUME TypeOK, Display, Streams(Oai), NEW b \in Blocks, Grow(b), b \in open',
         tag' => tag /\ open \subseteq open'
  PROVE  Display'
<1>1. /\ pc = "stream" /\ pc' = "stream" /\ streaming' = streaming
      /\ Current \in Oai /\ Current' = Current
  BY DEF Streams, requestVars, Current
<1>2. Current \notin Native
  BY <1>1, ModelCallAssumption
<1>3. shown' = Added(shown, b) /\ kept' = Added(kept, b)
  BY DEF Grow
<1>4. kept = shown => kept' = shown'
  BY <1>3 DEF Added
<1>5. streaming => kept = shown /\ (tag => "thinking" \in open)
  BY <1>1 DEF Display
<1>6. streaming /\ tag' => "thinking" \in open'
  BY <1>5
<1> HIDE DEF Added
<1> QED BY <1>1, <1>2, <1>4, <1>5, <1>6 DEF Display, ShownIsReturned

\* A step that leaves content and open blocks alone.
LEMMA QuietDisplay ==
  ASSUME TypeOK, Display, pc = "stream", pc' = "stream",
         UNCHANGED <<streaming, base, hop, tag, open, part, shown, kept>>
  PROVE  Display'
<1>1. Current' = Current
  BY DEF Current
<1>2. \A b \in Blocks : Told(b)' = Told(b)
  BY DEF Told
<1> QED BY <1>1, <1>2 DEF Display, ShownIsReturned

LEMMA DisplayNext == TypeOK /\ Display /\ [Next]_vars => Display'
<1> SUFFICES ASSUME TypeOK, Display, [Next]_vars PROVE Display'
  OBVIOUS
<1> USE ModelCallAssumption
<1>1. ASSUME BeginCall PROVE Display'
  <2>1. FreshAnswer /\ pc' = "send"
    BY <1>1 DEF BeginCall
  <2> QED BY <2>1 DEF FreshAnswer, Nothing, Display, ShownIsReturned
<1>2. ASSUME NEW e \in Errors, SendAgain(e) PROVE Display'
  BY <1>2 DEF SendAgain, Display, Nothing, ShownIsReturned, answer, content
<1>3. ASSUME NEW e \in Errors, SendFails(e) PROVE Display'
  BY <1>3, HopFailsDisplay DEF SendFails
<1>4. ASSUME Headers PROVE Display'
  <2>1. /\ pc' = "stream" /\ tag' = FALSE /\ open' = {}
        /\ shown' = Nothing /\ kept' = Nothing /\ shown' = shown /\ kept' = kept
    BY <1>4 DEF Headers, Display, answer, content, TypeOK
  <2>2. \A b \in Blocks : shown'[b] = Told(b)'
    <3>1. \A b \in Blocks : shown[b] = Told(b)
      BY <1>4, NothingTold DEF Headers, Display
    <3> QED BY <1>4, <3>1 DEF Headers, Told, answer, content
  <2> QED BY <2>1, <2>2 DEF Display, ShownIsReturned
<1>5. ASSUME OaiTag PROVE Display'
  <2>1. /\ pc = "stream" /\ pc' = "stream" /\ UNCHANGED <<streaming, base, hop>>
        /\ Current' = Current /\ Current \in Oai /\ Current \notin Native
    BY <1>5 DEF OaiTag, Streams, requestVars, Current
  <2>2. tag' = TRUE /\ open' = {"thinking"} /\ shown' = shown /\ kept' = kept
    BY <1>5 DEF OaiTag, content
  <2> QED BY <2>1, <2>2 DEF Display, ShownIsReturned
<1>6. ASSUME OaiReasoning PROVE Display'
  <2>1. Streams(Oai) /\ Grow("thinking") /\ "thinking" \in open' /\ tag' = tag
        /\ open \subseteq open'
    BY <1>6 DEF OaiReasoning
  <2> QED BY <2>1, ChunkDisplay DEF Blocks
<1>7. ASSUME Answered PROVE Display'
  <2>1. /\ pc = "stream" /\ pc' = "tools" /\ open' = {} /\ kept' = kept /\ part' = part
        /\ streaming' = streaming /\ Current' = Current
    BY <1>7 DEF Answered, requestVars, Current
  <2>2. streaming => IF Current \in Oai \cup Native THEN shown' = shown ELSE shown' = kept
    BY <1>7 DEF Answered, Emits
  <2>3. CASE ~streaming
    BY <2>1, <2>3 DEF Display, ShownIsReturned
  <2>4. CASE streaming /\ Current \notin Native
    <3>1. shown' = kept
      BY <2>1, <2>2, <2>4 DEF Display
    <3> QED BY <2>1, <3>1 DEF Display, ShownIsReturned
  <2>5. CASE streaming /\ Current \in Native
    <3>1. ASSUME NEW b \in Blocks PROVE shown'[b] = kept'[b] \/ shown'[b] = kept'[b] \o part'
      <4>1. shown[b] = Told(b) /\ shown' = shown
        BY <2>1, <2>2, <2>5 DEF Display
      <4>2. kept[b] \o <<>> = kept[b]
        BY ConcatEmptySeq DEF TypeOK
      <4> QED BY <2>1, <4>1, <4>2 DEF Told
    <3> QED BY <2>1, <2>5, <3>1 DEF Display, ShownIsReturned
  <2> QED BY <2>3, <2>4, <2>5
<1>8. ASSUME StreamBreaks PROVE Display'
  BY <1>8, HopFailsDisplay DEF StreamBreaks, Errors
<1>9. ASSUME OaiContent PROVE Display'
  <2>1. Streams(Oai) /\ Grow(IF tag THEN "thinking" ELSE "text") /\ tag' = tag
    BY <1>9 DEF OaiContent
  <2>2. open' = IF tag THEN open ELSE open \cup {"text"}
    BY <1>9 DEF OaiContent
  <2>3. CASE ~streaming
    BY <2>1, <2>3 DEF Streams, Display, ShownIsReturned
  <2>4. CASE streaming
    <3>1. tag => "thinking" \in open
      BY <2>1, <2>4 DEF Streams, Display
    <3> QED BY <2>1, <2>2, <3>1, ChunkDisplay DEF Blocks
  <2> QED BY <2>3, <2>4 DEF TypeOK
<1>10. ASSUME NEW b \in BOOLEAN, OaiEndTag(b) PROVE Display'
  <2>1. /\ Streams(Oai) /\ Grow(IF b THEN "thinking" ELSE "text")
        /\ tag /\ tag' = FALSE
    BY <1>10 DEF OaiEndTag
  <2>2. open' = IF b THEN open ELSE open \cup {"text"}
    BY <1>10 DEF OaiEndTag
  <2>3. CASE ~streaming
    BY <2>1, <2>3 DEF Streams, Display, ShownIsReturned
  <2>4. CASE streaming
    <3>1. "thinking" \in open
      BY <2>1, <2>4 DEF Streams, Display
    <3> QED BY <2>1, <2>2, <3>1, ChunkDisplay DEF Blocks
  <2> QED BY <2>3, <2>4 DEF TypeOK
<1>11. ASSUME NEW b \in Blocks, ClaudeBlock(b) PROVE Display'
  <2>1. /\ pc = "stream" /\ pc' = "stream" /\ UNCHANGED <<streaming, base, hop>>
        /\ Current' = Current /\ Current \notin Oai
    BY <1>11 DEF ClaudeBlock, Streams, requestVars, Current
  <2>2. open = {} /\ open' = {b} /\ part' = <<>> /\ shown' = shown /\ kept' = kept
    BY <1>11 DEF ClaudeBlock, Unopened
  <2>3. \A c \in Blocks : Told(c)' = Told(c)
    BY <2>2 DEF Told
  <2> QED BY <2>1, <2>2, <2>3 DEF Display, ShownIsReturned
<1>12. ASSUME NEW b \in Blocks, ClaudeDelta(b) PROVE Display'
  <2>1. /\ pc = "stream" /\ pc' = "stream" /\ UNCHANGED <<streaming, base, hop>>
        /\ Current' = Current /\ Current \notin Oai
    BY <1>12 DEF ClaudeDelta, Streams, requestVars, Current
  <2>2. /\ b \in open /\ open' = open /\ kept' = kept /\ pieces' \in Nat
        /\ part' = Append(part, pieces')
    BY <1>12 DEF ClaudeDelta, Piece, TypeOK
  <2>3. ASSUME streaming, Current \in Native, NEW c \in Blocks PROVE shown'[c] = Told(c)'
    <3>1. shown' = Added(shown, b)
      BY <1>12, <2>3 DEF ClaudeDelta, Emits
    <3>2. /\ shown'[b] = Append(shown[b], pieces')
           /\ \A o \in Blocks \ {b} : shown'[o] = shown[o]
      <4>1. shown \in Texts
        BY DEF TypeOK, Texts
      <4> QED BY <2>2, <3>1, <4>1, AddedIs
    <3>3. shown[c] = Told(c) /\ (\A x, y \in open : x = y)
      BY <2>1, <2>3 DEF Display
    <3>4. CASE c = b
      <4>1. Told(b)' = kept[b] \o Append(part, pieces') /\ Told(b) = kept[b] \o part
        BY <2>2 DEF Told
      <4>2. Told(b)' = Append(Told(b), pieces')
        <5>1. kept[b] \in Seq(Nat) /\ part \in Seq(Nat)
          BY DEF TypeOK
        <5>2. kept[b] \o Append(part, pieces') = Append(kept[b] \o part, pieces')
          BY <2>2, <5>1, OneMoreTold
        <5> QED BY <4>1, <5>2
      <4>3. shown'[b] = Append(shown[b], pieces')
        BY <3>2
      <4> QED BY <3>3, <3>4, <4>2, <4>3
    <3>5. CASE c # b
      <4>1. c \notin open
        BY <2>2, <3>3, <3>5
      <4>2. Told(c)' = Told(c)
        BY <2>2, <4>1 DEF Told
      <4>3. shown'[c] = shown[c]
        BY <3>2, <3>5
      <4> QED BY <3>3, <4>2, <4>3
    <3> QED BY <3>4, <3>5
  <2> QED BY <2>1, <2>2, <2>3 DEF Display, ShownIsReturned
<1>13. ASSUME NEW b \in Blocks, ClaudeBlockStops(b) PROVE Display'
  <2>1. /\ pc = "stream" /\ pc' = "stream" /\ UNCHANGED <<streaming, base, hop>>
        /\ Current' = Current /\ Current \notin Oai
    BY <1>13 DEF ClaudeBlockStops, Streams, requestVars, Current
  <2>2. /\ b \in open /\ open' = {} /\ shown' = shown
        /\ kept' = [kept EXCEPT ![b] = kept[b] \o part]
    BY <1>13 DEF ClaudeBlockStops
  <2>3. ASSUME \A x, y \in open : x = y, NEW c \in Blocks PROVE Told(c)' = Told(c)
    <3>1. Told(c)' = kept'[c] \o <<>> /\ kept' \in [Blocks -> Seq(Nat)]
      <4>1. kept[b] \o part \in Seq(Nat)
        BY ConcatProperties DEF TypeOK
      <4> QED BY <2>2, <4>1 DEF Told, TypeOK
    <3>2. kept'[c] \o <<>> = kept'[c]
      BY <3>1, ConcatEmptySeq
    <3>3. CASE c = b
      BY <2>2, <3>1, <3>2, <3>3 DEF Told, TypeOK
    <3>4. CASE c # b
      <4>1. c \notin open /\ kept'[c] = kept[c]
        BY <2>2, <2>3, <3>4 DEF TypeOK
      <4> QED BY <3>1, <4>1 DEF Told
    <3> QED BY <3>3, <3>4
  <2> QED BY <2>1, <2>2, <2>3 DEF Display, ShownIsReturned
<1>14. ASSUME NEW i \in Index, CallStarts(i) PROVE Display'
  BY <1>14, QuietDisplay DEF CallStarts, Streams, Advance, requestVars, content
<1>15. ASSUME NEW i \in Index, CallCompletes(i) PROVE Display'
  BY <1>15, QuietDisplay DEF CallCompletes, Streams, Advance, requestVars, content
<1>16. ASSUME NEW id \in ready, NEW b \in BOOLEAN, Receive(id, b) PROVE Display'
  <2>1. /\ pc \in {"send", "stream"} /\ pc' = pc
        /\ UNCHANGED <<streaming, base, hop, tag, open, part, shown, kept>>
    BY <1>16 DEF Receive, requestVars, answer, content
  <2>2. CASE pc = "stream"
    BY <2>1, <2>2, QuietDisplay
  <2>3. CASE pc = "send"
    BY <2>1, <2>3 DEF Display, Nothing, ShownIsReturned
  <2> QED BY <2>1, <2>2, <2>3
<1>17. ASSUME Hang PROVE Display'
  <2>1. pc' \in {"over", "ask"}
    BY <1>17 DEF Hang, AttemptFails
  <2> QED BY <2>1 DEF Display, ShownIsReturned
<1>18. ASSUME NextTurn PROVE Display'
  BY <1>18 DEF NextTurn, Display, ShownIsReturned
<1>19. ASSUME Stop PROVE Display'
  BY <1>19 DEF Stop, Display, ShownIsReturned
<1>20. ASSUME Tick PROVE Display'
  <2>1. UNCHANGED <<pc, streaming, base, hop, tag, open, part, shown, kept>>
    BY <1>20 DEF Tick, requestVars, answer, content
  <2>2. Current' = Current /\ (\A b \in Blocks : Told(b)' = Told(b)) /\ Nothing' = Nothing
    BY <2>1 DEF Current, Told, Nothing
  <2> QED BY <2>1, <2>2 DEF Display, ShownIsReturned
<1>21. CASE UNCHANGED vars
  <2>1. UNCHANGED <<pc, streaming, base, hop, tag, open, part, shown, kept>>
    BY <1>21 DEF vars, requestVars, answer, content
  <2>2. Current' = Current /\ (\A b \in Blocks : Told(b)' = Told(b)) /\ Nothing' = Nothing
    BY <2>1 DEF Current, Told, Nothing
  <2> QED BY <2>1, <2>2 DEF Display, ShownIsReturned
<1> QED
  BY <1>1, <1>2, <1>3, <1>4, <1>5, <1>6, <1>7, <1>8, <1>9, <1>10, <1>11, <1>12,
     <1>13, <1>14, <1>15, <1>16, <1>17, <1>18, <1>19, <1>20, <1>21
  DEF Next, Client, Stream, Agent

\* However an answer is cut into chunks, tags, blocks and calls, the agent loop gets
\* the text and the thinking the user was shown, piece for piece (ShownIsReturned of
\* the run model_call).
THEOREM ShownIsReturnedHolds == Spec => []ShownIsReturned
<1>1. Display => ShownIsReturned
  BY DEF Display
<1>2. Spec => [](TypeOK /\ Display)
  BY TypeInit, TypeNext, DisplayInit, DisplayNext, PTL DEF Spec
<1> QED BY <1>1, <1>2, PTL

=============================================================================
