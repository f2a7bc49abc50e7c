------------------------- MODULE JobRegistryProofs --------------------------
(***************************************************************************)
(* Proofs about JobRegistry, for every set of sessions and every bound:    *)
(* the type invariant, the three safety invariants TLC checks, and that    *)
(* the registry implements JobLifecycle.                                   *)
(*                                                                         *)
(* TypeOK and PhaseInv are inductive together (the listener counts stay    *)
(* in range because the phase decides them).  StopInv, and OutputInv with  *)
(* OutputConserved, are inductive relative to them.                        *)
(***************************************************************************)
EXTENDS JobRegistry, TLAPS

-----------------------------------------------------------------------------
(* Records stay records of their type under the updates the actions make.  *)

\* The updates of a registry entry.
LEMMA EntryUpdates ==
  ASSUME NEW e \in Entry
  PROVE  /\ \A x \in Statuses : [e EXCEPT !.status = x] \in Entry
         /\ \A t \in Text : [e EXCEPT !.pending_final = t] \in Entry
         /\ [e EXCEPT !.reported = TRUE] \in Entry
         /\ \A x \in Statuses, t \in Text :
              [e EXCEPT !.status = x, !.cursor = FALSE, !.pending_final = t] \in Entry
  BY DEF Entry

\* The updates of what the listener heard.
LEMMA EventsUpdates ==
  ASSUME NEW e \in Events, NEW n \in Calls, NEW x \in Statuses
  PROVE  /\ [e EXCEPT !.started = n, !.status = x] \in Events
         /\ [e EXCEPT !.finished = n, !.status = x] \in Events
  BY DEF Events

\* The settlement commits a terminal status, whatever the producer reported.
LEMMA SettledStatusIsTerminal ==
  ASSUME NEW st \in Statuses, NEW o \in Outcomes
  PROVE  SettledStatus(st, o) \in Terminal
  BY DEF SettledStatus, Outcomes, Terminal

\* Marking records as stopping keeps every record well typed.
LEMMA MarkStoppingType ==
  ASSUME TypeOK, NEW S \in SUBSET Ids, MarkStopping(S)
  PROVE  entries' \in [Ids -> Entry] /\ cancels' \in SUBSET Ids
<1>1. \A id \in Ids : [entries[id] EXCEPT !.status = "stopping"] \in Entry
  BY EntryUpdates DEF TypeOK, Statuses
<1> QED BY <1>1 DEF MarkStopping, TypeOK

\* What the settlement commits: its record is there and live, the status becomes
\* terminal, and the cursor's output moves into pending_final.
SettleFacts(id) ==
  /\ Live(id) /\ phase[id] = "waiting" /\ producer[id] \in Outcomes
  /\ phase' = [phase EXCEPT ![id] = "committed"]
  /\ ring' = [ring EXCEPT ![id] = {}]
  /\ settledAt' = [settledAt EXCEPT ![id] = written[id]]
  /\ entries' \in [Ids -> Entry]
  /\ entries'[id].status \in Terminal
  /\ entries'[id].status = SettledStatus(entries[id].status, producer[id])
  /\ ~entries'[id].cursor
  /\ entries'[id].pending_final = ring[id]
  /\ \A j \in Ids : j # id => entries'[j] = entries[j]
  /\ UNCHANGED <<seq, cancels, producer, cancelled, written, delivered, dropped, events>>

\* The settlement of a waiting job has that effect.
LEMMA SettleEffect ==
  ASSUME TypeOK, PhaseInv, NEW id \in Ids, Settle(id)
  PROVE  SettleFacts(id)
<1> DEFINE st == SettledStatus(entries[id].status, producer[id])
           settled == [entries[id] EXCEPT !.status = st, !.cursor = FALSE,
                                          !.pending_final = ring[id]]
<1>1. /\ entries[id] \in Entry /\ ring[id] \in Text
      /\ Live(id) /\ entries[id].status # "absent"
  BY DEF Settle, TypeOK, PhaseInv, Live
<1>2. st \in Terminal
  BY <1>1, SettledStatusIsTerminal DEF Settle, Entry
<1>3. /\ entries' = [entries EXCEPT ![id] = settled]
      /\ phase' = [phase EXCEPT ![id] = "committed"]
      /\ ring' = [ring EXCEPT ![id] = {}]
      /\ settledAt' = [settledAt EXCEPT ![id] = written[id]]
  BY <1>1 DEF Settle
<1>4. settled \in Entry
  BY <1>1, <1>2, EntryUpdates DEF Statuses
<1>5. settled.status = st /\ ~settled.cursor /\ settled.pending_final = ring[id]
  BY <1>1 DEF Entry
<1> HIDE DEF st, settled
<1>6. entries'[id] = settled /\ entries' \in [Ids -> Entry]
      /\ \A j \in Ids : j # id => entries'[j] = entries[j]
  BY <1>3, <1>4 DEF TypeOK
<1> QED BY <1>1, <1>2, <1>3, <1>5, <1>6 DEF st, Settle, SettleFacts

\* What a read changes: output moves to the reader, from the cursor or, once the
\* cursor is gone, from pending_final; nothing else of any record changes.
ReadFacts(id) ==
  /\ entries' \in [Ids -> Entry]
  /\ \A j \in Ids : /\ entries'[j].status = entries[j].status
                    /\ entries'[j].cursor = entries[j].cursor
                    /\ j # id => entries'[j] = entries[j]
  /\ entries[id].cursor =>
       /\ entries' = entries
       /\ delivered' = [delivered EXCEPT ![id] = @ \cup ring[id]]
       /\ ring' = [ring EXCEPT ![id] = {}]
  /\ ~entries[id].cursor =>
       /\ entries'[id].pending_final = {}
       /\ delivered' = [delivered EXCEPT ![id] = @ \cup entries[id].pending_final]
       /\ ring' = ring
  /\ UNCHANGED <<seq, phase, cancels, producer, cancelled, written, dropped, settledAt, events>>

\* A read the fence admits has that effect.
LEMMA ReadEffect ==
  ASSUME TypeOK, NEW id \in Ids, NEW s \in Sessions, read(id, s)
  PROVE  ReadFacts(id)
<1> DEFINE taken == [entries[id] EXCEPT !.pending_final = {}]
<1>1. entries[id] \in Entry
  BY DEF TypeOK
<1>2. taken \in Entry
  BY <1>1, EntryUpdates DEF Text
<1>3. /\ taken.status = entries[id].status /\ taken.cursor = entries[id].cursor
      /\ taken.pending_final = {}
  BY <1>1 DEF Entry
<1>4. entries' = IF entries[id].cursor THEN entries ELSE [entries EXCEPT ![id] = taken]
  BY DEF read
<1> HIDE DEF taken
<1> QED BY <1>1, <1>2, <1>3, <1>4 DEF read, ReadFacts, TypeOK

\* Ring::push touches only the output variables and keeps their types.
LEMMA PushType ==
  ASSUME TypeOK, NEW id \in Ids, push(id)
  PROVE  /\ ring' \in [Ids -> Text]
         /\ written' \in [Ids -> 0..MaxChunks]
         /\ dropped' \in [Ids -> SUBSET Chunks]
         /\ delivered' \in [Ids -> Text]
         /\ settledAt' \in [Ids -> 0..MaxChunks]
<1>1. written[id] \in Nat /\ written[id] + 1 \in Chunks /\ ring[id] \in Text
  BY BoundsAssumption DEF TypeOK, push, Chunks
<1>2. ring' \in [Ids -> Text]
  BY <1>1 DEF push, TypeOK, Text
<1>3. dropped' \in [Ids -> SUBSET Chunks]
  BY <1>1 DEF push, TypeOK, Text
<1> QED BY <1>1, <1>2, <1>3, BoundsAssumption DEF push, TypeOK, Chunks

-----------------------------------------------------------------------------
(* Types and phases.                                                       *)

TypePhase == TypeOK /\ PhaseInv

\* The initial state is well typed and every id is unused.
LEMMA TypePhaseInit == Init => TypePhase
  BY BoundsAssumption
  DEF Init, TypePhase, TypeOK, PhaseInv, Live, Settled, StopRequested, Terminal, Ids,
      Kinds, Absent, Entry, Owners, Statuses, Text, Chunks, Phases, Events, Calls

\* Every action keeps types and phases in step.
LEMMA TypePhaseNext == TypePhase /\ [Next]_vars => TypePhase'
<1> SUFFICES ASSUME TypePhase, [Next]_vars PROVE TypePhase'
  OBVIOUS
<1> USE DEF TypePhase
<1>1. ASSUME NEW k \in Kinds, NextId(k) PROVE TypePhase'
  <2>1. <<k, seq[k] + 1>> \in Ids /\ seq[k] + 1 \in 0..MaxSeq
    BY <1>1, BoundsAssumption DEF NextId, Ids, TypeOK
  <2>2. TypeOK'
    BY <1>1, <2>1 DEF NextId, TypeOK, Phases, output
  <2>3. PhaseInv'
    BY <1>1, <2>1
    DEF NextId, TypeOK, PhaseInv, output, Live, Settled, StopRequested, Terminal,
        Ids
  <2> QED BY <2>2, <2>3
<1>2. ASSUME NEW id \in Ids, RunRefused(id) PROVE TypePhase'
  <2>3. TypeOK'
    BY <1>2 DEF RunRefused, TypeOK, Phases, output
  <2>4. PhaseInv'
    BY <1>2
    DEF RunRefused, TypeOK, PhaseInv, output, Live, Settled, StopRequested,
        Terminal, Outcomes, Statuses, Calls, Entry, Events
  <2> QED BY <2>3, <2>4
<1>3. ASSUME NEW id \in Ids, RunStarted(id) PROVE TypePhase'
  <2>3. TypeOK'
    BY <1>3 DEF RunStarted, TypeOK, Phases, output
  <2>4. PhaseInv'
    BY <1>3
    DEF RunStarted, TypeOK, PhaseInv, output, Live, Settled, StopRequested,
        Terminal, Outcomes, Statuses, Calls, Entry, Events
  <2> QED BY <2>3, <2>4
<1>4. ASSUME NEW id \in Ids, NEW s \in Sessions, Insert(id, s) PROVE TypePhase'
  <2>2. entries' \in [Ids -> Entry]
    BY <1>4 DEF Insert, TypeOK, Entry, Owners, Statuses, Text
  <2>3. TypeOK'
    BY <1>4, <2>2 DEF Insert, TypeOK, Phases, output
  <2>4. PhaseInv'
    BY <1>4
    DEF Insert, TypeOK, PhaseInv, output, Live, Settled, StopRequested, Terminal,
        Outcomes, Statuses, Calls, Entry, Events
  <2> QED BY <2>3, <2>4
<1>5. ASSUME NEW id \in Ids, EmitStarted(id) PROVE TypePhase'
  <2>1. events[id] \in Events /\ events[id].started + 1 \in Calls
    BY <1>5 DEF EmitStarted, TypeOK, PhaseInv, Calls
  <2>2. events' \in [Ids -> Events]
    BY <1>5, <2>1, EventsUpdates DEF EmitStarted, TypeOK, Statuses
  <2>3. TypeOK'
    BY <1>5, <2>2 DEF EmitStarted, TypeOK, Phases, output
  <2>4. PhaseInv'
    BY <1>5
    DEF EmitStarted, TypeOK, PhaseInv, output, Live, Settled, StopRequested,
        Terminal, Outcomes, Statuses, Calls, Entry, Events
  <2> QED BY <2>3, <2>4
<1>6. ASSUME NEW id \in Ids, Settle(id) PROVE TypePhase'
  <2>1. SettleFacts(id)
    BY <1>6, SettleEffect
  <2>2. ring' \in [Ids -> Text] /\ settledAt' \in [Ids -> 0..MaxChunks]
    BY <2>1 DEF SettleFacts, TypeOK, Text
  <2>3. TypeOK'
    BY <2>1, <2>2 DEF SettleFacts, TypeOK, Phases, output
  <2>4. PhaseInv'
    BY <2>1
    DEF SettleFacts, TypeOK, PhaseInv, output, Live, Settled, StopRequested,
        Terminal
  <2> QED BY <2>3, <2>4
<1>7. ASSUME NEW id \in Ids, EmitFinished(id) PROVE TypePhase'
  <2>1. /\ events[id] \in Events /\ events[id].finished + 1 \in Calls
        /\ entries[id].status \in Statuses
    BY <1>7 DEF EmitFinished, TypeOK, PhaseInv, Calls, Entry
  <2>2. events' \in [Ids -> Events]
    BY <1>7, <2>1, EventsUpdates DEF EmitFinished, TypeOK
  <2>3. TypeOK'
    BY <1>7, <2>2 DEF EmitFinished, TypeOK, Phases, output
  <2>4. PhaseInv'
    BY <1>7
    DEF EmitFinished, TypeOK, PhaseInv, output, Live, Settled, StopRequested,
        Terminal, Outcomes, Statuses, Calls, Entry, Events
  <2> QED BY <2>3, <2>4
<1>8. ASSUME NEW id \in Ids, NEW s \in Sessions, read(id, s) PROVE TypePhase'
  <2>1. ReadFacts(id)
    BY <1>8, ReadEffect
  <2>2. delivered' \in [Ids -> Text] /\ ring' \in [Ids -> Text]
    <3>1. ring[id] \in Text /\ entries[id].pending_final \in Text
      BY DEF TypeOK, Entry
    <3> QED BY <1>8, <3>1 DEF read, TypeOK, Text
  <2>3. TypeOK'
    BY <2>1, <2>2 DEF ReadFacts, TypeOK, Phases, output
  <2>4. PhaseInv'
    BY <2>1
    DEF ReadFacts, TypeOK, PhaseInv, output, Live, Settled, StopRequested, Terminal
  <2> QED BY <2>3, <2>4
<1>9. ASSUME NEW id \in Ids, NEW s \in Sessions, cancel(id, s) PROVE TypePhase'
  <2>2. entries' \in [Ids -> Entry] /\ cancels' \in SUBSET Ids
    BY <1>9, MarkStoppingType DEF cancel
  <2>3. TypeOK'
    BY <1>9, <2>2 DEF cancel, MarkStopping, TypeOK, Phases, output
  <2>4. PhaseInv'
    BY <1>9
    DEF cancel, MarkStopping, TypeOK, PhaseInv, output, Live, Settled,
        StopRequested, Terminal, Outcomes, Statuses, Calls, Entry, Events
  <2> QED BY <2>3, <2>4
<1>10. ASSUME NEW s \in Sessions, cancel_owner(s) PROVE TypePhase'
  <2>2. entries' \in [Ids -> Entry] /\ cancels' \in SUBSET Ids
    BY <1>10, MarkStoppingType DEF cancel_owner
  <2>3. TypeOK'
    BY <1>10, <2>2 DEF cancel_owner, MarkStopping, TypeOK, Phases, output
  <2>4. PhaseInv'
    BY <1>10
    DEF cancel_owner, MarkStopping, TypeOK, PhaseInv, output, Live, Settled,
        StopRequested, Terminal, Outcomes, Statuses, Calls, Entry, Events
  <2> QED BY <2>3, <2>4
<1>11. ASSUME cancel_all PROVE TypePhase'
  <2>2. entries' \in [Ids -> Entry] /\ cancels' \in SUBSET Ids
    BY <1>11, MarkStoppingType DEF cancel_all
  <2>3. TypeOK'
    BY <1>11, <2>2 DEF cancel_all, MarkStopping, TypeOK, Phases, output
  <2>4. PhaseInv'
    BY <1>11
    DEF cancel_all, MarkStopping, TypeOK, PhaseInv, output, Live, Settled,
        StopRequested, Terminal, Outcomes, Statuses, Calls, Entry, Events
  <2> QED BY <2>3, <2>4
<1>12. ASSUME NEW id \in Ids, CallCancel(id) PROVE TypePhase'
  <2>3. TypeOK'
    BY <1>12 DEF CallCancel, TypeOK, Phases, output
  <2>4. PhaseInv'
    BY <1>12
    DEF CallCancel, TypeOK, PhaseInv, output, Live, Settled, StopRequested,
        Terminal, Outcomes, Statuses, Calls, Entry, Events
  <2> QED BY <2>3, <2>4
<1>13. ASSUME NEW id \in Ids, mark_reported(id) PROVE TypePhase'
  <2>2. entries' \in [Ids -> Entry]
    BY <1>13, EntryUpdates DEF mark_reported, TypeOK
  <2>3. TypeOK'
    BY <1>13, <2>2 DEF mark_reported, TypeOK, Phases, output
  <2>4. PhaseInv'
    BY <1>13
    DEF mark_reported, TypeOK, PhaseInv, output, Live, Settled, StopRequested,
        Terminal, Outcomes, Statuses, Calls, Entry, Events
  <2> QED BY <2>3, <2>4
<1>14. ASSUME NEW S \in SUBSET Ids, prune(S) PROVE TypePhase'
  <2>2. entries' \in [Ids -> Entry]
    BY <1>14 DEF prune, TypeOK, Entry, Absent, Owners, Statuses, Text
  <2>3. TypeOK'
    BY <1>14, <2>2 DEF prune, TypeOK, Phases, output
  <2>4. PhaseInv'
    BY <1>14
    DEF prune, TypeOK, PhaseInv, output, Live, Settled, StopRequested, Terminal,
        Entry, Absent, Outcomes, Statuses, Calls, Entry, Events
  <2> QED BY <2>3, <2>4
<1>15. ASSUME NEW id \in Ids, BashWrites(id) PROVE TypePhase'
  <2>2. /\ ring' \in [Ids -> Text] /\ written' \in [Ids -> 0..MaxChunks]
        /\ dropped' \in [Ids -> SUBSET Chunks]
        /\ delivered' \in [Ids -> Text] /\ settledAt' \in [Ids -> 0..MaxChunks]
    BY <1>15, PushType DEF BashWrites
  <2>3. TypeOK'
    BY <1>15, <2>2 DEF BashWrites, TypeOK, Phases, output
  <2>4. PhaseInv'
    BY <1>15
    DEF BashWrites, TypeOK, PhaseInv, output, Live, Settled, StopRequested,
        Terminal, Outcomes, Statuses, Calls, Entry, Events
  <2> QED BY <2>3, <2>4
<1>16. ASSUME NEW id \in Ids, NEW o \in Outcomes, BashEnds(id, o) PROVE TypePhase'
  <2>3. TypeOK'
    BY <1>16 DEF BashEnds, TypeOK, Phases, output
  <2>4. PhaseInv'
    BY <1>16
    DEF BashEnds, TypeOK, PhaseInv, output, Live, Settled, StopRequested, Terminal,
        Outcomes, Statuses, Calls, Entry, Events
  <2> QED BY <2>3, <2>4
<1>17. ASSUME NEW id \in Ids, NEW o \in Outcomes, AgentEnds(id, o) PROVE TypePhase'
  <2>2. /\ ring' \in [Ids -> Text] /\ written' \in [Ids -> 0..MaxChunks]
        /\ dropped' \in [Ids -> SUBSET Chunks]
        /\ delivered' \in [Ids -> Text] /\ settledAt' \in [Ids -> 0..MaxChunks]
    BY <1>17, PushType DEF AgentEnds, TypeOK, output
  <2>3. TypeOK'
    BY <1>17, <2>2 DEF AgentEnds, TypeOK, Phases, output
  <2>4. PhaseInv'
    BY <1>17
    DEF AgentEnds, TypeOK, PhaseInv, output, Live, Settled, StopRequested, Terminal,
        Outcomes, Statuses, Calls, Entry, Events
  <2> QED BY <2>3, <2>4
<1>18. CASE UNCHANGED vars
  BY <1>18 DEF vars, output, TypeOK, PhaseInv, Live, Settled, StopRequested
<1> QED
  BY <1>1, <1>2, <1>3, <1>4, <1>5, <1>6, <1>7, <1>8, <1>9,
     <1>10, <1>11, <1>12, <1>13, <1>14, <1>15, <1>16, <1>17, <1>18
  DEF Next, Start, SettlementTask, Consumer, Producer

\* Every record, counter and flag stays in its type, and the phase of an id
\* agrees with its record and with what the listener heard.
THEOREM TypeCorrect == Spec => []TypeOK
<1>1. Spec => []TypePhase
  BY TypePhaseInit, TypePhaseNext, PTL DEF Spec
<1> QED BY <1>1, PTL DEF TypePhase

\* The listener hears of every job once when it starts and once when it ends.
THEOREM AnnouncedOnceHolds == Spec => []AnnouncedOnce
<1>1. TypePhase => AnnouncedOnce
  BY
  DEF TypePhase, TypeOK, PhaseInv, AnnouncedOnce, Phases, Events, Calls, Live,
      Settled,
         Statuses, Entry, Terminal
<1>2. Spec => []TypePhase
  BY TypePhaseInit, TypePhaseNext, PTL DEF Spec
<1> QED BY <1>1, <1>2, PTL

-----------------------------------------------------------------------------
(* A requested stop shows.                                                 *)

\* Nobody has asked for a stop initially.
LEMMA StopInit == Init => StopInv /\ StopIsHonest
  BY DEF Init, StopInv, StopIsHonest, Live, Settled, StopRequested, Absent, Terminal

\* Every action keeps the record of a stop request.
LEMMA StopNext ==
  TypePhase /\ StopInv /\ StopIsHonest /\ [Next]_vars => (StopInv /\ StopIsHonest)'
<1> SUFFICES ASSUME TypePhase, StopInv, StopIsHonest, [Next]_vars
             PROVE  (StopInv /\ StopIsHonest)'
  OBVIOUS
<1> USE DEF TypePhase
<1>1. ASSUME NEW k \in Kinds, NextId(k) PROVE (StopInv /\ StopIsHonest)'
  BY <1>1 DEF NextId, TypeOK, PhaseInv, StopInv, StopIsHonest, output, Live, Settled,
     StopRequested, Terminal, Outcomes, Statuses, Entry, Absent
<1>2. ASSUME NEW id \in Ids, RunRefused(id) PROVE (StopInv /\ StopIsHonest)'
  BY <1>2
  DEF RunRefused, TypeOK, PhaseInv, StopInv, StopIsHonest, output, Live, Settled,
     StopRequested, Terminal, Outcomes, Statuses, Entry, Absent
<1>3. ASSUME NEW id \in Ids, RunStarted(id) PROVE (StopInv /\ StopIsHonest)'
  BY <1>3
  DEF RunStarted, TypeOK, PhaseInv, StopInv, StopIsHonest, output, Live, Settled,
     StopRequested, Terminal, Outcomes, Statuses, Entry, Absent
<1>4. ASSUME NEW id \in Ids, NEW s \in Sessions, Insert(id, s) PROVE (StopInv /\ StopIsHonest)'
  BY <1>4 DEF Insert, TypeOK, PhaseInv, StopInv, StopIsHonest, output, Live, Settled,
     StopRequested, Terminal, Outcomes, Statuses, Entry, Absent
<1>5. ASSUME NEW id \in Ids, EmitStarted(id) PROVE (StopInv /\ StopIsHonest)'
  BY <1>5
  DEF EmitStarted, TypeOK, PhaseInv, StopInv, StopIsHonest, output, Live, Settled,
     StopRequested, Terminal, Outcomes, Statuses, Entry, Absent
<1>6. ASSUME NEW id \in Ids, Settle(id) PROVE (StopInv /\ StopIsHonest)'
  <2>1. SettleFacts(id)
    BY <1>6, SettleEffect
  <2>2. /\ entries[id].status = "stopping" <=> StopRequested(id)
        /\ entries[id].status \in {"running", "stopping"}
        /\ producer[id] = "killed" => StopRequested(id)
    BY <2>1 DEF SettleFacts, StopInv, Live, StopRequested
  <2>3. /\ StopRequested(id) => entries'[id].status # "completed"
        /\ entries'[id].status = "killed" => StopRequested(id)
    BY <2>1, <2>2 DEF SettleFacts, SettledStatus, Outcomes
  <2>4. \A j \in Ids : StopRequested(j)' <=> StopRequested(j)
    BY <2>1 DEF SettleFacts, StopRequested
  <2>5. StopInv'
    BY <2>1, <2>4 DEF SettleFacts, StopInv, Live, Terminal
  <2>6. StopIsHonest'
    BY <2>1, <2>3, <2>4 DEF SettleFacts, StopIsHonest, Settled
  <2> QED BY <2>5, <2>6
<1>7. ASSUME NEW id \in Ids, EmitFinished(id) PROVE (StopInv /\ StopIsHonest)'
  BY <1>7
  DEF EmitFinished, TypeOK, PhaseInv, StopInv, StopIsHonest, output, Live, Settled,
     StopRequested, Terminal, Outcomes, Statuses, Entry, Absent
<1>8. ASSUME NEW id \in Ids, NEW s \in Sessions, read(id, s) PROVE (StopInv /\ StopIsHonest)'
  <2>1. ReadFacts(id)
    BY <1>8, ReadEffect
  <2> QED
    BY <2>1
    DEF ReadFacts, TypeOK, PhaseInv, StopInv, StopIsHonest, Live, Settled,
        StopRequested,
       Terminal, Outcomes, Statuses, Entry
<1>9. ASSUME NEW id \in Ids, NEW s \in Sessions, cancel(id, s) PROVE (StopInv /\ StopIsHonest)'
  BY <1>9
  DEF cancel, MarkStopping, TypeOK, PhaseInv, StopInv, StopIsHonest, output, Live,
      Settled,
     StopRequested, Terminal, Outcomes, Statuses, Entry, Absent
<1>10. ASSUME NEW s \in Sessions, cancel_owner(s) PROVE (StopInv /\ StopIsHonest)'
  BY <1>10
  DEF cancel_owner, MarkStopping, TypeOK, PhaseInv, StopInv, StopIsHonest, output,
      Live, Settled,
     StopRequested, Terminal, Outcomes, Statuses, Entry, Absent
<1>11. ASSUME cancel_all PROVE (StopInv /\ StopIsHonest)'
  BY <1>11
  DEF cancel_all, MarkStopping, TypeOK, PhaseInv, StopInv, StopIsHonest, output, Live,
      Settled,
     StopRequested, Terminal, Outcomes, Statuses, Entry, Absent
<1>12. ASSUME NEW id \in Ids, CallCancel(id) PROVE (StopInv /\ StopIsHonest)'
  BY <1>12
  DEF CallCancel, TypeOK, PhaseInv, StopInv, StopIsHonest, output, Live, Settled,
     StopRequested, Terminal, Outcomes, Statuses, Entry, Absent
<1>13. ASSUME NEW id \in Ids, mark_reported(id) PROVE (StopInv /\ StopIsHonest)'
  BY <1>13
  DEF mark_reported, TypeOK, PhaseInv, StopInv, StopIsHonest, output, Live, Settled,
     StopRequested, Terminal, Outcomes, Statuses, Entry, Absent
<1>14. ASSUME NEW S \in SUBSET Ids, prune(S) PROVE (StopInv /\ StopIsHonest)'
  BY <1>14 DEF prune, TypeOK, PhaseInv, StopInv, StopIsHonest, output, Live, Settled,
     StopRequested, Terminal, Outcomes, Statuses, Entry, Absent
<1>15. ASSUME NEW id \in Ids, BashWrites(id) PROVE (StopInv /\ StopIsHonest)'
  BY <1>15
  DEF BashWrites, TypeOK, PhaseInv, StopInv, StopIsHonest, output, Live, Settled,
     StopRequested, Terminal, Outcomes, Statuses, Entry, Absent
<1>16. ASSUME NEW id \in Ids, NEW o \in Outcomes, BashEnds(id, o) PROVE (StopInv /\ StopIsHonest)'
  BY <1>16 DEF BashEnds, TypeOK, PhaseInv, StopInv, StopIsHonest, output, Live, Settled,
     StopRequested, Terminal, Outcomes, Statuses, Entry, Absent
<1>17. ASSUME NEW id \in Ids, NEW o \in Outcomes, AgentEnds(id, o) PROVE (StopInv /\ StopIsHonest)'
  BY <1>17
  DEF AgentEnds, TypeOK, PhaseInv, StopInv, StopIsHonest, output, Live, Settled,
     StopRequested, Terminal, Outcomes, Statuses, Entry, Absent
<1>18. CASE UNCHANGED vars
  BY <1>18 DEF vars, output, StopInv, StopIsHonest, Live, Settled, StopRequested
<1> QED
  BY <1>1, <1>2, <1>3, <1>4, <1>5, <1>6, <1>7, <1>8, <1>9,
     <1>10, <1>11, <1>12, <1>13, <1>14, <1>15, <1>16, <1>17, <1>18
  DEF Next, Start, SettlementTask, Consumer, Producer

\* A job asked to stop never settles as completed, and only such a job settles
\* as killed, in every interleaving of cancel(), its hook, the producer's report
\* and the settlement task.
THEOREM StopIsHonestHolds == Spec => []StopIsHonest
<1>1. Spec => []TypePhase
  BY TypePhaseInit, TypePhaseNext, PTL DEF Spec
<1>2. Spec => [](StopInv /\ StopIsHonest)
  BY <1>1, StopInit, StopNext, PTL DEF Spec
<1> QED BY <1>2, PTL

-----------------------------------------------------------------------------
(* Output.                                                                 *)

OutputSafe == OutputInv /\ OutputConserved

\* What a push does: the new chunk enters the ring, at most one old chunk leaves
\* it for `dropped`, and the truncation mark is up whenever one did.
PushFacts(id, lost) ==
  /\ lost \subseteq Chunks /\ lost \subseteq ring[id]
  /\ written[id] + 1 \in Chunks
  /\ written' = [written EXCEPT ![id] = written[id] + 1]
  /\ \A c \in Chunks : c \in ring'[id] <=> c = written[id] + 1 \/ (c \in ring[id] /\ c \notin lost)
  /\ dropped'[id] = dropped[id] \cup lost
  /\ lost # {} => TruncationMark \in ring'[id]
  /\ TruncationMark \in ring[id] => TruncationMark \in ring'[id]
  /\ \A j \in Ids : j # id => ring'[j] = ring[j] /\ dropped'[j] = dropped[j]
  /\ UNCHANGED <<delivered, settledAt>>

\* A push has that effect for some set of at most one dropped chunk.
LEMMA PushEffect ==
  ASSUME TypeOK, OutputInv, NEW id \in Ids, push(id)
  PROVE  \E lost : PushFacts(id, lost)
<1> DEFINE held == ring[id] \ {TruncationMark}
<1>1. written[id] + 1 \in Chunks /\ ring[id] \in Text /\ TruncationMark \notin Chunks
  BY BoundsAssumption DEF TypeOK, push, Chunks, TruncationMark
<1>2. CASE /\ ring' = [ring EXCEPT ![id] = @ \cup {written[id] + 1}]
           /\ UNCHANGED dropped
  <2>1. PushFacts(id, {})
    BY <1>1, <1>2 DEF push, PushFacts, TypeOK
  <2> QED BY <2>1
<1>3. ASSUME NEW oldest \in held,
             ring' = [ring EXCEPT ![id] = (@ \ {oldest}) \cup {written[id] + 1, TruncationMark}],
             dropped' = [dropped EXCEPT ![id] = @ \cup {oldest}]
      PROVE  \E lost : PushFacts(id, lost)
  <2>1. oldest \in Chunks /\ oldest \in ring[id]
    BY <1>1, <1>3 DEF Text
  <2>2. oldest # written[id] + 1
    BY <1>1, <2>1, BoundsAssumption DEF OutputInv, TypeOK, Chunks
  <2>3. PushFacts(id, {oldest})
    BY <1>1, <1>3, <2>1, <2>2 DEF push, PushFacts, TypeOK
  <2> QED BY <2>3
<1> QED BY <1>2, <1>3 DEF push

\* A push by a producer that was started keeps the output safe.
LEMMA PushSafe ==
  ASSUME TypeOK, PhaseInv, OutputInv, OutputConserved, NEW id \in Ids, push(id),
         producer[id] # "idle", producer'[id] # "idle",
         \A j \in Ids : j # id => producer'[j] = producer[j],
         UNCHANGED <<entries, phase>>
  PROVE  (OutputInv /\ OutputConserved)'
<1>1. PICK lost : PushFacts(id, lost)
  BY PushEffect
<1>2. /\ written[id] \in Nat /\ settledAt[id] \in Nat
      /\ written'[id] = written[id] + 1
      /\ \A j \in Ids : j # id => written'[j] = written[j]
  BY <1>1, BoundsAssumption DEF TypeOK, PushFacts
<1>3. \A c \in Chunks : c \in Nat
  BY BoundsAssumption DEF Chunks
<1>4. OutputInv'
  BY <1>1, <1>2, <1>3 DEF PushFacts, OutputInv, Live, Settled
<1>5. OutputConserved'
  BY <1>1, <1>2, <1>3, BoundsAssumption
  DEF PushFacts, OutputInv, OutputConserved, Pruned, Kept, Settled, TypeOK, Chunks
<1> QED BY <1>4, <1>5

\* Nothing is written initially.
LEMMA OutputInit == Init => OutputSafe
  BY BoundsAssumption
  DEF Init, OutputSafe, OutputInv, OutputConserved, Pruned, Kept, Live, Settled,
      Terminal, Absent, Chunks

\* Every action keeps the output safe.
LEMMA OutputNext == TypePhase /\ OutputSafe /\ [Next]_vars => OutputSafe'
<1> SUFFICES ASSUME TypePhase, OutputSafe, [Next]_vars PROVE OutputSafe'
  OBVIOUS
<1> USE DEF TypePhase, OutputSafe
<1>1. ASSUME NEW k \in Kinds, NextId(k) PROVE OutputSafe'
  <2>1. OutputInv'
    BY <1>1, BoundsAssumption
    DEF NextId, TypeOK, PhaseInv, OutputInv, OutputConserved, Pruned, Kept, Live,
        Settled, Terminal, output, Chunks, Text, Entry, Absent
  <2>2. OutputConserved'
    BY <1>1, BoundsAssumption
    DEF NextId, TypeOK, PhaseInv, OutputInv, OutputConserved, Pruned, Kept, Live,
        Settled, Terminal, output, Chunks, Text, Entry, Absent, TruncationMark
  <2> QED BY <2>1, <2>2
<1>2. ASSUME NEW id \in Ids, RunRefused(id) PROVE OutputSafe'
  <2>1. OutputInv'
    BY <1>2, BoundsAssumption
    DEF RunRefused, TypeOK, PhaseInv, OutputInv, OutputConserved, Pruned, Kept,
        Live, Settled, Terminal, output, Chunks, Text, Entry, Absent
  <2>2. OutputConserved'
    BY <1>2, BoundsAssumption
    DEF RunRefused, TypeOK, PhaseInv, OutputInv, OutputConserved, Pruned, Kept,
        Live, Settled, Terminal, output, Chunks, Text, Entry, Absent, TruncationMark
  <2> QED BY <2>1, <2>2
<1>3. ASSUME NEW id \in Ids, RunStarted(id) PROVE OutputSafe'
  <2>1. OutputInv'
    BY <1>3, BoundsAssumption
    DEF RunStarted, TypeOK, PhaseInv, OutputInv, OutputConserved, Pruned, Kept,
        Live, Settled, Terminal, output, Chunks, Text, Entry, Absent
  <2>2. OutputConserved'
    BY <1>3, BoundsAssumption
    DEF RunStarted, TypeOK, PhaseInv, OutputInv, OutputConserved, Pruned, Kept,
        Live, Settled, Terminal, output, Chunks, Text, Entry, Absent, TruncationMark
  <2> QED BY <2>1, <2>2
<1>4. ASSUME NEW id \in Ids, NEW s \in Sessions, Insert(id, s) PROVE OutputSafe'
  <2>1. OutputInv'
    BY <1>4, BoundsAssumption
    DEF Insert, TypeOK, PhaseInv, OutputInv, OutputConserved, Pruned, Kept, Live,
        Settled, Terminal, output, Chunks, Text, Entry, Absent
  <2>2. OutputConserved'
    BY <1>4, BoundsAssumption
    DEF Insert, TypeOK, PhaseInv, OutputInv, OutputConserved, Pruned, Kept, Live,
        Settled, Terminal, output, Chunks, Text, Entry, Absent, TruncationMark
  <2> QED BY <2>1, <2>2
<1>5. ASSUME NEW id \in Ids, EmitStarted(id) PROVE OutputSafe'
  <2>1. OutputInv'
    BY <1>5, BoundsAssumption
    DEF EmitStarted, TypeOK, PhaseInv, OutputInv, OutputConserved, Pruned, Kept,
        Live, Settled, Terminal, output, Chunks, Text, Entry, Absent
  <2>2. OutputConserved'
    BY <1>5, BoundsAssumption
    DEF EmitStarted, TypeOK, PhaseInv, OutputInv, OutputConserved, Pruned, Kept,
        Live, Settled, Terminal, output, Chunks, Text, Entry, Absent, TruncationMark
  <2> QED BY <2>1, <2>2
<1>6. ASSUME NEW id \in Ids, Settle(id) PROVE OutputSafe'
  <2>1. SettleFacts(id)
    BY <1>6, SettleEffect
  <2>2. OutputInv'
    BY <2>1
    DEF SettleFacts, TypeOK, PhaseInv, OutputInv, OutputConserved, Pruned, Kept,
        Live, Settled, Terminal
  <2>3. OutputConserved'
    BY <2>1
    DEF SettleFacts, TypeOK, PhaseInv, OutputInv, OutputConserved, Pruned, Kept,
        Live, Settled, Terminal
  <2> QED BY <2>2, <2>3
<1>7. ASSUME NEW id \in Ids, EmitFinished(id) PROVE OutputSafe'
  <2>1. OutputInv'
    BY <1>7, BoundsAssumption
    DEF EmitFinished, TypeOK, PhaseInv, OutputInv, OutputConserved, Pruned, Kept,
        Live, Settled, Terminal, output, Chunks, Text, Entry, Absent
  <2>2. OutputConserved'
    BY <1>7, BoundsAssumption
    DEF EmitFinished, TypeOK, PhaseInv, OutputInv, OutputConserved, Pruned, Kept,
        Live, Settled, Terminal, output, Chunks, Text, Entry, Absent, TruncationMark
  <2> QED BY <2>1, <2>2
<1>8. ASSUME NEW id \in Ids, NEW s \in Sessions, read(id, s) PROVE OutputSafe'
  <2>1. ReadFacts(id)
    BY <1>8, ReadEffect
  <2>2. OutputInv'
    BY <2>1
    DEF ReadFacts, TypeOK, PhaseInv, OutputInv, OutputConserved, Pruned, Kept, Live,
        Settled, Terminal
  <2>3. OutputConserved'
    BY <2>1
    DEF ReadFacts, TypeOK, PhaseInv, OutputInv, OutputConserved, Pruned, Kept, Live,
        Settled, Terminal
  <2> QED BY <2>2, <2>3
<1>9. ASSUME NEW id \in Ids, NEW s \in Sessions, cancel(id, s) PROVE OutputSafe'
  <2>1. OutputInv'
    BY <1>9, BoundsAssumption
    DEF cancel, MarkStopping, TypeOK, PhaseInv, OutputInv, OutputConserved, Pruned,
        Kept, Live, Settled, Terminal, output, Chunks, Text, Entry, Absent
  <2>2. OutputConserved'
    BY <1>9, BoundsAssumption
    DEF cancel, MarkStopping, TypeOK, PhaseInv, OutputInv, OutputConserved, Pruned,
        Kept, Live, Settled, Terminal, output, Chunks, Text, Entry, Absent,
        TruncationMark
  <2> QED BY <2>1, <2>2
<1>10. ASSUME NEW s \in Sessions, cancel_owner(s) PROVE OutputSafe'
  <2>1. OutputInv'
    BY <1>10, BoundsAssumption
    DEF cancel_owner, MarkStopping, TypeOK, PhaseInv, OutputInv, OutputConserved,
        Pruned, Kept, Live, Settled, Terminal, output, Chunks, Text, Entry, Absent
  <2>2. OutputConserved'
    BY <1>10, BoundsAssumption
    DEF cancel_owner, MarkStopping, TypeOK, PhaseInv, OutputInv, OutputConserved,
        Pruned, Kept, Live, Settled, Terminal, output, Chunks, Text, Entry, Absent,
        TruncationMark
  <2> QED BY <2>1, <2>2
<1>11. ASSUME cancel_all PROVE OutputSafe'
  <2>1. OutputInv'
    BY <1>11, BoundsAssumption
    DEF cancel_all, MarkStopping, TypeOK, PhaseInv, OutputInv, OutputConserved,
        Pruned, Kept, Live, Settled, Terminal, output, Chunks, Text, Entry, Absent
  <2>2. OutputConserved'
    BY <1>11, BoundsAssumption
    DEF cancel_all, MarkStopping, TypeOK, PhaseInv, OutputInv, OutputConserved,
        Pruned, Kept, Live, Settled, Terminal, output, Chunks, Text, Entry, Absent,
        TruncationMark
  <2> QED BY <2>1, <2>2
<1>12. ASSUME NEW id \in Ids, CallCancel(id) PROVE OutputSafe'
  <2>1. OutputInv'
    BY <1>12, BoundsAssumption
    DEF CallCancel, TypeOK, PhaseInv, OutputInv, OutputConserved, Pruned, Kept,
        Live, Settled, Terminal, output, Chunks, Text, Entry, Absent
  <2>2. OutputConserved'
    BY <1>12, BoundsAssumption
    DEF CallCancel, TypeOK, PhaseInv, OutputInv, OutputConserved, Pruned, Kept,
        Live, Settled, Terminal, output, Chunks, Text, Entry, Absent, TruncationMark
  <2> QED BY <2>1, <2>2
<1>13. ASSUME NEW id \in Ids, mark_reported(id) PROVE OutputSafe'
  <2>1. OutputInv'
    BY <1>13, BoundsAssumption
    DEF mark_reported, TypeOK, PhaseInv, OutputInv, OutputConserved, Pruned, Kept,
        Live, Settled, Terminal, output, Chunks, Text, Entry, Absent
  <2>2. OutputConserved'
    BY <1>13, BoundsAssumption
    DEF mark_reported, TypeOK, PhaseInv, OutputInv, OutputConserved, Pruned, Kept,
        Live, Settled, Terminal, output, Chunks, Text, Entry, Absent, TruncationMark
  <2> QED BY <2>1, <2>2
<1>14. ASSUME NEW S \in SUBSET Ids, prune(S) PROVE OutputSafe'
  <2>1. OutputInv'
    BY <1>14, BoundsAssumption
    DEF prune, TypeOK, PhaseInv, OutputInv, OutputConserved, Pruned, Kept, Live,
        Settled, Terminal, output, Chunks, Text, Entry, Absent
  <2>2. OutputConserved'
    BY <1>14, BoundsAssumption
    DEF prune, TypeOK, PhaseInv, OutputInv, OutputConserved, Pruned, Kept, Live,
        Settled, Terminal, output, Chunks, Text, Entry, Absent, TruncationMark
  <2> QED BY <2>1, <2>2
<1>15. ASSUME NEW id \in Ids, BashWrites(id) PROVE OutputSafe'
  BY <1>15, PushSafe DEF BashWrites
<1>16. ASSUME NEW id \in Ids, NEW o \in Outcomes, BashEnds(id, o) PROVE OutputSafe'
  <2>1. OutputInv'
    BY <1>16, BoundsAssumption
    DEF BashEnds, TypeOK, PhaseInv, OutputInv, OutputConserved, Pruned, Kept, Live,
        Settled, Terminal, output, Chunks, Text, Entry, Absent
  <2>2. OutputConserved'
    BY <1>16, BoundsAssumption
    DEF BashEnds, TypeOK, PhaseInv, OutputInv, OutputConserved, Pruned, Kept, Live,
        Settled, Terminal, output, Chunks, Text, Entry, Absent, TruncationMark
  <2> QED BY <2>1, <2>2
<1>17. ASSUME NEW id \in Ids, NEW o \in Outcomes, AgentEnds(id, o) PROVE OutputSafe'
  <2>1. CASE o = "completed"
    <3>1. /\ push(id) /\ producer[id] # "idle" /\ producer'[id] # "idle"
          /\ \A j \in Ids : j # id => producer'[j] = producer[j]
          /\ UNCHANGED <<entries, phase>>
      BY <1>17, <2>1 DEF AgentEnds, TypeOK
    <3> QED BY <3>1, PushSafe
  <2>2. CASE o # "completed"
    BY <1>17, <2>2
    DEF AgentEnds, output, TypeOK, PhaseInv, OutputInv, OutputConserved, Pruned,
        Kept, Live, Settled, Terminal, Outcomes
  <2> QED BY <2>1, <2>2
<1>18. CASE UNCHANGED vars
  BY <1>18 DEF vars, output, OutputInv, OutputConserved, Pruned, Kept, Live, Settled
<1> QED
  BY <1>1, <1>2, <1>3, <1>4, <1>5, <1>6, <1>7, <1>8, <1>9,
     <1>10, <1>11, <1>12, <1>13, <1>14, <1>15, <1>16, <1>17, <1>18
  DEF Next, Start, SettlementTask, Consumer, Producer

\* Nothing a job wrote before it settled is lost or read twice: not by reads
\* racing the settlement, not by a full ring without a truncation mark.
THEOREM OutputConservedHolds == Spec => []OutputConserved
<1>1. Spec => []TypePhase
  BY TypePhaseInit, TypePhaseNext, PTL DEF Spec
<1>2. Spec => []OutputSafe
  BY <1>1, OutputInit, OutputNext, PTL DEF Spec
<1> QED BY <1>2, PTL DEF OutputSafe

-----------------------------------------------------------------------------
(* Refinement.                                                             *)

\* One record's lifecycle state either stays or changes legally.
Allowed(x, y) == x = y \/ <<x, y>> \in Lifecycle!Legal

LegalMove == \A j \in Ids : Allowed(LifecycleState[j], LifecycleState'[j])

\* Every action moves every record legally.
LEMMA LifecycleStep ==
  TypePhase /\ StopInv /\ [Next]_vars => LegalMove
<1> SUFFICES ASSUME TypePhase, StopInv, [Next]_vars
             PROVE  LegalMove
  OBVIOUS
<1> USE DEF TypePhase
<1>1. ASSUME NEW k \in Kinds, NextId(k) PROVE LegalMove
  <2>1. /\ <<k, seq[k] + 1>> \in Ids
        /\ phase[<<k, seq[k] + 1>>] = "unused"
    BY <1>1, BoundsAssumption DEF NextId, Ids, TypeOK, PhaseInv
  <2>2. \A j \in Ids : LifecycleState'[j] = LifecycleState[j]
    BY <1>1, <2>1 DEF NextId, TypeOK, LifecycleState
  <2> QED BY <2>2 DEF Allowed, LegalMove
<1>2. ASSUME NEW id \in Ids, RunRefused(id) PROVE LegalMove
  BY <1>2 DEF RunRefused, TypeOK, PhaseInv, Live, Settled, Entry, Absent, Ids,
     LifecycleState, LegalMove, Allowed, Lifecycle!Legal, Lifecycle!Terminal, Terminal
<1>3. ASSUME NEW id \in Ids, RunStarted(id) PROVE LegalMove
  BY <1>3 DEF RunStarted, TypeOK, PhaseInv, Live, Settled, Entry, Absent, Ids,
     LifecycleState, LegalMove, Allowed, Lifecycle!Legal, Lifecycle!Terminal, Terminal
<1>4. ASSUME NEW id \in Ids, NEW s \in Sessions, Insert(id, s) PROVE LegalMove
  BY <1>4 DEF Insert, TypeOK, PhaseInv, Live, Settled, Entry, Absent, Ids,
     LifecycleState, LegalMove, Allowed, Lifecycle!Legal, Lifecycle!Terminal, Terminal
<1>5. ASSUME NEW id \in Ids, EmitStarted(id) PROVE LegalMove
  BY <1>5 DEF EmitStarted, TypeOK, PhaseInv, Live, Settled, Entry, Absent, Ids,
     LifecycleState, LegalMove, Allowed, Lifecycle!Legal, Lifecycle!Terminal, Terminal
<1>6. ASSUME NEW id \in Ids, Settle(id) PROVE LegalMove
  <2>1. SettleFacts(id)
    BY <1>6, SettleEffect
  <2>2. /\ entries[id].status = "stopping" => entries'[id].status \in {"killed", "failed"}
        /\ entries[id].status = "running" => entries'[id].status \in {"completed", "failed"}
        /\ entries[id].status \in {"running", "stopping"}
    BY <2>1 DEF SettleFacts, StopInv, Live, StopRequested, SettledStatus, Outcomes
  <2>3. Allowed(LifecycleState[id], LifecycleState'[id])
    BY <2>2 DEF LifecycleState, LegalMove, Allowed, Lifecycle!Legal, Lifecycle!Terminal, Terminal
  <2>4. \A j \in Ids : j # id => LifecycleState'[j] = LifecycleState[j]
    BY <2>1 DEF SettleFacts, LifecycleState, TypeOK
  <2> QED BY <2>3, <2>4 DEF Allowed, LegalMove
<1>7. ASSUME NEW id \in Ids, EmitFinished(id) PROVE LegalMove
  BY <1>7 DEF EmitFinished, TypeOK, PhaseInv, Live, Settled, Entry, Absent, Ids,
     LifecycleState, LegalMove, Allowed, Lifecycle!Legal, Lifecycle!Terminal, Terminal
<1>8. ASSUME NEW id \in Ids, NEW s \in Sessions, read(id, s) PROVE LegalMove
  <2>1. ReadFacts(id)
    BY <1>8, ReadEffect
  <2> QED BY <2>1 DEF ReadFacts, LifecycleState, LegalMove, Allowed
<1>9. ASSUME NEW id \in Ids, NEW s \in Sessions, cancel(id, s) PROVE LegalMove
  BY <1>9 DEF cancel, MarkStopping, TypeOK, PhaseInv, Live, Settled, Entry, Absent, Ids,
     LifecycleState, LegalMove, Allowed, Lifecycle!Legal, Lifecycle!Terminal, Terminal
<1>10. ASSUME NEW s \in Sessions, cancel_owner(s) PROVE LegalMove
  BY <1>10
  DEF cancel_owner, MarkStopping, TypeOK, PhaseInv, Live, Settled, Entry, Absent, Ids,
     LifecycleState, LegalMove, Allowed, Lifecycle!Legal, Lifecycle!Terminal, Terminal
<1>11. ASSUME cancel_all PROVE LegalMove
  BY <1>11
  DEF cancel_all, MarkStopping, TypeOK, PhaseInv, Live, Settled, Entry, Absent, Ids,
     LifecycleState, LegalMove, Allowed, Lifecycle!Legal, Lifecycle!Terminal, Terminal
<1>12. ASSUME NEW id \in Ids, CallCancel(id) PROVE LegalMove
  BY <1>12 DEF CallCancel, TypeOK, PhaseInv, Live, Settled, Entry, Absent, Ids,
     LifecycleState, LegalMove, Allowed, Lifecycle!Legal, Lifecycle!Terminal, Terminal
<1>13. ASSUME NEW id \in Ids, mark_reported(id) PROVE LegalMove
  BY <1>13 DEF mark_reported, TypeOK, PhaseInv, Live, Settled, Entry, Absent, Ids,
     LifecycleState, LegalMove, Allowed, Lifecycle!Legal, Lifecycle!Terminal, Terminal
<1>14. ASSUME NEW S \in SUBSET Ids, prune(S) PROVE LegalMove
  BY <1>14 DEF prune, TypeOK, PhaseInv, Live, Settled, Entry, Absent, Ids,
     LifecycleState, LegalMove, Allowed, Lifecycle!Legal, Lifecycle!Terminal, Terminal
<1>15. ASSUME NEW id \in Ids, BashWrites(id) PROVE LegalMove
  BY <1>15 DEF BashWrites, TypeOK, PhaseInv, Live, Settled, Entry, Absent, Ids,
     LifecycleState, LegalMove, Allowed, Lifecycle!Legal, Lifecycle!Terminal, Terminal
<1>16. ASSUME NEW id \in Ids, NEW o \in Outcomes, BashEnds(id, o) PROVE LegalMove
  BY <1>16 DEF BashEnds, TypeOK, PhaseInv, Live, Settled, Entry, Absent, Ids,
     LifecycleState, LegalMove, Allowed, Lifecycle!Legal, Lifecycle!Terminal, Terminal
<1>17. ASSUME NEW id \in Ids, NEW o \in Outcomes, AgentEnds(id, o) PROVE LegalMove
  BY <1>17 DEF AgentEnds, TypeOK, PhaseInv, Live, Settled, Entry, Absent, Ids,
     LifecycleState, LegalMove, Allowed, Lifecycle!Legal, Lifecycle!Terminal, Terminal
<1>18. CASE UNCHANGED vars
  BY <1>18 DEF vars, LifecycleState, LegalMove, Allowed
<1> QED
  BY <1>1, <1>2, <1>3, <1>4, <1>5, <1>6, <1>7, <1>8, <1>9,
     <1>10, <1>11, <1>12, <1>13, <1>14, <1>15, <1>16, <1>17, <1>18
  DEF Next, Start, SettlementTask, Consumer, Producer

\* The registry implements JobLifecycle: a record is created running, reaches one
\* terminal status, and keeps it until it is pruned.
THEOREM ImplementsLifecycle == Spec => LifecycleSpec
<1>1. Init => Lifecycle!Init
  BY DEF Init, Lifecycle!Init, LifecycleState, Absent
<1>2. TypePhase /\ TypePhase' /\ StopInv /\ [Next]_vars => [Lifecycle!Next]_LifecycleState
  <2> SUFFICES ASSUME TypePhase, TypePhase', StopInv, [Next]_vars
               PROVE  Lifecycle!Next
    OBVIOUS
  <2>1. LegalMove
    BY LifecycleStep
  <2>2. LifecycleState' \in [Ids -> Lifecycle!States]
    <3>1. TypeOK' => LifecycleState' \in [Ids -> Lifecycle!States]
      BY
      DEF TypeOK, LifecycleState, Lifecycle!States, Lifecycle!Terminal, Entry,
          Statuses,
             Terminal
    <3> QED BY <3>1 DEF TypePhase
  <2> QED BY <2>1, <2>2 DEF Lifecycle!Next, Allowed, LegalMove
<1>3. Spec => [](TypePhase /\ StopInv)
  <2>1. Spec => []TypePhase
    BY TypePhaseInit, TypePhaseNext, PTL DEF Spec
  <2>2. Spec => [](StopInv /\ StopIsHonest)
    BY <2>1, StopInit, StopNext, PTL DEF Spec
  <2> QED BY <2>1, <2>2, PTL
<1> QED BY <1>1, <1>2, <1>3, PTL DEF Spec, LifecycleSpec, Lifecycle!Spec

=============================================================================
