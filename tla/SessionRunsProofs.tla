-------------------------- MODULE SessionRunsProofs -------------------------
(***************************************************************************)
(* Proofs about SessionRuns: types, and that running_agents never forgets  *)
(* a run at work, for any number of sessions, commands and stops.          *)
(***************************************************************************)
EXTENDS SessionRuns, TLAPS

\* No command of the program has more than seven steps.
LEMMA ProgramLength ==
  ASSUME NEW k \in DOMAIN Program
  PROVE  Len(Program[k]) \in 1..7
  BY DEF Program

\* A command at one of its steps has a session, and can take one more step.
LEMMA AtStep ==
  ASSUME TypeOK, NEW r \in Runs, NEW step, At(r, step)
  PROVE  /\ cmd[r].kind \in Commands
         /\ Sess(r) \in Sessions
         /\ cmd[r].pc + 1 \in 1..8
  <1>1. cmd[r].kind \in DOMAIN Program
    BY CommandsAssumption DEF At
  <1>2. Len(Program[cmd[r].kind]) \in 1..7
    BY <1>1, ProgramLength
  <1>3. cmd[r] \in Calls /\ cmd[r] # Idle
    <2>1. cmd[r].pc # 0
      BY <1>2 DEF At
    <2> QED BY <2>1 DEF TypeOK, Idle
  <1>4. cmd[r].pc \in 1..7
    <2>1. cmd[r].pc \in 1..Len(Program[cmd[r].kind])
      BY DEF At
    <2>2. \A n \in 1..7 : \A m \in 1..n : m \in 1..7
      OBVIOUS
    <2> QED BY <1>2, <2>1, <2>2, Zenon
  <1> QED BY <1>3, <1>4 DEF At, Sess, Calls

\* Marking a command as returned, or as one step further, keeps its type.
LEMMA CommandMoves ==
  ASSUME TypeOK, NEW r \in Runs, NEW step, At(r, step), Advance(r) \/ Return(r)
  PROVE  cmd' \in [Runs -> Calls]
  <1>1. cmd[r] \in [kind : Commands, session : Sessions, pc : 1..8]
    BY AtStep, CommandsAssumption DEF TypeOK, Calls, At, Idle, Program
  <1>2. cmd[r].pc + 1 \in 1..8
    BY AtStep
  <1>3. [cmd[r] EXCEPT !.pc = @ + 1] \in Calls /\ [cmd[r] EXCEPT !.pc = 8] \in Calls
    BY <1>1, <1>2 DEF Calls
  <1> QED BY <1>3 DEF TypeOK, Advance, Return, Over


\* The wrapper and the agent of a run exist only once its command is under
\* way, and a platform run has no wrapper.
RunInv ==
  \A r \in Runs :
    /\ outer[r] # "none" => cmd[r].kind \in Commands \ {"platform"}
    /\ inner[r] # "none" => cmd[r].kind \in Commands

\* The session of a command that was called is one of the sessions.
LEMMA CalledSession ==
  ASSUME TypeOK, NEW r \in Runs, cmd[r].kind \in Commands
  PROVE  Sess(r) \in Sessions
  BY CommandsAssumption DEF TypeOK, Calls, Idle, Sess, Program

\* The keys of the maps: a run, or none.
LEMMA Handles ==
  /\ None \in 0..MaxRuns
  /\ \A r \in Runs : r \in 0..MaxRuns /\ r # None
  /\ \A h \in 0..MaxRuns : h # None => h \in Runs
  BY SizesAssumption DEF None, Runs

OuterStates ==
  {"none", "spawned", "live", "aborted", "dropping", "dropped", "gone"}

\* Aborting a handle moves at most its own wrapper, never back to work.
LEMMA AbortEffect ==
  ASSUME TypeOK, NEW h \in Runs, Abort(h)
  PROVE  /\ outer' \in [Runs -> OuterStates]
         /\ killing' \subseteq Runs
         /\ \A r \in Runs : outer[r] = "none" => outer'[r] = "none"
         /\ ~IsPlatform(h) => outer'[h] \notin {"spawned", "live"}
  <1>1. CASE IsPlatform(h)
    BY <1>1 DEF Abort, TypeOK, OuterStates
  <1>2. CASE ~IsPlatform(h)
    BY <1>2 DEF Abort, TypeOK, OuterStates
  <1> QED BY <1>1, <1>2

LEMMA TypeStep ==
  ASSUME TypeOK, RunInv, [Next]_vars
  PROVE  TypeOK'
  <1> USE Handles
  <1>1. ASSUME NEW r \in Runs, NEW s \in Sessions, NEW k \in Commands, Call(r, s, k)
        PROVE  TypeOK'
    <2>1. [kind |-> k, session |-> s, pc |-> 1] \in Calls
      BY DEF Calls
    <2> QED BY <1>1, <2>1 DEF Call, TypeOK, maps, signals, stops
  <1>2. ASSUME NEW r \in Runs, StartStep(r)
        PROVE  TypeOK'
    <2>0. \A step : At(r, step) => Sess(r) \in Sessions
      BY AtStep
    <2>1. CASE StoreTurn(r)
      <3>1. cmd' \in [Runs -> Calls]
        BY <2>1, CommandMoves DEF StoreTurn
      <3> QED BY <2>1, <3>1 DEF StoreTurn, TypeOK, maps, signals, stops
    <2>2. CASE NothingToRerun(r)
      <3>1. cmd' \in [Runs -> Calls]
        BY <2>2, CommandMoves DEF NothingToRerun
      <3> QED BY <2>2, <3>1 DEF NothingToRerun, TypeOK, maps, signals, stops
    <2>3. CASE ClearDetached(r)
      <3>1. cmd' \in [Runs -> Calls]
        BY <2>3, CommandMoves DEF ClearDetached
      <3>2. outer' \in [Runs -> OuterStates] /\ killing' \subseteq Runs
        <4>1. CASE detached[Sess(r)] = None
          BY <2>3, <4>1 DEF ClearDetached, TypeOK, OuterStates
        <4>2. CASE detached[Sess(r)] # None
          BY <2>3, <2>0, <4>2, AbortEffect DEF ClearDetached, TypeOK
        <4> QED BY <4>1, <4>2
      <3>3. detached' \in [Sessions -> 0..MaxRuns]
        BY <2>3 DEF ClearDetached, TypeOK
      <3> QED BY <2>3, <3>1, <3>2, <3>3 DEF ClearDetached, TypeOK, signals, stops, OuterStates
    <2>4. CASE QueueReminder(r)
      <3>1. cmd' \in [Runs -> Calls]
        BY <2>4, CommandMoves DEF QueueReminder
      <3> QED BY <2>4, <3>1 DEF QueueReminder, TypeOK, maps, signals, stops
    <2>5. CASE Gate(r)
      <3>1. cmd' \in [Runs -> Calls]
        BY <2>5, CommandMoves DEF Gate
      <3> QED BY <2>5, <3>1 DEF Gate, TypeOK, maps, signals, stops
    <2>6. CASE Replace(r)
      <3>1. cmd' \in [Runs -> Calls]
        BY <2>6, CommandMoves DEF Replace
      <3>2. outer' \in [Runs -> OuterStates] /\ killing' \subseteq Runs
        <4>1. CASE running[Sess(r)] = None
          BY <2>6, <4>1 DEF Replace, TypeOK, OuterStates
        <4>2. CASE running[Sess(r)] # None
          BY <2>6, <2>0, <4>2, AbortEffect DEF Replace, TypeOK
        <4> QED BY <4>1, <4>2
      <3>3. raised' \subseteq Runs /\ running' \in [Sessions -> 0..MaxRuns]
        BY <2>6, <2>0 DEF Replace, TypeOK
      <3> QED BY <2>6, <3>1, <3>2, <3>3 DEF Replace, TypeOK, stops, OuterStates
    <2>7. CASE InsertSignal(r)
      <3>1. cmd' \in [Runs -> Calls]
        BY <2>7, CommandMoves DEF InsertSignal
      <3> QED BY <2>7, <3>1 DEF InsertSignal, TypeOK, maps, signals, stops
    <2>8. CASE BadConfig(r)
      <3>1. cmd' \in [Runs -> Calls]
        BY <2>8, CommandMoves DEF BadConfig
      <3> QED BY <2>8, <3>1 DEF BadConfig, TypeOK, maps, signals, stops
    <2>9. CASE Spawn(r)
      <3>1. cmd' \in [Runs -> Calls]
        BY <2>9, CommandMoves DEF Spawn
      <3> QED BY <2>9, <3>1 DEF Spawn, TypeOK, maps, signals, stops
    <2>10. CASE InsertHandle(r)
      <3>1. cmd' \in [Runs -> Calls]
        BY <2>10, CommandMoves DEF InsertHandle
      <3>2. unseen' \subseteq Runs \X Runs
        BY <2>10 DEF InsertHandle, TypeOK
      <3>3. running' \in [Sessions -> 0..MaxRuns]
        BY <2>10 DEF InsertHandle, TypeOK
      <3> QED BY <2>10, <3>1, <3>2, <3>3 DEF InsertHandle, TypeOK, maps, signals, stops
    <2> QED BY <1>2, <2>1, <2>2, <2>3, <2>4, <2>5, <2>6, <2>7, <2>8, <2>9,
               <2>10 DEF StartStep
  <1>3. ASSUME NEW r \in Runs, RunStep(r)
        PROVE  TypeOK'
    <2>0. (outer[r] # "none" \/ inner[r] # "none") => Sess(r) \in Sessions
      BY CalledSession DEF RunInv
    <2>1. CASE OuterStarts(r)
      BY <2>1 DEF OuterStarts, TypeOK, maps, signals, stops
    <2>2. CASE RunFails(r)
      BY <2>2 DEF RunFails, TypeOK, maps, signals, stops
    <2>3. CASE RegisterQueue(r)
      BY <2>3 DEF RegisterQueue, TypeOK, maps, signals, stops
    <2>4. CASE AcquireSignal(r)
      <3>1. signalOf' \in [Sessions -> 0..MaxRuns] /\ signalOf'[Sess(r)] \in 0..MaxRuns
        BY <2>4, <2>0 DEF AcquireSignal, TypeOK
      <3> QED BY <2>4, <3>1 DEF AcquireSignal, TypeOK, stops
    <2>5. CASE LoopEnds(r)
      BY <2>5 DEF LoopEnds, TypeOK, maps, signals, stops
    <2>6. CASE RemoveSignal(r)
      BY <2>6 DEF RemoveSignal, TypeOK, maps, signals, stops
    <2>7. CASE Persist(r)
      BY <2>7 DEF Persist, TypeOK, maps, signals, stops
    <2>8. CASE PlatformKilled(r)
      BY <2>8 DEF PlatformKilled, TypeOK, maps, signals, stops
    <2>9. CASE OuterJoins(r)
      BY <2>9 DEF OuterJoins, TypeOK, maps, signals, stops
    <2>10. CASE OuterDropped(r)
      BY <2>10 DEF OuterDropped, TypeOK, maps, signals, stops
    <2>11. CASE GuardHandle(r)
      BY <2>11 DEF GuardHandle, TypeOK, maps, signals, stops
    <2>12. CASE GuardRest(r)
      BY <2>12 DEF GuardRest, TypeOK, maps, signals, stops
    <2> QED BY <1>3, <2>1, <2>2, <2>3, <2>4, <2>5, <2>6, <2>7, <2>8, <2>9,
               <2>10, <2>11, <2>12 DEF RunStep
  <1>4. ASSUME NEW s \in Sessions,
               StopBegins(s) \/ StopStep(s) \/ PlatformStop(s) \/ Recover(s)
        PROVE  TypeOK'
    <2>1. CASE StopBegins(s)
      <3>1. raised' \subseteq Runs
        BY <2>1 DEF StopBegins, TypeOK
      <3>2. stopCount' \in 0..MaxStops
        BY <2>1, SizesAssumption DEF StopBegins, TypeOK
      <3> QED BY <2>1, <3>1, <3>2 DEF StopBegins, TypeOK, maps
    <2>2. CASE StopSeesEnd(s)
      BY <2>2 DEF StopSeesEnd, StopReturns, TypeOK, maps, signals, stops
    <2>3. CASE StopTimesOut(s)
      BY <2>3 DEF StopTimesOut, TypeOK, maps, signals, stops
    <2>4. CASE StopDetaches(s)
      BY <2>4 DEF StopDetaches, StopReturns, TypeOK, maps, signals, stops
    <2>5. CASE PlatformStop(s)
      BY <2>5 DEF PlatformStop, TypeOK, maps, signals, stops
    <2>6. CASE Recover(s)
      BY <2>6 DEF Recover, TypeOK, maps, signals, stops
    <2> QED BY <1>4, <2>1, <2>2, <2>3, <2>4, <2>5, <2>6 DEF StopStep
  <1>5. CASE UNCHANGED vars
    BY <1>5 DEF vars, maps, signals, stops, TypeOK
  <1> QED BY <1>1, <1>2, <1>3, <1>4, <1>5 DEF Next

LEMMA RunInvStep ==
  ASSUME TypeOK, RunInv, [Next]_vars
  PROVE  RunInv'
  <1> SUFFICES ASSUME NEW q \in Runs
               PROVE  /\ outer'[q] # "none" => cmd'[q].kind \in Commands \ {"platform"}
                      /\ inner'[q] # "none" => cmd'[q].kind \in Commands
    BY DEF RunInv
  <1> USE DEF RunInv
  <1>1. ASSUME NEW r \in Runs, NEW s \in Sessions, NEW k \in Commands, Call(r, s, k)
        PROVE  /\ outer'[q] # "none" => cmd'[q].kind \in Commands \ {"platform"}
               /\ inner'[q] # "none" => cmd'[q].kind \in Commands
    <2>1. "none" \notin Commands
      BY CommandsAssumption DEF Program
    <2>2. outer[r] = "none" /\ inner[r] = "none"
      BY <1>1, <2>1 DEF Call, Idle
    <2> QED BY <1>1, <2>2 DEF Call, TypeOK
  <1>2. ASSUME NEW r \in Runs, StartStep(r)
        PROVE  /\ outer'[q] # "none" => cmd'[q].kind \in Commands \ {"platform"}
               /\ inner'[q] # "none" => cmd'[q].kind \in Commands
    <2>0. Advance(r) \/ Return(r)
      BY <1>2 DEF StartStep, StoreTurn, NothingToRerun, ClearDetached, QueueReminder, Gate,
                  Replace, InsertSignal, BadConfig, Spawn, InsertHandle
    <2>1. cmd'[q].kind = cmd[q].kind
      <3>1. cmd[q] \in Calls /\ cmd[q] = [kind |-> cmd[q].kind, session |-> cmd[q].session,
                                         pc |-> cmd[q].pc]
        BY DEF TypeOK, Calls, Idle
      <3>2. q # r => cmd'[q] = cmd[q]
        BY <2>0 DEF Advance, Return, TypeOK
      <3>3. q = r => \/ cmd'[q] = [cmd[q] EXCEPT !.pc = cmd[q].pc + 1]
                     \/ cmd'[q] = [cmd[q] EXCEPT !.pc = Over]
        BY <2>0 DEF Advance, Return, TypeOK
      <3> QED BY <3>1, <3>2, <3>3
    <2>2. CASE Spawn(r)
      BY <2>1, <2>2, AtStep DEF Spawn, IsPlatform, TypeOK
    <2>3. CASE ClearDetached(r)
      BY <2>1, <2>3, AtStep, AbortEffect, Handles DEF ClearDetached, TypeOK
    <2>4. CASE Replace(r)
      BY <2>1, <2>4, AtStep, AbortEffect, Handles DEF Replace, TypeOK
    <2>5. CASE ~(Spawn(r) \/ ClearDetached(r) \/ Replace(r))
      BY <1>2, <2>1, <2>5 DEF StartStep, StoreTurn, NothingToRerun, QueueReminder, Gate,
                              InsertSignal, BadConfig, InsertHandle
    <2> QED BY <2>2, <2>3, <2>4, <2>5
  <1>3. ASSUME NEW r \in Runs, RunStep(r)
        PROVE  /\ outer'[q] # "none" => cmd'[q].kind \in Commands \ {"platform"}
               /\ inner'[q] # "none" => cmd'[q].kind \in Commands
    <2>1. cmd' = cmd
      BY <1>3 DEF RunStep, OuterStarts, RunFails, RegisterQueue, AcquireSignal, LoopEnds,
                  RemoveSignal, Persist, PlatformKilled, OuterJoins, OuterDropped,
                  GuardHandle, GuardRest
    <2>2. /\ outer'[q] # "none" => outer[q] # "none"
          /\ inner'[q] # "none" => inner[q] # "none" \/ outer[q] # "none"
      BY <1>3 DEF RunStep, OuterStarts, RunFails, RegisterQueue, AcquireSignal, LoopEnds,
                  RemoveSignal, Persist, PlatformKilled, OuterJoins, OuterDropped,
                  GuardHandle, GuardRest, Alive, TypeOK
    <2> QED BY <2>1, <2>2
  <1>4. ASSUME NEW s \in Sessions,
               StopBegins(s) \/ StopStep(s) \/ PlatformStop(s) \/ Recover(s)
        PROVE  UNCHANGED <<cmd, outer, inner>>
    BY <1>4 DEF StopBegins, StopStep, StopSeesEnd, StopTimesOut, StopDetaches, PlatformStop,
                Recover
  <1>5. CASE UNCHANGED vars
    BY <1>5 DEF vars
  <1> QED BY <1>1, <1>2, <1>3, <1>4, <1>5 DEF Next

LEMMA InitInv == Init => TypeOK /\ RunInv
  <1> SUFFICES ASSUME Init PROVE TypeOK /\ RunInv
    OBVIOUS
  <1>1. cmd \in [Runs -> Calls]
    BY DEF Init, Calls
  <1>2. stopCount \in 0..MaxStops
    BY SizesAssumption DEF Init
  <1>3. TypeOK
    BY <1>1, <1>2, Handles DEF Init, TypeOK
  <1>4. RunInv
    BY DEF Init, RunInv
  <1> QED BY <1>3, <1>4

(***************************************************************************)
(* Types are kept for any sessions, commands, runs and stops.              *)
(***************************************************************************)
THEOREM SessionTypes == Spec => []TypeOK
  <1>1. Init => TypeOK /\ RunInv
    BY InitInv
  <1>2. TypeOK /\ RunInv /\ [Next]_vars => TypeOK' /\ RunInv'
    BY TypeStep, RunInvStep
  <1> QED BY <1>1, <1>2, PTL DEF Spec

\* A command gets past its gate only at a step that finds the session free, or frees it.
LEMMA AdmittedStep ==
  ASSUME TypeOK, [Next]_vars, NEW q \in Runs, Admitted(q)'
  PROVE  /\ Sess(q)' = Sess(q) \/ ~Admitted(q)
         /\ Admitted(q) \/ running'[Sess(q)'] = None
  <1>0. cmd \in [Runs -> Calls] /\ "none" \notin Commands
    BY CommandsAssumption DEF TypeOK, Program
  <1>1. CASE cmd'[q] = cmd[q]
    BY <1>1 DEF Admitted, At, Sess
  <1>2. ASSUME NEW s \in Sessions, NEW k \in Commands, Call(q, s, k)
        PROVE  FALSE
    <2>1. cmd'[q] = [kind |-> k, session |-> s, pc |-> 1]
      BY <1>0, <1>2 DEF Call
    <2>2. cmd'[q].kind = k /\ cmd'[q].pc = 1
      BY <2>1
    <2>3. k \in DOMAIN Program
      BY CommandsAssumption
    <2> QED BY <2>2, <2>3 DEF Admitted, At, Program
  <1>3. ASSUME StartStep(q)
        PROVE  /\ Sess(q)' = Sess(q)
               /\ Admitted(q) \/ running'[Sess(q)'] = None
    <2>1. cmd[q].kind \in Commands /\ cmd[q] # Idle
      BY <1>0, <1>3 DEF StartStep, StoreTurn, NothingToRerun, ClearDetached, QueueReminder,
                        Gate, Replace, InsertSignal, BadConfig, Spawn, InsertHandle, At, Idle
    <2>2. /\ cmd[q] \in [kind : Commands, session : Sessions, pc : 1..8]
      BY <1>0, <2>1 DEF Calls
    <2>3. \/ cmd'[q] = [cmd[q] EXCEPT !.pc = cmd[q].pc + 1]
          \/ cmd'[q] = [cmd[q] EXCEPT !.pc = 8]
      BY <1>0, <1>3 DEF StartStep, StoreTurn, NothingToRerun, ClearDetached, QueueReminder,
                        Gate, Replace, InsertSignal, BadConfig, Spawn, InsertHandle, Advance,
                        Return, Over
    <2>4. cmd'[q].kind = cmd[q].kind /\ cmd'[q].session = cmd[q].session
      BY <2>2, <2>3
    <2>5. Sess(q)' = Sess(q)
      BY <2>4 DEF Sess
    <2>6. Admitted(q) \/ running'[Sess(q)] = None
      <3>1. CASE cmd'[q].pc = 8
        <4>1. Len(Program[cmd'[q].kind]) \in 1..7
          BY <2>1, <2>4, CommandsAssumption, ProgramLength
        <4>2. \A n \in 1..7 : 8 \notin 1..n
          OBVIOUS
        <4>3. cmd'[q].pc \notin 1..Len(Program[cmd'[q].kind])
          BY <3>1, <4>1, <4>2, Zenon
        <4> QED BY <4>3 DEF Admitted, At
      <3>2. CASE cmd'[q].pc # 8
        <4>1. cmd'[q].pc = cmd[q].pc + 1
          BY <2>2, <2>3, <3>2
        <4>2. CASE Gate(q)
          <5>1. running[Sess(q)] = None
            BY <4>2, <4>1, <2>2, <2>3, <3>2, <1>0 DEF Gate, Return, Over
          <5> QED BY <5>1, <4>2 DEF Gate, maps
        <4>3. CASE Replace(q)
          BY <4>3, <2>2 DEF Replace, Sess, TypeOK
        <4>4. CASE ~Gate(q) /\ ~Replace(q)
          <5>1. \E step \in {"store", "clear", "queue", "signal", "spawn", "insert"} : At(q, step)
            BY <1>3, <4>4 DEF StartStep, StoreTurn, NothingToRerun, ClearDetached, QueueReminder,
                              InsertSignal, BadConfig, Spawn, InsertHandle
          <5>2. PICK step \in {"store", "clear", "queue", "signal", "spawn", "insert"} : At(q, step)
            BY <5>1
          <5> DEFINE n == cmd[q].pc
          <5>3. n \in 1..8
            BY <2>2
          <5>4. Program[cmd[q].kind][n] = step /\ n \in 1..Len(Program[cmd[q].kind])
            BY <5>2 DEF At
          <5>5. Admitted(q)
            <6>1. CASE cmd[q].kind = "send"
              BY <6>1, <5>2, <5>3, <5>4, <4>1, <2>1, <2>4 DEF Admitted, At, Program
            <6>2. CASE cmd[q].kind = "rerun"
              BY <6>2, <5>2, <5>3, <5>4, <4>1, <2>1, <2>4 DEF Admitted, At, Program
            <6>3. CASE cmd[q].kind = "reminder"
              BY <6>3, <5>2, <5>3, <5>4, <4>1, <2>1, <2>4 DEF Admitted, At, Program
            <6>4. CASE cmd[q].kind = "platform"
              BY <6>4, <5>2, <5>3, <5>4, <4>1, <2>1, <2>4 DEF Admitted, At, Program
            <6> QED BY <6>1, <6>2, <6>3, <6>4, <2>1, CommandsAssumption DEF Program
          <5> QED BY <5>5
        <4> QED BY <4>2, <4>3, <4>4
      <3> QED BY <3>1, <3>2
    <2> QED BY <2>5, <2>6
  <1>4. \/ cmd'[q] = cmd[q]
        \/ StartStep(q)
        \/ \E s \in Sessions, k \in Commands : Call(q, s, k)
    <2>1. ASSUME NEW r \in Runs, NEW s \in Sessions, NEW k \in Commands, Call(r, s, k), r # q
          PROVE  cmd'[q] = cmd[q]
      BY <1>0, <2>1 DEF Call
    <2>2. ASSUME NEW r \in Runs, StartStep(r), r # q
          PROVE  cmd'[q] = cmd[q]
      BY <1>0, <2>2 DEF StartStep, StoreTurn, NothingToRerun, ClearDetached, QueueReminder,
                        Gate, Replace, InsertSignal, BadConfig, Spawn, InsertHandle, Advance,
                        Return
    <2>3. ASSUME NEW r \in Runs, RunStep(r)
          PROVE  cmd' = cmd
      BY <2>3 DEF RunStep, OuterStarts, RunFails, RegisterQueue, AcquireSignal, LoopEnds,
                  RemoveSignal, Persist, PlatformKilled, OuterJoins, OuterDropped,
                  GuardHandle, GuardRest
    <2>4. ASSUME NEW s \in Sessions,
                 StopBegins(s) \/ StopStep(s) \/ PlatformStop(s) \/ Recover(s)
          PROVE  cmd' = cmd
      BY <2>4 DEF StopBegins, StopStep, StopSeesEnd, StopTimesOut, StopDetaches, PlatformStop,
                  Recover
    <2>5. CASE UNCHANGED vars
      BY <2>5 DEF vars
    <2> QED BY <2>1, <2>2, <2>3, <2>4, <2>5 DEF Next
  <1> QED BY <1>1, <1>2, <1>3, <1>4

(***************************************************************************)
(* What the history variable says: a command past the gate of a session    *)
(* where another run is filed was let through before that run was filed.   *)
(***************************************************************************)
UnseenInv ==
  \A q, k \in Runs :
    (Admitted(q) /\ running[Sess(q)] = k /\ k # q) => <<q, k>> \in unseen

\* The entry of a session is replaced by another run only when that run is filed.
LEMMA FilingStep ==
  ASSUME TypeOK, RunInv, [Next]_vars, NEW s \in Sessions
  PROVE  \/ running'[s] = running[s] /\ unseen \subseteq unseen'
         \/ running'[s] = None /\ unseen' = unseen
         \/ \E r \in Runs : InsertHandle(r) /\ Sess(r) = s
  <1>1. ASSUME NEW r \in Runs, Replace(r)
        PROVE  running'[s] \in {running[s], None} /\ unseen' = unseen
    BY <1>1, AtStep DEF Replace, TypeOK
  <1>2. ASSUME NEW r \in Runs, GuardHandle(r)
        PROVE  running'[s] \in {running[s], None} /\ unseen' = unseen
    BY <1>2 DEF GuardHandle, TypeOK
  <1>3. ASSUME NEW r \in Runs, InsertHandle(r), Sess(r) # s
        PROVE  running'[s] = running[s] /\ unseen \subseteq unseen'
    BY <1>3 DEF InsertHandle, TypeOK
  <1>4. ASSUME NEW t \in Sessions, StopTimesOut(t)
        PROVE  running'[s] \in {running[s], None} /\ unseen' = unseen
    BY <1>4 DEF StopTimesOut, TypeOK
  <1>5. \/ UNCHANGED <<running, unseen>>
        \/ \E r \in Runs : Replace(r) \/ GuardHandle(r) \/ InsertHandle(r)
        \/ \E t \in Sessions : StopTimesOut(t)
    BY DEF Next, vars, maps, Call, StartStep, StoreTurn, NothingToRerun, ClearDetached,
           QueueReminder, Gate, InsertSignal, BadConfig, Spawn, RunStep, OuterStarts,
           RunFails, RegisterQueue, AcquireSignal, LoopEnds, RemoveSignal, Persist,
           PlatformKilled, OuterJoins, OuterDropped, GuardRest, StopBegins, StopStep,
           StopSeesEnd, StopDetaches, PlatformStop, Recover
  <1> QED BY <1>1, <1>2, <1>3, <1>4, <1>5

LEMMA UnseenStep ==
  ASSUME TypeOK, RunInv, UnseenInv, [Next]_vars
  PROVE  UnseenInv'
  <1> SUFFICES ASSUME NEW q \in Runs, NEW k \in Runs,
                      Admitted(q)', running'[Sess(q)'] = k, k # q
               PROVE  <<q, k>> \in unseen'
    BY DEF UnseenInv
  <1>0. k # None
    BY Handles
  <1>1. Admitted(q) /\ Sess(q)' = Sess(q)
    BY <1>0, AdmittedStep
  <1>2. Sess(q) \in Sessions
    BY <1>1, AtStep DEF Admitted
  <1>3. CASE running'[Sess(q)] = running[Sess(q)] /\ unseen \subseteq unseen'
    BY <1>1, <1>3 DEF UnseenInv
  <1>4. CASE running'[Sess(q)] = None
    BY <1>0, <1>1, <1>4
  <1>5. ASSUME NEW r \in Runs, InsertHandle(r), Sess(r) = Sess(q)
        PROVE  <<q, k>> \in unseen'
    <2>1. r = k
      BY <1>1, <1>2, <1>5 DEF InsertHandle, TypeOK
    <2>2. q \in {p \in Runs \ {r} : Admitted(p) /\ Sess(p) = Sess(r)}
      BY <1>1, <1>5, <2>1
    <2> QED BY <1>5, <2>1, <2>2 DEF InsertHandle
  <1> QED BY <1>2, <1>3, <1>4, <1>5, FilingStep

(***************************************************************************)
(* The one step lemma behind NeverForgotten: the entry of a run at work is *)
(* cleared by a Stop that takes the handle, never by a guard, and by the   *)
(* bridge only when it aborts what it takes; it is overwritten by a        *)
(* command let through before the run was filed.                           *)
(***************************************************************************)
LEMMA ForgetStep ==
  ASSUME TypeOK, RunInv, UnseenInv, [Next]_vars, NEW s \in Sessions, NEW k \in Runs,
         running[s] = k, running'[s] # k, AtWork(k)'
  PROVE  taken'[s] = k \/ <<running'[s], k>> \in unseen
  <1>0. k # None /\ k \in 0..MaxRuns
    BY Handles
  <1>1. ASSUME NEW r \in Runs, Replace(r)
        PROVE  FALSE
    <2>1. Sess(r) = s
      BY <1>1, AtStep DEF Replace, TypeOK
    <2>2. Abort(k)
      BY <1>0, <1>1, <2>1 DEF Replace
    <2>3. IsPlatform(k)' <=> IsPlatform(k)
      <3>1. cmd' \in [Runs -> Calls] /\ Advance(r)
        BY <1>1, CommandMoves DEF Replace
      <3>2. k # r => cmd'[k] = cmd[k]
        BY <3>1 DEF Advance, TypeOK
      <3>3. cmd[r] \in [kind : Commands, session : Sessions, pc : 1..8]
        <4>1. cmd[r].kind \in Commands /\ "none" \notin Commands
          BY <1>1, CommandsAssumption DEF Replace, At, Program
        <4> QED BY <4>1 DEF TypeOK, Calls, Idle
      <3>4. cmd'[r].kind = cmd[r].kind
        BY <3>1, <3>3 DEF Advance, TypeOK
      <3> QED BY <3>2, <3>4 DEF IsPlatform
    <2>4. CASE IsPlatform(k)
      <3>1. outer'[k] = outer[k] /\ k \in killing'
        BY <2>2, <2>4 DEF Abort
      <3>2. outer[k] = "none"
        BY <2>4 DEF RunInv, IsPlatform
      <3> QED BY <3>1, <3>2 DEF AtWork
    <2>5. CASE ~IsPlatform(k)
      BY <2>2, <2>3, <2>5, AbortEffect DEF AtWork
    <2> QED BY <2>4, <2>5
  <1>2. ASSUME NEW r \in Runs, GuardHandle(r)
        PROVE  FALSE
    <2>1. k = r
      BY <1>2 DEF GuardHandle, TypeOK
    <2>2. outer'[k] = "dropped" /\ cmd' = cmd
      BY <1>2, <2>1 DEF GuardHandle, TypeOK
    <2>3. ~IsPlatform(k)
      BY <1>2, <2>1 DEF GuardHandle, RunInv, IsPlatform
    <2> QED BY <2>2, <2>3 DEF AtWork, IsPlatform
  <1>3. ASSUME NEW r \in Runs, InsertHandle(r)
        PROVE  <<running'[s], k>> \in unseen
    <2>1. Sess(r) = s /\ running'[s] = r /\ Admitted(r)
      BY <1>3 DEF InsertHandle, TypeOK, Admitted
    <2> QED BY <2>1 DEF UnseenInv
  <1>4. ASSUME NEW t \in Sessions, StopTimesOut(t)
        PROVE  taken'[s] = k
    BY <1>4 DEF StopTimesOut, TypeOK
  <1>5. ASSUME UNCHANGED running
        PROVE  FALSE
    BY <1>5
  <1>6. \/ UNCHANGED running
        \/ \E r \in Runs : Replace(r) \/ GuardHandle(r) \/ InsertHandle(r)
        \/ \E t \in Sessions : StopTimesOut(t)
    BY DEF Next, vars, maps, Call, StartStep, StoreTurn, NothingToRerun, ClearDetached,
           QueueReminder, Gate, InsertSignal, BadConfig, Spawn, RunStep, OuterStarts,
           RunFails, RegisterQueue, AcquireSignal, LoopEnds, RemoveSignal, Persist,
           PlatformKilled, OuterJoins, OuterDropped, GuardRest, StopBegins, StopStep,
           StopSeesEnd, StopDetaches, PlatformStop, Recover
  <1> QED BY <1>1, <1>2, <1>3, <1>4, <1>5, <1>6

(***************************************************************************)
(* running_agents forgets a run at work, by clearing or by overwriting its *)
(* entry, only when a Stop keeps the handle or a command files its own     *)
(* that was let through before the run was filed, whatever cleanups, stops *)
(* and platform messages come in between.                                  *)
(***************************************************************************)
THEOREM NeverForgottenHolds == Spec => NeverForgotten
  <1>1. Init => TypeOK /\ RunInv /\ UnseenInv
    <2>1. Init => UnseenInv
      <3>1. "none" \notin Commands
        BY CommandsAssumption DEF Program
      <3>2. Init => \A q \in Runs : cmd[q].kind = "none"
        BY DEF Init, Idle
      <3> QED BY <3>1, <3>2 DEF UnseenInv, Admitted, At
    <2> QED BY <2>1, InitInv
  <1>2. TypeOK /\ RunInv /\ UnseenInv /\ [Next]_vars => TypeOK' /\ RunInv' /\ UnseenInv'
    BY TypeStep, RunInvStep, UnseenStep
  <1>3. TypeOK /\ RunInv /\ UnseenInv /\ [Next]_vars =>
          [\A s \in Sessions, k \in Runs :
             (running[s] = k /\ running'[s] # k /\ AtWork(k)')
               => taken'[s] = k \/ <<running'[s], k>> \in unseen]_vars
    BY ForgetStep
  <1> QED BY <1>1, <1>2, <1>3, PTL DEF Spec, NeverForgotten

=============================================================================
