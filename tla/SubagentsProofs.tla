--------------------------- MODULE SubagentsProofs --------------------------
(***************************************************************************)
(* Proofs about Subagents, for any roots, children, kinds of calls and     *)
(* limits.                                                                 *)
(***************************************************************************)
EXTENDS Subagents, FiniteSetTheorems, WellFoundedInduction, TLAPS

-----------------------------------------------------------------------------
(* Types                                                                   *)

\* A call that was made has a caller, a child and a kind.
Placed ==
  \A k \in Calls : step[k] # "none" =>
    child[k] \in Children /\ parent[k] \in Sessions /\ kind[k] \in Kinds

LEMMA BoundsTyped ==
  /\ MaxCalls \in Nat /\ MaxDepth \in Nat /\ MaxSlots \in Nat
  /\ Kinds \subseteq {"foreground", "background", "continue"}
  /\ 0 \in 0..MaxCalls /\ 0 \in 0..MaxDepth /\ 0 \in 0..MaxSlots
  BY BoundsAssumption

LEMMA CallsTyped ==
  /\ Calls \subseteq 0..MaxCalls
  /\ None \in 0..MaxCalls
  BY BoundsTyped DEF Calls, None

LEMMA TypeInit == Init => TypeOK /\ Placed
<1> SUFFICES ASSUME Init PROVE TypeOK /\ Placed
  OBVIOUS
<1>1. TypeOK
  BY BoundsTyped, CallsTyped DEF Init, TypeOK
<1>2. Placed
  BY DEF Init, Placed
<1> QED BY <1>1, <1>2

LEMMA DepthTyped ==
  ASSUME TypeOK, NEW s
  PROVE  DepthOf(s) \in Nat
  BY BoundsTyped DEF DepthOf, TypeOK

\* Who holds a slot of session s.
Holders(s) == {k \in Calls : HoldsSlot(k, s)}

LEMMA HoldersFinite ==
  ASSUME NEW s
  PROVE  IsFiniteSet(Holders(s)) /\ Cardinality(Holders(s)) \in Nat
<1>1. IsFiniteSet(Calls)
  BY BoundsTyped, FS_Interval DEF Calls
<1>2. IsFiniteSet(Holders(s))
  BY <1>1, FS_Subset DEF Holders
<1> QED BY <1>2, FS_CardinalityType

\* A slot that is given back was taken.
LEMMA SlotTaken ==
  ASSUME TypeOK, Placed, SlotsBalanced, NEW k \in Calls, step[k] \in Steps \ {"asked"}
  PROVE  /\ parent[k] \in Sessions /\ slots[parent[k]] \in 1..MaxSlots
         /\ slots[parent[k]] - 1 \in 0..MaxSlots
<1>1. parent[k] \in Sessions
  BY DEF Placed, Steps
<1>2. k \in Holders(parent[k])
  BY DEF Holders, HoldsSlot
<1>3. Cardinality(Holders(parent[k])) # 0
  BY <1>2, HoldersFinite, FS_EmptySet
<1>4. slots[parent[k]] = Cardinality(Holders(parent[k]))
  BY <1>1 DEF SlotsBalanced, Holders
<1>5. slots[parent[k]] \in 0..MaxSlots
  BY <1>1 DEF TypeOK
<1> QED BY <1>1, <1>3, <1>4, <1>5, BoundsTyped

LEMMA CancelTypes ==
  ASSUME TypeOK, Placed, NEW Q \in SUBSET {q \in Calls : InFlight(q)}, CancelChildren(Q)
  PROVE  raised' \subseteq Calls /\ cancelled' \subseteq Calls
<1>1. ASSUME NEW q \in Q, signalOf[child[q]] # None
      PROVE  signalOf[child[q]] \in Calls
  <2>1. child[q] \in Children
    BY DEF Placed, InFlight, Steps
  <2>2. signalOf[child[q]] \in 0..MaxCalls
    BY <2>1 DEF TypeOK
  <2> QED BY <1>1, <2>2, BoundsTyped DEF Calls, None
<1>2. {signalOf[child[q]] : q \in Q} \ {None} \subseteq Calls
  BY <1>1
<1> QED BY <1>2 DEF CancelChildren, TypeOK

LEMMA MakeTypes ==
  ASSUME TypeOK, Placed, NEW k \in Calls, NEW kd \in Kinds, NEW c \in Children,
         NEW p \in Sessions, NEW q \in 0..MaxCalls, Make(k, kd, c, p, q)
  PROVE  /\ step' \in [Calls -> Steps \cup {"none", "over"}]
         /\ kind' \in [Calls -> Kinds \cup {"none"}]
         /\ child' \in [Calls -> Children \cup {None}]
         /\ parent' \in [Calls -> Sessions \cup {None}]
         /\ by' \in [Calls -> 0..MaxCalls]
         /\ Placed'
<1>1. "asked" \in Steps
  BY DEF Steps
<1> QED BY <1>1 DEF Make, Goto, TypeOK, Placed

LEMMA SpawnTypes ==
  ASSUME TypeOK, Placed, NEW k \in Calls, NEW kd \in {"foreground", "background"},
         NEW c \in Children, NEW p \in Sessions, NEW q \in 0..MaxCalls, Spawn(k, kd, c, p, q)
  PROVE  TypeOK' /\ Placed'
<1>1. kd \in Kinds /\ Make(k, kd, c, p, q)
  BY DEF Spawn
<1>2. limit' \in [Children -> 0..MaxCalls]
  <2>1. limit' = limit \/ limit' = [limit EXCEPT ![c] = k]
    BY DEF Spawn
  <2> QED BY <2>1, CallsTyped DEF TypeOK
<1>3. UNCHANGED <<slots, depth, continuing, kids, given, ran, signals, disk, halted>>
  BY DEF Spawn
<1> QED BY <1>1, <1>2, <1>3, MakeTypes DEF TypeOK, signals, disk

LEMMA ContinueTypes ==
  ASSUME TypeOK, Placed, NEW k \in Calls, NEW c \in Children, NEW p \in Sessions,
         NEW q \in 0..MaxCalls, Continue(k, c, p, q)
  PROVE  TypeOK' /\ Placed'
<1>1. "continue" \in Kinds /\ Make(k, "continue", c, p, q)
  BY DEF Continue
<1>2. UNCHANGED <<tables, given, ran, signals, disk, halted>>
  BY DEF Continue
<1> QED BY <1>1, <1>2, MakeTypes DEF TypeOK, tables, signals, disk

LEMMA HostTypes ==
  ASSUME TypeOK, Placed, SlotsBalanced, NEW k \in Calls, HostStep(k) \/ LoopEnds(k)
  PROVE  TypeOK' /\ Placed'
<1>1. CASE Refuse(k)
  <2>1. TypeOK'
    BY <1>1, BoundsTyped, CallsTyped
       DEF Refuse, TypeOK, Placed, Steps, Goto, call, tables, signals, disk
  <2>2. Placed'
    BY <1>1 DEF Refuse, Placed, Steps, TypeOK, Goto, call, tables, signals, disk
  <2> QED BY <2>1, <2>2
<1>2. CASE TakeSlot(k)
  <2>1. TypeOK'
    BY <1>2, DepthTyped, BoundsTyped, CallsTyped
       DEF TakeSlot, TypeOK, Placed, Steps, Goto, call, tables, signals, disk
  <2>2. Placed'
    BY <1>2 DEF TakeSlot, Placed, Steps, TypeOK, Goto, call, tables, signals, disk
  <2> QED BY <2>1, <2>2
<1>3. CASE BeginContinue(k)
  <2>1. TypeOK'
    BY <1>3, SlotTaken, BoundsTyped, CallsTyped
       DEF BeginContinue, TypeOK, Placed, Steps, Goto, call, tables, signals, disk
  <2>2. Placed'
    BY <1>3 DEF BeginContinue, Placed, Steps, TypeOK, Goto, call, tables, signals, disk
  <2> QED BY <2>1, <2>2
<1>4. CASE NoParent(k)
  <2>1. TypeOK'
    BY <1>4, SlotTaken, BoundsTyped, CallsTyped
       DEF NoParent, TypeOK, Placed, Steps, Goto, call, tables, signals, disk, EndContinue
  <2>2. Placed'
    BY <1>4 DEF NoParent, Placed, Steps, TypeOK, Goto, call, tables, signals, disk
  <2> QED BY <2>1, <2>2
<1>5. CASE Publish(k)
  <2>1. TypeOK'
    BY <1>5, BoundsTyped, CallsTyped
       DEF Publish, TypeOK, Placed, Steps, Goto, call, tables, signals, disk
  <2>2. Placed'
    BY <1>5 DEF Publish, Placed, Steps, TypeOK, Goto, call, tables, signals, disk
  <2> QED BY <2>1, <2>2
<1>6. CASE Register(k)
  <2>1. TypeOK'
    BY <1>6, BoundsTyped, CallsTyped
       DEF Register, TypeOK, Placed, Steps, Goto, call, tables, signals, disk
  <2>2. Placed'
    BY <1>6 DEF Register, Placed, Steps, TypeOK, Goto, call, tables, signals, disk
  <2> QED BY <2>1, <2>2
<1>7. CASE BeginLoop(k)
  <2>1. TypeOK'
    BY <1>7, BoundsTyped, CallsTyped
       DEF BeginLoop, TypeOK, Placed, Steps, Goto, call, tables, signals, disk
  <2>2. Placed'
    BY <1>7 DEF BeginLoop, Placed, Steps, TypeOK, Goto, call, tables, signals, disk
  <2> QED BY <2>1, <2>2
<1>8. CASE RunFails(k)
  <2>1. TypeOK'
    BY <1>8, BoundsTyped, CallsTyped
       DEF RunFails, TypeOK, Placed, Steps, Goto, call, tables, signals, disk
  <2>2. Placed'
    BY <1>8 DEF RunFails, Placed, Steps, TypeOK, Goto, call, tables, signals, disk
  <2> QED BY <2>1, <2>2
<1>9. CASE LoopEnds(k)
  <2>1. TypeOK'
    BY <1>9, BoundsTyped, CallsTyped
       DEF LoopEnds, TypeOK, Placed, Steps, Goto, call, tables, signals, disk
  <2>2. Placed'
    BY <1>9 DEF LoopEnds, Placed, Steps, TypeOK, Goto, call, tables, signals, disk
  <2> QED BY <2>1, <2>2
<1>10. CASE Export(k)
  <2>1. TypeOK'
    BY <1>10, BoundsTyped, CallsTyped
       DEF Export, TypeOK, Placed, Steps, Goto, call, tables, signals, disk
  <2>2. Placed'
    BY <1>10 DEF Export, Placed, Steps, TypeOK, Goto, call, tables, signals, disk
  <2> QED BY <2>1, <2>2
<1>11. CASE CancelJobs(k)
  <2>1. raised' \subseteq Calls /\ cancelled' \subseteq Calls
    BY <1>11, CancelTypes DEF CancelJobs, JobsOf
  <2>2. TypeOK'
    BY <1>11, <2>1 DEF CancelJobs, TypeOK, Steps, Goto, call, tables, signals, disk
  <2>3. Placed'
    BY <1>11 DEF CancelJobs, Placed, Steps, TypeOK, Goto, call, tables, signals, disk
  <2> QED BY <2>2, <2>3
<1>12. CASE DeleteRow(k)
  <2>1. TypeOK'
    BY <1>12, BoundsTyped, CallsTyped
       DEF DeleteRow, TypeOK, Placed, Steps, Goto, call, tables, signals, disk
  <2>2. Placed'
    BY <1>12 DEF DeleteRow, Placed, Steps, TypeOK, Goto, call, tables, signals, disk
  <2> QED BY <2>1, <2>2
<1>13. CASE Forget(k)
  <2>1. TypeOK'
    BY <1>13, BoundsTyped, CallsTyped
       DEF Forget, TypeOK, Placed, Steps, Goto, call, tables, signals, disk
  <2>2. Placed'
    BY <1>13 DEF Forget, Placed, Steps, TypeOK, Goto, call, tables, signals, disk
  <2> QED BY <2>1, <2>2
<1>14. CASE ReleaseSlot(k)
  <2>1. TypeOK'
    BY <1>14, SlotTaken, BoundsTyped, CallsTyped
       DEF ReleaseSlot, TypeOK, Placed, Steps, Goto, call, tables, signals, disk, EndContinue
  <2>2. Placed'
    BY <1>14 DEF ReleaseSlot, Placed, Steps, TypeOK, Goto, call, tables, signals, disk
  <2> QED BY <2>1, <2>2
<1> QED BY <1>1, <1>2, <1>3, <1>4, <1>5, <1>6, <1>7, <1>8, <1>9, <1>10, <1>11, <1>12, <1>13, <1>14
    DEF HostStep

LEMMA DropTypes ==
  ASSUME TypeOK, Placed, NEW k \in Calls, Drop(k)
  PROVE  TypeOK' /\ Placed'
<1>1. step' = [q \in Calls |-> IF q \in Under(k) THEN "cleanup" ELSE step[q]]
  BY DEF Drop
<1>2. UNCHANGED <<call, tables, given, ran, signals, disk, halted>>
  BY DEF Drop
<1>3. \A q \in Calls \cap Under(k) : step[q] # "none"
  BY DEF Drop, Under
<1>4. TypeOK'
  BY <1>1, <1>2 DEF TypeOK, Steps, call, tables, signals, disk
<1>5. Placed'
  BY <1>1, <1>2, <1>3 DEF Placed, call
<1> QED BY <1>4, <1>5

LEMMA SignalTypes ==
  ASSUME TypeOK, Placed, (\E k \in Calls : Kill(k)) \/ (\E r \in Roots : Stop(r))
  PROVE  TypeOK' /\ Placed'
<1>1. /\ UNCHANGED <<step, call, tables, given, ran, signalOf, signal, disk>>
      /\ halted' \subseteq Roots
  BY DEF Kill, Stop, TypeOK
<1>2. \E Q \in SUBSET {q \in Calls : InFlight(q)} : CancelChildren(Q)
  <2>1. ASSUME NEW k \in Calls, Kill(k)
        PROVE  \E Q \in SUBSET {q \in Calls : InFlight(q)} : CancelChildren(Q)
    BY <2>1 DEF Kill, JobsOf
  <2>2. ASSUME NEW r \in Roots, Stop(r)
        PROVE  \E Q \in SUBSET {q \in Calls : InFlight(q)} : CancelChildren(Q)
    BY <2>2 DEF Stop, JobsOf
  <2> QED BY <2>1, <2>2
<1>3. raised' \subseteq Calls /\ cancelled' \subseteq Calls
  BY <1>2, CancelTypes
<1>4. TypeOK'
  BY <1>1, <1>3 DEF TypeOK, call, tables, disk
<1>5. Placed'
  BY <1>1 DEF Placed, call
<1> QED BY <1>4, <1>5

LEMMA RestartTypes ==
  ASSUME TypeOK, Placed, Restart
  PROVE  TypeOK' /\ Placed'
<1>1. TypeOK'
  <2>1. step' \in [Calls -> Steps \cup {"none", "over"}]
    BY DEF Restart, TypeOK
  <2>2. meta' \in [Children -> {"none", "running", "finished", "interrupted"}]
    BY DEF Restart, TypeOK
  <2>3. /\ slots' \in [Sessions -> 0..MaxSlots] /\ depth' \in [Children -> 0..MaxDepth]
        /\ limit' \in [Children -> 0..MaxCalls] /\ signalOf' \in [Children -> 0..MaxCalls]
        /\ kids' \in [Sessions -> SUBSET Children]
    BY BoundsTyped, CallsTyped DEF Restart
  <2>4. continuing' = {} /\ raised' = {} /\ cancelled' = {} /\ rows' = {}
    BY DEF Restart
  <2>5. UNCHANGED <<call, given, ran, signal, origin, halted>>
    BY DEF Restart
  <2> QED BY <2>1, <2>2, <2>3, <2>4, <2>5 DEF TypeOK, call
<1>2. Placed'
  <2>1. \A k \in Calls : step'[k] # "none" => step[k] # "none"
    BY DEF Restart, InFlight, Steps
  <2>2. child' = child /\ parent' = parent /\ kind' = kind
    BY DEF Restart, call
  <2> QED BY <2>1, <2>2 DEF Placed
<1> QED BY <1>1, <1>2

\* The steps of the system, by kind.
LEMMA StepKinds ==
  ASSUME Next
  PROVE  \/ \E k \in Calls, q \in 0..MaxCalls, c \in Children, p \in Sessions :
              \/ \E kd \in {"foreground", "background"} : Spawn(k, kd, c, p, q)
              \/ Continue(k, c, p, q)
         \/ \E k \in Calls : HostStep(k) \/ LoopEnds(k)
         \/ \E k \in Calls : Drop(k)
         \/ (\E k \in Calls : Kill(k)) \/ (\E r \in Roots : Stop(r))
         \/ Restart
  BY DEF Next

LEMMA TypeStep == TypeOK /\ Placed /\ SlotsBalanced /\ [Next]_vars => TypeOK' /\ Placed'
<1> SUFFICES ASSUME TypeOK, Placed, SlotsBalanced, [Next]_vars PROVE TypeOK' /\ Placed'
  OBVIOUS
<1>1. CASE Next
  BY <1>1, StepKinds, SpawnTypes, ContinueTypes, HostTypes, DropTypes, SignalTypes,
     RestartTypes
<1>2. CASE UNCHANGED vars
  <2>1. TypeOK'
    BY <1>2 DEF vars, call, tables, signals, disk, TypeOK
  <2>2. Placed'
    BY <1>2 DEF vars, call, Placed
  <2> QED BY <2>1, <2>2
<1> QED BY <1>1, <1>2

-----------------------------------------------------------------------------
(* Slots                                                                   *)

SameHolders == \A s \in Sessions : Holders(s)' = Holders(s)

LEMMA BalanceKept ==
  ASSUME SlotsBalanced, SameHolders, slots' = slots
  PROVE  SlotsBalanced'
  BY DEF SlotsBalanced, SameHolders, Holders

LEMMA TakeBalance ==
  ASSUME TypeOK, Placed, SlotsBalanced, NEW k \in Calls, TakeSlot(k)
  PROVE  SlotsBalanced'
<1> SUFFICES ASSUME NEW s \in Sessions PROVE slots'[s] = Cardinality(Holders(s)')
  BY DEF SlotsBalanced, Holders
<1>1. /\ step[k] = "asked" /\ step' = [step EXCEPT ![k] = step'[k]]
      /\ step'[k] \in Steps \ {"asked"} /\ parent' = parent
      /\ slots' = [slots EXCEPT ![parent[k]] = @ + 1]
  BY DEF TakeSlot, Goto, TypeOK, Steps, call
<1>2. parent[k] \in Sessions
  BY <1>1 DEF Placed
<1>3. slots[s] = Cardinality(Holders(s))
  BY DEF SlotsBalanced, Holders
<1>4. CASE s = parent[k]
  <2>1. Holders(s)' = Holders(s) \cup {k} /\ k \notin Holders(s)
    BY <1>1, <1>4 DEF Holders, HoldsSlot, TypeOK
  <2>2. Cardinality(Holders(s) \cup {k}) = Cardinality(Holders(s)) + 1
    BY <2>1, HoldersFinite, FS_AddElement
  <2>3. slots'[s] = slots[s] + 1
    BY <1>1, <1>4 DEF TypeOK
  <2> QED BY <1>3, <2>1, <2>2, <2>3
<1>5. CASE s # parent[k]
  <2>1. Holders(s)' = Holders(s)
    BY <1>1, <1>5 DEF Holders, HoldsSlot, TypeOK
  <2>2. slots'[s] = slots[s]
    BY <1>1, <1>5 DEF TypeOK
  <2> QED BY <1>3, <2>1, <2>2
<1> QED BY <1>4, <1>5

\* A call that is over gives its slot back.
LEMMA GiveBackBalance ==
  ASSUME TypeOK, Placed, SlotsBalanced, NEW k \in Calls, step[k] \in Steps \ {"asked"},
         Goto(k, "over"), parent' = parent, slots' = [slots EXCEPT ![parent[k]] = @ - 1]
  PROVE  SlotsBalanced'
<1> SUFFICES ASSUME NEW s \in Sessions PROVE slots'[s] = Cardinality(Holders(s)')
  BY DEF SlotsBalanced, Holders
<1>1. step' = [step EXCEPT ![k] = "over"]
  BY DEF Goto
<1>2. parent[k] \in Sessions
  BY SlotTaken
<1>3. slots[s] = Cardinality(Holders(s))
  BY DEF SlotsBalanced, Holders
<1>4. CASE s = parent[k]
  <2>1. Holders(s)' = Holders(s) \ {k} /\ k \in Holders(s)
    BY <1>1, <1>4 DEF Holders, HoldsSlot, TypeOK, Steps
  <2>2. Cardinality(Holders(s) \ {k}) = Cardinality(Holders(s)) - 1
    BY <2>1, HoldersFinite, FS_RemoveElement
  <2>3. slots'[s] = slots[s] - 1
    BY <1>4 DEF TypeOK
  <2> QED BY <1>3, <2>1, <2>2, <2>3
<1>5. CASE s # parent[k]
  <2>1. Holders(s)' = Holders(s)
    BY <1>1, <1>5 DEF Holders, HoldsSlot, TypeOK
  <2>2. slots'[s] = slots[s]
    BY <1>5 DEF TypeOK
  <2> QED BY <1>3, <2>1, <2>2
<1> QED BY <1>4, <1>5

\* A call that moves on with its slot, or without one.
LEMMA MoveBalance ==
  ASSUME TypeOK, SlotsBalanced, NEW k \in Calls, NEW t,
         step[k] \in Steps \ {"asked"} <=> t \in Steps \ {"asked"},
         Goto(k, t), parent' = parent, slots' = slots
  PROVE  SlotsBalanced'
<1>1. SameHolders
  BY DEF SameHolders, Holders, HoldsSlot, Goto, TypeOK
<1> QED BY <1>1, BalanceKept

LEMMA HostBalance ==
  ASSUME TypeOK, Placed, SlotsBalanced, NEW k \in Calls, HostStep(k) \/ LoopEnds(k)
  PROVE  SlotsBalanced'
<1>1. CASE Refuse(k)
  <2>1. Goto(k, "over") /\ parent' = parent /\ slots' = slots
    BY <1>1 DEF Refuse, call, tables
  <2>2. step[k] \in Steps \ {"asked"} <=> "over" \in Steps \ {"asked"}
    BY <1>1 DEF Refuse, Steps
  <2> QED BY <2>1, <2>2, MoveBalance
<1>2. CASE TakeSlot(k)
  BY <1>2, TakeBalance
<1>3. CASE BeginContinue(k)
  <2>1. CASE child[k] \in continuing
    BY <1>3, <2>1, GiveBackBalance DEF BeginContinue, Steps, call
  <2>2. CASE child[k] \notin continuing
    BY <1>3, <2>2, MoveBalance DEF BeginContinue, Steps, call
  <2> QED BY <2>1, <2>2
<1>4. CASE NoParent(k)
  BY <1>4, GiveBackBalance DEF NoParent, Steps, call
<1>5. CASE Publish(k)
  <2>1. Goto(k, "published") /\ parent' = parent /\ slots' = slots
    BY <1>5 DEF Publish, call, tables
  <2>2. step[k] \in Steps \ {"asked"} <=> "published" \in Steps \ {"asked"}
    BY <1>5 DEF Publish, Steps
  <2> QED BY <2>1, <2>2, MoveBalance
<1>6. CASE Register(k)
  <2>1. Goto(k, "started") /\ parent' = parent /\ slots' = slots
    BY <1>6 DEF Register, call, tables
  <2>2. step[k] \in Steps \ {"asked"} <=> "started" \in Steps \ {"asked"}
    BY <1>6 DEF Register, Steps
  <2> QED BY <2>1, <2>2, MoveBalance
<1>7. CASE BeginLoop(k)
  <2>1. Goto(k, "looping") /\ parent' = parent /\ slots' = slots
    BY <1>7 DEF BeginLoop, call, tables
  <2>2. step[k] \in Steps \ {"asked"} <=> "looping" \in Steps \ {"asked"}
    BY <1>7 DEF BeginLoop, Steps
  <2> QED BY <2>1, <2>2, MoveBalance
<1>8. CASE RunFails(k)
  <2>1. Goto(k, "returned") /\ parent' = parent /\ slots' = slots
    BY <1>8 DEF RunFails, call, tables
  <2>2. step[k] \in Steps \ {"asked"} <=> "returned" \in Steps \ {"asked"}
    BY <1>8 DEF RunFails, Steps
  <2> QED BY <2>1, <2>2, MoveBalance
<1>9. CASE LoopEnds(k)
  <2>1. Goto(k, "returned") /\ parent' = parent /\ slots' = slots
    BY <1>9 DEF LoopEnds, call, tables
  <2>2. step[k] \in Steps \ {"asked"} <=> "returned" \in Steps \ {"asked"}
    BY <1>9 DEF LoopEnds, Steps
  <2> QED BY <2>1, <2>2, MoveBalance
<1>10. CASE Export(k)
  <2>1. Goto(k, "cleanup") /\ parent' = parent /\ slots' = slots
    BY <1>10 DEF Export, call, tables
  <2>2. step[k] \in Steps \ {"asked"} <=> "cleanup" \in Steps \ {"asked"}
    BY <1>10 DEF Export, Steps
  <2> QED BY <2>1, <2>2, MoveBalance
<1>11. CASE CancelJobs(k)
  <2>1. Goto(k, "jobless") /\ parent' = parent /\ slots' = slots
    BY <1>11 DEF CancelJobs, call, tables
  <2>2. step[k] \in Steps \ {"asked"} <=> "jobless" \in Steps \ {"asked"}
    BY <1>11 DEF CancelJobs, Steps
  <2> QED BY <2>1, <2>2, MoveBalance
<1>12. CASE DeleteRow(k)
  <2>1. Goto(k, "rowless") /\ parent' = parent /\ slots' = slots
    BY <1>12 DEF DeleteRow, call, tables
  <2>2. step[k] \in Steps \ {"asked"} <=> "rowless" \in Steps \ {"asked"}
    BY <1>12 DEF DeleteRow, Steps
  <2> QED BY <2>1, <2>2, MoveBalance
<1>13. CASE Forget(k)
  <2>1. Goto(k, "forgotten") /\ parent' = parent /\ slots' = slots
    BY <1>13 DEF Forget, call, tables
  <2>2. step[k] \in Steps \ {"asked"} <=> "forgotten" \in Steps \ {"asked"}
    BY <1>13 DEF Forget, Steps
  <2> QED BY <2>1, <2>2, MoveBalance
<1>14. CASE ReleaseSlot(k)
  BY <1>14, GiveBackBalance DEF ReleaseSlot, Steps, call
<1> QED BY <1>1, <1>2, <1>3, <1>4, <1>5, <1>6, <1>7, <1>8, <1>9, <1>10, <1>11, <1>12, <1>13, <1>14
    DEF HostStep

LEMMA MakeBalance ==
  ASSUME TypeOK, Placed, SlotsBalanced, NEW k \in Calls, NEW kd, NEW c, NEW p, NEW q,
         Make(k, kd, c, p, q), slots' = slots
  PROVE  SlotsBalanced'
<1>1. SameHolders
  BY DEF SameHolders, Holders, HoldsSlot, Make, Goto, TypeOK, Steps
<1> QED BY <1>1, BalanceKept

LEMMA DropBalance ==
  ASSUME TypeOK, SlotsBalanced, NEW k \in Calls, Drop(k)
  PROVE  SlotsBalanced'
<1>1. \A q \in Calls : step'[q] = step[q] \/ (step[q] \in {"started", "looping"} /\ step'[q] = "cleanup")
  BY DEF Drop, TypeOK
<1>2. parent' = parent /\ slots' = slots
  BY DEF Drop, call, tables
<1>3. SameHolders
  BY <1>1, <1>2 DEF SameHolders, Holders, HoldsSlot, Steps
<1> QED BY <1>2, <1>3, BalanceKept

LEMMA RestartBalance ==
  ASSUME TypeOK, Restart
  PROVE  SlotsBalanced'
<1>0. \A k \in Calls : step'[k] \notin Steps
  BY DEF Restart, InFlight, Steps
<1>1. ASSUME NEW s \in Sessions
      PROVE  slots'[s] = 0 /\ Holders(s)' = {}
  BY <1>0 DEF Restart, Holders, HoldsSlot
<1>2. Cardinality({}) = 0
  BY FS_EmptySet
<1> QED BY <1>1, <1>2 DEF SlotsBalanced, Holders

LEMMA BalanceStep ==
  TypeOK /\ Placed /\ SlotsBalanced /\ [Next]_vars => SlotsBalanced'
<1> SUFFICES ASSUME TypeOK, Placed, SlotsBalanced, [Next]_vars PROVE SlotsBalanced'
  OBVIOUS
<1>1. ASSUME NEW k \in Calls, NEW q \in 0..MaxCalls, NEW c \in Children, NEW p \in Sessions,
             \/ \E kd \in {"foreground", "background"} : Spawn(k, kd, c, p, q)
             \/ Continue(k, c, p, q)
      PROVE  SlotsBalanced'
  BY <1>1, MakeBalance DEF Spawn, Continue, tables
<1>2. ASSUME NEW k \in Calls, HostStep(k) \/ LoopEnds(k) PROVE SlotsBalanced'
  BY <1>2, HostBalance
<1>3. ASSUME NEW k \in Calls, Drop(k) PROVE SlotsBalanced'
  BY <1>3, DropBalance
<1>4. CASE \/ (\E k \in Calls : Kill(k)) \/ (\E r \in Roots : Stop(r))
           \/ UNCHANGED vars
  <2>1. step' = step /\ parent' = parent /\ slots' = slots
    BY <1>4 DEF Kill, Stop, vars, call, tables
  <2>2. SameHolders
    BY <2>1 DEF SameHolders, Holders, HoldsSlot
  <2> QED BY <2>1, <2>2, BalanceKept
<1>5. CASE Restart
  BY <1>5, RestartBalance
<1> QED BY <1>1, <1>2, <1>3, <1>4, <1>5, StepKinds

LEMMA BalanceInit == Init => SlotsBalanced
<1> SUFFICES ASSUME Init PROVE SlotsBalanced
  OBVIOUS
<1>1. ASSUME NEW s \in Sessions
      PROVE  slots[s] = 0 /\ Holders(s) = {}
  BY DEF Init, Holders, HoldsSlot, Steps
<1>2. Cardinality({}) = 0
  BY FS_EmptySet
<1> QED BY <1>1, <1>2 DEF SlotsBalanced, Holders

Base == TypeOK /\ Placed /\ SlotsBalanced

LEMMA BaseInit == Init => Base
  BY TypeInit, BalanceInit DEF Base

LEMMA BaseStep == Base /\ [Next]_vars => Base'
  BY TypeStep, BalanceStep DEF Base

LEMMA BaseCorrect == Spec => []Base
  BY BaseInit, BaseStep, PTL DEF Spec

(***************************************************************************)
(* Every table keeps its type: no slot count leaves 0..MAX_CHILDREN_PER_   *)
(* ROOT (try_acquire_slot, release_slot), no depth exceeds MAX_DEPTH.      *)
(***************************************************************************)
THEOREM TypeCorrect == Spec => []TypeOK
  BY BaseCorrect, PTL DEF Base

(***************************************************************************)
(* ACTIVE counts exactly the calls that took a slot and have not given it  *)
(* back, whatever refuses, fails, is dropped or restarted.                 *)
(***************************************************************************)
THEOREM SlotsBalancedHolds == Spec => []SlotsBalanced
  BY BaseCorrect, PTL DEF Base

-----------------------------------------------------------------------------
(* Turn budgets                                                            *)

(***************************************************************************)
(* A budget that waits is its child's and nobody's that runs; a budget     *)
(* that is spent belongs to a call that was made.                          *)
(***************************************************************************)
Waiting ==
  \A c \in Children : limit[c] # None =>
    /\ limit[c] \in Calls /\ step[limit[c]] # "none" /\ child[limit[c]] = c
    /\ \A k \in Calls : ran[k] # limit[c]
Spent == \A k \in Calls : ran[k] # None => ran[k] \in Calls /\ step[ran[k]] # "none"

Paid == Waiting /\ Spent /\ BudgetsApart

\* No step but a new call takes part in who was called; no call is unmade.
LEMMA OthersKept ==
  ASSUME Base
  PROVE  /\ (\E k \in Calls : HostStep(k) \/ LoopEnds(k) \/ Drop(k) \/ Kill(k))
              \/ (\E r \in Roots : Stop(r)) \/ Restart
            => /\ UNCHANGED call
               /\ \A q \in Calls : (step[q] = "none" <=> step'[q] = "none")
<1>1. ASSUME NEW k \in Calls, HostStep(k) \/ LoopEnds(k)
      PROVE  UNCHANGED call /\ \A q \in Calls : (step[q] = "none" <=> step'[q] = "none")
  <2>1. UNCHANGED call
    BY <1>1 DEF HostStep, Refuse, TakeSlot, BeginContinue, NoParent, Publish, Register,
       BeginLoop, RunFails, LoopEnds, Export, CancelJobs, DeleteRow, Forget, ReleaseSlot
  <2>2. /\ step[k] \in Steps
        /\ \E t \in Steps \cup {"over"} : step' = [step EXCEPT ![k] = t]
    BY <1>1 DEF HostStep, Refuse, TakeSlot, BeginContinue, NoParent, Publish, Register,
       BeginLoop, RunFails, LoopEnds, Export, CancelJobs, DeleteRow, Forget, ReleaseSlot,
       Goto, Steps
  <2>3. \A q \in Calls : (step[q] = "none" <=> step'[q] = "none")
    BY <2>2 DEF Base, TypeOK, Steps
  <2> QED BY <2>1, <2>3
<1>2. ASSUME NEW k \in Calls, Drop(k)
      PROVE  UNCHANGED call /\ \A q \in Calls : (step[q] = "none" <=> step'[q] = "none")
  BY <1>2 DEF Drop
<1>3. ASSUME (\E k \in Calls : Kill(k)) \/ (\E r \in Roots : Stop(r))
      PROVE  UNCHANGED call /\ \A q \in Calls : (step[q] = "none" <=> step'[q] = "none")
  BY <1>3 DEF Kill, Stop
<1>4. ASSUME Restart
      PROVE  UNCHANGED call /\ \A q \in Calls : (step[q] = "none" <=> step'[q] = "none")
  BY <1>4 DEF Restart, InFlight, Steps
<1> QED BY <1>1, <1>2, <1>3, <1>4

LEMMA PaidKept ==
  ASSUME Base, Paid, child' = child, ran' = ran,
         \A q \in Calls : (step[q] = "none" <=> step'[q] = "none"),
         \A c \in Children : limit'[c] = limit[c] \/ limit'[c] = None
  PROVE  Paid'
<1>1. Waiting'
  BY DEF Paid, Waiting
<1>2. Spent' /\ BudgetsApart'
  BY DEF Paid, Spent, BudgetsApart
<1> QED BY <1>1, <1>2 DEF Paid

LEMMA MakePaid ==
  ASSUME Base, Paid, NEW k \in Calls, NEW kd, NEW c \in Children, NEW p, NEW q,
         Make(k, kd, c, p, q), ran' = ran,
         limit' = limit \/ limit' = [limit EXCEPT ![c] = k]
  PROVE  Paid'
<1>1. /\ step[k] = "none" /\ step' = [step EXCEPT ![k] = "asked"]
      /\ child' = [child EXCEPT ![k] = c]
  BY DEF Make, Goto
<1>2. \A j \in Calls : ran[j] # k
  BY <1>1 DEF Paid, Spent, None, Calls
<1>3. Spent'
  BY <1>1 DEF Paid, Spent, Base, TypeOK
<1>4. BudgetsApart'
  BY DEF Paid, BudgetsApart
<1>5. ASSUME NEW d \in Children, limit'[d] # None
      PROVE  /\ limit'[d] \in Calls /\ step'[limit'[d]] # "none" /\ child'[limit'[d]] = d
             /\ \A j \in Calls : ran[j] # limit'[d]
  <2>1. CASE limit'[d] = limit[d]
    <3>1. limit[d] \in Calls /\ step[limit[d]] # "none" /\ child[limit[d]] = d
      BY <1>5, <2>1 DEF Paid, Waiting
    <3>2. limit[d] # k
      BY <1>1, <3>1
    <3> QED BY <1>1, <1>5, <2>1, <3>1, <3>2 DEF Paid, Waiting, Base, TypeOK
  <2>2. CASE limit'[d] # limit[d]
    <3>1. d = c /\ limit'[d] = k
      BY <2>2 DEF Base, TypeOK
    <3> QED BY <1>1, <1>2, <3>1 DEF Base, TypeOK
  <2> QED BY <2>1, <2>2
<1>6. Waiting'
  BY <1>5 DEF Waiting
<1> QED BY <1>3, <1>4, <1>6 DEF Paid

LEMMA BeginLoopPaid ==
  ASSUME Base, Paid, NEW k \in Calls, BeginLoop(k)
  PROVE  Paid'
<1> DEFINE c == child[k]
<1>1. /\ step[k] = "started" /\ step' = [step EXCEPT ![k] = "looping"]
      /\ child' = child
      /\ ran' = [ran EXCEPT ![k] = limit[c]] /\ limit' = [limit EXCEPT ![c] = None]
  BY DEF BeginLoop, Goto, call
<1>2. c \in Children
  BY <1>1 DEF Base, Placed
<1>3. \A q \in Calls : (step[q] = "none" <=> step'[q] = "none")
  BY <1>1 DEF Base, TypeOK
<1> HIDE DEF c
<1>4. Spent'
  <2>1. limit[c] # None => limit[c] \in Calls /\ step[limit[c]] # "none"
    BY <1>2 DEF Paid, Waiting
  <2> QED BY <1>1, <1>3, <2>1 DEF Paid, Spent, Base, TypeOK
<1>5. BudgetsApart'
  <2>1. limit[c] # None => \A j \in Calls : ran[j] # limit[c]
    BY <1>2 DEF Paid, Waiting
  <2> QED BY <1>1, <2>1 DEF Paid, BudgetsApart, Base, TypeOK
<1>6. ASSUME NEW d \in Children, limit'[d] # None
      PROVE  /\ limit'[d] \in Calls /\ step'[limit'[d]] # "none" /\ child'[limit'[d]] = d
             /\ \A j \in Calls : ran'[j] # limit'[d]
  <2>1. d # c /\ limit'[d] = limit[d]
    BY <1>1, <1>2, <1>6 DEF Base, TypeOK
  <2>2. /\ limit[d] \in Calls /\ step[limit[d]] # "none" /\ child[limit[d]] = d
        /\ \A j \in Calls : ran[j] # limit[d]
    BY <1>6, <2>1 DEF Paid, Waiting
  <2>3. limit[c] # limit[d]
    BY <1>2, <1>6, <2>1, <2>2 DEF Paid, Waiting
  <2> QED BY <1>1, <1>3, <2>1, <2>2, <2>3 DEF Base, TypeOK
<1>7. Waiting'
  BY <1>6 DEF Waiting
<1> QED BY <1>4, <1>5, <1>7 DEF Paid

LEMMA PaidStep == Base /\ Paid /\ [Next]_vars => Paid'
<1> SUFFICES ASSUME Base, Paid, [Next]_vars PROVE Paid'
  OBVIOUS
<1>1. ASSUME NEW k \in Calls, NEW q \in 0..MaxCalls, NEW c \in Children, NEW p \in Sessions,
             \/ \E kd \in {"foreground", "background"} : Spawn(k, kd, c, p, q)
             \/ Continue(k, c, p, q)
      PROVE  Paid'
  BY <1>1, MakePaid DEF Spawn, Continue, tables
<1>2. ASSUME NEW k \in Calls, HostStep(k) \/ LoopEnds(k) PROVE Paid'
  <2>1. CASE BeginLoop(k)
    BY <2>1, BeginLoopPaid
  <2>2. CASE ~BeginLoop(k)
    <3>1. ran' = ran /\ limit' = limit
      BY <1>2, <2>2 DEF HostStep, Refuse, TakeSlot, BeginContinue, NoParent, Publish,
         Register, RunFails, LoopEnds, Export, CancelJobs, DeleteRow, Forget, ReleaseSlot,
         tables
    <3>2. child' = child /\ \A q \in Calls : (step[q] = "none" <=> step'[q] = "none")
      BY <1>2, OthersKept DEF call
    <3> QED BY <3>1, <3>2, PaidKept
  <2> QED BY <2>1, <2>2
<1>3. CASE (\E k \in Calls : Drop(k) \/ Kill(k)) \/ (\E r \in Roots : Stop(r)) \/ Restart
  <2>1. child' = child /\ \A q \in Calls : (step[q] = "none" <=> step'[q] = "none")
    BY <1>3, OthersKept DEF call
  <2>2. ran' = ran /\ (limit' = limit \/ \A c \in Children : limit'[c] = None)
    BY <1>3 DEF Drop, Kill, Stop, Restart, tables
  <2> QED BY <2>1, <2>2, PaidKept
<1>4. CASE UNCHANGED vars
  BY <1>4, PaidKept DEF vars, call, tables
<1> QED BY <1>1, <1>2, <1>3, <1>4, StepKinds

LEMMA PaidInit == Init => Paid
  BY DEF Init, Paid, Waiting, Spent, BudgetsApart

(***************************************************************************)
(* take_max_turns takes the budget: for any children, continuations and    *)
(* interleavings, a budget limits at most one loop.                        *)
(***************************************************************************)
THEOREM BudgetsApartHolds == Spec => []BudgetsApart
<1>1. Spec => [](Base /\ Paid)
  BY BaseInit, PaidInit, BaseStep, PaidStep, PTL DEF Spec
<1> QED BY <1>1, PTL DEF Paid

-----------------------------------------------------------------------------
(* One loop of a child                                                     *)

\* Past the point where a second continuation is turned away.
Active(k) == step[k] \in Steps \ {"asked", "slotted"}

(***************************************************************************)
(* A child in its first run has no other call; continuations that got      *)
(* past try_begin_continue are in CONTINUING, one of each child.           *)
(***************************************************************************)
FreshAlone ==
  \A k, q \in Calls :
    kind[k] # "continue" /\ InFlight(k) /\ k # q /\ step[q] # "none" => child[q] # child[k]
Marked == \A k \in Calls : kind[k] = "continue" /\ Active(k) => child[k] \in continuing
OneContinuation ==
  \A k, q \in Calls :
    kind[k] = "continue" /\ kind[q] = "continue" /\ Active(k) /\ Active(q) /\ k # q =>
      child[q] # child[k]
NotSlotted == \A k \in Calls : kind[k] # "continue" => step[k] # "slotted"

Single == FreshAlone /\ Marked /\ OneContinuation /\ NotSlotted

LEMMA SingleKept ==
  ASSUME Base, Single, UNCHANGED call, continuing' = continuing,
         \A q \in Calls : (step[q] = "none" <=> step'[q] = "none"),
         \A q \in Calls : InFlight(q)' => InFlight(q),
         \A q \in Calls : kind[q] = "continue" /\ Active(q)' => Active(q),
         \A q \in Calls : step'[q] = "slotted" => kind[q] = "continue"
  PROVE  Single'
<1>1. child' = child /\ kind' = kind
  BY DEF call
<1>2. FreshAlone'
  BY <1>1 DEF Single, FreshAlone
<1>3. Marked' /\ OneContinuation' /\ NotSlotted'
  BY <1>1 DEF Single, Marked, OneContinuation, NotSlotted
<1> QED BY <1>2, <1>3 DEF Single

\* A step of one call that neither begins nor ends a continuation.
LEMMA MoveSingle ==
  ASSUME Base, Single, NEW k \in Calls, NEW t \in Steps \cup {"over"}, Goto(k, t),
         UNCHANGED call, continuing' = continuing, InFlight(k),
         Active(k) \/ kind[k] # "continue" \/ t \in {"slotted", "over"},
         t = "slotted" => kind[k] = "continue"
  PROVE  Single'
<1>1. step' = [step EXCEPT ![k] = t] /\ step[k] \in Steps
  BY DEF Goto, InFlight
<1>2. \A q \in Calls : (step[q] = "none" <=> step'[q] = "none")
  BY <1>1 DEF Base, TypeOK, Steps
<1>3. \A q \in Calls : InFlight(q)' => InFlight(q)
  BY <1>1 DEF InFlight, Base, TypeOK
<1>4. \A q \in Calls : kind[q] = "continue" /\ Active(q)' => Active(q)
  BY <1>1 DEF Active, Base, TypeOK, Steps
<1>5. \A q \in Calls : step'[q] = "slotted" => kind[q] = "continue"
  BY <1>1 DEF Single, NotSlotted, Base, TypeOK
<1> QED BY <1>2, <1>3, <1>4, <1>5, SingleKept

\* A call that ends and, being a continuation, leaves CONTINUING.
LEMMA EndSingle ==
  ASSUME Base, Single, NEW k \in Calls, Goto(k, "over"), UNCHANGED call, EndContinue(k),
         Active(k)
  PROVE  Single'
<1>1. step' = [step EXCEPT ![k] = "over"] /\ child' = child /\ kind' = kind
  BY DEF Goto, call
<1>2. \A q \in Calls : q # k => step'[q] = step[q]
  BY <1>1 DEF Base, TypeOK
<1>3. step'[k] = "over"
  BY <1>1 DEF Base, TypeOK
<1>4. FreshAlone'
  BY <1>1, <1>2, <1>3 DEF Single, FreshAlone, InFlight, Active, Steps
<1>5. Marked'
  BY <1>1, <1>2, <1>3 DEF Single, Marked, OneContinuation, Active, EndContinue, Steps
<1>6. OneContinuation' /\ NotSlotted'
  BY <1>1, <1>2, <1>3 DEF Single, OneContinuation, NotSlotted, Active, Steps
<1> QED BY <1>4, <1>5, <1>6 DEF Single

\* try_begin_continue lets one continuation through.
LEMMA BeginSingle ==
  ASSUME Base, Single, NEW k \in Calls, BeginContinue(k)
  PROVE  Single'
<1>0. step[k] = "slotted" /\ kind[k] = "continue"
  BY DEF BeginContinue, Single, NotSlotted
<1>1. CASE child[k] \in continuing
  <2>1. Goto(k, "over") /\ UNCHANGED call /\ continuing' = continuing
    BY <1>1 DEF BeginContinue
  <2> QED BY <1>0, <2>1, MoveSingle DEF InFlight, Steps
<1>2. CASE child[k] \notin continuing
  <2>1. /\ step' = [step EXCEPT ![k] = "single"] /\ child' = child /\ kind' = kind
        /\ continuing' = continuing \cup {child[k]}
    BY <1>2 DEF BeginContinue, Goto, call
  <2>2. step'[k] = "single" /\ \A q \in Calls : q # k => step'[q] = step[q]
    BY <2>1 DEF Base, TypeOK
  <2>3. FreshAlone'
    BY <1>0, <2>1, <2>2 DEF Single, FreshAlone, InFlight
  <2>4. Marked' /\ NotSlotted'
    BY <1>0, <2>1, <2>2 DEF Single, Marked, NotSlotted, Active
  <2>5. \A q \in Calls : kind[q] = "continue" /\ Active(q) => child[q] # child[k]
    BY <1>2 DEF Single, Marked
  <2>6. OneContinuation'
    BY <1>0, <2>1, <2>2, <2>5 DEF Single, OneContinuation, Active
  <2> QED BY <2>3, <2>4, <2>6 DEF Single
<1> QED BY <1>1, <1>2

\* A new child is new; an old one is continued after its first run only, as long
\* as nobody learns of a child that runs in the background.
LEMMA MakeSingle ==
  ASSUME "background" \notin Kinds, Base, Single, NEW k \in Calls, NEW kd \in Kinds,
         NEW c \in Children, NEW p, NEW q, Make(k, kd, c, p, q), continuing' = continuing,
         \/ kd # "continue" /\ \A j \in Calls : child[j] # c
         \/ kd = "continue" /\ Known(c)
  PROVE  Single'
<1>1. /\ step[k] = "none" /\ step' = [step EXCEPT ![k] = "asked"]
      /\ kind' = [kind EXCEPT ![k] = kd] /\ child' = [child EXCEPT ![k] = c]
  BY DEF Make, Goto
<1>2. /\ step'[k] = "asked" /\ kind'[k] = kd /\ child'[k] = c
      /\ \A j \in Calls : j # k =>
           step'[j] = step[j] /\ kind'[j] = kind[j] /\ child'[j] = child[j]
  BY <1>1 DEF Base, TypeOK
<1>3. \A f \in Calls : kind[f] # "continue" /\ InFlight(f) => child[f] # c
  <2>1. CASE \A j \in Calls : child[j] # c
    BY <2>1
  <2>2. CASE Known(c)
    <3>1. PICK j \in Calls : child[j] = c /\ (kind[j] = "background" \/ step[j] = "over")
      BY <2>2 DEF Known
    <3>2. step[j] = "over"
      BY <3>1 DEF Base, TypeOK
    <3> QED BY <3>1, <3>2 DEF Single, FreshAlone, InFlight, Steps
  <2> QED BY <2>1, <2>2
<1>4. FreshAlone'
  <2> SUFFICES ASSUME NEW f \in Calls, NEW g \in Calls, kind'[f] # "continue",
                      InFlight(f)', f # g, step'[g] # "none"
               PROVE  child'[g] # child'[f]
    BY DEF FreshAlone
  <2>1. CASE g = k
    BY <1>2, <1>3, <2>1 DEF InFlight
  <2>2. CASE f = k
    BY <1>2, <2>2
  <2>3. CASE f # k /\ g # k
    BY <1>2, <2>3 DEF Single, FreshAlone, InFlight
  <2> QED BY <2>1, <2>2, <2>3
<1>5. Marked' /\ OneContinuation' /\ NotSlotted'
  BY <1>2 DEF Single, Marked, OneContinuation, NotSlotted, Active
<1> QED BY <1>4, <1>5 DEF Single

LEMMA HostSingle ==
  ASSUME Base, Single, NEW k \in Calls, HostStep(k) \/ LoopEnds(k)
  PROVE  Single'
<1>1. CASE Refuse(k)
  <2>1. Goto(k, "over") /\ UNCHANGED call /\ continuing' = continuing
    BY <1>1 DEF Refuse, tables
  <2>2. step[k] \in Steps
    BY <1>1 DEF Refuse, Steps
  <2> QED BY <2>1, <2>2, MoveSingle DEF InFlight, Active, Steps
<1>2. CASE TakeSlot(k)
  <2>1. /\ step[k] = "asked" /\ UNCHANGED call /\ continuing' = continuing
        /\ Goto(k, IF kind[k] = "continue" THEN "slotted" ELSE "single")
    BY <1>2 DEF TakeSlot
  <2> QED BY <2>1, MoveSingle DEF InFlight, Steps
<1>3. CASE BeginContinue(k)
  BY <1>3, BeginSingle
<1>4. CASE NoParent(k)
  BY <1>4, EndSingle DEF NoParent, Active, Steps, call
<1>5. CASE Publish(k)
  <2>1. Goto(k, "published") /\ UNCHANGED call /\ continuing' = continuing
    BY <1>5 DEF Publish, tables
  <2>2. step[k] \in Steps \ {"asked", "slotted"}
    BY <1>5 DEF Publish, Steps
  <2> QED BY <2>1, <2>2, MoveSingle DEF InFlight, Active, Steps
<1>6. CASE Register(k)
  <2>1. Goto(k, "started") /\ UNCHANGED call /\ continuing' = continuing
    BY <1>6 DEF Register, tables
  <2>2. step[k] \in Steps \ {"asked", "slotted"}
    BY <1>6 DEF Register, Steps
  <2> QED BY <2>1, <2>2, MoveSingle DEF InFlight, Active, Steps
<1>7. CASE BeginLoop(k)
  <2>1. Goto(k, "looping") /\ UNCHANGED call /\ continuing' = continuing
    BY <1>7 DEF BeginLoop, tables
  <2>2. step[k] \in Steps \ {"asked", "slotted"}
    BY <1>7 DEF BeginLoop, Steps
  <2> QED BY <2>1, <2>2, MoveSingle DEF InFlight, Active, Steps
<1>8. CASE RunFails(k)
  <2>1. Goto(k, "returned") /\ UNCHANGED call /\ continuing' = continuing
    BY <1>8 DEF RunFails, tables
  <2>2. step[k] \in Steps \ {"asked", "slotted"}
    BY <1>8 DEF RunFails, Steps
  <2> QED BY <2>1, <2>2, MoveSingle DEF InFlight, Active, Steps
<1>9. CASE LoopEnds(k)
  <2>1. Goto(k, "returned") /\ UNCHANGED call /\ continuing' = continuing
    BY <1>9 DEF LoopEnds, tables
  <2>2. step[k] \in Steps \ {"asked", "slotted"}
    BY <1>9 DEF LoopEnds, Steps
  <2> QED BY <2>1, <2>2, MoveSingle DEF InFlight, Active, Steps
<1>10. CASE Export(k)
  <2>1. Goto(k, "cleanup") /\ UNCHANGED call /\ continuing' = continuing
    BY <1>10 DEF Export, tables
  <2>2. step[k] \in Steps \ {"asked", "slotted"}
    BY <1>10 DEF Export, Steps
  <2> QED BY <2>1, <2>2, MoveSingle DEF InFlight, Active, Steps
<1>11. CASE CancelJobs(k)
  <2>1. Goto(k, "jobless") /\ UNCHANGED call /\ continuing' = continuing
    BY <1>11 DEF CancelJobs, tables
  <2>2. step[k] \in Steps \ {"asked", "slotted"}
    BY <1>11 DEF CancelJobs, Steps
  <2> QED BY <2>1, <2>2, MoveSingle DEF InFlight, Active, Steps
<1>12. CASE DeleteRow(k)
  <2>1. Goto(k, "rowless") /\ UNCHANGED call /\ continuing' = continuing
    BY <1>12 DEF DeleteRow, tables
  <2>2. step[k] \in Steps \ {"asked", "slotted"}
    BY <1>12 DEF DeleteRow, Steps
  <2> QED BY <2>1, <2>2, MoveSingle DEF InFlight, Active, Steps
<1>13. CASE Forget(k)
  <2>1. Goto(k, "forgotten") /\ UNCHANGED call /\ continuing' = continuing
    BY <1>13 DEF Forget, tables
  <2>2. step[k] \in Steps \ {"asked", "slotted"}
    BY <1>13 DEF Forget, Steps
  <2> QED BY <2>1, <2>2, MoveSingle DEF InFlight, Active, Steps
<1>14. CASE ReleaseSlot(k)
  BY <1>14, EndSingle DEF ReleaseSlot, Active, Steps, call
<1> QED BY <1>1, <1>2, <1>3, <1>4, <1>5, <1>6, <1>7, <1>8, <1>9, <1>10, <1>11, <1>12, <1>13, <1>14
    DEF HostStep

LEMMA DropSingle ==
  ASSUME Base, Single, NEW k \in Calls, Drop(k)
  PROVE  Single'
<1>1. \A q \in Calls : \/ step'[q] = step[q]
                       \/ step[q] \in {"started", "looping"} /\ step'[q] = "cleanup"
  BY DEF Drop, Base, TypeOK
<1>2. UNCHANGED call /\ continuing' = continuing
  BY DEF Drop, tables
<1>3. \A q \in Calls : /\ step[q] = "none" <=> step'[q] = "none"
                       /\ InFlight(q)' => InFlight(q)
                       /\ Active(q)' => Active(q)
                       /\ step'[q] = "slotted" => step[q] = "slotted"
  BY <1>1 DEF InFlight, Active, Steps
<1>4. \A q \in Calls : step'[q] = "slotted" => kind[q] = "continue"
  BY <1>3 DEF Single, NotSlotted
<1> QED BY <1>2, <1>3, <1>4, SingleKept

LEMMA RestartSingle ==
  ASSUME Restart
  PROVE  Single'
<1>1. \A q \in Calls : step'[q] \notin Steps
  BY DEF Restart, InFlight, Steps
<1> QED BY <1>1 DEF Single, FreshAlone, Marked, OneContinuation, NotSlotted, InFlight,
           Active, Steps

LEMMA SingleStep ==
  ASSUME "background" \notin Kinds
  PROVE  Base /\ Single /\ [Next]_vars => Single'
<1> SUFFICES ASSUME Base, Single, [Next]_vars PROVE Single'
  OBVIOUS
<1>1. ASSUME NEW k \in Calls, NEW q \in 0..MaxCalls, NEW c \in Children, NEW p \in Sessions,
             NEW kd \in {"foreground", "background"}, Spawn(k, kd, c, p, q)
      PROVE  Single'
  BY <1>1, MakeSingle DEF Spawn
<1>2. ASSUME NEW k \in Calls, NEW q \in 0..MaxCalls, NEW c \in Children, NEW p \in Sessions,
             Continue(k, c, p, q)
      PROVE  Single'
  BY <1>2, MakeSingle DEF Continue, tables
<1>3. ASSUME NEW k \in Calls, HostStep(k) \/ LoopEnds(k) PROVE Single'
  BY <1>3, HostSingle
<1>4. ASSUME NEW k \in Calls, Drop(k) PROVE Single'
  BY <1>4, DropSingle
<1>5. CASE \/ (\E k \in Calls : Kill(k)) \/ (\E r \in Roots : Stop(r))
           \/ UNCHANGED vars
  <2>1. step' = step /\ child' = child /\ kind' = kind /\ continuing' = continuing
    BY <1>5 DEF Kill, Stop, vars, call, tables
  <2> QED BY <2>1 DEF Single, FreshAlone, Marked, OneContinuation, NotSlotted, InFlight,
             Active
<1>6. CASE Restart
  BY <1>6, RestartSingle
<1> QED BY <1>1, <1>2, <1>3, <1>4, <1>5, <1>6, StepKinds

LEMMA SingleInit == Init => Single
  BY DEF Init, Single, FreshAlone, Marked, OneContinuation, NotSlotted, InFlight, Active,
     Steps

(***************************************************************************)
(* While children run in the foreground, a child has one loop at a time,   *)
(* however many messages it is sent (try_begin_continue, "Continue a       *)
(* finished subagent").                                                    *)
(***************************************************************************)
THEOREM OneLoopPerChildHolds ==
  ASSUME "background" \notin Kinds
  PROVE  Spec => []OneLoopPerChild
<1>1. Base /\ Single => OneLoopPerChild
  BY DEF OneLoopPerChild, Single, FreshAlone, OneContinuation, Active, InFlight, Steps
<1>2. Base /\ Single /\ [Next]_vars => (Base /\ Single)'
  BY SingleStep, BaseStep
<1>3. Spec => [](Base /\ Single)
  BY BaseInit, SingleInit, <1>2, PTL DEF Spec
<1> QED BY <1>1, <1>3, PTL

-----------------------------------------------------------------------------
(* Whose budget it is                                                      *)

\* A budget waits for the call that made the child, which has not begun.
Unbegun ==
  /\ \A k \in Calls : step[k] = "none" => signal[k] = None /\ ran[k] = None
  /\ \A c \in Children : limit[c] # None =>
       kind[limit[c]] # "continue" /\ signal[limit[c]] = None
Heirs ==
  \A k \in Calls : Inherits(k) =>
    child[ran[k]] = child[k] /\ step[ran[k]] = "over" /\ signal[ran[k]] = None

Owed == Unbegun /\ Heirs

LEMMA OwedKept ==
  ASSUME Base, Paid, Owed, child' = child, kind' = kind, ran' = ran, signal' = signal,
         \A q \in Calls : (step[q] = "none" <=> step'[q] = "none"),
         \A q \in Calls : step[q] = "over" => step'[q] = "over",
         \A c \in Children : limit'[c] = limit[c] \/ limit'[c] = None
  PROVE  Owed'
<1>1. Unbegun'
  BY DEF Owed, Unbegun
<1>2. Heirs'
  BY DEF Owed, Heirs, Inherits, Paid, Spent, None
<1> QED BY <1>1, <1>2 DEF Owed

LEMMA MakeOwed ==
  ASSUME Base, Paid, Owed, NEW k \in Calls, NEW kd, NEW c \in Children, NEW p, NEW q,
         Make(k, kd, c, p, q), ran' = ran, signal' = signal,
         \/ limit' = limit
         \/ kd # "continue" /\ limit' = [limit EXCEPT ![c] = k]
  PROVE  Owed'
<1>1. /\ step[k] = "none" /\ step'[k] = "asked" /\ child'[k] = c /\ kind'[k] = kd
      /\ \A j \in Calls : j # k =>
           step'[j] = step[j] /\ kind'[j] = kind[j] /\ child'[j] = child[j]
  BY DEF Make, Goto, Base, TypeOK
<1>2. signal[k] = None
  BY <1>1 DEF Owed, Unbegun
<1>3. ASSUME NEW d \in Children, limit'[d] # None
      PROVE  kind'[limit'[d]] # "continue" /\ signal'[limit'[d]] = None
  <2>1. CASE limit'[d] = limit[d]
    <3>1. limit[d] \in Calls /\ limit[d] # k
      BY <1>1, <1>3, <2>1 DEF Paid, Waiting
    <3>2. kind[limit[d]] # "continue" /\ signal[limit[d]] = None
      BY <1>3, <2>1 DEF Owed, Unbegun
    <3>3. kind'[limit[d]] = kind[limit[d]]
      BY <1>1, <3>1
    <3> QED BY <2>1, <3>2, <3>3
  <2>2. CASE limit'[d] # limit[d]
    <3>1. limit'[d] = k /\ kd # "continue"
      BY <2>2 DEF Base, TypeOK
    <3> QED BY <1>1, <1>2, <3>1
  <2> QED BY <2>1, <2>2
<1>4. Unbegun'
  BY <1>1, <1>3 DEF Owed, Unbegun
<1>5. ASSUME NEW j \in Calls, Inherits(j)
      PROVE  child'[ran[j]] = child'[j] /\ step'[ran[j]] = "over" /\ signal[ran[j]] = None
  <2>1. /\ ran[j] \in Calls /\ child[ran[j]] = child[j] /\ step[ran[j]] = "over"
        /\ signal[ran[j]] = None
    BY <1>5 DEF Owed, Heirs, Inherits, Paid, Spent
  <2>2. j # k
    BY <1>1, <1>5 DEF Inherits, Owed, Unbegun
  <2> QED BY <1>1, <2>1, <2>2
<1>6. Heirs'
  BY <1>5 DEF Heirs, Inherits
<1> QED BY <1>4, <1>6 DEF Owed

LEMMA BeginLoopOwed ==
  ASSUME Base, Paid, Single, Owed, NEW k \in Calls, BeginLoop(k)
  PROVE  Owed'
<1> DEFINE c == child[k]
<1>1. /\ step[k] = "started" /\ step' = [step EXCEPT ![k] = "looping"]
      /\ child' = child /\ kind' = kind
      /\ ran' = [ran EXCEPT ![k] = limit[c]] /\ limit' = [limit EXCEPT ![c] = None]
      /\ \E g : signal' = [signal EXCEPT ![k] = g]
  BY DEF BeginLoop, Goto, call
<1>2. c \in Children
  BY <1>1 DEF Base, Placed
<1> HIDE DEF c
<1>3. /\ step'[k] = "looping" /\ ran'[k] = limit[c]
      /\ \A j \in Calls : j # k =>
           step'[j] = step[j] /\ ran'[j] = ran[j] /\ signal'[j] = signal[j]
      /\ limit'[c] = None /\ \A d \in Children : d # c => limit'[d] = limit[d]
  BY <1>1, <1>2 DEF Base, TypeOK
<1>4. ASSUME NEW d \in Children, limit'[d] # None
      PROVE  kind'[limit'[d]] # "continue" /\ signal'[limit'[d]] = None
  <2>1. d # c /\ limit'[d] = limit[d]
    BY <1>2, <1>3, <1>4
  <2>2. limit[d] \in Calls /\ child[limit[d]] = d
    BY <1>4, <2>1 DEF Paid, Waiting
  <2>3. limit[d] # k
    BY <2>1, <2>2 DEF c
  <2> QED BY <1>1, <1>3, <1>4, <2>1, <2>2, <2>3 DEF Owed, Unbegun
<1>5. Unbegun'
  BY <1>3, <1>4 DEF Owed, Unbegun
<1>6. ASSUME limit[c] \notin {None, k}
      PROVE  /\ limit[c] \in Calls /\ child[limit[c]] = c /\ step[limit[c]] = "over"
             /\ signal[limit[c]] = None
  <2>1. /\ limit[c] \in Calls /\ step[limit[c]] # "none" /\ child[limit[c]] = c
        /\ kind[limit[c]] # "continue" /\ signal[limit[c]] = None
    BY <1>2, <1>6 DEF Paid, Waiting, Owed, Unbegun
  <2>2. ~InFlight(limit[c])
    BY <1>1, <1>6, <2>1 DEF Single, FreshAlone, c
  <2>3. step[limit[c]] \in Steps \cup {"none", "over"}
    BY <2>1 DEF Base, TypeOK
  <2> QED BY <2>1, <2>2, <2>3 DEF InFlight
<1>7. ASSUME NEW j \in Calls, ran'[j] \notin {None, j}
      PROVE  child'[ran'[j]] = child'[j] /\ step'[ran'[j]] = "over" /\ signal'[ran'[j]] = None
  <2>1. CASE j = k
    BY <1>1, <1>3, <1>6, <1>7, <2>1 DEF c
  <2>2. CASE j # k
    <3>1. /\ ran[j] \in Calls /\ child[ran[j]] = child[j] /\ step[ran[j]] = "over"
          /\ signal[ran[j]] = None
      BY <1>3, <1>7, <2>2 DEF Owed, Heirs, Inherits, Paid, Spent
    <3> QED BY <1>1, <1>3, <2>2, <3>1
  <2> QED BY <2>1, <2>2
<1>8. Heirs'
  BY <1>7 DEF Heirs, Inherits
<1> QED BY <1>5, <1>8 DEF Owed

LEMMA OwedStep ==
  Base /\ Paid /\ Single /\ Owed /\ [Next]_vars => Owed'
<1> SUFFICES ASSUME Base, Paid, Single, Owed, [Next]_vars PROVE Owed'
  OBVIOUS
<1>1. ASSUME NEW k \in Calls, NEW q \in 0..MaxCalls, NEW c \in Children, NEW p \in Sessions,
             NEW kd \in {"foreground", "background"}, Spawn(k, kd, c, p, q)
      PROVE  Owed'
  BY <1>1, MakeOwed DEF Spawn, signals
<1>2. ASSUME NEW k \in Calls, NEW q \in 0..MaxCalls, NEW c \in Children, NEW p \in Sessions,
             Continue(k, c, p, q)
      PROVE  Owed'
  BY <1>2, MakeOwed DEF Continue, tables, signals
<1>3. ASSUME NEW k \in Calls, HostStep(k) \/ LoopEnds(k), ~BeginLoop(k) PROVE Owed'
  <2>1. ran' = ran /\ limit' = limit /\ signal' = signal
    BY <1>3 DEF HostStep, Refuse, TakeSlot, BeginContinue, NoParent, Publish,
       Register, RunFails, LoopEnds, Export, CancelJobs, DeleteRow, Forget, ReleaseSlot,
       tables, signals, CancelChildren
  <2>2. child' = child /\ kind' = kind
        /\ \A q \in Calls : (step[q] = "none" <=> step'[q] = "none")
    BY <1>3, OthersKept DEF call
  <2>3. step[k] \in Steps /\ \E t : step' = [step EXCEPT ![k] = t]
    BY <1>3 DEF HostStep, Refuse, TakeSlot, BeginContinue, NoParent, Publish, Register,
       BeginLoop, RunFails, LoopEnds, Export, CancelJobs, DeleteRow, Forget, ReleaseSlot,
       Goto, Steps
  <2>4. \A q \in Calls : step[q] = "over" => step'[q] = "over"
    BY <2>3 DEF Base, TypeOK, Steps
  <2> QED BY <2>1, <2>2, <2>4, OwedKept
<1>4. CASE (\E k \in Calls : Drop(k) \/ Kill(k)) \/ (\E r \in Roots : Stop(r)) \/ Restart
  <2>1. child' = child /\ kind' = kind
        /\ \A q \in Calls : (step[q] = "none" <=> step'[q] = "none")
    BY <1>4, OthersKept DEF call
  <2>2. /\ ran' = ran /\ signal' = signal
        /\ limit' = limit \/ \A c \in Children : limit'[c] = None
    BY <1>4 DEF Drop, Kill, Stop, Restart, tables, signals
  <2>3. \A q \in Calls : step[q] = "over" => step'[q] = "over"
    <3>1. step \in [Calls -> Steps \cup {"none", "over"}]
      BY DEF Base, TypeOK
    <3>2. CASE (\E k \in Calls : Kill(k)) \/ (\E r \in Roots : Stop(r))
      BY <3>2 DEF Kill, Stop
    <3>3. CASE Restart
      BY <3>1, <3>3 DEF Restart
    <3>4. ASSUME NEW k \in Calls, Drop(k)
          PROVE  \A q \in Calls : step[q] = "over" => step'[q] = "over"
      BY <3>1, <3>4 DEF Drop
    <3> QED BY <1>4, <3>2, <3>3, <3>4
  <2> QED BY <2>1, <2>2, <2>3, OwedKept
<1>5. CASE UNCHANGED vars
  BY <1>5, OwedKept DEF vars, call, tables, signals
<1> QED BY <1>1, <1>2, <1>3, <1>4, <1>5, BeginLoopOwed, StepKinds

LEMMA OwedInit == Init => Owed
  BY DEF Init, Owed, Unbegun, Heirs, Inherits

(***************************************************************************)
(* While children run in the foreground, a loop runs under the budget of   *)
(* its own call, or under the one that the call which made the child left  *)
(* behind when it ended before its loop, and then as the only one.         *)
(***************************************************************************)
THEOREM BudgetSpentOnceHolds ==
  ASSUME "background" \notin Kinds
  PROVE  Spec => []BudgetSpentOnce
<1>1. Paid /\ Owed => BudgetSpentOnce
  BY DEF Paid, Owed, Heirs, BudgetSpentOnce
<1>2. Base /\ Paid /\ Single /\ Owed /\ [Next]_vars => (Base /\ Paid /\ Single /\ Owed)'
  BY BaseStep, PaidStep, SingleStep, OwedStep
<1>3. Spec => [](Base /\ Paid /\ Single /\ Owed)
  BY BaseInit, PaidInit, SingleInit, OwedInit, <1>2, PTL DEF Spec
<1> QED BY <1>1, <1>3, PTL

-----------------------------------------------------------------------------
(* Cancelling                                                              *)

OneCallPerChild ==
  \A k, q \in Calls : step[k] # "none" /\ step[q] # "none" /\ child[k] = child[q] => k = q
SignalOwned ==
  \A c \in Children : signalOf[c] # None => \E k \in Calls : step[k] # "none" /\ child[k] = c
Made == \A k \in cancelled : step[k] # "none"
\* Before its signal is registered a call cannot be cancelled ...
Early ==
  \A k \in Calls : step[k] \in {"asked", "slotted", "single"} =>
    signalOf[child[k]] = None /\ k \notin cancelled
\* ... then the signal under the child's id is raised ...
Registered ==
  \A k \in cancelled : step[k] \in {"published", "started"} => signalOf[child[k]] \in raised
\* ... which is the one the loop polls.
Polled == \A k \in Calls : step[k] = "looping" => signal[k] = signalOf[child[k]]

Hearing ==
  OneCallPerChild /\ SignalOwned /\ Made /\ Early /\ Registered /\ Polled /\ CancelIsHeard

\* Steps of a call that leave the signals alone.
LEMMA MoveHearing ==
  ASSUME Base, Hearing, UNCHANGED <<call, signals>>,
         \A q \in Calls : (step[q] = "none" <=> step'[q] = "none"),
         \A q \in Calls : step'[q] = "looping" => step[q] = "looping",
         \A q \in Calls : step'[q] \in {"published", "started"} =>
                            step[q] \in {"published", "started"},
         \A q \in Calls : step'[q] \in {"asked", "slotted", "single"} =>
                            step[q] \in {"asked", "slotted", "single"}
  PROVE  Hearing'
<1>1. /\ child' = child /\ signalOf' = signalOf /\ signal' = signal /\ raised' = raised
      /\ cancelled' = cancelled
  BY DEF call, signals
<1>2. OneCallPerChild' /\ SignalOwned' /\ Made' /\ Early'
  BY <1>1 DEF Hearing, OneCallPerChild, SignalOwned, Made, Early, Base, TypeOK
<1>3. Registered' /\ Polled' /\ CancelIsHeard'
  BY <1>1 DEF Hearing, Registered, Polled, CancelIsHeard, Base, TypeOK
<1> QED BY <1>2, <1>3 DEF Hearing

LEMMA GotoHearing ==
  ASSUME Base, Hearing, NEW k \in Calls, NEW t \in Steps \cup {"over"}, Goto(k, t),
         UNCHANGED <<call, signals>>, step[k] \in Steps, t # "looping",
         t \in {"published", "started"} => step[k] \in {"published", "started"},
         t \in {"asked", "slotted", "single"} => step[k] \in {"asked", "slotted", "single"}
  PROVE  Hearing'
<1>1. step'[k] = t /\ \A q \in Calls : q # k => step'[q] = step[q]
  BY DEF Goto, Base, TypeOK
<1>2. \A q \in Calls :
        /\ step[q] = "none" <=> step'[q] = "none"
        /\ step'[q] = "looping" => step[q] = "looping"
        /\ step'[q] \in {"published", "started"} => step[q] \in {"published", "started"}
        /\ step'[q] \in {"asked", "slotted", "single"} =>
             step[q] \in {"asked", "slotted", "single"}
  BY <1>1 DEF Steps
<1> QED BY <1>2, MoveHearing

\* A signal that is raised for some calls.
LEMMA CancelHearing ==
  ASSUME Base, Hearing, NEW Q \in SUBSET {q \in Calls : InFlight(q)}, CancelChildren(Q),
         step' = step, UNCHANGED call, signalOf' = signalOf, signal' = signal
  PROVE  Hearing'
<1>1. child' = child /\ raised \subseteq raised' /\ cancelled \subseteq Calls
  BY DEF call, CancelChildren, Base, TypeOK
<1>2. \A k \in cancelled' \ cancelled :
        /\ k \in Calls /\ InFlight(k) /\ signalOf[child[k]] # None
        /\ signalOf[child[k]] \in raised'
  BY DEF CancelChildren
<1>3. OneCallPerChild' /\ SignalOwned' /\ Polled'
  BY <1>1 DEF Hearing, OneCallPerChild, SignalOwned, Polled
<1>4. Made'
  BY <1>1, <1>2 DEF Hearing, Made, InFlight, Steps
<1>5. Early'
  BY <1>1, <1>2 DEF Hearing, Early
<1>6. Registered'
  BY <1>1, <1>2 DEF Hearing, Registered
<1>7. CancelIsHeard'
  BY <1>1, <1>2 DEF Hearing, Polled, CancelIsHeard
<1> QED BY <1>3, <1>4, <1>5, <1>6, <1>7 DEF Hearing

LEMMA SpawnHearing ==
  ASSUME Base, Hearing, NEW k \in Calls, NEW kd \in Kinds, NEW c \in Children, NEW p, NEW q,
         Make(k, kd, c, p, q), \A j \in Calls : child[j] # c, UNCHANGED signals
  PROVE  Hearing'
<1>1. /\ step[k] = "none" /\ step' = [step EXCEPT ![k] = "asked"]
      /\ child' = [child EXCEPT ![k] = c]
  BY DEF Make, Goto
<1>2. /\ step'[k] = "asked" /\ child'[k] = c
      /\ \A j \in Calls : j # k => step'[j] = step[j] /\ child'[j] = child[j]
  BY <1>1 DEF Base, TypeOK
<1>3. /\ signalOf' = signalOf /\ signal' = signal /\ raised' = raised
      /\ cancelled' = cancelled /\ cancelled \subseteq Calls
  BY DEF signals, Base, TypeOK
<1>4. k \notin cancelled /\ signalOf[c] = None
  BY <1>1 DEF Hearing, Made, SignalOwned
<1>5. OneCallPerChild'
  BY <1>2 DEF Hearing, OneCallPerChild
<1>6. SignalOwned'
  <2> SUFFICES ASSUME NEW d \in Children, signalOf[d] # None
               PROVE  \E j \in Calls : step'[j] # "none" /\ child'[j] = d
    BY <1>3 DEF SignalOwned
  <2>1. PICK j \in Calls : step[j] # "none" /\ child[j] = d
    BY DEF Hearing, SignalOwned
  <2> QED BY <1>1, <1>2, <2>1
<1>7. Made' /\ Early' /\ Registered' /\ Polled' /\ CancelIsHeard'
  BY <1>2, <1>3, <1>4 DEF Hearing, Made, Early, Registered, Polled, CancelIsHeard
<1> QED BY <1>5, <1>6, <1>7 DEF Hearing

\* The signal is registered under the child's id, if there was none.
LEMMA PublishHearing ==
  ASSUME Base, Hearing, NEW k \in Calls, Publish(k)
  PROVE  Hearing'
<1> DEFINE c == child[k]
<1>1. /\ step[k] = "single" /\ step' = [step EXCEPT ![k] = "published"] /\ child' = child
      /\ signalOf' = [signalOf EXCEPT ![c] = IF @ = None THEN k ELSE @]
      /\ signal' = signal /\ raised' = raised /\ cancelled' = cancelled
  BY DEF Publish, Goto, call
<1>2. c \in Children /\ signalOf[c] = None /\ k \notin cancelled
  BY <1>1 DEF Base, Placed, Hearing, Early
<1>3. /\ step'[k] = "published"
      /\ \A q \in Calls : q # k => step'[q] = step[q]
  BY <1>1 DEF Base, TypeOK
<1>4. \A q \in Calls : q # k /\ step[q] # "none" => child[q] # c
  BY <1>1 DEF Hearing, OneCallPerChild
<1>5. \A d \in Children : d # c => signalOf'[d] = signalOf[d]
  BY <1>1 DEF Base, TypeOK
<1>6. \A q \in Calls : step[q] # "none" => child[q] \in Children
  BY DEF Base, Placed
<1> HIDE DEF c
<1>7. OneCallPerChild' /\ Made'
  BY <1>1, <1>3 DEF Hearing, OneCallPerChild, Made, Base, TypeOK
<1>8. SignalOwned'
  <2> SUFFICES ASSUME NEW d \in Children, signalOf'[d] # None
               PROVE  \E j \in Calls : step'[j] # "none" /\ child'[j] = d
    BY DEF SignalOwned
  <2>1. CASE d = c
    BY <1>1, <1>3, <2>1 DEF c
  <2>2. CASE d # c
    <3>1. PICK j \in Calls : step[j] # "none" /\ child[j] = d
      BY <1>5, <2>2 DEF Hearing, SignalOwned
    <3> QED BY <1>1, <1>3, <3>1
  <2> QED BY <2>1, <2>2
<1>9. Early' /\ Registered' /\ Polled' /\ CancelIsHeard'
  BY <1>1, <1>2, <1>3, <1>4, <1>5, <1>6
     DEF Hearing, Early, Registered, Polled, CancelIsHeard, Base, TypeOK
<1> QED BY <1>7, <1>8, <1>9 DEF Hearing

\* The runner takes over the signal it finds under the id.
LEMMA BeginLoopHearing ==
  ASSUME Base, Hearing, NEW k \in Calls, BeginLoop(k)
  PROVE  Hearing'
<1> DEFINE c == child[k]
<1>1. /\ step[k] = "started" /\ step' = [step EXCEPT ![k] = "looping"] /\ child' = child
      /\ signalOf' = [signalOf EXCEPT ![c] = IF @ = None THEN k ELSE @]
      /\ signal' = [signal EXCEPT ![k] = signalOf'[c]]
      /\ raised' = raised /\ cancelled' = cancelled
  BY DEF BeginLoop, Goto, call
<1>2. c \in Children
  BY <1>1 DEF Base, Placed
<1>3. /\ step'[k] = "looping" /\ signal'[k] = signalOf'[c]
      /\ \A q \in Calls : q # k => step'[q] = step[q] /\ signal'[q] = signal[q]
  BY <1>1 DEF Base, TypeOK
<1>4. \A q \in Calls : q # k /\ step[q] # "none" => child[q] # c
  BY <1>1 DEF Hearing, OneCallPerChild
<1>5. \A d \in Children : d # c => signalOf'[d] = signalOf[d]
  BY <1>1 DEF Base, TypeOK
<1>6. \A q \in Calls : step[q] # "none" => child[q] \in Children
  BY DEF Base, Placed
<1>7. k \in cancelled => signalOf'[c] \in raised
  <2>1. k \in cancelled => signalOf[c] \in raised
    BY <1>1 DEF Hearing, Registered
  <2>2. None \notin raised
    BY DEF Base, TypeOK, Calls, None
  <2>3. signalOf[c] # None => signalOf'[c] = signalOf[c]
    BY <1>1, <1>2 DEF Base, TypeOK
  <2> QED BY <2>1, <2>2, <2>3
<1>8. child'[k] = c
  BY <1>1
<1> HIDE DEF c
<1>9. OneCallPerChild' /\ Made'
  BY <1>1, <1>3 DEF Hearing, OneCallPerChild, Made, Base, TypeOK
<1>10. SignalOwned'
  <2> SUFFICES ASSUME NEW d \in Children, signalOf'[d] # None
               PROVE  \E j \in Calls : step'[j] # "none" /\ child'[j] = d
    BY DEF SignalOwned
  <2>1. CASE d = c
    BY <1>3, <1>8, <2>1
  <2>2. CASE d # c
    <3>1. PICK j \in Calls : step[j] # "none" /\ child[j] = d
      BY <1>5, <2>2 DEF Hearing, SignalOwned
    <3> QED BY <1>1, <1>3, <3>1
  <2> QED BY <2>1, <2>2
<1>11. Early' /\ Registered'
  BY <1>1, <1>3, <1>4, <1>5, <1>6 DEF Hearing, Early, Registered, Base, TypeOK
<1>12. Polled' /\ CancelIsHeard'
  BY <1>1, <1>3, <1>4, <1>5, <1>6, <1>7, <1>8
     DEF Hearing, Polled, CancelIsHeard, Base, TypeOK
<1> QED BY <1>9, <1>10, <1>11, <1>12 DEF Hearing

\* The loop is over and its signal removed.
LEMMA LoopEndsHearing ==
  ASSUME Base, Hearing, NEW k \in Calls, LoopEnds(k)
  PROVE  Hearing'
<1> DEFINE c == child[k]
<1>1. /\ step[k] = "looping" /\ step' = [step EXCEPT ![k] = "returned"] /\ child' = child
      /\ signalOf' = [signalOf EXCEPT ![c] = None]
      /\ signal' = signal /\ raised' = raised /\ cancelled' = cancelled
  BY DEF LoopEnds, Goto, call
<1>2. c \in Children
  BY <1>1 DEF Base, Placed
<1>3. /\ step'[k] = "returned" /\ \A q \in Calls : q # k => step'[q] = step[q]
  BY <1>1 DEF Base, TypeOK
<1>4. \A q \in Calls : q # k /\ step[q] # "none" => child[q] # c
  BY <1>1 DEF Hearing, OneCallPerChild
<1>5. signalOf'[c] = None /\ \A d \in Children : d # c => signalOf'[d] = signalOf[d]
  BY <1>1, <1>2 DEF Base, TypeOK
<1>6. \A q \in Calls : step[q] # "none" => child[q] \in Children
  BY DEF Base, Placed
<1> HIDE DEF c
<1>7. OneCallPerChild' /\ Made'
  BY <1>1, <1>3 DEF Hearing, OneCallPerChild, Made, Base, TypeOK
<1>8. SignalOwned'
  <2> SUFFICES ASSUME NEW d \in Children, signalOf'[d] # None
               PROVE  \E j \in Calls : step'[j] # "none" /\ child'[j] = d
    BY DEF SignalOwned
  <2>1. PICK j \in Calls : step[j] # "none" /\ child[j] = d
    BY <1>5 DEF Hearing, SignalOwned
  <2> QED BY <1>1, <1>3, <2>1
<1>9. Early' /\ Registered' /\ Polled' /\ CancelIsHeard'
  BY <1>1, <1>3, <1>4, <1>5, <1>6
     DEF Hearing, Early, Registered, Polled, CancelIsHeard, Base, TypeOK
<1> QED BY <1>7, <1>8, <1>9 DEF Hearing

LEMMA CancelJobsHearing ==
  ASSUME Base, Hearing, NEW k \in Calls, CancelJobs(k)
  PROVE  Hearing'
<1>1. /\ step[k] = "cleanup" /\ step' = [step EXCEPT ![k] = "jobless"]
      /\ child' = child /\ signalOf' = signalOf /\ signal' = signal
      /\ CancelChildren(JobsOf(child[k]))
  BY DEF CancelJobs, Goto, call
<1>2. /\ step'[k] = "jobless" /\ \A q \in Calls : q # k => step'[q] = step[q]
  BY <1>1 DEF Base, TypeOK
<1>3. /\ raised \subseteq raised' /\ cancelled \subseteq Calls
      /\ \A q \in cancelled' \ cancelled :
           /\ q \in Calls /\ InFlight(q) /\ signalOf[child[q]] # None
           /\ signalOf[child[q]] \in raised'
  BY <1>1 DEF CancelChildren, JobsOf, Base, TypeOK
<1>4. OneCallPerChild' /\ SignalOwned' /\ Polled'
  BY <1>1, <1>2 DEF Hearing, OneCallPerChild, SignalOwned, Polled
<1>5. Made' /\ Early'
  BY <1>1, <1>2, <1>3 DEF Hearing, Made, Early, InFlight, Steps
<1>6. Registered'
  BY <1>1, <1>2, <1>3 DEF Hearing, Registered
<1>7. CancelIsHeard'
  BY <1>1, <1>2, <1>3 DEF Hearing, Polled, CancelIsHeard
<1> QED BY <1>4, <1>5, <1>6, <1>7 DEF Hearing

LEMMA HostHearing ==
  ASSUME Base, Hearing, NEW k \in Calls, HostStep(k) \/ LoopEnds(k)
  PROVE  Hearing'
<1>1. CASE Refuse(k)
  <2>1. (Goto(k, "over")) /\ UNCHANGED <<call, signals>>
    BY <1>1 DEF Refuse
  <2>2. step[k] \in Steps
    BY <1>1 DEF Refuse, Steps
  <2> QED BY <1>1, <2>1, <2>2, GotoHearing DEF Refuse, Steps
<1>2. CASE TakeSlot(k)
  <2>1. (\E t \in {"slotted", "single"} : Goto(k, t)) /\ UNCHANGED <<call, signals>>
    BY <1>2 DEF TakeSlot
  <2>2. step[k] \in Steps
    BY <1>2 DEF TakeSlot, Steps
  <2> QED BY <1>2, <2>1, <2>2, GotoHearing DEF TakeSlot, Steps
<1>3. CASE BeginContinue(k)
  <2>1. (\E t \in {"single", "over"} : Goto(k, t)) /\ UNCHANGED <<call, signals>>
    BY <1>3 DEF BeginContinue
  <2>2. step[k] \in Steps
    BY <1>3 DEF BeginContinue, Steps
  <2> QED BY <1>3, <2>1, <2>2, GotoHearing DEF BeginContinue, Steps
<1>4. CASE NoParent(k)
  <2>1. (Goto(k, "over")) /\ UNCHANGED <<call, signals>>
    BY <1>4 DEF NoParent
  <2>2. step[k] \in Steps
    BY <1>4 DEF NoParent, Steps
  <2> QED BY <1>4, <2>1, <2>2, GotoHearing DEF NoParent, Steps
<1>5. CASE Publish(k)
  BY <1>5, PublishHearing
<1>6. CASE Register(k)
  <2>1. (Goto(k, "started")) /\ UNCHANGED <<call, signals>>
    BY <1>6 DEF Register
  <2>2. step[k] \in Steps
    BY <1>6 DEF Register, Steps
  <2> QED BY <1>6, <2>1, <2>2, GotoHearing DEF Register, Steps
<1>7. CASE BeginLoop(k)
  BY <1>7, BeginLoopHearing
<1>8. CASE RunFails(k)
  <2>1. (Goto(k, "returned")) /\ UNCHANGED <<call, signals>>
    BY <1>8 DEF RunFails
  <2>2. step[k] \in Steps
    BY <1>8 DEF RunFails, Steps
  <2> QED BY <1>8, <2>1, <2>2, GotoHearing DEF RunFails, Steps
<1>9. CASE LoopEnds(k)
  BY <1>9, LoopEndsHearing
<1>10. CASE Export(k)
  <2>1. (Goto(k, "cleanup")) /\ UNCHANGED <<call, signals>>
    BY <1>10 DEF Export
  <2>2. step[k] \in Steps
    BY <1>10 DEF Export, Steps
  <2> QED BY <1>10, <2>1, <2>2, GotoHearing DEF Export, Steps
<1>11. CASE CancelJobs(k)
  BY <1>11, CancelJobsHearing
<1>12. CASE DeleteRow(k)
  <2>1. (Goto(k, "rowless")) /\ UNCHANGED <<call, signals>>
    BY <1>12 DEF DeleteRow
  <2>2. step[k] \in Steps
    BY <1>12 DEF DeleteRow, Steps
  <2> QED BY <1>12, <2>1, <2>2, GotoHearing DEF DeleteRow, Steps
<1>13. CASE Forget(k)
  <2>1. (Goto(k, "forgotten")) /\ UNCHANGED <<call, signals>>
    BY <1>13 DEF Forget
  <2>2. step[k] \in Steps
    BY <1>13 DEF Forget, Steps
  <2> QED BY <1>13, <2>1, <2>2, GotoHearing DEF Forget, Steps
<1>14. CASE ReleaseSlot(k)
  <2>1. (Goto(k, "over")) /\ UNCHANGED <<call, signals>>
    BY <1>14 DEF ReleaseSlot
  <2>2. step[k] \in Steps
    BY <1>14 DEF ReleaseSlot, Steps
  <2> QED BY <1>14, <2>1, <2>2, GotoHearing DEF ReleaseSlot, Steps
<1> QED BY <1>1, <1>2, <1>3, <1>4, <1>5, <1>6, <1>7, <1>8, <1>9, <1>10, <1>11, <1>12, <1>13, <1>14
    DEF HostStep

LEMMA HearingStep ==
  ASSUME "continue" \notin Kinds
  PROVE  Base /\ Hearing /\ [Next]_vars => Hearing'
<1> SUFFICES ASSUME Base, Hearing, [Next]_vars PROVE Hearing'
  OBVIOUS
<1>1. ASSUME NEW k \in Calls, NEW q \in 0..MaxCalls, NEW c \in Children, NEW p \in Sessions,
             NEW kd \in {"foreground", "background"}, Spawn(k, kd, c, p, q)
      PROVE  Hearing'
  BY <1>1, SpawnHearing DEF Spawn
<1>2. ASSUME NEW k \in Calls, NEW q \in 0..MaxCalls, NEW c \in Children, NEW p \in Sessions,
             Continue(k, c, p, q)
      PROVE  FALSE
  BY <1>2 DEF Continue
<1>3. ASSUME NEW k \in Calls, HostStep(k) \/ LoopEnds(k) PROVE Hearing'
  BY <1>3, HostHearing
<1>4. ASSUME NEW k \in Calls, Drop(k) PROVE Hearing'
  <2>1. \A q \in Calls : \/ step'[q] = step[q]
                         \/ step[q] \in {"started", "looping"} /\ step'[q] = "cleanup"
    BY <1>4 DEF Drop, Base, TypeOK
  <2>2. UNCHANGED <<call, signals>>
    BY <1>4 DEF Drop
  <2> QED BY <2>1, <2>2, MoveHearing
<1>5. ASSUME NEW k \in Calls, Kill(k) PROVE Hearing'
  <2>1. {k} \in SUBSET {q \in Calls : InFlight(q)}
    BY <1>5 DEF Kill, JobsOf
  <2> QED BY <1>5, <2>1, CancelHearing DEF Kill
<1>6. ASSUME NEW r \in Roots, Stop(r) PROVE Hearing'
  <2> DEFINE Q == JobsOf(r) \cup {q \in Calls : InFlight(q) /\ child[q] \in kids[r]}
  <2>1. Q \in SUBSET {q \in Calls : InFlight(q)}
    BY DEF JobsOf
  <2>2. /\ CancelChildren(Q) /\ step' = step /\ UNCHANGED call /\ signalOf' = signalOf
        /\ signal' = signal
    BY <1>6 DEF Stop
  <2> HIDE DEF Q
  <2> QED BY <2>1, <2>2, CancelHearing
<1>7. CASE Restart
  <2>1. /\ child' = child /\ cancelled' = {} /\ \A q \in Calls : step'[q] \notin Steps
        /\ signalOf' = [c \in Children |-> None]
        /\ \A q \in Calls : (step[q] = "none" <=> step'[q] = "none")
    BY <1>7 DEF Restart, call, InFlight, Steps
  <2> QED BY <2>1 DEF Hearing, OneCallPerChild, SignalOwned, Made, Early, Registered, Polled,
             CancelIsHeard, Steps
<1>8. CASE UNCHANGED vars
  BY <1>8, MoveHearing DEF vars
<1> QED BY <1>1, <1>2, <1>3, <1>4, <1>5, <1>6, <1>7, <1>8, StepKinds

LEMMA HearingInit == Init => Hearing
  BY DEF Init, Hearing, OneCallPerChild, SignalOwned, Made, Early, Registered, Polled,
     CancelIsHeard

(***************************************************************************)
(* Without continuations, no child that was cancelled once its signal was  *)
(* registered (run_child's pre-registration, cancel_child) loops on        *)
(* unheard, for any depth, slots, kills, stops and drops.                  *)
(***************************************************************************)
THEOREM CancelIsHeardHolds ==
  ASSUME "continue" \notin Kinds
  PROVE  Spec => []CancelIsHeard
<1>1. Base /\ Hearing /\ [Next]_vars => (Base /\ Hearing)'
  BY HearingStep, BaseStep
<1>2. Spec => [](Base /\ Hearing)
  BY BaseInit, HearingInit, <1>1, PTL DEF Spec
<1> QED BY <1>2, PTL DEF Hearing

-----------------------------------------------------------------------------
(* Depth                                                                   *)

\* While the child of a call has its row, and once its call has looped.
Live == {"published", "started", "looping", "returned", "cleanup", "jobless"}
Begun == {"looping", "returned", "cleanup", "jobless", "rowless", "forgotten", "over"}

\* A call is one level below the call whose loop made it.
Nested(k) == given[k] = IF by[k] = None THEN 1 ELSE given[by[k]] + 1

(***************************************************************************)
(* Calls are made one after the other, by a loop of the parent; a row has  *)
(* a call of its child in flight, and DEPTHS says what that call was given.*)
(* A call that has its slot was given its level, unless its caller's child *)
(* has lost its row meanwhile; one that was published, or called others,   *)
(* was.                                                                    *)
(***************************************************************************)
InOrder ==
  \A k \in Calls : step[k] # "none" => \A j \in Calls : j < k => step[j] # "none"
Called ==
  \A k \in Calls :
    IF by[k] = None THEN step[k] # "none" => parent[k] \in Roots
    ELSE /\ step[k] # "none" /\ by[k] \in Calls /\ by[k] < k
         /\ parent[k] = child[by[k]] /\ step[by[k]] \in Begun
RowOwned == \A c \in rows : \E q \in Calls : child[q] = c /\ step[q] \in Live
DepthKept == \A q \in Calls : step[q] \in Live \cup {"rowless"} => depth[child[q]] = given[q]
Handed ==
  \A k \in Calls :
    step[k] \in {"slotted", "single"} /\ (by[k] = None \/ step[by[k]] \in Live) => Nested(k)
Deeper ==
  \A k \in Calls : step[k] \in Live \/ (\E j \in Calls : by[j] = k) => Nested(k)

Deep == InOrder /\ Called /\ RowOwned /\ DepthKept /\ Handed /\ Deeper

OneActive == \A k, q \in Calls : Active(k) /\ Active(q) /\ child[k] = child[q] => k = q

\* Steps that leave depths and rows alone.
LEMMA MoveDeep ==
  ASSUME Base, Deep, UNCHANGED <<call, given, depth, rows>>,
         \A q \in Calls : /\ step[q] = "none" <=> step'[q] = "none"
                          /\ step[q] \in Live <=> step'[q] \in Live
                          /\ step[q] \in Begun => step'[q] \in Begun
                          /\ step'[q] = "rowless" => step[q] = "rowless"
                          /\ step'[q] \in {"slotted", "single"} =>
                               step[q] \in {"slotted", "single"}
  PROVE  Deep'
<1>1. child' = child /\ parent' = parent /\ by' = by
  BY DEF call
<1>2. InOrder'
  BY DEF Deep, InOrder
<1>3. Called'
  BY <1>1 DEF Deep, Called
<1>4. RowOwned' /\ DepthKept'
  BY <1>1 DEF Deep, RowOwned, DepthKept
<1>5. Handed'
  <2> SUFFICES ASSUME NEW k \in Calls, step'[k] \in {"slotted", "single"},
                      by[k] = None \/ step'[by[k]] \in Live
               PROVE  Nested(k)
    BY <1>1 DEF Handed, Nested
  <2>1. by[k] = None \/ by[k] \in Calls
    BY DEF Deep, Called
  <2> QED BY <2>1 DEF Deep, Handed
<1>6. Deeper'
  BY <1>1 DEF Deep, Deeper, Nested
<1> QED BY <1>2, <1>3, <1>4, <1>5, <1>6 DEF Deep

\* The same, of one call.
LEMMA GotoDeep ==
  ASSUME Base, Deep, NEW k \in Calls, NEW t \in Steps \cup {"over"}, Goto(k, t),
         UNCHANGED <<call, given, depth, rows>>, step[k] \in Steps, t # "rowless",
         step[k] \in Live <=> t \in Live, step[k] \in Begun => t \in Begun,
         t \in {"slotted", "single"} => step[k] \in {"slotted", "single"}
  PROVE  Deep'
<1>1. step'[k] = t /\ \A q \in Calls : q # k => step'[q] = step[q]
  BY DEF Goto, Base, TypeOK
<1>2. \A q \in Calls :
        /\ step[q] = "none" <=> step'[q] = "none"
        /\ step[q] \in Live <=> step'[q] \in Live
        /\ step[q] \in Begun => step'[q] \in Begun
        /\ step'[q] = "rowless" => step[q] = "rowless"
        /\ step'[q] \in {"slotted", "single"} => step[q] \in {"slotted", "single"}
  BY <1>1 DEF Steps
<1> QED BY <1>2, MoveDeep

\* A loop calls: the new call is the last one, and asks for its slot yet.
LEMMA MakeDeep ==
  ASSUME Base, Deep, NEW k \in Calls, NEW kd, NEW c, NEW p \in Sessions,
         NEW q \in 0..MaxCalls, Make(k, kd, c, p, q), Caller(p, q),
         UNCHANGED <<given, depth, rows>>
  PROVE  Deep'
<1>1. /\ step[k] = "none" /\ step' = [step EXCEPT ![k] = "asked"]
      /\ child' = [child EXCEPT ![k] = c] /\ parent' = [parent EXCEPT ![k] = p]
      /\ by' = [by EXCEPT ![k] = q] /\ \A j \in Calls : j < k => step[j] # "none"
  BY DEF Make, Goto
<1>2. /\ step'[k] = "asked" /\ child'[k] = c /\ parent'[k] = p /\ by'[k] = q
      /\ \A j \in Calls : j # k => /\ step'[j] = step[j] /\ child'[j] = child[j]
                                   /\ parent'[j] = parent[j] /\ by'[j] = by[j]
  BY <1>1 DEF Base, TypeOK
<1>3. \/ p \in Roots /\ q = None
      \/ q \in Calls /\ q # None /\ q # k /\ step[q] = "looping" /\ child[q] = p
  BY <1>1, BoundsTyped DEF Caller, Calls, None
<1>4. q # None => q < k
  <2>1. CASE q # None /\ k < q
    BY <1>1, <1>3, <2>1 DEF Deep, InOrder
  <2> QED BY <1>3, <2>1, BoundsTyped DEF Calls
<1>5. \A j \in Calls : by[j] # k
  BY <1>1, BoundsTyped DEF Deep, Called, Begun, Calls, None
<1>6. InOrder'
  <2> SUFFICES ASSUME NEW i \in Calls, step'[i] # "none", NEW j \in Calls, j < i
               PROVE  step'[j] # "none"
    BY DEF InOrder
  <2> QED BY <1>1, <1>2 DEF Deep, InOrder
<1>7. Called'
  <2> SUFFICES ASSUME NEW j \in Calls
               PROVE  IF by'[j] = None THEN step'[j] # "none" => parent'[j] \in Roots
                      ELSE /\ step'[j] # "none" /\ by'[j] \in Calls /\ by'[j] < j
                           /\ parent'[j] = child'[by'[j]] /\ step'[by'[j]] \in Begun
    BY DEF Called
  <2>1. CASE j = k
    BY <1>2, <1>3, <1>4, <2>1 DEF Begun
  <2>2. CASE j # k
    <3>1. by'[j] = by[j] /\ parent'[j] = parent[j] /\ step'[j] = step[j]
      BY <1>2, <2>2
    <3>2. CASE by[j] = None
      BY <3>1, <3>2 DEF Deep, Called
    <3>3. CASE by[j] # None
      <4>1. by[j] \in Calls /\ by[j] # k /\ step[by[j]] \in Begun
        BY <1>5, <3>3 DEF Deep, Called
      <4> QED BY <1>2, <3>1, <3>3, <4>1 DEF Deep, Called
    <3> QED BY <3>2, <3>3
  <2> QED BY <2>1, <2>2
<1>8. RowOwned'
  <2> SUFFICES ASSUME NEW d \in rows PROVE \E j \in Calls : child'[j] = d /\ step'[j] \in Live
    BY DEF RowOwned
  <2>1. PICK j \in Calls : child[j] = d /\ step[j] \in Live
    BY DEF Deep, RowOwned
  <2> QED BY <1>1, <1>2, <2>1 DEF Live
<1>9. DepthKept'
  BY <1>2 DEF Deep, DepthKept, Live
<1>10. \A j \in Calls : j # k => Nested(j)' = Nested(j)
  BY <1>2 DEF Nested
<1>11. Handed'
  <2> SUFFICES ASSUME NEW j \in Calls, step'[j] \in {"slotted", "single"},
                      by'[j] = None \/ step'[by'[j]] \in Live
               PROVE  Nested(j)'
    BY DEF Handed
  <2>1. j # k /\ by'[j] = by[j] /\ step'[j] = step[j]
    BY <1>2
  <2>2. by[j] = None \/ (by[j] \in Calls /\ by[j] # k)
    BY <1>5 DEF Deep, Called
  <2> QED BY <1>2, <1>10, <2>1, <2>2 DEF Deep, Handed
<1>12. Deeper'
  <2> SUFFICES ASSUME NEW j \in Calls,
                      step'[j] \in Live \/ (\E i \in Calls : by'[i] = j)
               PROVE  Nested(j)'
    BY DEF Deeper
  <2>1. CASE j = k
    <3>1. step'[j] \notin Live
      BY <1>2, <2>1 DEF Live
    <3>2. PICK i \in Calls : by'[i] = j
      BY <3>1
    <3> QED BY <1>2, <1>3, <1>5, <2>1, <3>2, BoundsTyped DEF Calls, None
  <2>2. CASE j # k
    <3>1. step[j] \in Live \/ \E i \in Calls : by[i] = j
      <4>1. CASE step'[j] \in Live
        BY <1>2, <2>2, <4>1
      <4>2. CASE \E i \in Calls : by'[i] = j
        <5>1. PICK i \in Calls : by'[i] = j
          BY <4>2
        <5>2. CASE i = k
          BY <1>2, <1>3, <5>1, <5>2, BoundsTyped DEF Live, Calls, None
        <5>3. CASE i # k
          BY <1>2, <5>1, <5>3
        <5> QED BY <5>2, <5>3
      <4> QED BY <4>1, <4>2
    <3> QED BY <1>10, <2>2, <3>1 DEF Deep, Deeper
  <2> QED BY <2>1, <2>2
<1> QED BY <1>6, <1>7, <1>8, <1>9, <1>11, <1>12 DEF Deep

\* A call that gets its slot is given a level below its caller's child.
LEMMA TakeSlotDeep ==
  ASSUME Base, Deep, NEW k \in Calls, TakeSlot(k)
  PROVE  Deep'
<1>1. /\ step[k] = "asked" /\ step'[k] \in {"slotted", "single"}
      /\ \A q \in Calls : q # k => step'[q] = step[q]
  BY DEF TakeSlot, Goto, Base, TypeOK
<1>2. /\ child' = child /\ parent' = parent /\ by' = by /\ depth' = depth /\ rows' = rows
  BY DEF TakeSlot, call, disk
<1>3. /\ given'[k] = DepthOf(parent[k]) + 1
      /\ \A q \in Calls : q # k => given'[q] = given[q]
  BY DEF TakeSlot, Base, TypeOK
<1>4. \A j \in Calls : by[j] # k
  BY <1>1, BoundsTyped DEF Deep, Called, Begun, Calls, None
<1>5. \A j \in Calls : j # k => Nested(j)' = Nested(j)
  <2> SUFFICES ASSUME NEW j \in Calls, j # k PROVE Nested(j)' = Nested(j)
    OBVIOUS
  <2>1. by[j] = None \/ (by[j] \in Calls /\ by[j] # k)
    BY <1>4 DEF Deep, Called
  <2> QED BY <1>2, <1>3, <2>1 DEF Nested
<1>6. InOrder' /\ Called'
  BY <1>1, <1>2, <1>4 DEF Deep, InOrder, Called, Begun
<1>7. RowOwned' /\ DepthKept'
  BY <1>1, <1>2, <1>3 DEF Deep, RowOwned, DepthKept, Live
<1>8. by[k] = None \/ step[by[k]] \in Live => Nested(k)'
  <2>1. CASE by[k] = None
    <3>1. parent[k] \in Roots
      BY <1>1, <2>1 DEF Deep, Called
    <3>2. DepthOf(parent[k]) = 0
      BY <3>1, BoundsAssumption DEF DepthOf
    <3> QED BY <1>2, <1>3, <2>1, <3>2 DEF Nested
  <2>2. CASE by[k] # None /\ step[by[k]] \in Live
    <3>1. by[k] \in Calls /\ by[k] # k /\ parent[k] = child[by[k]]
      BY <1>4, <2>2 DEF Deep, Called
    <3>2. child[by[k]] \in Children
      BY <2>2, <3>1 DEF Base, Placed, Live
    <3>3. DepthOf(parent[k]) = given[by[k]]
      BY <2>2, <3>1, <3>2 DEF DepthOf, Deep, DepthKept
    <3> QED BY <1>2, <1>3, <2>2, <3>1, <3>3 DEF Nested
  <2> QED BY <2>1, <2>2
<1>9. Handed'
  <2> SUFFICES ASSUME NEW j \in Calls, step'[j] \in {"slotted", "single"},
                      by[j] = None \/ step'[by[j]] \in Live
               PROVE  Nested(j)'
    BY <1>2 DEF Handed
  <2>1. by[j] = None \/ step[by[j]] \in Live
    BY <1>1, <1>4 DEF Deep, Called
  <2>2. CASE j = k
    BY <1>8, <2>1, <2>2
  <2>3. CASE j # k
    BY <1>1, <1>5, <2>1, <2>3 DEF Deep, Handed
  <2> QED BY <2>2, <2>3
<1>10. Deeper'
  <2> SUFFICES ASSUME NEW j \in Calls, step'[j] \in Live \/ (\E i \in Calls : by[i] = j)
               PROVE  Nested(j)'
    BY <1>2 DEF Deeper
  <2>1. j # k
    BY <1>1, <1>4 DEF Live
  <2> QED BY <1>1, <1>5, <2>1 DEF Deep, Deeper
<1> QED BY <1>6, <1>7, <1>9, <1>10 DEF Deep

\* The row appears with the depth the call was given.
LEMMA PublishDeep ==
  ASSUME Base, Deep, OneActive, NEW k \in Calls, Publish(k),
         by[k] = None \/ step[by[k]] \in Live
  PROVE  Deep'
<1>1. /\ step[k] = "single" /\ step'[k] = "published"
      /\ \A q \in Calls : q # k => step'[q] = step[q]
  BY DEF Publish, Goto, Base, TypeOK
<1>2. /\ child' = child /\ parent' = parent /\ by' = by /\ given' = given
      /\ rows' = rows \cup {child[k]} /\ depth' = [depth EXCEPT ![child[k]] = given[k]]
  BY DEF Publish, call
<1>3. child[k] \in Children
  BY <1>1 DEF Base, Placed
<1>4. InOrder' /\ Called'
  BY <1>1, <1>2 DEF Deep, InOrder, Called, Begun
<1>5. RowOwned'
  <2> SUFFICES ASSUME NEW d \in rows' PROVE \E j \in Calls : child[j] = d /\ step'[j] \in Live
    BY <1>2 DEF RowOwned
  <2>1. CASE d = child[k]
    BY <1>1, <2>1 DEF Live
  <2>2. CASE d \in rows
    <3>1. PICK j \in Calls : child[j] = d /\ step[j] \in Live
      BY <2>2 DEF Deep, RowOwned
    <3> QED BY <1>1, <3>1 DEF Live
  <2> QED BY <1>2, <2>1, <2>2
<1>6. DepthKept'
  <2> SUFFICES ASSUME NEW j \in Calls, step'[j] \in Live \cup {"rowless"}
               PROVE  depth'[child[j]] = given[j]
    BY <1>2 DEF DepthKept
  <2>1. CASE j = k
    BY <1>2, <1>3, <2>1 DEF Base, TypeOK
  <2>2. CASE j # k
    <3>1. step[j] \in Live \cup {"rowless"}
      BY <1>1, <2>2
    <3>2. child[j] # child[k]
      BY <1>1, <2>2, <3>1 DEF OneActive, Active, Live, Steps
    <3>3. child[j] \in Children /\ depth[child[j]] = given[j]
      BY <3>1 DEF Base, Placed, Live, Deep, DepthKept
    <3> QED BY <1>2, <3>2, <3>3 DEF Base, TypeOK
  <2> QED BY <2>1, <2>2
<1>7. \A j \in Calls : Nested(j)' = Nested(j)
  BY <1>2 DEF Nested
<1>8. Handed'
  <2> SUFFICES ASSUME NEW j \in Calls, step'[j] \in {"slotted", "single"},
                      by[j] = None \/ step'[by[j]] \in Live
               PROVE  Nested(j)
    BY <1>2, <1>7 DEF Handed
  <2>1. by[j] = None \/ (by[j] \in Calls /\ by[j] # k)
    BY <1>1 DEF Deep, Called, Begun
  <2> QED BY <1>1, <2>1 DEF Deep, Handed
<1>9. Deeper'
  BY <1>1, <1>2, <1>7 DEF Deep, Handed, Deeper
<1> QED BY <1>4, <1>5, <1>6, <1>8, <1>9 DEF Deep

\* The row goes, then the depth: only this call of the child relied on them.
LEMMA DisposeDeep ==
  ASSUME Base, Deep, OneActive, NEW k \in Calls, DeleteRow(k) \/ Forget(k)
  PROVE  Deep'
<1>1. /\ \/ step[k] = "jobless" /\ step'[k] = "rowless" /\ rows' = rows \ {child[k]}
            /\ depth' = depth
         \/ step[k] = "rowless" /\ step'[k] = "forgotten" /\ rows' = rows
            /\ depth' = [depth EXCEPT ![child[k]] = 0]
      /\ \A q \in Calls : q # k => step'[q] = step[q]
  BY DEF DeleteRow, Forget, Goto, Base, TypeOK, tables, disk
<1>2. /\ child' = child /\ parent' = parent /\ by' = by /\ given' = given
  BY DEF DeleteRow, Forget, call
<1>3. \A q \in Calls : q # k /\ step[q] \in Live \cup {"rowless"} => child[q] # child[k]
  BY <1>1 DEF OneActive, Active, Live, Steps
<1>4. InOrder' /\ Called'
  BY <1>1, <1>2 DEF Deep, InOrder, Called, Begun
<1>5. RowOwned'
  <2> SUFFICES ASSUME NEW d \in rows' PROVE \E j \in Calls : child[j] = d /\ step'[j] \in Live
    BY <1>2 DEF RowOwned
  <2>1. PICK j \in Calls : child[j] = d /\ step[j] \in Live
    BY <1>1 DEF Deep, RowOwned
  <2>2. j # k
    BY <1>1, <2>1 DEF Live
  <2> QED BY <1>1, <2>1, <2>2
<1>6. DepthKept'
  <2> SUFFICES ASSUME NEW j \in Calls, step'[j] \in Live \cup {"rowless"}
               PROVE  depth'[child[j]] = given[j]
    BY <1>2 DEF DepthKept
  <2>1. step[j] \in Live \cup {"rowless"}
    BY <1>1 DEF Live
  <2>2. depth[child[j]] = given[j] /\ child[j] \in Children
    BY <2>1 DEF Deep, DepthKept, Base, Placed, Live
  <2>3. CASE depth' = depth
    BY <2>2, <2>3
  <2>4. CASE step'[k] = "forgotten" /\ depth' = [depth EXCEPT ![child[k]] = 0]
    <3>1. j # k
      BY <2>4 DEF Live
    <3> QED BY <1>3, <2>1, <2>2, <2>4, <3>1 DEF Base, TypeOK
  <2> QED BY <1>1, <2>3, <2>4
<1>7. Handed' /\ Deeper'
  BY <1>1, <1>2 DEF Deep, Called, Handed, Deeper, Nested, Live
<1> QED BY <1>4, <1>5, <1>6, <1>7 DEF Deep

LEMMA HostDeep ==
  ASSUME Base, Deep, OneActive, NEW k \in Calls, HostStep(k) \/ LoopEnds(k),
         Publish(k) => by[k] = None \/ step[by[k]] \in Live
  PROVE  Deep'
<1>1. CASE TakeSlot(k)
  BY <1>1, TakeSlotDeep
<1>2. CASE Publish(k)
  BY <1>2, PublishDeep
<1>3. CASE DeleteRow(k) \/ Forget(k)
  BY <1>3, DisposeDeep
<1>4. CASE Refuse(k)
  BY <1>4, GotoDeep DEF Refuse, tables, disk, Steps, Live, Begun
<1>5. CASE BeginContinue(k)
  <2>1. PICK t \in {"over", "single"} : Goto(k, t)
    BY <1>5 DEF BeginContinue
  <2>2. step[k] = "slotted" /\ UNCHANGED <<call, given, depth, rows>>
    BY <1>5 DEF BeginContinue, disk
  <2> QED BY <2>1, <2>2, GotoDeep DEF Steps, Live, Begun
<1>6. CASE NoParent(k)
  BY <1>6, GotoDeep DEF NoParent, disk, Steps, Live, Begun
<1>7. CASE Register(k)
  BY <1>7, GotoDeep DEF Register, disk, Steps, Live, Begun
<1>8. CASE BeginLoop(k)
  BY <1>8, GotoDeep DEF BeginLoop, disk, Steps, Live, Begun
<1>9. CASE RunFails(k)
  BY <1>9, GotoDeep DEF RunFails, tables, disk, Steps, Live, Begun
<1>10. CASE LoopEnds(k)
  BY <1>10, GotoDeep DEF LoopEnds, tables, disk, Steps, Live, Begun
<1>11. CASE Export(k)
  BY <1>11, GotoDeep DEF Export, tables, Steps, Live, Begun
<1>12. CASE CancelJobs(k)
  BY <1>12, GotoDeep DEF CancelJobs, tables, disk, Steps, Live, Begun
<1>13. CASE ReleaseSlot(k)
  BY <1>13, GotoDeep DEF ReleaseSlot, disk, Steps, Live, Begun
<1> QED BY <1>1, <1>2, <1>3, <1>4, <1>5, <1>6, <1>7, <1>8, <1>9, <1>10, <1>11, <1>12, <1>13
    DEF HostStep

\* A slot is only published into a conversation that is there.
PublishesBelow ==
  \A k \in Calls : Publish(k) => by[k] = None \/ step[by[k]] \in Live

LEMMA DeepStep ==
  ASSUME Base, Deep, OneActive, PublishesBelow, [Next]_vars
  PROVE  Deep'
<1>1. ASSUME NEW k \in Calls, NEW q \in 0..MaxCalls, NEW c \in Children, NEW p \in Sessions,
             NEW kd \in {"foreground", "background"}, Spawn(k, kd, c, p, q)
      PROVE  Deep'
  BY <1>1, MakeDeep DEF Spawn, disk
<1>2. ASSUME NEW k \in Calls, NEW q \in 0..MaxCalls, NEW c \in Children, NEW p \in Sessions,
             Continue(k, c, p, q)
      PROVE  Deep'
  BY <1>2, MakeDeep DEF Continue, tables, disk
<1>3. ASSUME NEW k \in Calls, HostStep(k) \/ LoopEnds(k) PROVE Deep'
  BY <1>3, HostDeep DEF PublishesBelow
<1>4. ASSUME NEW k \in Calls, Drop(k) PROVE Deep'
  <2>1. \A q \in Calls : \/ step'[q] = step[q]
                         \/ step[q] \in {"started", "looping"} /\ step'[q] = "cleanup"
    BY <1>4 DEF Drop, Base, TypeOK
  <2>2. UNCHANGED <<call, given, depth, rows>>
    BY <1>4 DEF Drop, tables, disk
  <2>3. \A q \in Calls :
          /\ step[q] = "none" <=> step'[q] = "none"
          /\ step[q] \in Live <=> step'[q] \in Live
          /\ step[q] \in Begun => step'[q] \in Begun
          /\ step'[q] = "rowless" => step[q] = "rowless"
          /\ step'[q] \in {"slotted", "single"} => step[q] \in {"slotted", "single"}
    BY <2>1 DEF Live, Begun
  <2> QED BY <2>2, <2>3, MoveDeep
<1>5. CASE \/ (\E k \in Calls : Kill(k)) \/ (\E r \in Roots : Stop(r))
           \/ UNCHANGED vars
  <2>1. step' = step /\ UNCHANGED <<call, given, depth, rows>>
    BY <1>5 DEF Kill, Stop, vars, tables, disk
  <2> QED BY <2>1, MoveDeep
<1>6. CASE Restart
  <2>1. /\ child' = child /\ parent' = parent /\ by' = by /\ given' = given /\ rows' = {}
        /\ \A q \in Calls : step'[q] = IF step[q] \in Steps THEN "over" ELSE step[q]
    BY <1>6 DEF Restart, call, InFlight
  <2>2. \A q \in Calls : /\ step[q] = "none" <=> step'[q] = "none"
                         /\ step'[q] \notin Steps
                         /\ step[q] \in Begun => step'[q] \in Begun
    BY <2>1 DEF Steps, Begun
  <2>3. InOrder' /\ Called'
    BY <2>1, <2>2 DEF Deep, InOrder, Called
  <2>4. RowOwned' /\ DepthKept' /\ Handed' /\ Deeper'
    BY <2>1, <2>2 DEF Deep, RowOwned, DepthKept, Handed, Deeper, Nested, Live, Steps
  <2> QED BY <2>3, <2>4 DEF Deep
<1> QED BY <1>1, <1>2, <1>3, <1>4, <1>5, <1>6, StepKinds

LEMMA DeepInit == Init => Deep
<1> SUFFICES ASSUME Init PROVE Deep
  OBVIOUS
<1>1. \A k \in Calls : step[k] = "none" /\ by[k] = None
  BY DEF Init
<1>2. rows = {} /\ \A k \in Calls : k # None
  BY BoundsTyped DEF Init, Calls, None
<1> QED BY <1>1, <1>2 DEF Deep, InOrder, Called, RowOwned, DepthKept, Handed, Deeper, Live

-----------------------------------------------------------------------------
(* Who waits for whom                                                      *)

LEMMA LeastOf ==
  ASSUME NEW S \in SUBSET Nat, S # {}
  PROVE  \E x \in S : \A y \in S : x <= y
<1>1. \E x \in S : \A y \in S : ~ (<<y, x>> \in OpToRel(<, Nat))
  BY NatLessThanWellFounded, WFMin
<1>2. PICK x \in S : \A y \in S : ~ (<<y, x>> \in OpToRel(<, Nat))
  BY <1>1
<1>3. ASSUME NEW y \in S PROVE x <= y
  <2>1. ~ (y < x)
    BY <1>2 DEF OpToRel
  <2> QED BY <2>1
<1> QED BY <1>3

\* The recursive function of Awaiters is well-defined ...
LEMMA WaitingDefined ==
  ASSUME NEW n \in 0..MaxCalls, TypeOK
  PROVE  \E up : up = [k \in 0..n |->
                         IF k = None THEN {}
                         ELSE IF ~Awaited(k) THEN {}
                         ELSE {by[k]} \cup (IF by[k] < k THEN up[by[k]] ELSE {})]
<1> DEFINE Rest(k, f) == IF k = None THEN {}
                         ELSE IF ~Awaited(k) THEN {}
                         ELSE {by[k]} \cup (IF by[k] < k THEN f[by[k]] ELSE {})
           Ok(m) == \E up : up = [k \in 0..m |-> Rest(k, up)]
           Bad == {m \in 0..MaxCalls : ~Ok(m)}
<1>0. MaxCalls \in Nat
  BY BoundsTyped
<1>1. \A k \in 1..MaxCalls : by[k] \in 0..MaxCalls
  BY DEF TypeOK, Calls
<1>2. Ok(0)
  <2>1. [k \in 0..0 |-> {}] = [k \in 0..0 |-> Rest(k, [j \in 0..0 |-> {}])]
    BY DEF None
  <2> QED BY <2>1
<1>3. ASSUME NEW m \in 1..MaxCalls, Ok(m - 1) PROVE Ok(m)
  <2>1. PICK f : f = [k \in 0..m-1 |-> Rest(k, f)]
    BY <1>3
  <2> DEFINE g == [k \in 0..m |-> IF k = m THEN Rest(m, f) ELSE f[k]]
  <2>2. \A k \in 0..m : g[k] = Rest(k, g)
    <3> SUFFICES ASSUME NEW k \in 0..m PROVE g[k] = Rest(k, g)
      OBVIOUS
    <3>1. k # None /\ by[k] < k => by[k] \in 0..m-1
      BY <1>0, <1>1 DEF None
    <3>2. k # None /\ by[k] < k => g[by[k]] = f[by[k]]
      BY <1>0, <3>1
    <3>3. Rest(k, g) = Rest(k, f)
      BY <3>2, Zenon
    <3>4. CASE k = m
      BY <3>3, <3>4
    <3>5. CASE k # m
      <4>1. k \in 0..m-1
        BY <1>0, <3>5
      <4>2. f[k] = Rest(k, f)
        BY <2>1, <4>1, Zenon
      <4>3. g[k] = f[k]
        BY <3>5
      <4> QED BY <3>3, <4>2, <4>3
    <3> QED BY <3>4, <3>5
  <2>3. g = [k \in 0..m |-> Rest(k, g)]
    BY <2>2
  <2> QED BY <2>3
<1>4. Bad = {}
  <2> SUFFICES ASSUME Bad # {} PROVE FALSE
    OBVIOUS
  <2> HIDE DEF Ok
  <2>0. Bad \in SUBSET Nat
    BY <1>0
  <2> HIDE DEF Bad
  <2>1. PICK m \in Bad : \A j \in Bad : m <= j
    BY <2>0, LeastOf
  <2>2. m # 0 /\ m \in 1..MaxCalls /\ m - 1 \in 0..MaxCalls
    BY <1>0, <1>2, <2>1 DEF Bad
  <2>3. m - 1 \notin Bad
    BY <2>1, <2>2
  <2>4. Ok(m - 1)
    BY <2>2, <2>3 DEF Bad
  <2>5. Ok(m)
    BY <1>3, <2>2, <2>4
  <2> QED BY <2>1, <2>5 DEF Bad
<1> HIDE DEF Bad
<1>5. Ok(n)
  BY <1>4 DEF Bad
<1> QED BY <1>5

\* ... so a call is above all that are above its caller.
LEMMA AwaitersClimb ==
  ASSUME TypeOK, NEW k \in Calls, Awaited(k), by[k] # None, by[k] < k
  PROVE  Awaiters[k] = {by[k]} \cup Awaiters[by[k]]
<1>1. PICK up : /\ Awaiters = [j \in Calls |-> up[j] \ {None}]
                /\ up = [j \in 0..MaxCalls |->
                           IF j = None THEN {}
                           ELSE IF ~Awaited(j) THEN {}
                           ELSE {by[j]} \cup (IF by[j] < j THEN up[by[j]] ELSE {})]
  <2>1. MaxCalls \in 0..MaxCalls
    BY BoundsTyped
  <2>2. PICK f : f = [j \in 0..MaxCalls |->
                        IF j = None THEN {}
                        ELSE IF ~Awaited(j) THEN {}
                        ELSE {by[j]} \cup (IF by[j] < j THEN f[by[j]] ELSE {})]
    BY <2>1, WaitingDefined
  <2> DEFINE F == CHOOSE up : up = [j \in 0..MaxCalls |->
                        IF j = None THEN {}
                        ELSE IF ~Awaited(j) THEN {}
                        ELSE {by[j]} \cup (IF by[j] < j THEN up[by[j]] ELSE {})]
  <2>3. Awaiters = [j \in Calls |-> F[j] \ {None}]
    BY Zenon DEF Awaiters
  <2>4. F = [j \in 0..MaxCalls |->
                        IF j = None THEN {}
                        ELSE IF ~Awaited(j) THEN {}
                        ELSE {by[j]} \cup (IF by[j] < j THEN F[by[j]] ELSE {})]
    BY <2>2, Zenon
  <2> HIDE DEF F
  <2> QED BY <2>3, <2>4
<1>2. k \in 0..MaxCalls /\ k # None /\ by[k] \in Calls
  <2>1. by[k] \in 0..MaxCalls
    BY DEF TypeOK, Calls
  <2> QED BY <2>1, BoundsTyped DEF Calls, None
<1>3. up[k] = {by[k]} \cup up[by[k]]
  BY <1>1, <1>2
<1> QED BY <1>1, <1>2, <1>3

(***************************************************************************)
(* A loop that waits for a call loops on until the call is done or dropped.*)
(***************************************************************************)
AtWork == {"asked", "slotted", "single", "published", "started", "looping"}
WaitsFor ==
  \A k \in Calls : by[k] # None /\ kind[k] # "background" /\ step[k] \in AtWork =>
    step[by[k]] = "looping"

LEMMA HostWaits ==
  ASSUME Base, Deep, WaitsFor, NEW k \in Calls, HostStep(k) \/ LoopEnds(k)
  PROVE  WaitsFor'
<1>1. by' = by /\ kind' = kind
  BY OthersKept DEF call
<1>2. /\ step[k] \in Steps
      /\ \E t \in Steps \cup {"over"} : step' = [step EXCEPT ![k] = t]
      /\ step'[k] \in AtWork => step[k] \in AtWork \ {"looping"}
      /\ step[k] = "looping" => \A q \in Calls : by[q] = k => ~Awaited(q)
  BY DEF HostStep, Refuse, TakeSlot, BeginContinue, NoParent, Publish, Register,
     BeginLoop, RunFails, LoopEnds, Export, CancelJobs, DeleteRow, Forget, ReleaseSlot,
     Goto, Steps, AtWork, Base, TypeOK
<1>3. \A q \in Calls : q # k => step'[q] = step[q]
  BY <1>2 DEF Base, TypeOK
<1> SUFFICES ASSUME NEW j \in Calls, by[j] # None, kind[j] # "background",
                    step'[j] \in AtWork
             PROVE  step'[by[j]] = "looping"
  BY <1>1 DEF WaitsFor
<1>4. step[j] \in AtWork /\ by[j] \in Calls
  BY <1>2, <1>3 DEF Deep, Called
<1>5. step[by[j]] = "looping"
  BY <1>4 DEF WaitsFor
<1>6. by[j] # k
  BY <1>2, <1>4, <1>5 DEF Awaited, InFlight, AtWork, Steps
<1> QED BY <1>3, <1>4, <1>5, <1>6

LEMMA DropWaits ==
  ASSUME Base, Deep, WaitsFor, NEW k \in Calls, Drop(k)
  PROVE  WaitsFor'
<1>1. /\ by' = by /\ kind' = kind
      /\ \A q \in Calls : step'[q] = IF q \in Under(k) THEN "cleanup" ELSE step[q]
  BY DEF Drop, call
<1> SUFFICES ASSUME NEW j \in Calls, by[j] # None, kind[j] # "background",
                    step'[j] \in AtWork
             PROVE  step'[by[j]] = "looping"
  BY <1>1 DEF WaitsFor
<1>2. step[j] \in AtWork /\ j \notin Under(k)
  BY <1>1 DEF AtWork
<1>3. by[j] \in Calls /\ by[j] < j /\ step[by[j]] = "looping"
  BY <1>2 DEF Deep, Called, WaitsFor
<1>4. Awaited(j)
  BY <1>2 DEF Awaited, InFlight, AtWork, Steps
<1>5. Awaiters[j] = {by[j]} \cup Awaiters[by[j]]
  BY <1>3, <1>4, AwaitersClimb DEF Base
<1>6. by[j] \notin Under(k)
  BY <1>2, <1>3, <1>5 DEF Under
<1> QED BY <1>1, <1>3, <1>6

LEMMA MakeWaits ==
  ASSUME Base, Deep, WaitsFor, NEW k \in Calls, NEW kd, NEW c, NEW p \in Sessions,
         NEW q \in 0..MaxCalls, Make(k, kd, c, p, q), Caller(p, q)
  PROVE  WaitsFor'
<1>1. /\ step[k] = "none" /\ step' = [step EXCEPT ![k] = "asked"]
      /\ kind' = [kind EXCEPT ![k] = kd] /\ by' = [by EXCEPT ![k] = q]
  BY DEF Make, Goto
<1>2. /\ step'[k] = "asked" /\ by'[k] = q
      /\ \A j \in Calls : j # k =>
           step'[j] = step[j] /\ kind'[j] = kind[j] /\ by'[j] = by[j]
  BY <1>1 DEF Base, TypeOK
<1>3. q = None \/ (q \in Calls /\ q # k /\ step[q] = "looping")
  BY <1>1 DEF Caller
<1> SUFFICES ASSUME NEW j \in Calls, by'[j] # None, kind'[j] # "background",
                    step'[j] \in AtWork
             PROVE  step'[by'[j]] = "looping"
  BY DEF WaitsFor
<1>4. CASE j = k
  BY <1>2, <1>3, <1>4
<1>5. CASE j # k
  <2>1. by[j] \in Calls /\ by[j] # k
    BY <1>1, <1>2, <1>5 DEF Deep, Called, Begun
  <2> QED BY <1>2, <1>5, <2>1 DEF WaitsFor
<1> QED BY <1>4, <1>5

LEMMA WaitsStep == Base /\ Deep /\ WaitsFor /\ [Next]_vars => WaitsFor'
<1> SUFFICES ASSUME Base, Deep, WaitsFor, [Next]_vars PROVE WaitsFor'
  OBVIOUS
<1>1. ASSUME NEW k \in Calls, NEW q \in 0..MaxCalls, NEW c \in Children, NEW p \in Sessions,
             NEW kd \in {"foreground", "background"}, Spawn(k, kd, c, p, q)
      PROVE  WaitsFor'
  BY <1>1, MakeWaits DEF Spawn
<1>2. ASSUME NEW k \in Calls, NEW q \in 0..MaxCalls, NEW c \in Children, NEW p \in Sessions,
             Continue(k, c, p, q)
      PROVE  WaitsFor'
  BY <1>2, MakeWaits DEF Continue
<1>3. ASSUME NEW k \in Calls, HostStep(k) \/ LoopEnds(k) PROVE WaitsFor'
  BY <1>3, HostWaits
<1>4. ASSUME NEW k \in Calls, Drop(k) PROVE WaitsFor'
  BY <1>4, DropWaits
<1>5. CASE \/ (\E k \in Calls : Kill(k)) \/ (\E r \in Roots : Stop(r))
           \/ UNCHANGED vars
  <2>1. step' = step /\ by' = by /\ kind' = kind
    BY <1>5 DEF Kill, Stop, vars, call
  <2> QED BY <2>1 DEF WaitsFor
<1>6. CASE Restart
  <2>1. \A q \in Calls : step'[q] \notin AtWork
    BY <1>6 DEF Restart, InFlight, Steps, AtWork
  <2> QED BY <2>1 DEF WaitsFor
<1> QED BY <1>1, <1>2, <1>3, <1>4, <1>5, <1>6, StepKinds

-----------------------------------------------------------------------------
(* The cap                                                                 *)

\* The recursive function of Nesting is well-defined.
LEMMA NestingDefined ==
  ASSUME NEW n \in 0..MaxCalls, TypeOK
  PROVE  \E up : up = [k \in 0..n |-> IF k = None THEN 0
                                      ELSE 1 + (IF by[k] < k THEN up[by[k]] ELSE 0)]
<1> DEFINE Rest(k, f) == IF k = None THEN 0
                         ELSE 1 + (IF by[k] < k THEN f[by[k]] ELSE 0)
           Ok(m) == \E up : up = [k \in 0..m |-> Rest(k, up)]
           Bad == {m \in 0..MaxCalls : ~Ok(m)}
<1>0. MaxCalls \in Nat
  BY BoundsTyped
<1>1. \A k \in 1..MaxCalls : by[k] \in 0..MaxCalls
  BY DEF TypeOK, Calls
<1>2. Ok(0)
  <2>1. [k \in 0..0 |-> 0] = [k \in 0..0 |-> Rest(k, [j \in 0..0 |-> 0])]
    BY DEF None
  <2> QED BY <2>1
<1>3. ASSUME NEW m \in 1..MaxCalls, Ok(m - 1) PROVE Ok(m)
  <2>1. PICK f : f = [k \in 0..m-1 |-> Rest(k, f)]
    BY <1>3
  <2> DEFINE g == [k \in 0..m |-> IF k = m THEN Rest(m, f) ELSE f[k]]
  <2>2. \A k \in 0..m : g[k] = Rest(k, g)
    <3> SUFFICES ASSUME NEW k \in 0..m PROVE g[k] = Rest(k, g)
      OBVIOUS
    <3>1. k # None /\ by[k] < k => by[k] \in 0..m-1
      BY <1>0, <1>1 DEF None
    <3>2. k # None /\ by[k] < k => g[by[k]] = f[by[k]]
      BY <1>0, <3>1
    <3>3. Rest(k, g) = Rest(k, f)
      <4> HIDE DEF g
      <4> QED BY <3>2, Zenon
    <3>4. CASE k = m
      BY <3>3, <3>4
    <3>5. CASE k # m
      <4>1. k \in 0..m-1
        BY <1>0, <3>5
      <4>2. f[k] = Rest(k, f)
        BY <2>1, <4>1, Zenon
      <4>3. g[k] = f[k]
        BY <3>5
      <4> QED BY <3>3, <4>2, <4>3
    <3> QED BY <3>4, <3>5
  <2>3. g = [k \in 0..m |-> Rest(k, g)]
    BY <2>2
  <2> QED BY <2>3
<1>4. Bad = {}
  <2> SUFFICES ASSUME Bad # {} PROVE FALSE
    OBVIOUS
  <2> HIDE DEF Ok
  <2>0. Bad \in SUBSET Nat
    BY <1>0
  <2> HIDE DEF Bad
  <2>1. PICK m \in Bad : \A j \in Bad : m <= j
    BY <2>0, LeastOf
  <2>2. m # 0 /\ m \in 1..MaxCalls /\ m - 1 \in 0..MaxCalls
    BY <1>0, <1>2, <2>1 DEF Bad
  <2>3. m - 1 \notin Bad
    BY <2>1, <2>2
  <2>4. Ok(m - 1)
    BY <2>2, <2>3 DEF Bad
  <2>5. Ok(m)
    BY <1>3, <2>2, <2>4
  <2> QED BY <2>1, <2>5 DEF Bad
<1> HIDE DEF Bad
<1>5. Ok(n)
  BY <1>4 DEF Bad
<1> QED BY <1>5

LEMMA NestingClimbs ==
  ASSUME TypeOK, Deep, NEW k \in Calls
  PROVE  Nesting[k] = IF by[k] = None THEN 1 ELSE 1 + Nesting[by[k]]
<1>1. PICK up : /\ Nesting = [j \in Calls |-> up[j]]
                /\ up = [j \in 0..MaxCalls |->
                           IF j = None THEN 0
                           ELSE 1 + (IF by[j] < j THEN up[by[j]] ELSE 0)]
  <2>1. MaxCalls \in 0..MaxCalls
    BY BoundsTyped
  <2>2. PICK f : f = [j \in 0..MaxCalls |->
                        IF j = None THEN 0
                        ELSE 1 + (IF by[j] < j THEN f[by[j]] ELSE 0)]
    BY <2>1, NestingDefined
  <2> DEFINE F == CHOOSE up : up = [j \in 0..MaxCalls |->
                        IF j = None THEN 0
                        ELSE 1 + (IF by[j] < j THEN up[by[j]] ELSE 0)]
  <2>3. Nesting = [j \in Calls |-> F[j]]
    BY Zenon DEF Nesting
  <2>4. F = [j \in 0..MaxCalls |->
                        IF j = None THEN 0
                        ELSE 1 + (IF by[j] < j THEN F[by[j]] ELSE 0)]
    BY <2>2, Zenon
  <2> HIDE DEF F
  <2> QED BY <2>3, <2>4
<1>2. k \in 0..MaxCalls /\ k \in 1..MaxCalls /\ MaxCalls \in Nat
  BY BoundsTyped DEF Calls
<1>3. up[k] = 1 + (IF by[k] < k THEN up[by[k]] ELSE 0)
  BY <1>1, <1>2 DEF None
<1>4. CASE by[k] = None
  <2>1. up[None] = 0
    BY <1>1, <1>2 DEF None
  <2> QED BY <1>1, <1>2, <1>3, <1>4, <2>1 DEF None
<1>5. CASE by[k] # None
  <2>1. by[k] \in Calls /\ by[k] < k
    BY <1>5 DEF Deep, Called
  <2> QED BY <1>1, <1>3, <1>5, <2>1
<1> QED BY <1>4, <1>5

\* A call that was published, or called others, was given its level.
LEMMA GivenIsNesting ==
  ASSUME TypeOK, Deep, NEW k \in Calls, step[k] \in Live
  PROVE  given[k] = Nesting[k]
<1> DEFINE Climbed(j) == step[j] \in Live \/ \E i \in Calls : by[i] = j
           Bad == {j \in Calls : Climbed(j) /\ given[j] # Nesting[j]}
<1>1. Bad \subseteq Nat
  BY BoundsTyped DEF Calls
<1>2. Bad = {}
  <2> SUFFICES ASSUME Bad # {} PROVE FALSE
    OBVIOUS
  <2>1. PICK j \in Bad : \A i \in Bad : j <= i
    BY <1>1, LeastOf
  <2>2. Nested(j)
    BY <2>1 DEF Deep, Deeper
  <2>3. CASE by[j] = None
    BY <2>1, <2>2, <2>3, NestingClimbs DEF Nested
  <2>4. CASE by[j] # None
    <3>1. by[j] \in Calls /\ by[j] < j
      BY <2>1, <2>4 DEF Deep, Called
    <3>2. by[j] \notin Bad
      BY <1>1, <2>1, <3>1, BoundsTyped DEF Calls
    <3>3. given[by[j]] = Nesting[by[j]] /\ given[by[j]] \in Nat
      BY <3>1, <3>2, BoundsTyped DEF TypeOK
    <3>4. Nesting[j] = 1 + Nesting[by[j]]
      BY <2>1, <2>4, NestingClimbs
    <3> QED BY <2>1, <2>2, <2>4, <3>3, <3>4 DEF Nested
  <2> QED BY <2>3, <2>4
<1> QED BY <1>2

LEMMA Capped == Base /\ Deep => DepthCapped
<1> SUFFICES ASSUME Base, Deep, NEW k \in Calls, step[k] = "looping"
             PROVE  Nesting[k] <= MaxDepth
  BY DEF DepthCapped
<1>1. given[k] = Nesting[k]
  BY GivenIsNesting DEF Base, Live
<1> QED BY <1>1, BoundsTyped DEF Base, TypeOK

(***************************************************************************)
(* MAX_DEPTH, the "Hard cap on delegation depth": with children in the     *)
(* background, but none that is sent messages, no loop runs deeper, though *)
(* the depth of a child is forgotten while calls of it are still asked.    *)
(***************************************************************************)
THEOREM DepthCappedInBackground ==
  ASSUME "continue" \notin Kinds
  PROVE  Spec => []DepthCapped
<1>1. Base /\ Hearing /\ Deep => OneActive /\ PublishesBelow
  <2> SUFFICES ASSUME Base, Hearing, Deep PROVE OneActive /\ PublishesBelow
    OBVIOUS
  <2>1. OneActive
    BY DEF Hearing, OneCallPerChild, OneActive, Active, Steps
  <2>2. ASSUME NEW k \in Calls, Publish(k), by[k] # None
        PROVE  step[by[k]] \in Live
    <3>1. by[k] \in Calls /\ parent[k] = child[by[k]] /\ step[by[k]] \in Begun
      BY <2>2 DEF Deep, Called
    <3>2. child[by[k]] \in Children
      BY <3>1 DEF Base, Placed, Begun
    <3>3. child[by[k]] \in rows
      BY <2>2, <3>1, <3>2, BoundsAssumption DEF Publish, HasRow
    <3>4. PICK j \in Calls : child[j] = child[by[k]] /\ step[j] \in Live
      BY <3>3 DEF Deep, RowOwned
    <3>5. j = by[k]
      BY <3>1, <3>4 DEF Hearing, OneCallPerChild, Live, Begun
    <3> QED BY <3>4, <3>5
  <2> QED BY <2>1, <2>2 DEF PublishesBelow
<1>2. Base /\ Hearing /\ Deep /\ [Next]_vars => (Base /\ Hearing /\ Deep)'
  BY <1>1, BaseStep, HearingStep, DeepStep
<1>3. Spec => [](Base /\ Hearing /\ Deep)
  BY BaseInit, HearingInit, DeepInit, <1>2, PTL DEF Spec
<1> QED BY <1>3, Capped, PTL

(***************************************************************************)
(* The same with children that are sent messages, but none in the          *)
(* background: a loop waits for the calls it makes, and CONTINUING lets    *)
(* one run of a child at its depth.                                        *)
(***************************************************************************)
THEOREM DepthCappedInContinuations ==
  ASSUME "background" \notin Kinds
  PROVE  Spec => []DepthCapped
<1>1. Base /\ Single /\ Deep /\ WaitsFor => OneActive /\ PublishesBelow
  <2> SUFFICES ASSUME Base, Single, Deep, WaitsFor PROVE OneActive /\ PublishesBelow
    OBVIOUS
  <2>1. OneActive
    BY DEF Single, FreshAlone, OneContinuation, OneActive, Active, InFlight, Steps
  <2>2. ASSUME NEW k \in Calls, Publish(k), by[k] # None
        PROVE  step[by[k]] \in Live
    <3>1. step[k] = "single" /\ kind[k] # "background"
      BY <2>2 DEF Publish, Base, Placed
    <3> QED BY <2>2, <3>1 DEF WaitsFor, AtWork, Live
  <2> QED BY <2>1, <2>2 DEF PublishesBelow
<1>2. Base /\ Single /\ Deep /\ WaitsFor /\ [Next]_vars => (Base /\ Single /\ Deep /\ WaitsFor)'
  BY <1>1, BaseStep, SingleStep, DeepStep, WaitsStep
<1>3. Init => WaitsFor
  BY DEF Init, WaitsFor
<1>4. Spec => [](Base /\ Single /\ Deep /\ WaitsFor)
  BY BaseInit, SingleInit, DeepInit, <1>2, <1>3, PTL DEF Spec
<1> QED BY <1>4, Capped, PTL

=============================================================================
