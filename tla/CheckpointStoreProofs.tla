------------------------ MODULE CheckpointStoreProofs -----------------------
(***************************************************************************)
(* Proofs about CheckpointStore, for any limits, intervals and name widths.*)
(***************************************************************************)
EXTENDS CheckpointStore, FiniteSetTheorems, WellFoundedInduction, TLAPS

-----------------------------------------------------------------------------
(* Least and greatest members                                              *)

LEMMA Least ==
  ASSUME NEW S \in SUBSET Nat, S # {}
  PROVE  \E x \in S : \A y \in S : x <= y
<1>1. \E x \in S : \A y \in S : ~ (<<y, x>> \in OpToRel(<, Nat))
  BY NatLessThanWellFounded, WFMin
<1>2. PICK x \in S : \A y \in S : ~ (<<y, x>> \in OpToRel(<, Nat))
  BY <1>1
<1>3. ASSUME NEW y \in S PROVE x <= y
  <2>1. ~ (y < x)
    BY <1>2 DEF OpToRel
  <2> QED BY <2>1
<1> QED BY <1>3

LEMMA Greatest ==
  ASSUME NEW N \in Nat, NEW S \in SUBSET (0..N), S # {}
  PROVE  \E x \in S : \A y \in S : y <= x
<1> DEFINE T == {n \in Nat : \A y \in S : y <= n}
<1>1. N \in T
  OBVIOUS
<1>2. PICK n \in T : \A m \in T : n <= m
  BY <1>1, Least
<1>3. n \in S
  <2> SUFFICES ASSUME n \notin S PROVE FALSE
    OBVIOUS
  <2>1. PICK s \in S : TRUE
    OBVIOUS
  <2>2. \A y \in S : y <= n - 1
    BY <1>2
  <2>3. n - 1 \in Nat
    BY <2>1, <2>2
  <2>4. n - 1 \in T
    BY <2>2, <2>3
  <2> QED BY <1>2, <2>4
<1> QED BY <1>2, <1>3

LEMMA Parameters ==
  /\ Keep \in Nat \ {0} /\ Interval \in Nat \ {0} /\ Base \in Nat \ {0}
  /\ ShortNames \in Nat \ {0} /\ MaxTurn \in Nat /\ MaxSaves \in Nat
  /\ MaxRuns \in Nat /\ MaxCrashes \in Nat /\ MaxFailures \in Nat
  /\ Kinds \subseteq {"periodic", "stop"}
  BY ParametersAssumption

LEMMA NewestIs ==
  ASSUME NEW S \in SUBSET Turns, S # {}
  PROVE  Newest(S) \in S /\ \A u \in S : u <= Newest(S)
  BY Greatest, Parameters DEF Newest, Turns

\* The next due turn is a later one.
LEMMA DueLater ==
  ASSUME NEW t \in Nat
  PROVE  Interval * (t \div Interval + 1) \in Nat /\ Interval * (t \div Interval + 1) > t
<1>1. /\ t \div Interval \in Nat
      /\ Interval * (t \div Interval) <= t
      /\ t < Interval * (t \div Interval) + Interval
  BY Parameters
<1>2. Interval * (t \div Interval + 1) = Interval * (t \div Interval) + Interval
  BY <1>1, Parameters
<1> QED BY <1>1, <1>2, Parameters

-----------------------------------------------------------------------------
(* The order of the file names                                             *)

\* The place of a name: short ones stand before the long one they begin.
Place(t) == IF t < ShortNames THEN 2 * (t * Base) ELSE 2 * t + 1

LEMMA PlaceTyped ==
  ASSUME NEW t \in Turns
  PROVE  Place(t) \in 0 .. 2 * (MaxTurn * Base) + 1
<1>1. /\ t \in Nat /\ t <= MaxTurn /\ t * Base \in Nat /\ t * Base <= MaxTurn * Base
      /\ t <= t * Base /\ MaxTurn * Base \in Nat
  BY Parameters DEF Turns
<1> QED BY <1>1, Parameters DEF Place

LEMMA BeforeIsPlace ==
  ASSUME NEW a \in Turns, NEW b \in Turns
  PROVE  /\ Before(a, b) <=> Place(a) < Place(b)
         /\ Place(a) = Place(b) => a = b
<1>1. a \in Nat /\ b \in Nat /\ a * Base \in Nat /\ b * Base \in Nat
  BY Parameters DEF Turns
<1>2. (a < b <=> a * Base < b * Base) /\ (a * Base = b * Base => a = b)
  BY <1>1, Parameters
<1> QED BY <1>1, <1>2, Parameters DEF Before, Place

LEMMA LastIs ==
  ASSUME NEW S \in SUBSET Turns, S # {}
  PROVE  Last(S) \in S /\ \A u \in S \ {Last(S)} : Before(u, Last(S))
<1> DEFINE P == {Place(t) : t \in S}
<1>1. 2 * (MaxTurn * Base) + 1 \in Nat
  BY Parameters
<1>2. P \in SUBSET (0 .. 2 * (MaxTurn * Base) + 1) /\ P # {}
  BY PlaceTyped
<1>3. PICK x \in P : \A y \in P : y <= x
  BY <1>1, <1>2, Greatest
<1>4. PICK t \in S : Place(t) = x
  BY <1>3
<1>5. \A u \in S \ {t} : Before(u, t)
  <2> SUFFICES ASSUME NEW u \in S \ {t} PROVE Before(u, t)
    OBVIOUS
  <2>1. Place(u) <= Place(t) /\ Place(u) \in Nat /\ Place(t) \in Nat
    BY <1>3, <1>4, PlaceTyped
  <2>2. Place(u) # Place(t)
    BY <1>4, BeforeIsPlace
  <2> QED BY <1>4, <2>1, <2>2, BeforeIsPlace
<1> QED BY <1>4, <1>5 DEF Last

-----------------------------------------------------------------------------
(* Types                                                                   *)

\* A save in progress has a number.
Numbered == step # "idle" => clock \in 1..MaxSaves
Typed == TypeOK /\ Numbered

LEMMA FileTyped ==
  ASSUME TypeOK, NEW t \in Turns
  PROVE  /\ files[t] # 0 => File(t) \in Snapshot /\ File(t) # NoSnapshot
         /\ files[t] # 0 => File(t).turn = t /\ File(t).stamp = files[t]
         /\ files[t] = 0 => File(t) = NoSnapshot
<1>1. t \in Int /\ t >= 0 /\ files[t] \in 0..MaxSaves
  BY Parameters DEF TypeOK, Turns
<1> QED BY <1>1, Parameters DEF File, Snapshot, NoSnapshot

LEMMA SnapshotFields ==
  /\ NoSnapshot.turn = -1 /\ NoSnapshot.stamp = 0
  /\ \A s \in Snapshot : s.turn \in Turns /\ s.turn \in Nat /\ s.stamp \in 1..MaxSaves
                         /\ s # NoSnapshot
  BY Parameters DEF NoSnapshot, Snapshot, Turns

\* The file that load_best looks at, before the log.
BestFile == IF Whole = {} THEN NoSnapshot ELSE File(Newest(Whole))

LEMMA BestFileIs ==
  ASSUME TypeOK
  PROVE  /\ load_best = OrLog(BestFile)
         /\ Whole = {} => BestFile = NoSnapshot
         /\ Whole # {} => /\ Newest(Whole) \in Whole
                          /\ \A t \in Whole : t <= Newest(Whole)
                          /\ BestFile = File(Newest(Whole))
<1>1. CASE Whole = {}
  BY <1>1 DEF BestFile, load_best
<1>2. CASE Whole # {}
  <2>1. Newest(Whole) \in Whole /\ \A t \in Whole : t <= Newest(Whole)
    BY <1>2, NewestIs DEF Whole
  <2>2. Newest(Present) \in Present /\ \A t \in Present : t <= Newest(Present)
    <3>1. Present # {} /\ Present \in SUBSET Turns
      BY <1>2 DEF Present, Whole
    <3> QED BY <3>1, NewestIs
  <2>3. ASSUME Newest(Present) \in Whole PROVE Newest(Present) = Newest(Whole)
    <3>1. Newest(Present) <= Newest(Whole)
      BY <2>1, <2>3
    <3>2. Newest(Whole) <= Newest(Present)
      BY <2>1, <2>2 DEF Present, Whole
    <3> QED BY <2>1, <2>2, <3>1, <3>2 DEF Present, Whole, Turns
  <2>4. load_best = OrLog(File(Newest(Whole)))
    BY <1>2, <2>3 DEF load_best
  <2> QED BY <1>2, <2>1, <2>4 DEF BestFile
<1> QED BY <1>1, <1>2

\* What can be resumed is a snapshot of some turn.
LEMMA BestTyped ==
  ASSUME TypeOK
  PROVE  /\ load_best \in Snapshot \cup {NoSnapshot}
         /\ load_best # NoSnapshot <=> (Whole # {} \/ wal # NoSnapshot)
<1>1. BestFile \in Snapshot \cup {NoSnapshot} /\ (BestFile # NoSnapshot <=> Whole # {})
  BY BestFileIs, FileTyped DEF Whole
<1>2. wal \in Snapshot \cup {NoSnapshot}
  BY DEF TypeOK
<1>3. load_best = IF wal.turn >= BestFile.turn THEN wal ELSE BestFile
  BY BestFileIs DEF OrLog
<1> QED BY <1>1, <1>2, <1>3, SnapshotFields

LEMMA LatestIsSome ==
  ASSUME TypeOK, load_latest # NoSnapshot
  PROVE  load_best \in Snapshot /\ load_best.turn \in Turns
<1>1. Whole # {} \/ wal # NoSnapshot
  <2> SUFFICES ASSUME Whole = {}, wal = NoSnapshot PROVE load_latest = NoSnapshot
    OBVIOUS
  <2>1. CASE Present = {}
    BY <2>1 DEF load_latest, OrLog
  <2>2. CASE Present # {}
    <3>1. Last(Present) \in Turns
      BY <2>2, LastIs DEF Present
    <3>2. files[Last(Present)] = 0
      BY <3>1 DEF Whole
    <3>3. File(Last(Present)) = NoSnapshot
      BY <3>1, <3>2, FileTyped
    <3> QED BY <2>2, <3>3 DEF load_latest, OrLog
  <2> QED BY <2>1, <2>2
<1> QED BY <1>1, BestTyped, SnapshotFields

\* The risks of a save are counted up to two.
LEMMA PerilTyped ==
  ASSUME peril \in 0..2, [Next]_vars
  PROVE  peril' \in 0..2
<1>1. CASE Fail
  BY <1>1 DEF Fail
<1>2. ASSUME NEW t, NEW k, BeginSave(t, k) PROVE peril' \in 0..2
  BY <1>2 DEF BeginSave
<1>3. CASE UNCHANGED peril
  BY <1>3
<1> QED BY <1>1, <1>2, <1>3 DEF Next, StartRun, Resume, SavePeriodic, SaveOnStop, EndRun, Crash,
        NoDirectory, TruncateJson, WriteJson, JsonFails, RemoveLog, ReappendLatest, AppendRecord,
        LogFails, DropOldest, DropLarge, StopSaved, vars

LEMMA TypedInit == Init => Typed
<1> SUFFICES ASSUME Init PROVE Typed
  OBVIOUS
<1>1. 0 \in Turns /\ 0 \in 0..MaxSaves /\ 0 \in 0..MaxRuns /\ 0 \in 0..MaxCrashes /\ 0 \in 0..MaxFailures
  BY Parameters DEF Turns
<1>2. files \in [Turns -> 0..MaxSaves]
  BY <1>1 DEF Init
<1>3. wal \in Snapshot \cup {NoSnapshot} /\ held \in Snapshot \cup {NoSnapshot}
  BY DEF Init
<1>4. bounds \in [runs : 0..MaxRuns, crashes : 0..MaxCrashes, failures : 0..MaxFailures]
  BY <1>1 DEF Init
<1>5. clock \in 0..MaxSaves /\ saved \in 0..clock /\ turn \in Turns
  BY <1>1 DEF Init
<1>6. /\ torn \subseteq Turns
      /\ {headless, kept, running} \subseteq BOOLEAN
      /\ step = "idle" /\ kind \in {"periodic", "stop"}
  BY DEF Init
<1>7. {wal, held} \subseteq Snapshot \cup {NoSnapshot}
  BY <1>3
<1>8. peril \in 0..2
  BY DEF Init
<1> QED BY <1>2, <1>4, <1>5, <1>6, <1>7, <1>8 DEF Typed, TypeOK, Numbered

\* The parts of the state a step may leave alone.
LEMMA TypedStep ==
  ASSUME Typed, [Next]_vars
  PROVE  Typed'
<1> USE DEF Typed
<1>0. /\ files \in [Turns -> 0..MaxSaves] /\ torn \subseteq Turns
      /\ wal \in Snapshot \cup {NoSnapshot} /\ held \in Snapshot \cup {NoSnapshot}
      /\ headless \in BOOLEAN /\ kept \in BOOLEAN /\ running \in BOOLEAN
      /\ turn \in Turns /\ clock \in 0..MaxSaves /\ saved \in 0..clock
      /\ NoSnapshot \in Snapshot \cup {NoSnapshot} /\ peril' \in 0..2
  BY PerilTyped DEF TypeOK
<1>1. CASE StartRun
  <2>1. bounds' \in [runs : 0..MaxRuns, crashes : 0..MaxCrashes, failures : 0..MaxFailures]
    BY <1>1, Parameters DEF StartRun, TypeOK
  <2>2. turn' \in Turns /\ running' \in BOOLEAN
    BY <1>1, Parameters DEF StartRun, Turns
  <2> QED BY <1>0, <1>1, <2>1, <2>2 DEF StartRun, TypeOK, Numbered, disk, save
<1>2. CASE Resume
  <2>1. turn' \in Turns /\ running' = TRUE
    BY <1>2, LatestIsSome DEF Resume
  <2> QED BY <1>0, <1>2, <2>1 DEF Resume, TypeOK, Numbered, disk, save
<1>3. ASSUME NEW t, NEW k, BeginSave(t, k), t \in Nat PROVE Typed'
  <2>1. k \in {"periodic", "stop"}
    BY <1>3, Parameters DEF BeginSave
  <2>2. t \in Turns
    BY <1>3, Parameters DEF BeginSave, Turns
  <2>3. clock' = clock + 1 /\ clock < MaxSaves /\ saved' = saved
    BY <1>3 DEF BeginSave
  <2>4. clock + 1 \in 1..MaxSaves /\ saved \in 0..(clock + 1)
    BY <1>0, <2>3, Parameters
  <2>5. /\ clock' \in 1..MaxSaves /\ clock' \in 0..MaxSaves /\ saved' \in 0..clock'
        /\ held' = NoSnapshot /\ kept' = FALSE /\ turn' = t /\ kind' = k /\ step' = "begun"
        /\ files' = files /\ torn' = torn /\ wal' = wal /\ headless' = headless
        /\ running' = running /\ bounds' = bounds
    BY <1>3, <2>3, <2>4 DEF BeginSave, disk
  <2> QED BY <1>0, <2>1, <2>2, <2>5 DEF TypeOK, Numbered
<1>4. CASE SavePeriodic
  <2>1. NextDue \in Nat
    BY <1>0, DueLater DEF NextDue, Turns
  <2> QED BY <1>3, <1>4, <2>1 DEF SavePeriodic
<1>5. CASE SaveOnStop
  <2>1. \A t \in turn..NextDue : t \in Nat
    BY <1>0, DueLater DEF NextDue, Turns
  <2> QED BY <1>3, <1>5, <2>1 DEF SaveOnStop
<1>6. CASE EndRun
  BY <1>0, <1>6 DEF EndRun, TypeOK, Numbered, disk, save
<1>7. CASE Crash
  <2>1. bounds' \in [runs : 0..MaxRuns, crashes : 0..MaxCrashes, failures : 0..MaxFailures]
    BY <1>7, Parameters DEF Crash, TypeOK
  <2>2. headless' \in BOOLEAN /\ running' \in BOOLEAN /\ step' = "idle"
    BY <1>0, <1>7 DEF Crash
  <2> QED BY <1>0, <1>7, <2>1, <2>2 DEF Crash, TypeOK, Numbered
<1>8. CASE NoDirectory
  BY <1>0, <1>8, Parameters DEF NoDirectory, Fail, Return, TypeOK, Numbered, disk
<1>9. CASE TruncateJson
  BY <1>0, <1>9, Parameters DEF TruncateJson, Advance, TypeOK, Numbered
<1>10. CASE WriteJson
  BY <1>0, <1>10, Parameters DEF WriteJson, Advance, TypeOK, Numbered
<1>11. CASE JsonFails
  BY <1>0, <1>11, Parameters DEF JsonFails, Fail, Advance, TypeOK, Numbered, disk
<1>12. CASE RemoveLog
  BY <1>0, <1>12, Parameters DEF RemoveLog, Advance, TypeOK, Numbered
<1>13. CASE ReappendLatest
  BY <1>0, <1>13, Parameters DEF ReappendLatest, Fail, Advance, TypeOK, Numbered
<1>14. CASE AppendRecord
  <2>1. wal' \in Snapshot /\ clock' = clock
    BY <1>0, <1>14 DEF AppendRecord, Advance, Snapshot, Numbered
  <2> QED BY <1>0, <1>14, <2>1, Parameters DEF AppendRecord, Advance, TypeOK, Numbered
<1>15. CASE LogFails
  BY <1>0, <1>15, Parameters DEF LogFails, Fail, Advance, TypeOK, Numbered, disk
<1>16. CASE DropOldest
  BY <1>0, <1>16, Parameters DEF DropOldest, Remove, TypeOK, Numbered, save
<1>17. CASE DropLarge
  BY <1>0, <1>17, Parameters DEF DropLarge, Remove, Return, TypeOK, Numbered
<1>18. CASE StopSaved
  BY <1>0, <1>18, Parameters DEF StopSaved, Return, TypeOK, Numbered, disk
<1>19. CASE UNCHANGED vars
  BY <1>0, <1>19 DEF vars, disk, save, TypeOK, Numbered
<1> QED BY <1>1, <1>2, <1>4, <1>5, <1>6, <1>7, <1>8, <1>9, <1>10, <1>11, <1>12, <1>13,
           <1>14, <1>15, <1>16, <1>17, <1>18, <1>19 DEF Next

LEMMA TypedCorrect == Spec => []Typed
  BY TypedInit, TypedStep, PTL DEF Spec

(***************************************************************************)
(* The files, the log and the save in progress keep their types: every     *)
(* stamp on disk is that of a save that was begun, and the loop resumes at *)
(* a turn there is (resume_session, load_best_loop_checkpoint).            *)
(***************************************************************************)
THEOREM TypeCorrect == Spec => []TypeOK
  BY TypedCorrect, PTL DEF Typed


-----------------------------------------------------------------------------
(* A saved conversation can be resumed                                     *)

Undisturbed == bounds.crashes = 0 /\ bounds.failures = 0

\* Without a crash or a failure nothing but the file being written is torn,
\* and a log without a record stands for a conversation without a snapshot.
Offered ==
  Undisturbed =>
    /\ ~running => step = "idle"
    /\ ~headless
    /\ torn \subseteq {t \in Turns : step = "truncated" /\ t = turn}
    /\ step \in {"idle", "begun", "truncated"} /\ wal = NoSnapshot => Whole = {}
    /\ step = "logged" => wal # NoSnapshot

LEMMA BoundsMonotone ==
  ASSUME TypeOK, [Next]_vars, Undisturbed'
  PROVE  Undisturbed /\ ~Crash /\ ~Fail
<1>1. /\ bounds = [runs |-> bounds.runs, crashes |-> bounds.crashes, failures |-> bounds.failures]
      /\ bounds.runs \in Nat /\ bounds.crashes \in Nat /\ bounds.failures \in Nat
  BY Parameters DEF TypeOK
<1>2. ~Crash
  BY <1>1 DEF Crash, Undisturbed
<1>3. ~Fail
  BY <1>1 DEF Fail, Undisturbed
<1>4. CASE StartRun
  BY <1>1, <1>2, <1>3, <1>4 DEF StartRun, Undisturbed
<1>5. ASSUME bounds' = bounds PROVE Undisturbed
  BY <1>5 DEF Undisturbed
<1>6. ASSUME NEW t, NEW k, BeginSave(t, k) PROVE bounds' = bounds
  BY <1>6 DEF BeginSave
<1>7. CASE Next /\ ~StartRun
  BY <1>2, <1>3, <1>5, <1>6, <1>7
     DEF Next, Resume, SavePeriodic, SaveOnStop, EndRun, NoDirectory, TruncateJson, WriteJson,
         JsonFails, RemoveLog, ReappendLatest, AppendRecord, LogFails, DropOldest, DropLarge,
         StopSaved
<1>8. CASE UNCHANGED vars
  <2>1. bounds' = bounds
    BY <1>8 DEF vars
  <2> QED BY <1>2, <1>3, <1>5, <2>1
<1> QED BY <1>2, <1>3, <1>4, <1>7, <1>8

LEMMA OfferedInit == Init => Offered
  BY DEF Init, Offered, Whole

LEMMA OfferedStep ==
  ASSUME Typed, Offered, [Next]_vars
  PROVE  Offered'
<1> SUFFICES ASSUME Undisturbed' PROVE Offered'
  BY DEF Offered
<1>0. Undisturbed /\ ~Crash /\ ~Fail
  BY BoundsMonotone DEF Typed
<1>1. /\ ~running => step = "idle"
      /\ ~headless
      /\ torn \subseteq {t \in Turns : step = "truncated" /\ t = turn}
      /\ step \in {"idle", "begun", "truncated"} /\ wal = NoSnapshot => Whole = {}
      /\ step = "logged" => wal # NoSnapshot
      /\ files \in [Turns -> 0..MaxSaves] /\ turn \in Turns
      /\ step # "idle" => clock # 0
  BY <1>0, Parameters DEF Offered, Typed, TypeOK, Numbered
<1>2. ASSUME UNCHANGED disk, step # "truncated", running' \/ step' = "idle",
             step' = step \/ (step' \in {"idle", "begun"} /\ step \in {"idle", "begun", "logged"})
      PROVE  Offered'
  <2>1. files' = files /\ torn' = torn /\ wal' = wal /\ headless' = headless /\ Whole' = Whole
    BY <1>2 DEF disk, Whole
  <2>2. torn = {}
    BY <1>1, <1>2
  <2> QED BY <1>1, <1>2, <2>1, <2>2 DEF Offered
<1>3. CASE StartRun \/ Resume
  <2>1. UNCHANGED disk /\ step' = step /\ step = "idle" /\ running'
    BY <1>1, <1>3 DEF StartRun, Resume, save
  <2> QED BY <1>2, <2>1
<1>4. ASSUME NEW t, NEW k, BeginSave(t, k) PROVE Offered'
  BY <1>2, <1>4 DEF BeginSave
<1>5. CASE SavePeriodic \/ SaveOnStop
  BY <1>4, <1>5 DEF SavePeriodic, SaveOnStop
<1>6. CASE EndRun
  BY <1>2, <1>6 DEF EndRun, save
<1>7. CASE NoDirectory \/ JsonFails
  BY <1>0, <1>7 DEF NoDirectory, JsonFails
<1>8. CASE TruncateJson
  <2>1. Whole' \subseteq Whole
    BY <1>1, <1>8 DEF TruncateJson, Whole
  <2> QED BY <1>1, <1>8, <2>1 DEF TruncateJson, Advance, Offered
<1>9. CASE WriteJson
  BY <1>1, <1>9 DEF WriteJson, Advance, Offered
<1>10. CASE RemoveLog
  BY <1>1, <1>10 DEF RemoveLog, Advance, Offered
<1>11. CASE ReappendLatest
  BY <1>0, <1>1, <1>11 DEF ReappendLatest, Advance, Offered
<1>12. CASE AppendRecord
  <2>1. wal' # NoSnapshot
    BY <1>1, <1>12 DEF AppendRecord, NoSnapshot, Turns
  <2> QED BY <1>1, <1>12, <2>1 DEF AppendRecord, Advance, Offered
<1>13. CASE LogFails
  BY <1>0, <1>1, <1>13 DEF LogFails
<1>14. CASE DropOldest
  BY <1>1, <1>14 DEF DropOldest, Remove, save, Offered
<1>15. CASE DropLarge
  BY <1>1, <1>15 DEF DropLarge, Remove, Return, Offered
<1>16. CASE StopSaved
  BY <1>2, <1>16 DEF StopSaved, Return
<1>17. CASE UNCHANGED vars
  BY <1>1, <1>17 DEF vars, disk, save, Offered, Whole
<1> QED BY <1>0, <1>3, <1>5, <1>6, <1>7, <1>8, <1>9, <1>10, <1>11, <1>12, <1>13, <1>14, <1>15,
           <1>16, <1>17 DEF Next

LEMMA OfferedCovers == Typed /\ Offered => ResumeOffered
<1> SUFFICES ASSUME Typed, Offered, bounds.crashes + bounds.failures = 0,
                    load_best # NoSnapshot
             PROVE  load_latest # NoSnapshot
  BY DEF ResumeOffered
<1>1. Undisturbed
  <2>1. bounds.crashes \in Nat /\ bounds.failures \in Nat
    BY Parameters DEF Typed, TypeOK
  <2>2. \A a, b \in Nat : a + b = 0 => a = 0 /\ b = 0
    OBVIOUS
  <2> QED BY <2>1, <2>2 DEF Undisturbed
<1>2. Whole # {} \/ wal # NoSnapshot
  BY BestTyped DEF Typed
<1>3. wal \in Snapshot \cup {NoSnapshot}
  BY DEF Typed, TypeOK
<1> DEFINE f == IF Present = {} THEN NoSnapshot ELSE File(Last(Present))
<1>4. f \in Snapshot \cup {NoSnapshot}
  BY LastIs, FileTyped DEF Present, Typed
<1>5. load_latest = IF wal.turn >= f.turn THEN wal ELSE f
  BY DEF load_latest, OrLog
<1>6. CASE wal # NoSnapshot
  <2> HIDE DEF f
  <2> QED BY <1>3, <1>4, <1>5, <1>6, SnapshotFields
<1>7. CASE wal = NoSnapshot
  <2>1. step # "truncated" /\ Whole # {}
    BY <1>1, <1>2, <1>7 DEF Offered
  <2>2. torn = {}
    BY <1>1, <2>1 DEF Offered
  <2>3. Present # {} /\ Present \subseteq Turns /\ Present = Whole
    BY <2>1, <2>2 DEF Present, Whole
  <2>4. f \in Snapshot
    BY <2>3, LastIs, FileTyped DEF Whole, Typed
  <2> HIDE DEF f
  <2> QED BY <1>5, <1>7, <2>4, SnapshotFields
<1> QED BY <1>6, <1>7

(***************************************************************************)
(* While no file operation fails and the process does not die, a saved     *)
(* conversation can always be resumed: resume_session does not answer that *)
(* the agent must have been run at least once.                             *)
(***************************************************************************)
THEOREM ResumeOfferedHolds == Spec => []ResumeOffered
<1>1. Spec => [](Typed /\ Offered)
  BY TypedInit, TypedStep, OfferedInit, OfferedStep, PTL DEF Spec
<1> QED BY <1>1, OfferedCovers, PTL


-----------------------------------------------------------------------------
(* A run that dies is continued where it was                               *)

\* The best snapshot, of files and a log given as values.
TopFile(f) ==
  IF \A t \in Turns : f[t] = 0 THEN NoSnapshot
  ELSE [turn |-> Newest({t \in Turns : f[t] # 0}), stamp |-> f[Newest({t \in Turns : f[t] # 0})]]
BestIn(f, l) == IF l.turn >= TopFile(f).turn THEN l ELSE TopFile(f)

LEMMA BestIsBestIn == TypeOK => load_best = BestIn(files, wal)
<1> SUFFICES ASSUME TypeOK PROVE load_best = BestIn(files, wal)
  OBVIOUS
<1>1. Whole = {} <=> \A t \in Turns : files[t] = 0
  BY DEF Whole
<1>2. BestFile = TopFile(files)
  BY <1>1, BestFileIs, FileTyped DEF BestFile, TopFile, Whole, File
<1> QED BY <1>2, BestFileIs DEF BestIn, OrLog

LEMMA TopFileIs ==
  ASSUME NEW f \in [Turns -> 0..MaxSaves]
  PROVE  /\ TopFile(f) \in Snapshot \cup {NoSnapshot}
         /\ TopFile(f).turn \in Int /\ TopFile(f).turn >= -1
         /\ \A t \in Turns : f[t] # 0 => t <= TopFile(f).turn
         /\ TopFile(f) = NoSnapshot => \A t \in Turns : f[t] = 0
         /\ TopFile(f) # NoSnapshot => /\ TopFile(f).turn \in Turns
                                       /\ f[TopFile(f).turn] # 0
                                       /\ TopFile(f).stamp = f[TopFile(f).turn]
<1>1. CASE \A t \in Turns : f[t] = 0
  <2>1. TopFile(f) = NoSnapshot
    BY <1>1 DEF TopFile
  <2> QED BY <1>1, <2>1, SnapshotFields
<1>2. CASE ~ \A t \in Turns : f[t] = 0
  <2> DEFINE S == {t \in Turns : f[t] # 0}
             n == Newest(S)
  <2>1. n \in S /\ \A u \in S : u <= n
    BY <1>2, NewestIs
  <2>2. f[n] \in 1..MaxSaves /\ n \in Turns /\ n \in Nat
    BY <2>1, Parameters DEF Turns
  <2>3. TopFile(f) = [turn |-> n, stamp |-> f[n]]
    BY <1>2 DEF TopFile
  <2>4. TopFile(f) \in Snapshot /\ TopFile(f).turn = n /\ TopFile(f).stamp = f[n]
    BY <2>2, <2>3 DEF Snapshot
  <2> QED BY <2>1, <2>2, <2>4, SnapshotFields
<1> QED BY <1>1, <1>2

LEMMA BestInTyped ==
  ASSUME NEW f \in [Turns -> 0..MaxSaves], NEW l \in Snapshot \cup {NoSnapshot}
  PROVE  /\ BestIn(f, l) \in Snapshot \cup {NoSnapshot}
         /\ \A t \in Turns : f[t] # 0 => t <= BestIn(f, l).turn
         /\ l.turn <= BestIn(f, l).turn
         /\ BestIn(f, l) = NoSnapshot => l = NoSnapshot /\ \A t \in Turns : f[t] = 0
<1>1. l.turn \in Int /\ l.turn >= -1
  BY SnapshotFields
<1>2. \A t \in Turns : t \in Int /\ t >= 0
  BY DEF Turns
<1> QED BY <1>1, <1>2, TopFileIs, SnapshotFields DEF BestIn

LEMMA BestInFile ==
  ASSUME NEW f \in [Turns -> 0..MaxSaves], NEW l \in Snapshot \cup {NoSnapshot},
         NEW t \in Turns, f[t] # 0, \A u \in Turns : f[u] # 0 => u <= t, l.turn < t
  PROVE  BestIn(f, l) = [turn |-> t, stamp |-> f[t]]
<1>1. TopFile(f) # NoSnapshot
  BY TopFileIs
<1>2. TopFile(f).turn = t
  <2>1. t <= TopFile(f).turn /\ TopFile(f).turn <= t /\ TopFile(f).turn \in Int
    BY <1>1, TopFileIs
  <2>2. t \in Int
    BY DEF Turns
  <2> QED BY <2>1, <2>2
<1>3. TopFile(f) = [turn |-> t, stamp |-> f[t]]
  BY <1>1, <1>2, TopFileIs DEF Snapshot
<1>4. l.turn \in Int
  BY SnapshotFields
<1> QED BY <1>2, <1>3, <1>4 DEF BestIn, Turns

LEMMA BestInLog ==
  ASSUME NEW f \in [Turns -> 0..MaxSaves], NEW l \in Snapshot,
         \A u \in Turns : f[u] # 0 => u <= l.turn
  PROVE  BestIn(f, l) = l
<1>1. l.turn \in Nat
  BY SnapshotFields
<1>2. TopFile(f).turn <= l.turn
  BY <1>1, TopFileIs, SnapshotFields
<1> QED BY <1>1, <1>2, TopFileIs DEF BestIn

\* The turn of the next periodic save.
Due(t) == Interval * (t \div Interval + 1)
Writing == step \in {"written", "emptied", "compacted", "logged"}
Best == BestIn(files, wal)

(***************************************************************************)
(* The loop stands at the turn of the best snapshot, a save in progress is *)
(* of the next due turn, and a torn file never lies beyond that turn: no   *)
(* step touches the best snapshot before a better one is on disk.          *)
(***************************************************************************)
Ahead ==
  /\ kind = "periodic"
  /\ bounds.runs = 0 => ~running /\ torn = {} /\ Best = NoSnapshot
  /\ ~running => step = "idle"
  /\ step = "idle" /\ running =>
       (Best = NoSnapshot \/ Best.turn = turn) /\ torn \subseteq 0..Due(turn)
  /\ ~running /\ Best # NoSnapshot => torn \subseteq 0..Due(Best.turn)
  /\ step \in {"begun", "truncated"} =>
       (Best = NoSnapshot \/ turn = Due(Best.turn)) /\ torn \subseteq 0..turn
  /\ Writing =>
       files[turn] = clock /\ Best = [turn |-> turn, stamp |-> clock] /\ torn \subseteq 0..turn
  /\ step \in {"written", "compacted"} => wal.turn < turn
  /\ step = "emptied" => held.turn < turn
  /\ Best.stamp >= saved

LEMMA AheadInit == Init => Ahead
<1> SUFFICES ASSUME Init PROVE Ahead
  OBVIOUS
<1>1. 0 \in 0..MaxSaves /\ files \in [Turns -> 0..MaxSaves]
  BY Parameters DEF Init
<1>2. TopFile(files) = NoSnapshot /\ wal = NoSnapshot
  BY DEF Init, TopFile
<1>3. Best = NoSnapshot
  BY <1>2, SnapshotFields DEF Best, BestIn
<1> QED BY <1>3, SnapshotFields DEF Init, Ahead, Writing

\* What Typed and Ahead say, in the form the steps use.
LEMMA AheadParts ==
  ASSUME Typed
  PROVE  /\ files \in [Turns -> 0..MaxSaves] /\ torn \subseteq Turns
         /\ wal \in Snapshot \cup {NoSnapshot} /\ held \in Snapshot \cup {NoSnapshot}
         /\ turn \in Turns /\ turn \in Nat /\ clock \in Nat /\ saved \in Nat /\ saved <= clock
         /\ step # "idle" => clock \in 1..MaxSaves /\ clock # 0
         /\ Best \in Snapshot \cup {NoSnapshot}
         /\ \A t \in Turns : files[t] # 0 => t <= Best.turn
         /\ wal.turn <= Best.turn
         /\ Best = NoSnapshot => wal = NoSnapshot /\ \A t \in Turns : files[t] = 0
         /\ load_best = Best
         /\ \A t \in Turns : t \in Nat /\ Due(t) \in Nat /\ t < Due(t)
<1>1. /\ files \in [Turns -> 0..MaxSaves] /\ torn \subseteq Turns
      /\ wal \in Snapshot \cup {NoSnapshot} /\ held \in Snapshot \cup {NoSnapshot}
      /\ turn \in Turns /\ clock \in 0..MaxSaves /\ saved \in 0..clock
      /\ step # "idle" => clock \in 1..MaxSaves
  BY DEF Typed, TypeOK, Numbered
<1>2. turn \in Nat /\ clock \in Nat /\ saved \in Nat /\ saved <= clock
  BY <1>1, Parameters DEF Turns
<1>3. step # "idle" => clock # 0
  BY <1>1, Parameters
<1>4. /\ Best \in Snapshot \cup {NoSnapshot}
      /\ \A t \in Turns : files[t] # 0 => t <= Best.turn
      /\ wal.turn <= Best.turn
      /\ Best = NoSnapshot => wal = NoSnapshot /\ \A t \in Turns : files[t] = 0
  BY <1>1, BestInTyped DEF Best
<1>5. load_best = Best
  BY BestIsBestIn DEF Best, Typed
<1>6. \A t \in Turns : t \in Nat /\ Due(t) \in Nat /\ t < Due(t)
  BY DueLater DEF Due, Turns
<1> QED BY <1>1, <1>2, <1>3, <1>4, <1>5, <1>6


LEMMA FirstIs ==
  ASSUME NEW S \in SUBSET Turns, S # {}
  PROVE  First(S) \in S /\ \A u \in S \ {First(S)} : Before(First(S), u)
<1> DEFINE P == {Place(t) : t \in S}
<1>1. 2 * (MaxTurn * Base) + 1 \in Nat
  BY Parameters
<1>2. P \in SUBSET Nat /\ P # {}
  BY <1>1, PlaceTyped
<1>3. PICK x \in P : \A y \in P : x <= y
  BY <1>2, Least
<1>4. PICK t \in S : Place(t) = x
  BY <1>3
<1>5. \A u \in S \ {t} : Before(t, u)
  <2> SUFFICES ASSUME NEW u \in S \ {t} PROVE Before(t, u)
    OBVIOUS
  <2>1. Place(t) <= Place(u) /\ Place(u) \in Nat /\ Place(t) \in Nat
    BY <1>1, <1>3, <1>4, PlaceTyped
  <2>2. Place(u) # Place(t)
    BY <1>4, BeforeIsPlace
  <2> QED BY <1>4, <2>1, <2>2, BeforeIsPlace
<1> QED BY <1>4, <1>5 DEF First

\* The clean-up spares the newest file.
LEMMA NewestSpared ==
  ASSUME MaxTurn < ShortNames, NEW S \in SUBSET Turns, NEW t \in S, \A u \in S : u <= t
  PROVE  Last(S) = t /\ (Cardinality(S) > Keep => First(S) # t)
<1>1. \A a, b \in Turns : Before(a, b) <=> a < b
  BY Parameters DEF Before, Turns
<1>2. Last(S) = t
  <2> SUFFICES ASSUME Last(S) # t PROVE FALSE
    OBVIOUS
  <2>1. Last(S) \in S /\ Before(t, Last(S))
    BY LastIs
  <2>2. t \in Turns /\ Last(S) \in Turns /\ Last(S) <= t
    BY <2>1
  <2>3. t < Last(S) /\ t \in Nat /\ Last(S) \in Nat
    BY <1>1, <2>1, <2>2 DEF Turns
  <2> QED BY <2>2, <2>3
<1>3. ASSUME Cardinality(S) > Keep, First(S) = t PROVE FALSE
  <2>1. S # {t}
    <3>1. Cardinality({t}) = 1
      BY FS_Singleton
    <3> QED BY <1>3, <3>1, Parameters
  <2>2. PICK u \in S : u # t
    BY <2>1
  <2>3. Before(t, u)
    BY <1>3, <2>2, FirstIs
  <2> QED BY <1>1, <2>2, <2>3 DEF Turns
<1> QED BY <1>2, <1>3

LEMMA SpareBest ==
  ASSUME Typed, Ahead, Writing, NEW S, turn \notin S, Remove(S), wal' = wal, turn' = turn,
         clock' = clock
  PROVE  /\ Best' = [turn |-> turn', stamp |-> clock'] /\ files'[turn'] = clock'
         /\ torn' \subseteq 0..turn'
<1>0. /\ files \in [Turns -> 0..MaxSaves] /\ turn \in Turns /\ turn \in Nat
      /\ wal \in Snapshot \cup {NoSnapshot} /\ clock # 0
      /\ \A t \in Turns : files[t] # 0 => t <= Best.turn
      /\ wal.turn <= Best.turn
  BY AheadParts DEF Writing
<1>1. files[turn] = clock /\ Best = [turn |-> turn, stamp |-> clock] /\ torn \subseteq 0..turn
  BY DEF Ahead
<1>2. /\ files' \in [Turns -> 0..MaxSaves]
      /\ \A t \in Turns : files'[t] # 0 => files[t] # 0
      /\ files'[turn] = clock /\ torn' \subseteq torn
  BY <1>0, <1>1, Parameters DEF Remove
<1>3. Best.turn = turn
  BY <1>1
<1>4. \A t \in Turns : files'[t] # 0 => t <= turn
  BY <1>0, <1>2, <1>3
<1>5. BestIn(files', wal) = [turn |-> turn, stamp |-> clock]
  <2>1. CASE wal.turn < turn
    BY <1>0, <1>2, <1>4, <2>1, BestInFile
  <2>2. CASE wal.turn = turn
    <3>1. wal \in Snapshot
      BY <1>0, <2>2, SnapshotFields
    <3>2. wal = Best
      <4>1. TopFile(files).turn \in Int
        BY <1>0, TopFileIs
      <4>2. Best = wal \/ (Best = TopFile(files) /\ ~ wal.turn >= TopFile(files).turn)
        BY DEF Best, BestIn
      <4> QED BY <1>0, <1>3, <2>2, <4>1, <4>2
    <3>3. BestIn(files', wal) = wal
      BY <1>2, <1>4, <2>2, <3>1, BestInLog
    <3> QED BY <1>1, <3>2, <3>3
  <2>3. wal.turn \in Int /\ wal.turn <= turn
    BY <1>0, <1>3, SnapshotFields
  <2> QED BY <1>0, <2>1, <2>2, <2>3
<1>6. Best' = BestIn(files', wal)
  BY DEF Best
<1> QED BY <1>1, <1>2, <1>5, <1>6

LEMMA AheadStep ==
  ASSUME Kinds = {"periodic"}, MaxFailures = 0, MaxRuns <= 1, MaxTurn < ShortNames,
         Typed, Typed', Ahead, [Next]_vars
  PROVE  Ahead'
<1>0. /\ files \in [Turns -> 0..MaxSaves] /\ torn \subseteq Turns
      /\ wal \in Snapshot \cup {NoSnapshot} /\ held \in Snapshot \cup {NoSnapshot}
      /\ turn \in Turns /\ turn \in Nat /\ clock \in Nat /\ saved \in Nat /\ saved <= clock
      /\ step # "idle" => clock \in 1..MaxSaves /\ clock # 0
      /\ Best \in Snapshot \cup {NoSnapshot}
      /\ \A t \in Turns : files[t] # 0 => t <= Best.turn
      /\ wal.turn <= Best.turn
      /\ Best = NoSnapshot => wal = NoSnapshot /\ \A t \in Turns : files[t] = 0
      /\ load_best = Best
      /\ \A t \in Turns : t \in Nat /\ Due(t) \in Nat /\ t < Due(t)
  BY AheadParts
<1>a. /\ kind = "periodic"
      /\ bounds.runs = 0 => ~running /\ torn = {} /\ Best = NoSnapshot
      /\ ~running => step = "idle"
      /\ step = "idle" /\ running =>
           (Best = NoSnapshot \/ Best.turn = turn) /\ torn \subseteq 0..Due(turn)
      /\ ~running /\ Best # NoSnapshot => torn \subseteq 0..Due(Best.turn)
      /\ step \in {"begun", "truncated"} =>
           (Best = NoSnapshot \/ turn = Due(Best.turn)) /\ torn \subseteq 0..turn
      /\ Writing =>
           files[turn] = clock /\ Best = [turn |-> turn, stamp |-> clock] /\ torn \subseteq 0..turn
      /\ step \in {"written", "compacted"} => wal.turn < turn
      /\ step = "emptied" => held.turn < turn
      /\ Best.stamp >= saved
  BY DEF Ahead
<1>b. ~Fail
  BY Parameters DEF Fail, Typed, TypeOK
<1>c. ASSUME files' = files, wal' = wal PROVE Best' = Best
  BY <1>c DEF Best
<1>d. Best.turn \in Int /\ Best.turn >= -1 /\ (Best # NoSnapshot => Best.turn \in Turns)
  BY <1>0, SnapshotFields
\* In the middle of a write the best snapshot is of an earlier turn.
<1>e. ASSUME step \in {"begun", "truncated"}
      PROVE  wal.turn < turn /\ files[turn] = 0 /\ \A u \in Turns : files[u] # 0 => u <= turn
  <2>1. CASE Best = NoSnapshot
    BY <1>0, <2>1, SnapshotFields
  <2>2. CASE Best # NoSnapshot
    <3>1. Best.turn < turn /\ Best.turn \in Nat
      BY <1>0, <1>a, <1>d, <1>e, <2>2
    <3>2. wal.turn \in Int
      BY <1>0, SnapshotFields
    <3> QED BY <1>0, <3>1, <3>2
  <2> QED BY <2>1, <2>2
\* While the log is written the file of the turn is the newest.
<1>f. ASSUME Writing
      PROVE  /\ files[turn] = clock /\ clock # 0 /\ Best.turn = turn /\ Best.stamp = clock
             /\ \A u \in Turns : files[u] # 0 => u <= turn
             /\ running
  BY <1>0, <1>a, <1>f DEF Writing
<1>g. ASSUME running PROVE bounds.runs # 0
  BY <1>a, <1>g
<1>1. CASE StartRun
  <2>1. bounds.runs = 0 /\ bounds'.runs = bounds.runs + 1
    BY <1>1, Parameters DEF StartRun, Typed, TypeOK
  <2>2. Best' = Best /\ Best = NoSnapshot /\ torn' = {} /\ step' = "idle" /\ running' /\ kind' = kind
        /\ saved' = saved /\ bounds'.runs # 0
    BY <1>1, <1>a, <1>c, <2>1 DEF StartRun, disk, save
  <2> QED BY <1>a, <2>2 DEF Ahead, Writing
<1>2. CASE Resume
  <2>1. Best \in Snapshot /\ turn' = Best.turn
    BY <1>0, <1>2, LatestIsSome DEF Resume, Typed
  <2>2. Best # NoSnapshot
    BY <2>1, SnapshotFields
  <2>3. Best' = Best /\ torn' = torn /\ step' = "idle" /\ running' /\ kind' = kind
        /\ saved' = saved /\ bounds' = bounds /\ ~running
    BY <1>2, <1>a, <1>c DEF Resume, disk, save
  <2> QED BY <1>a, <2>1, <2>2, <2>3 DEF Ahead, Writing
<1>3. CASE SavePeriodic
  <2>1. /\ running /\ step = "idle" /\ running' = running /\ step' = "begun" /\ turn' = Due(turn)
        /\ kind' = "periodic" /\ saved' = saved /\ bounds' = bounds
        /\ Best' = Best /\ torn' = torn
    BY <1>3, <1>c DEF SavePeriodic, BeginSave, NextDue, Due, disk
  <2> QED BY <1>a, <2>1 DEF Ahead, Writing
<1>4. CASE SaveOnStop
  BY <1>4 DEF SaveOnStop, BeginSave
<1>5. CASE EndRun
  <2>1. /\ running /\ step = "idle" /\ ~running' /\ step' = step /\ turn' = turn
        /\ kind' = kind /\ saved' = saved /\ bounds' = bounds
        /\ Best' = Best /\ torn' = torn
    BY <1>5, <1>c DEF EndRun, disk, save
  <2> QED BY <1>a, <1>g, <2>1 DEF Ahead, Writing
<1>6. CASE Crash
  <2>1. /\ running /\ ~running' /\ step' = "idle"
        /\ kind' = kind /\ saved' = saved /\ Best' = Best /\ torn' = torn
    BY <1>6, <1>c DEF Crash
  <2>2. bounds'.runs = bounds.runs
    BY <1>6 DEF Crash, Typed, TypeOK
  <2>3. ASSUME Best # NoSnapshot PROVE torn \subseteq 0..Due(Best.turn)
    <3>1. CASE step = "idle" \/ step \in {"begun", "truncated"}
      BY <1>a, <2>1, <2>3, <3>1
    <3>2. CASE Writing
      <4>1. torn \subseteq 0..turn /\ Best.turn = turn /\ turn < Due(turn) /\ Due(turn) \in Nat
        BY <1>0, <1>a, <1>f, <3>2
      <4> QED BY <1>0, <4>1
    <3> QED BY <3>1, <3>2 DEF Writing, Typed, TypeOK
  <2> QED BY <1>a, <1>g, <2>1, <2>2, <2>3 DEF Ahead, Writing
<1>7. CASE NoDirectory \/ JsonFails
  BY <1>7, <1>b DEF NoDirectory, JsonFails
<1>8. CASE TruncateJson
  <2>1. /\ step = "begun" /\ step' = "truncated" /\ turn' = turn /\ kind' = kind
        /\ running' = running /\ saved' = saved /\ bounds' = bounds /\ wal' = wal
        /\ files' = [files EXCEPT ![turn] = 0] /\ torn' = torn \cup {turn}
    BY <1>8 DEF TruncateJson, Advance
  <2>2. files' = files
    BY <1>0, <1>e, <2>1
  <2>3. Best' = Best /\ torn' \subseteq 0..turn
    BY <1>0, <1>a, <1>c, <2>1, <2>2
  <2> QED BY <1>a, <1>g, <2>1, <2>3 DEF Ahead, Writing
<1>9. CASE WriteJson
  <2>1. /\ step = "truncated" /\ step' = "written" /\ turn' = turn /\ kind' = kind /\ clock' = clock
        /\ running' = running /\ saved' = saved /\ bounds' = bounds /\ wal' = wal
        /\ files' = [files EXCEPT ![turn] = clock] /\ torn' \subseteq torn
    BY <1>9 DEF WriteJson, Advance
  <2>2. /\ files' \in [Turns -> 0..MaxSaves] /\ files'[turn] = clock /\ clock # 0
        /\ \A u \in Turns : files'[u] # 0 => u <= turn
        /\ wal.turn < turn
    BY <1>0, <1>e, <2>1
  <2>3. Best' = [turn |-> turn, stamp |-> clock]
    <3>1. Best' = BestIn(files', wal)
      BY <2>1 DEF Best
    <3> QED BY <1>0, <2>2, <3>1, BestInFile
  <2>4. Best'.stamp >= saved /\ torn' \subseteq 0..turn /\ running
    BY <1>0, <1>a, <2>1, <2>3
  <2> QED BY <1>a, <1>g, <2>1, <2>2, <2>3, <2>4 DEF Ahead, Writing
<1>10. CASE RemoveLog
  <2>1. /\ step = "written" /\ step' = "emptied" /\ turn' = turn /\ kind' = kind /\ clock' = clock
        /\ running' = running /\ saved' = saved /\ bounds' = bounds /\ wal' = NoSnapshot
        /\ held' = wal /\ files' = files /\ torn' = torn
    BY <1>10 DEF RemoveLog, Advance
  <2>2. Best' = [turn |-> turn, stamp |-> clock]
    <3>1. Best' = BestIn(files, NoSnapshot) /\ Writing /\ NoSnapshot.turn < turn
      BY <1>0, <2>1, SnapshotFields DEF Best, Writing
    <3> QED BY <1>0, <1>f, <3>1, BestInFile
  <2> QED BY <1>0, <1>a, <1>f, <1>g, <2>1, <2>2 DEF Ahead, Writing
<1>11. CASE ReappendLatest
  <2>1. /\ step = "emptied" /\ step' = "compacted" /\ turn' = turn /\ kind' = kind
        /\ clock' = clock /\ wal' = held
        /\ running' = running /\ saved' = saved /\ bounds' = bounds
        /\ files' = files /\ torn' = torn
    BY <1>11, <1>b DEF ReappendLatest, Advance
  <2>2. Best' = [turn |-> turn, stamp |-> clock]
    <3>1. Best' = BestIn(files, held) /\ Writing /\ held.turn < turn
      BY <1>a, <2>1 DEF Best, Writing
    <3> QED BY <1>0, <1>f, <3>1, BestInFile
  <2> QED BY <1>0, <1>a, <1>f, <1>g, <2>1, <2>2 DEF Ahead, Writing
<1>12. CASE AppendRecord
  <2>1. /\ Writing /\ step' = "logged" /\ turn' = turn /\ kind' = kind
        /\ clock' = clock /\ wal' = [turn |-> turn, stamp |-> clock]
        /\ running' = running /\ saved' = saved /\ bounds' = bounds
        /\ files' = files /\ torn' = torn
    BY <1>12 DEF AppendRecord, Advance, Writing
  <2>2. Best' = [turn |-> turn, stamp |-> clock]
    <3>1. wal' \in Snapshot /\ wal'.turn = turn
      BY <1>0, <2>1 DEF Snapshot, Writing
    <3>2. Best' = BestIn(files, wal')
      BY <2>1 DEF Best
    <3> QED BY <1>0, <1>f, <2>1, <3>1, <3>2, BestInLog
  <2> QED BY <1>0, <1>a, <1>f, <1>g, <2>1, <2>2 DEF Ahead, Writing
<1>13. CASE LogFails
  <2>1. /\ Writing /\ step' = "logged" /\ turn' = turn /\ kind' = kind
        /\ clock' = clock /\ Best' = Best /\ files' = files
        /\ running' = running /\ saved' = saved /\ bounds' = bounds /\ torn' = torn
    BY <1>13, <1>b, <1>c DEF LogFails, Advance, Writing, disk
  <2> QED BY <1>0, <1>a, <1>f, <1>g, <2>1 DEF Ahead, Writing
\* The clean-up.
<1>h. ASSUME Writing
      PROVE  /\ Present # {} /\ Last(Present) = turn
             /\ Cardinality(Present) > Keep => First(Present) # turn
  <2>1. turn \in Present /\ Present \in SUBSET Turns
    BY <1>0, <1>f, <1>h DEF Present
  <2>2. \A u \in Present : u <= turn
    BY <1>a, <1>f, <1>h DEF Present
  <2> QED BY <2>1, <2>2, NewestSpared
<1>14. CASE DropOldest
  <2>1. /\ step = "logged" /\ step' = step /\ turn' = turn /\ kind' = kind /\ clock' = clock
        /\ running' = running /\ saved' = saved /\ bounds' = bounds /\ wal' = wal
        /\ Remove({First(Present)}) /\ First(Present) # turn /\ Writing
    BY <1>14, <1>h DEF DropOldest, save, Writing
  <2>2. /\ Best' = [turn |-> turn', stamp |-> clock'] /\ files'[turn'] = clock'
        /\ torn' \subseteq 0..turn'
    BY <2>1, SpareBest
  <2> QED BY <1>0, <1>a, <1>f, <1>g, <2>1, <2>2 DEF Ahead, Writing
<1>15. CASE DropLarge
  <2>1. Writing
    BY <1>15 DEF DropLarge, Writing
  <2>2. PICK S \in SUBSET Turns : Remove(S) /\ turn \notin S
    BY <1>15, <1>h, <2>1 DEF DropLarge
  <2>3. /\ step' = "idle" /\ turn' = turn /\ kind' = kind /\ clock' = clock /\ running'
        /\ bounds' = bounds /\ wal' = wal /\ (saved' = clock \/ saved' = saved)
    BY <1>15, <1>a DEF DropLarge, Return
  <2>4. /\ Best' = [turn |-> turn', stamp |-> clock'] /\ torn' \subseteq 0..turn'
    BY <2>1, <2>2, <2>3, SpareBest
  <2>5. Best'.turn = turn' /\ Best'.stamp = clock /\ torn' \subseteq 0..Due(turn') /\ running
    BY <1>0, <1>f, <2>1, <2>3, <2>4
  <2> QED BY <1>0, <1>a, <1>g, <2>3, <2>5 DEF Ahead, Writing
<1>16. CASE StopSaved
  BY <1>16, <1>a DEF StopSaved
<1>17. CASE UNCHANGED vars
  <2>1. /\ files' = files /\ wal' = wal /\ torn' = torn /\ step' = step /\ kind' = kind
        /\ held' = held /\ turn' = turn /\ running' = running /\ bounds' = bounds
        /\ clock' = clock /\ saved' = saved
    BY <1>17 DEF vars, disk, save
  <2>2. Best' = Best
    BY <1>c, <2>1
  <2> QED BY <1>a, <2>1, <2>2 DEF Ahead, Writing
<1> QED BY <1>1, <1>2, <1>3, <1>4, <1>5, <1>6, <1>7, <1>8, <1>9, <1>10, <1>11, <1>12, <1>13,
           <1>14, <1>15, <1>16, <1>17 DEF Next

(***************************************************************************)
(* A run that saves periodically and dies, any number of times and between *)
(* any two file operations, is never rewound: load_best_loop_checkpoint    *)
(* finds a snapshot at least as recent as the last one that was kept, also *)
(* when a save writes a torn file again while the log is unusable, which   *)
(* Recoverable excepts.  It is stated where the code can promise it: no    *)
(* write fails, the files of one run only, no stop that rewrites a         *)
(* snapshot, and a turn that fits the width of the file name.              *)
(***************************************************************************)
THEOREM RecoverableHolds ==
  ASSUME Kinds = {"periodic"}, MaxFailures = 0, MaxRuns <= 1, MaxTurn < ShortNames
  PROVE  Spec => []NeverRewound /\ []Recoverable
<1>1. Typed /\ Ahead => NeverRewound /\ Recoverable
  BY AheadParts DEF Ahead, NeverRewound, Recoverable
<1>2. Typed /\ Typed' /\ Ahead /\ [Next]_vars => Ahead'
  BY AheadStep
<1> QED BY TypedCorrect, AheadInit, <1>1, <1>2, PTL DEF Spec

=============================================================================
