--------------------------- MODULE CheckpointStore --------------------------
(***************************************************************************)
(* The checkpoints of one conversation on disk (crates/oz-core/src/        *)
(* checkpoint.rs): one JSON file per saved turn, and a write-ahead log     *)
(* that is compacted before every append (MAX_WAL_RECORDS is 1).  A save   *)
(* runs on the blocking pool and the loop awaits it; the process may die   *)
(* between any two of its file operations, and what is on disk then is     *)
(* what resume finds.                                                      *)
(*                                                                         *)
(* A snapshot is its turn and a stamp, the number of the save that made    *)
(* it: two runs of a conversation both save a turn 3, with different       *)
(* stamps.  A torn log record is skipped by every reader, so appending a   *)
(* record is one step.                                                     *)
(***************************************************************************)
EXTENDS Integers, FiniteSets

CONSTANTS
  Keep,         \* snapshots the count budget keeps, 5 in the code
  Interval,     \* checkpoint_interval: turns between periodic saves
  Base,         \* radix of the turn in a file name, 10
  ShortNames,   \* turns below this have names of equal length, 1000
  Kinds,        \* the saves the run makes: "periodic", "stop"
  MaxTurn,      \* bound: turns of a run
  MaxSaves,     \* bound: saves
  MaxRuns,      \* bound: runs started afresh
  MaxCrashes,   \* bound: times the process dies
  MaxFailures   \* bound: file operations that fail

ASSUME ParametersAssumption ==
  /\ {Keep, Interval, Base, ShortNames} \subseteq Nat \ {0}
  /\ Kinds \subseteq {"periodic", "stop"}
  /\ {MaxTurn, MaxSaves, MaxRuns, MaxCrashes, MaxFailures} \subseteq Nat

Turns == 0..MaxTurn
Snapshot == [turn : Turns, stamp : 1..MaxSaves]
NoSnapshot == [turn |-> -1, stamp |-> 0]

VARIABLES
  files,      \* turn -> stamp of the snapshot in loop_<sid>_<turn>.json, 0: none
  torn,       \* turns whose file exists and does not parse
  wal,        \* the last record of the log
  headless,   \* the log was created and never got its magic bytes
  step,       \* how far the save in progress got
  kind,       \* the save in progress: periodic ones clean up
  held,       \* the log record a compaction carries over
  kept,       \* the save in progress has put its snapshot somewhere
  turn,       \* the turn the loop is at
  running,    \* a run is in progress
  bounds,     \* how often it was run afresh, crashed, failed
  clock,      \* stamp of the last save begun
  saved,      \* history: stamp of the last save that kept its snapshot
  peril       \* history: risks the save in progress runs; two are remembered

disk == <<files, torn, wal, headless>>
save == <<step, kind, held, kept>>
vars == <<disk, save, turn, running, bounds, clock, saved, peril>>

Present == {t \in Turns : files[t] # 0 \/ t \in torn}
Whole == {t \in Turns : files[t] # 0}

\* paths.sort(): file names compare as strings, the turn zero-padded to the
\* width of ShortNames - 1 and longer from there on.
Before(a, b) ==
  IF (a < ShortNames) = (b < ShortNames) THEN a < b
  ELSE IF a < ShortNames THEN a * Base <= b
  ELSE a < b * Base
\* Mutant of First: the sort is the other way round.
FirstDescending(S) == CHOOSE t \in S : \A u \in S \ {t} : Before(u, t)

First(S) == CHOOSE t \in S : \A u \in S \ {t} : Before(t, u)
Last(S) == CHOOSE t \in S : \A u \in S \ {t} : Before(u, t)
Newest(S) == CHOOSE t \in S : \A u \in S : u <= t

File(t) == IF files[t] = 0 THEN NoSnapshot ELSE [turn |-> t, stamp |-> files[t]]

\* A log record of the same turn or a later one wins.
OrLog(f) == IF wal.turn >= f.turn THEN wal ELSE f

\* Mutant of load_latest: the log is not consulted.
LatestFileOnly == IF Present = {} THEN NoSnapshot ELSE File(Last(Present))

\* The last name only.
load_latest == OrLog(IF Present = {} THEN NoSnapshot ELSE File(Last(Present)))

\* Mutant of load_best: no scan of the older files.
BestWithoutScan ==
  OrLog(IF Present = {} THEN NoSnapshot ELSE File(Newest(Present)))

\* The highest turn or, if that file does not parse, the highest that does.
load_best ==
  OrLog(IF Whole = {} THEN NoSnapshot
        ELSE IF Newest(Present) \in Whole THEN File(Newest(Present))
        ELSE File(Newest(Whole)))

Init ==
  /\ files = [t \in Turns |-> 0] /\ torn = {} /\ wal = NoSnapshot /\ headless = FALSE
  /\ step = "idle" /\ kind = "periodic" /\ held = NoSnapshot /\ kept = FALSE
  /\ turn = 0 /\ running = FALSE
  /\ bounds = [runs |-> 0, crashes |-> 0, failures |-> 0]
  /\ clock = 0 /\ saved = 0 /\ peril = 0

-----------------------------------------------------------------------------
(* The agent loop.                                                         *)

\* send or regenerate: the loop starts at turn 0, the old files stay.
StartRun ==
  /\ ~running
  /\ bounds.runs < MaxRuns
  /\ running' = TRUE /\ turn' = 0
  /\ bounds' = [bounds EXCEPT !.runs = @ + 1]
  /\ UNCHANGED <<disk, save, clock, saved, peril>>

\* Mutant of Resume: the gate is gone.
ResumeUngated ==
  /\ ~running
  /\ running' = TRUE /\ turn' = load_best.turn
  /\ UNCHANGED <<disk, save, bounds, clock, saved, peril>>

\* resume_session asks for the latest, the loop continues from the best.
Resume ==
  /\ ~running
  /\ load_latest # NoSnapshot
  /\ running' = TRUE /\ turn' = load_best.turn
  /\ UNCHANGED <<disk, save, bounds, clock, saved, peril>>

\* The turn was saved before, or its file name is not the last of all.
OutOfOrder(t) == t <= wal.turn \/ \E u \in Present : u = t \/ Before(t, u)

\* The log works, and the last saved snapshot or a newer one is in it and in a file.
Doubled == ~headless /\ wal.stamp >= saved /\ \E t \in Turns : files[t] >= saved

BeginSave(t, k) ==
  /\ k \in Kinds
  /\ running /\ step = "idle"
  /\ t <= MaxTurn /\ clock < MaxSaves
  /\ clock' = clock + 1
  /\ turn' = t
  /\ step' = "begun" /\ kind' = k /\ held' = NoSnapshot /\ kept' = FALSE
  /\ peril' = IF peril = 2 \/ (OutOfOrder(t) /\ ~Doubled) THEN 2
              ELSE IF OutOfOrder(t) \/ ~Doubled THEN 1 ELSE 0
  /\ UNCHANGED <<disk, running, bounds, saved>>

NextDue == Interval * (turn \div Interval + 1)

\* At the end of every turn that is a multiple of the interval.
SavePeriodic == BeginSave(NextDue, "periodic")

\* Stopped, paused, timed out or stuck, in any turn up to the next due one.
SaveOnStop == \E t \in turn..NextDue : BeginSave(t, "stop")

\* The loop returns without a save of its own: done, or failed.
EndRun ==
  /\ running /\ step = "idle"
  /\ running' = FALSE
  /\ UNCHANGED <<disk, save, turn, bounds, clock, saved, peril>>

\* The process dies, perhaps between the creation of a log and its header.
Crash ==
  /\ running
  /\ bounds.crashes < MaxCrashes
  /\ bounds' = [bounds EXCEPT !.crashes = @ + 1]
  /\ running' = FALSE /\ step' = "idle"
  /\ \/ UNCHANGED headless
     \/ /\ step = "emptied" \/ (step = "written" /\ wal = NoSnapshot)
        /\ headless' = TRUE
  /\ UNCHANGED <<files, torn, wal, kind, held, kept, turn, clock, saved, peril>>

-----------------------------------------------------------------------------
(* One save: save_loop_checkpoint_impl, write_loop_checkpoint_bytes.       *)

Fail ==
  /\ bounds.failures < MaxFailures
  /\ bounds' = [bounds EXCEPT !.failures = @ + 1]
  /\ peril' = IF peril = 2 THEN 2 ELSE peril + 1

Advance(s) == step' = s /\ UNCHANGED <<kind, turn, running, clock, saved>>

\* The save returns; the run ends with a save on the stop path.
Return ==
  /\ step' = "idle"
  /\ saved' = IF kept THEN clock ELSE saved
  /\ running' = (kind = "periodic")
  /\ UNCHANGED <<kind, held, kept, turn, clock>>

\* create_dir_all fails: nothing is written.
NoDirectory ==
  /\ step = "begun"
  /\ Fail
  /\ Return
  /\ UNCHANGED disk

\* fs::write opens and truncates ...
TruncateJson ==
  /\ step = "begun"
  /\ files' = [files EXCEPT ![turn] = 0] /\ torn' = torn \cup {turn}
  /\ Advance("truncated")
  /\ UNCHANGED <<wal, headless, held, kept, bounds, peril>>

\* ... and then writes.
WriteJson ==
  /\ step = "truncated"
  /\ files' = [files EXCEPT ![turn] = clock] /\ torn' = torn \ {turn}
  /\ kept' = TRUE
  /\ Advance("written")
  /\ UNCHANGED <<wal, headless, held, bounds, peril>>

\* "Failed to save loop checkpoint": logged, and the save goes on.
JsonFails ==
  /\ step \in {"begun", "truncated"}
  /\ Fail
  /\ Advance("written")
  /\ UNCHANGED <<disk, held, kept>>

\* Compaction: keep the latest record in memory, delete the log ...
RemoveLog ==
  /\ step = "written" /\ ~headless
  /\ wal # NoSnapshot
  /\ held' = wal /\ wal' = NoSnapshot
  /\ Advance("emptied")
  /\ UNCHANGED <<files, torn, headless, kept, bounds, peril>>

\* ... and append it to a new one; if that fails the log is empty.
ReappendLatest ==
  /\ step = "emptied"
  /\ \/ wal' = held /\ UNCHANGED <<bounds, peril>>
     \/ Fail /\ UNCHANGED wal
  /\ Advance("compacted")
  /\ UNCHANGED <<files, torn, headless, held, kept>>

\* Mutant of AppendRecord: a compacted log gets no new record.
AppendUnlessCompacted ==
  /\ step = "compacted" \/ (step = "written" /\ wal = NoSnapshot)
  /\ ~headless
  /\ wal' = IF step = "compacted" THEN wal ELSE [turn |-> turn, stamp |-> clock]
  /\ kept' = TRUE
  /\ Advance("logged")
  /\ UNCHANGED <<files, torn, headless, held, bounds, peril>>

AppendRecord ==
  /\ step = "compacted" \/ (step = "written" /\ wal = NoSnapshot)
  /\ ~headless
  /\ wal' = [turn |-> turn, stamp |-> clock]
  /\ kept' = TRUE
  /\ Advance("logged")
  /\ UNCHANGED <<files, torn, headless, held, bounds, peril>>

\* The log cannot be opened, reopened or grown: logged, never fatal.
LogFails ==
  /\ step \in {"written", "emptied", "compacted"}
  /\ IF headless THEN step = "written" /\ UNCHANGED <<bounds, peril>> ELSE Fail
  /\ Advance("logged")
  /\ UNCHANGED <<disk, held, kept>>

Remove(S) ==
  /\ files' = [t \in Turns |-> IF t \in S THEN 0 ELSE files[t]]
  /\ torn' = torn \ S

\* Count budget: delete from the front of the sorted names.
DropOldest ==
  /\ step = "logged" /\ kind = "periodic"
  /\ Cardinality(Present) > Keep
  /\ Remove({First(Present)})
  /\ UNCHANGED <<wal, headless, save, turn, running, bounds, clock, saved, peril>>

\* Byte budget: any but the last name may be over it.
DropLarge ==
  /\ step = "logged" /\ kind = "periodic"
  /\ Cardinality(Present) <= Keep
  /\ \E S \in SUBSET Turns :
       /\ IF Present = {} THEN S = {} ELSE S \subseteq Present \ {Last(Present)}
       /\ Remove(S)
  /\ Return
  /\ UNCHANGED <<wal, headless, bounds, peril>>

\* save_checkpoint_persist keeps every file.
StopSaved ==
  /\ step = "logged" /\ kind = "stop"
  /\ Return
  /\ UNCHANGED <<disk, bounds, peril>>

Next ==
  \/ StartRun \/ Resume \/ SavePeriodic \/ SaveOnStop \/ EndRun \/ Crash
  \/ NoDirectory \/ TruncateJson \/ WriteJson \/ JsonFails
  \/ RemoveLog \/ ReappendLatest \/ AppendRecord \/ LogFails
  \/ DropOldest \/ DropLarge \/ StopSaved

Spec == Init /\ [][Next]_vars

-----------------------------------------------------------------------------
(* Properties.                                                             *)

(***************************************************************************)
(* The types of the variables: in particular the loop is at a turn, and    *)
(* the stamps on disk are those of saves that were begun.                  *)
(***************************************************************************)
TypeOK ==
  /\ files \in [Turns -> 0..MaxSaves]
  /\ torn \subseteq Turns
  /\ {wal, held} \subseteq Snapshot \cup {NoSnapshot}
  /\ {headless, kept, running} \subseteq BOOLEAN
  /\ step \in {"idle", "begun", "truncated", "written", "emptied", "compacted", "logged"}
  /\ kind \in {"periodic", "stop"}
  /\ turn \in Turns
  /\ bounds \in [runs : 0..MaxRuns, crashes : 0..MaxCrashes, failures : 0..MaxFailures]
  /\ clock \in 0..MaxSaves
  /\ saved \in 0..clock
  /\ peril \in 0..2

(***************************************************************************)
(* Should the process die now, resume finds a snapshot at least as recent  *)
(* as the last save that reached the disk: load_best_loop_checkpoint never *)
(* rewinds the task, whatever was stopped, crashed or failed before, past  *)
(* the width of the file names too, unless one save ran two of three risks *)
(* at once: its turn is already on disk (a stop rewrites it) or its name   *)
(* is not the last of all (the turn outgrew the width); the last snapshot  *)
(* is in one place only or the log is unusable, after a crash or a failure *)
(* of an earlier save; one of its own writes fails, each counting as one.  *)
(* With two of them the last snapshot can be lost.                         *)
(***************************************************************************)
NeverRewound == load_best.stamp >= saved
Recoverable == peril < 2 => NeverRewound

(***************************************************************************)
(* While the disk works, a saved conversation can be resumed:              *)
(* resume_session does not answer "No checkpoint found for this session;   *)
(* the agent must have been run at least once" when there is one.  (A torn *)
(* newest file hides an older one from load_latest_loop_checkpoint.)       *)
(***************************************************************************)
ResumeOffered ==
  bounds.crashes + bounds.failures = 0 /\ load_best # NoSnapshot =>
    load_latest # NoSnapshot

(***************************************************************************)
(* "Count budget first (newest kept)", cleanup_session_checkpoints: a      *)
(* periodic save that wrote its file has not deleted it by the time it     *)
(* returns, as long as the turn fits the width of the file name.           *)
(***************************************************************************)
NewestKept ==
  [][(DropOldest \/ DropLarge) /\ turn < ShortNames =>
       (files[turn] # 0 => files'[turn] # 0)]_vars
=============================================================================
