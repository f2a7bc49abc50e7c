---------------------------- MODULE SessionStore ----------------------------
(***************************************************************************)
(* The store of conversations (crates/oz-server/src/webui/sessions.rs): a  *)
(* map in memory under one lock, of which every save hands a snapshot to a *)
(* writer thread; one file, which the web interface, the terminal and the  *)
(* desktop application may share.  The store modelled is the desktop's     *)
(* (src-tauri/src/commands.rs, lib.rs), the only one that reads the file   *)
(* again.                                                                  *)
(*                                                                         *)
(* Of an entry the model keeps what the persist cache compares (revision,  *)
(* status, and a label for the fields that are set without a revision) and *)
(* its body: messages, todos and the rest, a new number for each change.   *)
(* The other process saves its whole map in one step.  with_max(500)       *)
(* never evicts here.                                                      *)
(***************************************************************************)
EXTENDS Integers, Sequences

CONSTANTS
  Ids,        \* conversations
  MaxBodies,  \* bound: changes made to conversations
  MaxQueue,   \* bound: snapshots the writer has not taken
  MaxForeign, \* bound: saves of the other process
  MaxRestarts \* bound: ends of the process

ASSUME SessionStoreAssumption == {MaxBodies, MaxQueue, MaxForeign, MaxRestarts} \subseteq Nat

VARIABLES
  mem,       \* sessions
  live,      \* running_agents: conversations with an agent in this process
  cache,     \* persist_cache: what was last handed to the writer
  queue,     \* snapshots in the channel
  held,      \* the snapshot being written
  stage,     \* the writer: "idle", "open", "full" or "renamed"
  taken,     \* the other process has renamed the temporary file meanwhile
  pending,   \* snapshots submitted and not yet written
  stale,     \* the file is newer than last_write, or last_write is None
  disk,      \* the file: whole or torn, and what was written last
  todo,      \* conversations list_sessions has yet to recover
  closing,   \* the process is shutting down
  other,     \* the other process's map
  bodies, foreigns, restarts, \* counters for the bounds
  saved,     \* history: the map at the last save or load
  foreign,   \* history: the file is the other process's
  disturbed, \* history: the last write failed or was interfered with
  overlap    \* history: both processes wrote the temporary file at once

store == <<mem, live, cache, saved>>
writer == <<queue, held, stage, pending>>
file == <<disk, taken>>
lock == <<todo, closing>>
outside == <<other, foreigns, overlap>>
vars == <<store, writer, file, stale, lock, outside, bodies, restarts, foreign, disturbed>>

Statuses == {"idle", "running", "waiting", "stopped"}
Entries == [rev : Nat, label : 0..1, status : Statuses, body : Nat]
Absent == [rev |-> 0, label |-> 0, status |-> "absent", body |-> 0]
Maps == [Ids -> Entries \cup {Absent}]
NoOne == [i \in Ids |-> Absent]
Known(i) == mem[i] # Absent

\* One conversation is in the file, which nobody has looked at yet.
Init ==
  /\ \E i \in Ids : mem = [NoOne EXCEPT ![i] = [@ EXCEPT !.status = "idle"]]
  /\ live = {} /\ cache = NoOne /\ queue = <<>> /\ held = NoOne /\ stage = "idle"
  /\ taken = FALSE /\ pending = 0 /\ stale = TRUE
  /\ disk = [whole |-> TRUE, content |-> mem]
  /\ todo = {} /\ closing = FALSE /\ other = mem
  /\ bodies = 0 /\ foreigns = 0 /\ restarts = 0
  /\ saved = mem /\ foreign = FALSE /\ disturbed = FALSE /\ overlap = FALSE

-----------------------------------------------------------------------------
(* Saving                                                                  *)

\* Mutant: the counts without the revision ("same count, different content").
FingerprintWithoutRevision(e) == [label |-> e.label, status |-> e.status]

\* entry_fingerprint
Fingerprint(e) == [rev |-> e.rev, label |-> e.label, status |-> e.status]

\* save_to_disk: entries whose fingerprint is the cached one are not serialised
\* again.  The snapshot is counted and sent.
Snapshot(m) ==
  [i \in Ids |-> IF Fingerprint(cache[i]) = Fingerprint(m[i]) THEN cache[i] ELSE m[i]]

Save(m) ==
  /\ Len(queue) < MaxQueue
  /\ mem' = m /\ saved' = m /\ cache' = Snapshot(m)
  /\ queue' = Append(queue, cache') /\ pending' = pending + 1

Free == todo = {} /\ ~closing

Operation ==
  /\ Free
  /\ UNCHANGED <<held, stage, file, stale, lock, outside, restarts, foreign, disturbed>>

Changes(n) == bodies + n <= MaxBodies /\ bodies' = bodies + n

-----------------------------------------------------------------------------
(* The operations                                                          *)

Fresh == [rev |-> 0, label |-> 0, status |-> "idle", body |-> bodies']

\* create_with_project, create_session
Create(i) ==
  /\ Operation /\ ~Known(i) /\ Changes(1)
  /\ Save([mem EXCEPT ![i] = Fresh])
  /\ UNCHANGED live

\* A child's row, which nobody saves before its run does something else.
Adopt(i) ==
  /\ Operation /\ ~Known(i) /\ Changes(1)
  /\ mem' = [mem EXCEPT ![i] = [Fresh EXCEPT !.rev = 1]]
  /\ UNCHANGED <<live, cache, saved, queue, pending>>

\* Whatever goes through get_mut and saves under the same lock.
Changed(e, s) == [rev |-> e.rev + 1, label |-> e.label, status |-> s, body |-> bodies']

\* A message, a compaction, a renamed model, in place.
Update(i) ==
  /\ Operation /\ Known(i) /\ Changes(1)
  /\ Save([mem EXCEPT ![i] = Changed(@, @.status)])
  /\ UNCHANGED live

\* A run begins, in a new conversation perhaps, parks on a question, goes on, ends.
Begin(i) ==
  /\ Operation /\ i \notin live /\ Changes(1)
  /\ live' = live \cup {i}
  /\ Save([mem EXCEPT ![i] = Changed(IF Known(i) THEN @ ELSE Fresh, "running")])

Park(i) ==
  /\ Operation /\ i \in live /\ Known(i) /\ Changes(1)
  /\ Save([mem EXCEPT ![i] =
             Changed(@, IF @.status = "waiting" THEN "running" ELSE "waiting")])
  /\ UNCHANGED live

\* It stays waiting with a question still open, which the model does not keep.
Finish(i) ==
  /\ Operation /\ i \in live
  /\ live' = live \ {i}
  /\ IF Known(i)
     THEN /\ Changes(1)
          /\ \E s \in {"idle", "waiting"} : Save([mem EXCEPT ![i] = Changed(@, s)])
     ELSE Save(mem) /\ UNCHANGED bodies

\* Mutant: renaming makes an entry where there is none.
RenameAnyway(i) ==
  /\ Operation
  /\ Save([mem EXCEPT ![i].label = 1 - @])
  /\ UNCHANGED <<live, bodies>>

\* rename, set_project_id, move_to_project: no revision, but a field that is compared.
Rename(i) ==
  /\ Operation /\ Known(i)
  /\ Save([mem EXCEPT ![i].label = 1 - @])
  /\ UNCHANGED <<live, bodies>>

Delete(i) ==
  /\ Operation /\ Known(i)
  /\ Save([mem EXCEPT ![i] = Absent])
  /\ UNCHANGED <<live, bodies>>

\* prune_expired: rows running without an agent for half an hour are stopped, and
\* what is not in use and older than the threshold goes to the archive.
Prune(ghosts, old) ==
  LET stopped == [i \in Ids |-> IF i \in ghosts THEN [mem[i] EXCEPT !.status = "stopped"]
                                ELSE mem[i]]
  IN /\ Operation
     /\ ghosts \subseteq {i \in Ids \ live : mem[i].status = "running"}
     /\ old \subseteq {i \in Ids : stopped[i].status \in {"idle", "stopped"}}
     /\ ghosts \cup old # {}
     /\ Save([i \in Ids |-> IF i \in old THEN Absent ELSE stopped[i]])
     /\ UNCHANGED <<live, bodies>>

-----------------------------------------------------------------------------
(* The writer thread                                                       *)

WriterStep == UNCHANGED <<store, lock, outside, bodies, restarts>>

\* recv, then try_recv to the end: the newest wins; write_atomic begins.
Take ==
  /\ stage = "idle" /\ queue # <<>>
  /\ held' = queue[Len(queue)] /\ queue' = <<>> /\ pending' = pending - (Len(queue) - 1)
  /\ stage' = "open" /\ taken' = FALSE /\ disturbed' = FALSE
  /\ WriterStep /\ UNCHANGED <<disk, stale, foreign>>

\* Mutant: the file is written in place.
FillInPlace ==
  /\ stage = "open" /\ stage' = "full"
  /\ disk' = [disk EXCEPT !.whole = FALSE] /\ stale' = TRUE
  /\ WriterStep /\ UNCHANGED <<queue, held, pending, taken, foreign, disturbed>>

\* Writing a temporary file that was renamed meanwhile is writing the file itself.
WriteTmp ==
  IF taken THEN disk' = [disk EXCEPT !.whole = FALSE] /\ stale' = TRUE
  ELSE UNCHANGED <<disk, stale>>

\* write_atomic: the temporary file is written
Fill ==
  /\ stage = "open" /\ stage' = "full"
  /\ WriteTmp
  /\ WriterStep /\ UNCHANGED <<queue, held, pending, taken, foreign, disturbed>>

\* or, the disk being full, is not: no rename, no word of it.
FillFails ==
  /\ stage = "open" /\ stage' = "renamed"
  /\ WriteTmp /\ disturbed' = TRUE
  /\ WriterStep /\ UNCHANGED <<queue, held, pending, taken, foreign>>

RenameTmp ==
  /\ stage = "full" /\ stage' = "renamed"
  /\ IF taken THEN UNCHANGED <<disk, stale, foreign>>
     ELSE /\ disk' = [whole |-> TRUE, content |-> held]
          /\ stale' = TRUE /\ foreign' = FALSE
  /\ WriterStep /\ UNCHANGED <<queue, held, pending, taken, disturbed>>

\* The time of the file is remembered, whoever wrote it.
Written ==
  /\ stage = "renamed" /\ stage' = "idle"
  /\ stale' = FALSE /\ pending' = pending - 1
  /\ UNCHANGED <<store, queue, held, file, lock, outside, bodies, restarts, foreign,
                 disturbed>>

-----------------------------------------------------------------------------
(* Reading again                                                           *)

\* reload: a file that does not parse leaves the map, but is not looked at again.
Reload ==
  /\ stale' = FALSE
  /\ IF disk.whole
     THEN /\ mem' = disk.content /\ saved' = mem' /\ cache' = NoOne
          /\ foreign' = FALSE /\ disturbed' = FALSE
     ELSE UNCHANGED <<mem, saved, cache, foreign, disturbed>>

\* Mutant: a write in flight does not keep the file from being read.
ReloadAnyTime ==
  IF stale THEN Reload ELSE UNCHANGED <<stale, mem, saved, cache, foreign, disturbed>>

ReloadIfStale ==
  IF pending = 0 /\ stale THEN Reload
  ELSE UNCHANGED <<stale, mem, saved, cache, foreign, disturbed>>

\* list_sessions; get_token_stats and get_quality_report are it without recovery.
ListSessions ==
  /\ Free /\ ReloadIfStale
  /\ todo' \in {{}, {i \in Ids : mem'[i].status = "running" /\ i \notin live}}
  /\ UNCHANGED <<live, writer, file, closing, outside, bodies, restarts>>

\* recover_session_from_checkpoints, with the lock held since the listing.
Recover(i) ==
  /\ i \in todo /\ todo' = todo \ {i} /\ Changes(1)
  /\ Save([mem EXCEPT ![i] = Changed(@, "idle")])
  /\ UNCHANGED <<live, held, stage, file, stale, closing, outside, restarts, foreign,
                 disturbed>>

-----------------------------------------------------------------------------
(* The end of the process, and the next one                                *)

\* Graceful shutdown: the lock is held until the writer has drained or 3 s are over.
Quit ==
  /\ Free /\ closing' = TRUE
  /\ Save(mem)
  /\ UNCHANGED <<live, held, stage, file, stale, todo, outside, bodies, restarts, foreign,
                 disturbed>>

\* The process dies, at the end of Quit or anywhere else; persisted() loads what
\* there is, and what was running has stopped.
Restart ==
  /\ restarts < MaxRestarts /\ restarts' = restarts + 1
  /\ LET loaded == IF disk.whole THEN disk.content ELSE NoOne
         stopped == [i \in Ids |-> IF loaded[i].status = "running"
                                   THEN [loaded[i] EXCEPT !.status = "stopped"]
                                   ELSE loaded[i]]
     IN /\ mem' = stopped /\ saved' = stopped
        /\ IF stopped = loaded THEN queue' = <<>> /\ cache' = NoOne
           ELSE queue' = <<stopped>> /\ cache' = stopped
        /\ pending' = Len(queue')
  /\ live' = {} /\ held' = NoOne /\ stage' = "idle" /\ taken' = FALSE
  /\ stale' = TRUE /\ todo' = {} /\ closing' = FALSE
  /\ UNCHANGED <<disk, outside, bodies, foreign, disturbed>>

-----------------------------------------------------------------------------
(* The other process                                                       *)

\* It writes the map it has had since it began, with a change of its own, to the
\* same temporary file and renames it.
ForeignSave(i, s) ==
  /\ foreigns < MaxForeign /\ foreigns' = foreigns + 1 /\ Changes(1)
  /\ other' = [other EXCEPT ![i] = IF @ = Absent THEN [Fresh EXCEPT !.status = s]
                                   ELSE Changed(@, s)]
  /\ disk' = [whole |-> TRUE, content |-> other'] /\ stale' = TRUE
  /\ taken' = (taken \/ stage \in {"open", "full"})
  /\ foreign' = TRUE
  /\ disturbed' = (disturbed \/ stage # "idle")
  /\ overlap' = (overlap \/ stage = "open")
  /\ UNCHANGED <<store, writer, lock, restarts>>

Operations ==
  \E i \in Ids :
    \/ Create(i) \/ Adopt(i) \/ Update(i) \/ Begin(i) \/ Park(i) \/ Finish(i)
    \/ Rename(i) \/ Delete(i)

Writer == Take \/ Fill \/ FillFails \/ RenameTmp \/ Written

Next ==
  \/ Operations \/ Writer \/ ListSessions \/ Quit \/ Restart
  \/ \E ghosts, old \in SUBSET Ids : Prune(ghosts, old)
  \/ \E i \in Ids : Recover(i)
  \/ \E i \in Ids, s \in {"idle", "running"} : ForeignSave(i, s)

Spec == Init /\ [][Next]_vars

-----------------------------------------------------------------------------
(* Properties                                                              *)

\* Every variable has its type.
TypeOK ==
  /\ {mem, saved, cache, held, other} \subseteq Maps
  /\ disk \in [whole : BOOLEAN, content : Maps]
  /\ queue \in Seq(Maps) /\ stage \in {"idle", "open", "full", "renamed"}
  /\ live \subseteq Ids /\ todo \subseteq Ids
  /\ {taken, closing, foreign, disturbed, overlap, stale} \subseteq BOOLEAN
  /\ {pending, bodies, foreigns, restarts} \subseteq Nat

(***************************************************************************)
(* "a rewrite which changes a message's content without changing the       *)
(* message count is still written to disk" (SessionEntry::revision), and   *)
(* "The cache holds serializations of the previous in-memory state"        *)
(* (reload): once the writer has drained, the file holds the map as it was *)
(* last saved, byte for byte, unless the other process wrote since.        *)
(***************************************************************************)
SavedIsWritten ==
  pending = 0 /\ ~stale /\ disk.whole /\ ~disturbed => disk.content = saved

(***************************************************************************)
(* "the on-disk file is older than memory in that window and reloading     *)
(* would clobber newer state" (PersistWriter::pending): reading the file   *)
(* again takes nothing back that was saved, while no other process wrote.  *)
(***************************************************************************)
ReloadKeepsSaved ==
  [][ListSessions /\ ~foreign /\ ~disturbed =>
       \A i \in Ids : mem[i] = saved[i] => mem'[i] = mem[i]]_vars

(***************************************************************************)
(* "Atomic tmp-file + rename write": wherever the process dies, the file   *)
(* it leaves is a whole snapshot.  Two processes that write the same       *)
(* temporary file at once can break that.                                  *)
(***************************************************************************)
DiskWhole == disk.whole \/ overlap
=============================================================================
