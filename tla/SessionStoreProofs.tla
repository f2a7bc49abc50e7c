------------------------- MODULE SessionStoreProofs -------------------------
(***************************************************************************)
(* Proofs about SessionStore, for any conversations and bounds.            *)
(***************************************************************************)
EXTENDS SessionStore, TLAPS

-----------------------------------------------------------------------------
(* Types                                                                   *)

Slot == Entries \cup {Absent}

\* TypeOK, one variable at a time.
Typed ==
  /\ mem \in [Ids -> Slot] /\ saved \in [Ids -> Slot] /\ cache \in [Ids -> Slot]
  /\ held \in [Ids -> Slot] /\ other \in [Ids -> Slot]
  /\ disk \in [whole : BOOLEAN, content : [Ids -> Slot]]
  /\ queue \in Seq([Ids -> Slot])
  /\ stage \in {"idle", "open", "full", "renamed"}
  /\ live \subseteq Ids /\ todo \subseteq Ids
  /\ taken \in BOOLEAN /\ closing \in BOOLEAN /\ foreign \in BOOLEAN
  /\ disturbed \in BOOLEAN /\ overlap \in BOOLEAN /\ stale \in BOOLEAN
  /\ pending \in Nat /\ bodies \in Nat /\ foreigns \in Nat /\ restarts \in Nat

LEMMA TypedIsTypeOK == Typed <=> TypeOK
  BY DEF Typed, TypeOK, Maps, Slot

\* What a map holds for a conversation.
LEMMA SlotFields ==
  ASSUME NEW e \in Slot
  PROVE  /\ e.rev \in Nat /\ e.label \in 0..1 /\ e.body \in Nat
         /\ e.status \in Statuses \cup {"absent"}
         /\ e.status = "absent" <=> e = Absent
  BY DEF Slot, Entries, Absent, Statuses

LEMMA ChangedSlot ==
  ASSUME NEW e \in Slot, NEW s \in Statuses, bodies' \in Nat
  PROVE  /\ Changed(e, s) \in Slot
         /\ Fingerprint(Changed(e, s)) # Fingerprint(e)
<1>1. Changed(e, s) = [rev |-> e.rev + 1, label |-> e.label, status |-> s, body |-> bodies']
  BY DEF Changed
<1>2. e.rev \in Nat /\ e.label \in 0..1
  BY SlotFields
<1>3. Changed(e, s) \in Slot
  BY <1>1, <1>2 DEF Slot, Entries
<1>4. Changed(e, s).rev # e.rev
  BY <1>1, <1>2
<1> QED BY <1>3, <1>4 DEF Fingerprint

LEMMA FreshSlot ==
  ASSUME bodies' \in Nat
  PROVE  /\ Fresh \in Slot
         /\ \A s \in Statuses : [Fresh EXCEPT !.status = s] \in Slot
         /\ [Fresh EXCEPT !.rev = 1] \in Slot
  BY DEF Fresh, Slot, Entries, Statuses

LEMMA RestatedSlot ==
  ASSUME NEW e \in Slot, e # Absent, NEW s \in Statuses
  PROVE  /\ [e EXCEPT !.status = s] \in Slot
         /\ [e EXCEPT !.status = s].status = s
  BY DEF Slot, Entries

LEMMA NoOneTyped == NoOne \in [Ids -> Slot]
  BY DEF NoOne, Slot

-----------------------------------------------------------------------------
(* What a save hands to the writer                                         *)

\* Every change of an entry but its removal shows in the fingerprint.
Edited(m) ==
  /\ m \in [Ids -> Slot]
  /\ \A i \in Ids : \/ m[i] = mem[i] \/ m[i] = Absent
                    \/ Fingerprint(m[i]) # Fingerprint(mem[i])

\* The cache holds what is in memory, or nothing.
Cached == \A i \in Ids : cache[i] = mem[i] \/ cache[i] = Absent

LEMMA SnapshotIsMap ==
  ASSUME Typed, Cached, NEW m, Edited(m)
  PROVE  Snapshot(m) = m
<1>1. ASSUME NEW i \in Ids, Fingerprint(cache[i]) = Fingerprint(m[i])
      PROVE  cache[i] = m[i]
  <2>1. cache[i] \in Slot /\ m[i] \in Slot /\ mem[i] \in Slot
    BY DEF Typed, Edited
  <2>2. cache[i].status = m[i].status
    BY <1>1 DEF Fingerprint
  <2>3. cache[i] = Absent <=> m[i] = Absent
    BY <2>1, <2>2, SlotFields
  <2> QED BY <1>1, <2>3 DEF Cached, Edited
<1>2. m \in [Ids -> Slot]
  BY DEF Edited
<1> QED BY <1>1, <1>2 DEF Snapshot

LEMMA OneEdited ==
  ASSUME Typed, NEW i \in Ids, NEW e \in Slot,
         e = mem[i] \/ e = Absent \/ Fingerprint(e) # Fingerprint(mem[i])
  PROVE  Edited([mem EXCEPT ![i] = e])
  BY DEF Typed, Edited

\* The steps that change the map and save it.
Saving ==
  /\ \E m \in [Ids -> Slot] : Edited(m) /\ Save(m)
  /\ live' \subseteq Ids /\ todo' \subseteq Ids /\ closing' \in BOOLEAN /\ bodies' \in Nat
  /\ UNCHANGED <<held, stage, file, stale, outside, restarts, foreign, disturbed>>

LEMMA EditSaves ==
  ASSUME Typed, NEW m, Edited(m), Save(m),
         live' \subseteq Ids, todo' \subseteq Ids, closing' \in BOOLEAN, bodies' \in Nat,
         UNCHANGED <<held, stage, file, stale, outside, restarts, foreign, disturbed>>
  PROVE  Saving
  BY DEF Saving, Edited

LEMMA SameEdited ==
  ASSUME Typed
  PROVE  Edited(mem)
  BY DEF Edited, Typed

-----------------------------------------------------------------------------
(* Every operation but one is a save                                       *)

\* A child's row changes the map without one.
Adoption ==
  /\ \E i \in Ids, e \in Slot : ~Known(i) /\ mem' = [mem EXCEPT ![i] = e]
  /\ bodies' \in Nat
  /\ UNCHANGED <<live, cache, saved, writer, file, stale, lock, outside, restarts,
                 foreign, disturbed>>

LEMMA ChangesTyped ==
  ASSUME Typed, NEW n \in 0..1, Changes(n)
  PROVE  bodies' \in Nat
  BY DEF Typed, Changes

\* An entry replaced and saved, with nobody's agent but this one's coming or going.
LEMMA OneSaved ==
  ASSUME Typed, Operation, NEW i \in Ids, NEW e \in Slot,
         e = mem[i] \/ e = Absent \/ Fingerprint(e) # Fingerprint(mem[i]),
         Save([mem EXCEPT ![i] = e]), live' \subseteq Ids, bodies' \in Nat
  PROVE  Saving
<1>1. Edited([mem EXCEPT ![i] = e])
  BY OneEdited
<1>2. UNCHANGED <<held, stage, file, stale, outside, restarts, foreign, disturbed>>
  BY DEF Operation
<1>3. todo' \subseteq Ids /\ closing' \in BOOLEAN
  BY DEF Operation, lock, Typed
<1> QED BY <1>1, <1>2, <1>3, EditSaves

LEMMA ChangedSaved ==
  ASSUME Typed, Operation, NEW i \in Ids, Changes(1), NEW s \in Statuses,
         Save([mem EXCEPT ![i] = Changed(mem[i], s)]), live' \subseteq Ids
  PROVE  Saving
<1>1. bodies' \in Nat
  BY ChangesTyped
<1>2. mem[i] \in Slot
  BY DEF Typed
<1>3. /\ Changed(mem[i], s) \in Slot
      /\ Fingerprint(Changed(mem[i], s)) # Fingerprint(mem[i])
  BY <1>1, <1>2, ChangedSlot
<1> QED BY <1>1, <1>3, OneSaved

LEMMA KnownStatus ==
  ASSUME Typed, NEW i \in Ids, Known(i)
  PROVE  mem[i].status \in Statuses
<1>1. mem[i] \in Slot
  BY DEF Typed
<1> QED BY <1>1, SlotFields DEF Known

LEMMA SaveUnchanged ==
  ASSUME Typed, Operation, Save(mem), live' \subseteq Ids, bodies' \in Nat
  PROVE  Saving
<1>1. UNCHANGED <<held, stage, file, stale, outside, restarts, foreign, disturbed>>
  BY DEF Operation
<1>2. todo' \subseteq Ids /\ closing' \in BOOLEAN
  BY DEF Operation, lock, Typed
<1> QED BY <1>1, <1>2, SameEdited, EditSaves

LEMMA OperationsSave ==
  ASSUME Typed, Operations
  PROVE  Saving \/ Adoption
<1>0. PICK i \in Ids :
        \/ Create(i) \/ Adopt(i) \/ Update(i) \/ Begin(i) \/ Park(i) \/ Finish(i)
        \/ Rename(i) \/ Delete(i)
  BY DEF Operations
<1>a. mem[i] \in Slot /\ live \subseteq Ids /\ bodies \in Nat
  BY DEF Typed
<1>1. CASE Create(i)
  <2>1. bodies' \in Nat /\ Operation /\ live' = live
    BY <1>1, ChangesTyped DEF Create
  <2>2. Fresh \in Slot /\ Fresh.status = "idle"
    BY <2>1, FreshSlot DEF Fresh
  <2>3. Fingerprint(Fresh) # Fingerprint(mem[i])
    BY <1>1, <2>2 DEF Create, Known, Absent, Fingerprint
  <2>4. Save([mem EXCEPT ![i] = Fresh])
    BY <1>1 DEF Create
  <2> QED BY <1>a, <2>1, <2>2, <2>3, <2>4, OneSaved
<1>2. CASE Adopt(i)
  <2>1. bodies' \in Nat
    BY <1>2, ChangesTyped DEF Adopt
  <2>2. [Fresh EXCEPT !.rev = 1] \in Slot
    BY <2>1, FreshSlot
  <2>3. UNCHANGED <<live, cache, saved, queue, pending, held, stage, file, stale, lock,
                    outside, restarts, foreign, disturbed>>
    BY <1>2 DEF Adopt, Operation
  <2>4. ~Known(i) /\ mem' = [mem EXCEPT ![i] = [Fresh EXCEPT !.rev = 1]]
    BY <1>2 DEF Adopt
  <2> QED BY <2>1, <2>2, <2>3, <2>4 DEF Adoption, writer
<1>3. CASE Update(i)
  <2>1. mem[i].status \in Statuses
    BY <1>3, KnownStatus DEF Update
  <2>2. /\ Save([mem EXCEPT ![i] = Changed(mem[i], mem[i].status)])
        /\ Operation /\ Changes(1) /\ live' = live
    BY <1>3 DEF Update
  <2> QED BY <1>a, <2>1, <2>2, ChangedSaved
<1>4. CASE Begin(i)
  <2>1. Operation /\ Changes(1) /\ bodies' \in Nat /\ live' \subseteq Ids
    BY <1>4, <1>a, ChangesTyped DEF Begin
  <2> DEFINE e == IF Known(i) THEN mem[i] ELSE Fresh
  <2>2. Save([mem EXCEPT ![i] = Changed(e, "running")])
    BY <1>4 DEF Begin
  <2>3. e \in Slot
    BY <1>a, <2>1, FreshSlot
  <2>4. "running" \in Statuses
    BY DEF Statuses
  <2>5. /\ Changed(e, "running") \in Slot
        /\ Fingerprint(Changed(e, "running")) # Fingerprint(e)
    BY <2>1, <2>3, <2>4, ChangedSlot
  <2>6. Fingerprint(Changed(e, "running")) # Fingerprint(mem[i])
    <3>1. CASE Known(i)
      BY <3>1, <2>5
    <3>2. CASE ~Known(i)
      BY <3>2 DEF Known, Absent, Changed, Fingerprint
    <3> QED BY <3>1, <3>2
  <2> HIDE DEF e
  <2> QED BY <2>1, <2>2, <2>5, <2>6, OneSaved
<1>5. CASE Park(i)
  <2> DEFINE s == IF mem[i].status = "waiting" THEN "running" ELSE "waiting"
  <2>1. Operation /\ Changes(1) /\ live' = live
    BY <1>5 DEF Park
  <2>2. Save([mem EXCEPT ![i] = Changed(mem[i], s)])
    BY <1>5 DEF Park
  <2>3. s \in Statuses
    BY DEF Statuses
  <2> HIDE DEF s
  <2> QED BY <1>a, <2>1, <2>2, <2>3, ChangedSaved
<1>6. CASE Finish(i)
  <2>1. Operation /\ live' \subseteq Ids
    BY <1>6, <1>a DEF Finish
  <2>2. CASE Known(i)
    <3>1. PICK s \in {"idle", "waiting"} : Save([mem EXCEPT ![i] = Changed(mem[i], s)])
      BY <1>6, <2>2 DEF Finish
    <3>2. Changes(1)
      BY <1>6, <2>2 DEF Finish
    <3>3. s \in Statuses
      BY DEF Statuses
    <3> QED BY <2>1, <3>1, <3>2, <3>3, ChangedSaved
  <2>3. CASE ~Known(i)
    BY <1>6, <1>a, <2>1, <2>3, SaveUnchanged DEF Finish
  <2> QED BY <2>2, <2>3
<1>7. CASE Rename(i)
  <2> DEFINE e == [mem[i] EXCEPT !.label = 1 - @]
  <2>1. Operation /\ live' = live /\ bodies' = bodies /\ Known(i)
    BY <1>7 DEF Rename
  <2>2. Save([mem EXCEPT ![i] = e])
    BY <1>7 DEF Rename
  <2>3. e \in Slot
    BY <1>a, <2>1 DEF Slot, Entries, Known
  <2>4. Fingerprint(e) # Fingerprint(mem[i])
    BY <1>a, <2>1 DEF Slot, Entries, Known, Fingerprint
  <2> HIDE DEF e
  <2> QED BY <1>a, <2>1, <2>2, <2>3, <2>4, OneSaved
<1>8. CASE Delete(i)
  <2>1. Operation /\ live' = live /\ bodies' = bodies /\ Save([mem EXCEPT ![i] = Absent])
    BY <1>8 DEF Delete
  <2>2. Absent \in Slot
    BY DEF Slot
  <2> QED BY <1>a, <2>1, <2>2, OneSaved
<1> QED BY <1>0, <1>1, <1>2, <1>3, <1>4, <1>5, <1>6, <1>7, <1>8

LEMMA PruneSaves ==
  ASSUME Typed, NEW ghosts \in SUBSET Ids, NEW old \in SUBSET Ids, Prune(ghosts, old)
  PROVE  Saving
<1> DEFINE stopped == [i \in Ids |-> IF i \in ghosts THEN [mem[i] EXCEPT !.status = "stopped"]
                                     ELSE mem[i]]
           m == [i \in Ids |-> IF i \in old THEN Absent ELSE stopped[i]]
<1>1. /\ Operation /\ Save(m) /\ live' = live /\ bodies' = bodies
      /\ \A i \in ghosts : mem[i].status = "running"
  BY DEF Prune
<1>2. ASSUME NEW i \in Ids
      PROVE  /\ m[i] \in Slot
             /\ m[i] = mem[i] \/ m[i] = Absent \/ Fingerprint(m[i]) # Fingerprint(mem[i])
  <2>1. mem[i] \in Slot
    BY DEF Typed
  <2>2. CASE i \in old
    BY <2>2 DEF Slot
  <2>3. CASE i \notin old /\ i \in ghosts
    <3>1. mem[i].status = "running" /\ mem[i] # Absent /\ "stopped" \in Statuses
      BY <1>1, <2>1, <2>3, SlotFields DEF Statuses
    <3>2. m[i] = [mem[i] EXCEPT !.status = "stopped"]
      BY <2>3
    <3> HIDE DEF m
    <3>3. m[i] \in Slot /\ m[i].status = "stopped"
      BY <2>1, <3>1, <3>2, RestatedSlot
    <3> QED BY <3>1, <3>3 DEF Fingerprint
  <2>4. CASE i \notin old /\ i \notin ghosts
    BY <2>1, <2>4
  <2> QED BY <2>2, <2>3, <2>4
<1>3. m \in [Ids -> Slot]
  BY <1>2
<1>4. Edited(m)
  <2> HIDE DEF m
  <2> QED BY <1>2, <1>3 DEF Edited
<1>5. UNCHANGED <<held, stage, file, stale, outside, restarts, foreign, disturbed>>
  BY <1>1 DEF Operation
<1>6. todo' \subseteq Ids /\ closing' \in BOOLEAN /\ live' \subseteq Ids /\ bodies' \in Nat
  BY <1>1 DEF Operation, lock, Typed
<1> HIDE DEF m
<1> QED BY <1>1, <1>4, <1>5, <1>6, EditSaves

LEMMA RecoverSaves ==
  ASSUME Typed, NEW i \in Ids, Recover(i)
  PROVE  Saving
<1>1. /\ Changes(1) /\ bodies' \in Nat /\ todo' \subseteq Ids /\ closing' = closing
      /\ live' = live /\ Save([mem EXCEPT ![i] = Changed(mem[i], "idle")])
  BY ChangesTyped DEF Recover, Typed
<1>2. mem[i] \in Slot /\ "idle" \in Statuses
  BY DEF Typed, Statuses
<1>3. /\ Changed(mem[i], "idle") \in Slot
      /\ Fingerprint(Changed(mem[i], "idle")) # Fingerprint(mem[i])
  BY <1>1, <1>2, ChangedSlot
<1>4. Edited([mem EXCEPT ![i] = Changed(mem[i], "idle")])
  BY <1>3, OneEdited
<1>5. UNCHANGED <<held, stage, file, stale, outside, restarts, foreign, disturbed>>
  BY DEF Recover
<1>6. live' \subseteq Ids /\ closing' \in BOOLEAN
  BY <1>1 DEF Typed
<1> QED BY <1>1, <1>4, <1>5, <1>6, EditSaves

LEMMA QuitSaves ==
  ASSUME Typed, Quit
  PROVE  Saving
<1>1. Save(mem)
  BY DEF Quit
<1>2. UNCHANGED <<held, stage, file, stale, outside, restarts, foreign, disturbed>>
  BY DEF Quit
<1>3. live' \subseteq Ids /\ todo' \subseteq Ids /\ closing' \in BOOLEAN /\ bodies' \in Nat
  BY DEF Quit, Typed
<1> QED BY <1>1, <1>2, <1>3, SameEdited, EditSaves

\* The kinds of steps the proofs below go through.
LEMMA StepKinds ==
  ASSUME Typed, Next
  PROVE  \/ Saving \/ Adoption \/ Writer \/ ListSessions \/ Restart
         \/ \E i \in Ids, s \in {"idle", "running"} : ForeignSave(i, s)
  BY OperationsSave, PruneSaves, RecoverSaves, QuitSaves DEF Next

-----------------------------------------------------------------------------
(* Types are kept                                                          *)

LEMMA AppendTyped ==
  ASSUME NEW S, NEW q \in Seq(S), NEW x \in S
  PROVE  /\ Append(q, x) \in Seq(S)
         /\ Len(Append(q, x)) = Len(q) + 1
         /\ Append(q, x)[Len(q) + 1] = x
         /\ Append(q, x) # <<>>
  OBVIOUS

\* The writer owes what is in the channel and what it holds.
Owed == IF stage = "idle" THEN 0 ELSE 1
Counted == pending = Len(queue) + Owed

LEMMA LenTyped ==
  ASSUME Typed
  PROVE  Len(queue) \in Nat /\ (queue # <<>> => Len(queue) > 0) /\ (queue = <<>> => Len(queue) = 0)
  BY DEF Typed

LEMMA SavingTypes ==
  ASSUME Typed, Counted, Saving
  PROVE  Typed' /\ Counted'
<1>1. PICK m \in [Ids -> Slot] : Edited(m) /\ Save(m)
  BY DEF Saving
<1>2. /\ mem' = m /\ saved' = m /\ cache' = Snapshot(m) /\ queue' = Append(queue, cache')
      /\ pending' = pending + 1
  BY <1>1 DEF Save
<1>3. Snapshot(m) \in [Ids -> Slot]
  BY DEF Snapshot, Typed
<1>4. queue' \in Seq([Ids -> Slot]) /\ Len(queue') = Len(queue) + 1
  BY <1>2, <1>3, AppendTyped DEF Typed
<1>5. /\ live' \subseteq Ids /\ todo' \subseteq Ids /\ closing' \in BOOLEAN /\ bodies' \in Nat
      /\ held' = held /\ stage' = stage /\ disk' = disk /\ taken' = taken /\ stale' = stale
      /\ other' = other /\ foreigns' = foreigns /\ overlap' = overlap
      /\ restarts' = restarts /\ foreign' = foreign /\ disturbed' = disturbed
  BY DEF Saving, file, outside
<1>6. Typed'
  BY <1>2, <1>3, <1>4, <1>5 DEF Typed
<1>7. Counted'
  BY <1>2, <1>4, <1>5, LenTyped DEF Counted, Owed
<1> QED BY <1>6, <1>7

LEMMA AdoptionTypes ==
  ASSUME Typed, Counted, Adoption
  PROVE  Typed' /\ Counted'
<1>1. mem' \in [Ids -> Slot]
  BY DEF Typed, Adoption
<1>2. Typed'
  BY <1>1 DEF Typed, Adoption, writer, file, lock, outside
<1>3. Counted'
  BY DEF Adoption, writer, Counted, Owed
<1> QED BY <1>2, <1>3

LEMMA WriterTypes ==
  ASSUME Typed, Counted, Writer
  PROVE  Typed' /\ Counted'
<1>1. /\ mem' = mem /\ live' = live /\ cache' = cache /\ saved' = saved /\ todo' = todo
      /\ closing' = closing /\ other' = other /\ foreigns' = foreigns /\ overlap' = overlap
      /\ bodies' = bodies /\ restarts' = restarts
  BY DEF Writer, Take, Fill, FillFails, RenameTmp, Written, WriterStep, store, lock, outside
<1>2. CASE Take
  <2>1. queue # <<>> /\ Len(queue) \in 1..Len(queue) /\ Len(queue) \in Nat
    BY <1>2, LenTyped DEF Take
  <2>2. held' \in [Ids -> Slot]
    BY <1>2, <2>1 DEF Take, Typed
  <2>3. queue' = <<>> /\ pending' = 1 /\ stage' = "open"
    BY <1>2, <2>1 DEF Take, Counted, Owed
  <2>4. /\ taken' \in BOOLEAN /\ disturbed' \in BOOLEAN /\ disk' = disk /\ stale' = stale
        /\ foreign' = foreign
    BY <1>2 DEF Take
  <2>5. Typed'
    BY <1>1, <2>2, <2>3, <2>4 DEF Typed
  <2>6. Counted'
    BY <2>3 DEF Counted, Owed
  <2> QED BY <2>5, <2>6
<1>3. CASE Fill \/ FillFails \/ RenameTmp
  <2>1. /\ queue' = queue /\ held' = held /\ pending' = pending /\ taken' = taken
        /\ stage # "idle" /\ stage' \in {"full", "renamed"}
    BY <1>3 DEF Fill, FillFails, RenameTmp
  <2>2. /\ disturbed' \in BOOLEAN /\ foreign' \in BOOLEAN /\ stale' \in BOOLEAN
        /\ disk' \in [whole : BOOLEAN, content : [Ids -> Slot]]
    <3>1. CASE Fill \/ FillFails
      <4>1. disk' = [disk EXCEPT !.whole = FALSE] \/ disk' = disk
        BY <3>1 DEF Fill, FillFails, WriteTmp
      <4>2. stale' = TRUE \/ stale' = stale
        BY <3>1 DEF Fill, FillFails, WriteTmp
      <4>3. disturbed' \in BOOLEAN /\ foreign' = foreign
        BY <3>1 DEF Fill, FillFails, Typed
      <4> QED BY <4>1, <4>2, <4>3 DEF Typed
    <3>2. CASE RenameTmp
      <4>1. \/ disk' = disk /\ stale' = stale /\ foreign' = foreign
            \/ /\ disk' = [whole |-> TRUE, content |-> held]
               /\ stale' = TRUE /\ foreign' = FALSE
        BY <3>2 DEF RenameTmp
      <4>2. disturbed' = disturbed
        BY <3>2 DEF RenameTmp
      <4>3. [whole |-> TRUE, content |-> held] \in [whole : BOOLEAN, content : [Ids -> Slot]]
        BY DEF Typed
      <4>4. disk' \in [whole : BOOLEAN, content : [Ids -> Slot]]
        BY <4>1, <4>3 DEF Typed
      <4> QED BY <4>1, <4>2, <4>4 DEF Typed
    <3> QED BY <1>3, <3>1, <3>2
  <2>3. Typed'
    BY <1>1, <2>1, <2>2 DEF Typed
  <2>4. Counted'
    BY <2>1 DEF Counted, Owed
  <2> QED BY <2>3, <2>4
<1>4. CASE Written
  <2>1. /\ queue' = queue /\ held' = held /\ disk' = disk /\ taken' = taken
        /\ stage = "renamed" /\ stage' = "idle" /\ stale' = FALSE /\ pending' = pending - 1
        /\ foreign' = foreign /\ disturbed' = disturbed
    BY <1>4 DEF Written, file
  <2>2. pending' = Len(queue) /\ Len(queue) \in Nat
    BY <2>1, LenTyped DEF Counted, Owed
  <2>3. Typed'
    BY <1>1, <2>1, <2>2 DEF Typed
  <2>4. Counted'
    BY <2>1, <2>2 DEF Counted, Owed
  <2> QED BY <2>3, <2>4
<1> QED BY <1>2, <1>3, <1>4 DEF Writer

LEMMA ListingTypes ==
  ASSUME Typed, Counted, ListSessions
  PROVE  Typed' /\ Counted'
<1>1. /\ live' = live /\ queue' = queue /\ held' = held /\ stage' = stage
      /\ pending' = pending /\ disk' = disk /\ taken' = taken /\ closing' = closing
      /\ other' = other /\ foreigns' = foreigns /\ overlap' = overlap
      /\ bodies' = bodies /\ restarts' = restarts /\ todo' \subseteq Ids
  BY DEF ListSessions, writer, file, outside
<1>2. /\ mem' \in [Ids -> Slot] /\ saved' \in [Ids -> Slot] /\ cache' \in [Ids -> Slot]
      /\ stale' \in BOOLEAN /\ foreign' \in BOOLEAN /\ disturbed' \in BOOLEAN
  BY NoOneTyped DEF ListSessions, ReloadIfStale, Reload, Typed
<1>3. Typed'
  BY <1>1, <1>2 DEF Typed
<1>4. Counted'
  BY <1>1 DEF Counted, Owed
<1> QED BY <1>3, <1>4

\* What a new process loads, and what it makes of it.
Loaded == IF disk.whole THEN disk.content ELSE NoOne
Halted == [i \in Ids |-> IF Loaded[i].status = "running"
                         THEN [Loaded[i] EXCEPT !.status = "stopped"]
                         ELSE Loaded[i]]

LEMMA HaltedTyped ==
  ASSUME Typed
  PROVE  Loaded \in [Ids -> Slot] /\ Halted \in [Ids -> Slot]
<1>1. Loaded \in [Ids -> Slot]
  BY NoOneTyped DEF Loaded, Typed
<1>2. ASSUME NEW i \in Ids
      PROVE  Halted[i] \in Slot
  <2>1. Loaded[i] \in Slot
    BY <1>1
  <2>2. CASE Loaded[i].status = "running"
    <3>1. Loaded[i] # Absent /\ "stopped" \in Statuses
      BY <2>2 DEF Absent, Statuses
    <3>2. [Loaded[i] EXCEPT !.status = "stopped"] \in Slot
      BY <2>1, <3>1, RestatedSlot
    <3> QED BY <2>2, <3>2 DEF Halted
  <2>3. CASE Loaded[i].status # "running"
    BY <2>1, <2>3 DEF Halted
  <2> QED BY <2>2, <2>3
<1> QED BY <1>1, <1>2 DEF Halted

LEMMA RestartStep ==
  ASSUME Restart
  PROVE  /\ mem' = Halted /\ saved' = Halted
         /\ \/ Halted = Loaded /\ queue' = <<>> /\ cache' = NoOne
            \/ queue' = <<Halted>> /\ cache' = Halted
         /\ pending' = Len(queue') /\ stage' = "idle" /\ stale' = TRUE
         /\ live' = {} /\ held' = NoOne /\ taken' = FALSE /\ todo' = {} /\ closing' = FALSE
         /\ restarts' = restarts + 1
         /\ UNCHANGED <<disk, outside, bodies, foreign, disturbed>>
  BY DEF Restart, Halted, Loaded

LEMMA RestartTypes ==
  ASSUME Typed, Restart
  PROVE  Typed' /\ Counted'
<1>1. /\ mem' \in [Ids -> Slot] /\ saved' \in [Ids -> Slot] /\ cache' \in [Ids -> Slot]
      /\ queue' \in Seq([Ids -> Slot]) /\ Len(queue') \in Nat
  <2>1. Halted \in [Ids -> Slot] /\ NoOne \in [Ids -> Slot]
    BY HaltedTyped, NoOneTyped
  <2>2. CASE queue' = <<>> /\ cache' = NoOne
    BY <2>1, <2>2, RestartStep
  <2>3. CASE queue' = <<Halted>> /\ cache' = Halted
    BY <2>1, <2>3, RestartStep
  <2> QED BY <2>2, <2>3, RestartStep
<1>2. Typed'
  BY <1>1, RestartStep, NoOneTyped DEF Typed, outside
<1>3. Counted'
  BY <1>1, RestartStep DEF Counted, Owed
<1> QED BY <1>2, <1>3

LEMMA ForeignTypes ==
  ASSUME Typed, Counted, NEW i \in Ids, NEW s \in {"idle", "running"}, ForeignSave(i, s)
  PROVE  Typed' /\ Counted'
<1>1. bodies' \in Nat /\ s \in Statuses /\ other[i] \in Slot
  BY ChangesTyped DEF ForeignSave, Statuses, Typed
<1>2. [Fresh EXCEPT !.status = s] \in Slot /\ Changed(other[i], s) \in Slot
  BY <1>1, FreshSlot, ChangedSlot
<1>3. other' \in [Ids -> Slot]
  BY <1>2 DEF ForeignSave, Typed
<1>4. /\ mem' = mem /\ live' = live /\ cache' = cache /\ saved' = saved /\ queue' = queue
      /\ held' = held /\ stage' = stage /\ pending' = pending /\ todo' = todo
      /\ closing' = closing /\ restarts' = restarts /\ foreigns' \in Nat
      /\ taken' \in BOOLEAN /\ foreign' \in BOOLEAN /\ disturbed' \in BOOLEAN
      /\ overlap' \in BOOLEAN /\ stale' \in BOOLEAN
      /\ disk' = [whole |-> TRUE, content |-> other']
  BY DEF ForeignSave, store, writer, lock, Typed
<1>5. Typed'
  BY <1>1, <1>3, <1>4 DEF Typed
<1>6. Counted'
  BY <1>4 DEF Counted, Owed
<1> QED BY <1>5, <1>6

LEMMA TypesInit == Init => Typed /\ Counted
<1> SUFFICES ASSUME Init PROVE Typed /\ Counted
  OBVIOUS
<1>1. PICK i \in Ids : mem = [NoOne EXCEPT ![i] = [@ EXCEPT !.status = "idle"]]
  BY DEF Init
<1>2. [NoOne[i] EXCEPT !.status = "idle"] \in Slot
  BY DEF NoOne, Absent, Slot, Entries, Statuses
<1>3. mem \in [Ids -> Slot]
  BY <1>1, <1>2, NoOneTyped
<1>4. /\ live = {} /\ cache = NoOne /\ queue = <<>> /\ held = NoOne /\ stage = "idle"
      /\ taken = FALSE /\ pending = 0 /\ stale = TRUE
      /\ disk = [whole |-> TRUE, content |-> mem] /\ todo = {} /\ closing = FALSE
      /\ other = mem /\ bodies = 0 /\ foreigns = 0 /\ restarts = 0
      /\ saved = mem /\ foreign = FALSE /\ disturbed = FALSE /\ overlap = FALSE
  BY DEF Init
<1>5. Typed
  <2>1. disk \in [whole : BOOLEAN, content : [Ids -> Slot]]
    BY <1>3, <1>4
  <2>2. queue \in Seq([Ids -> Slot])
    BY <1>4
  <2> QED BY <1>3, <1>4, <2>1, <2>2, NoOneTyped DEF Typed
<1>6. Counted
  BY <1>4 DEF Counted, Owed
<1> QED BY <1>5, <1>6

LEMMA TypesStep == Typed /\ Counted /\ [Next]_vars => Typed' /\ Counted'
<1> SUFFICES ASSUME Typed, Counted, [Next]_vars PROVE Typed' /\ Counted'
  OBVIOUS
<1>1. CASE Next
  BY <1>1, StepKinds, SavingTypes, AdoptionTypes, WriterTypes, ListingTypes, RestartTypes,
     ForeignTypes
<1>2. CASE UNCHANGED vars
  <2>1. Typed'
    BY <1>2 DEF Typed, vars, store, writer, file, lock, outside
  <2>2. Counted'
    BY <1>2 DEF Counted, Owed, vars, writer
  <2> QED BY <2>1, <2>2
<1> QED BY <1>1, <1>2

(***************************************************************************)
(* Every variable of the store, the writer and the file keeps its type     *)
(* (SessionStore, PersistWriter); the count of writes owed does not fall   *)
(* below zero.                                                             *)
(***************************************************************************)
THEOREM TypeCorrect == Spec => []TypeOK
<1>1. Spec => [](Typed /\ Counted)
  BY TypesInit, TypesStep, PTL DEF Spec
<1>2. Typed => TypeOK
  BY TypedIsTypeOK
<1> QED BY <1>1, <1>2, PTL

-----------------------------------------------------------------------------
(* What is saved reaches the file                                          *)

(***************************************************************************)
(* Wherever the newest snapshot is, it is what was saved last: at the end  *)
(* of the channel, in the writer's hands, or in the file, unless the last  *)
(* write failed or another process interfered.                             *)
(***************************************************************************)
InChannel == queue # <<>> => queue[Len(queue)] = saved
InHands == queue = <<>> /\ stage \in {"open", "full"} => held = saved
InFile ==
  queue = <<>> /\ disk.whole /\ ~disturbed =>
    /\ stage = "renamed" => disk.content = saved
    /\ stage = "idle" /\ (~foreign \/ ~stale) => disk.content = saved
Interference ==
  /\ stage \in {"open", "full"} /\ taken => disturbed
  /\ stage = "open" /\ taken => overlap
  /\ disk.whole \/ overlap

Pipe == Cached /\ InChannel /\ InHands /\ InFile /\ Interference

LEMMA SavingPipe ==
  ASSUME Typed, Pipe, Saving
  PROVE  Pipe'
<1>1. PICK m \in [Ids -> Slot] : Edited(m) /\ Save(m)
  BY DEF Saving
<1>2. Snapshot(m) = m
  BY <1>1, SnapshotIsMap DEF Pipe
<1>3. mem' = m /\ saved' = m /\ cache' = m /\ queue' = Append(queue, m)
  BY <1>1, <1>2 DEF Save
<1>4. queue' # <<>> /\ queue'[Len(queue')] = m
  BY <1>3, AppendTyped DEF Typed
<1>5. /\ held' = held /\ stage' = stage /\ disk' = disk /\ taken' = taken /\ stale' = stale
      /\ overlap' = overlap /\ foreign' = foreign /\ disturbed' = disturbed
  BY DEF Saving, file, outside
<1>6. Interference'
  BY <1>5 DEF Pipe, Interference
<1> QED BY <1>3, <1>4, <1>6 DEF Pipe, Cached, InChannel, InHands, InFile

LEMMA AdoptionPipe ==
  ASSUME Typed, Pipe, Adoption
  PROVE  Pipe'
<1>1. /\ cache' = cache /\ saved' = saved /\ queue' = queue /\ held' = held /\ stage' = stage
      /\ disk' = disk /\ taken' = taken /\ stale' = stale /\ overlap' = overlap
      /\ foreign' = foreign /\ disturbed' = disturbed
  BY DEF Adoption, writer, file, outside
<1>2. Cached'
  <2>1. PICK i \in Ids, e \in Slot : ~Known(i) /\ mem' = [mem EXCEPT ![i] = e]
    BY DEF Adoption
  <2>2. cache[i] = Absent
    BY <2>1 DEF Pipe, Cached, Known
  <2>3. ASSUME NEW j \in Ids
        PROVE  cache'[j] = mem'[j] \/ cache'[j] = Absent
    BY <1>1, <2>1, <2>2 DEF Pipe, Cached, Typed
  <2> QED BY <2>3 DEF Cached
<1>3. InChannel' /\ InHands' /\ InFile' /\ Interference'
  BY <1>1 DEF Pipe, InChannel, InHands, InFile, Interference
<1> QED BY <1>2, <1>3 DEF Pipe

LEMMA WriterPipe ==
  ASSUME Typed, Pipe, Writer
  PROVE  Pipe'
<1>1. mem' = mem /\ cache' = cache /\ saved' = saved /\ overlap' = overlap
  BY DEF Writer, Take, Fill, FillFails, RenameTmp, Written, WriterStep, store, outside
<1>2. Cached'
  BY <1>1 DEF Pipe, Cached
<1>3. CASE Take
  <2>1. /\ queue # <<>> /\ held' = queue[Len(queue)] /\ queue' = <<>> /\ stage' = "open"
        /\ taken' = FALSE /\ disk' = disk
    BY <1>3 DEF Take
  <2>2. held' = saved
    BY <2>1 DEF Pipe, InChannel
  <2> QED BY <1>1, <1>2, <2>1, <2>2 DEF Pipe, InChannel, InHands, InFile, Interference
<1>4. CASE Fill \/ FillFails
  <2>1. /\ queue' = queue /\ held' = held /\ taken' = taken /\ stage = "open"
    BY <1>4 DEF Fill, FillFails
  <2>2. ~taken => disk' = disk
    BY <1>4 DEF Fill, FillFails, WriteTmp
  <2>3. taken => overlap
    BY <2>1 DEF Pipe, Interference
  <2>4. disk'.whole \/ overlap'
    BY <1>1, <2>2, <2>3 DEF Pipe, Interference
  <2>5. CASE Fill
    <3>1. stage' = "full" /\ disturbed' = disturbed
      BY <2>5 DEF Fill
    <3> QED BY <1>1, <1>2, <2>1, <2>4, <3>1 DEF Pipe, InChannel, InHands, InFile, Interference
  <2>6. CASE FillFails
    <3>1. stage' = "renamed" /\ disturbed' = TRUE
      BY <2>6 DEF FillFails
    <3> QED BY <1>1, <1>2, <2>1, <2>4, <3>1 DEF Pipe, InChannel, InHands, InFile, Interference
  <2> QED BY <1>4, <2>5, <2>6
<1>5. CASE RenameTmp
  <2>1. /\ queue' = queue /\ held' = held /\ taken' = taken /\ disturbed' = disturbed
        /\ stage = "full" /\ stage' = "renamed"
    BY <1>5 DEF RenameTmp
  <2>2. /\ taken => disk' = disk
        /\ ~taken => disk' = [whole |-> TRUE, content |-> held]
    BY <1>5 DEF RenameTmp
  <2>3. taken => disturbed
    BY <2>1 DEF Pipe, Interference
  <2>4. queue = <<>> => held = saved
    BY <2>1 DEF Pipe, InHands
  <2>5. InFile'
    BY <1>1, <2>1, <2>2, <2>3, <2>4 DEF InFile
  <2>6. Interference'
    BY <1>1, <2>1, <2>2 DEF Pipe, Interference
  <2> QED BY <1>1, <1>2, <2>1, <2>5, <2>6 DEF Pipe, InChannel, InHands
<1>6. CASE Written
  <2>1. /\ queue' = queue /\ held' = held /\ disk' = disk /\ taken' = taken
        /\ stage = "renamed" /\ stage' = "idle" /\ foreign' = foreign /\ disturbed' = disturbed
    BY <1>6 DEF Written, file
  <2> QED BY <1>1, <1>2, <2>1 DEF Pipe, InChannel, InHands, InFile, Interference
<1> QED BY <1>3, <1>4, <1>5, <1>6 DEF Writer

LEMMA DrainedIsIdle ==
  ASSUME Typed, Counted, pending = 0
  PROVE  queue = <<>> /\ stage = "idle"
  BY LenTyped DEF Counted, Owed

LEMMA ListingPipe ==
  ASSUME Typed, Counted, Pipe, ListSessions
  PROVE  Pipe'
<1>1. /\ queue' = queue /\ held' = held /\ stage' = stage /\ disk' = disk /\ taken' = taken
      /\ overlap' = overlap
  BY DEF ListSessions, writer, file, outside
<1>2. CASE /\ mem' = mem /\ saved' = saved /\ cache' = cache /\ foreign' = foreign
           /\ disturbed' = disturbed /\ (stale' = stale \/ ~disk.whole)
  BY <1>1, <1>2 DEF Pipe, Cached, InChannel, InHands, InFile, Interference
<1>3. CASE pending = 0 /\ mem' = disk.content /\ saved' = disk.content /\ cache' = NoOne
  <2>1. queue' = <<>> /\ stage' = "idle"
    BY <1>1, <1>3, DrainedIsIdle
  <2>2. Cached'
    BY <1>3 DEF Cached, NoOne
  <2> QED BY <1>1, <1>3, <2>1, <2>2 DEF Pipe, InChannel, InHands, InFile, Interference
<1> QED BY <1>2, <1>3 DEF ListSessions, ReloadIfStale, Reload

LEMMA RestartPipe ==
  ASSUME Typed, Pipe, Restart
  PROVE  Pipe'
<1>1. /\ mem' = Halted /\ saved' = Halted /\ stage' = "idle" /\ disk' = disk
      /\ overlap' = overlap
  BY RestartStep DEF outside
<1>2. Interference'
  BY <1>1 DEF Pipe, Interference
<1>3. CASE Halted = Loaded /\ queue' = <<>> /\ cache' = NoOne
  <2>1. Cached'
    BY <1>3 DEF Cached, NoOne
  <2>2. disk.whole => disk.content = saved'
    BY <1>1, <1>3 DEF Loaded
  <2> QED BY <1>1, <1>2, <1>3, <2>1, <2>2 DEF Pipe, InChannel, InHands, InFile
<1>4. CASE queue' = <<Halted>> /\ cache' = Halted
  <2>1. queue' # <<>> /\ queue'[Len(queue')] = Halted
    BY <1>4
  <2> QED BY <1>1, <1>2, <1>4, <2>1 DEF Pipe, Cached, InChannel, InHands, InFile
<1> QED BY <1>3, <1>4, RestartStep

LEMMA ForeignPipe ==
  ASSUME Typed, Pipe, NEW i \in Ids, NEW s \in {"idle", "running"}, ForeignSave(i, s)
  PROVE  Pipe'
<1>1. /\ mem' = mem /\ cache' = cache /\ saved' = saved /\ queue' = queue /\ held' = held
      /\ stage' = stage
  BY DEF ForeignSave, store, writer
<1>2. disk'.whole /\ stale' = TRUE /\ foreign' = TRUE
  BY DEF ForeignSave
<1>3. /\ stage # "idle" => disturbed'
      /\ stage = "open" => overlap'
  BY DEF ForeignSave
<1>4. InFile'
  BY <1>1, <1>2, <1>3 DEF InFile
<1>5. Interference'
  BY <1>1, <1>2, <1>3 DEF Interference
<1> QED BY <1>1, <1>4, <1>5 DEF Pipe, Cached, InChannel, InHands

LEMMA PipeInit == Init => Pipe
<1> SUFFICES ASSUME Init PROVE Pipe
  OBVIOUS
<1>1. /\ cache = NoOne /\ queue = <<>> /\ stage = "idle" /\ taken = FALSE
      /\ disk = [whole |-> TRUE, content |-> mem] /\ saved = mem
  BY DEF Init
<1>2. Cached
  BY <1>1 DEF Cached, NoOne
<1> QED BY <1>1, <1>2 DEF Pipe, InChannel, InHands, InFile, Interference

LEMMA PipeStep == Typed /\ Counted /\ Pipe /\ [Next]_vars => Pipe'
<1> SUFFICES ASSUME Typed, Counted, Pipe, [Next]_vars PROVE Pipe'
  OBVIOUS
<1>1. CASE Next
  BY <1>1, StepKinds, SavingPipe, AdoptionPipe, WriterPipe, ListingPipe, RestartPipe,
     ForeignPipe
<1>2. CASE UNCHANGED vars
  BY <1>2 DEF vars, store, writer, file, outside, Pipe, Cached, InChannel, InHands, InFile,
     Interference
<1> QED BY <1>1, <1>2

LEMMA PipeCorrect == Spec => [](Typed /\ Counted /\ Pipe)
  BY TypesInit, PipeInit, TypesStep, PipeStep, PTL DEF Spec

(***************************************************************************)
(* Once the writer has drained, the file holds what was saved last, for    *)
(* any history of changes, deletions, reloads and restarts: the cache of   *)
(* serialised entries (entry_fingerprint) never hides a change.            *)
(***************************************************************************)
THEOREM SavedIsWrittenHolds == Spec => []SavedIsWritten
<1>1. Typed /\ Counted /\ Pipe => SavedIsWritten
  BY DrainedIsIdle DEF Pipe, InFile, SavedIsWritten
<1> QED BY <1>1, PipeCorrect, PTL

(***************************************************************************)
(* write_atomic leaves a whole file behind at every instant, unless the    *)
(* other process renamed the temporary file while it was written.          *)
(***************************************************************************)
THEOREM DiskWholeHolds == Spec => []DiskWhole
<1>1. Pipe => DiskWhole
  BY DEF Pipe, Interference, DiskWhole
<1> QED BY <1>1, PipeCorrect, PTL

(***************************************************************************)
(* reload takes nothing back that was saved: it runs only when nothing is  *)
(* pending, and then the file holds the last save.                         *)
(***************************************************************************)
THEOREM ReloadKeepsSavedHolds == Spec => ReloadKeepsSaved
<1>1. ASSUME Typed, Counted, Pipe, ListSessions, ~foreign, ~disturbed,
             NEW i \in Ids, mem[i] = saved[i]
      PROVE  mem'[i] = mem[i]
  <2>1. CASE mem' = mem
    BY <2>1
  <2>2. CASE pending = 0 /\ disk.whole /\ mem' = disk.content
    <3>1. disk.content = saved
      BY <1>1, <2>2, DrainedIsIdle DEF Pipe, InFile
    <3> QED BY <1>1, <2>2, <3>1
  <2> QED BY <1>1, <2>1, <2>2 DEF ListSessions, ReloadIfStale, Reload
<1>2. Typed /\ Counted /\ Pipe /\ [Next]_vars =>
        [ListSessions /\ ~foreign /\ ~disturbed =>
           \A i \in Ids : mem[i] = saved[i] => mem'[i] = mem[i]]_vars
  BY <1>1
<1> QED BY <1>2, PipeCorrect, PTL DEF Spec, ReloadKeepsSaved

=============================================================================
