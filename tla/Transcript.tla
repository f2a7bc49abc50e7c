----------------------------- MODULE Transcript -----------------------------
(***************************************************************************)
(* What the model is told, and what is left of it afterwards.              *)
(*                                                                         *)
(* A conversation exists three times: as the log of the session store      *)
(* (src-tauri/src/commands.rs, runner.rs), as the message vector the agent *)
(* loop extends, compresses and sends (agent_loop.rs, compress.rs), and as *)
(* the copy of that vector in the best checkpoint.  This module follows    *)
(* the tool_use and tool_result blocks and the substance of every message  *)
(* through the conversions between them, and states what the provider must *)
(* be sent (oz-llm message_format.rs).                                     *)
(*                                                                         *)
(* A message is its role, the ids of its tool_use and tool_result blocks,  *)
(* whether it has text, and the events it tells of.  An event is a number: *)
(* a user's message or one turn of the model.  The id of a call is the     *)
(* turn and the member of Calls.                                           *)
(***************************************************************************)
EXTENDS Naturals, Sequences, FiniteSets, SequencesExt

CONSTANTS
  Calls,        \* the calls one reply can make
  Batches,      \* sets of calls made in one reply
  Raw,          \* those whose input is not a JSON object
  Texts,        \* whether there is text beside calls, and beside results
  TailTurns,    \* tail_turns: user messages compression never drops, 2
  MinMessages,  \* CompressionConfig::min_messages
  Interval,     \* checkpoint_interval
  Lossy,        \* summaries may fail
  MaxEvents,    \* bound: user messages and turns
  MaxRuns,      \* bound: runs started
  MaxHints,     \* bound: messages put in between two turns
  MaxCompressions, \* bound: compressions of the vector
  MaxTrimmed,   \* bound: messages one compression takes blocks out of
  MaxCompacts,  \* bound: uses of /compact
  MaxCrashes,   \* bound: times the process dies
  MaxRecoveries \* bound: sessions opened that have to be rebuilt

ASSUME ParametersAssumption ==
  /\ IsFiniteSet(Calls)
  /\ Raw \subseteq Calls /\ Batches \subseteq SUBSET Calls
  /\ {TailTurns, MinMessages, Interval, MaxTrimmed} \subseteq Nat \ {0}
  /\ Lossy \in BOOLEAN /\ Texts \subseteq BOOLEAN
  /\ {MaxEvents, MaxRuns, MaxHints, MaxCompressions, MaxCompacts, MaxCrashes,
      MaxRecoveries} \subseteq Nat

Events == 1..MaxEvents
\* "respond" is the internal call that ends a run; its use is never recorded.
Ids == Events \X (Calls \cup {"respond"})

Message == [role : {"system", "user", "assistant"}, uses : SUBSET Ids,
            results : SUBSET Ids, text : BOOLEAN, of : SUBSET Events]

System(of) == [role |-> "system", uses |-> {}, results |-> {}, text |-> TRUE, of |-> of]
User(results, text, of) ==
  [role |-> "user", uses |-> {}, results |-> results, text |-> text, of |-> of]
Assistant(uses, of) ==
  [role |-> "assistant", uses |-> uses, results |-> {}, text |-> TRUE, of |-> of]

VARIABLES
  store,    \* the session's log
  msgs,     \* the run's message vector
  pc,       \* "idle", "top", "llm", "post", "crashed"
  turn,     \* the run's turn
  ran,      \* what the run's event collector has seen: uses, results, events
  saved,    \* turn and messages of the best checkpoint
  folded,   \* per pending /compact: the events whose messages it took out
  clock,    \* the last event
  counts    \* runs, hints, compressions, compacts, crashes, recoveries

vars == <<store, msgs, pc, turn, ran, saved, folded, clock, counts>>

Of(s) == UNION {s[i].of : i \in DOMAIN s}

\* The messages of s at the places in I.
Only(s, I) == FlattenSeq([i \in DOMAIN s |-> IF i \in I THEN <<s[i]>> ELSE <<>>])

NoRun == [uses |-> {}, results |-> {}, of |-> {}]
NoCheckpoint == [turn |-> 0, msgs |-> <<>>]

-----------------------------------------------------------------------------
(* compress.rs                                                             *)

\* sys_offset
Leading(s) ==
  LET first == SelectInSeq(s, LAMBDA m : m.role # "system") IN
  IF first = 0 THEN Len(s) ELSE first - 1

Blocks(s) == UNION {{i} \X (s[i].uses \cup s[i].results) : i \in DOMAIN s}

\* Mutant of trim_end: only the last message is spared.
TrimEndShort(s) == Len(s) - 1

\* keep_recent is 2.
trim_end(s) == Len(s) - 2

\* A message without the blocks gone.  What had text keeps it, if cut; what
\* had none no longer tells of the events it has no block of.
Cut(m, gone) ==
  LET Told(ids) == {u[1] : u \in ids} IN
  [m EXCEPT !.uses = @ \ gone, !.results = @ \ gone,
            !.of = IF m.text THEN @
                   ELSE @ \ (Told(gone) \ Told((m.uses \cup m.results) \ gone))]

\* compress_tool_results, trim_message_content: an old message over its budget
\* loses any of its tool blocks, perhaps all of them.
Trims(s) ==
  LET old == Leading(s) + 1 .. trim_end(s)
      over == {{f[k] : k \in 1..MaxTrimmed} : f \in [1..MaxTrimmed -> old]}
      some == UNION {SUBSET {b \in Blocks(s) : b[1] \in I} : I \in over}
  IN {[i \in DOMAIN s |-> Cut(s[i], {b[2] : b \in {g \in gone : g[1] = i}})] :
        gone \in {{}} \cup some}

\* The TailTurns-th last user message, if there are more than that.
keep_start(s) ==
  LET users == {i \in DOMAIN s : s[i].role = "user"} IN
  IF Cardinality(users) <= TailTurns THEN Len(s) + 1
  ELSE CHOOSE i \in users : Cardinality({j \in users : j > i}) = TailTurns - 1

\* How many messages may go: down to the budget, on to the next user or
\* system message, never into the tail, never below min_messages.
Cuts(s) ==
  LET lead == Leading(s)
      spare == IF Len(s) > lead + MinMessages THEN Len(s) - lead - MinMessages ELSE 0
      room == keep_start(s) - 1 - lead
      limit == IF spare < room THEN spare ELSE room
  IN {n \in 0..limit : n \in {0, limit} \/ s[lead + n + 1].role \in {"user", "system"}}

sanitize_leading_message(m) == [m EXCEPT !.uses = {}, !.results = {}, !.text = TRUE]

\* Results whose call is not in the message before become text.
repair_orphaned_tool_results(s) ==
  [i \in DOMAIN s |->
     LET valid == IF i > 1 /\ s[i - 1].role = "assistant" THEN s[i - 1].uses ELSE {}
     IN IF s[i].role # "user" THEN s[i]
        ELSE [s[i] EXCEPT !.results = @ \cap valid,
                          !.text = @ \/ ~(s[i].results \subseteq valid)]]

\* Drop n messages after the leading system messages.
Drop(s, n) ==
  LET lead == Leading(s)
      rest == SubSeq(s, 1, lead) \o SubSeq(s, lead + n + 1, Len(s))
  IN IF n = 0 \/ lead = Len(rest) THEN rest
     ELSE [rest EXCEPT ![lead + 1] = sanitize_leading_message(@)]

\* What compress_messages can make of s, and how many messages it dropped.
compress_messages(s) ==
  {[msgs |-> repair_orphaned_tool_results(Drop(t, n)), removed |-> n] :
     t \in Trims(s), n \in Cuts(s)}

\* The messages it dropped: snapshot_before[sys_count .. sys_count + n].
Removed(s, n) == SubSeq(s, Leading(s) + 1, Leading(s) + n)

\* Summaries are the system messages that tell of something.
extract_compression_summaries(s) ==
  Only(s, {i \in DOMAIN s : s[i].role # "system" \/ s[i].of = {}})
Summaries(s) == UNION {s[i].of : i \in {j \in DOMAIN s : s[j].role = "system"}}

\* Mutant of InsertSummary: it goes first.
InsertFirst(s, of) == <<System(of)>> \o s

\* Before the first message that is not system.
InsertSummary(s, of) == InsertAt(s, Leading(s) + 1, System(of))

\* Mutant of repair_tool_pairing: calls whose result was trimmed stay.
RepairResultsOnly(s) == s

\* Both directions, the carrier being the next message that is not system.
repair_tool_pairing(s) ==
  LET carrier(i) == {j \in i + 1 .. Len(s) : /\ s[j].role # "system"
                                             /\ \A k \in i + 1 .. j - 1 : s[k].role = "system"}
      caller(j) == {i \in 1 .. j - 1 : /\ s[i].role = "assistant" /\ s[i].uses # {}
                                       /\ j \in carrier(i)}
      answers(i) == UNION {s[j].results : j \in carrier(i)}
  IN [i \in DOMAIN s |->
        [s[i] EXCEPT !.uses = @ \cap answers(i),
                     !.results = IF caller(i) = {} THEN @
                                 ELSE @ \cap UNION {s[j].uses : j \in caller(i)}]]

\* A log entry left without blocks and text gets a placeholder text.
message_to_store_message(m) ==
  [m EXCEPT !.text = @ \/ (m.uses = {} /\ m.results = {})]

compact_store_messages(s) ==
  {[log |-> [i \in DOMAIN r.msgs |-> message_to_store_message(repair_tool_pairing(r.msgs)[i])],
    removed |-> Of(Removed(s, r.removed))] : r \in compress_messages(s)}

-----------------------------------------------------------------------------
(* The log and the message vector.                                         *)

\* runner.rs build_history_messages: all entries but the last, without the
\* system ones; a carrier of results without text takes the next plain user
\* entry in.
Absorbs(s, i) ==
  /\ s[i].role = "user" /\ s[i].results # {} /\ ~s[i].text
  /\ i + 1 \in DOMAIN s
  /\ s[i + 1].role = "user" /\ s[i + 1].results = {} /\ s[i + 1].text
build_history_messages(log) ==
  LET s == Front(log)
      keep == {i \in DOMAIN s : s[i].role # "system" /\ ~(i > 1 /\ Absorbs(s, i - 1))}
      entry(i) == IF Absorbs(s, i)
                  THEN [s[i] EXCEPT !.text = TRUE, !.of = @ \cup s[i + 1].of]
                  ELSE s[i]
  IN Only([i \in DOMAIN s |-> entry(i)], keep)

\* runner.rs: one assistant entry with every call of the run, one carrier.
Persisted(log, seen) ==
  log \o <<Assistant(seen.uses, seen.of)>>
      \o (IF seen.results = {} THEN <<>>
          ELSE <<User(seen.results, FALSE, {u[1] : u \in seen.results})>>)

\* commands.rs checkpoint_messages_to_store: the log up to its first
\* assistant entry, then the checkpoint without its system messages, without
\* its first user message and without the calls of its assistants.
checkpoint_messages_to_store(cp, log) ==
  LET first == SelectInSeq(log, LAMBDA m : m.role = "assistant")
      own == IF first = 0 THEN log ELSE SubSeq(log, 1, first - 1)
      trigger == \E i \in DOMAIN own : own[i].role = "user"
      skip == IF trigger THEN SelectInSeq(cp, LAMBDA m : m.role = "user") ELSE 0
      keep == {i \in DOMAIN cp : cp[i].role # "system" /\ i # skip}
  IN own \o Only([i \in DOMAIN cp |-> [cp[i] EXCEPT !.uses = {}]], keep)

Init ==
  /\ store = <<>> /\ msgs = <<>> /\ pc = "idle" /\ turn = 0 /\ ran = NoRun
  /\ saved = NoCheckpoint /\ folded = {} /\ clock = 0
  /\ counts = [runs |-> 0, hints |-> 0, compressions |-> 0, compacts |-> 0,
               crashes |-> 0, recoveries |-> 0]

-----------------------------------------------------------------------------
(* A run.                                                                  *)

\* An event happens: the k-th from now.
Happens(k) == clock + k <= MaxEvents /\ clock' = clock + k

Count(what, max) == counts[what] < max /\ counts' = [counts EXCEPT ![what] = @ + 1]

\* The best checkpoint is the one of the highest turn (CheckpointStore).
Save(t, s) == saved' = IF t >= saved.turn THEN [turn |-> t, msgs |-> s] ELSE saved

\* send_message: the log gets the prompt, the vector the history and it.
StartRun ==
  /\ pc \in {"idle", "crashed"}
  /\ Happens(1) /\ Count("runs", MaxRuns)
  /\ store' = Append(store, User({}, TRUE, {clock'}))
  /\ msgs' = <<System({})>> \o build_history_messages(store') \o <<User({}, TRUE, {clock'})>>
  /\ pc' = "top" /\ turn' = 0 /\ ran' = NoRun
  /\ UNCHANGED <<saved, folded>>

\* resume_session: the vector of the best checkpoint, perhaps with a note.
Resume ==
  /\ pc \in {"idle", "crashed"}
  /\ saved # NoCheckpoint
  /\ Count("runs", MaxRuns)
  /\ \/ msgs' = saved.msgs /\ UNCHANGED clock
     \/ Happens(1) /\ msgs' = Append(saved.msgs, User({}, TRUE, {clock'}))
  /\ pc' = "top" /\ turn' = saved.turn /\ ran' = NoRun
  /\ UNCHANGED <<store, saved, folded>>

\* A queued intervention is taken at the top of the turn.
Intervene ==
  /\ pc = "top"
  /\ Happens(1) /\ Count("hints", MaxHints)
  /\ msgs' = Append(msgs, User({}, TRUE, {clock'}))
  /\ UNCHANGED <<store, pc, turn, ran, saved, folded>>

\* The context is below the trigger.
Proceed ==
  /\ pc = "top"
  /\ pc' = "llm"
  /\ UNCHANGED <<store, msgs, turn, ran, saved, folded, clock, counts>>

\* Mutant of TurnSummary: the summary model is not shown the prior summary.
SummaryOfRemoved(s, n) == {Of(Removed(s, n))}

\* What the summary of a compression that dropped n messages tells of.  The
\* summary model is given the prior summary too; the template it falls back
\* on is not.  If nothing was dropped there is no summary, whatever the prior
\* one told.
TurnSummary(s, n) ==
  IF n = 0 THEN {{}}
  ELSE {Summaries(s) \cup Of(Removed(s, n))}
         \cup (IF Lossy THEN {Of(Removed(s, n))} ELSE {})

\* Over the trigger: compress, replace the prior summaries by a new one.
CompressTurn ==
  /\ pc = "top"
  /\ Count("compressions", MaxCompressions)
  /\ \E r \in compress_messages(msgs) :
       \E of \in TurnSummary(msgs, r.removed) :
         LET rest == extract_compression_summaries(r.msgs) IN
         msgs' = IF of = {} THEN rest ELSE InsertSummary(rest, of)
  /\ pc' = "llm"
  /\ UNCHANGED <<store, turn, ran, saved, folded, clock>>

\* The periodic checkpoint is taken before the reply and the results are added.
SaveIfDue(s) ==
  IF (turn + 1) % Interval = 0 THEN Save(turn + 1, s) ELSE UNCHANGED saved

EndTurn(hint, more, seen) ==
  /\ turn' = turn + 1
  /\ SaveIfDue(msgs \o hint)
  /\ msgs' = msgs \o hint \o more
  /\ ran' = [uses |-> ran.uses \cup seen, results |-> ran.results \cup seen,
             of |-> ran.of \cup {clock'}]
  /\ pc' = "post"
  /\ UNCHANGED <<store, folded>>

\* The reply calls tools; each has its result, if only an error.
ToolTurn ==
  /\ pc = "llm"
  /\ Happens(1)
  /\ UNCHANGED counts
  /\ \E S \in Batches, said, asked \in Texts :
       LET ids == {clock'} \X S IN
       EndTurn(<<>>, <<[Assistant(ids, {clock'}) EXCEPT !.text = said],
                       User(ids, asked, {clock'})>>, ids)

\* Only text is a respond.  A gate sends the run back: the result of respond
\* is kept, its call is not.
SentBack ==
  /\ pc = "llm"
  /\ Happens(1) /\ UNCHANGED counts
  /\ EndTurn(<<>>, <<Assistant({}, {clock'}),
                     User({<<clock', "respond">>}, TRUE, {clock'})>>, {})

\* The reply announces a tool without calling it: the hint goes first.
IntentTurn ==
  /\ pc = "llm"
  /\ Happens(1) /\ Count("hints", MaxHints)
  /\ EndTurn(<<User({}, TRUE, {clock'})>>, <<Assistant({}, {clock'})>>, {})

\* The ceiling is crossed after the tools ran: the summary is of everything.
EmergencyCompress ==
  /\ pc = "post"
  /\ Count("compressions", MaxCompressions)
  /\ \E r \in compress_messages(msgs) : msgs' = InsertSummary(r.msgs, Of(msgs))
  /\ pc' = "top"
  /\ UNCHANGED <<store, turn, ran, saved, folded, clock>>

NextTurn ==
  /\ pc = "post"
  /\ pc' = "top"
  /\ UNCHANGED <<store, msgs, turn, ran, saved, folded, clock, counts>>

\* A run without an event leaves no entry; some events are of no turn.
EndRun(seen) ==
  /\ \/ store' = Persisted(store, seen)
     \/ seen.of = {} /\ UNCHANGED store
  /\ pc' = "idle" /\ msgs' = <<>> /\ ran' = NoRun
  /\ UNCHANGED <<folded, counts>>

\* The last reply; its turn is saved if it is due.
Finish ==
  /\ pc = "llm"
  /\ Happens(1)
  /\ turn' = turn + 1 /\ SaveIfDue(msgs)
  /\ EndRun([ran EXCEPT !.of = @ \cup {clock'}])

\* Stopped at the top of a turn, or in a request that announced calls.
Stop ==
  /\ pc \in {"top", "llm"}
  /\ Save(turn, msgs)
  /\ \/ EndRun(ran) /\ UNCHANGED clock
     \/ /\ pc = "llm" /\ Happens(1)
        /\ \E S \in Batches : EndRun([ran EXCEPT !.uses = @ \cup ({clock'} \X S),
                                                      !.of = @ \cup {clock'}])
  /\ UNCHANGED turn

\* llm_error: nothing is saved.
Fail ==
  /\ pc = "llm"
  /\ EndRun(ran)
  /\ UNCHANGED <<turn, saved, clock>>

\* The process dies; the log keeps the prompt and says Running.
Crash ==
  /\ pc \in {"top", "llm", "post"} \/ folded # {}
  /\ Count("crashes", MaxCrashes)
  /\ pc' = IF pc = "idle" THEN "idle" ELSE "crashed"
  /\ msgs' = <<>> /\ ran' = NoRun /\ folded' = {}
  /\ UNCHANGED <<store, turn, saved, clock>>

\* get_session finds a session that says Running and does not, or one
\* without any reply: it is rebuilt from the best checkpoint.
Recover ==
  /\ Count("recoveries", MaxRecoveries)
  /\ \/ pc = "crashed"
     \/ pc = "idle" /\ \A i \in DOMAIN store : store[i].role # "assistant" /\ store[i].results = {}
  /\ store' = IF saved = NoCheckpoint THEN store
              ELSE checkpoint_messages_to_store(saved.msgs, store)
  /\ pc' = "idle"
  /\ UNCHANGED <<msgs, turn, ran, saved, folded, clock>>

-----------------------------------------------------------------------------
(* /compact: compact_context, and the endpoint of the web UI.              *)

\* Under the lock of the store; a run may be in progress.
Compact ==
  /\ Count("compacts", MaxCompacts)
  /\ store # <<>>
  /\ \E r \in compact_store_messages(store) :
       /\ store' = r.log
       /\ \/ folded' = folded \cup {r.removed}
          \/ r.log = store /\ UNCHANGED folded
  /\ UNCHANGED <<msgs, pc, turn, ran, saved, clock>>

\* The summary model has answered, or the template stands in.
CompactSummary ==
  \E of \in folded :
    /\ folded' = folded \ {of}
    /\ store' = <<System(of)>> \o store
    /\ UNCHANGED <<msgs, pc, turn, ran, saved, clock, counts>>

Next ==
  \/ StartRun \/ Resume \/ Intervene \/ Proceed \/ CompressTurn
  \/ ToolTurn \/ SentBack \/ IntentTurn \/ EmergencyCompress \/ NextTurn
  \/ Finish \/ Stop \/ Fail \/ Crash \/ Recover \/ Compact \/ CompactSummary

Spec == Init /\ [][Next]_vars

-----------------------------------------------------------------------------
(* What goes out.                                                          *)

\* client.rs: system messages travel as the backend's system prompt.
build_request_messages(s) == Only(s, {i \in DOMAIN s : s[i].role # "system"})

ResultsAfter(s, i) ==
  IF i < Len(s) /\ s[i + 1].role = "user" THEN s[i + 1].results ELSE {}
Objects(ids) == {u \in ids : u[2] \notin Raw}
DeclaredBefore(s, i) ==
  IF i > 1 /\ s[i - 1].role = "assistant" THEN Objects(s[i - 1].uses) ELSE {}

Item(role, calls, id) == [role |-> role, calls |-> calls, id |-> id]
NoCall == <<0, "none">>
Tools(ids) == [k \in 1..Cardinality(ids) |-> Item("tool", {}, SetToSeq(ids)[k])]

\* Mutant of FromAssistant: no made-up result for a call without one.
FromAssistantBare(s, i) == <<Item("assistant", Objects(s[i].uses), NoCall)>>

\* The calls whose input is an object, then a made-up result for each one the
\* next message does not answer.
FromAssistant(s, i) ==
  <<Item("assistant", Objects(s[i].uses), NoCall)>>
    \o Tools(Objects(s[i].uses) \ ResultsAfter(s, i))

\* The results of the calls just declared, then the text.
FromUser(s, i) ==
  Tools(s[i].results \cap DeclaredBefore(s, i))
    \o (IF s[i].text THEN <<Item("user", {}, NoCall)>> ELSE <<>>)

\* The chat-completions form of a request.
msgs_claude2oai(s) ==
  FlattenSeq([i \in DOMAIN s |->
    IF s[i].role = "assistant" THEN FromAssistant(s, i) ELSE FromUser(s, i)])

Merge(m, n) == [m EXCEPT !.uses = @ \cup n.uses, !.results = @ \cup n.results,
                         !.text = @ \/ n.text, !.of = @ \cup n.of]

\* The Anthropic form: neighbours of one role are merged, a call the next
\* message does not answer gets an "(error)" result, the first is a user's.
FixNext(fixed, m) ==
  IF fixed = <<>> THEN <<m>>
  ELSE IF Last(fixed).role = m.role THEN Append(Front(fixed), Merge(Last(fixed), m))
  ELSE Append(fixed, [m EXCEPT !.results = @ \cup Last(fixed).uses])
fix_messages(s) ==
  LET fixed == FoldLeft(FixNext, <<>>, s)
  IN IF fixed # <<>> /\ Head(fixed).role # "user" THEN Tail(fixed) ELSE fixed

-----------------------------------------------------------------------------
(* Properties.                                                             *)

(***************************************************************************)
(* The types of the variables; a run has a vector that begins with the     *)
(* system prompt.                                                          *)
(***************************************************************************)
TypeOK ==
  /\ {store, msgs, saved.msgs} \subseteq Seq(Message)
  /\ pc \in {"idle", "top", "llm", "post", "crashed"}
  /\ pc \in {"top", "llm", "post"} <=> msgs # <<>> /\ Head(msgs) = System({})
  /\ turn \in Nat /\ saved.turn \in Nat
  /\ ran \in [uses : SUBSET Ids, results : SUBSET Ids, of : SUBSET Events]
  /\ folded \subseteq SUBSET Events
  /\ clock \in 0..MaxEvents
  /\ counts \in [runs : 0..MaxRuns, hints : 0..MaxHints, compressions : 0..MaxCompressions,
                compacts : 0..MaxCompacts, crashes : 0..MaxCrashes,
                recoveries : 0..MaxRecoveries]

(***************************************************************************)
(* What a strict chat-completions gateway asks of every request: each      *)
(* assistant item is followed by one tool item for each of its calls, and  *)
(* a tool item stands nowhere else.  Whatever compression trimmed or       *)
(* dropped, whatever a stop, a crash, /compact or a recovery left in the   *)
(* log, msgs_claude2oai sends a request of that form.                      *)
(***************************************************************************)
OaiPaired ==
  pc = "llm" =>
    LET w == msgs_claude2oai(build_request_messages(msgs))
        block(i) == {j \in i + 1 .. Len(w) : \A k \in i + 1 .. j : w[k].role = "tool"}
        calls == {i \in DOMAIN w : w[i].role = "assistant"}
    IN /\ \A i \in calls : /\ {w[j].id : j \in block(i)} = w[i].calls
                           /\ Cardinality(block(i)) = Cardinality(w[i].calls)
       /\ \A j \in DOMAIN w : w[j].role = "tool" => \E i \in calls : j \in block(i)

(***************************************************************************)
(* fix_messages, "pair tool_use/tool_result": in the Anthropic form of     *)
(* every request each result answers a call of the message before it.      *)
(***************************************************************************)
ClaudePaired ==
  pc = "llm" =>
    LET w == fix_messages(build_request_messages(msgs)) IN
    \A i \in DOMAIN w :
      w[i].results \subseteq (IF i > 1 THEN w[i - 1].uses ELSE {})

\* The messages after the system ones.
Body(s) == Len(s) - Leading(s)

\* What the old messages of s without text tell of that are left in t: they
\* may lose all their blocks.
Wordless(s, t) ==
  UNION {s[i].of : i \in {j \in Len(s) - Body(t) + 1 .. trim_end(s) : ~s[j].text}}

(***************************************************************************)
(* The model forgets by trimming only.  What a compression drops is in the *)
(* new summary, which carries on what the prior ones told; only a message  *)
(* without text that stays may lose what it told, and only a compression   *)
(* that drops no message may lose the prior summary.                       *)
(***************************************************************************)
OnlyTrimsForget ==
  [][counts'.compressions # counts.compressions =>
       Of(msgs) \subseteq Of(msgs') \cup Wordless(msgs, msgs')
         \cup (IF Body(msgs') < Body(msgs) THEN {} ELSE Summaries(msgs))]_vars

(***************************************************************************)
(* NOT a property of the code.  "No messages removed -- skipping LLM       *)
(* summary (nothing lost)" (agent_loop.rs 1370), but the prior summary has *)
(* been taken out of the list before (1347) and is not put back.           *)
(***************************************************************************)
NothingForgotten ==
  [][counts'.compressions # counts.compressions => Of(msgs) \subseteq Of(msgs')]_vars

\* The last min_messages messages, and the last TailTurns user messages if
\* there are more than that.
Recent(s) ==
  LET users == {i \in DOMAIN s : s[i].role = "user"} IN
  {i \in DOMAIN s :
     \/ i > Len(s) - MinMessages /\ s[i].role # "system"
     \/ /\ i \in users /\ Cardinality(users) > TailTurns
        /\ Cardinality({k \in users : k > i}) < TailTurns}

\* Message i has text, or is not trimmed.
Says(s, i) == s[i].text \/ i > trim_end(s)

(***************************************************************************)
(* Compression never takes the last messages (min_messages) or the last    *)
(* user turns (tail_turns): they are still messages of their own after it, *)
(* not part of a summary, and the very last message keeps every result     *)
(* whose call is beside it.                                                *)
(***************************************************************************)
RecentKept ==
  [][counts'.compressions # counts.compressions =>
       /\ UNION {msgs[i].of : i \in {j \in Recent(msgs) : Says(msgs, j)}}
            \subseteq Of(build_request_messages(msgs'))
       /\ LET last == Len(msgs) IN
          (msgs[last].role = "user" /\ last > 1 /\ msgs[last - 1].role = "assistant") =>
            Last(msgs').results = msgs[last].results \cap msgs[last - 1].uses]_vars

(***************************************************************************)
(* "Both directions", repair_tool_pairing: the log /compact leaves has no  *)
(* call without its result and no result without its call, even when the   *)
(* log had been rebuilt from a checkpoint, which drops the calls.          *)
(***************************************************************************)
CompactPairs ==
  [][counts'.compacts # counts.compacts =>
       \A i \in DOMAIN store' :
         /\ store'[i].uses \subseteq ResultsAfter(store', i)
         /\ store'[i].results \subseteq
              (IF i > 1 /\ store'[i - 1].role = "assistant" THEN store'[i - 1].uses ELSE {})]_vars

(***************************************************************************)
(* checkpoint_messages_to_store "preserves the session's own messages (the *)
(* trigger message) when present": opening a session whose run died loses  *)
(* nothing its log tells of.                                               *)
(***************************************************************************)
RecoveryKeepsLog ==
  [][counts'.recoveries # counts.recoveries => Of(store) \subseteq Of(store')]_vars
=============================================================================
