# OpenZen in TLA+

OpenZen is a desktop agent. A *conversation* (session) is answered by an *agent
run*, a loop that calls a language model, executes the tools the model asks
for, and saves its progress. Around the loop stand a registry of background
jobs, child agents, checkpoint files on disk and a store of conversations. This
directory holds specifications of those parts, the TLC instances that check
them, and TLAPS proofs about all eight. Paths are relative to the repository.

Contents: [inventory](#1-inventory), [modules](#2-modules-and-the-code),
[runs](#3-runs), [bounds and fairness](#4-bounds-and-fairness),
[proofs](#5-proofs), [disagreements](#6-where-code-and-documentation-disagree),
[what is not modelled](#7-what-is-not-modelled), [plan](#8-plan),
[how to run](#9-running-the-checks).

## 1. Inventory

The parts that carry the program's logic, the state each keeps, and the module
that models it. `PROJECT.json` lists every part, also the ones that stay out.

| part | source | state | operations | module |
|---|---|---|---|---|
| job registry | `crates/oz-core/src/jobs.rs`, `crates/oz-tools/src/job_bg.rs` | map of job records behind a mutex, an id counter per kind, an output ring per job | start, settle, read, cancel (one, an owner's, all), mark reported, prune | `JobRegistry` |
| session runs | `src-tauri/src/commands.rs`, `runner.rs`, `crates/oz-platform/src/bridge.rs` | five maps by session id, each behind its own mutex: running handles, detached handles, intervention queues, stop signals, statuses | send, regenerate/resume, reminder wake-up, IM message, stop, repair, the clean-up guard | `SessionRuns` |
| checkpoints | `crates/oz-core/src/checkpoint.rs` | one JSON file per saved turn, a write-ahead log | periodic save, save on stop, clean-up by two budgets, load latest, load best | `CheckpointStore` |
| subagents | `crates/oz-core/src/subagent.rs`, `src-tauri/src/subagents.rs`, `crates/oz-tools/src/{spawn_agent,send_message}.rs` | tables by child id (depth, turn limit, continuing), slots by parent, rows, stop signals, sidecar records | spawn in the foreground or background, continue, kill, stop cascade, dispose, restart | `Subagents` |
| agent loop, gates | `crates/oz-core/src/agent_loop.rs`, `quality.rs` | turn, reply, failure counts, questions, gate budgets, review, checkpoints | turn, attempts, tool phase, questions, gates, stop, pause | `AgentLoop` |
| transcript, compression | `agent_loop.rs`, `compress.rs`, `crates/oz-llm/src/message_format.rs`, `commands.rs`, `runner.rs` | the session's log, the run's message vector, the copy in the checkpoint | run, resume, compress, emergency compression, stop, fail, crash, recover, `/compact` | `Transcript` |
| model call | `crates/oz-llm/src/{mixin,retry,stream,session}.rs`, `agent_loop.rs` | active session and its age, attempt, stream parser, speculative calls | request, retry, fail-over, spring-back, stream, tool deltas, speculation | `ModelCall` |
| session store | `crates/oz-server/src/webui/sessions.rs` | a map behind a lock, a persist cache, a writer thread, one file | create, update, delete, prune, list, recover, save, write, reload, restart | `SessionStore` |
| job notices, reminders | `crates/oz-tools/src/jobs_tool.rs`, `src-tauri/src/lib.rs` | pending notices, intervention queues | job_output, job_kill, completion notice | planned |
| approvals, trust | `crates/oz-safety`, `src-tauri/src/approval.rs` | pending approvals, trust levels | request, answer, time out | planned |
| memory jobs | `crates/oz-core/src/memory_job.rs` | queue with leases and retries | submit, drain | planned |
| event bus | `crates/oz-server/src/webui` | replay buffer | publish, replay | planned |

How they interact:

- A start command (of the desktop, a reminder, or an IM bridge) passes a gate
  on `running_agents`, spawns a *wrapper* task, which spawns the *run*, and only
  then files the wrapper's handle. The run registers its intervention queue and
  its stop signal in the shared maps when it gets to them.
- The run is `run_agent_loop`. Every turn it compresses the message vector if it
  must, asks the fail-over client for an answer, executes its calls, and, when
  the reply asks for none, passes a series of gates, each of which may send it
  back for another turn.
- The answer arrives as a stream. Read-only calls complete in it are executed
  ahead of the tool phase.
- The run calls tools. `code_run` and `spawn_agent` may start background jobs in
  the registry, whose settlement tasks later announce the end to a listener.
- `spawn_agent` runs a child as a run of its own under a fresh session id. In
  the foreground it is a future inside the parent's tool call, and dies with it.
- The loop awaits its checkpoint saves on the blocking pool. What a run said is
  written into the session store when it ends; every operation of the store
  hands a snapshot to one writer thread. Other processes write the same file.
- Stop raises a stop signal, cancels the session's jobs, signals its direct
  children, waits ten seconds for the handle to go, and detaches it if it does
  not.

What is hard here: every map has its own lock, so each command is a sequence of
critical sections with other commands in between; handles, signals and queues
are filed by *session id*, so an old run's clean-up can meet a new run's
entries; futures are dropped at an await, so what follows the await does not
happen; the process can die between two file operations; settlement, cancel
and read of a job race; a stream can break after part of it was shown and
executed; a conversation exists in three copies that are converted into each
other; budgets are compared before, not between, their increments. The list
under `hazards` in `PROJECT.json` has each at its line.

What correctness means, per part:

- **jobs**: one terminal status per job and it is the honest one; the end is
  announced once, and always; no output is lost or shown twice.
- **session runs**: a run at work is never forgotten by the map that Stop and
  the gate look at; a loop that was entered gets to persist; Stop frees the
  session; a detached run hears of the Stop, and a superseded one does not go on
  beside the new one (the code keeps neither: section 6).
- **checkpoints**: whatever happens, resume finds at least the last save that
  was completed, and offers it.
- **subagents**: slots balance; depth is capped; a child has one loop; a cancel
  is heard; a stop ends the tree.
- **agent loop**: a run ends, within its budgets, and says honestly how: a stop
  leaves a checkpoint, a defect a note.
- **transcript**: every request is well formed for its provider, what a run knew
  is forgotten by trimming only (section 6), the newest turns stay messages of
  their own.
- **model call**: what one attempt shows comes from one request and is what the
  loop gets, its tools run once and no others do, and a client that works is kept.
- **session store**: what was saved gets written, the file is whole, and reading
  it again takes nothing back.

## 2. Modules and the code

One action is one critical section of a mutex, one file operation, or one step
of a task between two awaits. `PROJECT.json` maps each definition to its lines.
Definitions introduced by "Mutation" or "Mutant" are deliberately wrong
variants of the definition that follows them; no specification uses them. They
record which mistake each property is able to see.

**`JobLifecycle`** is the abstract promise about a job record: created running,
perhaps asked to stop, one terminal status, perhaps forgotten. A job asked to
stop cannot end as completed, a job nobody asked cannot end as killed.

**`JobRegistry`** models `jobs.rs` with both producers. `start()` is four steps
(`NextId`, `RunStarted`/`RunRefused`, `Insert`, `EmitStarted`) because the
producer works before its record exists. The settlement task is `Settle` (under
the lock: final status, drain of the cursor into `pending_final`) and
`EmitFinished` (after the lock). `cancel` marks under the lock and calls the
hook outside it (`CallCancel`). `read`, `mark_reported`, `prune`, the output
ring (`push`) and the endings of the two producers are actions. A chunk of
output is a number, so a place that holds output is a set. `delivered`,
`dropped`, `settledAt` and `events` are history: what an observer saw. No code
calls `prune` at present; the model calls it at any time, as its contract
allows, for records whose announcement is done.

**`SessionRuns`** models how runs are started, stopped, detached and cleaned up.
A start command is a program of critical sections (`Program`), so two commands
interleave at exactly the points where the code releases a lock. The wrapper
(`outer`), the run (`inner`), the guard's drop (first its own handle, then the
other maps, by session id), `stop_session` with its ten seconds, and the lazy
repair in `list_sessions` are actions. Aborting a desktop handle reaches the
wrapper only, as `JoinHandle::abort` does; an IM run is a single task and is
dropped inside its loop. `unseen` is history: which commands were past the gate
when a run was filed. The child cascade of `stop_session` is in `Subagents`.

**`CheckpointStore`** models the files of one conversation. A snapshot is its
turn and a stamp. A save is truncate, write, remove log, re-append, append,
count budget, byte budget; the process may die between any two, a file
operation may fail, and a crash may leave a log that was created and never got
its header, which every later open refuses. File names are compared as strings
(`Before`), with the turn padded to a fixed width and longer beyond it.
`load_latest` and `load_best` are the two readers; `Resume` uses the first to
decide and the second to continue, as the code does. `saved` and `peril` are
history: the last save that kept its snapshot, and the risks the save in
progress runs. Crashes are deaths of the
process: what was written before is there. Power loss is another matter; the
code never syncs and promises nothing about it.

**`Subagents`** models delegation. A *call* is one run of a child: fresh in the
foreground, fresh as a background job, or one more message to a child that
exists. Its `step` is its position in `run`/`continue_child`/`run_child` and in
the guard's clean-up. `Drop` is the parent's loop dropping the tool future,
with everything below it. `Stop` signals the jobs and the registered direct
children of a conversation; `Kill` is `job_kill`; `Restart` is a new process
and `mark_interrupted_children`.

**`AgentLoop`** is one run of `run_agent_loop`. Its `pc` is the place in the
loop: the top of a turn, the stream, the tool phase, the wait for an answer,
then the gates in the code's order (the exit gates, the generated assertions,
the assertion rounds, the review, the diff check) and the end of the turn. A
call is its `failure_key`, one slot of the reply; slots run in parallel, and
the failure count a slot is refused by is read when it is dispatched. The model
is the environment: any reply, any outcome, any verdict, including the forms of
a reviewer's answer that `parse_review_response` takes apart. `Stop` and
`SendPause` happen at any time and are read where the code polls them.
`Save` writes the checkpoint, and `best` is what `load_best_loop_checkpoint`
would pick afterwards. The judge of the goal mode is left out.

**`Transcript`** follows the message list. A message is its role, the ids of
its tool_use and tool_result blocks, and the *events* it tells of; an event is
a user's message or one turn of the model. `Drop`, `Trims` and `Cuts` are
`compress_messages`; `InsertSummary`, `TurnSummary`, `EmergencyCompress` and
`Compact` are its callers. `Cut` takes blocks out of a message: one with text
keeps it, if shortened, and still tells of its events; one without text tells only
of the events it has a block of. `fix_messages` and `msgs_claude2oai` are the two
request formats, `build_request_messages` the repair before each request.
`StartRun`, `Resume`, `Stop`, `Fail`, `Finish`, `Crash` and `Recover` convert
between the log, the vector and the checkpoint. Whether the token budget is
exceeded is a free choice, and a summary tells what it was asked to.

**`ModelCall`** is one turn's question: the loop's attempts, the fail-over
client's hops and its spring-back, the retries of one request, and the parser.
A session either speaks chat completions with thinking tags in its text, or
streams Claude's blocks, or cannot stream and replays its answer. `shown` and
`kept` are the pieces of text and of thinking the user has seen and the parser
returns; a piece is its place in the stream. `OaiTag` and `OaiEndTag` are the arms
of the tag parser: an end tag is the last of the thinking when its delta opens the
same tag again, and begins the text otherwise. Calls complete in the
stream enter `ready` (the channel) and then `pending`; `Receive` executes them
into `cache`, and `NextTurn` is the tool phase that looks there first.

**`SessionStore`** is the map with its operations (each ends in `Save`), the
persist cache that compares a fingerprint (revision, status, label) and reuses
the entry it has when the fingerprint is the same, the channel, the writer
(`Take`, `Fill`, `RenameTmp`), the listing that reads the file again when its
time is newer, the recovery of ghosts, the end of the process with or without
its writer drained, and a second process that saves its own map to the same
file.

`MC*` modules only add symmetry sets and, two of them, named constraints
(section 4).

## 3. Runs

| run | instance | checks |
|---|---|---|
| `job_registry` | two owners, one command, one child agent, two chunks, a ring of one | `TypeOK`, `AnnouncedOnce`, `StopIsHonest`, `OutputConserved`; that the registry implements `JobLifecycle`; and `EveryEndIsAnnounced`: a producer that ended, and a job that was asked to stop, is announced |
| `session_runs` | one session, any two of regenerate/resume, reminder, IM, one stop | `TypeOK`, `NeverForgotten`: the entry of a run at work is cleared only into the hands of a Stop, never by an older run's guard, and overwritten only by a command that was past the gate before the run was filed |
| `run_liveness` | one session, two sends, one stop | `EveryRunPersists`, `StopFreesSession` |
| `checkpoint_store` | periodic and stop-path saves, turns beyond the padded width, three crashes and one failing operation | `TypeOK`, `Recoverable`, `ResumeOffered` |
| `subagents` | foreground and background, three calls, depth two, one slot | `TypeOK`, `SlotsBalanced`, `DepthCapped`, `CancelIsHeard` |
| `subagent_stop` | foreground and continuations, three calls, depth two, two slots | `OneLoopPerChild`, `BudgetSpentOnce`, `StopEndsTree` |
| `transcript` | two runs, replies with a well-formed and a malformed call, compressions, a stop, a crash, a recovery, a `/compact` | `TypeOK`, `OaiPaired`, `OnlyTrimsForget`, `RecentKept`, `CompactPairs` |
| `agent_loop` | three turns, replies of two calls, every gate, questions, a stop, a pause | `TypeOK`, `SendBacksBounded`, `StopSaved`, `TriesBounded`, `DefectsNoted`, `RunEnds` |
| `model_call` | three turns through three sessions of different kinds, two calls per answer | `TypeOK`, `NoOutputTwice`, `SpeculationFaithful`, `ShownIsReturned`, `StickyFailover` |
| `session_store` | two conversations, two changes, one restart, one save by another process | `TypeOK`, `SavedIsWritten`, `DiskWhole`, `ReloadKeepsSaved` |
| `lost_stop` | two sends, one stop | violates `DetachedIsStopping` |
| `checkpoint_rerun` | two runs of a conversation, no fault | violates `Recoverable` |

The last two are the first two disagreements of section 6. In the passing runs
what is left out is part of the statement: `Recoverable` holds for one run of a
conversation under any crashes and failures as long as no save runs two of
three risks at once (`peril`): its turn was saved before or its name is out of
order (`OutOfOrder`); an earlier fault left the last snapshot in one place only
or the log unusable (`~Doubled`); one of its own writes fails. With two of them
it does not hold (section 6), and it does not hold for a second run. `OneLoopPerChild` and `DepthCapped` hold without the
combination of background children and continuations. `NeverForgotten` excepts
the window the gate leaves open: a command let through before a run was filed
may overwrite its handle. `EveryRunPersists` asks nothing of a run whose wrapper
a newer run aborted (what becomes of it is item 3 of section 6). `OnlyTrimsForget` is
checked with summaries that succeed (`Lossy = FALSE`); with a summary model that
fails, the template that stands in does not repeat the prior summary. It names the
two losses the code has even so: blocks trimmed from an old message without text,
and the prior summary of a compression that drops no message. `ReloadKeepsSaved` and
`SavedIsWritten` speak of files no other process wrote over. `RecentKept`
protects the last user turns only when there are more than `tail_turns`, and
messages that have text or are too new to be trimmed.

Deadlock is not checked: a registry with every job settled, a session with no
run, a process that is not saving, a run that is over, may rest; and the bounds
below end every behaviour.

## 4. Bounds and fairness

Bounds are constants named `Max...`; each appears in a guard.

- *Jobs*: ids of one kind do not interact except through `cancel_owner`,
  `cancel_all` and `prune`, which take sets; one id of each kind and two owners
  meet in all of them. Two chunks and a ring of one make the ring overflow.
- *Session runs*: the races are between an old and a new run of one session;
  two runs and one stop show each of them, with a limit of one that the same
  session fills. Sessions meet only in the limit.
- *Checkpoints*: two kept files and seven saves make both budgets delete;
  three crashes make a crash while recovering from a crash, and the failure may
  come before, between or after them. The file name's width is scaled from three
  decimal digits to two binary ones, and the turns go to the last one with
  three. Two failures were checked once, with the same result (12 million
  states).
- *Subagents*: three calls are parent, child and grandchild, or a child with
  two continuations at once; depth two is the first in which a stop has to pass
  through a child that is not signalled; one slot makes refusals common.
- *Agent loop*: every budget is scaled to one, so that it is met and exceeded
  within three turns; a reply is stuck after two empty ones (ten in the code).
  `Narrow` confines parallel calls, failing streams and pauses to the first
  reply, since later ones repeat them.
- *Transcript*: five events are two user turns with replies, enough for a tail
  of two, a minimum of four messages and a second compression to remove the
  first one's summary. `FewSurprises` allows two of compression, crash and
  `/compact`, or one message in between, in one behaviour, and two compressions
  in one run only. A compression takes any blocks out of one old message
  (`MaxTrimmed = 1`); replies and results carry no text beside their blocks
  (`Texts = {FALSE}`), so that a message can be left empty. Two trimmed messages
  and both kinds of text are covered by the proofs.
- *Model call*: three sessions, one of each kind, two hops beyond the first, one
  retry, a window of one tick, three turns: fail over, spring back and fail over
  again. An answer has up to three pieces (`Pieces = 3`): text, thinking, and text
  after the end tag.
- *Session store*: two conversations are the file of one and the map of both;
  two changes with a queue of one make a snapshot wait behind the one that is
  being written; one restart and one foreign save put either at any point.
- Symmetry is used for interchangeable owners, child ids and conversations, in
  runs without liveness properties only.

Fairness, always weak, of steps the runtime or the operating system makes:

- spawned tasks are polled (settlement, wrapper, run, host, guard);
- a job told to stop ends: the process group gets SIGKILL after a grace period
  and the pipes are drained for five seconds at most; a child agent's turns are
  bounded. A command nobody stops may run for ever, and no fairness says
  otherwise;
- a session's loop returns, since its turns are bounded (`RunEnds` of
  `AgentLoop`); `stop_session` polls for ten seconds and then goes on;
- in `Subagents` a loop need not end by itself. It ends once its signal is
  raised and no tool is under way, and a loop told to stop drops the tool it
  waits for (`agent_loop.rs` polls the signal every 100 ms beside the tool);
- in `AgentLoop` the task keeps running: streams end (the hang timer), calls
  end (the tool's timeout), and the wait for an answer polls the stop flag.
  Nobody has to answer, and the wait's own timeout is not relied on.

Nothing is assumed of the user: no fairness on commands, answers, stops or kills.

## 5. Proofs

Eight modules hold proofs, for every value of the constants that satisfies the
modules' `ASSUME`s (bounds are natural numbers, limits are positive where the
code's are).

| module | theorems | what they state |
|---|---|---|
| `JobRegistryProofs` | `TypeCorrect`, `AnnouncedOnceHolds`, `StopIsHonestHolds`, `OutputConservedHolds`, `ImplementsLifecycle` | the registry's safety, and the refinement of `JobLifecycle` |
| `SessionRunsProofs` | `SessionTypes`, `NeverForgottenHolds` | the registration of runs |
| `CheckpointStoreProofs` | `TypeCorrect`, `ResumeOfferedHolds`, `RecoverableHolds` | resume is offered, and finds the last save |
| `SubagentsProofs` | `TypeCorrect`, `SlotsBalancedHolds`, `BudgetsApartHolds`, `BudgetSpentOnceHolds`, `OneLoopPerChildHolds`, `CancelIsHeardHolds`, `DepthCappedInBackground`, `DepthCappedInContinuations` | slots, budgets, loops, cancels and depth of children |
| `AgentLoopProofs` | `TypeCorrect`, `SendBacksBoundedHolds`, `StopSavedHolds`, `DefectsNotedHolds`, `RepliesBoundedHolds`, `TriesBoundedHolds` | the budgets and the honesty of a run |
| `ModelCallProofs` | `TypeCorrect`, `NoOutputTwiceHolds`, `SpeculationFaithfulHolds`, `StickyFailoverHolds`, `ShownIsReturnedHolds` | what one attempt shows and returns, its own tools, a client that is kept |
| `SessionStoreProofs` | `TypeCorrect`, `SavedIsWrittenHolds`, `DiskWholeHolds`, `ReloadKeepsSavedHolds` | the way from memory to the file and back |
| `TranscriptProofs` | `TranscriptTypes`, `RequestsArePaired`, `OnlyTrimsForgetHolds`, `CompressionKeepsRecent`, `CompactLeavesPairs` | what a request holds, and what compression leaves |

Hardly one of the properties is inductive. The strengthenings:

*Registry.* That an end is announced once needs to know how far `start()` and
the settlement task of each id got: `PhaseInv` ties `phase` to the existence
and status of the record and to the number of announcements, and with `TypeOK`
it is inductive. `StopInv` adds that a live record says "stopping" exactly when
its hook is on its way or was called, and that a command reports "killed" only
when told to; without it a settlement that follows a mark could be completed.
`OutputInv` adds that the cursor is attached exactly while the record is live,
and that no place holds a chunk that was not written; then each push, read and
settlement moves chunks between disjoint places. The refinement maps a record
to its status, an absent one to "none" or "gone" by its phase, and each step to
a legal move or a stutter (`LifecycleStep`).

*Session runs.* The action property rests on `TypeOK`, on `RunInv` (wrapper
and agent exist only once the command is under way, and an IM run has no
wrapper) and on `UnseenInv`: a command past its gate while another run of the
session is filed was there before that run was filed, because the gate refuses
a session with an entry and the bridge empties it. The steps that touch an
entry are the guard of the run itself, whose wrapper is then past its work, the
bridge's replacement, which aborts what it takes, the time-out of a Stop, which
holds the handle, and the filing of another run.

*Checkpoints.* The order of file names is a number (`Place`), so the first and
the last of a set of names are a least and a greatest member, which the
well-foundedness of `<` gives. `Offered` says where the newest snapshot is
while a save goes on, as long as nothing failed. `Ahead` says more for periodic
saves: in which of file, log and carried record the last completed snapshot is
at each step of the next save, that no earlier file places later, and that the
clean-up spares it. `RecoverableHolds` assumes one run, periodic saves, any
number of crashes, no failing operation and turns that fit the file name: the
remaining combinations are TLC's, or are false (section 6).

*Subagents.* `SlotsBalanced` counts: the slots taken of a session are the
cardinality of the calls that hold one (`Holders`), and every step moves one
call in or out. `BudgetsApart` needs that a turn limit belongs to a call
that is still waiting to begin (`Waiting`), or has been taken (`Spent`);
`BudgetSpentOnce` adds that a waiting budget is that of the call that made the
child, whose loop never began (`Unbegun`), and that this call is over when
another loop gets it (`Heirs`): it leans on `OneLoopPerChild`'s invariant and,
like it, assumes that there are no background children. `OneLoopPerChild` needs that a fresh child has one call (`FreshAlone`), that a
continuation at work is marked (`Marked`) and is one (`OneContinuation`).
`CancelIsHeard` needs that the
registered signal is that of the child's only call and is polled by it
(`SignalOwned`, `Registered`, `Polled`); it assumes that there are no
continuations.

`DepthCapped` speaks of the real nesting of calls (`Nesting`), the code only
of a number per child id that it hands down (`given`). `Deep` ties the two: a
caller is numbered before its callee (`InOrder`) and had the row and the depth
entry of its child when it called (`Called`, `RowOwned`, `DepthKept`), so that a
call is given one more than its caller (`Handed`, `Deeper`). `WaitsFor` adds
that a foreground call lives only as long as its caller waits in it. There are two theorems, for trees
without continuations and for trees without background children. With both,
`RowOwned` and `DepthKept` are false: the guard of a background child forgets
row and depth after a continuation has published them anew, and `DepthCapped`
fails with them (section 6).

*Agent loop.* `Budgeted` relates the continuations that were counted, the
one-shot gates and the rounds to the place in the pass, so that two increments
in one pass stay below the limit. `Reasoned` gives a run a reason only where it
ends. `Answerable` is the argument for honest notes: a review that failed or
could not judge, and left no note, is the first one, of files that are still there,
and then no exit has passed the review since. (A second review that never answers
changes the status, so the theorem says nothing of the first one then.) `Paid`
bounds replies by turns and refunds. `Retrying` counts: while a call that is not
read-only is not refused its executions are at most its counted failures and the
slots of the present reply; none of them ran ahead of it.

*Model call.* `Lane`: when a request follows another one in the same turn the
earlier one has emitted and queued nothing, because only a request that failed
before its stream is followed by another hop while the run streams; and what is
queued belongs to the request in progress (`Own`). `Remembered`: the last
answer's session and age are those of the fail-over state, unless the primary
answered. `Display`: a chunk session has shown what it keeps, for which the
thinking block must be open under a tag; a block session has shown what it keeps
and the part of the one block that is open.

*Session store.* `Pipe`: the persist cache holds what was saved last, and so
does the end of the channel, or else the writer's hands, or else the file,
unless the last write failed or another process interfered (`Interference`).
`ReloadKeepsSaved` follows because listing reads only when nothing is on the
way.

*Transcript.* `Sound` is inductive: log, vector and checkpoint hold messages the
code can make (`Proper`: only assistants call, only users carry results), the
vector of a run at work begins with the system prompt (`Begun`), the system
messages of log and vectors come first (`Orderly`), and the registers have their types.
The lemmas under it say what each conversion does to a message list: which
messages survive (`Only`), that a survivor has at most the blocks it had
(`Less`), that emergency compression and history keep the order.

- `RequestsArePaired` is about every vector, not only reachable ones. The
  request is laid out piece by piece (`Laid`), one piece for each message. The
  calls that have no result in the next message are answered within their own
  piece, the others at the head of the next one; together that is one block of
  results directly after the call (`Block`), and every result is in one.
- `OnlyTrimsForgetHolds` follows each message of the vector through one
  compression (`Remembers`). How many messages went is read off what follows the
  system messages (`Body`), which takes that a vector, too, has its system
  messages first (`Orderly`). It assumes `~Lossy`.
- `CompressionKeepsRecent` compares places before and after: the messages
  removed are the first ones after the prompt, fewer than would reach the tail.
  It assumes `MinMessages >= 3` (the code's only configuration has 8,
  `compress.rs` 59). With two, the first message left could be the one whose
  call the last one answers, and sanitizing the head would take its result.
- `CompactLeavesPairs`: the repair looks at neighbours, and what it is given has
  its system messages at the head (`Orderly`), so that no summary stands between
  a call and its results.

`IsFiniteSet(Calls)` is assumed of the calls one reply can make; without it the
number of results in a block means nothing.

Some of these are inductions over data: a fold lays out a request, a recursive
function is the nesting of calls. The installed provers cannot instantiate the
library's induction rule, so these proofs take the least counterexample
instead (`LeastOf`, from the well-foundedness of `<`), and the recursive
functions are shown to be well defined first (`FlattenDefined`,
`NestingDefined`).

Only model-checked: `Recoverable` and `CancelIsHeard` where the assumptions above
exclude them and they are not false; and the liveness properties
(`EveryEndIsAnnounced`, `EveryRunPersists`, `StopFreesSession`, `StopEndsTree`,
`RunEnds`), since the prover has no rules for fairness and `ENABLED`.

## 6. Where code and documentation disagree

Two have a run whose counterexample TLC prints:

1. **`lost_stop`**: a run registers its stop signal only after it has loaded
   configuration, memory and tools, but its handle is filed at once. A Stop
   in between raises nothing, waits ten seconds, and detaches a run that loops
   on a signal nobody raised, where the comment says that "the task will finish
   naturally when stop_signal takes effect". The same property fails without
   that window: the guard of an older run of the session removes the signal a
   newer run has registered (hazard H4 of `PROJECT.json`, the fourth of the
   list), and the Stop finds none.
2. **`checkpoint_rerun`**: each new message starts again at turn 0 beside the
   previous run's files, and the best checkpoint is the one with the highest
   turn: the old run's.

The following are stated in the modules as formulas that fail; add the name to
a configuration to see the counterexample:

3. `AbortedRunIsOver` (`SessionRuns`): a comment in `stop_running_agent` says a
   new run aborts a detached one "so two agents can never write the same session
   concurrently". The abort reaches the wrapper; the agent inside is a separate
   task and goes on. With the constants of `lost_stop` the counterexample is a
   send, a Stop that times out, and a second send.
4. `OneLoopPerChild` with background children and continuations: a message to a
   background child that is still running starts a second loop of it; the guard
   excludes only a second continuation.
5. `BestIsNewest` (`AgentLoop`): the checkpoint of an unanswered question has
   the turn it then gives back, so what the run saves next has a lower turn and
   a resume starts from the older one.
6. `HonestNote` (`AgentLoop`): the last check of the assertions is one-shot. A
   run that is sent back after it and breaks an assertion again is delivered
   without a note, where the comment promises that the final reply "honestly
   states unverified state".
7. `ClaudePaired` (`Transcript`): a run that was sent back after `respond` keeps
   the result of a call whose use was not recorded; the Anthropic form of the
   next request has a result without its call.
8. `RecoveryKeepsLog` (`Transcript`): a crash before the first checkpoint of a
   run is recovered from the checkpoint of an older run, and the log is rebuilt
   without what came after it.
9. `DepthCapped` with background children and continuations: a message reaches a
   background child whose run is just ending. The continuation publishes its
   depth, then the guard of the ended run forgets it, and the children of the
   continuation are counted from depth one again, below the "hard cap on
   delegation depth" (`subagent.rs` 14). Two children, three calls of all three
   kinds and `MaxDepth = 1` show it in 21 states.

In `compress.rs` 336 a comment says "fewer turns than the tail → nothing to
drop", but `keep_start` is then the length of the list, and everything older
than `min_messages` may go, user turns included: with two long turns the first
user's message is dropped. `RecentKept` therefore promises the last
`min_messages` messages always, and the last user turns only when there are
more than `tail_turns` of them.

Other behaviour the models reach, or that was met in reading the code, worth
knowing and attached to the hazards in `PROJECT.json` where it is one:

- *Session runs.* Two start commands of a session may both pass the gate,
  because the handle is filed after the gate's lock was released; the second
  handle overwrites the first. The handles of
  finished IM runs, and of a run that ended before its handle was filed, stay in
  `running_agents`, count against the limit and refuse further messages until a
  Stop. A send refused at the gate has already stored Running; the next listing
  of sessions repairs it.
- *Checkpoints.* After a crash during compaction the JSON file is the only copy,
  and a stop in the same turn truncates it before writing it again: a second
  death there loses it. Past turn 999 the newest file no longer sorts last, and
  the count budget deletes it (the log still has it, unless it is unusable, and
  then the snapshot is lost; `NewestKept` states the property with its
  condition). A log record of the same turn wins over the file: when a stop
  rewrites a turn and its log record cannot be written, the older one is taken.
  `NeverRewound` (`Recoverable` without its condition) fails over these three. When
  the last file is torn and the log gone, `resume_session` says there is no
  checkpoint although `load_best` would find one.
- *Subagents.* A background child killed before its signal is registered is not
  stopped, although its id is chosen early "so the tool can cancel a background
  child before the host has even started it". Turn budgets "are cleared by the child
  guard so a reused id cannot inherit stale state" (`subagent.rs` 182-183):
  `ChildGuard::cleanup` (`subagents.rs` 426-447) does not touch `TURN_LIMITS`. A
  child that fails, or is dropped, before its loop leaves its budget to the next
  continuation: `BudgetIsOwn` states the promise and fails in the instance of
  `subagent_stop` (spawn, drop, clean-up, `send_message`, loop under the first
  call's limit); `BudgetSpentOnce` says how far it goes. The guard forgets depth by
  child id, also the depth of a continuation just published. A foreground child
  that is dropped keeps a sidecar that says running until the next start of the
  application.
- *Agent loop.* A comment says runs finish in three ways (3859-3862); the
  branch of `CURRENT_TASK_DONE` (3871-3905) cannot be reached. Interventions
  behind a pause in the queue are dropped. "The 4th call is refused"
  (2688-2691) is not true of parallel calls, which read the count together, and not
  at all of the read-only calls that run while the reply is streamed (1502-1547):
  nothing looks at their count, and their result is taken before the gate
  (2247-2258), so a failing one runs again with every reply. `FourthRefused` states
  the comment of every call, and fails (one read-only call, two replies of two).
  When the first review finds a defect and the second never answers (4240-4253), the
  delivery has no note and does not mention the defect; its row says that the review
  was unavailable. A run that is out of turns saves no checkpoint at its end.
- *Transcript.* A compression that drops no message skips the summary with
  "nothing lost" (`agent_loop.rs` 1370), but it has taken the prior summaries out of
  the list (1347) and does not put them back: two compressions of a run, the second
  of which only trims, lose what the first had dropped, with a summary model that
  never fails (`NothingForgotten` fails over it). "Pure trimming (Phase 1/2) keeps
  the content in the conversation" (1355) is not true of a tool block over the
  budget, which is dropped whole (`compress.rs` 418-446).
- *Model call.* A Claude stream cut inside a block has shown text that is not in
  the answer. Text between a closing thinking tag and another element of the same chunk
  goes to the thinking (`stream.rs` 695-735). An end tag that comes alone is shown
  and kept as text (757-780, then 736-755), where the comment at 632-636 says such
  markers "never render to the user": it is left to each front end to strip it. When the loop retries a turn after a broken stream, the
  log holds both attempts' text. The path without streaming does not poll the
  stop flag between attempts.
- *Session store.* The temporary file has one name for all processes, and two
  that write it at once can tear the file; `DiskWhole` excludes exactly that.
  The row of a child (`subagents.rs` 241-270) is not saved when it is made and
  is lost if a listing reloads. The web interface and the terminal never reload,
  so a save of theirs erases the desktop's newer sessions; a listing also
  recovers, as idle, the sessions another process is running. A failed write is
  dropped without a word and counts as written. Eviction above 500 happens at
  start only, is not saved, and is undone by the first reload.
- *Approvals* (not modelled). The store of the dialog keeps the decision that
  could not be sent "so 'retry' re-sends the SAME answer instead of guessing (a
  failed deny must not become an allow)" (`approval.ts` 50-51), but not the
  request it was for, and no button is disabled while an answer is on its way.
  The second of two quick clicks fails as "not found" when the dialog already
  shows the next request, and Retry then sends that decision for the next one.
  The dialog of a request that was stopped or timed out can not be closed (every
  answer fails), and what queues behind it is never shown.
  "No longer ask for this type of operation in this session" counts one
  approval; asking stops at the third, and the set it is kept in lives as long
  as one run. Each run loads its own copy of `trust.json` and writes all of it,
  so two runs that save erase each other's entries, a block included.
- *Notices* (not modelled). A notice pushed into the queue of a run whose loop
  has just ended is lost. A job read by `job_output` after its notice was queued
  is told twice. A reminder that meets a run with a handle and no queue reports
  that it intervened, and nothing was queued.

## 7. What is not modelled

Of the modelled parts: the purge of the depth table beyond 128 entries, child
labels and the warm cache (it holds what the sidecar holds); the pruning of
checkpoints of deleted sessions; ids that are prefixes of each other; what a
run says to the model; a message whose blocks fill the trimming budget to the last
character, so that no text is left of it; token counts, which are a free choice; the judge of the
goal mode, statistics, prompt assembly and memory recall of a run; payloads,
prices and caching hints of requests; the smart router; eviction from the
session store. Wall-clock times appear only as "later".

Of the rest of the system: user interfaces, pattern tables of the safety guard,
configuration and import, the browser driver and the vendored memory engine
have no protocol for a model checker to explore, or are not this program's
code. Most single tools are one call into a file, a process or the network.
They are most of the lines of the repository; the share of it the modules map
is small for that reason. Notices, approvals, memory jobs and the event bus do
have a protocol, and are in the plan.

## 8. Plan

Modules, in order:

1. `JobNotices`: what settlement does with its announcement. The listener
   pushes a notice into the queue of a live run or parks it for the next;
   `job_output` marks a job reported. Properties: a completion is told at least
   once, and not again after the model has read it. Composes `JobRegistry`'s
   events with `SessionRuns`' queues; reminders use the same queues.
2. `Approvals`: request, answer, time-out and stop on one pending entry, the
   dialog with its queue and its retry, the trust of a run and its counted
   denials.
3. `MemoryJobs`: queue, lease, retry and the duplicate check against the job
   that is running.
4. The replay buffer of the event bus, and eviction in `SessionStore`.
5. In `CheckpointStore`: purge and garbage collection of other sessions' files.

Proofs: `Recoverable` with failures and with the stop path; the safety of
`JobNotices`; an abstract specification of a run (start, turn, end) that
`SessionRuns` and `AgentLoop` can both be read against.

## 9. Running the checks

In this directory:

    tlc -workers 2 -config MCJobRegistry.cfg MCJobRegistry
    tlapm JobRegistryProofs.tla

The configurations, their modules and what to expect are in `PROJECT.json`
under `runs`. The longest runs take three to five minutes with two workers.
