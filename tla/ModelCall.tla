------------------------------ MODULE ModelCall -----------------------------
(***************************************************************************)
(* One turn's question to the model and everything that is done to get an  *)
(* answer: the agent loop's attempts and its pre-execution of read-only    *)
(* calls (crates/oz-core/src/agent_loop.rs), the fail-over client          *)
(* (crates/oz-llm/src/mixin.rs), the retries of a request (retry.rs) and   *)
(* the parsers of the streams (stream.rs, and session.rs for a session     *)
(* that cannot stream and replays its answer).                             *)
(*                                                                         *)
(* An answer is a number of pieces of text and thinking, told apart by     *)
(* their place in the stream, and how far each of its calls got.  A step   *)
(* is one item of a delta: a piece, or a tag.  A tag that closes itself is *)
(* dropped, and a block starts without text.  Indices of calls are dense,  *)
(* as the provider gives them.  The values of texts, arguments and delays, *)
(* and the choice of tools a request forces, are left out.                 *)
(***************************************************************************)
EXTENDS Integers, FiniteSets, Sequences

CONSTANTS
  N,           \* sessions of the fail-over client; 0 is the primary
  Oai,         \* those that speak chat completions or responses
  Native,      \* those that stream Claude's blocks; the others replay
  Width,       \* bound: calls of an answer
  Pieces,      \* bound: pieces of an answer
  SendRetries, \* max_retries of a session, 4
  HopRetries,  \* retries of the fail-over client, 3
  MaxErrors,   \* llm_error_retries of the agent loop
  Window,      \* spring_back_secs, 300 s in the code
  MaxTurns     \* bound: turns

Sessions == 0..(N - 1)

ASSUME ModelCallAssumption ==
  /\ N \in Nat \ {0} /\ {Width, Pieces, Window, MaxTurns} \subseteq Nat
  /\ {SendRetries, HopRetries, MaxErrors} \subseteq Nat
  /\ Oai \subseteq Sessions /\ Native \subseteq Sessions /\ Oai \cap Native = {}

VARIABLES
  pc,        \* "ask", "send", "stream", "tools" or "over"
  streaming, \* stream_chat, or chat: the run has nobody to show events to
  turn,
  errors,    \* consecutive_llm_errors: which attempt of the turn this is
  active,    \* failover.0
  age,       \* time since failover.1, up to Window + 1
  base,      \* the session the call began with
  hop,       \* attempt of the fail-over client
  tries,     \* retries of the request
  tag,       \* in_thinking_tag
  open,      \* blocks with a Start and no End: "text", "thinking"
  pieces,    \* pieces received
  part,      \* those of current_block, a Claude parser's
  shown,     \* those sent as Deltas, in each kind of block
  kept,      \* those in what the parser returns
  calls,     \* the answer's calls: "none", "started" or "complete"
  ready,     \* the speculative channel
  pending,   \* pending_spec
  cache,     \* spec_cache: calls executed before the tool phase
  reply,     \* the calls of the answer returned
  emitted,   \* history: hops of this call that emitted events
  last       \* history: the session of the last answer, and its age

clientVars == <<active, age, last>>
requestVars == <<base, hop, tries>>
content == <<pieces, part, shown, kept>>
answer == <<tag, open, content, calls>>
lane == <<ready, pending, cache, reply>>
vars == <<pc, streaming, turn, errors, clientVars, requestVars, answer, lane, emitted>>

Blocks == {"text", "thinking"}
Index == 1..Width
Nothing == [b \in Blocks |-> <<>>]
CallIds == [err : Nat, hop : 0..HopRetries, index : Index]
None == -1

\* Mutant: the next sessions are counted on, not round.
CurrentUnwrapped == base + hop

\* attempt 0 asks the session of pick(), the next ones rotate.
Current == (base + hop) % N

Init ==
  /\ pc = "ask" /\ streaming \in BOOLEAN /\ turn = 0 /\ errors = 0
  /\ active = 0 /\ age = 0 /\ last = [by |-> None, age |-> 0]
  /\ base = 0 /\ hop = 0 /\ tries = 0
  /\ tag = FALSE /\ open = {}
  /\ pieces = 0 /\ part = <<>> /\ shown = Nothing /\ kept = Nothing
  /\ calls = [i \in Index |-> "none"]
  /\ ready = {} /\ pending = {} /\ cache = {} /\ reply = {} /\ emitted = {}

FreshAnswer ==
  /\ tag' = FALSE /\ open' = {}
  /\ pieces' = 0 /\ part' = <<>> /\ shown' = Nothing /\ kept' = Nothing
  /\ calls' = [i \in Index |-> "none"]

-----------------------------------------------------------------------------
(* The fail-over client                                                    *)

\* pick: back to the primary once the window has elapsed.
Pick == IF active # 0 /\ age > Window THEN 0 ELSE active

BeginCall ==
  /\ pc = "ask"
  /\ pc' = "send" /\ base' = Pick /\ hop' = 0 /\ tries' = 0
  /\ ready' = {} /\ emitted' = {}
  /\ FreshAnswer
  /\ UNCHANGED <<streaming, turn, errors, clientVars, pending, cache, reply>>

\* Mutant: the guard `f.0 != idx`, which leaves the time of the first switch.
RecordSuccessOnce ==
  IF active # Current THEN active' = Current /\ age' = 0
  ELSE UNCHANGED <<active, age>>

\* A backup refreshes the time whenever it answers.
RecordSuccess ==
  IF Current # 0 \/ active # 0 THEN active' = Current /\ age' = 0
  ELSE UNCHANGED <<active, age>>

Errors == {"request", "transient", "permanent", "silence", "stream"}

\* Mutant: whatever failed, the next session takes over.
AnySafeToFailover(e) == TRUE

\* "request" is RequestFailed, "transient" and "permanent" are HTTP errors,
\* the other two are StreamError.
SafeToFailover(e) == ~streaming \/ e \notin {"silence", "stream"}

GivesUp(e, overBudget) ==
  e = "permanent" \/ errors' > MaxErrors \/ (errors' > 1 /\ overBudget)

\* Mutant: what the failed attempt has queued stays queued.
AttemptFailsKeeping(e, overBudget) ==
  /\ errors' = errors + 1
  /\ pc' = IF GivesUp(e, overBudget) THEN "over" ELSE "ask"
  /\ UNCHANGED <<streaming, turn, clientVars, requestVars, answer, lane, emitted>>

\* The agent loop: an error that will not heal, too many of them, or from the
\* second one on too long a time, end the run; else the turn is tried again.
AttemptFails(e, overBudget) ==
  /\ errors' = errors + 1
  /\ pc' = IF GivesUp(e, overBudget) THEN "over" ELSE "ask"
  /\ pending' = {}
  /\ UNCHANGED <<streaming, turn, clientVars, requestVars, answer, ready, cache,
                 reply, emitted>>

HopFails(e) ==
  IF SafeToFailover(e) /\ hop < HopRetries
  THEN /\ pc' = "send" /\ hop' = hop + 1 /\ tries' = 0
       /\ FreshAnswer
       /\ UNCHANGED <<streaming, turn, errors, clientVars, base, lane, emitted>>
  ELSE \E b \in BOOLEAN : AttemptFails(e, b)

-----------------------------------------------------------------------------
(* The request                                                             *)

\* is_retryable, while retries are left.
SendAgain(e) ==
  /\ pc = "send" /\ e \in {"request", "transient"} /\ tries < SendRetries
  /\ tries' = tries + 1
  /\ UNCHANGED <<pc, streaming, turn, errors, clientVars, base, hop, answer, lane,
                 emitted>>

\* Only a streaming OaiSession waits for the headers against a timer of its own.
SendFails(e) ==
  /\ pc = "send" /\ e # "stream"
  /\ e = "silence" => streaming /\ Current \in Oai
  /\ e \in {"request", "transient"} => tries >= SendRetries
  /\ HopFails(e)

Headers ==
  /\ pc = "send" /\ pc' = "stream"
  /\ UNCHANGED <<streaming, turn, errors, clientVars, requestVars, answer, lane,
                 emitted>>

\* No chunk in time, or the body breaks off.
StreamBreaks == pc = "stream" /\ HopFails("stream")

-----------------------------------------------------------------------------
(* The stream                                                              *)

Emits == streaming /\ Current \in Oai \cup Native

Streams(sessions) ==
  /\ pc = "stream" /\ Current \in sessions
  /\ emitted' = IF Emits THEN emitted \cup {hop} ELSE emitted
  /\ UNCHANGED <<pc, streaming, turn, errors, clientVars, requestVars, pending, cache,
                 reply>>

\* One more piece.
Piece == pieces < Pieces /\ pieces' = pieces + 1

Added(blocks, b) == [blocks EXCEPT ![b] = Append(@, pieces')]

\* It is kept, and shown where a block is open for it.
Grow(b) ==
  /\ Piece
  /\ kept' = Added(kept, b)
  /\ shown' = IF b \in open' THEN Added(shown, b) ELSE shown
  /\ UNCHANGED part

\* Content, which a tag before it makes thinking.
OaiContent ==
  /\ Streams(Oai)
  /\ open' = IF tag THEN open ELSE open \cup {"text"}
  /\ Grow(IF tag THEN "thinking" ELSE "text")
  /\ UNCHANGED <<tag, calls, ready>>

\* A tag ends the text; thinking stays open to the end.
OaiTag ==
  /\ Streams(Oai) /\ ~tag
  /\ tag' = TRUE /\ open' = {"thinking"}
  /\ UNCHANGED <<content, calls, ready>>

\* Mutant: the text block the tag ended is not opened again.
OaiEndTagUnopened(again) ==
  /\ Streams(Oai) /\ tag
  /\ tag' = FALSE /\ UNCHANGED open
  /\ Grow(IF again THEN "thinking" ELSE "text")
  /\ UNCHANGED <<calls, ready>>

\* An end tag.  Where the delta has an opening of the same tag, again, it is the
\* last of the thinking; any other is the beginning of the text that follows.
OaiEndTag(again) ==
  /\ Streams(Oai) /\ tag
  /\ tag' = FALSE /\ open' = IF again THEN open ELSE open \cup {"text"}
  /\ Grow(IF again THEN "thinking" ELSE "text")
  /\ UNCHANGED <<calls, ready>>

\* reasoning_content, which tags do not matter to.
OaiReasoning ==
  /\ Streams(Oai)
  /\ open' = open \cup {"thinking"} /\ Grow("thinking")
  /\ UNCHANGED <<tag, calls, ready>>

\* A Claude block starts when none is open, and is kept when it stops.
Unopened == open = {} /\ \A i \in Index : calls[i] # "started"

ClaudeBlock(b) ==
  /\ Streams(Sessions \ Oai) /\ Unopened
  /\ open' = {b} /\ part' = <<>>
  /\ UNCHANGED <<tag, pieces, shown, kept, calls, ready>>

ClaudeDelta(b) ==
  /\ Streams(Sessions \ Oai) /\ b \in open
  /\ Piece
  /\ part' = Append(part, pieces')
  /\ shown' = IF Emits THEN Added(shown, b) ELSE shown
  /\ UNCHANGED <<tag, open, kept, calls, ready>>

ClaudeBlockStops(b) ==
  /\ Streams(Sessions \ Oai) /\ b \in open
  /\ open' = {} /\ kept' = [kept EXCEPT ![b] = @ \o part] /\ part' = <<>>
  /\ UNCHANGED <<tag, pieces, shown, calls, ready>>

Advance(i, to) ==
  /\ calls' = [calls EXCEPT ![i] = to]
  /\ UNCHANGED <<tag, open, content>>

CallStarts(i) ==
  /\ Streams(Sessions)
  /\ calls[i] = "none" /\ \A j \in Index : j < i => calls[j] # "none"
  /\ Current \notin Oai => Unopened
  /\ Advance(i, "started") /\ UNCHANGED ready

\* The arguments are a whole JSON value: ToolCallReady, or the block's stop.
CallCompletes(i) ==
  /\ Streams(Sessions)
  /\ calls[i] = "started" /\ Advance(i, "complete")
  /\ ready' = IF streaming /\ Current \in Oai
              THEN ready \cup {[err |-> errors, hop |-> hop, index |-> i]}
              ELSE ready

\* The calls a parser returns: an OaiSession's as far as they came, a Claude
\* session's that were stopped.
Returned ==
  {[err |-> errors, hop |-> hop, index |-> i] :
     i \in {j \in Index : \/ calls[j] = "complete"
                          \/ calls[j] = "started" /\ Current \in Oai}}

\* [DONE] or the end of the body, whether or not the answer looks finished:
\* open blocks are closed, a replayed answer is shown, and what is pending is
\* executed before the answer is looked at.
Answered ==
  /\ pc = "stream" /\ pc' = "tools"
  /\ RecordSuccess
  /\ last' = [by |-> Current, age |-> 0]
  /\ errors' = 0 /\ reply' = Returned
  /\ cache' = pending /\ pending' = {}
  /\ open' = {}
  /\ IF streaming /\ ~Emits THEN shown' = kept /\ emitted' = emitted \cup {hop}
     ELSE UNCHANGED <<shown, emitted>>
  /\ UNCHANGED <<streaming, turn, requestVars, tag, pieces, part, kept, calls,
                 ready>>

-----------------------------------------------------------------------------
(* The agent loop                                                          *)

\* ToolCallReady arrives, while the call lasts: queued if the tool only reads,
\* the guard allows it and the breaker has a token.
Receive(id, eligible) ==
  /\ pc \in {"send", "stream"} /\ id \in ready
  /\ ready' = ready \ {id}
  /\ pending' = IF eligible THEN pending \cup {id} ELSE pending
  /\ UNCHANGED <<pc, streaming, turn, errors, clientVars, requestVars, answer, cache,
                 reply, emitted>>

\* The hang timer drops the call, wherever it is.
Hang ==
  /\ streaming /\ pc \in {"send", "stream"}
  /\ \E b \in BOOLEAN : AttemptFails("silence", b)

\* The tool phase takes what it finds in the cache and executes the rest.
NextTurn ==
  /\ pc = "tools"
  /\ turn' = turn + 1 /\ pc' = IF turn' < MaxTurns THEN "ask" ELSE "over"
  /\ cache' = {} /\ reply' = {}
  /\ UNCHANGED <<streaming, errors, clientVars, requestVars, answer, ready, pending,
                 emitted>>

\* The stop flag, polled beside a stream.
Stop ==
  /\ streaming /\ pc \in {"send", "stream"} /\ pc' = "over"
  /\ UNCHANGED <<streaming, turn, errors, clientVars, requestVars, answer, lane,
                 emitted>>

Older(t) == IF t > Window THEN t ELSE t + 1

Tick ==
  /\ age' = Older(age) /\ last' = [last EXCEPT !.age = Older(@)]
  /\ UNCHANGED <<pc, streaming, turn, errors, active, requestVars, answer, lane, emitted>>

Client == BeginCall \/ (\E e \in Errors : SendAgain(e) \/ SendFails(e)) \/ Headers

Stream ==
  \/ OaiContent \/ OaiTag \/ OaiReasoning \/ Answered \/ StreamBreaks
  \/ \E b \in BOOLEAN : OaiEndTag(b)
  \/ \E b \in Blocks : ClaudeBlock(b) \/ ClaudeDelta(b) \/ ClaudeBlockStops(b)
  \/ \E i \in Index : CallStarts(i) \/ CallCompletes(i)

Agent ==
  \/ \E id \in ready, b \in BOOLEAN : Receive(id, b)
  \/ Hang \/ NextTurn \/ Stop

Next == Client \/ Stream \/ Agent \/ Tick

Spec == Init /\ [][Next]_vars

-----------------------------------------------------------------------------
(* Properties                                                              *)

\* Every variable has its type.
TypeOK ==
  /\ pc \in {"ask", "send", "stream", "tools", "over"} /\ streaming \in BOOLEAN
  /\ turn \in Nat /\ errors \in Nat
  /\ active \in Sessions /\ age \in 0..(Window + 1)
  /\ base \in Sessions /\ hop \in 0..HopRetries /\ tries \in 0..SendRetries
  /\ tag \in BOOLEAN /\ open \subseteq Blocks
  /\ pieces \in Nat /\ part \in Seq(Nat)
  /\ {shown, kept} \subseteq [Blocks -> Seq(Nat)]
  /\ calls \in [Index -> {"none", "started", "complete"}]
  /\ (ready \cup pending \cup cache \cup reply) \subseteq CallIds
  /\ emitted \subseteq 0..HopRetries
  /\ last \in [by : Sessions \cup {None}, age : 0..(Window + 1)]

(***************************************************************************)
(* "Rotation is only attempted while it is provably safe ... switching     *)
(* would duplicate partial output on the consumer's channel" (mixin.rs):   *)
(* the events of one call come from one of the requests made for it.       *)
(***************************************************************************)
NoOutputTwice == \A g, h \in emitted : g = h

(***************************************************************************)
(* "entries from a failed attempt are dropped on retry so a tool the final *)
(* response never references is never executed" (agent_loop.rs): what was  *)
(* executed ahead are calls of the answer the tool phase works on.         *)
(***************************************************************************)
SpeculationFaithful == pc = "tools" => cache \subseteq reply

(***************************************************************************)
(* record_success and pick: a backup that answered last is asked first     *)
(* until the window has elapsed since that answer, and the primary is      *)
(* again after that, however often it has failed in between.               *)
(***************************************************************************)
StickyFailover ==
  [][BeginCall => base' = IF last.by \in {None, 0} \/ last.age > Window THEN 0
                          ELSE last.by]_vars

(***************************************************************************)
(* The typed start-delta-end protocol of stream.rs: an answer leaves no    *)
(* block open, and the pieces of text and of thinking the user was shown   *)
(* are those the agent loop gets, in their order.  Of a Claude stream that *)
(* was cut inside a block the user has also seen that block's part.        *)
(***************************************************************************)
ShownIsReturned ==
  pc = "tools" /\ streaming =>
    /\ open = {}
    /\ \A b \in Blocks :
         \/ shown[b] = kept[b]
         \/ Current \in Native /\ shown[b] = kept[b] \o part
=============================================================================
