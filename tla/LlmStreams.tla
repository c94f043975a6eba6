------------------------------ MODULE LlmStreams ------------------------------
(***************************************************************************)
(* The five LLM adapters and the interpreter of a step's events.  An adapter *)
(* formats the history for its provider, reads the provider's chunks and      *)
(* yields LLMStreamEvents; the interpreter turns them into the frames the     *)
(* user sees and into the assistant message of the step; later steps, maybe   *)
(* of another provider, send that message again; a page reload shows it.      *)
(*                                                                          *)
(* Text is a sequence of tokens, one for each delta.  What a provider sends   *)
(* is the environment's choice.  Of the tool phase, whose groups, approvals   *)
(* and losses QueryLoop models, what is here is which messages it leaves      *)
(* behind: when the calls run, wait for the user, go on with the user's       *)
(* answer, are cancelled, or are closed by the next turn.                     *)
(***************************************************************************)
EXTENDS Integers, Sequences, SequencesExt

CONSTANTS
  Adapters,    \* of {"openai", "anthropic", "google", "alibaba", "litellm"}
  Tools,       \* names of tools
  Waiting,     \* the tools that suspend the turn: the user's client or approval
  NoId,        \* no id, no payload, no provider, no suspended chat
  Garbled,     \* tokens that make arguments no JSON object, reports without a split
  MaxWork      \* deltas, calls, reports, steps and turns of the session

\* What the parameters must be; the run's module assumes it.
StreamParameters == Waiting \subseteq Tools /\ "" \notin Tools /\ MaxWork \in Nat \ {0}

VARIABLES
  history,   \* messages of the session: what the next request is made of
  record,    \* chat_record_messages: those of this request
  pending,   \* the suspended chat: the record and the calls of its step
  asked,     \* the provider of the model of this turn
  phase,     \* "idle", "stream", "end" (the stream is over), "resume", "over" (the turn is)
  acc,       \* the adapter's accumulators
  told,      \* ghost: <<call, id, token>> for what the provider sent of the step's calls
  queue,     \* events the adapter has yielded and the loop has not consumed
  step,      \* _StepEventInterpreter and the step's token usage
  frames,    \* frames of this step, as sent to the user
  shown,     \* frames of the steps whose message is in the history
  dropped,   \* history: calls of a suspended chat that is deleted without an answer
  made, steps, turns   \* what was counted against the bounds

saved == <<record, pending, dropped>>
\* The bound on a behaviour.
WorkLeft == made + steps + turns < MaxWork

streamVars == <<history, asked, phase, acc, told, queue, step, frames, shown, made, steps, turns, saved>>

\* What a sequence has at the places I, in order.
Kept(s, I) ==
  LET kept[n \in 0..Len(s)] ==
        IF n = 0 THEN << >> ELSE IF n \in I THEN Append(kept[n - 1], s[n]) ELSE kept[n - 1]
  IN kept[Len(s)]

Toks(parts) == FlattenSeq([i \in DOMAIN parts |-> parts[i].toks])
OfKind(parts, kind) == Kept(parts, {i \in DOMAIN parts : parts[i].kind = kind})
Mapped(s, Op(_)) == [i \in DOMAIN s |-> Op(s[i])]

Part(kind, toks) == [kind |-> kind, toks |-> toks]
CallPart(id, name, args) == [kind |-> "call", toks |-> args, id |-> id, name |-> name]

-----------------------------------------------------------------------------
(* Requests                                                                 *)

\* The provider saved this message itself: it gets its own payload back.
Native(p, m) == m.provider = p /\ m.payload # NoId

\* One message of the history as an adapter sends it: a tool's result by the key of
\* its call, a message of the provider's own by its payload, all others by their
\* visible text.
Formatted(p, m, key) ==
  CASE m.role = "tool" -> [role |-> "tool", answers |-> key, parts |-> << >>]
    [] m.role = "assistant" /\ Native(p, m) -> [role |-> "assistant", answers |-> NoId, parts |-> m.payload]
    [] OTHER -> [role |-> m.role, answers |-> NoId, parts |-> <<Part("text", m.content)>>]

\* A result is found by the id of its call, by Google by the name of the tool.
OpenAiInput(m) == Formatted("openai", m, m.id)
AnthropicMessage(m) == Formatted("anthropic", m, m.id)
GeminiContent(m) == Formatted("google", m, m.name)
QwenMessage(m) == Formatted("alibaba", m, m.id)
LiteMessage(m) == Formatted("litellm", m, m.id)

Sent(p, m) ==
  CASE p = "openai" -> OpenAiInput(m)
    [] p = "anthropic" -> AnthropicMessage(m)
    [] p = "google" -> GeminiContent(m)
    [] p = "alibaba" -> QwenMessage(m)
    [] OTHER -> LiteMessage(m)

Request(p, messages) == Mapped(messages, LAMBDA m : Sent(p, m))

-----------------------------------------------------------------------------
(* Streams                                                                  *)

NoAcc == [parts |-> << >>, text |-> << >>, thought |-> << >>, frags |-> << >>, usage |-> << >>]
NoStep == [content |-> << >>, reasoning |-> << >>, calls |-> << >>, payload |-> NoId,
           text_started |-> FALSE, reasoning_started |-> FALSE, usage |-> << >>]

NoBill == [reports |-> << >>, source |-> "provider"]
User(t) == [role |-> "user", provider |-> NoId, content |-> <<t>>, reasoning |-> << >>,
            payload |-> NoId, calls |-> << >>, id |-> NoId, name |-> NoId, usage |-> NoBill]

\* _resolve_usage_with_fallback: a step of which no report came is billed by an
\* estimate, one whose reports have a total only by an estimated split of it.
Resolved(reports) ==
  [reports |-> reports,
   source |-> CASE reports = << >> -> "estimated"
                [] ToSet(reports) \subseteq Garbled -> "estimated_split"
                [] OTHER -> "provider"]

Assistant == [role |-> "assistant", provider |-> asked, content |-> step.content,
              reasoning |-> step.reasoning, payload |-> step.payload, calls |-> step.calls,
              id |-> NoId, name |-> NoId, usage |-> Resolved(step.usage)]
Result(call) == [role |-> "tool", provider |-> NoId, content |-> << >>, reasoning |-> << >>,
                 payload |-> NoId, calls |-> << >>, id |-> call.id, name |-> call.name, usage |-> NoBill]

\* What close_unfinished says instead of an answer.
Interruption == [User(0) EXCEPT !.role = "assistant"]

\* Whether a call waits for the user, and the order of the groups: the others first.
Waits(call) == \E t \in Waiting : call.name = <<t>>
InOrder(calls) ==
  LET waiting == {i \in DOMAIN calls : Waits(calls[i])} IN
  Kept(calls, DOMAIN calls \ waiting) \o Kept(calls, waiting)

\* json_object: the arguments as an object, of which nothing is left when they are
\* none.
json_object(args) == IF ToSet(args) \cap Garbled = {} THEN args ELSE << >>

\* A call's id: the provider's, or "call_<uuid>" when it gave none.
IdOf(id, i) == IF id = NoId THEN <<"call", steps, i>> ELSE id

Event(type, x) == [type |-> type, x |-> x]
Delta(kind) == IF kind = "text" THEN Event("TEXT_DELTA", made + 1) ELSE Event("REASONING_DELTA", made + 1)

StreamInit ==
  /\ history = <<User(0)>> /\ record = <<User(0)>> /\ pending = NoId /\ dropped = {}
  /\ asked \in Adapters /\ phase = "idle"
  /\ acc = NoAcc /\ told = << >> /\ queue = << >> /\ step = NoStep
  /\ frames = << >> /\ shown = << >> /\ made = 0 /\ steps = 0 /\ turns = 1

\* close_unfinished_before_start: a suspended chat is saved again, except for its
\* first message, now with a result for each call of its step.
Unfinished ==
  IF pending = NoId THEN << >>
  ELSE Tail(pending.record) \o Mapped(Reverse(InOrder(pending.calls)), Result) \o <<Interruption>>

\* A turn of the session's model, or of another one, begins.
NextTurn(p) ==
  /\ phase = "over" /\ WorkLeft
  /\ phase' = "idle" /\ asked' = p /\ turns' = turns + 1
  /\ history' = history \o Unfinished \o <<User(0)>> /\ record' = <<User(0)>> /\ pending' = NoId
  /\ UNCHANGED <<dropped, acc, told, queue, step, frames, shown, made, steps>>

\* A step asks the provider.
StartStep ==
  /\ phase = "idle" /\ WorkLeft
  /\ phase' = "stream" /\ steps' = steps + 1
  /\ acc' = NoAcc /\ told' = << >> /\ queue' = << >> /\ step' = NoStep /\ frames' = <<Event("start-step", 0)>>
  /\ UNCHANGED <<history, asked, shown, made, turns, saved>>

\* The adapter reads on only when the loop has consumed what it yielded.
Reads(p) == phase = "stream" /\ asked = p /\ queue = << >> /\ WorkLeft
Counts == made' = made + 1
Tells(kind, i, id) == told' = IF kind = "call" THEN Append(told, <<i, id, made + 1>>) ELSE told
StreamsOn == UNCHANGED <<history, asked, phase, step, frames, shown, steps, turns, saved>>

\* A delta of a block; the block it belongs to is open, or is one more.
Grown(parts, kind) ==
  IF parts # << >> /\ Last(parts).kind = kind
    THEN [parts EXCEPT ![Len(parts)].toks = Append(@, made + 1)]
    ELSE Append(parts, Part(kind, <<made + 1>>))

\* A call in full, of which nothing is yielded before the stream is over, or a delta.
WholeOr(parts, id, kind, name) ==
  /\ acc' = [acc EXCEPT !.parts = IF kind = "call" THEN Append(@, CallPart(id, <<name>>, <<made + 1>>)) ELSE parts]
  /\ queue' = IF kind = "call" THEN << >> ELSE <<Delta(kind)>>
  /\ StreamsOn

\* OpenAI: output_item.done brings an item whole, after its deltas.
OpenAiChunk(id, kind, name) ==
  /\ Reads("openai") /\ Counts /\ Tells(kind, Len(told) + 1, id)
  /\ WholeOr(Grown(acc.parts, kind), id, kind, name)

\* Anthropic: the final message has the blocks whose deltas were streamed.
AnthropicChunk(id, kind, name) ==
  /\ Reads("anthropic") /\ Counts /\ Tells(kind, Len(told) + 1, id)
  /\ WholeOr(Grown(acc.parts, kind), id, kind, name)

\* Gemini: each chunk brings parts of its own.
GeminiChunk(id, kind, name) ==
  /\ Reads("google") /\ Counts /\ Tells(kind, Len(told) + 1, id)
  /\ WholeOr(Append(acc.parts, Part(kind, <<made + 1>>)), id, kind, name)

\* Text and thought are added up apart (LiteLLM does not keep the thought).
AddedUp(kind) ==
  /\ acc' = IF kind = "text" THEN [acc EXCEPT !.text = Append(@, made + 1)]
            ELSE [acc EXCEPT !.thought = Append(@, made + 1)]
  /\ queue' = <<Delta(kind)>> /\ StreamsOn

\* Qwen: a call comes whole.
QwenChunk(id, kind, name) ==
  /\ Reads("alibaba") /\ Counts /\ Tells(kind, Len(told) + 1, id)
  /\ IF kind = "call" THEN WholeOr(acc.parts, id, kind, name) ELSE AddedUp(kind)

\* Mutant: a fragment is added to the last call, whatever its index.
merged_last(frags, i, id, name) ==
  LET new == IF i > Len(frags) THEN Append(frags, [id |-> NoId, name |-> << >>, args |-> << >>]) ELSE frags IN
  [new EXCEPT ![Len(new)] = [id |-> IF id = NoId THEN @.id ELSE id,
                             name |-> IF name = "" THEN @.name ELSE Append(@.name, name),
                             args |-> Append(@.args, made + 1)]]

\* tool_acc: the fragments of a call, of its name too, add up under its index; an
\* id replaces.
Merged(frags, i, id, name) ==
  LET new == IF i > Len(frags) THEN Append(frags, [id |-> NoId, name |-> << >>, args |-> << >>]) ELSE frags IN
  [new EXCEPT ![i] = [id |-> IF id = NoId THEN @.id ELSE id,
                      name |-> IF name = "" THEN @.name ELSE Append(@.name, name),
                      args |-> Append(@.args, made + 1)]]

\* LiteLLM: a call comes in fragments.
LiteChunk(id, kind, name, i) ==
  /\ Reads("litellm") /\ Counts /\ Tells(kind, i, id)
  /\ kind = "call" => i <= Len(acc.frags) + 1
  /\ IF kind = "call"
       THEN acc' = [acc EXCEPT !.frags = Merged(@, i, id, name)] /\ queue' = << >> /\ StreamsOn
       ELSE AddedUp(kind)

\* A chunk reports the usage so far, and the last report counts; OpenAI's comes with
\* each completed response and is yielded at once.
UsageChunk ==
  /\ Reads(asked) /\ Counts
  /\ IF asked = "openai"
       THEN acc' = [acc EXCEPT !.usage = Append(@, made + 1)] /\ queue' = <<Event("USAGE", made + 1)>>
       ELSE acc' = [acc EXCEPT !.usage = <<made + 1>>] /\ UNCHANGED queue
  /\ UNCHANGED told /\ StreamsOn

\* The payload of the step, in the provider's own form: the items, blocks or parts
\* as they came, or a message of the text and the calls.
OpenAiPayload == acc.parts
AnthropicPayload == acc.parts
GeminiPayload == acc.parts
QwenPayload == <<Part("text", acc.text), Part("thought", acc.thought)>> \o acc.parts
LitePayload == <<Part("text", acc.text)>> \o Mapped(acc.frags, LAMBDA f : CallPart(f.id, f.name, f.args))

PayloadOf(p) ==
  CASE p = "openai" -> OpenAiPayload
    [] p = "anthropic" -> AnthropicPayload
    [] p = "google" -> GeminiPayload
    [] p = "alibaba" -> QwenPayload
    [] OTHER -> LitePayload

\* The calls the adapter makes of it.
CallsOf(p) ==
  LET made_of == OfKind(PayloadOf(p), "call") IN
  [i \in DOMAIN made_of |-> [id |-> IdOf(made_of[i].id, i), name |-> made_of[i].name,
                          args |-> json_object(made_of[i].toks)]]

\* What an adapter yields when the stream is over: the usage, the calls, the payload.
Ending(p) ==
  (IF p # "openai" /\ acc.usage # << >> THEN <<Event("USAGE", Last(acc.usage))>> ELSE << >>)
    \o (IF CallsOf(p) # << >> THEN <<Event("TOOL_CALLS", CallsOf(p))>> ELSE << >>)
    \o <<Event("STATE", PayloadOf(p))>>

\* The provider ends its answer.
StreamEnds ==
  /\ phase = "stream" /\ queue = << >>
  /\ phase' = "end" /\ queue' = Ending(asked)
  /\ UNCHANGED <<history, asked, acc, told, step, frames, shown, made, steps, turns, saved>>

\* A turn is over; the suspended chat it recovered is deleted.
TurnOver == phase' = "over" /\ pending' = NoId /\ UNCHANGED dropped

\* An error of the provider, or a response that failed or is incomplete: the turn
\* ends, the message of this step is in no history.
StreamFails ==
  /\ phase = "stream" /\ queue = << >>
  /\ TurnOver /\ frames' = Append(frames, Event("error", 0))
  /\ UNCHANGED <<history, record, asked, acc, told, queue, step, shown, made, steps, turns>>

-----------------------------------------------------------------------------
(* The interpreter                                                          *)

\* Mutant: thought that comes when the text has begun is not shown as begun.
begun_quiet(s, kind) ==
  IF kind = "text"
    THEN IF s.text_started THEN << >>
         ELSE (IF s.reasoning_started THEN <<Event("reasoning-end", 0)>> ELSE << >>) \o <<Event("text-start", 0)>>
    ELSE IF s.reasoning_started \/ s.text_started THEN << >> ELSE <<Event("reasoning-start", 0)>>

\* What is sent before a delta: the start of its part; a text that begins ends the
\* reasoning, reasoning that comes after it begins again while the text is open.
Begun(s, kind) ==
  IF kind = "text"
    THEN IF s.text_started THEN << >>
         ELSE (IF s.reasoning_started THEN <<Event("reasoning-end", 0)>> ELSE << >>) \o <<Event("text-start", 0)>>
    ELSE IF s.reasoning_started THEN << >> ELSE <<Event("reasoning-start", 0)>>

\* close: what is still open ends, the reasoning first.
Closed(s) ==
  (IF s.reasoning_started THEN <<Event("reasoning-end", 0)>> ELSE << >>)
    \o (IF s.text_started THEN <<Event("text-end", 0)>> ELSE << >>)

\* consume, and the loop's token_usage.add.
Consumed(s, e) ==
  CASE e.type = "STATE" -> [s EXCEPT !.payload = e.x]
    [] e.type = "TOOL_CALLS" -> [s EXCEPT !.calls = @ \o e.x]
    [] e.type = "USAGE" -> [s EXCEPT !.usage = Append(@, e.x)]
    [] e.type = "REASONING_DELTA" -> [s EXCEPT !.reasoning = Append(@, e.x), !.reasoning_started = TRUE]
    [] OTHER -> [s EXCEPT !.content = Append(@, e.x), !.text_started = TRUE,
                          !.reasoning_started = @ /\ s.text_started]

\* The frames of an event.
FramesOf(s, e) ==
  CASE e.type = "REASONING_DELTA" -> Append(Begun(s, "thought"), Event("reasoning-delta", e.x))
    [] e.type = "TEXT_DELTA" -> Append(Begun(s, "text"), Event("text-delta", e.x))
    [] OTHER -> << >>

Consume ==
  /\ phase \in {"stream", "end"} /\ queue # << >>
  /\ queue' = Tail(queue) /\ step' = Consumed(step, Head(queue))
  /\ frames' = frames \o FramesOf(step, Head(queue))
  /\ UNCHANGED <<history, asked, phase, acc, told, shown, made, steps, turns, saved>>

\* The step's frames are all sent: they belong to the message that is kept.
Keeps(sent, messages) ==
  /\ frames' = frames \o sent /\ shown' = shown \o frames'
  /\ history' = history \o messages /\ record' = record \o messages

\* The user's cancel, seen when an event has come, or the kill of the turn: the event
\* is dropped, the message has what was consumed, its calls are answered as
\* interrupted.
StreamCancelled ==
  /\ phase = "stream" \/ (phase = "end" /\ queue # << >>)
  /\ TurnOver /\ queue' = << >>
  /\ Keeps(Closed(step), <<Assistant>> \o Mapped(step.calls, Result))
  /\ UNCHANGED <<asked, acc, told, step, made, steps, turns>>

Inputs(calls) == Mapped(calls, LAMBDA c : Event("tool-input", c.id))
Outputs(calls) == Mapped(calls, LAMBDA c : Event("tool-output", c.id))

\* The stream is consumed.
AllConsumed == phase = "end" /\ queue = << >>
StepIsOver == UNCHANGED <<asked, acc, told, queue, step, made, steps, turns>>

\* An answer without calls ends the turn.
StepAnswers ==
  /\ AllConsumed /\ step.calls = << >>
  /\ TurnOver /\ Keeps(Closed(step), <<Assistant>>) /\ StepIsOver

\* A step whose calls all run: they are shown, and the loop goes on.
StepRunsTools ==
  /\ AllConsumed /\ step.calls # << >> /\ \A i \in DOMAIN step.calls : ~Waits(step.calls[i])
  /\ phase' = "idle" /\ UNCHANGED <<pending, dropped>>
  /\ Keeps(Closed(step) \o Inputs(step.calls) \o Outputs(step.calls),
           <<Assistant>> \o Mapped(step.calls, Result))
  /\ StepIsOver

\* A call waits for the user: the whole step is suspended, and what the turn has so
\* far is saved, without a result of this step.
StepSuspends ==
  /\ AllConsumed /\ \E i \in DOMAIN step.calls : Waits(step.calls[i])
  /\ phase' = "over" /\ UNCHANGED dropped
  /\ Keeps(Closed(step) \o Inputs(step.calls), <<Assistant>>)
  /\ pending' = [record |-> record', calls |-> step.calls]
  /\ StepIsOver

\* Cancelled before the calls or among them.
ToolsCancelled ==
  /\ AllConsumed /\ step.calls # << >>
  /\ TurnOver
  /\ \E inputs \in {<< >>, Inputs(step.calls)} :
       Keeps(Closed(step) \o inputs, <<Assistant>> \o Mapped(step.calls, Result))
  /\ StepIsOver

\* The user's answer to a suspended turn: a turn without a record goes on with it.
RecoverChat ==
  /\ phase = "over" /\ pending # NoId /\ WorkLeft
  /\ phase' = "resume" /\ record' = << >> /\ frames' = << >> /\ turns' = turns + 1
  /\ UNCHANGED <<history, pending, dropped, asked, acc, told, queue, step, shown, made, steps>>

\* Its calls run group by group, and the loop goes on.
ResumedRun ==
  /\ phase = "resume"
  /\ phase' = "idle" /\ UNCHANGED <<pending, dropped>>
  /\ Keeps(<<Event("start-step", 0)>> \o Outputs(InOrder(pending.calls)),
           Mapped(InOrder(pending.calls), Result))
  /\ StepIsOver

\* Cancelled among the groups: all its calls are answered as interrupted.
ResumedCancelled ==
  /\ phase = "resume"
  /\ TurnOver /\ Keeps(<<Event("start-step", 0)>>, Mapped(pending.calls, Result)) /\ StepIsOver

\* Cancelled at the head of the loop, or its options are invalid: the record is
\* empty.  An agent that titles its sessions fails on that and keeps the suspended
\* chat; any other deletes it, and its calls remain without a result.
ResumedToNothing ==
  /\ phase = "resume" /\ phase' = "over"
  /\ \/ UNCHANGED <<pending, dropped>>
     \/ pending' = NoId /\ dropped' = dropped \cup {c.id : c \in ToSet(pending.calls)}
  /\ UNCHANGED <<history, record, frames, shown>> /\ StepIsOver

Ids == {NoId, <<"id", made + 1>>}
BlockKinds == {"text", "thought", "call"}

StreamNext ==
  \/ StartStep \/ UsageChunk \/ StreamEnds \/ StreamFails
  \/ Consume \/ StreamCancelled \/ StepAnswers \/ StepRunsTools \/ StepSuspends \/ ToolsCancelled
  \/ RecoverChat \/ ResumedRun \/ ResumedCancelled \/ ResumedToNothing
  \/ \E p \in Adapters : NextTurn(p)
  \/ \E id \in Ids, kind \in BlockKinds, name \in Tools :
       \/ OpenAiChunk(id, kind, name) \/ AnthropicChunk(id, kind, name)
       \/ GeminiChunk(id, kind, name) \/ QwenChunk(id, kind, name)
  \/ \E id \in Ids, kind \in BlockKinds, name \in Tools \cup {""}, i \in 1..2 : LiteChunk(id, kind, name, i)

StreamSpec == StreamInit /\ [][StreamNext]_streamVars

-----------------------------------------------------------------------------
(* The history as the page shows it                                         *)

\* get_session_messages: the record of a suspended chat is shown after the messages
\* that are saved, which have it already.
Page == history \o (IF pending = NoId THEN << >> ELSE pending.record)

\* tool_states: the calls the page asks the user for.
Asking == IF pending = NoId THEN {} ELSE {c.id : c \in {d \in ToSet(pending.calls) : Waits(d)}}

\* The messages between two messages of the user are one message of the page.
Groups(messages) ==
  FoldLeft(LAMBDA groups, m : IF m.role = "user" THEN Append(groups, << >>)
                              ELSE [groups EXCEPT ![Len(groups)] = Append(@, m)], <<<< >>>>, messages)

\* Mutant: only the result after a message's last call is found.
outputs_last(group) == {m.id : m \in {n \in {Last(group)} : n.role = "tool"}}

\* tool_results: ids of the calls that have a result in the group.
OutputIds(group) == {m.id : m \in {n \in ToSet(group) : n.role = "tool"}}

\* The parts of a group: for each assistant message its reasoning, calls and text; a
\* call waits for the user, is done with an output, or is done with none.
UiPart(kind, toks) == [kind |-> kind, toks |-> toks, id |-> NoId, state |-> "done", out |-> FALSE]
UiCall(c, group) ==
  [kind |-> "call", toks |-> c.args, id |-> c.id,
   state |-> IF c.id \in Asking THEN "asking" ELSE "done", out |-> c.id \in OutputIds(group)]
UiParts(group) ==
  FlattenSeq(Mapped(SelectSeq(group, LAMBDA m : m.role = "assistant"), LAMBDA m :
    (IF m.reasoning = << >> THEN << >> ELSE <<UiPart("thought", m.reasoning)>>)
      \o Mapped(m.calls, LAMBDA c : UiCall(c, group))
      \o (IF m.content = << >> THEN << >> ELSE <<UiPart("text", m.content)>>)))

-----------------------------------------------------------------------------
(* Properties                                                               *)

StreamTypeOK ==
  /\ asked \in Adapters /\ phase \in {"idle", "stream", "end", "resume", "over"}
  /\ {made, steps, turns} \subseteq Nat /\ made + steps + turns <= MaxWork
  /\ \A i \in DOMAIN history : history[i].role \in {"user", "assistant", "tool"}

\* The two parts of a message, and whether one is open after the first i frames.
Text      == [start |-> "text-start", delta |-> "text-delta", end |-> "text-end"]
Reasoning == [start |-> "reasoning-start", delta |-> "reasoning-delta", end |-> "reasoning-end"]
Open(sent, part, i) ==
  \E j \in 1..i : sent[j].type = part.start /\ \A k \in j..i : sent[k].type # part.end

\* Deltas and ends are of a part that is open, starts of one that is not.
InPairs(sent) ==
  \A part \in {Text, Reasoning}, i \in DOMAIN sent :
    /\ sent[i].type \in {part.delta, part.end} => Open(sent, part, i - 1)
    /\ sent[i].type = part.start => ~Open(sent, part, i - 1)

\* Every delta the user gets is of a part that was started and has not ended, a
\* part is not started twice, and when a step's message is kept nothing is open
\* (_StepEventInterpreter: consume and close, on the cancelled path too).
LifecycleKept ==
  /\ InPairs(frames)
  /\ phase \in {"idle", "over"} /\ (\A i \in DOMAIN frames : frames[i].type # "error") =>
       \A part \in {Text, Reasoning} : ~Open(frames, part, Len(frames))

\* While a step runs it is billed nothing or what its provider reported, a report at
\* a time; when its answer is consumed, all that counts of the reports, each once.
\* (What was not consumed of a cancelled step is replaced by an estimate.)
BilledOnce ==
  /\ step.usage # acc.usage => acc.usage # << >> /\ step.usage \in {<< >>, Front(acc.usage)}
  /\ phase = "end" /\ queue = << >> => step.usage = acc.usage

\* Types; parts of a stream that start and end in pairs; steps that are billed once.
StepInv == StreamTypeOK /\ LifecycleKept /\ BilledOnce

\* What the provider sent of the step's call i: its arguments, and the last id.
ToldArgs(i) == Mapped(SelectSeq(told, LAMBDA f : f[1] = i), LAMBDA f : f[3])
ToldIds(i) == {NoId} \cup {f[2] : f \in {g \in ToSet(told) : g[1] = i}}

\* The calls of a message have a result after it, at least one of this key each.
AnsweredBy(p, i, calls) ==
  \A k \in DOMAIN calls :
    LET key == IF p = "google" THEN calls[k].name ELSE calls[k].id IN
    key # NoId => \E j \in i..Len(history) : history[j].role = "tool" /\ Sent(p, history[j]).answers = key

\* A call runs with all the arguments that were sent for it, or with none when they
\* are no JSON object, and under an id of its own.  Whatever provider asks next, it
\* gets the visible text of every answer of the session, and a provider that gets its
\* own calls back finds each as it was run and, when it is asked to go on, with a
\* result under the id (the name, for Google) it gave: through suspensions,
\* recoveries and closed turns, unless the suspended chat was deleted without an
\* answer.  The payload, the calls and the deltas are three copies of one answer.
RequestsFaithful ==
  /\ \A i \in DOMAIN step.calls :
       /\ step.calls[i].args = json_object(ToldArgs(i))
       /\ ToldIds(i) = {NoId} \/ step.calls[i].id \in ToldIds(i)
  /\ \A p \in Adapters, i \in DOMAIN history :
       LET m == history[i]
           parts == Sent(p, m).parts
           mine == OfKind(parts, "call")
       IN m.role = "assistant" =>
            /\ Toks(OfKind(parts, "text")) = m.content
            /\ Native(p, m) =>
                 /\ Mapped(mine, LAMBDA c : <<c.name, json_object(c.toks)>>)
                      = Mapped(m.calls, LAMBDA c : <<c.name, c.args>>)
                 /\ phase = "idle" /\ {c.id : c \in ToSet(m.calls)} \cap dropped = {} => AnsweredBy(p, i, mine)

\* A sequence of tokens without what was there before.
Firsts(toks) ==
  FoldLeft(LAMBDA s, t : IF t = 0 \/ t \in ToSet(s) THEN s ELSE Append(s, t), << >>, toks)

\* When a turn is over or waits for the user, a reload shows what the streams of the
\* session showed: all the text and all the reasoning, each in the order in which it
\* was streamed but for the steps that are shown once more (a suspended turn's and a
\* closed one's), every call, and the output of each call whose output was sent.
\* The page asks the user only for calls whose step waits for him.
ReloadShowsAll ==
  LET ui == FlattenSeq(Mapped(Groups(Page), UiParts))
      seen(type) == Mapped(SelectSeq(shown, LAMBDA f : f.type = type), LAMBDA f : f.x)
      calls == {k \in DOMAIN ui : ui[k].kind = "call"}
  IN phase = "over" =>
       /\ Firsts(Toks(OfKind(ui, "text"))) = seen("text-delta")
       /\ Firsts(Toks(OfKind(ui, "thought"))) = seen("reasoning-delta")
       /\ ToSet(seen("tool-input")) \subseteq {ui[k].id : k \in calls}
       /\ ToSet(seen("tool-output")) \subseteq {ui[k].id : k \in {n \in calls : ui[n].out}}
       /\ \A k \in calls : ui[k].state = "asking" => ~ui[k].out

\* "call_id corresponds to the call_id / id that was returned" (the adapters'
\* formatters, of a tool's result): each result in a request answers a call in it.
ResultsHaveCalls ==
  LET request == Request(asked, history) IN
  \A i \in DOMAIN history :
    history[i].role = "tool" /\ history[i].id[1] = "id" /\ asked # "google" =>
      \E j \in 1..i : \E k \in DOMAIN request[j].parts :
        request[j].parts[k].kind = "call" /\ request[j].parts[k].id = history[i].id
=============================================================================
