------------------------------ MODULE QueryLoop ------------------------------
(***************************************************************************)
(* One chat turn inside the coordinator: the ReAct loop of QueryLoopRuntime *)
(* (model step, tool step, next model step), its cancellation checkpoints,  *)
(* the suspension of a turn that needs the user's approval or the browser's *)
(* tools, and the recovery of the suspended turn by a later request.        *)
(*                                                                          *)
(* A step of the model is what happens between two awaits that matter: a    *)
(* read of the cancel flag and the work it admits are two steps.  A model   *)
(* message keeps the tool calls it asks for, a tool message how each of     *)
(* them went; contents, streaming events and token counts are left out.    *)
(***************************************************************************)
EXTENDS Naturals, Sequences, SequencesExt

CONSTANTS
  Tools,          \* tool names a model message may call, each at most once
  Kind,           \* tool -> "server", "approval" (high risk), "client" or "unknown"
  MaxIterations,  \* agent_max_iterations
  MaxSteps,       \* bound on the model steps of a behaviour
  MaxFailures     \* bound on the runs of a behaviour that fail half way

ASSUME KindAssumption == Kind \in [Tools -> {"server", "approval", "client", "unknown"}]
ASSUME LoopBounds == /\ MaxIterations \in Nat \ {0}
                     /\ MaxSteps \in Nat
                     /\ MaxFailures \in Nat

VARIABLES
  pc,                \* where the loop is (see Phases)
  iteration,         \* the loop counter
  messages,          \* messages_for_llm: the prompt, then model and tool messages
  record,            \* chat_record_messages of this request, without the user message
  calls,             \* the tool calls of the current step
  outputs,           \* results of the calls that completed in this step
  group,             \* the dispatch group in hand
  pending,           \* calls of that group still running
  resumed,           \* is this the tool step of a recovered turn?
  answers,           \* what the recover request brought along
  cancel_requested,  \* the cancel flag of the running turn
  suspended,         \* the suspended chats stored for the session, oldest first
  recovering,        \* the suspended chat this request recovers, or 0
  asked,             \* model steps so far; the current one is named by this number
  executed,          \* history: call -> how often its tool ran
  late,              \* history: work begun although the flag was set
  failures           \* history: runs that failed before their end

vars == <<pc, iteration, messages, record, calls, outputs, group, pending, resumed,
          answers, cancel_requested, suspended, recovering, asked, executed, late, failures>>

toolVars == <<outputs, group, pending>>
turnVars == <<resumed, answers, recovering>>
coreVars == <<suspended, asked, failures>>

-----------------------------------------------------------------------------
Calls == (1..MaxSteps) \X Tools

KindOf(c) == Kind[c[2]]

Phases == {"idle", "top", "open", "stream", "parsed", "inputs", "group", "begin", "run",
           "suspend", "persist", "aborted"}

Groups == {"server", "approval", "client"}

\* classify_tools: a tool missing from the scope is left to the server group.
classify_tools(S, g) ==
  {c \in S : KindOf(c) = g \/ (g = "server" /\ KindOf(c) = "unknown")}

NeedsUser(S) == classify_tools(S, "approval") \cup classify_tools(S, "client") # {}

Notes == {"success", "error", "denied", "interrupted"}

NoNotes      == [c \in {} |-> "error"]
Prompt       == [role |-> "prompt", calls |-> {}, notes |-> NoNotes]
Assistant(S) == [role |-> "assistant", calls |-> S, notes |-> NoNotes]
Results(f)   == [role |-> "tool", calls |-> {}, notes |-> f]

\* _build_aborted_tool_messages
Interrupted(S) == Results([c \in S |-> "interrupted"])

NoAnswers == [approved |-> {}, results |-> {}]

Init ==
  /\ pc = "top" /\ iteration = 0
  /\ messages = <<Prompt>> /\ record = << >>
  /\ calls = {} /\ outputs = NoNotes /\ group = "server" /\ pending = {}
  /\ resumed = FALSE /\ answers = NoAnswers
  /\ cancel_requested = FALSE
  /\ suspended = << >> /\ recovering = 0
  /\ asked = 0 /\ executed = [c \in Calls |-> 0] /\ late = 0 /\ failures = 0

-----------------------------------------------------------------------------
(* The loop and its model step.                                             *)

\* Work that a set flag should have prevented.
CountLate == late' = IF cancel_requested THEN late + 1 ELSE late

\* Before the loop: no provider for the model, or runtime options it rejects.
OptionsInvalid ==
  /\ pc = "top" /\ record = << >>
  /\ pc' = "persist"
  /\ UNCHANGED <<iteration, messages, record, calls, cancel_requested, executed, late,
                 toolVars, turnVars, coreVars>>

\* The checkpoint at the head of the loop: an aborted step without messages.
LoopTop ==
  /\ pc = "top"
  /\ pc' = IF cancel_requested THEN "aborted" ELSE "open"
  /\ UNCHANGED <<iteration, messages, record, calls, cancel_requested, executed, late,
                 toolVars, turnVars, coreVars>>

\* A recovered turn takes the calls from the last message: no model step.
ResumeStep ==
  /\ pc = "open" /\ resumed
  /\ calls' = messages[Len(messages)].calls
  /\ outputs' = NoNotes /\ group' = "server" /\ pending' = {}
  /\ pc' = "group"
  /\ UNCHANGED <<iteration, messages, record, cancel_requested, executed, late,
                 turnVars, coreVars>>

\* stream_chat_completion
StartStream ==
  /\ pc = "open" /\ ~resumed /\ asked < MaxSteps
  /\ asked' = asked + 1
  /\ CountLate
  /\ pc' = "stream"
  /\ UNCHANGED <<iteration, messages, record, calls, cancel_requested, suspended,
                 executed, failures, toolVars, turnVars>>

StepCalls == {{<<asked, x>> : x \in S} : S \in SUBSET Tools}

\* The stream ends.  Without calls the message is the final answer.
StreamEnds ==
  /\ pc = "stream"
  /\ \E S \in StepCalls :
       IF S = {}
       THEN /\ record' = Append(record, Assistant(S))
            /\ pc' = "persist"
            /\ UNCHANGED calls
       ELSE /\ calls' = S
            /\ pc' = "parsed"
            /\ UNCHANGED record
  /\ UNCHANGED <<iteration, messages, cancel_requested, executed, late,
                 toolVars, turnVars, coreVars>>

\* An event arrives while the flag is set, or the hard kill of a cancelled turn
\* hits the stream: what came so far is closed as an aborted step.
StreamAborted ==
  /\ pc = "stream" /\ cancel_requested
  /\ \E S \in StepCalls :
       record' = record \o (IF S = {} THEN <<Assistant(S)>>
                                      ELSE <<Assistant(S), Interrupted(S)>>)
  /\ pc' = "aborted"
  /\ UNCHANGED <<iteration, messages, calls, cancel_requested, executed, late,
                 toolVars, turnVars, coreVars>>

\* Any failure of the stream is a ServiceException, which query_llm turns into
\* an error frame: the messages of the step are dropped.
StreamFails ==
  /\ pc = "stream"
  /\ pc' = "persist"
  /\ UNCHANGED <<iteration, messages, record, calls, cancel_requested, executed, late,
                 toolVars, turnVars, coreVars>>

-----------------------------------------------------------------------------
(* The tool step.                                                           *)

\* The messages the step has produced before any result.
NewMessages == IF resumed THEN << >> ELSE <<Assistant(calls)>>

\* CancelledError in the tool step, thrown by a checkpoint or by the hard kill.
AbortStep ==
  /\ record' = record \o NewMessages \o <<Interrupted(calls)>>
  /\ pc' = "aborted"

\* The first checkpoint after the stream, and the classification.
Classify ==
  /\ pc = "parsed"
  /\ IF cancel_requested THEN AbortStep
     ELSE pc' = (IF NeedsUser(calls) THEN "suspend" ELSE "inputs") /\ UNCHANGED record
  /\ UNCHANGED <<iteration, messages, calls, cancel_requested, executed, late,
                 toolVars, turnVars, coreVars>>

\* Mutant: the suspended chat is stored without the message that asks for tools.
suspend_without_assistant ==
  /\ pc = "suspend"
  /\ record' = Append(record, Assistant(calls))
  /\ UNCHANGED messages
  /\ suspended' = Append(suspended, [id |-> asked, messages |-> messages, iteration |-> iteration])
  /\ pc' = "persist"
  /\ UNCHANGED <<iteration, calls, cancel_requested, executed, late, asked, failures,
                 toolVars, turnVars>>

\* A call needs the user: the whole step waits for a recover request.
Suspend ==
  /\ pc = "suspend"
  /\ record' = Append(record, Assistant(calls))
  /\ messages' = Append(messages, Assistant(calls))
  /\ suspended' = Append(suspended, [id |-> asked, messages |-> messages', iteration |-> iteration])
  /\ pc' = "persist"
  /\ UNCHANGED <<iteration, calls, cancel_requested, executed, late, asked, failures,
                 toolVars, turnVars>>

\* The second checkpoint; only server calls are left.
BeforeDispatch ==
  /\ pc = "inputs"
  /\ IF cancel_requested
     THEN AbortStep /\ UNCHANGED toolVars
     ELSE /\ group' = "server" /\ outputs' = NoNotes /\ pending' = {}
          /\ pc' = "begin"
          /\ UNCHANGED record
  /\ UNCHANGED <<iteration, messages, calls, cancel_requested, executed, late,
                 turnVars, coreVars>>

\* The answer the loop gives itself when it runs out of iterations.
ExhaustedWarning == Assistant({})

\* Mutant: the loop counter stands still.
next_iteration_uncounted ==
  /\ calls' = {} /\ outputs' = NoNotes /\ group' = "server"
  /\ messages' = messages \o NewMessages \o <<Results(outputs)>>
  /\ UNCHANGED iteration
  /\ resumed' = FALSE
  /\ record' = record \o NewMessages \o <<Results(outputs)>>
  /\ pc' = "top"

\* The messages of a finished step join the context, and the loop goes on or
\* gives up with a last message that says so.
NextIteration ==
  /\ calls' = {} /\ outputs' = NoNotes /\ group' = "server"
  /\ messages' = messages \o NewMessages \o <<Results(outputs)>>
  /\ iteration' = iteration + 1
  /\ resumed' = FALSE
  /\ IF iteration + 1 < MaxIterations
     THEN /\ record' = record \o NewMessages \o <<Results(outputs)>>
          /\ pc' = "top"
     ELSE /\ record' = record \o NewMessages \o <<Results(outputs), ExhaustedWarning>>
          /\ pc' = "persist"

AfterGroup(g) == IF g = "server" THEN "approval" ELSE "client"

\* Mutant: the later groups of a recovered step start without a checkpoint.
resume_group_unchecked ==
  /\ pc = "group"
  /\ IF classify_tools(calls, group) # {} THEN
        /\ IF cancel_requested /\ group = "server" THEN AbortStep
           ELSE pc' = "begin" /\ UNCHANGED record
        /\ UNCHANGED <<messages, iteration, resumed, calls, outputs, group>>
     ELSE IF group # "client" THEN
        /\ group' = AfterGroup(group)
        /\ UNCHANGED <<pc, record, messages, iteration, resumed, calls, outputs>>
     ELSE NextIteration
  /\ UNCHANGED <<pending, answers, cancel_requested, recovering,
                 executed, late, coreVars>>

\* A recovered step runs its groups in turn, each behind a checkpoint.
ResumeGroup ==
  /\ pc = "group"
  /\ IF classify_tools(calls, group) # {} THEN
        /\ IF cancel_requested THEN AbortStep ELSE pc' = "begin" /\ UNCHANGED record
        /\ UNCHANGED <<messages, iteration, resumed, calls, outputs, group>>
     ELSE IF group # "client" THEN
        /\ group' = AfterGroup(group)
        /\ UNCHANGED <<pc, record, messages, iteration, resumed, calls, outputs>>
     ELSE NextIteration
  /\ UNCHANGED <<pending, answers, cancel_requested, recovering,
                 executed, late, coreVars>>

\* dispatch and client_dispatch: gather over the calls of the group.
BeginGroup ==
  /\ pc = "begin"
  /\ pending' = classify_tools(calls, group)
  /\ CountLate
  /\ pc' = "run"
  /\ UNCHANGED <<iteration, messages, record, calls, outputs, group, cancel_requested,
                 executed, turnVars, coreVars>>

\* Mutant: the executor does not look at the approval.
denied_never(c) == FALSE

\* execute_one refuses a high-risk tool the user did not approve.
Denied(c) == KindOf(c) = "approval" /\ c \notin answers.approved

\* Does the executor get as far as the tool's own code?
Runs(c) == KindOf(c) \in {"server", "approval"} /\ ~Denied(c)

\* How a call can end; a client tool only reports what the browser did.
NotesOf(c) ==
  IF Denied(c) THEN {"denied"}
  ELSE IF KindOf(c) = "unknown" \/ (KindOf(c) = "client" /\ c \notin answers.results)
  THEN {"error"}
  ELSE {"success", "error"}

\* One call of the group ends.  An error may come before the tool ran (a
\* preflight check) or after it (a timeout).
CallEnds(c) ==
  /\ pc = "run" /\ c \in pending
  /\ pending' = pending \ {c}
  /\ \E note \in NotesOf(c) :
       /\ outputs' = [d \in DOMAIN outputs \cup {c} |-> IF d = c THEN note ELSE outputs[d]]
       /\ executed' \in {[executed EXCEPT ![c] = @ + n] :
                           n \in IF ~Runs(c) THEN {0}
                                 ELSE IF note = "success" THEN {1} ELSE {0, 1}}
  /\ UNCHANGED <<pc, iteration, messages, record, calls, group, cancel_requested, late,
                 turnVars, coreVars>>

\* gather returns.  Only a recovered step has further groups.
GroupEnds ==
  /\ pc = "run" /\ pending = {}
  /\ IF resumed /\ group # "client"
     THEN /\ group' = AfterGroup(group)
          /\ pc' = "group"
          /\ UNCHANGED <<messages, record, iteration, resumed, calls, outputs>>
     ELSE NextIteration
  /\ UNCHANGED <<pending, answers, cancel_requested, recovering,
                 executed, late, coreVars>>

\* The hard kill of a cancelled turn reaches the tool step; tools that were
\* running may have done their work.
ToolStepKilled ==
  /\ cancel_requested
  /\ pc \in {"parsed", "inputs", "group", "begin", "run"}
  /\ AbortStep
  /\ \E S \in SUBSET pending :
       /\ \A c \in S : Runs(c)
       /\ executed' = [c \in Calls |-> IF c \in S THEN executed[c] + 1 ELSE executed[c]]
  /\ pending' = {}
  /\ UNCHANGED <<iteration, messages, calls, outputs, group, cancel_requested, late,
                 turnVars, coreVars>>

-----------------------------------------------------------------------------
(* The coordinator around the loop.                                         *)

\* The request is over and its locals are gone.
Over ==
  /\ pc' = "idle" /\ iteration' = 0 /\ messages' = <<Prompt>> /\ record' = << >>
  /\ calls' = {} /\ outputs' = NoNotes /\ group' = "server" /\ pending' = {}
  /\ resumed' = FALSE /\ answers' = NoAnswers /\ cancel_requested' = FALSE
  /\ recovering' = 0 /\ late' = 0

\* delete_by_id; an id names one document.
Without(docs, id) ==
  IF \E i \in DOMAIN docs : docs[i].id = id
  THEN RemoveAt(docs, CHOOSE i \in DOMAIN docs : docs[i].id = id)
  ELSE docs

\* Mutant: a finished recovery deletes whatever chat is the newest.
persist_deletes_newest ==
  /\ pc \in {"persist", "aborted"}
  /\ suspended' = IF recovering # 0 THEN SubSeq(suspended, 1, Len(suspended) - 1) ELSE suspended
  /\ Over
  /\ UNCHANGED <<asked, executed, failures>>

\* The loop is over: archive, and drop the suspended chat this request recovered.
Persist ==
  /\ pc \in {"persist", "aborted"}
  /\ suspended' = Without(suspended, recovering)
  /\ Over
  /\ UNCHANGED <<asked, executed, failures>>

\* What escapes query_llm: a checkpoint whose Redis read raises, a suspended
\* chat or an archive that Mongo refuses, the hard kill outside the steps, the
\* death of the instance.  Nothing of the request is archived, and the
\* suspended chat it recovered stays.
RunLost ==
  /\ pc # "idle" /\ failures < MaxFailures
  /\ failures' = failures + 1
  /\ \E S \in SUBSET pending :
       /\ \A c \in S : Runs(c)
       /\ executed' = [c \in Calls |-> IF c \in S THEN executed[c] + 1 ELSE executed[c]]
  /\ Over
  /\ UNCHANGED <<suspended, asked>>

\* The recover endpoint: the newest suspended chat goes on where it stopped,
\* as a new turn with a cancel flag of its own.
Recover ==
  /\ pc = "idle" /\ suspended # << >>
  /\ LET doc == suspended[Len(suspended)]
         asks == doc.messages[Len(doc.messages)].calls
     IN  /\ messages' = doc.messages
         /\ iteration' = doc.iteration
         /\ recovering' = doc.id
         /\ answers' \in [approved : SUBSET classify_tools(asks, "approval"),
                          results  : SUBSET classify_tools(asks, "client")]
  /\ resumed' = TRUE
  /\ pc' = "top"
  /\ UNCHANGED <<record, calls, cancel_requested, suspended, asked, executed, late,
                 failures, toolVars>>

RequestCancel ==
  /\ pc # "idle" /\ ~cancel_requested
  /\ cancel_requested' = TRUE
  /\ UNCHANGED <<pc, iteration, messages, record, calls, executed, late,
                 toolVars, turnVars, coreVars>>

-----------------------------------------------------------------------------
LoopStep ==
  \/ OptionsInvalid \/ LoopTop \/ ResumeStep \/ StartStream
  \/ StreamEnds \/ StreamAborted \/ StreamFails
  \/ Classify \/ Suspend \/ BeforeDispatch \/ ResumeGroup \/ BeginGroup
  \/ (\E c \in Calls : CallEnds(c)) \/ GroupEnds \/ ToolStepKilled \/ Persist

Next == LoopStep \/ RunLost \/ Recover \/ RequestCancel

Spec == Init /\ [][Next]_vars

\* Models and tools answer, and nothing else keeps the loop waiting.
LiveSpec == Spec /\ WF_vars(LoopStep)

-----------------------------------------------------------------------------
(* Properties.                                                              *)

MessageType ==
  [role : {"prompt", "assistant", "tool"}, calls : SUBSET Calls,
   notes : UNION {[S -> Notes] : S \in SUBSET Calls}]

SuspendedType == [id : 1..MaxSteps, messages : Seq(MessageType), iteration : 0..MaxIterations]

TypeOK ==
  /\ pc \in Phases
  /\ iteration \in 0..MaxIterations
  /\ messages \in Seq(MessageType) /\ record \in Seq(MessageType)
  /\ calls \in SUBSET Calls
  /\ \E S \in SUBSET Calls : outputs \in [S -> Notes]
  /\ group \in Groups
  /\ pending \in SUBSET Calls
  /\ resumed \in BOOLEAN
  /\ answers \in [approved : SUBSET Calls, results : SUBSET Calls]
  /\ cancel_requested \in BOOLEAN
  /\ suspended \in Seq(SuspendedType)
  /\ recovering \in 0..MaxSteps
  /\ asked \in 0..MaxSteps
  /\ executed \in [Calls -> Nat]
  /\ late \in Nat
  /\ failures \in 0..MaxFailures

\* Model steps and tool steps alternate, and a tool step answers exactly the
\* calls of the model step before it.
Alternates(s) ==
  /\ Len(s) % 2 = 1
  /\ \A i \in 1..Len(s) :
       s[i].role = IF i = 1 THEN "prompt" ELSE IF i % 2 = 0 THEN "assistant" ELSE "tool"
  /\ \A i \in 1..Len(s) :
       i > 1 /\ i % 2 = 1 => DOMAIN s[i].notes = s[i - 1].calls

\* Whatever was suspended, recovered, cancelled or lost before, the context the
\* model is asked to continue answers every tool call exactly once: a provider
\* refuses a request whose tool calls dangle.
PromptWellFormed == pc = "stream" => Alternates(messages)

\* Wherever a cancel or the hard kill meets a turn, what it archives of its own steps
\* leaves no tool call unanswered: the next turn sends that history to the provider.
AbortedIsAnswered ==
  pc = "aborted" =>
    \A i \in DOMAIN record : \A c \in record[i].calls :
      \E j \in DOMAIN record : j > i /\ c \in DOMAIN record[j].notes

\* However often a turn is suspended and recovered, its context never holds more
\* than max_iterations model steps.
StepsBounded == Len(messages) <= 2 * MaxIterations + 1

\* Types, steps within their bound, a context that providers accept, and an aborted run
\* that answers the calls it archives.
LoopInv == TypeOK /\ StepsBounded /\ PromptWellFormed /\ AbortedIsAnswered

\* A high-risk tool only runs for a call the current request approved: neither
\* the approvals of an earlier recovery nor the first run let it through.
RunsOnlyApproved ==
  [][\A c \in Calls :
       executed'[c] # executed[c] /\ KindOf(c) = "approval"
         => resumed /\ c \in answers.approved]_vars

\* The server calls of a suspended step wait for the recovery and then run once:
\* only a run that failed half way makes a call run again.
CallsRunOnce == \A c \in Calls : executed[c] <= 1 + failures

\* After the user's cancel at most one more model step or tool dispatch begins,
\* the one whose checkpoint had already read the flag.
CancelStopsWork == late <= 1

\* The loop always comes to an end: an answer, a suspension, or an error.
LoopEnds == pc = "top" ~> pc = "idle"

=============================================================================
