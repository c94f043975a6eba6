------------------------------ MODULE ChatTurn ------------------------------
(***************************************************************************)
(* What a session remembers of its turns: the archive (MongoDB), the hot    *)
(* context (Redis), the rolling summary, the suspended chats and the bill.  *)
(* ChatTurnCoordinator runs one turn at a time (TurnStream shows why) and   *)
(* leaves billing and compression to background tasks, which outlive the    *)
(* turn and may overlap the next one.                                       *)
(*                                                                          *)
(* A message is the number of its creation; every message weighs one token; *)
(* a reply stands for everything one model step adds, tool results          *)
(* included.  A summary is the set of messages it was made from.  The loop  *)
(* inside a turn is QueryLoop; here it answers, suspends or fails at once.  *)
(* Lists stay far below the 50 messages at which Redis and the refill trim. *)
(***************************************************************************)
EXTENDS Naturals, Sequences, SequencesExt

CONSTANTS
  High, Low,    \* the watermarks of the context window, in messages
  Fates,    \* sets of events a session is exposed to, one drawn per behaviour
  MaxTurns,     \* bound on the requests of a behaviour
  MaxMessages,  \* bound on the messages of a behaviour
  MaxLost       \* bound on the runs and background tasks that are lost

\* compress: the context reaches the high watermark; overlap: a turn begins before the tasks of the
\* last one ended; expire: the hot context is gone; run_lost: a run or task dies half
\* way; the others are the failures that are logged or passed over: of a write (append_fails,
\* generation_fails, summary_unsaved, bill_fails), or of a read (..._unread).
Mishaps == {"compress", "overlap", "expire", "suspend", "recover", "run_lost", "append_fails",
           "generation_fails", "summary_unsaved", "bill_fails",
           "hot_unread", "history_unread", "summary_unread"}

\* What the parameters must be; the run's module assumes it.
Parameters ==
  /\ High \in Nat /\ Low \in Nat /\ Fates \subseteq SUBSET Mishaps
  /\ MaxTurns \in Nat /\ MaxMessages \in Nat \ {0, 1} /\ MaxLost \in Nat

VARIABLES
  pc,         \* where the turn in hand is (see TurnPhases)
  turn,       \* ChatTurnContext of that turn
  archive,    \* the stored messages of the session
  hot,        \* the hot context
  summary,    \* what the session summary covers, and when it was written
  suspended,  \* the suspended chats of the session
  jobs,       \* background tasks: contexts of turns that ended
  created,    \* messages created so far
  users,      \* those of them that are user messages
  billed,     \* history: message -> how often its tokens were billed
  unbilled,   \* history: messages whose tokens could not be reported
  closed,     \* history: messages of suspended chats that a new turn closed
  settled,    \* history: messages whose turn was persisted to its end
  turns,      \* requests so far
  lost,       \* runs and tasks lost so far
  missed,     \* history: requests that could not read the archive or the summary
  befalls     \* what may befall the session in this behaviour

storesVars == <<pc, turn, archive, hot, summary, suspended, jobs, created, users, billed, unbilled,
          closed, settled, turns, lost, missed, befalls>>

bills   == <<billed, unbilled>>
stores  == <<archive, hot, summary, bills, settled>>
counts  == <<turns, lost, missed>>
authors == <<created, users>>

-----------------------------------------------------------------------------
Messages == 1..MaxMessages

TurnPhases == {"idle", "load", "refill", "recall", "user", "llm", "hot", "archive", "finish",
           "bill", "summary", "reload", "delete"}

NoTurn == [mode |-> "none", doc |-> 0, record |-> << >>, usage |-> {},
           existing |-> {}, keep |-> << >>, cands |-> {}, needs |-> FALSE]

\* Mutant: the message at the low watermark is in neither part of the window.
window_drops_boundary(history) ==
  LET n == Len(history)
      k == IF n < Low THEN n ELSE Low
  IN [keep |-> SubSeq(history, n - k + 2, n),
      cands |-> ToSet(SubSeq(history, 1, n - k)),
      needs |-> "compress" \in befalls /\ n >= High]

\* build_windowed_messages: the newest Low messages are kept, the rest are candidates.
Window(history) ==
  LET n == Len(history)
      k == IF n < Low THEN n ELSE Low
  IN [keep |-> SubSeq(history, n - k + 1, n),
      cands |-> ToSet(SubSeq(history, 1, n - k)),
      needs |-> "compress" \in befalls /\ n >= High]

Windowed(t, history) ==
  LET w == Window(history)
  IN [t EXCEPT !.keep = w.keep, !.cands = w.cands, !.needs = w.needs]

\* What send_token_billing, the new summary and the reload do for a finished turn t.
Billed(t)   == [n \in Messages |-> IF n \in t.usage THEN billed[n] + 1 ELSE billed[n]]
Merged(t)   == [covers |-> t.existing \cup t.cands, at |-> created]
Reloaded(t) == LET all == t.keep \o t.record IN IF all = << >> THEN hot ELSE all

\* A session with one earlier turn behind it.
StoresInit ==
  /\ pc = "idle" /\ turn = NoTurn
  /\ archive = <<1, 2>> /\ hot = <<1, 2>>
  /\ summary = [covers |-> {}, at |-> 0]
  /\ suspended = {} /\ jobs = << >>
  /\ created = 2 /\ users = {1}
  /\ billed = [n \in Messages |-> IF n = 2 THEN 1 ELSE 0]
  /\ unbilled = {} /\ closed = {} /\ settled = {1, 2}
  /\ turns = 0 /\ lost = 0 /\ missed = {}
  /\ befalls \in Fates

-----------------------------------------------------------------------------
(* A request begins.                                                        *)

\* The lease of TurnStream is free; background tasks do not hold it.
MayBegin ==
  /\ pc = "idle" /\ turns < MaxTurns
  /\ "overlap" \in befalls \/ jobs = << >>

\* find_suspended_by_session: the latest one; its id is the number of its reply.
Latest == CHOOSE d \in suspended : \A e \in suspended : e.doc <= d.doc

Close(doc, n) ==
  [doc EXCEPT !.mode = "close", !.record = Append(@, n)]

\* handle_new_chat_start; a suspended chat is closed with an aborted reply first.
NewTurn ==
  /\ MayBegin
  /\ turns' = turns + 1
  /\ IF suspended = {}
       THEN /\ turn' = [NoTurn EXCEPT !.mode = "new"]
            /\ pc' = "load"
            /\ UNCHANGED <<created, closed>>
       ELSE /\ created < MaxMessages
            /\ created' = created + 1
            /\ turn' = Close(Latest, created')
            /\ closed' = closed \cup ToSet(turn'.record)
            /\ pc' = "hot"
  /\ UNCHANGED <<stores, suspended, jobs, users, lost, missed, befalls>>

\* Mutant: the recovered turn goes on from the stored record and usage.
recover_keeps_batch ==
  /\ "recover" \in befalls
  /\ MayBegin /\ suspended # {}
  /\ turns' = turns + 1
  /\ turn' = [Latest EXCEPT !.mode = "recover"]
  /\ pc' = "llm"
  /\ UNCHANGED <<stores, suspended, jobs, authors, closed, lost, missed, befalls>>

\* handle_suspended_chat_recover: the context of the suspended chat, an empty record.
Recover ==
  /\ "recover" \in befalls
  /\ MayBegin /\ suspended # {}
  /\ turns' = turns + 1
  /\ turn' = [Latest EXCEPT !.mode = "recover", !.record = << >>, !.usage = {}]
  /\ pc' = "llm"
  /\ UNCHANGED <<stores, suspended, jobs, authors, closed, lost, missed, befalls>>

-----------------------------------------------------------------------------
(* A new turn gathers its context and stores the user message.              *)

\* The messages created after at, in their order (list_session_messages).
Newer(messages, at) ==
  LET newer[i \in 0..Len(messages)] ==
        IF i = 0 THEN << >>
        ELSE IF messages[i] > at THEN Append(newer[i - 1], messages[i]) ELSE newer[i - 1]
  IN newer[Len(messages)]

\* get_chat_history_record_messages: the hot context if there is one and it can be read ...
Load ==
  /\ pc = "load"
  /\ \/ /\ hot = << >> \/ "hot_unread" \in befalls
        /\ pc' = "refill" /\ UNCHANGED turn
     \/ /\ hot # << >>
        /\ pc' = "recall" /\ turn' = Windowed(turn, hot)
  /\ UNCHANGED <<stores, suspended, jobs, authors, closed, counts, befalls>>

\* The turn goes on with a window over the messages it could read.
Refilled(history) ==
  /\ hot' = IF history = << >> THEN hot ELSE history
  /\ turn' = Windowed(turn, history)
  /\ UNCHANGED missed

\* An exception leaves it without history, whether it came before the write or after it.
Unrefilled(history) ==
  /\ "history_unread" \in befalls
  /\ hot' \in {hot, IF history = << >> THEN hot ELSE history}
  /\ turn' = Windowed(turn, << >>)
  /\ missed' = missed \cup {turns}

\* ... and otherwise the archived messages newer than the summary, written back.
Refill ==
  /\ pc = "refill"
  /\ LET history == Newer(archive, summary.at) IN Refilled(history) \/ Unrefilled(history)
  /\ pc' = "recall"
  /\ UNCHANGED <<archive, summary, bills, settled, suspended, jobs, authors, closed, turns, lost, befalls>>

\* get_session_summary; an exception is taken for a session without one.
Recall ==
  /\ pc = "recall"
  /\ \/ turn' = [turn EXCEPT !.existing = summary.covers] /\ UNCHANGED missed
     \/ /\ "summary_unread" \in befalls
        /\ turn' = [turn EXCEPT !.existing = {}] /\ missed' = missed \cup {turns}
  /\ pc' = "user"
  /\ UNCHANGED <<stores, suspended, jobs, authors, closed, turns, lost, befalls>>

\* persist_user_message, before the model is asked.
PersistUser ==
  /\ pc = "user" /\ created < MaxMessages
  /\ created' = created + 1
  /\ users' = users \cup {created'}
  /\ turn' = [turn EXCEPT !.record = <<created'>>]
  /\ archive' = Append(archive, created')
  /\ pc' = "llm"
  /\ UNCHANGED <<hot, summary, bills, settled, suspended, jobs, closed, counts, befalls>>

-----------------------------------------------------------------------------
(* query_llm: the loop answers, suspends, or ends without a message.        *)

Replied ==
  [turn EXCEPT !.record = Append(@, created'), !.usage = @ \cup {created'}]

\* The suspended chat is stored before the turn is persisted; a recovered one is
\* stored beside the chat it came from.
Suspended == suspended \cup {[turn' EXCEPT !.doc = created']}

Answer ==
  /\ pc = "llm" /\ created < MaxMessages
  /\ created' = created + 1
  /\ turn' = Replied
  /\ pc' = "hot"
  /\ \/ UNCHANGED suspended
     \/ "suspend" \in befalls /\ suspended' = Suspended
  /\ UNCHANGED <<stores, jobs, users, closed, counts, befalls>>

\* A ServiceException of the model call, or a cancel at the head of the loop.
NoAnswer ==
  /\ pc = "llm"
  /\ pc' = "hot"
  /\ UNCHANGED <<turn, stores, suspended, jobs, authors, closed, counts, befalls>>

-----------------------------------------------------------------------------
(* persist_messages, for a turn that ended and for a chat being closed.     *)

\* RPUSH of an empty record fails; a failure is logged and passed over.
AppendHot ==
  /\ pc = "hot"
  /\ \/ hot' = hot \o turn.record
     \/ "append_fails" \in befalls /\ UNCHANGED hot
  /\ pc' = "archive"
  /\ UNCHANGED <<turn, archive, summary, bills, settled, suspended, jobs, authors, closed, counts, befalls>>

\* Mutant: the first message is always skipped.
unstored_tail(t) == IF t.record = << >> THEN << >> ELSE Tail(t.record)

\* skip_first_user_message: a new turn has stored its user message already.
Unstored(t) == IF t.mode = "recover" THEN t.record ELSE Tail(t.record)

Archive ==
  /\ pc = "archive"
  /\ archive' = archive \o Unstored(turn)
  /\ IF turn.mode = "close"
       THEN pc' = "bill" /\ UNCHANGED settled
       ELSE pc' = "finish" /\ settled' = settled \cup ToSet(turn.record)
  /\ UNCHANGED <<turn, hot, summary, bills, suspended, jobs, authors, closed, counts, befalls>>

\* _set_post_completion_tasks; a title is asked for with the first message of the record, and
\* without one the exception ends a recovered turn before its suspended chat is deleted.
Finish ==
  /\ pc = "finish"
  /\ jobs' = Append(jobs, [stage |-> "bill", of |-> turn])
  /\ \/ turn.mode = "recover" /\ pc' = "delete" /\ UNCHANGED turn
     \/ /\ turn.mode # "recover" \/ turn.record = << >>
        /\ pc' = "idle" /\ turn' = NoTurn
  /\ UNCHANGED <<stores, suspended, authors, closed, counts, befalls>>

\* Deletion of the suspended chat that was recovered or closed, by its id.
Delete ==
  /\ pc = "delete"
  /\ suspended' = {d \in suspended : d.doc # turn.doc}
  /\ IF turn.mode = "close"
       THEN /\ pc' = "load" /\ turn' = [NoTurn EXCEPT !.mode = "new"]
            /\ settled' = settled \cup ToSet(turn.record)
       ELSE /\ pc' = "idle" /\ turn' = NoTurn
            /\ UNCHANGED settled
  /\ UNCHANGED <<archive, hot, summary, bills, jobs, authors, closed, counts, befalls>>

-----------------------------------------------------------------------------
(* Billing and compression of a turn t that is at stage s: at the end of    *)
(* close_unfinished_before_start, and as the background tasks of a turn.    *)

\* send_token_billing: a report that fails is logged and not made again.
Bill(t, s, next) ==
  /\ s = "bill"
  /\ \/ billed' = Billed(t) /\ UNCHANGED unbilled
     \/ "bill_fails" \in befalls /\ unbilled' = unbilled \cup t.usage /\ UNCHANGED billed
  /\ next = IF t.needs THEN "summary" ELSE "delete"
  /\ UNCHANGED <<hot, summary>>

\* summarize_and_compress: the summary is generated and saved.  If it cannot be
\* generated that is the end; if it cannot be saved the reload follows all the same.
Summarise(t, s, next) ==
  /\ s = "summary"
  /\ \/ summary' = Merged(t) /\ next = "reload"
     \/ "generation_fails" \in befalls /\ next = "delete" /\ UNCHANGED summary
     \/ "summary_unsaved" \in befalls /\ next = "reload" /\ UNCHANGED summary
  /\ UNCHANGED <<hot, bills>>

\* load_messages: the kept messages and the record replace the hot context.
Reload(t, s, next) ==
  /\ s = "reload"
  /\ hot' = Reloaded(t)
  /\ next = "delete"
  /\ UNCHANGED <<summary, bills>>

Complete(t, s, next) == Bill(t, s, next) \/ Summarise(t, s, next) \/ Reload(t, s, next)

CloseUnfinished ==
  /\ Complete(turn, pc, pc')
  /\ UNCHANGED <<turn, archive, settled, suspended, jobs, authors, closed, counts, befalls>>

Background ==
  /\ \E i \in DOMAIN jobs : \E next \in {"summary", "reload", "delete"} :
       /\ Complete(jobs[i].of, jobs[i].stage, next)
       /\ jobs' = IF next = "delete" THEN RemoveAt(jobs, i)
                                     ELSE [jobs EXCEPT ![i].stage = next]
  /\ UNCHANGED <<pc, turn, archive, settled, suspended, authors, closed, counts, befalls>>

-----------------------------------------------------------------------------
(* What befalls the session.                                                *)

\* The process stops, the lease is lost, or the archive refuses the messages.
RunLost ==
  /\ "run_lost" \in befalls
  /\ pc # "idle" /\ lost < MaxLost
  /\ pc' = "idle" /\ turn' = NoTurn
  /\ lost' = lost + 1
  /\ UNCHANGED <<stores, suspended, jobs, authors, closed, turns, missed, befalls>>

JobLost ==
  /\ "run_lost" \in befalls
  /\ lost < MaxLost
  /\ \E i \in DOMAIN jobs : jobs' = RemoveAt(jobs, i)
  /\ lost' = lost + 1
  /\ UNCHANGED <<pc, turn, stores, suspended, authors, closed, turns, missed, befalls>>

\* The hot context is kept for a week after its last use.
Expire ==
  /\ "expire" \in befalls
  /\ pc = "idle" /\ jobs = << >> /\ hot # << >>
  /\ hot' = << >>
  /\ UNCHANGED <<pc, turn, archive, summary, bills, settled, suspended, jobs, authors, closed, counts, befalls>>

StoresNext ==
  \/ NewTurn \/ Recover
  \/ Load \/ Refill \/ Recall \/ PersistUser
  \/ Answer \/ NoAnswer
  \/ AppendHot \/ Archive \/ Finish \/ Delete
  \/ CloseUnfinished \/ Background
  \/ RunLost \/ JobLost \/ Expire

StoresSpec == StoresInit /\ [][StoresNext]_storesVars

-----------------------------------------------------------------------------
Once(n) == \A i, j \in DOMAIN archive : archive[i] = n /\ archive[j] = n => i = j

\* Nothing of an earlier turn is under way, and nothing was lost.
Quiet == pc = "idle" /\ jobs = << >> /\ lost = 0

\* Types of the stores and of the turn in hand.
StoresTyped ==
  /\ pc \in TurnPhases
  /\ turn.mode \in {"none", "new", "recover", "close"}
  /\ archive \in Seq(Messages) /\ hot \in Seq(Messages)
  /\ summary \in [covers : SUBSET Messages, at : 0..MaxMessages]
  /\ created \in Messages /\ users \subseteq 1..created
  /\ billed \in [Messages -> Nat]
  /\ unbilled \subseteq 1..created /\ missed \subseteq 0..turns
  /\ (pc = "idle") <=> (turn.mode = "none")
  /\ turn.mode = "close" => Len(turn.record) >= 2

\* A user message is archived at most once, whatever is suspended, closed,
\* recovered, lost or retried: it is stored before the model runs and skipped
\* when its turn, or the suspended chat that kept it, is persisted.
UserOnce == \A n \in users : Once(n)

\* A turn that no later turn closed is archived and billed at most once, retried
\* recoveries included: the recovered batch starts from an empty record and usage.
NeverTwice ==
  \A n \in (1..created) \ closed : Once(n) /\ billed[n] <= 1

\* When the session is quiet every message is in the archive, and a reply that no new turn
\* closed has been billed unless reporting that very turn failed: the batches of a suspended
\* turn leave no gap between them.
NothingMissing ==
  Quiet => \A n \in 1..created :
             n \in ToSet(archive) /\ (n \in users \cup closed \cup unbilled \/ billed[n] >= 1)

\* At most one suspended chat is left by runs that end: a turn that suspends
\* again, and a turn that closes, delete the one they started from.
OneSuspended == pc = "idle" /\ lost = 0 => \A d, e \in suspended : d = e

\* The hot context of an idle session holds archived messages only.
HotIsArchived == pc = "idle" /\ lost = 0 => ToSet(hot) \subseteq ToSet(archive)

\* Types, nothing archived or billed twice, one suspended chat at most, and a hot
\* context that the archive covers.
StoresInv == StoresTyped /\ UserOnce /\ NeverTwice /\ OneSuspended /\ HotIsArchived

\* The sessions in which the hot context is complete or gone.  Otherwise it may be partial:
\* a reload drops what overlapped it, an append fails, a batch of a suspended turn or a
\* turn that could not read the archive is appended to a hot context that has gone.
HotIsWhole ==
  /\ befalls \cap {"append_fails", "summary_unsaved"} = {}
  /\ "compress" \in befalls => "overlap" \notin befalls
  /\ befalls \cap {"expire", "hot_unread"} # {} => "suspend" \notin befalls
  /\ "expire" \in befalls => "history_unread" \notin befalls

\* Of these, the ones in which the hot context and the summary lose nothing between them: no
\* refill or recovery meets a compression, which keeps messages older than its summary.
Remembers ==
  /\ HotIsWhole
  /\ "compress" \in befalls =>
       befalls \cap {"expire", "hot_unread", "recover", "summary_unread"} = {}

\* A new turn is about to ask the model, with all that it meant to read.
Prompted == pc = "llm" /\ turn.mode = "new" /\ turns \notin missed

\* The messages of the persisted turns that were created after the summary was written.
Recents == {n \in settled : n > summary.at}

\* The prompt of a new turn (handle_new_chat_start: history, then summary) holds every message
\* of the persisted turns, as it is or through the summary, whatever is refilled, compressed,
\* closed, overlapped or lost; and where a refill or a recovery meets a compression, every one
\* that was created after the summary, as it is.
NothingForgotten ==
  HotIsWhole /\ Prompted =>
    LET history == ToSet(turn.keep) \cup turn.cands
    IN  /\ Remembers => settled \subseteq history \cup turn.existing
        /\ Recents \subseteq history

\* Background work does not affect the next turn (comment in
\* _set_post_completion_tasks): overlapping it makes no difference to the prompt.
OverlapIsHarmless ==
  befalls \subseteq {"compress", "overlap"} /\ pc = "llm" /\ turn.mode = "new" =>
    settled \subseteq ToSet(turn.keep) \cup turn.cands \cup turn.existing
=============================================================================
