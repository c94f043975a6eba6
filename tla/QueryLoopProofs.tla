--------------------------- MODULE QueryLoopProofs ---------------------------
(***************************************************************************)
(* What the loop of a chat turn guarantees for any tools, kinds and bounds. *)
(***************************************************************************)
EXTENDS QueryLoop, TLAPS

-----------------------------------------------------------------------------
(* The inductive invariant.                                                 *)

\* Where the loop is not over yet.
Looping == pc \notin {"idle", "persist", "aborted"}

\* Types, and what the bounds of the loop rest on.
TypeInv ==
  /\ TypeOK
  /\ Looping => iteration < MaxIterations
  /\ pc \in {"stream", "parsed", "suspend"} => asked # 0
  /\ messages # << >>
  /\ \A i \in DOMAIN suspended :
       suspended[i].iteration < MaxIterations /\ suspended[i].messages # << >>

\* Only the first step of a recovered turn runs group after group.
PhaseInv ==
  /\ pc \in {"stream", "parsed", "inputs", "suspend"} => ~resumed
  /\ pc = "group" => resumed
  /\ ~resumed /\ pc \in {"begin", "run"} => group = "server"
  /\ ~resumed /\ pc \in {"inputs", "begin", "run"} => ~NeedsUser(calls)

\* Steps alternate, and tool messages answer the model message before them.
Ordered(s) ==
  \A i \in 1..Len(s) :
    /\ s[i].role = IF i = 1 THEN "prompt" ELSE IF i % 2 = 0 THEN "assistant" ELSE "tool"
    /\ i > 1 /\ i % 2 = 1 => DOMAIN s[i].notes = s[i - 1].calls

\* n steps that are answered, and a further model step that is not.
Closed(s, n) == Ordered(s) /\ Len(s) = 2 * n + 1
Dangling(s, n) == Ordered(s) /\ Len(s) = 2 * n + 2

Asks(s) == s[Len(s)].calls

\* The context is closed before a model step and dangles before the tool step of a
\* recovered turn, like every context that is stored.
ContextInv ==
  /\ Looping /\ ~resumed => Closed(messages, iteration)
  /\ Looping /\ resumed => Dangling(messages, iteration)
  /\ resumed /\ pc \in {"group", "begin", "run"} => calls = Asks(messages)
  /\ StepsBounded
  /\ \A i \in DOMAIN suspended : Dangling(suspended[i].messages, suspended[i].iteration)

\* The calls of the groups before group g.
Earlier(g) ==
  {c \in calls : \/ g # "server" /\ c \in classify_tools(calls, "server")
                 \/ g = "client" /\ c \in classify_tools(calls, "approval")}

\* Each group adds its results to those of the earlier ones.
OutputInv ==
  /\ pc # "run" => pending = {}
  /\ pc \notin {"group", "begin", "run", "persist", "aborted"} => DOMAIN outputs = {}
  /\ pc \in {"group", "begin"} => DOMAIN outputs = Earlier(group)
  /\ pc = "run" => /\ pending \subseteq classify_tools(calls, group)
                   /\ pending \cap DOMAIN outputs = {}
                   /\ pending \cup DOMAIN outputs = Earlier(group) \cup classify_tools(calls, group)

\* Every call of the messages s is answered by a later one.
Answered(s) ==
  \A i \in DOMAIN s : \A c \in s[i].calls : \E j \in DOMAIN s : j > i /\ c \in DOMAIN s[j].notes

RecordInv == pc # "persist" => Answered(record)

\* What began late began behind a checkpoint, and the next checkpoint stops it.
LateInv ==
  /\ late <= 1
  /\ late = 1 => cancel_requested
  /\ pc \in {"open", "begin"} => late = 0

\* The model step whose calls are in hand.
Owner == IF resumed THEN recovering ELSE asked

\* Calls are named after their step, and a stored chat has the name of its last one.
NameInv ==
  /\ \A i \in DOMAIN suspended :
       /\ suspended[i].id <= asked
       /\ ~resumed /\ pc \in {"stream", "parsed", "inputs", "suspend", "begin", "run"} =>
            suspended[i].id < asked
       /\ \A c \in Asks(suspended[i].messages) : c[1] = suspended[i].id
  /\ \A i, j \in DOMAIN suspended : suspended[i].id = suspended[j].id => i = j
  /\ recovering <= asked
  /\ pc = "idle" => recovering = 0
  /\ pc \in {"parsed", "inputs", "suspend", "group", "begin", "run"} =>
       \A c \in calls : c[1] = Owner
  /\ Looping /\ resumed => \A c \in Asks(messages) : c[1] = recovering

\* A call that is still to run ran at most once for every run that failed.
OnceInv ==
  /\ CallsRunOnce
  /\ \A c \in Calls : c[1] > asked \/ (pc = "stream" /\ c[1] = asked) => executed[c] = 0
  /\ pc \in {"parsed", "inputs", "suspend", "group", "begin", "run"} =>
       \A c \in calls \ DOMAIN outputs : executed[c] <= failures
  /\ resumed /\ pc \in {"top", "open"} => \A c \in Asks(messages) : executed[c] <= failures
  /\ \A i \in DOMAIN suspended : \A c \in Asks(suspended[i].messages) :
       suspended[i].id # recovering => executed[c] <= failures

LoopIInv ==
  /\ TypeInv /\ PhaseInv /\ ContextInv /\ OutputInv /\ RecordInv /\ LateInv /\ NameInv /\ OnceInv

-----------------------------------------------------------------------------
(* Lemmas about messages, groups and stored chats.                          *)

\* The messages the loop makes are messages.
LEMMA MessageTypes ==
  ASSUME NEW S \in SUBSET Calls, NEW f \in [S -> Notes]
  PROVE  Prompt \in MessageType /\ Assistant(S) \in MessageType /\ Results(f) \in MessageType
<1>1. NoNotes \in [{} -> Notes] /\ {} \in SUBSET Calls BY DEF NoNotes, Notes
<1>2. NoNotes \in UNION {[T -> Notes] : T \in SUBSET Calls} BY <1>1
<1>3. f \in UNION {[T -> Notes] : T \in SUBSET Calls} OBVIOUS
<1>4. QED BY <1>2, <1>3 DEF Prompt, Assistant, Results, MessageType

\* So is the answer to calls that were cut off.
LEMMA InterruptedType ==
  ASSUME NEW S \in SUBSET Calls
  PROVE  Interrupted(S) \in MessageType /\ DOMAIN Interrupted(S).notes = S
<1> DEFINE f == [c \in S |-> "interrupted"]
<1>1. f \in [S -> Notes] BY DEF Notes
<1>2. Results(f) \in MessageType BY <1>1, MessageTypes
<1>3. QED BY <1>2 DEF Interrupted, Results

\* A model step asks for calls of its own number.
LEMMA StepCallsType ==
  ASSUME asked \in 1..MaxSteps, NEW S \in StepCalls
  PROVE  S \in SUBSET Calls /\ \A c \in S : c[1] = asked
BY DEF StepCalls, Calls

\* A group takes calls of its step only, and the groups share no call and miss none.
LEMMA Groups3 ==
  ASSUME NEW S \in SUBSET Calls
  PROVE  /\ \A g : classify_tools(S, g) \subseteq S
         /\ \A c \in S : \/ c \in classify_tools(S, "server")
                         \/ c \in classify_tools(S, "approval")
                         \/ c \in classify_tools(S, "client")
         /\ \A c \in S : \A g, h \in Groups :
              c \in classify_tools(S, g) /\ c \in classify_tools(S, h) => g = h
         /\ \A c \in classify_tools(S, "server") : KindOf(c) # "approval"
         /\ ~NeedsUser(S) => classify_tools(S, "server") = S
<1>1. \A c \in S : KindOf(c) \in {"server", "approval", "client", "unknown"}
  BY KindAssumption DEF Calls, KindOf
<1>2. QED BY <1>1 DEF classify_tools, Groups, NeedsUser

\* What Without leaves are documents that were there, and not the one it drops.
LEMMA WithoutKeeps ==
  ASSUME NEW T, NEW docs \in Seq(T), NEW id,
         \A i, j \in DOMAIN docs : docs[i].id = docs[j].id => i = j
  PROVE  /\ Without(docs, id) \in Seq(T)
         /\ \A i \in DOMAIN Without(docs, id) :
              \E j \in DOMAIN docs : Without(docs, id)[i] = docs[j] /\ docs[j].id # id
         /\ \A i, j \in DOMAIN Without(docs, id) :
              Without(docs, id)[i].id = Without(docs, id)[j].id => i = j
<1>1. CASE ~ \E i \in DOMAIN docs : docs[i].id = id
  BY <1>1 DEF Without
<1>2. CASE \E i \in DOMAIN docs : docs[i].id = id
  <2> DEFINE k == CHOOSE i \in DOMAIN docs : docs[i].id = id
             front == SubSeq(docs, 1, k - 1)
             back  == SubSeq(docs, k + 1, Len(docs))
             rest  == front \o back
  <2>1. k \in 1..Len(docs) /\ docs[k].id = id BY <1>2
  <2>2. Without(docs, id) = rest BY <1>2 DEF Without, RemoveAt
  <2> HIDE DEF k
  <2>3. Len(docs) \in Nat /\ k \in Nat /\ k >= 1 /\ k <= Len(docs) BY <2>1
  <2>4. front \in Seq(T) /\ Len(front) = k - 1 /\ \A j \in 1..(k - 1) : front[j] = docs[j]
    BY <2>1, <2>3
  <2>5. back \in Seq(T) /\ Len(back) = Len(docs) - k
          /\ \A j \in 1..(Len(docs) - k) : back[j] = docs[k + j]
    BY <2>1, <2>3
  <2> HIDE DEF front, back
  <2>6. rest \in Seq(T) /\ Len(rest) = Len(docs) - 1
    <3>1. front \in Seq(T) /\ back \in Seq(T) BY <2>4, <2>5
    <3>2. rest \in Seq(T) /\ Len(rest) = Len(front) + Len(back) BY <3>1
    <3>3. QED BY <2>3, <2>4, <2>5, <3>2
  <2>7. \A j \in 1..(k - 1) : rest[j] = docs[j] BY <2>3, <2>4, <2>5
  <2>8. ASSUME NEW j \in k..(Len(docs) - 1) PROVE rest[j] = docs[j + 1]
    <3>1. rest[j] = back[j - (k - 1)] BY <2>3, <2>4, <2>5
    <3>2. j - (k - 1) \in 1..(Len(docs) - k) /\ k + (j - (k - 1)) = j + 1 BY <2>3
    <3>3. QED BY <2>5, <3>1, <3>2
  <2> HIDE DEF rest
  <2> DEFINE from(j) == IF j < k THEN j ELSE j + 1
  <2>9. \A j \in 1..(Len(docs) - 1) : j \in 1..(k - 1) \/ j \in k..(Len(docs) - 1)
    BY <2>3
  <2>10. ASSUME NEW j \in DOMAIN rest
         PROVE  from(j) \in DOMAIN docs /\ from(j) # k /\ rest[j] = docs[from(j)]
    <3>1. j \in 1..(Len(docs) - 1) BY <2>6
    <3>2. CASE j \in 1..(k - 1) BY <3>1, <3>2, <2>3, <2>7
    <3>3. CASE j \in k..(Len(docs) - 1) BY <3>1, <3>3, <2>3, <2>8
    <3>4. QED BY <2>9, <3>1, <3>2, <3>3
  <2>11. \A i, j \in DOMAIN rest : from(i) = from(j) => i = j
    BY <2>3, <2>6
  <2> HIDE DEF from
  <2>12. \A j \in DOMAIN rest : docs[from(j)].id # id
    BY <2>1, <2>10
  <2>13. QED BY <2>2, <2>6, <2>10, <2>11, <2>12
<1>3. QED BY <1>1, <1>2

\* What is in a sequence with one element more.
LEMMA Appended ==
  ASSUME NEW T, NEW s \in Seq(T), NEW e \in T
  PROVE  /\ Append(s, e) \in Seq(T) /\ Len(Append(s, e)) = Len(s) + 1
         /\ Append(s, e)[Len(s) + 1] = e
         /\ \A i \in 1..Len(s) : Append(s, e)[i] = s[i]
         /\ s \o <<e>> = Append(s, e) /\ s \o << >> = s
OBVIOUS

-----------------------------------------------------------------------------
(* Types.                                                                   *)


\* What a step adds to the record.
LEMMA NewMessagesType ==
  ASSUME TypeInv
  PROVE  NewMessages \in Seq(MessageType)
<1>1. Assistant(calls) \in MessageType
  <2>1. [c \in calls |-> "error"] \in [calls -> Notes] BY DEF Notes
  <2>2. QED BY <2>1, MessageTypes DEF TypeInv, TypeOK
<1>2. QED BY <1>1 DEF NewMessages

\* What an abort archives is made of messages.
LEMMA AbortType ==
  ASSUME TypeInv, AbortStep
  PROVE  record' \in Seq(MessageType) /\ pc' = "aborted"
<1>1. Interrupted(calls) \in MessageType BY InterruptedType DEF TypeInv, TypeOK
<1>2. <<Interrupted(calls)>> \in Seq(MessageType) BY <1>1
<1>3. record \in Seq(MessageType) BY DEF TypeInv, TypeOK
<1>4. QED BY <1>2, <1>3, NewMessagesType DEF AbortStep

\* What goes into the next iteration is made of messages.
LEMMA NextIterationType ==
  ASSUME TypeInv, Looping, NextIteration
  PROVE  /\ messages' \in Seq(MessageType) /\ messages' # << >>
         /\ record' \in Seq(MessageType)
         /\ iteration' \in 0..MaxIterations
         /\ pc' \in {"top", "persist"} /\ (pc' = "top" => iteration' < MaxIterations)
<1>1. Results(outputs) \in MessageType
  <2>1. PICK S \in SUBSET Calls : outputs \in [S -> Notes] BY DEF TypeInv, TypeOK
  <2>2. QED BY <2>1, MessageTypes
<1>2. ExhaustedWarning \in MessageType
  <2>1. NoNotes \in [{} -> Notes] /\ {} \in SUBSET Calls BY DEF NoNotes, Notes
  <2>2. QED BY <2>1, MessageTypes DEF ExhaustedWarning
<1>3. messages \in Seq(MessageType) /\ record \in Seq(MessageType) BY DEF TypeInv, TypeOK
<1>4. <<Results(outputs)>> \in Seq(MessageType) /\ Len(<<Results(outputs)>>) = 1 BY <1>1
<1>5. <<Results(outputs), ExhaustedWarning>> \in Seq(MessageType) BY <1>1, <1>2
<1> HIDE DEF Results
<1>6. messages' \in Seq(MessageType) /\ Len(messages') # 0
  BY <1>3, <1>4, NewMessagesType DEF NextIteration
<1>7. record' \in Seq(MessageType)
  <2>1. \/ record' = record \o NewMessages \o <<Results(outputs)>>
        \/ record' = record \o NewMessages \o <<Results(outputs), ExhaustedWarning>>
    BY DEF NextIteration
  <2>2. record \o NewMessages \in Seq(MessageType) BY <1>3, NewMessagesType
  <2>3. CASE record' = record \o NewMessages \o <<Results(outputs)>>
    BY <1>4, <2>2, <2>3
  <2>4. CASE record' = record \o NewMessages \o <<Results(outputs), ExhaustedWarning>>
    BY <1>5, <2>2, <2>4
  <2>5. QED BY <2>1, <2>3, <2>4
<1>8. iteration \in 0..MaxIterations /\ iteration < MaxIterations BY DEF TypeInv, TypeOK
<1>9. iteration' \in 0..MaxIterations BY <1>8, LoopBounds DEF NextIteration
<1>10. pc' \in {"top", "persist"} /\ (pc' = "top" => iteration' < MaxIterations)
  BY <1>8, LoopBounds DEF NextIteration
<1>11. QED BY <1>6, <1>7, <1>9, <1>10

\* The types, at first and in every step.
LEMMA TypeInit == Init => TypeInv
<1> SUFFICES ASSUME Init PROVE TypeInv OBVIOUS
<1>1. NoNotes \in [{} -> Notes] /\ {} \in SUBSET Calls BY DEF NoNotes, Notes
<1>2. Prompt \in MessageType BY <1>1, MessageTypes
<1>3. messages \in Seq(MessageType) /\ messages # << >> BY <1>2 DEF Init
<1>4. \E S \in SUBSET Calls : outputs \in [S -> Notes] BY <1>1 DEF Init
<1>5. record \in Seq(MessageType) /\ suspended \in Seq(SuspendedType) BY DEF Init
<1>6. answers \in [approved : SUBSET Calls, results : SUBSET Calls] BY DEF Init, NoAnswers
<1>7. executed \in [Calls -> Nat] BY DEF Init
<1>8. pc \in Phases /\ group \in Groups BY DEF Init, Phases, Groups
<1>9. /\ iteration \in 0..MaxIterations /\ recovering \in 0..MaxSteps /\ asked \in 0..MaxSteps
      /\ late \in Nat /\ failures \in 0..MaxFailures
  BY LoopBounds DEF Init
<1>10. /\ calls \in SUBSET Calls /\ pending \in SUBSET Calls
       /\ resumed \in BOOLEAN /\ cancel_requested \in BOOLEAN
  BY DEF Init
<1>11. TypeOK BY <1>3, <1>4, <1>5, <1>6, <1>7, <1>8, <1>9, <1>10 DEF TypeOK
<1>12. QED BY <1>3, <1>11, LoopBounds DEF Init, TypeInv, Looping

\* A request that is over leaves no local state behind.
LEMMA OverType ==
  ASSUME TypeInv, Over, executed' \in [Calls -> Nat], failures' \in 0..MaxFailures, asked' = asked,
         suspended' \in Seq(SuspendedType),
         \A i \in DOMAIN suspended' :
           suspended'[i].iteration < MaxIterations /\ suspended'[i].messages # << >>
  PROVE  TypeInv'
<1>1. NoNotes \in [{} -> Notes] /\ {} \in SUBSET Calls BY DEF NoNotes, Notes
<1>2. Prompt \in MessageType BY <1>1, MessageTypes
<1>3. messages' \in Seq(MessageType) /\ messages' # << >> BY <1>2 DEF Over
<1>4. \E S \in SUBSET Calls : outputs' \in [S -> Notes] BY <1>1 DEF Over
<1>5. answers' \in [approved : SUBSET Calls, results : SUBSET Calls] BY DEF Over, NoAnswers
<1>6. pc' \in Phases /\ group' \in Groups BY DEF Over, Phases, Groups
<1>7. iteration' \in 0..MaxIterations /\ recovering' \in 0..MaxSteps /\ late' \in Nat
  BY LoopBounds DEF Over
<1>8. /\ calls' \in SUBSET Calls /\ pending' \in SUBSET Calls
      /\ resumed' \in BOOLEAN /\ cancel_requested' \in BOOLEAN
  BY DEF Over
<1>9. asked' \in 0..MaxSteps /\ record' \in Seq(MessageType) BY DEF Over, TypeInv, TypeOK
<1>10. TypeOK' BY <1>3, <1>4, <1>5, <1>6, <1>7, <1>8, <1>9 DEF TypeOK
<1>11. QED BY <1>3, <1>10, LoopBounds DEF Over, TypeInv, Looping

LEMMA TypeStep == TypeInv /\ NameInv /\ [Next]_vars => TypeInv'
<1> SUFFICES ASSUME TypeInv, NameInv, [Next]_vars PROVE TypeInv'
  OBVIOUS
<1> USE LoopBounds DEF toolVars, turnVars, coreVars
<1>1. CASE OptionsInvalid
  BY <1>1 DEF OptionsInvalid, TypeInv, TypeOK, Phases, Looping
<1>2. CASE LoopTop
  BY <1>2 DEF LoopTop, TypeInv, TypeOK, Phases, Looping
<1>3. CASE ResumeStep
  <2>1. messages[Len(messages)] \in MessageType BY DEF TypeInv, TypeOK
  <2>2. calls' \in SUBSET Calls BY <1>3, <2>1 DEF ResumeStep, MessageType
  <2>3. NoNotes \in [{} -> Notes] /\ {} \in SUBSET Calls BY DEF NoNotes, Notes
  <2>4. \E S \in SUBSET Calls : outputs' \in [S -> Notes] BY <1>3, <2>3 DEF ResumeStep
  <2>5. QED BY <1>3, <2>2, <2>4 DEF ResumeStep, TypeInv, TypeOK, Phases, Groups, Looping
<1>4. CASE StartStream
  BY <1>4 DEF StartStream, CountLate, TypeInv, TypeOK, Phases, Looping
<1>5. CASE StreamEnds
  <2>1. PICK S \in StepCalls :
          IF S = {} THEN record' = Append(record, Assistant(S)) /\ pc' = "persist"
            /\ UNCHANGED calls
                    ELSE calls' = S /\ pc' = "parsed" /\ UNCHANGED record
    BY <1>5 DEF StreamEnds
  <2>2. asked \in 1..MaxSteps BY <1>5 DEF StreamEnds, TypeInv, TypeOK
  <2>3. S \in SUBSET Calls BY <2>2, StepCallsType
  <2>4. Assistant(S) \in MessageType
    <3>1. [c \in S |-> "error"] \in [S -> Notes] BY DEF Notes
    <3>2. QED BY <2>3, <3>1, MessageTypes
  <2>5. record \in Seq(MessageType) /\ calls \in SUBSET Calls BY DEF TypeInv, TypeOK
  <2>6. record' \in Seq(MessageType) /\ calls' \in SUBSET Calls /\ pc' \in {"persist", "parsed"}
    BY <2>1, <2>3, <2>4, <2>5
  <2>7. QED
    BY <1>5, <2>6 DEF StreamEnds, TypeInv, TypeOK, Phases, Looping
<1>6. CASE StreamAborted
  <2>1. PICK S \in StepCalls :
          record' = record \o (IF S = {} THEN <<Assistant(S)>> ELSE <<Assistant(S),
            Interrupted(S)>>)
    BY <1>6 DEF StreamAborted
  <2>2. asked \in 1..MaxSteps BY <1>6 DEF StreamAborted, TypeInv, TypeOK
  <2>3. S \in SUBSET Calls BY <2>2, StepCallsType
  <2>4. Assistant(S) \in MessageType /\ Interrupted(S) \in MessageType
    <3>1. [c \in S |-> "error"] \in [S -> Notes] BY DEF Notes
    <3>2. QED BY <2>3, <3>1, MessageTypes, InterruptedType
  <2>5. <<Assistant(S)>> \in Seq(MessageType)
          /\ <<Assistant(S), Interrupted(S)>> \in Seq(MessageType)
    BY <2>4
  <2>6. record' \in Seq(MessageType) BY <2>1, <2>5 DEF TypeInv, TypeOK
  <2>7. QED BY <1>6, <2>6 DEF StreamAborted, TypeInv, TypeOK, Phases, Looping
<1>7. CASE StreamFails
  BY <1>7 DEF StreamFails, TypeInv, TypeOK, Phases, Looping
<1>8. CASE Classify
  <2>1. record' \in Seq(MessageType) BY <1>8, AbortType DEF Classify, TypeInv, TypeOK
  <2>2. pc' \in {"aborted", "suspend", "inputs"} BY <1>8 DEF Classify, AbortStep
  <2>3. QED BY <1>8, <2>1, <2>2 DEF Classify, TypeInv, TypeOK, Phases, Looping
<1>9. CASE Suspend
  <2> DEFINE doc == [id |-> asked, messages |-> messages', iteration |-> iteration]
  <2>1. Assistant(calls) \in MessageType
    <3>1. [c \in calls |-> "error"] \in [calls -> Notes] BY DEF Notes
    <3>2. QED BY <3>1, MessageTypes DEF TypeInv, TypeOK
  <2>2. messages' \in Seq(MessageType) /\ messages' # << >> /\ record' \in Seq(MessageType)
    <3>1. messages \in Seq(MessageType) /\ record \in Seq(MessageType) BY DEF TypeInv, TypeOK
    <3>2. messages' = Append(messages, Assistant(calls))
            /\ record' = Append(record, Assistant(calls))
      BY <1>9 DEF Suspend
    <3>3. Len(messages') = Len(messages) + 1 BY <2>1, <3>1, <3>2
    <3>4. QED BY <2>1, <3>1, <3>2, <3>3
  <2>3. iteration \in 0..MaxIterations /\ iteration < MaxIterations /\ asked \in 1..MaxSteps
    BY <1>9 DEF Suspend, TypeInv, TypeOK, Looping
  <2>4. doc \in SuspendedType BY <2>2, <2>3 DEF SuspendedType
  <2>5. suspended' = Append(suspended, doc) BY <1>9 DEF Suspend
  <2>6. suspended \in Seq(SuspendedType) BY DEF TypeInv, TypeOK
  <2>7. doc.iteration < MaxIterations /\ doc.messages # << >> BY <2>2, <2>3
  <2> HIDE DEF doc
  <2>8. suspended' \in Seq(SuspendedType) BY <2>4, <2>5, <2>6
  <2>9. \A i \in DOMAIN suspended' :
          suspended'[i].iteration < MaxIterations /\ suspended'[i].messages # << >>
    BY <2>4, <2>5, <2>6, <2>7, Appended DEF TypeInv
  <2>10. QED BY <1>9, <2>2, <2>8, <2>9 DEF Suspend, TypeInv, TypeOK, Phases, Looping
<1>10. CASE BeforeDispatch
  <2>1. record' \in Seq(MessageType) BY <1>10, AbortType DEF BeforeDispatch, TypeInv, TypeOK
  <2>2. NoNotes \in [{} -> Notes] /\ {} \in SUBSET Calls BY DEF NoNotes, Notes
  <2>3. /\ \E S \in SUBSET Calls : outputs' \in [S -> Notes]
        /\ group' \in Groups /\ pending' \in SUBSET Calls
        /\ pc' \in {"aborted", "begin"}
    BY <1>10, <2>2 DEF BeforeDispatch, AbortStep, TypeInv, TypeOK, Groups
  <2>4. QED BY <1>10, <2>1, <2>3 DEF BeforeDispatch, TypeInv, TypeOK, Phases, Looping
<1>11. CASE ResumeGroup
  <2>1. CASE NextIteration
    <3>1. NoNotes \in [{} -> Notes] /\ {} \in SUBSET Calls BY DEF NoNotes, Notes
    <3>2. \E S \in SUBSET Calls : outputs' \in [S -> Notes] BY <2>1, <3>1 DEF NextIteration
    <3>3. calls' \in SUBSET Calls /\ group' \in Groups /\ resumed' \in BOOLEAN
      BY <2>1 DEF NextIteration, Groups
    <3>4. Looping BY <1>11 DEF ResumeGroup, Looping
    <3>5. QED
      BY <1>11, <2>1, <3>2, <3>3, <3>4, NextIterationType
      DEF ResumeGroup, TypeInv, TypeOK, Phases, Looping
  <2>2. CASE ~NextIteration
    <3>1. record' \in Seq(MessageType) BY <1>11, <2>2, AbortType DEF ResumeGroup, TypeInv, TypeOK
    <3>2. pc' \in {"aborted", "begin", "group"} BY <1>11, <2>2 DEF ResumeGroup, AbortStep
    <3>3. group' \in Groups BY <1>11, <2>2 DEF ResumeGroup, AfterGroup, Groups, TypeInv, TypeOK
    <3>4. QED
      BY <1>11, <2>2, <3>1, <3>2, <3>3 DEF ResumeGroup, TypeInv, TypeOK, Phases, Looping
  <2>3. QED BY <2>1, <2>2
<1>12. CASE BeginGroup
  <2>1. pending' \in SUBSET Calls BY <1>12, Groups3 DEF BeginGroup, TypeInv, TypeOK
  <2>2. QED BY <1>12, <2>1 DEF BeginGroup, CountLate, TypeInv, TypeOK, Phases, Looping
<1>13. ASSUME NEW c \in Calls, CallEnds(c) PROVE TypeInv'
  <2>1. PICK note \in NotesOf(c) :
          /\ outputs' = [d \in DOMAIN outputs \cup {c} |-> IF d = c THEN note ELSE outputs[d]]
          /\ executed' \in {[executed EXCEPT ![c] = @ + n] :
                              n \in IF ~Runs(c) THEN {0} ELSE IF note = "success" THEN {1} ELSE {0, 1}}
    BY <1>13 DEF CallEnds
  <2>2. note \in Notes BY DEF NotesOf, Notes
  <2>3. PICK S \in SUBSET Calls : outputs \in [S -> Notes] BY DEF TypeInv, TypeOK
  <2>4. S \cup {c} \in SUBSET Calls /\ outputs' \in [S \cup {c} -> Notes] BY <2>1, <2>2, <2>3
  <2>5. \E T \in SUBSET Calls : outputs' \in [T -> Notes] BY <2>4
  <2>6. executed' \in [Calls -> Nat] BY <2>1 DEF TypeInv, TypeOK
  <2>7. QED BY <1>13, <2>5, <2>6 DEF CallEnds, TypeInv, TypeOK, Phases, Looping
<1>14. CASE GroupEnds
  <2>1. CASE NextIteration
    <3>1. NoNotes \in [{} -> Notes] /\ {} \in SUBSET Calls BY DEF NoNotes, Notes
    <3>2. \E S \in SUBSET Calls : outputs' \in [S -> Notes] BY <2>1, <3>1 DEF NextIteration
    <3>3. calls' \in SUBSET Calls /\ group' \in Groups /\ resumed' \in BOOLEAN
      BY <2>1 DEF NextIteration, Groups
    <3>4. Looping BY <1>14 DEF GroupEnds, Looping
    <3>5. QED
      BY <1>14, <2>1, <3>2, <3>3, <3>4, NextIterationType
      DEF GroupEnds, TypeInv, TypeOK, Phases, Looping
  <2>2. CASE ~NextIteration
    <3>1. group' \in Groups BY <1>14, <2>2 DEF GroupEnds, AfterGroup, Groups
    <3>2. QED BY <1>14, <2>2, <3>1 DEF GroupEnds, TypeInv, TypeOK, Phases, Looping
  <2>3. QED BY <2>1, <2>2
<1>15. CASE ToolStepKilled
  <2>1. record' \in Seq(MessageType) /\ pc' = "aborted" BY <1>15, AbortType DEF ToolStepKilled
  <2>2. executed' \in [Calls -> Nat] BY <1>15 DEF ToolStepKilled, TypeInv, TypeOK
  <2>3. QED BY <1>15, <2>1, <2>2 DEF ToolStepKilled, TypeInv, TypeOK, Phases, Looping
<1>16. CASE Persist
  <2> DEFINE left == Without(suspended, recovering)
  <2>1. suspended \in Seq(SuspendedType) BY DEF TypeInv, TypeOK
  <2>2. /\ left \in Seq(SuspendedType)
        /\ \A i \in DOMAIN left : \E j \in DOMAIN suspended : left[i] = suspended[j]
    BY <2>1, WithoutKeeps DEF NameInv
  <2>3. suspended' = left BY <1>16 DEF Persist
  <2> HIDE DEF left
  <2>4. \A i \in DOMAIN suspended' :
          suspended'[i].iteration < MaxIterations /\ suspended'[i].messages # << >>
    BY <2>2, <2>3 DEF TypeInv
  <2>5. QED BY <1>16, <2>2, <2>3, <2>4, OverType DEF Persist, TypeInv, TypeOK
<1>17. CASE RunLost
  <2>1. executed' \in [Calls -> Nat] /\ failures' \in 0..MaxFailures
    BY <1>17 DEF RunLost, TypeInv, TypeOK
  <2>2. QED BY <1>17, <2>1, OverType DEF RunLost, TypeInv, TypeOK
<1>18. CASE Recover
  <2> DEFINE doc == suspended[Len(suspended)]
             asks == doc.messages[Len(doc.messages)].calls
  <2>1. Len(suspended) \in DOMAIN suspended BY <1>18 DEF Recover, TypeInv, TypeOK
  <2>2. doc \in SuspendedType /\ doc.iteration < MaxIterations /\ doc.messages # << >>
    BY <2>1 DEF TypeInv, TypeOK
  <2>3. doc.messages \in Seq(MessageType) /\ doc.id \in 1..MaxSteps
          /\ doc.iteration \in 0..MaxIterations
    BY <2>2 DEF SuspendedType
  <2>4. asks \in SUBSET Calls
    <3>1. doc.messages[Len(doc.messages)] \in MessageType BY <2>2, <2>3
    <3>2. QED BY <3>1 DEF MessageType
  <2>5. /\ messages' = doc.messages /\ iteration' = doc.iteration /\ recovering' = doc.id
        /\ answers' \in [approved : SUBSET classify_tools(asks, "approval"),
                          results  : SUBSET classify_tools(asks, "client")]
    BY <1>18 DEF Recover
  <2> HIDE DEF doc, asks
  <2>6. answers' \in [approved : SUBSET Calls, results : SUBSET Calls]
    BY <2>4, <2>5, Groups3
  <2>7. QED
    BY <1>18, <2>2, <2>3, <2>5, <2>6 DEF Recover, TypeInv, TypeOK, Phases, Looping
<1>19. CASE RequestCancel
  BY <1>19 DEF RequestCancel, TypeInv, TypeOK, Looping
<1>20. CASE UNCHANGED vars
  BY <1>20 DEF vars, TypeInv, TypeOK, Looping
<1>21. QED
  BY <1>1, <1>2, <1>3, <1>4, <1>5, <1>6, <1>7, <1>8, <1>9, <1>10, <1>11, <1>12, <1>13, <1>14,
     <1>15, <1>16, <1>17, <1>18, <1>19, <1>20
  DEF Next, LoopStep

-----------------------------------------------------------------------------
(* Where the loop is, and what its checkpoints stop.                        *)

\* Each phase of the loop knows what it has in hand.
LEMMA PhaseStep == TypeInv /\ PhaseInv /\ [Next]_vars => PhaseInv'
<1> SUFFICES ASSUME TypeInv, PhaseInv, [Next]_vars PROVE PhaseInv'
  OBVIOUS
<1> USE DEF toolVars, turnVars, coreVars
<1>1. CASE OptionsInvalid
  BY <1>1 DEF OptionsInvalid, PhaseInv, TypeInv, TypeOK
<1>2. CASE LoopTop
  BY <1>2 DEF LoopTop, PhaseInv, TypeInv, TypeOK
<1>3. CASE ResumeStep
  BY <1>3 DEF ResumeStep, PhaseInv, TypeInv, TypeOK
<1>4. CASE StartStream
  BY <1>4 DEF StartStream, PhaseInv, TypeInv, TypeOK
<1>5. CASE StreamEnds
  BY <1>5 DEF StreamEnds, PhaseInv, TypeInv, TypeOK
<1>6. CASE StreamAborted
  BY <1>6 DEF StreamAborted, PhaseInv, TypeInv, TypeOK
<1>7. CASE StreamFails
  BY <1>7 DEF StreamFails, PhaseInv, TypeInv, TypeOK
<1>8. CASE Classify
  BY <1>8 DEF Classify, AbortStep, PhaseInv, TypeInv, TypeOK
<1>9. CASE Suspend
  BY <1>9 DEF Suspend, PhaseInv, TypeInv, TypeOK
<1>10. CASE BeforeDispatch
  BY <1>10 DEF BeforeDispatch, AbortStep, PhaseInv, TypeInv, TypeOK
<1>11. CASE ResumeGroup
  BY <1>11 DEF ResumeGroup, AbortStep, NextIteration, PhaseInv, TypeInv, TypeOK
<1>12. CASE BeginGroup
  BY <1>12 DEF BeginGroup, PhaseInv, TypeInv, TypeOK
<1>13. ASSUME NEW c \in Calls, CallEnds(c) PROVE PhaseInv'
  BY <1>13 DEF CallEnds, PhaseInv, TypeInv, TypeOK
<1>14. CASE GroupEnds
  BY <1>14 DEF GroupEnds, NextIteration, PhaseInv, TypeInv, TypeOK
<1>15. CASE ToolStepKilled
  BY <1>15 DEF ToolStepKilled, AbortStep, PhaseInv, TypeInv, TypeOK
<1>16. CASE Persist
  BY <1>16 DEF Persist, Over, PhaseInv, TypeInv, TypeOK
<1>17. CASE RunLost
  BY <1>17 DEF RunLost, Over, PhaseInv, TypeInv, TypeOK
<1>18. CASE Recover
  BY <1>18 DEF Recover, PhaseInv, TypeInv, TypeOK
<1>19. CASE RequestCancel
  BY <1>19 DEF RequestCancel, PhaseInv, TypeInv, TypeOK
<1>20. CASE UNCHANGED vars
  BY <1>20 DEF vars, PhaseInv, TypeInv, TypeOK
<1>21. QED
  BY <1>1, <1>2, <1>3, <1>4, <1>5, <1>6, <1>7, <1>8, <1>9, <1>10,
     <1>11, <1>12, <1>13, <1>14, <1>15, <1>16, <1>17, <1>18, <1>19, <1>20
  DEF Next, LoopStep

\* Between two checkpoints at most one piece of work begins.
LEMMA LateStep == TypeInv /\ LateInv /\ [Next]_vars => LateInv'
<1> SUFFICES ASSUME TypeInv, LateInv, [Next]_vars PROVE LateInv'
  OBVIOUS
<1> USE DEF toolVars, turnVars, coreVars
<1>1. CASE OptionsInvalid
  BY <1>1 DEF OptionsInvalid, LateInv, TypeInv, TypeOK
<1>2. CASE LoopTop
  BY <1>2 DEF LoopTop, LateInv, TypeInv, TypeOK
<1>3. CASE ResumeStep
  BY <1>3 DEF ResumeStep, LateInv, TypeInv, TypeOK
<1>4. CASE StartStream
  BY <1>4 DEF StartStream, CountLate, LateInv, TypeInv, TypeOK
<1>5. CASE StreamEnds
  BY <1>5 DEF StreamEnds, LateInv, TypeInv, TypeOK
<1>6. CASE StreamAborted
  BY <1>6 DEF StreamAborted, LateInv, TypeInv, TypeOK
<1>7. CASE StreamFails
  BY <1>7 DEF StreamFails, LateInv, TypeInv, TypeOK
<1>8. CASE Classify
  BY <1>8 DEF Classify, AbortStep, LateInv, TypeInv, TypeOK
<1>9. CASE Suspend
  BY <1>9 DEF Suspend, LateInv, TypeInv, TypeOK
<1>10. CASE BeforeDispatch
  BY <1>10 DEF BeforeDispatch, AbortStep, LateInv, TypeInv, TypeOK
<1>11. CASE ResumeGroup
  BY <1>11 DEF ResumeGroup, AbortStep, NextIteration, LateInv, TypeInv, TypeOK
<1>12. CASE BeginGroup
  BY <1>12 DEF BeginGroup, CountLate, LateInv, TypeInv, TypeOK
<1>13. ASSUME NEW c \in Calls, CallEnds(c) PROVE LateInv'
  BY <1>13 DEF CallEnds, LateInv, TypeInv, TypeOK
<1>14. CASE GroupEnds
  BY <1>14 DEF GroupEnds, NextIteration, LateInv, TypeInv, TypeOK
<1>15. CASE ToolStepKilled
  BY <1>15 DEF ToolStepKilled, AbortStep, LateInv, TypeInv, TypeOK
<1>16. CASE Persist
  BY <1>16 DEF Persist, Over, LateInv, TypeInv, TypeOK
<1>17. CASE RunLost
  BY <1>17 DEF RunLost, Over, LateInv, TypeInv, TypeOK
<1>18. CASE Recover
  BY <1>18 DEF Recover, LateInv, TypeInv, TypeOK
<1>19. CASE RequestCancel
  BY <1>19 DEF RequestCancel, LateInv, TypeInv, TypeOK
<1>20. CASE UNCHANGED vars
  BY <1>20 DEF vars, LateInv, TypeInv, TypeOK
<1>21. QED
  BY <1>1, <1>2, <1>3, <1>4, <1>5, <1>6, <1>7, <1>8, <1>9, <1>10,
     <1>11, <1>12, <1>13, <1>14, <1>15, <1>16, <1>17, <1>18, <1>19, <1>20
  DEF Next, LoopStep

\* The groups before a group, that group and the groups after it split the calls.
LEMMA EarlierGroups ==
  ASSUME TypeInv
  PROVE  /\ Earlier("server") = {}
         /\ group # "client" => Earlier(AfterGroup(group)) = Earlier(group) \cup classify_tools(calls, group)
         /\ Earlier(group) \cap classify_tools(calls, group) = {}
         /\ Earlier("client") \cup classify_tools(calls, "client") = calls
         /\ ~NeedsUser(calls) => classify_tools(calls, "server") = calls
<1>1. calls \in SUBSET Calls /\ group \in Groups BY DEF TypeInv, TypeOK
<1>2. QED BY <1>1, Groups3 DEF Earlier, AfterGroup, Groups

\* Each group of a tool step adds its results and no other.
LEMMA OutputStep == TypeInv /\ PhaseInv /\ OutputInv /\ [Next]_vars => OutputInv'
<1> SUFFICES ASSUME TypeInv, PhaseInv, OutputInv, [Next]_vars PROVE OutputInv'
  OBVIOUS
<1> USE DEF toolVars, turnVars, coreVars
<1>1. CASE OptionsInvalid
  BY <1>1 DEF OptionsInvalid, OutputInv
<1>2. CASE LoopTop
  BY <1>2 DEF LoopTop, OutputInv
<1>3. CASE ResumeStep
  <2>1. Earlier("server")' = {} BY DEF Earlier
  <2>2. QED BY <1>3, <2>1 DEF ResumeStep, NoNotes, OutputInv
<1>4. CASE StartStream
  BY <1>4 DEF StartStream, CountLate, OutputInv
<1>5. CASE StreamEnds
  BY <1>5 DEF StreamEnds, OutputInv
<1>6. CASE StreamAborted
  BY <1>6 DEF StreamAborted, OutputInv
<1>7. CASE StreamFails
  BY <1>7 DEF StreamFails, OutputInv
<1>8. CASE Classify
  BY <1>8 DEF Classify, AbortStep, OutputInv
<1>9. CASE Suspend
  BY <1>9 DEF Suspend, OutputInv
<1>10. CASE BeforeDispatch
  <2>1. Earlier("server")' = {} BY DEF Earlier
  <2>2. QED BY <1>10, <2>1 DEF BeforeDispatch, AbortStep, NoNotes, OutputInv
<1>11. CASE ResumeGroup
  <2>1. pending' = {} BY <1>11 DEF ResumeGroup, OutputInv
  <2>2. CASE NextIteration BY <2>1, <2>2 DEF NextIteration, NoNotes, OutputInv
  <2>3. CASE ~NextIteration /\ classify_tools(calls, group) # {}
    <3>1. calls' = calls /\ group' = group /\ outputs' = outputs /\ pc' \in {"aborted", "begin"}
      BY <1>11, <2>3 DEF ResumeGroup, AbortStep
    <3>2. Earlier(group)' = Earlier(group) BY <3>1 DEF Earlier
    <3>3. QED BY <1>11, <2>1, <3>1, <3>2 DEF ResumeGroup, OutputInv
  <2>4. CASE ~NextIteration /\ classify_tools(calls, group) = {}
    <3>1. /\ group # "client" /\ calls' = calls /\ outputs' = outputs
          /\ group' = AfterGroup(group) /\ pc' = "group"
      BY <1>11, <2>4 DEF ResumeGroup
    <3>2. Earlier(group)' = Earlier(AfterGroup(group)) BY <3>1 DEF Earlier
    <3>3. DOMAIN outputs = Earlier(group) BY <1>11 DEF ResumeGroup, OutputInv
    <3>4. QED BY <2>1, <2>4, <3>1, <3>2, <3>3, EarlierGroups DEF OutputInv
  <2>5. QED BY <2>2, <2>3, <2>4
<1>12. CASE BeginGroup
  <2>1. Earlier(group)' = Earlier(group) BY <1>12 DEF BeginGroup, Earlier
  <2>2. QED BY <1>12, <2>1, EarlierGroups DEF BeginGroup, OutputInv
<1>13. ASSUME NEW c \in Calls, CallEnds(c) PROVE OutputInv'
  <2>1. Earlier(group)' = Earlier(group) BY <1>13 DEF CallEnds, Earlier
  <2>2. PICK note \in NotesOf(c) :
          outputs' = [d \in DOMAIN outputs \cup {c} |-> IF d = c THEN note ELSE outputs[d]]
    BY <1>13 DEF CallEnds
  <2>3. DOMAIN outputs' = DOMAIN outputs \cup {c} BY <2>2
  <2>4. QED BY <1>13, <2>1, <2>3 DEF CallEnds, OutputInv
<1>14. CASE GroupEnds
  <2>1. pending' = {} BY <1>14 DEF GroupEnds
  <2>2. CASE NextIteration BY <2>1, <2>2 DEF NextIteration, NoNotes, OutputInv
  <2>3. CASE ~NextIteration
    <3>1. /\ group # "client" /\ calls' = calls /\ outputs' = outputs
          /\ group' = AfterGroup(group) /\ pc' = "group"
      BY <1>14, <2>3 DEF GroupEnds
    <3>2. Earlier(group)' = Earlier(AfterGroup(group)) BY <3>1 DEF Earlier
    <3>3. DOMAIN outputs = Earlier(group) \cup classify_tools(calls, group)
      BY <1>14 DEF GroupEnds, OutputInv
    <3>4. QED BY <2>1, <3>1, <3>2, <3>3, EarlierGroups DEF OutputInv
  <2>4. QED BY <2>2, <2>3
<1>15. CASE ToolStepKilled
  BY <1>15 DEF ToolStepKilled, AbortStep, OutputInv
<1>16. CASE Persist
  BY <1>16 DEF Persist, Over, NoNotes, OutputInv
<1>17. CASE RunLost
  BY <1>17 DEF RunLost, Over, NoNotes, OutputInv
<1>18. CASE Recover
  BY <1>18 DEF Recover, OutputInv
<1>19. CASE RequestCancel
  BY <1>19 DEF RequestCancel, Earlier, OutputInv
<1>20. CASE UNCHANGED vars
  BY <1>20 DEF vars, Earlier, OutputInv
<1>21. QED
  BY <1>1, <1>2, <1>3, <1>4, <1>5, <1>6, <1>7, <1>8, <1>9, <1>10,
     <1>11, <1>12, <1>13, <1>14, <1>15, <1>16, <1>17, <1>18, <1>19, <1>20
  DEF Next, LoopStep

-----------------------------------------------------------------------------
(* What a turn archives of its own steps.                                   *)

\* An answered record stays so with a message that asks for nothing.
LEMMA AnsweredAppend ==
  ASSUME NEW s \in Seq(MessageType), Answered(s), NEW m \in MessageType, m.calls = {}
  PROVE  Answered(Append(s, m))
<1> DEFINE t == Append(s, m)
<1>1. Len(s) \in Nat /\ DOMAIN s = 1..Len(s) /\ DOMAIN t = 1..(Len(s) + 1) OBVIOUS
<1>2. t[Len(s) + 1] = m /\ \A i \in 1..Len(s) : t[i] = s[i] OBVIOUS
<1> HIDE DEF t
<1>3. ASSUME NEW i \in DOMAIN t, NEW c \in t[i].calls
      PROVE  \E j \in DOMAIN t : j > i /\ c \in DOMAIN t[j].notes
  <2>1. i \in 1..Len(s) /\ c \in s[i].calls BY <1>1, <1>2, <1>3
  <2>2. PICK j \in DOMAIN s : j > i /\ c \in DOMAIN s[j].notes BY <1>1, <2>1 DEF Answered
  <2>3. j \in DOMAIN t /\ t[j] = s[j] BY <1>1, <1>2
  <2>4. QED BY <2>2, <2>3
<1>4. QED BY <1>3 DEF Answered, t

\* A model message and the tool message that answers all its calls.
LEMMA AnsweredStep ==
  ASSUME NEW s \in Seq(MessageType), Answered(s), NEW a \in MessageType, NEW m \in MessageType,
         m.calls = {}, a.calls \subseteq DOMAIN m.notes
  PROVE  Answered(Append(Append(s, a), m))
<1> DEFINE t == Append(Append(s, a), m)
<1>1. Len(s) \in Nat /\ DOMAIN s = 1..Len(s) OBVIOUS
<1>2. Append(s, a) \in Seq(MessageType) /\ Len(Append(s, a)) = Len(s) + 1 OBVIOUS
<1>3. Append(s, a)[Len(s) + 1] = a /\ \A i \in 1..Len(s) : Append(s, a)[i] = s[i] OBVIOUS
<1>4. DOMAIN t = 1..(Len(s) + 2) BY <1>1, <1>2
<1>5. /\ t[Len(s) + 2] = m /\ t[Len(s) + 1] = a
      /\ \A i \in 1..Len(s) : t[i] = s[i]
  BY <1>1, <1>2, <1>3
<1> HIDE DEF t
<1>6. ASSUME NEW i \in DOMAIN t, NEW c \in t[i].calls
      PROVE  \E j \in DOMAIN t : j > i /\ c \in DOMAIN t[j].notes
  <2>1. CASE i \in 1..Len(s)
    <3>1. c \in s[i].calls BY <1>5, <1>6, <2>1
    <3>2. PICK j \in DOMAIN s : j > i /\ c \in DOMAIN s[j].notes BY <1>1, <2>1, <3>1 DEF Answered
    <3>3. j \in DOMAIN t /\ t[j] = s[j] BY <1>1, <1>4, <1>5
    <3>4. QED BY <3>2, <3>3
  <2>2. CASE i = Len(s) + 1
    <3>1. Len(s) + 2 \in DOMAIN t /\ Len(s) + 2 > i BY <1>1, <1>4, <2>2
    <3>2. c \in DOMAIN t[Len(s) + 2].notes BY <1>5, <1>6, <2>2
    <3>3. QED BY <3>1, <3>2
  <2>3. CASE i = Len(s) + 2 BY <1>5, <1>6, <2>3
  <2>4. QED BY <1>1, <1>4, <2>1, <2>2, <2>3
<1>7. QED BY <1>6 DEF Answered, t

\* An abort answers the calls it cuts off.
LEMMA AbortAnswered ==
  ASSUME TypeInv, Answered(record), AbortStep
  PROVE  Answered(record')
<1> DEFINE m == Interrupted(calls)
           a == Assistant(calls)
<1>1. m \in MessageType /\ DOMAIN m.notes = calls BY InterruptedType DEF TypeInv, TypeOK
<1>2. a \in MessageType
  <2>1. [c \in calls |-> "error"] \in [calls -> Notes] BY DEF Notes
  <2>2. QED BY <2>1, MessageTypes DEF TypeInv, TypeOK
<1>3. m.calls = {} /\ a.calls = calls BY DEF Interrupted, Results, Assistant
<1>4. record \in Seq(MessageType) BY DEF TypeInv, TypeOK
<1>5. record' = record \o NewMessages \o <<m>> /\ NewMessages = (IF resumed THEN << >> ELSE <<a>>)
  BY DEF AbortStep, NewMessages
<1> HIDE DEF m, a
<1>6. record' = IF resumed THEN Append(record, m) ELSE Append(Append(record, a), m)
  <2>1. record \o << >> = record /\ record \o <<a>> = Append(record, a) BY <1>2, <1>4
  <2>2. record \o <<m>> = Append(record, m) BY <1>1, <1>4
  <2>3. Append(record, a) \o <<m>> = Append(Append(record, a), m) BY <1>1, <1>2, <1>4
  <2>4. QED BY <1>5, <2>1, <2>2, <2>3
<1>7. QED BY <1>1, <1>2, <1>3, <1>4, <1>6, AnsweredAppend, AnsweredStep

\* When the loop goes on, every call of the step has its result.
LEMMA StepIsComplete ==
  ASSUME TypeInv, PhaseInv, OutputInv, NextIteration, ResumeGroup \/ GroupEnds
  PROVE  DOMAIN outputs = calls
<1>1. CASE ResumeGroup
  <2>1. group = "client" /\ classify_tools(calls, group) = {} /\ pc = "group"
    BY <1>1 DEF ResumeGroup, NextIteration, AbortStep
  <2>2. QED BY <2>1, EarlierGroups DEF OutputInv
<1>2. CASE GroupEnds
  <2>1. pc = "run" /\ pending = {} /\ ~(resumed /\ group # "client")
    BY <1>2 DEF GroupEnds, NextIteration
  <2>2. DOMAIN outputs = Earlier(group) \cup classify_tools(calls, group)
    BY <2>1 DEF OutputInv
  <2>3. QED BY <2>1, <2>2, EarlierGroups DEF PhaseInv
<1>3. QED BY <1>1, <1>2

\* A tool step that is archived answers all its calls.
LEMMA NextIterationAnswered ==
  ASSUME TypeInv, Answered(record), NextIteration, DOMAIN outputs = calls, pc' # "persist"
  PROVE  Answered(record')
<1> DEFINE m == Results(outputs)
           a == Assistant(calls)
<1>1. m \in MessageType /\ a \in MessageType
  <2>1. PICK S \in SUBSET Calls : outputs \in [S -> Notes] BY DEF TypeInv, TypeOK
  <2>2. QED BY <2>1, MessageTypes
<1>2. m.calls = {} /\ DOMAIN m.notes = calls /\ a.calls = calls BY DEF Results, Assistant
<1>3. record \in Seq(MessageType) BY DEF TypeInv, TypeOK
<1>4. record' = record \o NewMessages \o <<m>> /\ NewMessages = (IF resumed THEN << >> ELSE <<a>>)
  BY DEF NextIteration, NewMessages
<1> HIDE DEF m, a
<1>5. record' = IF resumed THEN Append(record, m) ELSE Append(Append(record, a), m)
  <2>1. record \o << >> = record /\ record \o <<a>> = Append(record, a) BY <1>1, <1>3
  <2>2. record \o <<m>> = Append(record, m) BY <1>1, <1>3
  <2>3. Append(record, a) \o <<m>> = Append(Append(record, a), m) BY <1>1, <1>3
  <2>4. QED BY <1>4, <2>1, <2>2, <2>3
<1>6. QED BY <1>1, <1>2, <1>3, <1>5, AnsweredAppend, AnsweredStep

\* A record that is archived is answered.
LEMMA RecordStep == TypeInv /\ PhaseInv /\ OutputInv /\ RecordInv /\ [Next]_vars => RecordInv'
<1> SUFFICES ASSUME TypeInv, PhaseInv, OutputInv, RecordInv, [Next]_vars PROVE RecordInv'
  OBVIOUS
<1> USE DEF toolVars, turnVars, coreVars
<1>1. CASE OptionsInvalid
  BY <1>1 DEF OptionsInvalid, RecordInv
<1>2. CASE LoopTop
  BY <1>2 DEF LoopTop, RecordInv
<1>3. CASE ResumeStep
  BY <1>3 DEF ResumeStep, RecordInv
<1>4. CASE StartStream
  BY <1>4 DEF StartStream, RecordInv
<1>5. CASE StreamEnds
  BY <1>5 DEF StreamEnds, RecordInv
<1>6. CASE StreamAborted
  <2>1. PICK S \in StepCalls :
          record' = record \o (IF S = {} THEN <<Assistant(S)>> ELSE <<Assistant(S),
            Interrupted(S)>>)
    BY <1>6 DEF StreamAborted
  <2> DEFINE a == Assistant(S)
             m == Interrupted(S)
  <2>2. S \in SUBSET Calls BY <1>6, StepCallsType DEF StreamAborted, TypeInv, TypeOK
  <2>3. a \in MessageType /\ m \in MessageType /\ DOMAIN m.notes = S
    <3>1. [c \in S |-> "error"] \in [S -> Notes] BY DEF Notes
    <3>2. QED BY <2>2, <3>1, MessageTypes, InterruptedType
  <2>4. m.calls = {} /\ a.calls = S BY DEF Interrupted, Results, Assistant
  <2>5. record \in Seq(MessageType) /\ Answered(record)
    BY <1>6 DEF StreamAborted, TypeInv, TypeOK, RecordInv
  <2>6. record' = record \o (IF S = {} THEN <<a>> ELSE <<a, m>>) BY <2>1
  <2> HIDE DEF a, m
  <2>7. record \o <<a>> = Append(record, a) /\ record \o <<a, m>> = Append(Append(record, a), m)
    BY <2>3, <2>5
  <2>8. Answered(record')
    BY <2>3, <2>4, <2>5, <2>6, <2>7, AnsweredAppend, AnsweredStep
  <2>9. QED BY <2>8 DEF RecordInv
<1>7. CASE StreamFails
  BY <1>7 DEF StreamFails, RecordInv
<1>8. CASE Classify
  <2>1. Answered(record) BY <1>8 DEF Classify, RecordInv
  <2>2. Answered(record') BY <1>8, <2>1, AbortAnswered DEF Classify
  <2>3. QED BY <2>2 DEF RecordInv
<1>9. CASE Suspend
  BY <1>9 DEF Suspend, RecordInv
<1>10. CASE BeforeDispatch
  <2>1. Answered(record) BY <1>10 DEF BeforeDispatch, RecordInv
  <2>2. Answered(record') BY <1>10, <2>1, AbortAnswered DEF BeforeDispatch
  <2>3. QED BY <2>2 DEF RecordInv
<1>11. CASE ResumeGroup
  <2>1. Answered(record) BY <1>11 DEF ResumeGroup, RecordInv
  <2>2. CASE NextIteration
    <3>1. DOMAIN outputs = calls BY <1>11, <2>2, StepIsComplete
    <3>2. QED BY <2>1, <2>2, <3>1, NextIterationAnswered DEF RecordInv
  <2>3. CASE ~NextIteration
    <3>1. Answered(record') BY <1>11, <2>1, <2>3, AbortAnswered DEF ResumeGroup
    <3>2. QED BY <3>1 DEF RecordInv
  <2>4. QED BY <2>2, <2>3
<1>12. CASE BeginGroup
  BY <1>12 DEF BeginGroup, RecordInv
<1>13. ASSUME NEW c \in Calls, CallEnds(c) PROVE RecordInv'
  BY <1>13 DEF CallEnds, RecordInv
<1>14. CASE GroupEnds
  <2>1. Answered(record) BY <1>14 DEF GroupEnds, RecordInv
  <2>2. CASE NextIteration
    <3>1. DOMAIN outputs = calls BY <1>14, <2>2, StepIsComplete
    <3>2. QED BY <2>1, <2>2, <3>1, NextIterationAnswered DEF RecordInv
  <2>3. CASE ~NextIteration BY <1>14, <2>1, <2>3 DEF GroupEnds, RecordInv
  <2>4. QED BY <2>2, <2>3
<1>15. CASE ToolStepKilled
  <2>1. Answered(record) BY <1>15 DEF ToolStepKilled, RecordInv
  <2>2. Answered(record') BY <1>15, <2>1, AbortAnswered DEF ToolStepKilled
  <2>3. QED BY <2>2 DEF RecordInv
<1>16. CASE Persist
  <2>1. record' = << >> BY <1>16 DEF Persist, Over
  <2>2. Answered(record') BY <2>1 DEF Answered
  <2>3. QED BY <2>2 DEF RecordInv
<1>17. CASE RunLost
  <2>1. record' = << >> BY <1>17 DEF RunLost, Over
  <2>2. Answered(record') BY <2>1 DEF Answered
  <2>3. QED BY <2>2 DEF RecordInv
<1>18. CASE Recover
  BY <1>18 DEF Recover, RecordInv
<1>19. CASE RequestCancel
  BY <1>19 DEF RequestCancel, RecordInv
<1>20. CASE UNCHANGED vars
  BY <1>20 DEF vars, RecordInv
<1>21. QED
  BY <1>1, <1>2, <1>3, <1>4, <1>5, <1>6, <1>7, <1>8, <1>9, <1>10,
     <1>11, <1>12, <1>13, <1>14, <1>15, <1>16, <1>17, <1>18, <1>19, <1>20
  DEF Next, LoopStep

-----------------------------------------------------------------------------
(* The context the model is asked to continue.                              *)

\* A model step leaves the context dangling ...
LEMMA StepDangles ==
  ASSUME NEW s \in Seq(MessageType), NEW n \in Nat, Closed(s, n), NEW S \in SUBSET Calls
  PROVE  /\ Dangling(Append(s, Assistant(S)), n)
         /\ Asks(Append(s, Assistant(S))) = S
         /\ Append(s, Assistant(S)) \in Seq(MessageType)
<1> DEFINE a == Assistant(S)
           t == Append(s, a)
<1>1. a \in MessageType /\ a.role = "assistant" /\ a.calls = S
  <2>1. [c \in S |-> "error"] \in [S -> Notes] BY DEF Notes
  <2>2. QED BY <2>1, MessageTypes DEF Assistant
<1> HIDE DEF a
<1>2. Len(s) = 2 * n + 1 /\ Len(t) = 2 * n + 2 BY <1>1 DEF Closed
<1>3. t[2 * n + 2] = a /\ \A i \in 1..(2 * n + 1) : t[i] = s[i] BY <1>1, <1>2
<1>4. t \in Seq(MessageType) BY <1>1
<1> HIDE DEF t
<1>5. ASSUME NEW i \in 1..Len(t)
      PROVE  /\ t[i].role = IF i = 1 THEN "prompt" ELSE IF i % 2 = 0 THEN "assistant" ELSE "tool"
             /\ i > 1 /\ i % 2 = 1 => DOMAIN t[i].notes = t[i - 1].calls
  <2>1. CASE i \in 1..(2 * n + 1)
    <3>1. t[i] = s[i] /\ (i > 1 => t[i - 1] = s[i - 1]) BY <1>3, <2>1
    <3>2. QED BY <1>2, <2>1, <3>1 DEF Closed, Ordered
  <2>2. CASE i = 2 * n + 2
    <3>1. i % 2 = 0 /\ i # 1 BY <2>2
    <3>2. QED BY <1>1, <1>3, <2>2, <3>1
  <2>3. QED BY <1>2, <2>1, <2>2
<1>6. Ordered(t) BY <1>5 DEF Ordered
<1>7. QED BY <1>1, <1>2, <1>3, <1>4, <1>6 DEF Dangling, Asks, t, a

\* ... and the results of all its calls close it.
LEMMA ResultsClose ==
  ASSUME NEW s \in Seq(MessageType), NEW n \in Nat, Dangling(s, n),
         NEW f, Results(f) \in MessageType, DOMAIN f = Asks(s)
  PROVE  Closed(Append(s, Results(f)), n + 1)
<1> DEFINE m == Results(f)
           t == Append(s, m)
<1>1. m \in MessageType /\ m.role = "tool" /\ DOMAIN m.notes = Asks(s) BY DEF Results
<1> HIDE DEF m
<1>2. Len(s) = 2 * n + 2 /\ Len(t) = 2 * n + 3 BY <1>1 DEF Dangling
<1>3. t[2 * n + 3] = m /\ \A i \in 1..(2 * n + 2) : t[i] = s[i] BY <1>1, <1>2
<1> HIDE DEF t
<1>4. ASSUME NEW i \in 1..Len(t)
      PROVE  /\ t[i].role = IF i = 1 THEN "prompt" ELSE IF i % 2 = 0 THEN "assistant" ELSE "tool"
             /\ i > 1 /\ i % 2 = 1 => DOMAIN t[i].notes = t[i - 1].calls
  <2>1. CASE i \in 1..(2 * n + 2)
    <3>1. t[i] = s[i] /\ (i > 1 => t[i - 1] = s[i - 1]) BY <1>3, <2>1
    <3>2. QED BY <1>2, <2>1, <3>1 DEF Dangling, Ordered
  <2>2. CASE i = 2 * n + 3
    <3>1. i % 2 = 1 /\ i # 1 /\ i - 1 = 2 * n + 2 /\ i - 1 \in 1..(2 * n + 2) BY <2>2
    <3>2. t[i - 1].calls = Asks(s) BY <1>2, <1>3, <3>1 DEF Asks
    <3>3. QED BY <1>1, <1>3, <2>2, <3>1, <3>2
  <2>3. QED BY <1>2, <2>1, <2>2
<1>5. Ordered(t) BY <1>4 DEF Ordered
<1>6. QED BY <1>2, <1>5 DEF Closed, t, m

\* A tool step with all results closes the context.
LEMMA NextIterationCloses ==
  ASSUME TypeInv, ContextInv, Looping, NextIteration, DOMAIN outputs = calls,
         resumed => pc \in {"group", "begin", "run"}
  PROVE  Closed(messages', iteration') /\ Len(messages') <= 2 * MaxIterations + 1
<1>1. PICK S \in SUBSET Calls : outputs \in [S -> Notes] BY DEF TypeInv, TypeOK
<1>2. Results(outputs) \in MessageType /\ messages \in Seq(MessageType) /\ calls \in SUBSET Calls
  BY <1>1, MessageTypes DEF TypeInv, TypeOK
<1>3. iteration \in Nat /\ iteration < MaxIterations /\ iteration' = iteration + 1
  BY DEF TypeInv, TypeOK, NextIteration
<1> DEFINE s == IF resumed THEN messages ELSE Append(messages, Assistant(calls))
<1>4. s \in Seq(MessageType) /\ Dangling(s, iteration) /\ Asks(s) = calls
  <2>1. CASE resumed BY <1>2, <2>1 DEF ContextInv
  <2>2. CASE ~resumed BY <1>2, <1>3, <2>2, StepDangles DEF ContextInv
  <2>3. QED BY <2>1, <2>2
<1>5. messages' = Append(s, Results(outputs))
  <2>1. messages' = messages \o NewMessages \o <<Results(outputs)>> BY DEF NextIteration
  <2>2. Assistant(calls) \in MessageType
    <3>1. [c \in calls |-> "error"] \in [calls -> Notes] BY DEF Notes
    <3>2. QED BY <1>2, <3>1, MessageTypes
  <2>3. messages \o << >> = messages /\ messages \o <<Assistant(calls)>> = Append(messages,
          Assistant(calls))
    BY <1>2, <2>2
  <2>4. messages \o NewMessages = s BY <2>3 DEF NewMessages
  <2> HIDE DEF s
  <2>5. s \o <<Results(outputs)>> = Append(s, Results(outputs)) BY <1>2, <1>4
  <2>6. QED BY <2>1, <2>4, <2>5
<1> HIDE DEF s
<1>6. Closed(messages', iteration + 1) BY <1>2, <1>3, <1>4, <1>5, ResultsClose
<1>7. Len(messages') = 2 * (iteration + 1) + 1 BY <1>6 DEF Closed
<1>8. QED BY <1>3, <1>6, <1>7, LoopBounds

\* Contexts are closed before a model step, and dangle by one step while a turn waits.
LEMMA ContextStep == TypeInv /\ PhaseInv /\ OutputInv /\ NameInv /\ ContextInv
    /\ [Next]_vars => ContextInv'
<1> SUFFICES ASSUME TypeInv, PhaseInv, OutputInv, NameInv, ContextInv, [Next]_vars PROVE ContextInv'
  OBVIOUS
<1> USE DEF toolVars, turnVars, coreVars
<1>1. CASE OptionsInvalid
  BY <1>1 DEF OptionsInvalid, ContextInv, PhaseInv, Looping, StepsBounded
<1>2. CASE LoopTop
  BY <1>2 DEF LoopTop, ContextInv, PhaseInv, Looping, StepsBounded
<1>3. CASE ResumeStep
  BY <1>3 DEF ResumeStep, Asks, ContextInv, Looping, StepsBounded
<1>4. CASE StartStream
  BY <1>4 DEF StartStream, ContextInv, PhaseInv, Looping, StepsBounded
<1>5. CASE StreamEnds
  BY <1>5 DEF StreamEnds, ContextInv, PhaseInv, Looping, StepsBounded
<1>6. CASE StreamAborted
  BY <1>6 DEF StreamAborted, ContextInv, PhaseInv, Looping, StepsBounded
<1>7. CASE StreamFails
  BY <1>7 DEF StreamFails, ContextInv, PhaseInv, Looping, StepsBounded
<1>8. CASE Classify
  BY <1>8 DEF Classify, AbortStep, ContextInv, PhaseInv, Looping, StepsBounded
<1>9. CASE Suspend
  <2> DEFINE doc == [id |-> asked, messages |-> messages', iteration |-> iteration]
  <2>1. /\ ~resumed /\ Looping /\ messages \in Seq(MessageType) /\ calls \in SUBSET Calls
        /\ iteration \in Nat /\ iteration < MaxIterations
    BY <1>9 DEF Suspend, PhaseInv, Looping, TypeInv, TypeOK
  <2>2. Closed(messages, iteration) BY <2>1 DEF ContextInv
  <2>3. messages' = Append(messages, Assistant(calls)) /\ suspended' = Append(suspended, doc)
    BY <1>9 DEF Suspend
  <2>4. Dangling(messages', iteration) BY <2>1, <2>2, <2>3, StepDangles
  <2>5. doc.messages = messages' /\ doc.iteration = iteration OBVIOUS
  <2>6. suspended \in Seq(SuspendedType) BY DEF TypeInv, TypeOK
  <2> HIDE DEF doc
  <2>7. \A i \in DOMAIN suspended' : Dangling(suspended'[i].messages, suspended'[i].iteration)
    <3>1. Len(suspended') = Len(suspended) + 1 /\ suspended'[Len(suspended) + 1] = doc
      BY <2>3, <2>6
    <3>2. \A i \in 1..Len(suspended) : suspended'[i] = suspended[i] BY <2>3, <2>6
    <3>3. DOMAIN suspended' = 1..(Len(suspended) + 1) /\ DOMAIN suspended = 1..Len(suspended)
      BY <2>3, <2>6
    <3>4. QED BY <2>4, <2>5, <3>1, <3>2, <3>3 DEF ContextInv
  <2>8. Len(messages') <= 2 * MaxIterations + 1 BY <2>1, <2>4, LoopBounds DEF Dangling
  <2>9. QED BY <1>9, <2>7, <2>8 DEF Suspend, ContextInv, StepsBounded, Looping
<1>10. CASE BeforeDispatch
  BY <1>10 DEF BeforeDispatch, AbortStep, ContextInv, PhaseInv, Looping, StepsBounded
<1>11. CASE ResumeGroup
  <2>1. Looping /\ suspended' = suspended /\ (resumed => pc \in {"group", "begin", "run"})
    BY <1>11 DEF ResumeGroup, Looping
  <2>2. CASE NextIteration
    <3>1. Closed(messages', iteration') /\ Len(messages') <= 2 * MaxIterations + 1
      BY <1>11, <2>1, <2>2, StepIsComplete, NextIterationCloses
    <3>2. QED BY <2>1, <2>2, <3>1 DEF NextIteration, ContextInv, StepsBounded
  <2>3. CASE ~NextIteration
    BY <1>11, <2>1, <2>3 DEF ResumeGroup, AbortStep, ContextInv, StepsBounded, Looping
  <2>4. QED BY <2>2, <2>3
<1>12. CASE BeginGroup
  BY <1>12 DEF BeginGroup, ContextInv, PhaseInv, Looping, StepsBounded
<1>13. ASSUME NEW c \in Calls, CallEnds(c) PROVE ContextInv'
  BY <1>13 DEF CallEnds, ContextInv, PhaseInv, Looping, StepsBounded
<1>14. CASE GroupEnds
  <2>1. Looping /\ suspended' = suspended /\ (resumed => pc \in {"group", "begin", "run"})
    BY <1>14 DEF GroupEnds, Looping
  <2>2. CASE NextIteration
    <3>1. Closed(messages', iteration') /\ Len(messages') <= 2 * MaxIterations + 1
      BY <1>14, <2>1, <2>2, StepIsComplete, NextIterationCloses
    <3>2. QED BY <2>1, <2>2, <3>1 DEF NextIteration, ContextInv, StepsBounded
  <2>3. CASE ~NextIteration
    BY <1>14, <2>1, <2>3 DEF GroupEnds, AbortStep, ContextInv, StepsBounded, Looping
  <2>4. QED BY <2>2, <2>3
<1>15. CASE ToolStepKilled
  BY <1>15 DEF ToolStepKilled, AbortStep, ContextInv, PhaseInv, Looping, StepsBounded
<1>16. CASE Persist
  <2>1. suspended' = Without(suspended, recovering) /\ suspended \in Seq(SuspendedType)
    BY <1>16 DEF Persist, TypeInv, TypeOK
  <2>2. \A i \in DOMAIN suspended' : \E j \in DOMAIN suspended : suspended'[i] = suspended[j]
    BY <2>1, WithoutKeeps DEF NameInv
  <2>3. \A i \in DOMAIN suspended' : Dangling(suspended'[i].messages, suspended'[i].iteration)
    BY <2>2 DEF ContextInv
  <2>4. Len(messages') = 1 /\ pc' = "idle" BY <1>16 DEF Persist, Over
  <2>5. QED BY <2>3, <2>4, LoopBounds DEF ContextInv, StepsBounded, Looping
<1>17. CASE RunLost
  <2>1. Len(messages') = 1 /\ pc' = "idle" /\ suspended' = suspended BY <1>17 DEF RunLost, Over
  <2>2. QED BY <2>1, LoopBounds DEF ContextInv, StepsBounded, Looping
<1>18. CASE Recover
  <2>1. Len(suspended) \in DOMAIN suspended /\ suspended \in Seq(SuspendedType)
    BY <1>18 DEF Recover, TypeInv, TypeOK
  <2> DEFINE doc == suspended[Len(suspended)]
  <2>2. /\ messages' = doc.messages /\ iteration' = doc.iteration /\ pc' = "top"
        /\ resumed' = TRUE /\ suspended' = suspended
    BY <1>18 DEF Recover
  <2>3. Dangling(doc.messages, doc.iteration) BY <2>1 DEF ContextInv
  <2>4. doc.iteration \in Nat /\ doc.iteration < MaxIterations
    <3>1. doc \in SuspendedType /\ doc.iteration < MaxIterations BY <2>1 DEF TypeInv
    <3>2. QED BY <3>1 DEF SuspendedType
  <2> HIDE DEF doc
  <2>5. Len(messages') <= 2 * MaxIterations + 1 BY <2>2, <2>3, <2>4, LoopBounds DEF Dangling
  <2>6. QED BY <2>2, <2>3, <2>5 DEF ContextInv, StepsBounded, Looping
<1>19. CASE RequestCancel
  BY <1>19 DEF RequestCancel, ContextInv, PhaseInv, Looping, StepsBounded
<1>20. CASE UNCHANGED vars
  BY <1>20 DEF vars, ContextInv, PhaseInv, Looping, StepsBounded
<1>21. QED
  BY <1>1, <1>2, <1>3, <1>4, <1>5, <1>6, <1>7, <1>8, <1>9, <1>10,
     <1>11, <1>12, <1>13, <1>14, <1>15, <1>16, <1>17, <1>18, <1>19, <1>20
  DEF Next, LoopStep

-----------------------------------------------------------------------------
(* How often a call runs.                                                   *)

\* The bounds are numbers.
LEMMA Numbers ==
  ASSUME TypeInv
  PROVE  /\ asked \in Nat /\ recovering \in Nat /\ failures \in Nat
         /\ executed \in [Calls -> Nat] /\ calls \subseteq Calls
         /\ suspended \in Seq(SuspendedType) /\ messages \in Seq(MessageType)
         /\ \A i \in DOMAIN suspended : suspended[i].id \in Nat /\ suspended[i].id # 0
  <1>1. \A i \in DOMAIN suspended : suspended[i] \in SuspendedType BY DEF TypeInv, TypeOK
  <1>2. \A d \in SuspendedType : d.id \in 1..MaxSteps BY DEF SuspendedType
  <1>3. QED BY <1>1, <1>2, LoopBounds DEF TypeInv, TypeOK

\* What the current step stores when it is suspended.
LEMMA SuspendStores ==
  ASSUME TypeInv, PhaseInv, ContextInv, Suspend
  PROVE  /\ Len(suspended') = Len(suspended) + 1
         /\ \A i \in 1..Len(suspended) : suspended'[i] = suspended[i]
         /\ suspended'[Len(suspended) + 1].id = asked
         /\ Asks(suspended'[Len(suspended) + 1].messages) = calls
         /\ DOMAIN suspended' = 1..(Len(suspended) + 1) /\ DOMAIN suspended = 1..Len(suspended)
<1> DEFINE doc == [id |-> asked, messages |-> messages', iteration |-> iteration]
<1>1. /\ ~resumed /\ Looping /\ messages \in Seq(MessageType) /\ calls \in SUBSET Calls
      /\ iteration \in Nat
  BY DEF Suspend, PhaseInv, Looping, TypeInv, TypeOK
<1>2. Closed(messages, iteration) BY <1>1 DEF ContextInv
<1>3. messages' = Append(messages, Assistant(calls)) /\ suspended' = Append(suspended, doc)
  BY DEF Suspend
<1>4. Asks(messages') = calls BY <1>1, <1>2, <1>3, StepDangles
<1>5. doc.id = asked /\ doc.messages = messages' OBVIOUS
<1>6. suspended \in Seq(SuspendedType) BY DEF TypeInv, TypeOK
<1> HIDE DEF doc
<1>7. Len(suspended') = Len(suspended) + 1 /\ suspended'[Len(suspended) + 1] = doc BY <1>3, <1>6
<1>8. \A i \in 1..Len(suspended) : suspended'[i] = suspended[i] BY <1>3, <1>6
<1>9. DOMAIN suspended' = 1..(Len(suspended) + 1) /\ DOMAIN suspended = 1..Len(suspended)
  BY <1>3, <1>6
<1>10. QED BY <1>4, <1>5, <1>7, <1>8, <1>9

\* Calls and stored chats are named by their step.
LEMMA NameStep == TypeInv /\ PhaseInv /\ ContextInv /\ NameInv /\ [Next]_vars => NameInv'
<1> SUFFICES ASSUME TypeInv, PhaseInv, ContextInv, NameInv, [Next]_vars PROVE NameInv'
  OBVIOUS
<1> USE DEF toolVars, turnVars, coreVars
<1>1. CASE OptionsInvalid
  BY <1>1 DEF OptionsInvalid, NameInv, PhaseInv, Owner, Looping, Asks
<1>2. CASE LoopTop
  BY <1>2 DEF LoopTop, NameInv, PhaseInv, Owner, Looping, Asks
<1>3. CASE ResumeStep
  BY <1>3 DEF ResumeStep, Asks, NameInv, Owner, Looping
<1>4. CASE StartStream
  BY <1>4, Numbers DEF StartStream, NameInv, Looping
<1>5. CASE StreamEnds
  <2>1. PICK S \in StepCalls :
          IF S = {} THEN record' = Append(record, Assistant(S)) /\ pc' = "persist"
            /\ UNCHANGED calls
                    ELSE calls' = S /\ pc' = "parsed" /\ UNCHANGED record
    BY <1>5 DEF StreamEnds
  <2>2. \A c \in S : c[1] = asked BY <1>5, StepCallsType DEF StreamEnds, TypeInv, TypeOK
  <2>3. ~resumed BY <1>5 DEF StreamEnds, PhaseInv
  <2>4. QED BY <1>5, <2>1, <2>2, <2>3 DEF StreamEnds, NameInv, Owner, Looping
<1>6. CASE StreamAborted
  BY <1>6 DEF StreamAborted, NameInv, PhaseInv, Owner, Looping, Asks
<1>7. CASE StreamFails
  BY <1>7 DEF StreamFails, NameInv, PhaseInv, Owner, Looping, Asks
<1>8. CASE Classify
  BY <1>8 DEF Classify, AbortStep, NameInv, PhaseInv, Owner, Looping, Asks
<1>9. CASE Suspend
  <2>1. \A i \in DOMAIN suspended : suspended[i].id < asked BY <1>9 DEF Suspend, PhaseInv, NameInv
  <2>2. \A c \in calls : c[1] = asked BY <1>9 DEF Suspend, PhaseInv, NameInv, Owner
  <2>3. /\ pc' = "persist" /\ asked' = asked /\ recovering' = recovering
    BY <1>9 DEF Suspend
  <2> DEFINE n == Len(suspended) + 1
  <2>4. n \in Nat /\ DOMAIN suspended' = DOMAIN suspended \cup {n} /\ n \notin DOMAIN suspended
    BY <1>9, SuspendStores, Numbers
  <2>5. /\ \A i \in DOMAIN suspended : suspended'[i] = suspended[i]
        /\ suspended'[n].id = asked /\ Asks(suspended'[n].messages) = calls
    BY <1>9, SuspendStores
  <2> HIDE DEF n
  <2>6. \A i \in DOMAIN suspended :
          suspended'[i].id <= asked /\ \A c \in Asks(suspended'[i].messages) :
            c[1] = suspended'[i].id
    BY <2>5 DEF NameInv
  <2>7. suspended'[n].id <= asked /\ \A c \in Asks(suspended'[n].messages) : c[1] = suspended'[n].id
    BY <2>2, <2>5, Numbers
  <2>8. \A i, j \in DOMAIN suspended' : suspended'[i].id = suspended'[j].id => i = j
    <3>1. \A i \in DOMAIN suspended : suspended'[i].id # suspended'[n].id
      BY <2>1, <2>5, Numbers
    <3>2. \A i, j \in DOMAIN suspended : suspended'[i].id = suspended'[j].id => i = j
      BY <2>5 DEF NameInv
    <3>3. QED BY <2>4, <3>1, <3>2
  <2>9. QED BY <2>3, <2>4, <2>6, <2>7, <2>8 DEF NameInv, Looping
<1>10. CASE BeforeDispatch
  BY <1>10 DEF BeforeDispatch, AbortStep, NameInv, PhaseInv, Owner, Looping, Asks
<1>11. CASE ResumeGroup
  <2>1. CASE NextIteration
    BY <1>11, <2>1 DEF ResumeGroup, NextIteration, NameInv, Looping
  <2>2. CASE ~NextIteration
    BY <1>11, <2>2 DEF ResumeGroup, AbortStep, NameInv, PhaseInv, Owner, Looping
  <2>3. QED BY <2>1, <2>2
<1>12. CASE BeginGroup
  BY <1>12 DEF BeginGroup, NameInv, PhaseInv, Owner, Looping, Asks
<1>13. ASSUME NEW c \in Calls, CallEnds(c) PROVE NameInv'
  BY <1>13 DEF CallEnds, NameInv, PhaseInv, Owner, Looping, Asks
<1>14. CASE GroupEnds
  <2>1. CASE NextIteration
    BY <1>14, <2>1 DEF GroupEnds, NextIteration, NameInv, Looping
  <2>2. CASE ~NextIteration
    BY <1>14, <2>2 DEF GroupEnds, NameInv, PhaseInv, Owner, Looping
  <2>3. QED BY <2>1, <2>2
<1>15. CASE ToolStepKilled
  BY <1>15 DEF ToolStepKilled, AbortStep, NameInv, PhaseInv, Owner, Looping, Asks
<1>16. CASE Persist
  <2>1. suspended' = Without(suspended, recovering) /\ suspended \in Seq(SuspendedType)
    BY <1>16 DEF Persist, TypeInv, TypeOK
  <2>2. /\ \A i \in DOMAIN suspended' : \E j \in DOMAIN suspended : suspended'[i] = suspended[j]
        /\ \A i, j \in DOMAIN suspended' : suspended'[i].id = suspended'[j].id => i = j
    BY <2>1, WithoutKeeps DEF NameInv
  <2>3. pc' = "idle" /\ asked' = asked /\ recovering' = 0 BY <1>16 DEF Persist, Over
  <2>4. \A i \in DOMAIN suspended' :
          suspended'[i].id <= asked /\ \A c \in Asks(suspended'[i].messages) :
            c[1] = suspended'[i].id
    BY <2>2 DEF NameInv
  <2>5. QED BY <2>2, <2>3, <2>4, Numbers DEF NameInv, Looping
<1>17. CASE RunLost
  <2>1. pc' = "idle" /\ asked' = asked /\ recovering' = 0 /\ suspended' = suspended
    BY <1>17 DEF RunLost, Over
  <2>2. QED BY <2>1, Numbers DEF NameInv, Looping
<1>18. CASE Recover
  <2>1. Len(suspended) \in DOMAIN suspended BY <1>18 DEF Recover, TypeInv, TypeOK
  <2> DEFINE doc == suspended[Len(suspended)]
  <2>2. /\ messages' = doc.messages /\ recovering' = doc.id /\ pc' = "top"
        /\ resumed' = TRUE /\ suspended' = suspended /\ asked' = asked
    BY <1>18 DEF Recover
  <2>3. doc.id <= asked /\ \A c \in Asks(doc.messages) : c[1] = doc.id BY <2>1 DEF NameInv
  <2> HIDE DEF doc
  <2>4. Asks(messages)' = Asks(doc.messages) BY <2>2 DEF Asks
  <2>5. QED BY <2>2, <2>3, <2>4 DEF NameInv, Looping
<1>19. CASE RequestCancel
  BY <1>19 DEF RequestCancel, NameInv, PhaseInv, Owner, Looping, Asks
<1>20. CASE UNCHANGED vars
  BY <1>20 DEF vars, NameInv, PhaseInv, Owner, Looping, Asks
<1>21. QED
  BY <1>1, <1>2, <1>3, <1>4, <1>5, <1>6, <1>7, <1>8, <1>9, <1>10,
     <1>11, <1>12, <1>13, <1>14, <1>15, <1>16, <1>17, <1>18, <1>19, <1>20
  DEF Next, LoopStep

\* What the end of a call leaves behind.
LEMMA CallEffect ==
  ASSUME NEW c \in Calls, CallEnds(c)
  PROVE  /\ DOMAIN outputs' = DOMAIN outputs \cup {c}
         /\ \E n \in {0, 1} : /\ executed' = [executed EXCEPT ![c] = executed[c] + n]
                             /\ ~Runs(c) => n = 0
<1>1. \E note \in NotesOf(c) :
        /\ outputs' = [d \in DOMAIN outputs \cup {c} |-> IF d = c THEN note ELSE outputs[d]]
        /\ executed' \in {[executed EXCEPT ![c] = @ + n] :
                            n \in IF ~Runs(c) THEN {0} ELSE IF note = "success" THEN {1} ELSE {0, 1}}
  BY Zenon DEF CallEnds
<1>2. QED BY <1>1

\* What a stored chat asks for are calls.
LEMMA AsksType ==
  ASSUME TypeInv, NEW i \in DOMAIN suspended
  PROVE  Asks(suspended[i].messages) \subseteq Calls
<1>1. suspended[i] \in SuspendedType /\ suspended[i].messages # << >> BY DEF TypeInv, TypeOK
<1>2. suspended[i].messages \in Seq(MessageType) BY <1>1 DEF SuspendedType
<1> DEFINE s == suspended[i].messages
<1>3. s[Len(s)] \in MessageType BY <1>1, <1>2
<1>4. QED BY <1>3 DEF Asks, MessageType

\* What is still to run ran at most once for every run that failed.
LEMMA OnceStep == TypeInv /\ PhaseInv /\ ContextInv /\ OutputInv /\ NameInv /\ OnceInv
    /\ [Next]_vars => OnceInv'
<1> SUFFICES ASSUME TypeInv, PhaseInv, ContextInv, OutputInv, NameInv, OnceInv,
      [Next]_vars PROVE OnceInv'
  OBVIOUS
<1> USE DEF toolVars, turnVars, coreVars
<1>1. CASE OptionsInvalid
  BY <1>1 DEF OptionsInvalid, OnceInv, CallsRunOnce, Asks
<1>2. CASE LoopTop
  BY <1>2 DEF LoopTop, OnceInv, CallsRunOnce, Asks
<1>3. CASE ResumeStep
  BY <1>3 DEF ResumeStep, Asks, OnceInv, CallsRunOnce
<1>4. CASE StartStream
  BY <1>4, Numbers DEF StartStream, OnceInv, CallsRunOnce, Calls
<1>5. CASE StreamEnds
  <2>1. PICK S \in StepCalls :
          IF S = {} THEN record' = Append(record, Assistant(S)) /\ pc' = "persist"
            /\ UNCHANGED calls
                    ELSE calls' = S /\ pc' = "parsed" /\ UNCHANGED record
    BY <1>5 DEF StreamEnds
  <2>2. S \subseteq Calls /\ \A c \in S : c[1] = asked
    BY <1>5, StepCallsType DEF StreamEnds, TypeInv, TypeOK
  <2>3. \A c \in S : executed[c] <= failures BY <1>5, <2>2, Numbers DEF StreamEnds, OnceInv
  <2>4. ~resumed BY <1>5 DEF StreamEnds, PhaseInv
  <2>5. QED BY <1>5, <2>1, <2>3, <2>4 DEF StreamEnds, OnceInv, CallsRunOnce
<1>6. CASE StreamAborted
  BY <1>6 DEF StreamAborted, OnceInv, CallsRunOnce, Asks
<1>7. CASE StreamFails
  BY <1>7 DEF StreamFails, OnceInv, CallsRunOnce, Asks
<1>8. CASE Classify
  BY <1>8 DEF Classify, AbortStep, OnceInv, CallsRunOnce, Asks
<1>9. CASE Suspend
  <2>1. \A c \in calls : executed[c] <= failures BY <1>9 DEF Suspend, OutputInv, OnceInv
  <2>2. /\ pc' = "persist" /\ UNCHANGED <<asked, recovering, executed, failures>> BY <1>9
           DEF Suspend
  <2>3. \A i \in DOMAIN suspended' : \A c \in Asks(suspended'[i].messages) :
          suspended'[i].id # recovering => executed[c] <= failures
    BY <1>9, <2>1, SuspendStores, Numbers DEF OnceInv
  <2>4. QED BY <2>2, <2>3 DEF OnceInv, CallsRunOnce
<1>10. CASE BeforeDispatch
  <2>1. DOMAIN outputs = {} BY <1>10 DEF BeforeDispatch, OutputInv
  <2>2. UNCHANGED <<asked, recovering, executed, failures, suspended, calls, resumed>>
          /\ pc' \in {"aborted", "begin"}
    BY <1>10 DEF BeforeDispatch, AbortStep
  <2>3. QED BY <1>10, <2>1, <2>2 DEF BeforeDispatch, OnceInv, CallsRunOnce
<1>11. CASE ResumeGroup
  <2>1. UNCHANGED <<asked, recovering, executed, failures, suspended>> BY <1>11 DEF ResumeGroup
  <2>2. CASE NextIteration BY <2>1, <2>2 DEF NextIteration, OnceInv, CallsRunOnce
  <2>3. CASE ~NextIteration
    BY <1>11, <2>1, <2>3 DEF ResumeGroup, AbortStep, OnceInv, CallsRunOnce
  <2>4. QED BY <2>2, <2>3
<1>12. CASE BeginGroup
  BY <1>12 DEF BeginGroup, OnceInv, CallsRunOnce, Asks
<1>13. ASSUME NEW c \in Calls, CallEnds(c) PROVE OnceInv'
  <2>1. PICK n \in {0, 1} : executed' = [executed EXCEPT ![c] = executed[c] + n]
    BY <1>13, CallEffect DEF CallEnds
  <2>2. DOMAIN outputs' = DOMAIN outputs \cup {c} BY <1>13, CallEffect DEF CallEnds
  <2>3. /\ executed'[c] <= executed[c] + 1
        /\ \A d \in Calls : d # c => executed'[d] = executed[d]
        /\ \A d \in Calls : executed'[d] \in Nat
    <3>1. executed \in [Calls -> Nat] BY Numbers
    <3>2. executed[c] \in Nat /\ executed'[c] = executed[c] + n BY <2>1, <3>1
    <3>3. \A d \in Calls : d # c => executed'[d] = executed[d] BY <2>1, <3>1
    <3>4. QED BY <3>1, <3>2, <3>3
  <2>4. UNCHANGED <<pc, calls, resumed, asked, recovering, failures, suspended, messages>>
          /\ pc = "run"
    BY <1>13 DEF CallEnds
  <2>5. c \in calls \ DOMAIN outputs /\ c[1] = Owner /\ executed[c] <= failures
    BY <1>13, Groups3, Numbers DEF CallEnds, OutputInv, NameInv, OnceInv
  <2>6. executed'[c] <= failures + 1 /\ c[1] <= asked
    BY <2>3, <2>5, Numbers DEF NameInv, Owner
  <2>7. CallsRunOnce'
    BY <2>3, <2>4, <2>6, Numbers DEF OnceInv, CallsRunOnce
  <2>8. \A d \in Calls : d[1] > asked => executed'[d] = 0
    <3>1. \A d \in Calls : d[1] \in Nat BY LoopBounds DEF Calls
    <3>2. ~(c[1] > asked) BY <2>6, <3>1, Numbers
    <3>3. QED BY <2>3, <3>2 DEF OnceInv
  <2>9. \A d \in calls \ DOMAIN outputs' : executed'[d] <= failures
    BY <2>2, <2>3, <2>4, Numbers DEF OnceInv
  <2>10. \A i \in DOMAIN suspended : \A d \in Asks(suspended[i].messages) :
           suspended[i].id # recovering => d # c
    BY <2>4, <2>5, Numbers DEF NameInv, Owner, PhaseInv
  <2>11. \A i \in DOMAIN suspended : Asks(suspended[i].messages) \subseteq Calls
    BY AsksType
  <2>12. QED
    BY <2>3, <2>4, <2>7, <2>8, <2>9, <2>10, <2>11 DEF OnceInv
<1>14. CASE GroupEnds
  <2>1. UNCHANGED <<asked, recovering, executed, failures, suspended>> BY <1>14 DEF GroupEnds
  <2>2. CASE NextIteration BY <2>1, <2>2 DEF NextIteration, OnceInv, CallsRunOnce
  <2>3. CASE ~NextIteration
    BY <1>14, <2>1, <2>3 DEF GroupEnds, OnceInv, CallsRunOnce
  <2>4. QED BY <2>2, <2>3
<1>15. CASE ToolStepKilled
  <2>1. PICK S \in SUBSET pending :
          executed' = [c \in Calls |-> IF c \in S THEN executed[c] + 1 ELSE executed[c]]
    BY <1>15 DEF ToolStepKilled
  <2>2. S \subseteq Calls /\ \A c \in S : /\ c[1] = Owner /\ executed[c] <= failures
                                       /\ pc \in {"begin", "run"} /\ (~resumed => pc = "run")
    BY <2>1, Groups3, Numbers DEF OutputInv, NameInv, OnceInv
  <2>3. \A c \in Calls : executed'[c] <= 1 + failures
    BY <2>1, <2>2, Numbers DEF OnceInv, CallsRunOnce
  <2>4. \A c \in Calls : c[1] > asked => executed'[c] = 0
    BY <2>1, <2>2, Numbers DEF OnceInv, NameInv, Owner
  <2>5. \A i \in DOMAIN suspended : \A c \in Asks(suspended[i].messages) :
          suspended[i].id # recovering => c \notin S
    BY <2>2, Numbers DEF NameInv, Owner, PhaseInv
  <2>6. \A i \in DOMAIN suspended : Asks(suspended[i].messages) \subseteq Calls
    BY AsksType
  <2>7. /\ pc' = "aborted" /\ UNCHANGED <<asked, recovering, failures, suspended>>
    BY <1>15 DEF ToolStepKilled, AbortStep
  <2>8. \A i \in DOMAIN suspended : \A c \in Asks(suspended[i].messages) :
          suspended[i].id # recovering => executed'[c] <= failures
    BY <2>1, <2>5, <2>6 DEF OnceInv
  <2>9. QED BY <2>3, <2>4, <2>7, <2>8 DEF OnceInv, CallsRunOnce
<1>16. CASE Persist
  <2>1. suspended' = Without(suspended, recovering) /\ suspended \in Seq(SuspendedType)
    BY <1>16 DEF Persist, TypeInv, TypeOK
  <2>2. \A i \in DOMAIN suspended' :
          \E j \in DOMAIN suspended : suspended'[i] = suspended[j] /\ suspended[j].id # recovering
    BY <2>1, WithoutKeeps DEF NameInv
  <2>3. pc' = "idle" /\ resumed' = FALSE /\ UNCHANGED <<asked, executed, failures>>
    BY <1>16 DEF Persist, Over
  <2>4. \A i \in DOMAIN suspended' : \A c \in Asks(suspended'[i].messages) : executed[c] <= failures
    BY <2>2 DEF OnceInv
  <2>5. QED BY <2>3, <2>4 DEF OnceInv, CallsRunOnce
<1>17. CASE RunLost
  <2>1. PICK S \in SUBSET pending :
          executed' = [c \in Calls |-> IF c \in S THEN executed[c] + 1 ELSE executed[c]]
    BY <1>17 DEF RunLost
  <2>2. S \subseteq Calls /\ \A c \in S : /\ c[1] = Owner /\ executed[c] <= failures
                                       /\ pc \in {"begin", "run"} /\ (~resumed => pc = "run")
    BY <2>1, Groups3, Numbers DEF OutputInv, NameInv, OnceInv
  <2>3. \A c \in Calls : executed'[c] <= 1 + failures
    BY <2>1, <2>2, Numbers DEF OnceInv, CallsRunOnce
  <2>4. \A c \in Calls : c[1] > asked => executed'[c] = 0
    BY <2>1, <2>2, Numbers DEF OnceInv, NameInv, Owner
  <2>5. \A i \in DOMAIN suspended : Asks(suspended[i].messages) \subseteq Calls
    BY AsksType
  <2>6. /\ pc' = "idle" /\ resumed' = FALSE /\ failures' = failures + 1
        /\ UNCHANGED <<asked, suspended>>
    BY <1>17 DEF RunLost, Over
  <2>7. \A c \in Calls : executed'[c] <= failures' /\ executed'[c] <= 1 + failures'
    BY <2>1, <2>3, <2>6, Numbers
  <2>8. QED BY <2>4, <2>5, <2>6, <2>7 DEF OnceInv, CallsRunOnce
<1>18. CASE Recover
  <2>1. Len(suspended) \in DOMAIN suspended BY <1>18 DEF Recover, TypeInv, TypeOK
  <2> DEFINE doc == suspended[Len(suspended)]
  <2>2. /\ messages' = doc.messages /\ recovering' = doc.id /\ pc' = "top" /\ recovering = 0
        /\ UNCHANGED <<suspended, asked, executed, failures>>
    BY <1>18 DEF Recover, NameInv
  <2>3. \A i \in DOMAIN suspended : \A c \in Asks(suspended[i].messages) : executed[c] <= failures
    BY <2>2, Numbers DEF OnceInv
  <2>4. \A c \in Asks(doc.messages) : executed[c] <= failures BY <2>1, <2>3
  <2> HIDE DEF doc
  <2>5. Asks(messages)' = Asks(doc.messages) BY <2>2 DEF Asks
  <2>6. QED BY <2>2, <2>3, <2>4, <2>5 DEF OnceInv, CallsRunOnce
<1>19. CASE RequestCancel
  BY <1>19 DEF RequestCancel, OnceInv, CallsRunOnce, Asks
<1>20. CASE UNCHANGED vars
  BY <1>20 DEF vars, OnceInv, CallsRunOnce, Asks
<1>21. QED
  BY <1>1, <1>2, <1>3, <1>4, <1>5, <1>6, <1>7, <1>8, <1>9, <1>10,
     <1>11, <1>12, <1>13, <1>14, <1>15, <1>16, <1>17, <1>18, <1>19, <1>20
  DEF Next, LoopStep

-----------------------------------------------------------------------------
(* What always holds.                                                       *)

\* At first nothing was asked.
LEMMA LoopInit == Init => LoopIInv
<1> SUFFICES ASSUME Init PROVE LoopIInv
  OBVIOUS
<1>1. TypeInv
  <2>1. NoNotes \in [{} -> Notes] /\ {} \in SUBSET Calls BY DEF NoNotes, Notes
  <2>2. \E S \in SUBSET Calls : outputs \in [S -> Notes] BY <2>1 DEF Init
  <2>3. Prompt \in MessageType BY <2>1, MessageTypes
  <2>4. messages \in Seq(MessageType) /\ messages # << >> BY <2>3 DEF Init
  <2>5. record \in Seq(MessageType) /\ suspended \in Seq(SuspendedType) /\ DOMAIN suspended = {}
    BY DEF Init
  <2>6. answers \in [approved : SUBSET Calls, results : SUBSET Calls] BY DEF Init, NoAnswers
  <2>7. executed \in [Calls -> Nat] BY DEF Init
  <2>8. iteration \in 0..MaxIterations /\ iteration < MaxIterations /\ recovering \in 0..MaxSteps
        /\ asked \in 0..MaxSteps /\ late \in Nat /\ failures \in 0..MaxFailures
    BY LoopBounds DEF Init
  <2>9. pc = "top" /\ group = "server" /\ resumed = FALSE /\ cancel_requested = FALSE
        /\ calls = {} /\ pending = {}
    BY DEF Init
  <2>10. QED
    BY <2>2, <2>4, <2>5, <2>6, <2>7, <2>8, <2>9 DEF TypeInv, TypeOK, Phases, Groups
<1>2. PhaseInv BY DEF Init, PhaseInv
<1>3. ContextInv
  <2>1. messages = <<Prompt>> /\ iteration = 0 /\ resumed = FALSE /\ DOMAIN suspended = {}
    BY DEF Init
  <2>2. Closed(messages, iteration) BY <2>1 DEF Closed, Ordered, Prompt
  <2>3. StepsBounded BY <2>1, LoopBounds DEF StepsBounded
  <2>4. QED BY <2>1, <2>2, <2>3 DEF ContextInv
<1>4. OutputInv BY DEF Init, OutputInv, NoNotes
<1>5. RecordInv BY DEF Init, RecordInv, Answered
<1>6. LateInv BY DEF Init, LateInv
<1>7. NameInv BY DEF Init, NameInv
<1>8. OnceInv BY DEF Init, OnceInv, CallsRunOnce
<1>9. QED BY <1>1, <1>2, <1>3, <1>4, <1>5, <1>6, <1>7, <1>8 DEF LoopIInv

\* The parts of the invariant preserve each other.
LEMMA LoopNext == LoopIInv /\ [Next]_vars => LoopIInv'
BY TypeStep, PhaseStep, ContextStep, OutputStep, RecordStep, LateStep, NameStep, OnceStep
DEF LoopIInv

\* The inductive invariant of the loop.
LEMMA LoopIndInv == Spec => []LoopIInv
<1>1. QED BY LoopInit, LoopNext, PTL DEF Spec

\* A turn keeps its types and its bound on model steps, sends the model only contexts
\* that answer every tool call, and when it is cut off archives no call without an answer,
\* for any tools, kinds and numbers of steps and failures.
THEOREM TurnsWellFormed == Spec => []LoopInv
<1>1. LoopIInv => LoopInv
  <2> SUFFICES ASSUME LoopIInv PROVE LoopInv
    OBVIOUS
  <2>1. PromptWellFormed
    <3> SUFFICES ASSUME pc = "stream" PROVE Alternates(messages)
      BY DEF PromptWellFormed
    <3>1. Closed(messages, iteration) BY DEF LoopIInv, PhaseInv, ContextInv, Looping
    <3>2. iteration \in Nat BY LoopBounds DEF LoopIInv, TypeInv, TypeOK
    <3>3. Len(messages) % 2 = 1 BY <3>1, <3>2 DEF Closed
    <3>4. QED BY <3>1, <3>3 DEF Closed, Ordered, Alternates
  <2>2. AbortedIsAnswered BY DEF LoopIInv, RecordInv, Answered, AbortedIsAnswered
  <2>3. QED BY <2>1, <2>2 DEF LoopIInv, TypeInv, ContextInv, LoopInv
<1>2. QED BY LoopIndInv, <1>1, PTL

\* After a cancel at most one model step or tool dispatch begins: the checkpoints leave
\* no longer gap in any phase of the loop.
THEOREM CancelStops == Spec => []CancelStopsWork
<1>1. LoopIInv => CancelStopsWork BY DEF LoopIInv, LateInv, CancelStopsWork
<1>2. QED BY LoopIndInv, <1>1, PTL

\* Through suspensions, recoveries and lost runs, a call's tool runs at most once more
\* than runs have failed.
THEOREM CallsOnce == Spec => []CallsRunOnce
<1>1. LoopIInv => CallsRunOnce BY DEF LoopIInv, OnceInv
<1>2. QED BY LoopIndInv, <1>1, PTL

\* The calls that may take effect in a step are running calls that get as far as the tool.
LEMMA WhoRuns ==
  ASSUME TypeInv, [Next]_vars, NEW d \in Calls, executed'[d] # executed[d]
  PROVE  d \in pending /\ Runs(d)
<1> USE DEF toolVars, turnVars, coreVars
<1>1. executed \in [Calls -> Nat] BY Numbers
<1>2. ASSUME NEW c \in Calls, CallEnds(c) PROVE d \in pending /\ Runs(d)
  <2>1. PICK n \in {0, 1} : executed' = [executed EXCEPT ![c] = executed[c] + n]
          /\ (~Runs(c) => n = 0)
    BY <1>2, CallEffect DEF CallEnds
  <2>2. c # d => executed'[d] = executed[d] BY <2>1, <1>1
  <2>3. ~Runs(c) => executed'[c] = executed[c] BY <2>1, <1>1
  <2>4. c \in pending BY <1>2 DEF CallEnds
  <2>5. QED BY <2>2, <2>3, <2>4
<1>3. CASE ToolStepKilled BY <1>3 DEF ToolStepKilled
<1>4. CASE RunLost BY <1>4 DEF RunLost
<1>5. CASE executed' = executed BY <1>5
<1>6. CASE OptionsInvalid BY <1>5, <1>6 DEF OptionsInvalid
<1>7. CASE LoopTop BY <1>5, <1>7 DEF LoopTop
<1>8. CASE ResumeStep BY <1>5, <1>8 DEF ResumeStep
<1>9. CASE StartStream BY <1>5, <1>9 DEF StartStream
<1>10. CASE StreamEnds BY <1>5, <1>10 DEF StreamEnds
<1>11. CASE StreamAborted BY <1>5, <1>11 DEF StreamAborted
<1>12. CASE StreamFails BY <1>5, <1>12 DEF StreamFails
<1>13. CASE Classify BY <1>5, <1>13 DEF Classify
<1>14. CASE Suspend BY <1>5, <1>14 DEF Suspend
<1>15. CASE BeforeDispatch BY <1>5, <1>15 DEF BeforeDispatch
<1>16. CASE ResumeGroup BY <1>5, <1>16 DEF ResumeGroup
<1>17. CASE BeginGroup BY <1>5, <1>17 DEF BeginGroup
<1>18. CASE GroupEnds BY <1>5, <1>18 DEF GroupEnds
<1>19. CASE Persist BY <1>5, <1>19 DEF Persist
<1>20. CASE Recover BY <1>5, <1>20 DEF Recover
<1>21. CASE RequestCancel BY <1>5, <1>21 DEF RequestCancel
<1>22. CASE UNCHANGED vars BY <1>5, <1>22 DEF vars
<1>23. QED
  BY <1>2, <1>3, <1>4, <1>6, <1>7, <1>8, <1>9, <1>10, <1>11, <1>12, <1>13, <1>14,
     <1>15, <1>16, <1>17, <1>18, <1>19, <1>20, <1>21, <1>22
  DEF Next, LoopStep

\* A high-risk tool takes effect only in a recovered turn whose request approved that very
\* call: not on the first run, and not by an approval of an earlier recovery.
THEOREM OnlyApprovedRun == Spec => RunsOnlyApproved
<1> DEFINE Approved(c) == executed'[c] # executed[c] /\ KindOf(c) = "approval"
                            => resumed /\ c \in answers.approved
<1>1. ASSUME LoopIInv, [Next]_vars PROVE \A c \in Calls : Approved(c)
  <2> SUFFICES ASSUME NEW c \in Calls, executed'[c] # executed[c], KindOf(c) = "approval"
               PROVE  resumed /\ c \in answers.approved
    OBVIOUS
  <2>1. c \in pending /\ Runs(c) BY <1>1, WhoRuns DEF LoopIInv
  <2>2. c \in answers.approved BY <2>1 DEF Runs, Denied
  <2>3. pc = "run" /\ c \in classify_tools(calls, group)
    BY <1>1, <2>1 DEF LoopIInv, OutputInv
  <2>4. c \notin classify_tools(calls, "server") BY DEF classify_tools
  <2>5. resumed BY <1>1, <2>3, <2>4 DEF LoopIInv, PhaseInv, TypeInv, TypeOK
  <2>6. QED BY <2>2, <2>5
<1>2. LoopIInv /\ [Next]_vars => [\A c \in Calls : Approved(c)]_vars BY <1>1
<1>3. QED BY LoopIndInv, <1>2, PTL DEF Spec, RunsOnlyApproved
=============================================================================
