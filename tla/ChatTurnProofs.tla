--------------------------- MODULE ChatTurnProofs ---------------------------
(***************************************************************************)
(* What a session remembers, for every number of requests, messages and     *)
(* losses, and for whatever befalls it: StoresInv, NothingMissing and       *)
(* NothingForgotten of ChatTurn.                                            *)
(***************************************************************************)
EXTENDS ChatTurn, SequenceTheorems, WellFoundedInduction, TLAPS

-----------------------------------------------------------------------------
(* The inductive invariant                                                  *)

Made == 1..created

\* Contexts of turns in a session of c messages.
Contexts(c) ==
  [mode : {"none", "new", "recover", "close"}, doc : 0..c, record : Seq(1..c), usage : SUBSET (1..c),
   existing : SUBSET (1..c), keep : Seq(1..c), cands : SUBSET (1..c), needs : BOOLEAN]

Jobs(c) == [stage : {"bill", "summary", "reload"}, of : Contexts(c)]

TypeInv ==
  /\ pc \in TurnPhases /\ turn \in Contexts(created)
  /\ archive \in Seq(Made) /\ hot \in Seq(Made)
  /\ summary \in [covers : SUBSET Made, at : 0..created]
  /\ suspended \subseteq Contexts(created) /\ jobs \in Seq(Jobs(created))
  /\ created \in Messages /\ users \subseteq Made /\ closed \subseteq Made /\ settled \subseteq Made
  /\ billed \in [Messages -> Nat] /\ \A n \in Messages \ Made : billed[n] = 0
  /\ unbilled \subseteq Made /\ missed \subseteq 0..turns
  /\ turns \in Nat /\ lost \in Nat /\ befalls \in SUBSET Mishaps

Persisting == {"hot", "archive"}

\* What kind of turn is where.
Placed ==
  /\ pc = "idle" => turn = NoTurn
  /\ pc \in {"load", "refill", "recall", "user"} => turn.mode = "new" /\ turn.record = << >> /\ turn.usage = {}
  /\ pc = "llm" =>
       /\ turn.usage = {}
       /\ turn.mode = "new" => \E u \in users : turn.record = <<u>> /\ u \in ToSet(archive)
       /\ turn.mode = "recover" => turn.record = << >>
       /\ turn.mode \in {"new", "recover"}
  /\ pc \in Persisting => turn.mode # "none"
  /\ pc = "finish" => turn.mode \in {"new", "recover"}
  /\ pc \in {"bill", "summary", "reload"} => turn.mode = "close"
  /\ pc = "delete" => turn.mode \in {"recover", "close"}

\* What the turn in hand is about to archive and to bill.
Batch ==
  /\ turn.mode = "close" =>
       Len(turn.record) >= 2 /\ turn.usage \subseteq closed /\ ToSet(turn.record) \subseteq closed
  /\ pc \in Persisting =>
       /\ turn.mode = "new" => turn.record # << >> /\ turn.record[1] \in ToSet(archive)
       /\ ToSet(Unstored(turn)) \cap users = {}
       /\ turn.mode # "close" =>
            /\ ToSet(Unstored(turn)) = turn.usage /\ turn.usage \cap ToSet(archive) = {}
            /\ \A i, j \in DOMAIN Unstored(turn) : i = j
  /\ pc \in Persisting \cup {"finish"} /\ turn.mode # "close" =>
       \A n \in turn.usage : billed[n] = 0 /\ \A i \in DOMAIN jobs : n \notin jobs[i].of.usage

\* A suspended chat: a user message, if any, comes first.
DocsHold ==
  \A d \in suspended :
    /\ d.mode \in {"new", "recover"} /\ d.record # << >> /\ d.usage \subseteq ToSet(d.record)
    /\ \A i \in 2..Len(d.record) : d.record[i] \notin users

JobsHold ==
  \A i \in DOMAIN jobs :
    /\ jobs[i].stage = "bill" => \A n \in jobs[i].of.usage \ closed : billed[n] = 0
    /\ \A j \in DOMAIN jobs : i # j => jobs[i].of.usage \cap jobs[j].of.usage = {}

\* While nothing is lost, a message is in the archive or about to be, and a reply is
\* billed or about to be, or its report failed.
Archiving == IF pc \in Persisting THEN ToSet(Unstored(turn)) ELSE {}
Billing ==
  (IF pc \in Persisting \cup {"finish"} THEN turn.usage ELSE {})
    \cup UNION {IF jobs[i].stage = "bill" THEN jobs[i].of.usage ELSE {} : i \in DOMAIN jobs}

Whole ==
  lost = 0 => \A n \in Made :
    /\ n \in ToSet(archive) \cup Archiving
    /\ n \in users \cup closed \cup unbilled \cup Billing \/ billed[n] >= 1

AtMostOne(S) == \A d, e \in S : d = e

\* Which suspended chats there are while a turn is in hand.
DocsLeft ==
  lost = 0 \/ "recover" \notin befalls =>
    /\ turn.mode # "recover" \/ pc = "llm" \/ turn.record = << >> => AtMostOne(suspended)
    /\ pc \in {"load", "refill", "recall", "user", "llm"} /\ turn.mode = "new" => suspended = {}
    /\ turn.mode = "close" => \A d \in suspended : d.doc = turn.doc
    /\ turn.mode = "recover" =>
         /\ pc = "llm" \/ turn.record = << >> => \A d \in suspended : d.doc = turn.doc
         /\ AtMostOne({d \in suspended : d.doc # turn.doc})

NoRecovery == "recover" \notin befalls => turn.mode # "recover"

SafeInv ==
  /\ TypeInv /\ Placed /\ Batch /\ DocsHold /\ JobsHold
  /\ UserOnce /\ NeverTwice /\ Whole /\ DocsLeft /\ NoRecovery

-----------------------------------------------------------------------------
(* What a session that remembers keeps                                      *)

Plain == "compress" \notin befalls

\* Without compression there is no summary and nothing replaces the hot context.
PlainHolds == Plain =>
  /\ summary = [covers |-> {}, at |-> 0]
  /\ ~turn.needs /\ \A d \in suspended : ~d.needs
  /\ \A i \in DOMAIN jobs : jobs[i].stage = "bill" /\ ~jobs[i].of.needs
  /\ pc \notin {"summary", "reload"}

NotSuspending == "suspend" \notin befalls => suspended = {} /\ turn.mode \in {"none", "new"}

Gathering == {"idle", "load", "refill"}

\* The persisted turns are in the hot context or in the summary, unless it expired.
Kept ==
  /\ \/ settled \subseteq ToSet(hot) \cup summary.covers
     \/ "expire" \in befalls /\ hot = << >> /\ pc \in Gathering
  /\ befalls \cap {"expire", "hot_unread"} # {} => settled \subseteq ToSet(archive)
  /\ "expire" \notin befalls => hot # << >>
  /\ pc = "refill" => hot = << >> \/ "hot_unread" \in befalls

\* The window that a new turn has read covers them too, unless it missed something.
Covered ==
  /\ turns \notin missed =>
       /\ pc = "recall" => settled \subseteq ToSet(turn.keep) \cup turn.cands \cup summary.covers
       /\ pc \in {"user", "llm"} /\ turn.mode = "new" =>
            settled \subseteq ToSet(turn.keep) \cup turn.cands \cup turn.existing
  /\ pc \notin Gathering \cup {"recall", "user", "llm", "hot"} => ToSet(turn.record) \subseteq ToSet(hot)

\* With compression, whoever may replace the hot context or the summary knows what was
\* persisted, and what it kept is still in the hot context.
Knows(t) ==
  /\ settled \subseteq ToSet(t.keep) \cup t.cands \cup t.existing \cup ToSet(t.record)
  /\ ToSet(t.keep) \subseteq ToSet(hot)

Matches(d, t) ==
  /\ d.keep = t.keep /\ d.cands = t.cands /\ d.existing = t.existing
  /\ ToSet(d.record) \subseteq ToSet(t.record)

Knowing == ~Plain =>
  /\ missed = {}
  /\ jobs # << >> => pc = "idle" /\ Len(jobs) = 1
  /\ pc \notin Gathering => ToSet(turn.keep) \subseteq ToSet(hot)
  /\ pc \notin Gathering \cup {"recall"} => Knows(turn)
  /\ pc = "reload" => summary.covers = turn.existing \cup turn.cands
  /\ \A d \in suspended :
       /\ Knows(d) /\ (turn.mode # "none" => Matches(d, turn))
       /\ turn.mode = "new" => d.record = turn.record
  /\ \A i \in DOMAIN jobs :
       /\ Knows(jobs[i].of) /\ ToSet(jobs[i].of.record) \subseteq ToSet(hot)
       /\ jobs[i].stage = "reload" => summary.covers = jobs[i].of.existing \cup jobs[i].of.cands
       /\ \A d \in suspended : Matches(d, jobs[i].of)

Steady == PlainHolds /\ NotSuspending
Memory == Kept /\ Covered /\ Knowing

\* Where the hot context is complete or gone, the turns that were persisted after the summary
\* was written are in it, and the window of a new turn that missed nothing holds them.
Recent ==
  /\ \/ Recents \subseteq ToSet(hot)
     \/ "expire" \in befalls /\ hot = << >> /\ pc \in Gathering
  /\ befalls \cap {"expire", "hot_unread"} # {} => Recents \subseteq ToSet(archive)
  /\ "expire" \notin befalls => hot # << >>
  /\ pc = "refill" => hot = << >> \/ "hot_unread" \in befalls
  /\ turns \notin missed /\ (pc = "recall" \/ (pc \in {"user", "llm"} /\ turn.mode = "new")) =>
       Recents \subseteq ToSet(turn.keep) \cup turn.cands
  /\ pc \in {"archive", "finish"} \/ (turn.mode = "close" /\ pc \in {"bill", "summary", "reload", "delete"}) =>
       ToSet(turn.record) \subseteq ToSet(hot)

\* A reload finds the summary it made; with compression no request goes on beside a task.
Reloading ==
  /\ pc = "reload" \/ (\E i \in DOMAIN jobs : jobs[i].stage = "reload") => summary.at = created
  /\ ~Plain /\ jobs # << >> => pc = "idle" \/ (pc = "delete" /\ turn.mode = "recover")

MemoryInv ==
  /\ Steady
  /\ Remembers => Memory
  /\ HotIsWhole => Recent /\ Reloading

-----------------------------------------------------------------------------
(* Lemmas about sequences                                                   *)

\* The elements of a sequence.
LEMMA Elements ==
  ASSUME NEW S, NEW s \in Seq(S)
  PROVE  /\ ToSet(s) \subseteq S
         /\ \A i \in 1..Len(s) : s[i] \in ToSet(s)
         /\ \A x \in ToSet(s) : \E i \in 1..Len(s) : s[i] = x
         /\ ToSet(s) = {} <=> s = << >>
<1>1. s \in [1..Len(s) -> S] /\ DOMAIN s = 1..Len(s) /\ Len(s) \in Nat
  BY LenProperties
<1>2. s # << >> => 1 \in 1..Len(s)
  BY <1>1, EmptySeq
<1>3. s = << >> => 1..Len(s) = {}
  BY EmptySeq
<1>4. ToSet(s) = {s[i] : i \in 1..Len(s)}
  BY <1>1 DEF ToSet
<1>5. \A i \in 1..Len(s) : s[i] \in S
  BY <1>1
<1> QED
  BY <1>2, <1>3, <1>4, <1>5

\* ... of a sequence with one more at its end,
LEMMA AppendElements ==
  ASSUME NEW S, NEW s \in Seq(S), NEW e \in S
  PROVE  ToSet(Append(s, e)) = ToSet(s) \cup {e}
<1> DEFINE t == Append(s, e)
<1>1. /\ t \in Seq(S) /\ Len(t) = Len(s) + 1
      /\ \A i \in 1..Len(s) : t[i] = s[i]
      /\ t[Len(s) + 1] = e
  BY AppendProperties
<1>2. DOMAIN s = 1..Len(s) /\ DOMAIN t = 1..Len(t) /\ Len(s) \in Nat
  BY <1>1, LenProperties
<1> HIDE DEF t
<1> QED
  BY <1>1, <1>2 DEF ToSet

\* ... of two sequences put together,
LEMMA ConcatElements ==
  ASSUME NEW S, NEW s \in Seq(S), NEW t \in Seq(S)
  PROVE  ToSet(s \o t) = ToSet(s) \cup ToSet(t)
<1> DEFINE u == s \o t
<1>1. /\ u \in Seq(S) /\ Len(u) = Len(s) + Len(t)
      /\ \A i \in 1..Len(s) + Len(t) : u[i] = IF i <= Len(s) THEN s[i] ELSE t[i - Len(s)]
  BY ConcatProperties
<1>2. /\ DOMAIN s = 1..Len(s) /\ DOMAIN t = 1..Len(t) /\ DOMAIN u = 1..Len(u)
      /\ Len(s) \in Nat /\ Len(t) \in Nat
  BY <1>1, LenProperties
<1> HIDE DEF u
<1>3. ToSet(s) \subseteq ToSet(u)
  BY <1>1, <1>2, SMTT(30) DEF ToSet
<1>4. ASSUME NEW j \in 1..Len(t) PROVE t[j] \in ToSet(u)
  <2>1. j + Len(s) \in 1..Len(u) /\ u[j + Len(s)] = t[j]
    BY <1>1, <1>2, SMTT(30)
  <2> QED
    BY <2>1, <1>2 DEF ToSet
<1>5. ASSUME NEW i \in 1..Len(u) PROVE u[i] \in ToSet(s) \cup ToSet(t)
  <2>1. CASE i <= Len(s)
    <3>1. i \in 1..Len(s) /\ u[i] = s[i]
      BY <2>1, <1>1, <1>2
    <3> QED
      BY <3>1, <1>2 DEF ToSet
  <2>2. CASE ~(i <= Len(s))
    <3>1. i - Len(s) \in 1..Len(t) /\ u[i] = t[i - Len(s)]
      BY <2>2, <1>1, <1>2
    <3> QED
      BY <3>1, <1>2 DEF ToSet
  <2> QED
    BY <2>1, <2>2
<1>6. ToSet(t) \subseteq ToSet(u)
  BY <1>4, <1>2 DEF ToSet
<1>7. ToSet(u) \subseteq ToSet(s) \cup ToSet(t)
  BY <1>5, <1>2 DEF ToSet
<1> QED
  BY <1>3, <1>6, <1>7 DEF u

\* ... and of a sequence without its head.
LEMMA TailElements ==
  ASSUME NEW S, NEW s \in Seq(S), s # << >>
  PROVE  /\ Tail(s) \in Seq(S) /\ DOMAIN Tail(s) = 1..Len(s) - 1 /\ Len(s) \in Nat \ {0}
         /\ \A i \in 2..Len(s) : s[i] \in ToSet(Tail(s))
         /\ \A x \in ToSet(Tail(s)) : \E i \in 2..Len(s) : s[i] = x
         /\ ToSet(s) = {s[1]} \cup ToSet(Tail(s))
<1> DEFINE t == Tail(s)
<1>1. t \in Seq(S) /\ Len(t) = Len(s) - 1 /\ \A i \in 1..Len(t) : t[i] = s[i + 1]
  BY HeadTailProperties
<1>2. DOMAIN s = 1..Len(s) /\ DOMAIN t = 1..Len(t) /\ Len(s) \in Nat \ {0}
  BY <1>1, LenProperties, EmptySeq
<1> HIDE DEF t
<1>3. ASSUME NEW i \in 2..Len(s) PROVE s[i] \in ToSet(t)
  <2>1. i - 1 \in 1..Len(t) /\ t[i - 1] = s[i]
    BY <1>1, <1>2
  <2> QED
    BY <2>1, <1>2 DEF ToSet
<1>4. ASSUME NEW x \in ToSet(t) PROVE \E i \in 2..Len(s) : s[i] = x
  <2>1. PICK k \in 1..Len(t) : t[k] = x
    BY <1>2 DEF ToSet
  <2>2. k + 1 \in 2..Len(s) /\ s[k + 1] = x
    BY <2>1, <1>1, <1>2
  <2> QED
    BY <2>2
<1>5. ToSet(s) = {s[1]} \cup ToSet(t)
  <2>1. ToSet(s) = {s[i] : i \in 1..Len(s)}
    BY <1>2 DEF ToSet
  <2>2. \A i \in 1..Len(s) : i = 1 \/ i \in 2..Len(s)
    BY <1>2
  <2>3. 1 \in 1..Len(s) /\ \A i \in 2..Len(s) : i \in 1..Len(s)
    BY <1>2
  <2> QED
    BY <2>1, <2>2, <2>3, <1>3, <1>4
<1> QED
  BY <1>1, <1>2, <1>3, <1>4, <1>5 DEF t

\* A sequence without its i-th element holds the others, each once.
LEMMA Removed ==
  ASSUME NEW S, NEW s \in Seq(S), NEW i \in DOMAIN s
  PROVE  /\ RemoveAt(s, i) \in Seq(S) /\ Len(RemoveAt(s, i)) = Len(s) - 1
         /\ DOMAIN RemoveAt(s, i) = 1..Len(s) - 1
         /\ \A k \in DOMAIN RemoveAt(s, i) :
              /\ (IF k < i THEN k ELSE k + 1) \in DOMAIN s \ {i}
              /\ RemoveAt(s, i)[k] = s[IF k < i THEN k ELSE k + 1]
         /\ \A m \in DOMAIN s \ {i} : \E k \in DOMAIN RemoveAt(s, i) : RemoveAt(s, i)[k] = s[m]
<1> DEFINE a == SubSeq(s, 1, i - 1)
           b == SubSeq(s, i + 1, Len(s))
           r == RemoveAt(s, i)
<1>1. DOMAIN s = 1..Len(s) /\ Len(s) \in Nat /\ i \in 1..Len(s) /\ \A k \in 1..Len(s) : s[k] \in S
  BY LenProperties
<1>2. a \in Seq(S) /\ Len(a) = i - 1 /\ \A k \in 1..i - 1 : a[k] = s[k]
  <2>1. 1 \in Int /\ i - 1 \in Int /\ \A k \in 1..i - 1 : s[k] \in S
    BY <1>1
  <2> QED
    BY <2>1, <1>1, SubSeqProperties
<1>3. b \in Seq(S) /\ Len(b) = Len(s) - i /\ \A k \in 1..Len(s) - i : b[k] = s[k + i]
  <2>1. i + 1 \in Int /\ Len(s) \in Int /\ \A k \in i + 1..Len(s) : s[k] \in S
    BY <1>1
  <2>2. /\ b \in Seq(S) /\ Len(b) = IF i + 1 <= Len(s) THEN Len(s) - (i + 1) + 1 ELSE 0
        /\ \A k \in 1..Len(s) - (i + 1) + 1 : b[k] = s[i + 1 + k - 1]
    BY <2>1, SubSeqProperties
  <2> QED
    BY <2>2, <1>1
<1>4. r = a \o b
  BY DEF RemoveAt
<1> HIDE DEF a, b, r
<1>5. /\ r \in Seq(S) /\ Len(r) = Len(a) + Len(b)
      /\ \A k \in 1..Len(a) + Len(b) : r[k] = IF k <= Len(a) THEN a[k] ELSE b[k - Len(a)]
  BY <1>2, <1>3, <1>4, ConcatProperties
<1>6. DOMAIN r = 1..Len(s) - 1
  BY <1>1, <1>2, <1>3, <1>5, LenProperties
<1>7. ASSUME NEW k \in DOMAIN r
      PROVE  /\ (IF k < i THEN k ELSE k + 1) \in DOMAIN s \ {i}
             /\ r[k] = s[IF k < i THEN k ELSE k + 1]
  <2>1. k \in 1..Len(a) + Len(b) /\ k \in Nat /\ i \in Nat
    BY <1>1, <1>2, <1>3, <1>6
  <2>2. CASE k < i
    BY <2>1, <2>2, <1>1, <1>2, <1>3, <1>5
  <2>3. CASE ~(k < i)
    <3>1. k - Len(a) \in 1..Len(s) - i /\ k - Len(a) + i = k + 1 /\ k + 1 \in 1..Len(s)
      BY <2>1, <2>3, <1>1, <1>2, <1>3, SMTT(30)
    <3>2. ~(k <= Len(a))
      BY <2>1, <2>3, <1>2
    <3>3. r[k] = b[k - Len(a)]
      BY <2>1, <3>2, <1>5
    <3>4. b[k - Len(a)] = s[k - Len(a) + i]
      BY <3>1, <1>3
    <3> QED
      BY <2>3, <3>1, <3>3, <3>4, <1>1
  <2> QED
    BY <2>2, <2>3
<1>8. ASSUME NEW m \in DOMAIN s \ {i} PROVE \E k \in DOMAIN r : r[k] = s[m]
  <2> DEFINE k == IF m < i THEN m ELSE m - 1
  <2>1. k \in DOMAIN r /\ (IF k < i THEN k ELSE k + 1) = m
    BY <1>1, <1>6
  <2> QED
    BY <2>1, <1>7
<1> QED
  BY <1>1, <1>2, <1>3, <1>5, <1>6, <1>7, <1>8 DEF r

\* A set of numbers has a least one.
LEMMA Least ==
  ASSUME NEW T \in SUBSET Nat, T # {}
  PROVE  \E m \in T : \A n \in T : m <= n
<1> DEFINE R == OpToRel(<, Nat)
<1>1. IsWellFoundedOn(R, Nat)
  BY NatLessThanWellFounded
<1> HIDE DEF R
<1>2. PICK m \in T : \A n \in T : ~(<<n, m>> \in R)
  BY <1>1, WFMin, Zenon
<1>3. \A n \in T : ~(n < m)
  BY <1>2 DEF R, OpToRel
<1> QED
  BY <1>3

\* The messages of a list that are newer than a time.
LEMMA NewerElements ==
  ASSUME NEW S \in SUBSET Nat, NEW s \in Seq(S), NEW at \in Nat
  PROVE  Newer(s, at) \in Seq(S) /\ ToSet(Newer(s, at)) = {x \in ToSet(s) : x > at}
<1> DEFINE Steps(f, n) ==
             f = [i \in 0..n |->
                    IF i = 0 THEN << >>
                    ELSE IF s[i] > at THEN Append(f[i - 1], s[i]) ELSE f[i - 1]]
           newer == CHOOSE f : Steps(f, Len(s))
<1>1. /\ Len(s) \in Nat /\ DOMAIN s = 1..Len(s) /\ \A i \in 1..Len(s) : s[i] \in S
      /\ ToSet(s) = {s[i] : i \in 1..Len(s)}
  BY LenProperties DEF ToSet
<1>2. \A n \in 0..Len(s) : \E f : Steps(f, n)
  <2> DEFINE Bad == {n \in 0..Len(s) : ~\E f : Steps(f, n)}
  <2> SUFFICES ASSUME Bad # {} PROVE FALSE
    OBVIOUS
  <2>1. PICK m \in Bad : \A n \in Bad : m <= n
    <3>1. Bad \in SUBSET Nat
      OBVIOUS
    <3> HIDE DEF Bad
    <3> QED
      BY <3>1, Least
  <2>2. m # 0
    <3>1. Steps([i \in 0..0 |-> << >>], 0)
      OBVIOUS
    <3> QED
      BY <3>1, <2>1
  <2>3. PICK f : Steps(f, m - 1)
    <3>1. m - 1 \in 0..Len(s) /\ ~(m <= m - 1)
      BY <2>1, <2>2, <1>1
    <3> QED
      BY <3>1, <2>1
  <2> DEFINE g == [i \in 0..m |->
                     IF i < m THEN f[i]
                     ELSE IF s[m] > at THEN Append(f[m - 1], s[m]) ELSE f[m - 1]]
  <2>4. ASSUME NEW i \in 0..m
        PROVE  g[i] = IF i = 0 THEN << >> ELSE IF s[i] > at THEN Append(g[i - 1], s[i]) ELSE g[i - 1]
    <3>1. m \in Nat /\ i \in Nat
      BY <2>1, <1>1
    <3>2. CASE i = m
      BY <3>1, <3>2, <2>2
    <3>3. CASE i # m
      <4>1. i \in 0..m - 1 /\ i < m
        BY <3>1, <3>3
      <4>2. f[i] = IF i = 0 THEN << >> ELSE IF s[i] > at THEN Append(f[i - 1], s[i]) ELSE f[i - 1]
        BY <4>1, <2>3
      <4> QED
        BY <3>1, <4>1, <4>2
    <3> QED
      BY <3>2, <3>3
  <2>5. Steps(g, m)
    BY <2>4
  <2> QED
    BY <2>1, <2>5
<1>3. Steps(newer, Len(s))
  <2>1. \E f : Steps(f, Len(s))
    BY <1>1, <1>2
  <2> HIDE DEF Steps
  <2> QED
    BY <2>1, Zenon
<1>4. Newer(s, at) = newer[Len(s)]
  BY DEF Newer
<1> HIDE DEF newer
<1>5. /\ newer[0] = << >>
      /\ \A i \in 1..Len(s) : newer[i] = IF s[i] > at THEN Append(newer[i - 1], s[i]) ELSE newer[i - 1]
  <2>1. newer = [i \in 0..Len(s) |->
                   IF i = 0 THEN << >>
                   ELSE IF s[i] > at THEN Append(newer[i - 1], s[i]) ELSE newer[i - 1]]
    BY <1>3
  <2>2. ASSUME NEW i \in 0..Len(s)
        PROVE  newer[i] = IF i = 0 THEN << >>
                          ELSE IF s[i] > at THEN Append(newer[i - 1], s[i]) ELSE newer[i - 1]
    BY <2>1, Zenon
  <2>3. 0 \in 0..Len(s) /\ \A i \in 1..Len(s) : i \in 0..Len(s) /\ i # 0
    BY <1>1
  <2> QED
    BY <2>2, <2>3
<1> DEFINE Right(n) == /\ newer[n] \in Seq(S)
                       /\ ToSet(newer[n]) = {x \in S : x > at /\ \E i \in 1..n : s[i] = x}
<1> HIDE DEF Steps
<1>6. Right(0)
  <2>1. << >> \in Seq(S) /\ ToSet(<< >>) = {}
    BY EmptySeq, Elements
  <2> QED
    BY <2>1, <1>5
<1>7. ASSUME NEW n \in 1..Len(s), Right(n - 1) PROVE Right(n)
  <2>1. n \in Nat /\ n - 1 \in Nat /\ s[n] \in S /\ 1..n = (1..n - 1) \cup {n}
    BY <1>1
  <2>2. CASE s[n] > at
    <3>1. newer[n] = Append(newer[n - 1], s[n])
      BY <1>5, <2>2
    <3>2. newer[n] \in Seq(S) /\ ToSet(newer[n]) = ToSet(newer[n - 1]) \cup {s[n]}
      BY <3>1, <2>1, <1>7, AppendElements, AppendProperties
    <3> QED
      BY <3>2, <2>1, <2>2, <1>7
  <2>3. CASE ~(s[n] > at)
    <3>1. newer[n] = newer[n - 1]
      BY <1>5, <2>3
    <3> QED
      BY <3>1, <2>1, <2>3, <1>7
  <2> QED
    BY <2>2, <2>3
<1>8. \A n \in 0..Len(s) : Right(n)
  <2> DEFINE Bad == {n \in 0..Len(s) : ~Right(n)}
  <2> SUFFICES ASSUME Bad # {} PROVE FALSE
    OBVIOUS
  <2>1. PICK m \in Bad : \A n \in Bad : m <= n
    <3>1. Bad \in SUBSET Nat
      OBVIOUS
    <3> HIDE DEF Bad
    <3> QED
      BY <3>1, Least
  <2> HIDE DEF Right
  <2>2. m \in 1..Len(s) /\ m - 1 \in 0..Len(s) /\ ~(m <= m - 1)
    BY <2>1, <1>1, <1>6
  <2>3. Right(m - 1)
    BY <2>1, <2>2
  <2> QED
    BY <2>1, <2>2, <2>3, <1>7
<1> QED
  <2>1. Right(Len(s))
    <3> HIDE DEF Right
    <3> QED
      BY <1>1, <1>8
  <2> QED
    BY <2>1, <1>1, <1>4

\* A window splits a history.
LEMMA WindowSplits ==
  ASSUME NEW S, NEW h \in Seq(S), Low \in Nat, High \in Nat
  PROVE  /\ Window(h).keep \in Seq(S) /\ Window(h).cands \in SUBSET S
         /\ Window(h).needs \in BOOLEAN /\ (Window(h).needs => "compress" \in befalls)
         /\ ToSet(Window(h).keep) \cup Window(h).cands = ToSet(h)
<1> DEFINE n == Len(h)
           k == IF n < Low THEN n ELSE Low
           a == SubSeq(h, n - k + 1, n)
           b == SubSeq(h, 1, n - k)
<1>1. n \in Nat /\ k \in 0..n /\ DOMAIN h = 1..n /\ \A i \in 1..n : h[i] \in S
  BY LenProperties
<1>2. /\ a \in Seq(S) /\ Len(a) = k
      /\ \A i \in 1..k : a[i] = h[n - k + i]
  <2> HIDE DEF k
  <2>1. n - k + 1 \in Int /\ n \in Int /\ \A i \in n - k + 1..n : h[i] \in S
    BY <1>1
  <2>2. /\ a \in Seq(S) /\ Len(a) = IF n - k + 1 <= n THEN n - (n - k + 1) + 1 ELSE 0
        /\ \A i \in 1..n - (n - k + 1) + 1 : a[i] = h[n - k + 1 + i - 1]
    BY <2>1, SubSeqProperties
  <2>3. n - (n - k + 1) + 1 = k /\ (n - k + 1 <= n <=> k # 0)
    BY <1>1
  <2>4. \A i \in 1..k : n - k + 1 + i - 1 = n - k + i
    BY <1>1
  <2> HIDE DEF a
  <2>5. Len(a) = k
    BY <2>2, <2>3
  <2>6. \A i \in 1..k : a[i] = h[n - k + i]
    BY <2>2, <2>3, <2>4
  <2> QED
    BY <2>2, <2>5, <2>6
<1>3. b \in Seq(S) /\ Len(b) = n - k /\ \A i \in 1..n - k : b[i] = h[i]
  <2> HIDE DEF k
  <2>1. 1 \in Int /\ n - k \in Int /\ \A i \in 1..n - k : h[i] \in S
    BY <1>1
  <2>2. /\ b \in Seq(S) /\ Len(b) = IF 1 <= n - k THEN n - k - 1 + 1 ELSE 0
        /\ \A i \in 1..n - k - 1 + 1 : b[i] = h[1 + i - 1]
    BY <2>1, SubSeqProperties
  <2>3. n - k \in Nat
    BY <1>1
  <2>4. \A m \in Nat : m - 1 + 1 = m /\ (1 <= m <=> m # 0) /\ \A i \in 1..m : 1 + i - 1 = i
    OBVIOUS
  <2> HIDE DEF n, b
  <2> QED
    BY <2>2, <2>3, <2>4
<1>4. Window(h) = [keep |-> a, cands |-> ToSet(b), needs |-> "compress" \in befalls /\ n >= High]
  BY DEF Window
<1> HIDE DEF n, k, a, b
<1>5. DOMAIN a = 1..k /\ DOMAIN b = 1..n - k
  BY <1>2, <1>3, LenProperties
<1>6. ToSet(a) \subseteq ToSet(h)
  <2> SUFFICES ASSUME NEW i \in 1..k PROVE a[i] \in ToSet(h)
    BY <1>5 DEF ToSet
  <2>1. n - k + i \in 1..n /\ a[i] = h[n - k + i]
    BY <1>1, <1>2
  <2> QED
    BY <2>1, <1>1 DEF ToSet
<1>7. ToSet(b) \subseteq ToSet(h)
  <2> SUFFICES ASSUME NEW i \in 1..n - k PROVE b[i] \in ToSet(h)
    BY <1>5 DEF ToSet
  <2>1. i \in 1..n /\ b[i] = h[i]
    BY <1>1, <1>3
  <2> QED
    BY <2>1, <1>1 DEF ToSet
<1>8. ToSet(h) \subseteq ToSet(a) \cup ToSet(b)
  <2> SUFFICES ASSUME NEW i \in 1..n PROVE h[i] \in ToSet(a) \cup ToSet(b)
    BY <1>1 DEF ToSet
  <2>1. CASE i <= n - k
    <3>1. i \in 1..n - k /\ b[i] = h[i]
      BY <2>1, <1>1, <1>3
    <3> QED
      BY <3>1, <1>5 DEF ToSet
  <2>2. CASE ~(i <= n - k)
    <3>1. i - (n - k) \in 1..k /\ a[i - (n - k)] = h[i]
      BY <2>2, <1>1, <1>2
    <3> QED
      BY <3>1, <1>5 DEF ToSet
  <2> QED
    BY <2>1, <2>2
<1>9. ToSet(b) \subseteq S
  BY <1>3, Elements
<1>10. /\ Window(h).keep = a /\ Window(h).cands = ToSet(b)
       /\ Window(h).needs = ("compress" \in befalls /\ n >= High)
  BY <1>4
<1>11. Window(h).needs \in BOOLEAN /\ (Window(h).needs => "compress" \in befalls)
  BY <1>10
<1> QED
  BY <1>2, <1>6, <1>7, <1>8, <1>9, <1>10, <1>11

-----------------------------------------------------------------------------
(* Lemmas about turns and suspended chats                                   *)

Context(mode, doc, record, usage, existing, keep, cands, needs) ==
  [mode |-> mode, doc |-> doc, record |-> record, usage |-> usage,
   existing |-> existing, keep |-> keep, cands |-> cands, needs |-> needs]

\* The fields of a turn.
LEMMA Fields ==
  ASSUME NEW c \in Nat, NEW t \in Contexts(c)
  PROVE  /\ t = Context(t.mode, t.doc, t.record, t.usage, t.existing, t.keep, t.cands, t.needs)
         /\ t.mode \in {"none", "new", "recover", "close"} /\ t.doc \in 0..c /\ t.record \in Seq(1..c)
         /\ t.usage \subseteq 1..c /\ t.existing \subseteq 1..c
         /\ t.keep \in Seq(1..c) /\ t.cands \subseteq 1..c /\ t.needs \in BOOLEAN
BY DEF Contexts, Context

\* A turn of few messages is one of more messages.
LEMMA MoreMessages ==
  ASSUME NEW c \in Nat
  PROVE  Contexts(c) \subseteq Contexts(c + 1) /\ Jobs(c) \subseteq Jobs(c + 1)
<1>1. 1..c \subseteq 1..c + 1 /\ 0..c \subseteq 0..c + 1
  OBVIOUS
<1>2. \A s \in Seq(1..c) : s \in Seq(1..c + 1)
  BY <1>1, SeqMonotonic
<1>3. ASSUME NEW t \in Contexts(c) PROVE t \in Contexts(c + 1)
  <2>1. t = Context(t.mode, t.doc, t.record, t.usage, t.existing, t.keep, t.cands, t.needs)
    BY Fields
  <2>2. /\ t.mode \in {"none", "new", "recover", "close"} /\ t.doc \in 0..c + 1
        /\ t.record \in Seq(1..c + 1) /\ t.usage \subseteq 1..c + 1 /\ t.existing \subseteq 1..c + 1
        /\ t.keep \in Seq(1..c + 1) /\ t.cands \subseteq 1..c + 1 /\ t.needs \in BOOLEAN
    BY <1>1, <1>2, Fields
  <2> QED
    BY <2>1, <2>2 DEF Contexts, Context
<1>4. ASSUME NEW j \in Jobs(c) PROVE j \in Jobs(c + 1)
  <2>1. j = [stage |-> j.stage, of |-> j.of] /\ j.stage \in {"bill", "summary", "reload"} /\ j.of \in Contexts(c)
    BY DEF Jobs
  <2>2. j.of \in Contexts(c + 1)
    BY <2>1, <1>3
  <2> QED
    BY <2>1, <2>2 DEF Jobs
<1> QED
  BY <1>3, <1>4

\* What the operations make of a turn.
LEMMA Rewritten ==
  ASSUME NEW c \in Nat, NEW t \in Contexts(c)
  PROVE  /\ \A n : Close(t, n) = Context("close", t.doc, Append(t.record, n), t.usage,
                                         t.existing, t.keep, t.cands, t.needs)
         /\ [t EXCEPT !.mode = "recover", !.record = << >>, !.usage = {}]
              = Context("recover", t.doc, << >>, {}, t.existing, t.keep, t.cands, t.needs)
         /\ \A h : Windowed(t, h) = Context(t.mode, t.doc, t.record, t.usage, t.existing,
                                            Window(h).keep, Window(h).cands, Window(h).needs)
         /\ \A x : [t EXCEPT !.existing = x]
              = Context(t.mode, t.doc, t.record, t.usage, x, t.keep, t.cands, t.needs)
         /\ \A r : [t EXCEPT !.record = r]
              = Context(t.mode, t.doc, r, t.usage, t.existing, t.keep, t.cands, t.needs)
         /\ \A d : [t EXCEPT !.doc = d]
              = Context(t.mode, d, t.record, t.usage, t.existing, t.keep, t.cands, t.needs)
         /\ \A n : [t EXCEPT !.record = Append(@, n), !.usage = @ \cup {n}]
              = Context(t.mode, t.doc, Append(t.record, n), t.usage \cup {n},
                        t.existing, t.keep, t.cands, t.needs)
<1> DEFINE u(m, r, g) == Context(m, t.doc, r, g, t.existing, t.keep, t.cands, t.needs)
           w(k, x, b) == Context(t.mode, t.doc, t.record, t.usage, t.existing, k, x, b)
<1>1. t = u(t.mode, t.record, t.usage) /\ t = w(t.keep, t.cands, t.needs)
  BY Fields
<1>2. ASSUME NEW n PROVE Close(t, n) = u("close", Append(t.record, n), t.usage)
  <2>1. Close(t, n) = [[t EXCEPT !.mode = "close"] EXCEPT !.record = Append(@, n)]
    BY Zenon DEF Close
  <2>2. [t EXCEPT !.mode = "close"] = u("close", t.record, t.usage)
    BY <1>1 DEF Context
  <2>3. [u("close", t.record, t.usage) EXCEPT !.record = Append(@, n)]
          = u("close", Append(t.record, n), t.usage)
    BY SMTT(30) DEF Context
  <2> QED
    BY <2>1, <2>2, <2>3, Zenon
<1>3. [t EXCEPT !.mode = "recover", !.record = << >>, !.usage = {}] = u("recover", << >>, {})
  <2>1. [t EXCEPT !.mode = "recover", !.record = << >>, !.usage = {}]
          = [[[t EXCEPT !.mode = "recover"] EXCEPT !.record = << >>] EXCEPT !.usage = {}]
    BY Zenon
  <2>2. [t EXCEPT !.mode = "recover"] = u("recover", t.record, t.usage)
    BY <1>1 DEF Context
  <2>3. [u("recover", t.record, t.usage) EXCEPT !.record = << >>] = u("recover", << >>, t.usage)
    BY DEF Context
  <2>4. [u("recover", << >>, t.usage) EXCEPT !.usage = {}] = u("recover", << >>, {})
    <3> DEFINE none == {}
               empty == << >>
    <3> HIDE DEF none, empty
    <3>1. [u("recover", empty, t.usage) EXCEPT !.usage = none] = u("recover", empty, none)
      BY DEF Context
    <3> QED
      BY <3>1 DEF none, empty
  <2> QED
    BY <2>1, <2>2, <2>3, <2>4, Zenon
<1>4. ASSUME NEW h PROVE Windowed(t, h) = w(Window(h).keep, Window(h).cands, Window(h).needs)
  <2> DEFINE k == Window(h).keep
             x == Window(h).cands
             b == Window(h).needs
  <2>1. Windowed(t, h) = [t EXCEPT !.keep = k, !.cands = x, !.needs = b]
    BY Zenon DEF Windowed
  <2> HIDE DEF k, x, b
  <2>2. [t EXCEPT !.keep = k, !.cands = x, !.needs = b]
          = [[[t EXCEPT !.keep = k] EXCEPT !.cands = x] EXCEPT !.needs = b]
    BY Zenon
  <2>3. [t EXCEPT !.keep = k] = w(k, t.cands, t.needs)
    BY <1>1 DEF Context
  <2>4. [w(k, t.cands, t.needs) EXCEPT !.cands = x] = w(k, x, t.needs)
    BY DEF Context
  <2>5. [w(k, x, t.needs) EXCEPT !.needs = b] = w(k, x, b)
    BY DEF Context
  <2>6. Windowed(t, h) = w(k, x, b)
    BY <2>1, <2>2, <2>3, <2>4, <2>5, Zenon
  <2> QED
    BY <2>6 DEF k, x, b
<1>5. ASSUME NEW x
      PROVE  [t EXCEPT !.existing = x] = Context(t.mode, t.doc, t.record, t.usage, x, t.keep, t.cands, t.needs)
  BY <1>1 DEF Context
<1>6. ASSUME NEW r PROVE [t EXCEPT !.record = r] = u(t.mode, r, t.usage)
  BY <1>1 DEF Context
<1>7. ASSUME NEW d
      PROVE  [t EXCEPT !.doc = d] = Context(t.mode, d, t.record, t.usage, t.existing, t.keep, t.cands, t.needs)
  BY <1>1 DEF Context
<1>8. ASSUME NEW n
      PROVE  [t EXCEPT !.record = Append(@, n), !.usage = @ \cup {n}]
               = u(t.mode, Append(t.record, n), t.usage \cup {n})
  <2>1. [t EXCEPT !.record = Append(@, n), !.usage = @ \cup {n}]
          = [[t EXCEPT !.record = Append(@, n)] EXCEPT !.usage = @ \cup {n}]
    BY Zenon
  <2>2. [t EXCEPT !.record = Append(@, n)] = u(t.mode, Append(t.record, n), t.usage)
    BY <1>1, SMTT(30) DEF Context
  <2>3. [u(t.mode, Append(t.record, n), t.usage) EXCEPT !.usage = @ \cup {n}]
          = u(t.mode, Append(t.record, n), t.usage \cup {n})
    <3> DEFINE longer == Append(t.record, n)
    <3> HIDE DEF longer
    <3>1. [u(t.mode, longer, t.usage) EXCEPT !.usage = @ \cup {n}] = u(t.mode, longer, t.usage \cup {n})
      BY DEF Context
    <3> QED
      BY <3>1 DEF longer
  <2> QED
    BY <2>1, <2>2, <2>3, Zenon
<1> QED
  BY <1>2, <1>3, <1>4, <1>5, <1>6, <1>7, <1>8

\* The turn in hand is typed.
LEMMA TurnTyped ==
  ASSUME Parameters, TypeInv
  PROVE  /\ created \in Nat /\ turn \in Contexts(created) /\ turn.record \in Seq(Made)
         /\ turn.keep \in Seq(Made) /\ turn.usage \subseteq Made /\ turn.cands \subseteq Made
         /\ turn.existing \subseteq Made
         /\ turn.record # << >> => /\ Tail(turn.record) \in Seq(Made)
                                  /\ ToSet(Tail(turn.record)) \subseteq ToSet(turn.record)
<1>1. created \in Nat /\ turn \in Contexts(created)
  BY DEF TypeInv, Messages, Parameters
<1>2. /\ turn.record \in Seq(Made) /\ turn.keep \in Seq(Made) /\ turn.usage \subseteq Made
      /\ turn.cands \subseteq Made /\ turn.existing \subseteq Made
  BY <1>1, Fields DEF Made
<1>3. turn.record # << >> => /\ Tail(turn.record) \in Seq(Made)
                           /\ ToSet(Tail(turn.record)) \subseteq ToSet(turn.record)
  BY <1>2, TailElements
<1> QED
  BY <1>1, <1>2, <1>3

\* The fresh turn, and the one that has just begun.
LEMMA Fresh ==
  ASSUME NEW c \in Nat
  PROVE  /\ NoTurn = Context("none", 0, << >>, {}, {}, << >>, {}, FALSE)
         /\ [NoTurn EXCEPT !.mode = "new"] = Context("new", 0, << >>, {}, {}, << >>, {}, FALSE)
         /\ NoTurn \in Contexts(c) /\ [NoTurn EXCEPT !.mode = "new"] \in Contexts(c)
<1>1. << >> \in Seq(1..c) /\ 0 \in 0..c
  BY EmptySeq
<1>2. NoTurn = Context("none", 0, << >>, {}, {}, << >>, {}, FALSE)
  BY Zenon DEF NoTurn, Context
<1>3. [NoTurn EXCEPT !.mode = "new"] = Context("new", 0, << >>, {}, {}, << >>, {}, FALSE)
  <2> DEFINE none == {}
             empty == << >>
             no == FALSE
  <2>1. NoTurn = Context("none", 0, empty, none, none, empty, none, no)
    BY <1>2
  <2> HIDE DEF none, empty, no
  <2>2. [NoTurn EXCEPT !.mode = "new"] = Context("new", 0, empty, none, none, empty, none, no)
    BY <2>1 DEF Context
  <2> QED
    BY <2>2 DEF none, empty, no
<1>4. \A mode \in {"none", "new"} : Context(mode, 0, << >>, {}, {}, << >>, {}, FALSE) \in Contexts(c)
  BY <1>1 DEF Context, Contexts
<1> QED
  BY <1>2, <1>3, <1>4

\* There is a latest suspended chat.
LEMMA LatestIn ==
  ASSUME NEW c \in Nat, suspended \subseteq Contexts(c), suspended # {}
  PROVE  Latest \in suspended
<1>1. \A d \in suspended : d.doc \in 0..c
  BY DEF Contexts
<1> DEFINE T == {c - d.doc : d \in suspended}
<1>2. T \in SUBSET Nat /\ T # {}
  BY <1>1
<1> HIDE DEF T
<1>3. PICK m \in T : \A n \in T : m <= n
  BY <1>2, Least
<1>4. PICK d \in suspended : m = c - d.doc
  BY <1>3 DEF T
<1>5. \A e \in suspended : m <= c - e.doc
  BY <1>3 DEF T
<1>6. \A e \in suspended : e.doc <= d.doc
  BY <1>1, <1>4, <1>5
<1> QED
  BY <1>6 DEF Latest

-----------------------------------------------------------------------------
(* Safety: the steps of a request                                           *)

\* Gathering the context changes what the turn has read, and nothing else.
LEMMA GatheringStep ==
  ASSUME SafeInv, TypeInv',
         pc \in {"load", "refill", "recall"}, pc' \in {"refill", "recall", "user"},
         turn'.mode = turn.mode, turn'.record = turn.record, turn'.usage = turn.usage,
         UNCHANGED <<archive, suspended, jobs, created, users, billed, unbilled, closed, lost, befalls>>
  PROVE  SafeInv'
<1>1. turn.mode = "new" /\ turn.record = << >> /\ turn.usage = {}
  BY DEF SafeInv, Placed
<1>2. Placed' /\ NoRecovery'
  BY <1>1 DEF Placed, NoRecovery, Persisting
<1>3. Batch'
  BY <1>1 DEF Batch, Persisting
<1>4. DocsHold' /\ JobsHold' /\ UserOnce' /\ NeverTwice'
  BY DEF SafeInv, DocsHold, JobsHold, UserOnce, NeverTwice, Once
<1>5. Whole'
  <2>1. Archiving = {} /\ Archiving' = {}
    BY DEF Archiving, Persisting
  <2>2. Billing' = Billing
    BY DEF Billing, Persisting
  <2> QED
    BY <2>1, <2>2 DEF SafeInv, Whole, Made
<1>6. DocsLeft'
  BY <1>1 DEF SafeInv, DocsLeft, AtMostOne
<1> QED
  BY <1>2, <1>3, <1>4, <1>5, <1>6 DEF SafeInv

\* Load, Refill and Recall.
LEMMA GatheringSafe ==
  ASSUME Parameters, SafeInv, Load \/ Refill \/ Recall
  PROVE  SafeInv'
<1>1. /\ created \in Nat /\ turn \in Contexts(created) /\ archive \in Seq(Made) /\ hot \in Seq(Made)
      /\ summary \in [covers : SUBSET Made, at : 0..created] /\ Low \in Nat /\ High \in Nat
  BY DEF SafeInv, TypeInv, Messages, Parameters
<1>2. Made \in SUBSET Nat /\ summary.at \in Nat /\ summary.covers \subseteq Made
  BY <1>1 DEF Made
<1>3. ASSUME NEW h \in Seq(Made)
      PROVE  /\ Windowed(turn, h) \in Contexts(created) /\ Windowed(turn, h).mode = turn.mode
             /\ Windowed(turn, h).record = turn.record /\ Windowed(turn, h).usage = turn.usage
  <2>1. Windowed(turn, h) = Context(turn.mode, turn.doc, turn.record, turn.usage, turn.existing,
                                    Window(h).keep, Window(h).cands, Window(h).needs)
    <3>1. \A x : Windowed(turn, x) = Context(turn.mode, turn.doc, turn.record, turn.usage, turn.existing,
                                             Window(x).keep, Window(x).cands, Window(x).needs)
      BY <1>1, Rewritten
    <3> QED
      BY <3>1, Zenon
  <2>2. /\ Window(h).keep \in Seq(Made) /\ Window(h).cands \in SUBSET Made /\ Window(h).needs \in BOOLEAN
    BY <1>1, WindowSplits
  <2> QED
    BY <2>1, <2>2, <1>1, Fields DEF Context, Contexts, Made
<1>4. CASE Load
  <2>1. /\ turn' \in Contexts(created) /\ turn'.mode = turn.mode
        /\ turn'.record = turn.record /\ turn'.usage = turn.usage
    BY <1>1, <1>3, <1>4 DEF Load
  <2>2. TypeInv'
    BY <2>1, <1>4 DEF Load, stores, bills, authors, counts, SafeInv, TypeInv, Made, TurnPhases
  <2>3. pc = "load" /\ pc' \in {"refill", "recall"}
        /\ UNCHANGED <<archive, suspended, jobs, created, users, billed, unbilled, closed, lost, befalls>>
    BY <1>4 DEF Load, stores, bills, authors, counts
  <2> QED
    BY <2>1, <2>2, <2>3, GatheringStep
<1>5. CASE Refill
  <2> DEFINE history == Newer(archive, summary.at)
  <2>1. history \in Seq(Made) /\ << >> \in Seq(Made)
    BY <1>1, <1>2, NewerElements, EmptySeq
  <2>2. /\ turn' = Windowed(turn, history) \/ turn' = Windowed(turn, << >>)
        /\ hot' = hot \/ hot' = history
        /\ missed' = missed \/ missed' = missed \cup {turns}
    BY <1>5 DEF Refill, Refilled, Unrefilled
  <2>3. /\ turn' \in Contexts(created) /\ turn'.mode = turn.mode
        /\ turn'.record = turn.record /\ turn'.usage = turn.usage /\ hot' \in Seq(Made)
    <3> HIDE DEF history
    <3>1. \E h \in Seq(Made) : turn' = Windowed(turn, h)
      BY <2>1, <2>2
    <3>2. hot' \in Seq(Made)
      BY <2>1, <2>2, <1>1
    <3> QED
      BY <3>1, <3>2, <1>3
  <2>4. missed' \subseteq 0..turns
    <3>1. turns \in Nat /\ missed \subseteq 0..turns /\ turns \in 0..turns
      BY DEF SafeInv, TypeInv
    <3> QED
      BY <2>2, <3>1
  <2>5. pc = "refill" /\ pc' = "recall"
        /\ UNCHANGED <<archive, summary, settled, suspended, jobs, created, users, billed, unbilled, closed,
                       turns, lost, befalls>>
    BY <1>5 DEF Refill, authors, bills
  <2>6. TypeInv'
    BY <2>3, <2>4, <2>5 DEF SafeInv, TypeInv, Made, TurnPhases
  <2> QED
    BY <2>3, <2>5, <2>6, GatheringStep
<1>6. CASE Recall
  <2>1. \E x \in {summary.covers, {}} :
          turn' = Context(turn.mode, turn.doc, turn.record, turn.usage, x, turn.keep, turn.cands, turn.needs)
    <3>1. \A x : [turn EXCEPT !.existing = x]
                   = Context(turn.mode, turn.doc, turn.record, turn.usage, x, turn.keep, turn.cands, turn.needs)
      BY <1>1, Rewritten
    <3>2. \E x \in {summary.covers, {}} : turn' = [turn EXCEPT !.existing = x]
      BY <1>6 DEF Recall
    <3> QED
      BY <3>1, <3>2, Zenon
  <2>2. /\ turn' \in Contexts(created) /\ turn'.mode = turn.mode
        /\ turn'.record = turn.record /\ turn'.usage = turn.usage
    BY <2>1, <1>1, <1>2, Fields DEF Context, Contexts, Made
  <2>3. missed' \subseteq 0..turns
    <3>1. turns \in Nat /\ missed \subseteq 0..turns /\ turns \in 0..turns
      BY DEF SafeInv, TypeInv
    <3>2. missed' = missed \/ missed' = missed \cup {turns}
      BY <1>6 DEF Recall
    <3> QED
      BY <3>1, <3>2
  <2>4. pc = "recall" /\ pc' = "user"
        /\ UNCHANGED <<archive, hot, summary, settled, suspended, jobs, created, users, billed, unbilled, closed,
                       turns, lost, befalls>>
    BY <1>6 DEF Recall, stores, bills, authors
  <2>5. TypeInv'
    BY <2>2, <2>3, <2>4 DEF SafeInv, TypeInv, Made, TurnPhases
  <2> QED
    BY <2>2, <2>4, <2>5, GatheringStep
<1> QED
  BY <1>4, <1>5, <1>6

\* A new turn; a suspended chat is closed first, and all its messages with it.
LEMMA NewTurnSafe ==
  ASSUME Parameters, SafeInv, NewTurn
  PROVE  SafeInv'
<1>1. /\ created \in Nat /\ created \in 1..MaxMessages /\ pc = "idle" /\ turn = NoTurn
      /\ suspended \subseteq Contexts(created) /\ MaxMessages \in Nat /\ turns \in Nat
  BY DEF SafeInv, TypeInv, Placed, Messages, Parameters, NewTurn, MayBegin
<1>2. UNCHANGED <<archive, hot, summary, billed, unbilled, settled, suspended, jobs, users, lost, missed, befalls>>
      /\ turns' \in Nat /\ missed' \subseteq 0..turns'
  <2>1. UNCHANGED <<archive, hot, summary, billed, unbilled, settled, suspended, jobs, users, lost, missed, befalls>>
        /\ turns' = turns + 1
    BY DEF NewTurn, stores, bills
  <2>2. missed \subseteq 0..turns /\ 0..turns \subseteq 0..turns + 1
    BY <1>1 DEF SafeInv, TypeInv
  <2> QED
    BY <2>1, <2>2, <1>1
<1>3. Archiving = {} /\ turn.mode = "none"
  BY <1>1 DEF Archiving, Persisting, NoTurn
<1>4. CASE suspended = {}
  <2>1. /\ turn' = Context("new", 0, << >>, {}, {}, << >>, {}, FALSE) /\ turn' \in Contexts(created)
        /\ pc' = "load" /\ created' = created /\ closed' = closed
    BY <1>1, <1>4, Fresh DEF NewTurn
  <2>2. turn'.mode = "new" /\ turn'.record = << >> /\ turn'.usage = {}
    BY <2>1 DEF Context
  <2>3. TypeInv'
    BY <1>2, <2>1 DEF SafeInv, TypeInv, Made, TurnPhases
  <2>4. Placed' /\ NoRecovery' /\ Batch'
    BY <2>1, <2>2 DEF Placed, NoRecovery, Batch, Persisting
  <2>5. DocsHold' /\ JobsHold' /\ UserOnce' /\ NeverTwice'
    BY <1>2, <2>1 DEF SafeInv, DocsHold, JobsHold, UserOnce, NeverTwice, Once
  <2>6. Archiving' = {} /\ Billing' = Billing
    BY <1>1, <1>2, <2>1 DEF Archiving, Billing, Persisting
  <2>7. Whole'
    BY <1>2, <1>3, <2>1, <2>6 DEF SafeInv, Whole, Made
  <2>8. DocsLeft'
    BY <1>2, <1>4, <2>1, <2>2 DEF DocsLeft, AtMostOne
  <2> QED
    BY <2>3, <2>4, <2>5, <2>7, <2>8 DEF SafeInv
<1>5. CASE suspended # {}
  <2> DEFINE d == Latest
             c == created + 1
  <2>1. d \in suspended /\ d \in Contexts(created)
    BY <1>1, <1>5, LatestIn
  <2>2. /\ created' = c /\ pc' = "hot" /\ turn' = Close(d, c)
        /\ closed' = closed \cup ToSet(turn'.record) /\ created < MaxMessages
    BY <1>5 DEF NewTurn
  <2>3. c \in 1..MaxMessages /\ c \in Nat /\ Made \subseteq Made' /\ c \in Made' /\ c \notin Made
    BY <1>1, <2>2 DEF Made
  <2>4. /\ d.mode \in {"new", "recover"} /\ d.record # << >> /\ d.usage \subseteq ToSet(d.record)
        /\ \A i \in 2..Len(d.record) : d.record[i] \notin users
    BY <2>1 DEF SafeInv, DocsHold
  <2> HIDE DEF d, c
  <2>5. turn' = Context("close", d.doc, Append(d.record, c), d.usage, d.existing, d.keep, d.cands, d.needs)
    <3>1. \A n : Close(d, n) = Context("close", d.doc, Append(d.record, n), d.usage,
                                       d.existing, d.keep, d.cands, d.needs)
      BY <2>1, <1>1, Rewritten
    <3> QED
      BY <2>2, <3>1
  <2>6. /\ turn'.mode = "close" /\ turn'.doc = d.doc /\ turn'.record = Append(d.record, c)
        /\ turn'.usage = d.usage
    BY <2>5 DEF Context
  <2>7. d \in Contexts(c)
    BY <2>1, <1>1, MoreMessages DEF c
  <2>8. d.record \in Seq(1..c) /\ d.record \in Seq(1..created) /\ c \in 1..c /\ 1..c = Made'
    BY <2>1, <2>2, <2>3, <2>7, <1>1, Fields DEF Made
  <2>9. /\ turn'.record \in Seq(1..c) /\ Len(turn'.record) = Len(d.record) + 1
        /\ \A i \in 1..Len(d.record) : turn'.record[i] = d.record[i]
        /\ turn'.record[Len(d.record) + 1] = c
        /\ ToSet(turn'.record) = ToSet(d.record) \cup {c}
    BY <2>6, <2>8, AppendProperties, AppendElements
  <2>10. Len(d.record) \in Nat \ {0} /\ turn'.record # << >> /\ Len(turn'.record) >= 2
    BY <2>4, <2>6, <2>8, <2>9, EmptySeq, AppendProperties
  <2>11. turn' \in Contexts(c)
    BY <2>5, <2>6, <2>7, <2>9, <2>3, Fields DEF Context, Contexts
  <2>12. TypeInv'
    <3>1. /\ archive' \in Seq(Made') /\ hot' \in Seq(Made')
      BY <1>2, <2>3, SeqMonotonic DEF SafeInv, TypeInv
    <3>2. summary' \in [covers : SUBSET Made', at : 0..created']
      BY <1>2, <2>3, <2>2, <1>1 DEF SafeInv, TypeInv, c
    <3>3. Contexts(created) \subseteq Contexts(created') /\ Jobs(created) \subseteq Jobs(created')
      BY <1>1, <2>2, MoreMessages DEF c
    <3>4. suspended' \subseteq Contexts(created') /\ jobs' \in Seq(Jobs(created'))
      BY <1>1, <1>2, <3>3, SeqMonotonic DEF SafeInv, TypeInv
    <3>5. ToSet(turn'.record) \subseteq Made'
      BY <2>8, <2>9, Elements
    <3>6. closed' \subseteq Made' /\ users' \subseteq Made' /\ settled' \subseteq Made' /\ unbilled' \subseteq Made'
      BY <1>2, <2>2, <2>3, <3>5 DEF SafeInv, TypeInv
    <3>7. billed' \in [Messages -> Nat] /\ \A n \in Messages \ Made' : billed'[n] = 0
      BY <1>2, <2>3 DEF SafeInv, TypeInv
    <3>8. created' \in Messages /\ pc' \in TurnPhases /\ turn' \in Contexts(created')
      BY <2>2, <2>3, <2>11 DEF Messages, TurnPhases
    <3> QED
      BY <1>2, <3>1, <3>2, <3>4, <3>6, <3>7, <3>8 DEF SafeInv, TypeInv
  <2>13. Placed' /\ NoRecovery'
    BY <2>2, <2>6 DEF Placed, NoRecovery, Persisting
  <2>14. Unstored(turn)' = Tail(turn'.record)
    BY <2>6 DEF Unstored
  <2>15. ASSUME NEW n \in ToSet(Tail(turn'.record)) PROVE n \notin users'
    <3>1. PICK i \in 2..Len(turn'.record) : turn'.record[i] = n
      BY <2>9, <2>10, TailElements
    <3>2. CASE i \in 2..Len(d.record)
      <4>1. turn'.record[i] = d.record[i]
        BY <3>2, <2>9, <2>10
      <4> QED
        BY <4>1, <3>1, <3>2, <2>4, <1>2
    <3>3. CASE i \notin 2..Len(d.record)
      <4>1. i = Len(d.record) + 1
        BY <3>3, <2>9, <2>10
      <4>2. n = c
        BY <4>1, <3>1, <2>9
      <4> QED
        BY <4>2, <2>3, <1>2 DEF SafeInv, TypeInv
    <3> QED
      BY <3>2, <3>3
  <2>16. Batch'
    <3>1. turn'.usage \subseteq closed' /\ ToSet(turn'.record) \subseteq closed'
      BY <2>2, <2>4, <2>6, <2>9
    <3> QED
      BY <2>2, <2>6, <2>10, <2>14, <2>15, <3>1 DEF Batch, Persisting
  <2>17. DocsHold' /\ JobsHold' /\ UserOnce' /\ NeverTwice'
    <3>1. DocsHold' /\ UserOnce'
      BY <1>2 DEF SafeInv, DocsHold, UserOnce, Once
    <3>2. JobsHold'
      BY <1>2, <2>2 DEF SafeInv, JobsHold
    <3>3. c \in closed' /\ closed \subseteq closed'
      BY <2>2, <2>9
    <3>4. (1..created') \ closed' \subseteq (1..created) \ closed
      BY <3>3, <2>2, <1>1 DEF c
    <3>5. NeverTwice'
      BY <3>4, <1>2 DEF SafeInv, NeverTwice, Once
    <3> QED
      BY <3>1, <3>2, <3>5
  <2>18. Whole'
    <3> SUFFICES ASSUME lost' = 0, NEW n \in Made'
                 PROVE  /\ n \in ToSet(archive') \cup Archiving'
                        /\ n \in users' \cup closed' \cup unbilled' \cup Billing' \/ billed'[n] >= 1
      BY DEF Whole
    <3>1. Archiving' = ToSet(Tail(turn'.record))
      BY <2>2, <2>14 DEF Archiving, Persisting
    <3>2. n \in Made \/ n = c
      BY <1>1, <2>2 DEF Made, c
    <3>3. CASE n = c
      <4>1. c \in closed'
        BY <2>2, <2>9
      <4>2. Len(d.record) + 1 \in 2..Len(turn'.record)
        BY <2>9, <2>10
      <4>3. c \in ToSet(Tail(turn'.record))
        BY <4>2, <2>9, <2>10, TailElements
      <4> QED
        BY <3>1, <3>3, <4>1, <4>3
    <3>4. CASE n \in Made
      <4>1. n \in ToSet(archive) /\ (n \in users \cup closed \cup unbilled \cup Billing \/ billed[n] >= 1)
        BY <3>4, <1>2, <1>3 DEF SafeInv, Whole
      <4>2. Billing \subseteq Billing'
        BY <1>1, <1>2 DEF Billing, Persisting, NoTurn
      <4> QED
        BY <4>1, <4>2, <1>2, <2>2
    <3> QED
      BY <3>2, <3>3, <3>4
  <2>19. DocsLeft'
    BY <1>2, <1>3, <2>1, <2>2, <2>6 DEF SafeInv, DocsLeft, AtMostOne
  <2> QED
    BY <2>12, <2>13, <2>16, <2>17, <2>18, <2>19 DEF SafeInv
<1> QED
  BY <1>4, <1>5

\* A recovery starts from an empty record and an empty usage.
LEMMA RecoverSafe ==
  ASSUME Parameters, SafeInv, Recover
  PROVE  SafeInv'
<1> DEFINE d == Latest
<1>1. /\ created \in Nat /\ pc = "idle" /\ turn = NoTurn /\ suspended \subseteq Contexts(created)
      /\ suspended # {} /\ turns' \in Nat /\ "recover" \in befalls /\ pc' = "llm"
      /\ turn' = [d EXCEPT !.mode = "recover", !.record = << >>, !.usage = {}]
  BY DEF SafeInv, TypeInv, Placed, Messages, Recover, MayBegin
<1>2. UNCHANGED <<archive, hot, summary, billed, unbilled, settled, suspended, jobs, created, users, closed, lost, missed, befalls>>
      /\ missed' \subseteq 0..turns'
  <2>1. UNCHANGED <<archive, hot, summary, billed, unbilled, settled, suspended, jobs, created, users, closed, lost, missed, befalls>>
        /\ turns' = turns + 1
    BY DEF Recover, stores, bills, authors
  <2>2. turns \in Nat /\ missed \subseteq 0..turns /\ 0..turns \subseteq 0..turns + 1
    BY DEF SafeInv, TypeInv
  <2> QED
    BY <2>1, <2>2
<1>3. d \in suspended /\ d \in Contexts(created)
  BY <1>1, LatestIn
<1> HIDE DEF d
<1>4. turn' = Context("recover", d.doc, << >>, {}, d.existing, d.keep, d.cands, d.needs)
  BY <1>1, <1>3, Rewritten
<1>5. turn'.mode = "recover" /\ turn'.doc = d.doc /\ turn'.record = << >> /\ turn'.usage = {}
  BY <1>4 DEF Context
<1>6. turn' \in Contexts(created)
  <2>1. << >> \in Seq(1..created)
    BY EmptySeq
  <2> QED
    BY <1>4, <1>1, <1>3, <2>1, Fields DEF Context, Contexts
<1>7. TypeInv'
  BY <1>1, <1>2, <1>6 DEF SafeInv, TypeInv, Made, TurnPhases
<1>8. Placed' /\ NoRecovery' /\ Batch'
  BY <1>1, <1>2, <1>5 DEF Placed, NoRecovery, Batch, Persisting
<1>9. DocsHold' /\ JobsHold' /\ UserOnce' /\ NeverTwice'
  BY <1>2 DEF SafeInv, DocsHold, JobsHold, UserOnce, NeverTwice, Once
<1>10. Whole'
  <2>1. Archiving = {} /\ Archiving' = {} /\ Billing' = Billing
    BY <1>1, <1>2 DEF Archiving, Billing, Persisting
  <2> QED
    BY <1>2, <2>1 DEF SafeInv, Whole, Made
<1>11. DocsLeft'
  <2>1. turn.mode # "recover" /\ turn.mode # "close"
    BY <1>1 DEF NoTurn
  <2> QED
    BY <1>1, <1>2, <1>3, <1>5, <2>1 DEF SafeInv, DocsLeft, AtMostOne
<1> QED
  BY <1>7, <1>8, <1>9, <1>10, <1>11 DEF SafeInv

\* One more message is created: what was typed, and held of older messages, still is.
LEMMA Older ==
  ASSUME Parameters, TypeInv, created < MaxMessages, created' = created + 1
  PROVE  /\ created' \in Messages /\ created' \in Made' /\ created' \notin Made
         /\ Made' = Made \cup {created'} /\ created \in Nat /\ created' \in Nat
         /\ \A s \in Seq(Made) : s \in Seq(Made') /\ ToSet(s) \subseteq Made
         /\ [covers : SUBSET Made, at : 0..created] \subseteq [covers : SUBSET Made', at : 0..created']
         /\ Contexts(created) \subseteq Contexts(created')
         /\ \A s \in Seq(Jobs(created)) : s \in Seq(Jobs(created'))
         /\ \A n \in Messages \ Made' : billed[n] = 0
         /\ billed[created'] = 0
<1>1. created \in 1..MaxMessages /\ MaxMessages \in Nat /\ created \in Nat
  BY DEF TypeInv, Messages, Parameters
<1>2. /\ created' \in Messages /\ created' \in Made' /\ created' \notin Made
      /\ Made' = Made \cup {created'} /\ created' \in Nat /\ 0..created \subseteq 0..created'
  BY <1>1 DEF Messages, Made
<1>3. \A s \in Seq(Made) : s \in Seq(Made') /\ ToSet(s) \subseteq Made
  BY <1>2, SeqMonotonic, Elements
<1>4. Contexts(created) \subseteq Contexts(created') /\ Jobs(created) \subseteq Jobs(created')
  BY <1>1, MoreMessages
<1>5. \A s \in Seq(Jobs(created)) : s \in Seq(Jobs(created'))
  BY <1>4, SeqMonotonic
<1>6. [covers : SUBSET Made, at : 0..created] \subseteq [covers : SUBSET Made', at : 0..created']
  BY <1>2
<1>7. (\A n \in Messages \ Made' : billed[n] = 0) /\ billed[created'] = 0
  BY <1>2 DEF TypeInv
<1> QED
  BY <1>1, <1>2, <1>3, <1>4, <1>5, <1>6, <1>7

\* The user message is stored before the model is asked.
LEMMA PersistUserSafe ==
  ASSUME Parameters, SafeInv, PersistUser
  PROVE  SafeInv'
<1>1. PICK c : c = created'
  OBVIOUS
<1>2. /\ c = created' /\ created < MaxMessages /\ created' = created + 1 /\ users' = users \cup {c}
      /\ turn' = [turn EXCEPT !.record = <<c>>] /\ archive' = Append(archive, c)
      /\ pc = "user" /\ pc' = "llm"
      /\ UNCHANGED <<hot, summary, billed, unbilled, settled, suspended, jobs, closed, turns, lost, missed, befalls>>
  BY <1>1 DEF PersistUser, bills, counts
<1>3. TypeInv /\ turn \in Contexts(created) /\ turn.mode = "new" /\ turn.usage = {} /\ turn.record = << >>
  BY <1>2 DEF SafeInv, TypeInv, Placed
<1>4. /\ c \in Messages /\ c \in Made' /\ c \notin Made /\ Made' = Made \cup {c}
      /\ created \in Nat /\ c \in Nat
      /\ \A s \in Seq(Made) : s \in Seq(Made') /\ ToSet(s) \subseteq Made
      /\ [covers : SUBSET Made, at : 0..created] \subseteq [covers : SUBSET Made', at : 0..created']
      /\ Contexts(created) \subseteq Contexts(created')
      /\ \A s \in Seq(Jobs(created)) : s \in Seq(Jobs(created'))
      /\ \A n \in Messages \ Made' : billed[n] = 0
      /\ billed[c] = 0
  BY <1>2, <1>3, Older
<1>5. turn' = Context(turn.mode, turn.doc, <<c>>, turn.usage, turn.existing, turn.keep, turn.cands, turn.needs)
  BY <1>2, <1>3, <1>4, Rewritten
<1>6. turn'.mode = "new" /\ turn'.record = <<c>> /\ turn'.usage = {} /\ turn'.doc = turn.doc
  BY <1>3, <1>5 DEF Context
<1>7. /\ archive \in Seq(Made) /\ archive \in Seq(Made') /\ archive' \in Seq(Made')
      /\ ToSet(archive) \subseteq Made
      /\ ToSet(archive') = ToSet(archive) \cup {c} /\ Len(archive') = Len(archive) + 1
      /\ \A i \in 1..Len(archive) : archive'[i] = archive[i]
      /\ archive'[Len(archive) + 1] = c
  <2>1. archive \in Seq(Made) /\ archive \in Seq(Made') /\ ToSet(archive) \subseteq Made
    BY <1>4 DEF SafeInv, TypeInv
  <2> QED
    BY <2>1, <1>2, <1>4, AppendProperties, AppendElements
<1>8. TypeInv'
  <2>1. <<c>> \in Seq(1..created')
    BY <1>2, <1>4 DEF Made
  <2>2. turn \in Contexts(created')
    BY <1>3, <1>4
  <2>3. created' \in Nat
    BY <1>2, <1>4
  <2>4. turn' \in Contexts(created')
    BY <1>5, <2>1, <2>2, <2>3, Fields DEF Context, Contexts
  <2>5. hot' \in Seq(Made') /\ jobs' \in Seq(Jobs(created')) /\ suspended' \subseteq Contexts(created')
    BY <1>2, <1>4 DEF SafeInv, TypeInv
  <2>6. users' \subseteq Made' /\ closed' \subseteq Made' /\ settled' \subseteq Made'
    BY <1>2, <1>4 DEF SafeInv, TypeInv
  <2>7. summary' \in [covers : SUBSET Made', at : 0..created'] /\ created' \in Messages /\ pc' \in TurnPhases
    BY <1>2, <1>4 DEF SafeInv, TypeInv, TurnPhases
  <2> QED
    BY <1>2, <1>4, <1>7, <2>4, <2>5, <2>6, <2>7 DEF SafeInv, TypeInv
<1>9. Placed' /\ NoRecovery' /\ Batch'
  <2>1. c \in users' /\ c \in ToSet(archive')
    BY <1>2, <1>7
  <2> QED
    BY <1>2, <1>6, <2>1 DEF Placed, NoRecovery, Batch, Persisting
<1>10. DocsHold' /\ JobsHold'
  <2>1. ASSUME NEW d \in suspended, NEW i \in 2..Len(d.record) PROVE d.record[i] # c
    <3>1. d.record \in Seq(1..created)
      BY <1>3, <1>4, Fields DEF TypeInv
    <3>2. i \in 1..Len(d.record)
      BY <3>1, LenProperties
    <3> QED
      BY <3>1, <3>2, <1>4, ElementOfSeq DEF Made
  <2> QED
    BY <1>2, <2>1 DEF SafeInv, DocsHold, JobsHold
<1>11. UserOnce' /\ NeverTwice'
  <2>1. ASSUME NEW n \in Made, Once(n) PROVE Once(n)'
    <3>1. ASSUME NEW i \in DOMAIN archive', archive'[i] = n PROVE i \in DOMAIN archive /\ archive[i] = n
      <4>1. i \in 1..Len(archive) + 1 /\ DOMAIN archive = 1..Len(archive) /\ Len(archive) \in Nat
        BY <1>7, LenProperties
      <4>2. i # Len(archive) + 1
        BY <1>4, <1>7, <3>1
      <4> QED
        BY <4>1, <4>2, <1>7, <3>1
    <3> QED
      BY <2>1, <3>1 DEF Once
  <2>2. Once(c)'
    <3>1. ASSUME NEW i \in DOMAIN archive', archive'[i] = c PROVE i = Len(archive) + 1
      <4>1. i \in 1..Len(archive) + 1 /\ DOMAIN archive = 1..Len(archive) /\ Len(archive) \in Nat
        BY <1>7, LenProperties
      <4>2. \A k \in DOMAIN archive : archive[k] # c
        BY <1>4, <1>7 DEF ToSet
      <4> QED
        BY <4>1, <4>2, <1>7, <3>1
    <3> QED
      BY <3>1 DEF Once
  <2>3. UserOnce'
    BY <1>2, <2>1, <2>2 DEF SafeInv, TypeInv, UserOnce
  <2>4. NeverTwice'
    BY <1>2, <1>4, <2>1, <2>2 DEF SafeInv, NeverTwice, Made
  <2> QED
    BY <2>3, <2>4
<1>12. Whole'
  <2>1. Archiving = {} /\ Archiving' = {} /\ Billing' = Billing
    BY <1>2, <1>3 DEF Archiving, Billing, Persisting
  <2> QED
    BY <1>2, <1>4, <1>7, <2>1 DEF SafeInv, Whole
<1>13. DocsLeft'
  BY <1>2, <1>3, <1>6 DEF SafeInv, DocsLeft, AtMostOne
<1> QED
  BY <1>8, <1>9, <1>10, <1>11, <1>12, <1>13 DEF SafeInv

\* An answer is fresh: nothing has archived or billed it, and the turn will do both.
LEMMA AnswerSafe ==
  ASSUME Parameters, SafeInv, Answer
  PROVE  SafeInv'
<1>1. PICK c : c = created'
  OBVIOUS
<1>2. /\ created < MaxMessages /\ created' = created + 1 /\ pc = "llm" /\ pc' = "hot"
      /\ turn' = [turn EXCEPT !.record = Append(@, c), !.usage = @ \cup {c}]
      /\ UNCHANGED <<archive, hot, summary, billed, unbilled, settled, jobs, users, closed, turns, lost, missed, befalls>>
      /\ suspended' = suspended \/ suspended' = suspended \cup {[turn' EXCEPT !.doc = c]}
  BY <1>1 DEF Answer, Replied, Suspended, stores, bills, counts
<1>3. /\ TypeInv /\ turn \in Contexts(created) /\ turn.usage = {} /\ turn.mode \in {"new", "recover"}
      /\ turn.mode = "new" => \E u \in users : turn.record = <<u>> /\ u \in ToSet(archive)
      /\ turn.mode = "recover" => turn.record = << >>
  BY <1>2 DEF SafeInv, TypeInv, Placed
<1>4. /\ c \in Messages /\ c \in Made' /\ c \notin Made /\ Made' = Made \cup {c}
      /\ created \in Nat /\ c \in Nat
      /\ \A s \in Seq(Made) : s \in Seq(Made') /\ ToSet(s) \subseteq Made
      /\ [covers : SUBSET Made, at : 0..created] \subseteq [covers : SUBSET Made', at : 0..c]
      /\ Contexts(created) \subseteq Contexts(c)
      /\ \A s \in Seq(Jobs(created)) : s \in Seq(Jobs(c))
      /\ \A n \in Messages \ Made' : billed[n] = 0
      /\ billed[c] = 0
  BY <1>1, <1>2, <1>3, Older
<1>5. turn' = Context(turn.mode, turn.doc, Append(turn.record, c), turn.usage \cup {c},
                      turn.existing, turn.keep, turn.cands, turn.needs)
  <2>1. \A n : [turn EXCEPT !.record = Append(@, n), !.usage = @ \cup {n}]
                 = Context(turn.mode, turn.doc, Append(turn.record, n), turn.usage \cup {n},
                           turn.existing, turn.keep, turn.cands, turn.needs)
    BY <1>3, <1>4, Rewritten
  <2> QED
    BY <2>1, <1>2
<1>6. /\ turn'.mode = turn.mode /\ turn'.record = Append(turn.record, c) /\ turn'.usage = {c}
      /\ turn'.doc = turn.doc
  BY <1>3, <1>5 DEF Context
<1>7. /\ turn.record \in Seq(1..c) /\ c \in 1..c /\ 1..c = Made' /\ turn \in Contexts(c)
      /\ turn'.record \in Seq(1..c) /\ turn'.record # << >> /\ c \in ToSet(turn'.record)
      /\ Len(turn'.record) = Len(turn.record) + 1 /\ turn'.record[Len(turn.record) + 1] = c
      /\ \A i \in 1..Len(turn.record) : turn'.record[i] = turn.record[i]
  <2>1. turn \in Contexts(c) /\ c \in 1..c /\ 1..c = Made'
    BY <1>1, <1>3, <1>4 DEF Made
  <2>2. turn.record \in Seq(1..c)
    BY <2>1, <1>4, Fields
  <2> QED
    BY <2>1, <2>2, <1>6, AppendProperties, AppendElements
<1>8. turn' \in Contexts(c)
  BY <1>4, <1>5, <1>6, <1>7, Fields DEF Context, Contexts
<1>9. PICK e : e = [turn' EXCEPT !.doc = c]
  OBVIOUS
<1>10. e = Context(turn'.mode, c, turn'.record, turn'.usage, turn'.existing, turn'.keep, turn'.cands, turn'.needs)
  BY <1>4, <1>8, <1>9, Rewritten
<1>11. e.mode = turn.mode /\ e.doc = c /\ e.record = turn'.record /\ e.usage = {c}
  BY <1>6, <1>10 DEF Context
<1>12. e \in Contexts(c)
  BY <1>4, <1>7, <1>8, <1>10, Fields DEF Context, Contexts
<1>13. suspended' \subseteq suspended \cup {e} /\ suspended \subseteq suspended'
  BY <1>2, <1>9
<1>14. TypeInv'
  <2>1. hot' \in Seq(Made') /\ archive' \in Seq(Made') /\ jobs' \in Seq(Jobs(c))
    BY <1>2, <1>4 DEF SafeInv, TypeInv
  <2>2. suspended' \subseteq Contexts(c)
    BY <1>4, <1>12, <1>13 DEF SafeInv, TypeInv
  <2>3. users' \subseteq Made' /\ closed' \subseteq Made' /\ settled' \subseteq Made'
    BY <1>2, <1>4 DEF SafeInv, TypeInv
  <2>4. summary' \in [covers : SUBSET Made', at : 0..c] /\ c \in Messages /\ pc' \in TurnPhases
    BY <1>2, <1>4 DEF SafeInv, TypeInv, TurnPhases
  <2> QED
    BY <1>1, <1>2, <1>4, <1>8, <2>1, <2>2, <2>3, <2>4 DEF SafeInv, TypeInv
<1>15. Unstored(turn)' = <<c>>
  <2>1. CASE turn.mode = "recover"
    <3>1. turn'.record = <<c>>
      <4>1. Append(<< >>, c) = <<c>>
        OBVIOUS
      <4>2. turn.record = << >>
        BY <2>1, <1>3
      <4> QED
        BY <4>1, <4>2, <1>6, Zenon
    <3> QED
      BY <2>1, <3>1, <1>6 DEF Unstored
  <2>2. CASE turn.mode = "new"
    <3>1. PICK u \in users : turn.record = <<u>>
      BY <2>2, <1>3
    <3>2. Unstored(turn)' = Tail(Append(turn.record, c))
      BY <2>2, <1>6 DEF Unstored
    <3>3. Tail(Append(turn.record, c)) = Append(Tail(turn.record), c)
      <4>1. turn.record # << >>
        BY <3>1
      <4> QED
        BY <4>1, <1>7, HeadTailAppend
    <3>4. Tail(turn.record) = << >> /\ Append(<< >>, c) = <<c>>
      BY <3>1
    <3> QED
      BY <3>2, <3>3, <3>4
  <2> QED
    BY <2>1, <2>2, <1>3
<1>16. /\ ToSet(Unstored(turn)') = {c} /\ \A i, j \in DOMAIN Unstored(turn)' : i = j
       /\ c \notin users /\ c \notin ToSet(archive) /\ \A i \in DOMAIN jobs : c \notin jobs[i].of.usage
  <2>1. ToSet(Unstored(turn)') = {c} /\ \A i, j \in DOMAIN Unstored(turn)' : i = j
    BY <1>15 DEF ToSet
  <2>2. c \notin users /\ c \notin ToSet(archive)
    BY <1>4 DEF SafeInv, TypeInv
  <2>3. \A i \in DOMAIN jobs : jobs[i] \in Jobs(created)
    BY LenProperties DEF SafeInv, TypeInv
  <2>4. \A i \in DOMAIN jobs : jobs[i].of.usage \subseteq Made
    BY <2>3, <1>4, Fields DEF Jobs, Made
  <2> QED
    BY <2>1, <2>2, <2>4, <1>4
<1>17. Placed' /\ NoRecovery'
  BY <1>2, <1>3, <1>6 DEF SafeInv, Placed, NoRecovery, Persisting
<1>18. Batch'
  <2>1. turn.mode = "new" => turn'.record[1] \in ToSet(archive)
    <3> SUFFICES ASSUME turn.mode = "new" PROVE turn'.record[1] \in ToSet(archive)
      OBVIOUS
    <3>1. PICK u \in users : turn.record = <<u>> /\ u \in ToSet(archive)
      BY <1>3
    <3>2. turn'.record[1] = u
      BY <3>1, <1>6
    <3> QED
      BY <3>1, <3>2
  <2> QED
    BY <2>1, <1>2, <1>3, <1>4, <1>6, <1>7, <1>16 DEF Batch, Persisting
<1>19. DocsHold' /\ JobsHold'
  <2>1. \A i \in 2..Len(e.record) : e.record[i] \notin users
    <3> SUFFICES ASSUME NEW i \in 2..Len(e.record) PROVE e.record[i] = c
      BY <1>16
    <3>1. Len(turn.record) \in {0, 1}
      <4>1. turn.record = << >> \/ \E u \in users : turn.record = <<u>>
        BY <1>3
      <4>2. Len(<< >>) = 0 /\ \A u : Len(<<u>>) = 1
        OBVIOUS
      <4> QED
        BY <4>1, <4>2
    <3>2. Len(e.record) = Len(turn.record) + 1
      BY <1>7, <1>11
    <3>3. PICK k : k = Len(turn.record)
      OBVIOUS
    <3>4. i \in 2..k + 1 /\ k \in {0, 1}
      BY <3>1, <3>2, <3>3
    <3>5. i = k + 1
      <4>1. k = 0 => i \in 2..1
        BY <3>4
      <4>2. k = 1 => i = 2
        BY <3>4
      <4> QED
        BY <3>4, <4>1, <4>2
    <3> QED
      BY <3>3, <3>5, <1>7, <1>11
  <2>2. e.mode \in {"new", "recover"} /\ e.record # << >> /\ e.usage \subseteq ToSet(e.record)
    BY <1>3, <1>7, <1>11
  <2> QED
    BY <2>1, <2>2, <1>2, <1>13 DEF SafeInv, DocsHold, JobsHold
<1>20. UserOnce' /\ NeverTwice'
  <2>1. \A n : Once(n)' <=> Once(n)
    BY <1>2 DEF Once
  <2>2. Once(c)
    BY <1>16 DEF Once, ToSet
  <2>3. UserOnce'
    BY <1>2, <2>1 DEF SafeInv, UserOnce
  <2>4. NeverTwice'
    BY <1>2, <1>4, <2>1, <2>2 DEF SafeInv, NeverTwice, Made
  <2> QED
    BY <2>3, <2>4
<1>21. Whole'
  <2>1. Archiving = {} /\ Archiving' = {c} /\ Billing' = Billing \cup {c}
    BY <1>2, <1>6, <1>16 DEF Archiving, Billing, Persisting
  <2> QED
    BY <1>2, <1>4, <2>1 DEF SafeInv, Whole
<1>22. DocsLeft'
  <2>1. turn.doc # c
    BY <1>1, <1>2, <1>3, <1>4, Fields
  <2>2. CASE turn.mode = "new"
    BY <2>2, <1>2, <1>3, <1>6, <1>13 DEF SafeInv, DocsLeft, AtMostOne
  <2>3. CASE turn.mode = "recover"
    BY <2>1, <2>3, <1>2, <1>3, <1>6, <1>7, <1>11, <1>13 DEF SafeInv, DocsLeft, AtMostOne
  <2> QED
    BY <2>2, <2>3, <1>3
<1> QED
  BY <1>14, <1>17, <1>18, <1>19, <1>20, <1>21, <1>22 DEF SafeInv

\* A turn without an answer has nothing to archive or to bill.
LEMMA NoAnswerSafe ==
  ASSUME SafeInv, NoAnswer
  PROVE  SafeInv'
<1>1. /\ pc = "llm" /\ pc' = "hot"
      /\ UNCHANGED <<turn, archive, hot, summary, suspended, jobs, created, users, billed, unbilled, closed, settled,
                     turns, lost, missed, befalls>>
  BY DEF NoAnswer, stores, bills, authors, counts
<1>2. /\ turn.usage = {} /\ turn.mode \in {"new", "recover"}
      /\ turn.mode = "new" => \E u \in users : turn.record = <<u>> /\ u \in ToSet(archive)
      /\ turn.mode = "recover" => turn.record = << >>
  BY <1>1 DEF SafeInv, Placed
<1>3. Unstored(turn) = << >> /\ (turn.mode = "new" => turn.record # << >> /\ turn.record[1] \in ToSet(archive))
  <2>1. CASE turn.mode = "recover"
    BY <2>1, <1>2 DEF Unstored
  <2>2. CASE turn.mode = "new"
    <3>1. PICK u \in users : turn.record = <<u>> /\ u \in ToSet(archive)
      BY <2>2, <1>2
    <3> QED
      BY <2>2, <3>1 DEF Unstored
  <2> QED
    BY <2>1, <2>2, <1>2
<1>4. ToSet(Unstored(turn)) = {} /\ DOMAIN Unstored(turn) = {}
  BY <1>3 DEF ToSet
<1>5. TypeInv' /\ Placed' /\ NoRecovery'
  BY <1>1, <1>2 DEF SafeInv, TypeInv, Made, Placed, NoRecovery, Persisting, TurnPhases
<1>6. Batch'
  <2>1. Unstored(turn)' = Unstored(turn)
    BY <1>1 DEF Unstored
  <2> QED
    BY <1>1, <1>2, <1>3, <1>4, <2>1 DEF Batch, Persisting
<1>7. DocsHold' /\ JobsHold' /\ UserOnce' /\ NeverTwice'
  BY <1>1 DEF SafeInv, DocsHold, JobsHold, UserOnce, NeverTwice, Once
<1>8. Whole'
  <2>1. Archiving = {} /\ Billing \subseteq Billing'
    BY <1>1 DEF Archiving, Billing, Persisting
  <2> QED
    BY <1>1, <2>1 DEF SafeInv, Whole, Made
<1>9. DocsLeft'
  BY <1>1, <1>2 DEF SafeInv, DocsLeft, AtMostOne
<1> QED
  BY <1>5, <1>6, <1>7, <1>8, <1>9 DEF SafeInv

\* The hot context is written next.
LEMMA AppendHotSafe ==
  ASSUME Parameters, SafeInv, AppendHot
  PROVE  SafeInv'
<1>1. /\ pc = "hot" /\ pc' = "archive"
      /\ hot' = hot \o turn.record \/ hot' = hot
      /\ UNCHANGED <<turn, archive, summary, suspended, jobs, created, users, billed, unbilled, closed, settled,
                     turns, lost, missed, befalls>>
  BY DEF AppendHot, authors, bills, counts
<1>2. turn.record \in Seq(Made)
  <2>1. TypeInv
    BY DEF SafeInv
  <2> QED
    BY <2>1, TurnTyped
<1>3. hot' \in Seq(Made)
  <2>1. hot \in Seq(Made)
    BY DEF SafeInv, TypeInv
  <2>2. hot \o turn.record \in Seq(Made)
    BY <1>2, <2>1, ConcatProperties
  <2> QED
    BY <1>1, <2>1, <2>2
<1>4. TypeInv'
  BY <1>1, <1>3 DEF SafeInv, TypeInv, Made, TurnPhases
<1>5. Unstored(turn)' = Unstored(turn)
  BY <1>1 DEF Unstored
<1>6. Placed' /\ NoRecovery' /\ Batch'
  BY <1>1, <1>5 DEF SafeInv, Placed, NoRecovery, Batch, Persisting
<1>7. DocsHold' /\ JobsHold' /\ UserOnce' /\ NeverTwice'
  BY <1>1 DEF SafeInv, DocsHold, JobsHold, UserOnce, NeverTwice, Once
<1>8. Whole'
  <2>1. Archiving' = Archiving /\ Billing' = Billing
    BY <1>1, <1>5 DEF Archiving, Billing, Persisting
  <2> QED
    BY <1>1, <2>1 DEF SafeInv, Whole, Made
<1>9. DocsLeft'
  BY <1>1 DEF SafeInv, DocsLeft, AtMostOne
<1> QED
  BY <1>4, <1>6, <1>7, <1>8, <1>9 DEF SafeInv

\* What occurs once in a sequence still does when it is put before or after others.
LEMMA ConcatOnce ==
  ASSUME NEW S, NEW s \in Seq(S), NEW t \in Seq(S), NEW x,
         \/ x \notin ToSet(t) /\ \A i, j \in DOMAIN s : s[i] = x /\ s[j] = x => i = j
         \/ x \notin ToSet(s) /\ \A i, j \in DOMAIN t : i = j
  PROVE  \A i, j \in DOMAIN (s \o t) : (s \o t)[i] = x /\ (s \o t)[j] = x => i = j
<1> DEFINE u == s \o t
<1>1. /\ u \in Seq(S) /\ Len(u) = Len(s) + Len(t)
      /\ \A i \in 1..Len(s) + Len(t) : u[i] = IF i <= Len(s) THEN s[i] ELSE t[i - Len(s)]
  BY ConcatProperties
<1>2. /\ DOMAIN s = 1..Len(s) /\ DOMAIN t = 1..Len(t) /\ DOMAIN u = 1..Len(u)
      /\ Len(s) \in Nat /\ Len(t) \in Nat
  BY <1>1, LenProperties
<1> HIDE DEF u
<1>3. ASSUME NEW i \in DOMAIN u, u[i] = x
      PROVE  \/ i \in DOMAIN s /\ s[i] = x /\ x \in ToSet(s)
             \/ ~(i <= Len(s)) /\ i \in Nat /\ i - Len(s) \in DOMAIN t /\ x \in ToSet(t)
  <2>1. CASE i <= Len(s)
    <3>1. i \in DOMAIN s /\ u[i] = s[i]
      BY <2>1, <1>1, <1>2
    <3> QED
      BY <3>1, <1>3 DEF ToSet
  <2>2. CASE ~(i <= Len(s))
    <3>1. i - Len(s) \in DOMAIN t /\ u[i] = t[i - Len(s)] /\ i \in Nat
      BY <2>2, <1>1, <1>2
    <3> QED
      BY <2>2, <3>1, <1>3 DEF ToSet
  <2> QED
    BY <2>1, <2>2
<1>4. ASSUME NEW i \in DOMAIN u, NEW j \in DOMAIN u, u[i] = x, u[j] = x PROVE i = j
  <2>1. CASE x \notin ToSet(t)
    BY <2>1, <1>3, <1>4
  <2>2. CASE x \in ToSet(t)
    <3>1. x \notin ToSet(s) /\ \A k, m \in DOMAIN t : k = m
      BY <2>2
    <3>2. i - Len(s) \in DOMAIN t /\ j - Len(s) \in DOMAIN t /\ i \in Nat /\ j \in Nat
      BY <3>1, <1>3, <1>4
    <3>3. i - Len(s) = j - Len(s)
      BY <3>1, <3>2
    <3> QED
      BY <3>2, <3>3, <1>2
  <2> QED
    BY <2>1, <2>2
<1> QED
  BY <1>4 DEF u

\* A turn archives what it has not stored yet: new messages, or those of a closed chat.
LEMMA ArchiveSafe ==
  ASSUME Parameters, SafeInv, Archive
  PROVE  SafeInv'
<1>1. /\ pc = "archive" /\ archive' = archive \o Unstored(turn)
      /\ IF turn.mode = "close" THEN pc' = "bill" /\ settled' = settled
                                ELSE pc' = "finish" /\ settled' = settled \cup ToSet(turn.record)
      /\ UNCHANGED <<turn, hot, summary, billed, unbilled, suspended, jobs, created, users, closed, turns, lost, missed, befalls>>
  BY DEF Archive, authors, bills, counts
<1>2. /\ TypeInv /\ turn.mode \in {"new", "recover", "close"} /\ archive \in Seq(Made)
      /\ turn.record \in Seq(Made) /\ turn.usage \subseteq Made
      /\ turn.record # << >> => /\ Tail(turn.record) \in Seq(Made)
                               /\ ToSet(Tail(turn.record)) \subseteq ToSet(turn.record)
  <2>1. /\ turn.record \in Seq(Made) /\ turn.usage \subseteq Made /\ turn \in Contexts(created) /\ created \in Nat
        /\ turn.record # << >> => /\ Tail(turn.record) \in Seq(Made)
                                 /\ ToSet(Tail(turn.record)) \subseteq ToSet(turn.record)
    BY TurnTyped DEF SafeInv
  <2>2. turn.mode \in {"none", "new", "recover", "close"} /\ turn.mode # "none"
    BY <1>1, <2>1, Fields DEF SafeInv, Placed, Persisting
  <2> QED
    BY <2>1, <2>2 DEF SafeInv, TypeInv
<1>3. PICK u : u = Unstored(turn)
  OBVIOUS
<1>4. turn.mode # "recover" => turn.record # << >> /\ u = Tail(turn.record)
  <2>1. turn.mode = "new" => turn.record # << >>
    BY <1>1 DEF SafeInv, Batch, Persisting
  <2>2. turn.mode = "close" => Len(turn.record) >= 2
    BY DEF SafeInv, Batch
  <2>3. Len(turn.record) >= 2 => turn.record # << >>
    BY EmptySeq
  <2> QED
    BY <2>1, <2>2, <2>3, <1>2, <1>3 DEF Unstored
<1>5. u \in Seq(Made) /\ ToSet(u) \subseteq ToSet(turn.record)
  BY <1>2, <1>3, <1>4 DEF Unstored
<1>6. /\ archive' \in Seq(Made) /\ ToSet(archive') = ToSet(archive) \cup ToSet(u)
      /\ ToSet(turn.record) \subseteq Made
  BY <1>1, <1>2, <1>3, <1>5, ConcatElements, ConcatProperties, Elements
<1>7. /\ ToSet(u) \cap users = {}
      /\ turn.mode = "close" => ToSet(u) \subseteq closed /\ turn.usage \subseteq closed
      /\ turn.mode # "close" => /\ ToSet(u) = turn.usage /\ turn.usage \cap ToSet(archive) = {}
                                /\ \A i, j \in DOMAIN u : i = j
  BY <1>1, <1>3, <1>5 DEF SafeInv, Batch, Persisting
<1>8. TypeInv'
  BY <1>1, <1>2, <1>6 DEF TypeInv, Made, TurnPhases
<1>9. Placed' /\ NoRecovery' /\ Batch'
  BY <1>1, <1>2 DEF SafeInv, Placed, NoRecovery, Batch, Persisting
<1>10. DocsHold' /\ JobsHold'
  BY <1>1 DEF SafeInv, DocsHold, JobsHold
<1>11. ASSUME NEW n, Once(n), n \in Made, n \notin closed \/ n \in users PROVE Once(n)'
  <2>1. \/ n \notin ToSet(u) /\ \A i, j \in DOMAIN archive : archive[i] = n /\ archive[j] = n => i = j
        \/ n \notin ToSet(archive) /\ \A i, j \in DOMAIN u : i = j
    BY <1>7, <1>11 DEF Once
  <2>2. archive' = archive \o u
    BY <1>1, <1>3
  <2>3. \A i, j \in DOMAIN (archive \o u) : (archive \o u)[i] = n /\ (archive \o u)[j] = n => i = j
    BY <2>1, <1>2, <1>5, ConcatOnce
  <2> QED
    BY <2>2, <2>3 DEF Once
<1>12. UserOnce' /\ NeverTwice'
  BY <1>1, <1>2, <1>11 DEF SafeInv, TypeInv, UserOnce, NeverTwice, Made
<1>13. Whole'
  <2>1. Archiving = ToSet(u) /\ Archiving' = {}
    BY <1>1, <1>3 DEF Archiving, Persisting
  <2>2. Billing \subseteq Billing' \cup closed
    BY <1>1, <1>7 DEF Billing, Persisting
  <2> QED
    BY <1>1, <1>6, <2>1, <2>2 DEF SafeInv, Whole, Made
<1>14. DocsLeft'
  BY <1>1 DEF SafeInv, DocsLeft, AtMostOne
<1> QED
  BY <1>8, <1>9, <1>10, <1>12, <1>13, <1>14 DEF SafeInv


\* The turn ends with a background task that will bill it.
LEMMA FinishSafe ==
  ASSUME Parameters, SafeInv, Finish
  PROVE  SafeInv'
<1>1. PICK job : job = [stage |-> "bill", of |-> turn]
  OBVIOUS
<1>2. /\ pc = "finish" /\ jobs' = Append(jobs, job)
      /\ \/ turn.mode = "recover" /\ pc' = "delete" /\ turn' = turn
         \/ (turn.mode # "recover" \/ turn.record = << >>) /\ pc' = "idle" /\ turn' = NoTurn
      /\ UNCHANGED <<archive, hot, summary, billed, unbilled, settled, suspended, created, users, closed, turns, lost, missed, befalls>>
  BY <1>1 DEF Finish, stores, bills, authors, counts
<1>3. /\ TypeInv /\ turn.mode \in {"new", "recover"} /\ created \in Nat /\ turn \in Contexts(created)
      /\ \A n \in turn.usage : billed[n] = 0 /\ \A i \in DOMAIN jobs : n \notin jobs[i].of.usage
  <2>1. TypeInv /\ turn.mode \in {"new", "recover"}
    BY <1>2 DEF SafeInv, Placed
  <2> QED
    BY <2>1, <1>2, TurnTyped DEF SafeInv, Batch, Persisting
<1>4. job.stage = "bill" /\ job.of = turn /\ job \in Jobs(created)
  BY <1>1, <1>3 DEF Jobs
<1>5. jobs \in Seq(Jobs(created)) /\ jobs' \in Seq(Jobs(created))
  BY <1>2, <1>3, <1>4, AppendProperties DEF TypeInv
<1>6. PICK last : last = Len(jobs) + 1
  OBVIOUS
<1>7. /\ DOMAIN jobs' = DOMAIN jobs \cup {last} /\ last \notin DOMAIN jobs
      /\ jobs'[last] = job /\ \A i \in DOMAIN jobs : jobs'[i] = jobs[i]
  <2>1. /\ Len(jobs') = Len(jobs) + 1 /\ jobs'[Len(jobs) + 1] = job
        /\ \A i \in 1..Len(jobs) : jobs'[i] = jobs[i]
    BY <1>2, <1>4, <1>5, AppendProperties
  <2>2. DOMAIN jobs = 1..Len(jobs) /\ DOMAIN jobs' = 1..Len(jobs') /\ Len(jobs) \in Nat
    BY <1>5, LenProperties
  <2> QED
    BY <2>1, <2>2, <1>6
<1>8. turn' \in Contexts(created) /\ turn'.mode \in {"none", "recover"}
      /\ (turn.mode = "new" => turn'.mode = "none") /\ (pc' = "delete" => turn'.mode = "recover")
  <2>1. NoTurn \in Contexts(created) /\ NoTurn.mode = "none"
    BY <1>3, Fresh DEF NoTurn
  <2> QED
    BY <2>1, <1>2, <1>3
<1>9. TypeInv'
  BY <1>2, <1>3, <1>5, <1>8 DEF TypeInv, Made, TurnPhases
<1>10. Placed' /\ NoRecovery' /\ Batch'
  BY <1>2, <1>3, <1>8 DEF SafeInv, Placed, NoRecovery, Batch, Persisting
<1>11. DocsHold' /\ UserOnce' /\ NeverTwice'
  BY <1>2 DEF SafeInv, DocsHold, UserOnce, NeverTwice, Once
<1>12. JobsHold'
  <2> SUFFICES ASSUME NEW i \in DOMAIN jobs'
               PROVE  /\ jobs'[i].stage = "bill" => \A n \in jobs'[i].of.usage \ closed : billed[n] = 0
                      /\ \A j \in DOMAIN jobs' : i # j => jobs'[i].of.usage \cap jobs'[j].of.usage = {}
    BY <1>2 DEF JobsHold
  <2>1. CASE i = last
    BY <2>1, <1>3, <1>4, <1>7
  <2>2. CASE i \in DOMAIN jobs
    <3>1. ASSUME NEW j \in DOMAIN jobs', i # j PROVE jobs'[i].of.usage \cap jobs'[j].of.usage = {}
      <4>1. CASE j = last
        BY <2>2, <4>1, <1>3, <1>4, <1>7
      <4>2. CASE j \in DOMAIN jobs
        BY <2>2, <3>1, <4>2, <1>7 DEF SafeInv, JobsHold
      <4> QED
        BY <4>1, <4>2, <1>7
    <3> QED
      BY <2>2, <3>1, <1>7 DEF SafeInv, JobsHold
  <2> QED
    BY <2>1, <2>2, <1>7
<1>13. Whole'
  <2>1. Archiving = {}
    BY <1>2 DEF Archiving, Persisting
  <2>2. Billing \subseteq Billing'
    <3> SUFFICES ASSUME NEW n \in Billing
                 PROVE  \E i \in DOMAIN jobs' : jobs'[i].stage = "bill" /\ n \in jobs'[i].of.usage
      BY DEF Billing
    <3>1. CASE n \in turn.usage
      BY <3>1, <1>4, <1>7
    <3>2. CASE n \notin turn.usage
      <4>1. PICK i \in DOMAIN jobs : jobs[i].stage = "bill" /\ n \in jobs[i].of.usage
        BY <3>2 DEF Billing
      <4> QED
        BY <4>1, <1>7
    <3> QED
      BY <3>1, <3>2
  <2> QED
    BY <1>2, <2>1, <2>2 DEF SafeInv, Whole, Made
<1>14. DocsLeft'
  <2>1. CASE turn'.mode = "none"
    BY <2>1, <1>2, <1>3 DEF SafeInv, DocsLeft, AtMostOne
  <2>2. CASE turn'.mode = "recover"
    <3>1. turn' = turn
      BY <2>2, <1>2 DEF NoTurn
    <3> QED
      BY <2>2, <3>1, <1>2 DEF SafeInv, DocsLeft, AtMostOne
  <2> QED
    BY <2>1, <2>2, <1>8
<1> QED
  BY <1>9, <1>10, <1>11, <1>12, <1>13, <1>14 DEF SafeInv

\* The suspended chat that was recovered or closed is deleted.
LEMMA DeleteSafe ==
  ASSUME Parameters, SafeInv, Delete
  PROVE  SafeInv'
<1>1. /\ pc = "delete" /\ suspended' = {d \in suspended : d.doc # turn.doc}
      /\ IF turn.mode = "close"
           THEN pc' = "load" /\ turn' = [NoTurn EXCEPT !.mode = "new"]
                /\ settled' = settled \cup ToSet(turn.record)
           ELSE pc' = "idle" /\ turn' = NoTurn /\ settled' = settled
      /\ UNCHANGED <<archive, hot, summary, billed, unbilled, jobs, created, users, closed, turns, lost, missed, befalls>>
  BY DEF Delete, authors, bills, counts
<1>2. /\ TypeInv /\ turn.mode \in {"recover", "close"} /\ created \in Nat /\ turn.record \in Seq(Made)
      /\ ToSet(turn.record) \subseteq Made
  <2>1. TypeInv /\ turn.mode \in {"recover", "close"}
    BY <1>1 DEF SafeInv, Placed
  <2>2. turn.record \in Seq(Made) /\ created \in Nat
    BY <2>1, TurnTyped
  <2> QED
    BY <2>1, <2>2, Elements
<1>3. /\ turn' \in Contexts(created) /\ turn'.record = << >> /\ turn'.usage = {}
      /\ turn'.mode = IF turn.mode = "close" THEN "new" ELSE "none"
  <2>1. /\ NoTurn = Context("none", 0, << >>, {}, {}, << >>, {}, FALSE)
        /\ [NoTurn EXCEPT !.mode = "new"] = Context("new", 0, << >>, {}, {}, << >>, {}, FALSE)
        /\ NoTurn \in Contexts(created) /\ [NoTurn EXCEPT !.mode = "new"] \in Contexts(created)
    BY <1>2, Fresh
  <2>2. PICK mode : mode = IF turn.mode = "close" THEN "new" ELSE "none"
    OBVIOUS
  <2>3. turn' = Context(mode, 0, << >>, {}, {}, << >>, {}, FALSE) /\ turn' \in Contexts(created)
    BY <2>1, <2>2, <1>1
  <2>4. turn'.mode = mode /\ turn'.record = << >> /\ turn'.usage = {}
    BY <2>3 DEF Context
  <2> QED
    BY <2>2, <2>3, <2>4
<1>4. TypeInv'
  BY <1>1, <1>2, <1>3 DEF TypeInv, Made, TurnPhases
<1>5. Placed' /\ NoRecovery' /\ Batch'
  BY <1>1, <1>2, <1>3 DEF Placed, NoRecovery, Batch, Persisting
<1>6. DocsHold' /\ JobsHold' /\ UserOnce' /\ NeverTwice'
  BY <1>1 DEF SafeInv, DocsHold, JobsHold, UserOnce, NeverTwice, Once
<1>7. Whole'
  <2>1. Archiving = {} /\ Billing' = Billing
    BY <1>1 DEF Archiving, Billing, Persisting
  <2> QED
    BY <1>1, <2>1 DEF SafeInv, Whole, Made
<1>8. DocsLeft'
  BY <1>1, <1>2, <1>3 DEF SafeInv, DocsLeft, AtMostOne
<1> QED
  BY <1>4, <1>5, <1>6, <1>7, <1>8 DEF SafeInv


-----------------------------------------------------------------------------
(* Safety: billing and compression, and what befalls the session            *)

\* What the completion of a turn t at stage s writes.
LEMMA CompleteTyped ==
  ASSUME Parameters, TypeInv, NEW t \in Contexts(created), NEW s, NEW next, Complete(t, s, next)
  PROVE  /\ s \in {"bill", "summary", "reload"} /\ next \in {"summary", "reload", "delete"}
         /\ s = "bill" => next # "reload"
         /\ hot' \in Seq(Made) /\ summary' \in [covers : SUBSET Made, at : 0..created]
         /\ billed' \in [Messages -> Nat] /\ unbilled \subseteq unbilled' /\ unbilled' \subseteq Made
         /\ \A n \in Messages :
              \/ billed'[n] = billed[n] /\ (s = "bill" /\ n \in t.usage => n \in unbilled')
              \/ s = "bill" /\ n \in t.usage /\ billed'[n] = billed[n] + 1
<1>1. /\ created \in Nat /\ t.record \in Seq(Made) /\ t.keep \in Seq(Made)
      /\ t.existing \subseteq Made /\ t.cands \subseteq Made /\ t.usage \subseteq Made
  BY Fields, TurnTyped DEF Made
<1>2. /\ hot \in Seq(Made) /\ summary \in [covers : SUBSET Made, at : 0..created]
      /\ billed \in [Messages -> Nat] /\ unbilled \subseteq Made
  BY DEF TypeInv
<1>3. CASE Bill(t, s, next)
  <2>1. s = "bill" /\ next \in {"summary", "delete"} /\ hot' = hot /\ summary' = summary
    BY <1>3 DEF Bill
  <2>2. CASE billed' = Billed(t) /\ unbilled' = unbilled
    <3>1. billed' = [n \in Messages |-> IF n \in t.usage THEN billed[n] + 1 ELSE billed[n]]
      BY <2>2 DEF Billed
    <3> QED
      BY <3>1, <2>1, <2>2, <1>2
  <2>3. CASE unbilled' = unbilled \cup t.usage /\ billed' = billed
    BY <2>1, <2>3, <1>1, <1>2
  <2> QED
    BY <2>2, <2>3, <1>3 DEF Bill
<1>4. CASE Summarise(t, s, next)
  <2>1. Merged(t) \in [covers : SUBSET Made, at : 0..created]
    BY <1>1 DEF Merged
  <2> QED
    BY <2>1, <1>2, <1>4 DEF Summarise, bills
<1>5. CASE Reload(t, s, next)
  <2>1. t.keep \o t.record \in Seq(Made)
    BY <1>1, ConcatProperties
  <2>2. Reloaded(t) \in Seq(Made)
    BY <2>1, <1>2 DEF Reloaded
  <2> QED
    BY <2>2, <1>2, <1>5 DEF Reload, bills
<1> QED
  BY <1>3, <1>4, <1>5 DEF Complete

\* A closed chat is billed and compressed before the new turn goes on.
LEMMA CloseUnfinishedSafe ==
  ASSUME Parameters, SafeInv, CloseUnfinished
  PROVE  SafeInv'
<1>1. /\ Complete(turn, pc, pc')
      /\ UNCHANGED <<turn, archive, settled, suspended, jobs, created, users, closed, turns, lost, missed, befalls>>
  BY DEF CloseUnfinished, authors, bills, counts
<1>2. TypeInv /\ turn \in Contexts(created) /\ created \in Nat /\ turn.usage \subseteq Made
  <2>1. TypeInv
    BY DEF SafeInv
  <2> QED
    BY <2>1, TurnTyped
<1>3. /\ pc \in {"bill", "summary", "reload"} /\ pc' \in {"summary", "reload", "delete"}
      /\ hot' \in Seq(Made) /\ summary' \in [covers : SUBSET Made, at : 0..created]
      /\ billed' \in [Messages -> Nat] /\ unbilled \subseteq unbilled' /\ unbilled' \subseteq Made
      /\ \A n \in Messages : billed'[n] = billed[n] \/ (n \in turn.usage /\ billed'[n] = billed[n] + 1)
  <2>1. /\ pc \in {"bill", "summary", "reload"} /\ pc' \in {"summary", "reload", "delete"}
        /\ hot' \in Seq(Made) /\ summary' \in [covers : SUBSET Made, at : 0..created]
        /\ billed' \in [Messages -> Nat] /\ unbilled \subseteq unbilled' /\ unbilled' \subseteq Made
        /\ \A n \in Messages :
             \/ billed'[n] = billed[n] /\ (pc = "bill" /\ n \in turn.usage => n \in unbilled')
             \/ pc = "bill" /\ n \in turn.usage /\ billed'[n] = billed[n] + 1
    BY <1>1, <1>2, CompleteTyped
  <2>2. ASSUME NEW n \in Messages
        PROVE  billed'[n] = billed[n] \/ (n \in turn.usage /\ billed'[n] = billed[n] + 1)
    BY <2>1, <2>2
  <2> QED
    BY <2>1, <2>2, Zenon
<1>4. turn.mode = "close" /\ turn.usage \subseteq closed
  BY <1>3 DEF SafeInv, Placed, Batch
<1>5. Made \subseteq Messages /\ billed \in [Messages -> Nat]
  BY <1>2 DEF TypeInv, Made, Messages, Parameters
<1>6. (\A n \in Messages \ closed : billed'[n] = billed[n]) /\ \A n \in Messages : billed'[n] >= billed[n]
  <2>1. ASSUME NEW n \in Messages PROVE billed'[n] >= billed[n] /\ (n \notin closed => billed'[n] = billed[n])
    <3>1. billed[n] \in Nat /\ (billed'[n] = billed[n] \/ (n \in turn.usage /\ billed'[n] = billed[n] + 1))
      BY <1>3, <1>5
    <3> QED
      BY <3>1, <1>4
  <2> QED
    BY <2>1
<1>7. TypeInv'
  <2>1. \A n \in Messages \ Made : billed'[n] = 0
    BY <1>2, <1>3 DEF TypeInv
  <2> QED
    BY <2>1, <1>1, <1>2, <1>3 DEF TypeInv, Made, TurnPhases
<1>8. Placed' /\ NoRecovery' /\ Batch'
  BY <1>1, <1>3, <1>4 DEF SafeInv, Placed, NoRecovery, Batch, Persisting
<1>9. DocsHold' /\ UserOnce'
  BY <1>1 DEF SafeInv, DocsHold, UserOnce, Once
<1>10. JobsHold'
  <2>1. \A i \in DOMAIN jobs : jobs[i].of.usage \subseteq Messages
    <3>1. \A i \in DOMAIN jobs : jobs[i] \in Jobs(created)
      BY <1>2, LenProperties DEF TypeInv
    <3>2. \A i \in DOMAIN jobs : jobs[i].of.usage \subseteq Made
      BY <3>1, <1>2, Fields DEF Jobs, Made
    <3> QED
      BY <3>2, <1>5
  <2> QED
    BY <2>1, <1>1, <1>6 DEF SafeInv, JobsHold
<1>11. NeverTwice'
  BY <1>1, <1>5, <1>6 DEF SafeInv, NeverTwice, Once, Made
<1>12. Whole'
  <2>1. Archiving = {} /\ Billing' = Billing
    BY <1>1, <1>3 DEF Archiving, Billing, Persisting
  <2>2. \A n \in Made : billed[n] >= 1 => billed'[n] >= 1
    BY <1>3, <1>5, <1>6
  <2> QED
    BY <1>1, <1>3, <2>1, <2>2 DEF SafeInv, Whole, Made
<1>13. DocsLeft'
  BY <1>1, <1>3, <1>4 DEF SafeInv, DocsLeft, AtMostOne
<1> QED
  BY <1>7, <1>8, <1>9, <1>10, <1>11, <1>12, <1>13 DEF SafeInv


\* The background tasks when the i-th has gone on to a stage, or is gone.
After(i, next) == IF next = "delete" THEN RemoveAt(jobs, i) ELSE [jobs EXCEPT ![i].stage = next]

\* Each of them was one of the tasks before, and none but the i-th has changed.
LEMMA TasksAfter ==
  ASSUME NEW c, jobs \in Seq(Jobs(c)), NEW i \in DOMAIN jobs, NEW next,
         jobs' = After(i, next)
  PROVE  \E was \in [DOMAIN jobs' -> DOMAIN jobs] :
           /\ \A k \in DOMAIN jobs' :
                /\ jobs'[k].of = jobs[was[k]].of
                /\ was[k] # i => jobs'[k] = jobs[was[k]]
                /\ was[k] = i => next # "delete" /\ jobs'[k] = [jobs[i] EXCEPT !.stage = next]
           /\ \A k, m \in DOMAIN jobs' : was[k] = was[m] => k = m
           /\ \A m \in DOMAIN jobs : m # i => \E k \in DOMAIN jobs' : jobs'[k] = jobs[m]
<1>1. DOMAIN jobs = 1..Len(jobs) /\ Len(jobs) \in Nat
  BY LenProperties
<1>2. CASE next = "delete"
  <2> DEFINE was == [k \in DOMAIN jobs' |-> IF k < i THEN k ELSE k + 1]
  <2>1. jobs' = RemoveAt(jobs, i)
    BY <1>2 DEF After
  <2>2. /\ DOMAIN jobs' = 1..Len(jobs) - 1
        /\ \A k \in DOMAIN jobs' : /\ (IF k < i THEN k ELSE k + 1) \in DOMAIN jobs \ {i}
                                   /\ jobs'[k] = jobs[IF k < i THEN k ELSE k + 1]
        /\ \A m \in DOMAIN jobs \ {i} : \E k \in DOMAIN jobs' : jobs'[k] = jobs[m]
    BY <2>1, Removed
  <2>3. was \in [DOMAIN jobs' -> DOMAIN jobs]
    BY <2>2
  <2>4. ASSUME NEW k \in DOMAIN jobs' PROVE was[k] # i /\ jobs'[k] = jobs[was[k]]
    BY <2>2
  <2>5. ASSUME NEW k \in DOMAIN jobs', NEW m \in DOMAIN jobs', was[k] = was[m] PROVE k = m
    <3>1. k \in Nat /\ m \in Nat /\ i \in Nat
      BY <2>2, <1>1
    <3> QED
      BY <2>5, <3>1
  <2> HIDE DEF was
  <2>6. \A m \in DOMAIN jobs : m # i => \E k \in DOMAIN jobs' : jobs'[k] = jobs[m]
    BY <2>2
  <2>7. \A k \in DOMAIN jobs' :
          /\ jobs'[k].of = jobs[was[k]].of
          /\ was[k] # i => jobs'[k] = jobs[was[k]]
          /\ was[k] = i => next # "delete" /\ jobs'[k] = [jobs[i] EXCEPT !.stage = next]
    BY <2>4
  <2> QED
    BY <2>3, <2>5, <2>6, <2>7
<1>3. CASE next # "delete"
  <2> DEFINE was == [k \in DOMAIN jobs |-> k]
  <2>1. jobs' = [jobs EXCEPT ![i].stage = next] /\ DOMAIN jobs' = DOMAIN jobs
    BY <1>3 DEF After
  <2>2. was \in [DOMAIN jobs' -> DOMAIN jobs] /\ \A k \in DOMAIN jobs' : was[k] = k
    BY <2>1
  <2>3. ASSUME NEW k \in DOMAIN jobs'
        PROVE  jobs'[k] = IF k = i THEN [jobs[i] EXCEPT !.stage = next] ELSE jobs[k]
    BY <2>1
  <2>4. [jobs[i] EXCEPT !.stage = next].of = jobs[i].of
    <3>1. jobs[i] \in Jobs(c)
      BY <1>1, ElementOfSeq
    <3> QED
      BY <3>1 DEF Jobs
  <2> HIDE DEF was
  <2> QED
    BY <1>3, <2>1, <2>2, <2>3, <2>4
<1> QED
  BY <1>2, <1>3


\* A background task bills a turn once, or compresses, and touches nothing else.
LEMMA BackgroundSafe ==
  ASSUME Parameters, SafeInv, Background
  PROVE  SafeInv'
<1>1. PICK i \in DOMAIN jobs, next \in {"summary", "reload", "delete"} :
        /\ Complete(jobs[i].of, jobs[i].stage, next)
        /\ jobs' = IF next = "delete" THEN RemoveAt(jobs, i) ELSE [jobs EXCEPT ![i].stage = next]
  BY DEF Background
<1>2. UNCHANGED <<pc, turn, archive, settled, suspended, created, users, closed, turns, lost, missed, befalls>>
  BY DEF Background, authors, bills, counts
<1>3. PICK t, s : t = jobs[i].of /\ s = jobs[i].stage
  OBVIOUS
<1>4. /\ TypeInv /\ created \in Nat /\ turn \in Contexts(created) /\ turn.usage \subseteq Made
      /\ jobs \in Seq(Jobs(created)) /\ \A k \in DOMAIN jobs : jobs[k] \in Jobs(created)
  <2>1. TypeInv /\ jobs \in Seq(Jobs(created))
    BY DEF SafeInv, TypeInv
  <2> QED
    BY <2>1, TurnTyped, LenProperties
<1>5. \A k \in DOMAIN jobs : jobs[k].of \in Contexts(created) /\ jobs[k].of.usage \subseteq Made
  <2>1. \A k \in DOMAIN jobs : jobs[k].of \in Contexts(created)
    BY <1>4 DEF Jobs
  <2> QED
    BY <2>1, <1>4, Fields DEF Made
<1>6. /\ t \in Contexts(created) /\ Complete(t, s, next)
  BY <1>1, <1>3, <1>5
<1>7. /\ s = "bill" => next # "reload"
      /\ hot' \in Seq(Made) /\ summary' \in [covers : SUBSET Made, at : 0..created]
      /\ billed' \in [Messages -> Nat] /\ unbilled \subseteq unbilled' /\ unbilled' \subseteq Made
      /\ \A n \in Messages :
           \/ billed'[n] = billed[n] /\ (s = "bill" /\ n \in t.usage => n \in unbilled')
           \/ s = "bill" /\ n \in t.usage /\ billed'[n] = billed[n] + 1
  BY <1>4, <1>6, CompleteTyped
<1>8. Made \subseteq Messages /\ billed \in [Messages -> Nat] /\ t.usage \subseteq Made
  BY <1>3, <1>4, <1>5 DEF TypeInv, Made, Messages, Parameters
<1>9. PICK was \in [DOMAIN jobs' -> DOMAIN jobs] :
        /\ \A k \in DOMAIN jobs' :
             /\ jobs'[k].of = jobs[was[k]].of
             /\ was[k] # i => jobs'[k] = jobs[was[k]]
             /\ was[k] = i => next # "delete" /\ jobs'[k] = [jobs[i] EXCEPT !.stage = next]
        /\ \A k, m \in DOMAIN jobs' : was[k] = was[m] => k = m
        /\ \A m \in DOMAIN jobs : m # i => \E k \in DOMAIN jobs' : jobs'[k] = jobs[m]
  <2>1. jobs' = After(i, next) /\ jobs \in Seq(Jobs(created))
    BY <1>1, <1>4 DEF After
  <2> QED
    BY <2>1, TasksAfter, Zenon
<1>10. ASSUME NEW k \in DOMAIN jobs', was[k] = i
       PROVE  /\ jobs'[k] = [stage |-> next, of |-> t]
              /\ next \in {"summary", "reload"}
  <2>1. jobs[i] = [stage |-> s, of |-> t]
    BY <1>3, <1>4 DEF Jobs
  <2>2. jobs'[k] = [jobs[i] EXCEPT !.stage = next] /\ next # "delete"
    BY <1>9, <1>10
  <2> QED
    BY <2>1, <2>2, <1>1
<1>11. TypeInv'
  <2>1. jobs' \in Seq(Jobs(created))
    <3>1. CASE next = "delete"
      BY <3>1, <1>1, <1>4, Removed
    <3>2. CASE next # "delete"
      <4>1. jobs' = [jobs EXCEPT ![i].stage = next] /\ DOMAIN jobs = 1..Len(jobs) /\ Len(jobs) \in Nat
        BY <3>2, <1>1, <1>4, LenProperties
      <4>2. PICK job : job = [jobs[i] EXCEPT !.stage = next]
        OBVIOUS
      <4>3. job = [stage |-> next, of |-> t] /\ jobs[i] = [stage |-> s, of |-> t]
        BY <4>2, <1>3, <1>4 DEF Jobs
      <4>4. job \in Jobs(created)
        BY <3>2, <4>3, <1>6 DEF Jobs
      <4>5. jobs' = [jobs EXCEPT ![i] = job]
        BY <4>1, <4>2
      <4> QED
        BY <4>1, <4>4, <4>5, <1>4, ExceptSeq
    <3> QED
      BY <3>1, <3>2
  <2>2. \A n \in Messages \ Made : billed'[n] = 0
    BY <1>4, <1>7, <1>8 DEF TypeInv
  <2> QED
    BY <2>1, <2>2, <1>2, <1>4, <1>7 DEF TypeInv, Made
<1>12. Placed' /\ NoRecovery'
  BY <1>2 DEF SafeInv, Placed, NoRecovery
<1>13. Batch'
  <2>1. Unstored(turn)' = Unstored(turn)
    BY <1>2 DEF Unstored
  <2>2. ASSUME pc \in Persisting \cup {"finish"}, turn.mode # "close", NEW n \in turn.usage
        PROVE  billed'[n] = 0 /\ \A k \in DOMAIN jobs' : n \notin jobs'[k].of.usage
    <3>1. billed[n] = 0 /\ \A k \in DOMAIN jobs : n \notin jobs[k].of.usage
      BY <2>2 DEF SafeInv, Batch
    <3>2. n \in Messages /\ n \notin t.usage
      BY <3>1, <1>3, <1>4, <1>8
    <3> QED
      BY <3>1, <3>2, <1>7, <1>9
  <2> QED
    BY <2>1, <2>2, <1>2 DEF SafeInv, Batch
<1>14. DocsHold' /\ UserOnce'
  BY <1>2 DEF SafeInv, DocsHold, UserOnce, Once
<1>15. JobsHold'
  <2> SUFFICES ASSUME NEW k \in DOMAIN jobs'
               PROVE  /\ jobs'[k].stage = "bill" => \A n \in jobs'[k].of.usage \ closed : billed'[n] = 0
                      /\ \A m \in DOMAIN jobs' : k # m => jobs'[k].of.usage \cap jobs'[m].of.usage = {}
    BY <1>2 DEF JobsHold
  <2>1. \A m \in DOMAIN jobs' : k # m => jobs'[k].of.usage \cap jobs'[m].of.usage = {}
    BY <1>9 DEF SafeInv, JobsHold
  <2>2. ASSUME jobs'[k].stage = "bill", NEW n \in jobs'[k].of.usage \ closed PROVE billed'[n] = 0
    <3>1. was[k] # i
      BY <2>2, <1>10
    <3>2. jobs'[k] = jobs[was[k]] /\ was[k] \in DOMAIN jobs
      BY <3>1, <1>9
    <3>3. billed[n] = 0 /\ n \notin t.usage
      BY <2>2, <3>1, <3>2, <1>3 DEF SafeInv, JobsHold
    <3>4. n \in Messages
      BY <2>2, <3>2, <1>5, <1>8
    <3> QED
      BY <3>3, <3>4, <1>7
  <2> QED
    BY <2>1, <2>2
<1>16. NeverTwice'
  <2>1. ASSUME NEW n \in Made \ closed PROVE billed'[n] <= 1
    <3>1. n \in Messages /\ billed[n] <= 1
      BY <1>8 DEF SafeInv, NeverTwice, Made
    <3>2. s = "bill" /\ n \in t.usage => billed[n] = 0
      BY <1>3 DEF SafeInv, JobsHold
    <3> QED
      BY <3>1, <3>2, <1>7
  <2> QED
    BY <2>1, <1>2 DEF SafeInv, NeverTwice, Once, Made
<1>17. Whole'
  <2>1. Archiving' = Archiving
    BY <1>2 DEF Archiving, Unstored
  <2>2. ASSUME NEW n \in Billing PROVE n \in Billing' \cup unbilled' \/ billed'[n] >= 1 \/ n \notin Made
    <3>1. CASE pc \in Persisting \cup {"finish"} /\ n \in turn.usage
      BY <3>1, <1>2 DEF Billing
    <3>2. CASE ~(pc \in Persisting \cup {"finish"} /\ n \in turn.usage)
      <4>1. PICK m \in DOMAIN jobs : jobs[m].stage = "bill" /\ n \in jobs[m].of.usage
        BY <3>2 DEF Billing
      <4>2. CASE m = i
        <5>1. n \in t.usage /\ s = "bill" /\ n \in Messages /\ billed[n] \in Nat
          BY <4>1, <4>2, <1>3, <1>8
        <5> QED
          BY <5>1, <1>7
      <4>3. CASE m # i
        <5>1. PICK k \in DOMAIN jobs' : jobs'[k] = jobs[m]
          BY <4>3, <1>9
        <5> QED
          BY <4>1, <5>1 DEF Billing
      <4> QED
        BY <4>2, <4>3
    <3> QED
      BY <3>1, <3>2
  <2>3. \A n \in Made : billed[n] >= 1 => billed'[n] >= 1
    BY <1>7, <1>8
  <2> QED
    BY <2>1, <2>2, <2>3, <1>2, <1>7 DEF SafeInv, Whole, Made
<1>18. DocsLeft'
  BY <1>2 DEF SafeInv, DocsLeft, AtMostOne
<1> QED
  BY <1>11, <1>12, <1>13, <1>14, <1>15, <1>16, <1>17, <1>18 DEF SafeInv


\* A turn or a task that is lost leaves what was stored, and no more is claimed whole.
LEMMA LossSafe ==
  ASSUME Parameters, SafeInv, RunLost \/ JobLost
  PROVE  SafeInv'
<1>1. TypeInv /\ created \in Nat /\ jobs \in Seq(Jobs(created)) /\ lost' \in Nat /\ lost' # 0
  BY DEF SafeInv, TypeInv, Messages, Parameters, RunLost, JobLost
<1>2. UNCHANGED <<archive, hot, summary, billed, unbilled, settled, suspended, created, users, closed, turns, missed, befalls>>
  BY DEF RunLost, JobLost, stores, bills, authors
<1>3. DocsHold' /\ UserOnce' /\ NeverTwice' /\ Whole'
  BY <1>1, <1>2 DEF SafeInv, DocsHold, UserOnce, NeverTwice, Once, Whole
<1>4. CASE RunLost
  <2>1. pc' = "idle" /\ turn' = NoTurn /\ jobs' = jobs
    BY <1>4 DEF RunLost
  <2>2. NoTurn \in Contexts(created) /\ NoTurn.mode = "none"
    BY <1>1, Fresh DEF NoTurn
  <2>3. TypeInv' /\ JobsHold'
    BY <1>1, <1>2, <2>1, <2>2 DEF SafeInv, TypeInv, JobsHold, Made, TurnPhases
  <2>4. Placed' /\ Batch' /\ NoRecovery'
    BY <2>1, <2>2 DEF Placed, Batch, NoRecovery, Persisting
  <2>5. DocsLeft'
    BY <1>1, <1>2, <2>1, <2>2 DEF SafeInv, DocsLeft, NoRecovery, AtMostOne
  <2> QED
    BY <1>3, <2>3, <2>4, <2>5 DEF SafeInv
<1>5. CASE JobLost
  <2>1. pc' = pc /\ turn' = turn /\ \E i \in DOMAIN jobs : jobs' = RemoveAt(jobs, i)
    BY <1>5 DEF JobLost
  <2>2. PICK i \in DOMAIN jobs : jobs' = RemoveAt(jobs, i)
    BY <2>1
  <2>3. jobs' = After(i, "delete")
    BY <2>2 DEF After
  <2>4. PICK was \in [DOMAIN jobs' -> DOMAIN jobs] :
          /\ \A k \in DOMAIN jobs' :
               /\ jobs'[k].of = jobs[was[k]].of
               /\ was[k] # i => jobs'[k] = jobs[was[k]]
               /\ was[k] = i => "delete" # "delete" /\ jobs'[k] = [jobs[i] EXCEPT !.stage = "delete"]
          /\ \A k, m \in DOMAIN jobs' : was[k] = was[m] => k = m
          /\ \A m \in DOMAIN jobs : m # i => \E k \in DOMAIN jobs' : jobs'[k] = jobs[m]
    BY <1>1, <2>3, TasksAfter, Zenon
  <2>5. /\ \A k \in DOMAIN jobs' : was[k] \in DOMAIN jobs /\ jobs'[k] = jobs[was[k]]
        /\ \A k, m \in DOMAIN jobs' : was[k] = was[m] => k = m
    BY <2>4
  <2>6. TypeInv'
    <3>1. jobs' \in Seq(Jobs(created))
      BY <1>1, <2>2, Removed
    <3> QED
      BY <3>1, <1>1, <1>2, <2>1 DEF TypeInv, Made
  <2>7. JobsHold'
    BY <1>2, <2>5 DEF SafeInv, JobsHold
  <2>8. Placed' /\ Batch' /\ NoRecovery'
    <3>1. Unstored(turn)' = Unstored(turn)
      BY <2>1 DEF Unstored
    <3> QED
      BY <3>1, <1>2, <2>1, <2>5 DEF SafeInv, Placed, Batch, NoRecovery, Persisting
  <2>9. DocsLeft'
    BY <1>1, <1>2, <2>1 DEF SafeInv, DocsLeft, AtMostOne
  <2> QED
    BY <1>3, <2>6, <2>7, <2>8, <2>9 DEF SafeInv
<1> QED
  BY <1>4, <1>5

\* The hot context expires, or nothing happens.
LEMMA ExpireSafe ==
  ASSUME SafeInv, Expire \/ UNCHANGED storesVars
  PROVE  SafeInv'
<1>1. UNCHANGED <<pc, turn, archive, summary, suspended, jobs, created, users, billed, unbilled, closed, settled,
                  turns, lost, missed, befalls>>
  BY DEF Expire, storesVars, authors, bills, counts
<1>2. hot' \in Seq(Made)
  BY EmptySeq DEF SafeInv, TypeInv, Expire, storesVars
<1>3. Unstored(turn)' = Unstored(turn)
  BY <1>1 DEF Unstored
<1>4. TypeInv'
  BY <1>1, <1>2 DEF SafeInv, TypeInv, Made
<1>5. Placed' /\ NoRecovery' /\ Batch'
  BY <1>1, <1>3 DEF SafeInv, Placed, NoRecovery, Batch
<1>6. DocsHold' /\ JobsHold' /\ UserOnce' /\ NeverTwice'
  BY <1>1 DEF SafeInv, DocsHold, JobsHold, UserOnce, NeverTwice, Once
<1>7. Whole'
  <2>1. Archiving' = Archiving /\ Billing' = Billing
    BY <1>1, <1>3 DEF Archiving, Billing
  <2> QED
    BY <1>1, <2>1 DEF SafeInv, Whole, Made
<1>8. DocsLeft'
  BY <1>1 DEF SafeInv, DocsLeft, AtMostOne
<1> QED
  BY <1>4, <1>5, <1>6, <1>7, <1>8 DEF SafeInv

\* A session with one earlier turn is safe.
LEMMA InitSafe ==
  ASSUME Parameters, StoresInit
  PROVE  SafeInv
<1>1. /\ pc = "idle" /\ turn = NoTurn /\ archive = <<1, 2>> /\ hot = <<1, 2>>
      /\ summary = [covers |-> {}, at |-> 0] /\ suspended = {} /\ jobs = << >>
      /\ created = 2 /\ users = {1} /\ billed = [n \in Messages |-> IF n = 2 THEN 1 ELSE 0]
      /\ closed = {} /\ unbilled = {} /\ missed = {} /\ settled = {1, 2} /\ turns = 0 /\ lost = 0 /\ befalls \in Fates
  BY DEF StoresInit
<1>2. MaxMessages \in Nat \ {0, 1} /\ Fates \subseteq SUBSET Mishaps
  BY DEF Parameters
<1>3. NoTurn \in Contexts(2) /\ NoTurn.mode = "none" /\ NoTurn.record = << >> /\ NoTurn.usage = {}
  BY Fresh DEF NoTurn
<1>4. Made = {1, 2} /\ 2 \in Messages /\ 1 \in Messages
  BY <1>1, <1>2 DEF Made, Messages
<1>5. /\ archive \in Seq({1, 2}) /\ DOMAIN archive = {1, 2} /\ archive[1] = 1 /\ archive[2] = 2
      /\ ToSet(archive) = {1, 2}
  BY <1>1 DEF ToSet
<1>6. DOMAIN jobs = {} /\ jobs \in Seq(Jobs(2))
  BY <1>1, EmptySeq
<1>7. TypeInv
  <2>1. summary \in [covers : SUBSET {1, 2}, at : 0..2]
    BY <1>1
  <2>2. billed \in [Messages -> Nat] /\ \A n \in Messages \ {1, 2} : billed[n] = 0
    BY <1>1
  <2>3. pc \in TurnPhases /\ befalls \in SUBSET Mishaps
    BY <1>1, <1>2 DEF TurnPhases
  <2>4. hot \in Seq({1, 2}) /\ suspended \subseteq Contexts(created) /\ turn \in Contexts(created)
    BY <1>1, <1>3, <1>5
  <2> QED
    BY <1>1, <1>4, <1>5, <1>6, <2>1, <2>2, <2>3, <2>4 DEF TypeInv
<1>8. Placed /\ Batch /\ NoRecovery
  BY <1>1, <1>3 DEF Placed, Batch, NoRecovery, Persisting
<1>9. DocsHold /\ JobsHold /\ DocsLeft
  BY <1>1, <1>3, <1>6 DEF DocsHold, JobsHold, DocsLeft, AtMostOne
<1>10. UserOnce
  BY <1>1, <1>5 DEF UserOnce, Once
<1>11. billed[1] = 0 /\ billed[2] = 1
  BY <1>1, <1>4
<1>12. NeverTwice
  BY <1>1, <1>4, <1>5, <1>11 DEF NeverTwice, Once, Made
<1>13. Whole
  BY <1>1, <1>4, <1>5, <1>11 DEF Whole
<1> QED
  BY <1>7, <1>8, <1>9, <1>10, <1>12, <1>13 DEF SafeInv

\* No step of a session breaks it.
LEMMA StepSafe ==
  ASSUME Parameters, SafeInv, [StoresNext]_storesVars
  PROVE  SafeInv'
BY NewTurnSafe, RecoverSafe, GatheringSafe, PersistUserSafe, AnswerSafe, NoAnswerSafe, AppendHotSafe,
   ArchiveSafe, FinishSafe, DeleteSafe, CloseUnfinishedSafe, BackgroundSafe, LossSafe, ExpireSafe
   DEF StoresNext

\* What it says of the stores.
LEMMA SafeImplies ==
  ASSUME Parameters, SafeInv
  PROVE  StoresInv /\ NothingMissing
<1>1. /\ TypeInv /\ created \in Messages /\ MaxMessages \in Nat /\ created \in Nat
      /\ turn \in Contexts(created)
  BY TurnTyped DEF SafeInv, TypeInv, Messages, Parameters
<1>2. Made \subseteq Messages
  BY <1>1 DEF Made, Messages
<1>3. StoresTyped
  <2>1. archive \in Seq(Messages) /\ hot \in Seq(Messages)
    BY <1>1, <1>2, SeqMonotonic DEF TypeInv
  <2>2. summary \in [covers : SUBSET Messages, at : 0..MaxMessages]
    <3>1. 0..created \subseteq 0..MaxMessages
      BY <1>1 DEF Messages
    <3> QED
      BY <3>1, <1>1, <1>2 DEF TypeInv
  <2>3. turn.mode \in {"none", "new", "recover", "close"}
    BY <1>1, Fields
  <2>4. (pc = "idle") <=> (turn.mode = "none")
    BY <1>1 DEF SafeInv, TypeInv, Placed, TurnPhases, Persisting, NoTurn
  <2> QED
    BY <1>1, <2>1, <2>2, <2>3, <2>4 DEF StoresTyped, SafeInv, TypeInv, Batch, Made
<1>4. OneSuspended
  BY DEF SafeInv, OneSuspended, DocsLeft, Placed, NoTurn, AtMostOne
<1>5. pc = "idle" => Archiving = {} /\ (jobs = << >> => Billing = {})
  BY DEF Archiving, Billing, Persisting
<1>6. HotIsArchived
  <2>1. ToSet(hot) \subseteq Made
    BY <1>1, Elements DEF TypeInv
  <2> QED
    BY <1>5, <2>1 DEF HotIsArchived, SafeInv, Whole
<1>7. NothingMissing
  BY <1>5 DEF NothingMissing, Quiet, SafeInv, Whole, Made
<1> QED
  BY <1>3, <1>4, <1>6, <1>7 DEF StoresInv, SafeInv


\* Whatever befalls a session, its stores agree: nothing is archived or billed twice, one
\* suspended chat is left at most, and the archive covers the hot context
\* (chat_turn_coordinator.py and turn_message_persister.py).
THEOREM StoresSafe ==
  ASSUME Parameters
  PROVE  StoresSpec => []StoresInv
<1>1. StoresInit => SafeInv
  BY InitSafe
<1>2. SafeInv /\ [StoresNext]_storesVars => SafeInv'
  BY StepSafe
<1>3. SafeInv => StoresInv
  BY SafeImplies
<1> QED
  BY <1>1, <1>2, <1>3, PTL DEF StoresSpec

\* When nothing is under way or lost, every message is archived and every reply is billed
\* (persist_messages and _set_post_completion_tasks).
THEOREM NothingIsMissing ==
  ASSUME Parameters
  PROVE  StoresSpec => []NothingMissing
<1>1. StoresInit => SafeInv
  BY InitSafe
<1>2. SafeInv /\ [StoresNext]_storesVars => SafeInv'
  BY StepSafe
<1>3. SafeInv => NothingMissing
  BY SafeImplies
<1> QED
  BY <1>1, <1>2, <1>3, PTL DEF StoresSpec


-----------------------------------------------------------------------------
(* Memory: the steps of a request                                           *)

\* In a session that remembers and compresses nothing expires, is recovered or overlaps.
LEMMA Compressing ==
  ASSUME Parameters, SafeInv, MemoryInv, Remembers, ~Plain
  PROVE  /\ befalls \cap {"expire", "hot_unread", "recover", "overlap", "summary_unread"} = {}
         /\ turn.mode # "recover" /\ pc # "refill"
         /\ AtMostOne(suspended)
         /\ pc \in {"load", "refill", "recall", "user", "llm"} => turn.mode = "new" /\ suspended = {}
         /\ pc # "idle" => jobs = << >>
         /\ hot # << >>
<1>1. befalls \cap {"expire", "hot_unread", "recover", "overlap", "summary_unread"} = {}
  BY DEF Remembers, HotIsWhole, Plain
<1>2. turn.mode # "recover"
  BY <1>1 DEF SafeInv, NoRecovery
<1>3. pc \in {"load", "refill", "recall", "user", "llm"} => turn.mode = "new"
  BY <1>2 DEF SafeInv, Placed
<1>4. AtMostOne(suspended) /\ (pc \in {"load", "refill", "recall", "user", "llm"} => suspended = {})
  BY <1>1, <1>2, <1>3 DEF SafeInv, DocsLeft
<1>5. hot # << >> /\ pc # "refill" /\ (pc # "idle" => jobs = << >>)
  BY <1>1 DEF MemoryInv, Memory, Knowing, Kept
<1> QED
  BY <1>1, <1>2, <1>3, <1>4, <1>5

\* Where the hot context is complete or gone, a session that suspends does not lose it, and a
\* task that may reload it has the session for itself.
LEMMA Suspending ==
  ASSUME MemoryInv, HotIsWhole
  PROVE  /\ suspended # {} \/ turn.mode \in {"close", "recover"} =>
              "suspend" \in befalls /\ befalls \cap {"expire", "hot_unread"} = {}
         /\ "overlap" \notin befalls \/ Plain
         /\ Plain => /\ pc \notin {"summary", "reload"}
                     /\ \A i \in DOMAIN jobs : jobs[i].stage = "bill"
BY DEF MemoryInv, Steady, PlainHolds, NotSuspending, HotIsWhole, Plain

\* A new turn begins with nothing, or with the messages of the chat it closes.
LEMMA NewTurnRemembers ==
  ASSUME Parameters, SafeInv, MemoryInv, NewTurn
  PROVE  MemoryInv'
<1>1. /\ created \in Nat /\ pc = "idle" /\ turn = NoTurn /\ suspended \subseteq Contexts(created)
      /\ "overlap" \in befalls \/ jobs = << >>
  BY DEF SafeInv, TypeInv, Placed, Messages, NewTurn, MayBegin
<1>2. UNCHANGED <<archive, hot, summary, billed, unbilled, settled, suspended, jobs, missed, befalls>>
  BY DEF NewTurn, stores, bills
<1>3. ASSUME HotIsWhole PROVE ~(\E i \in DOMAIN jobs : jobs[i].stage = "reload")
  <2>1. DOMAIN (<< >>) = {}
    OBVIOUS
  <2> QED
    BY <2>1, <1>1, <1>3, Suspending
<1>4. ASSUME HotIsWhole, pc' \in {"load", "hot"} PROVE Reloading'
  BY <1>1, <1>2, <1>3, <1>4, Suspending DEF Reloading, Plain
<1>5. CASE suspended = {}
  <2>1. turn' = Context("new", 0, << >>, {}, {}, << >>, {}, FALSE) /\ pc' = "load"
    BY <1>1, <1>5, Fresh DEF NewTurn
  <2>2. turn'.mode = "new" /\ turn'.needs = FALSE
    BY <2>1 DEF Context
  <2>3. Steady'
    BY <1>2, <1>5, <2>1, <2>2 DEF MemoryInv, Steady, PlainHolds, Plain, NotSuspending
  <2>4. ASSUME Remembers PROVE Kept' /\ Covered'
    BY <1>1, <1>2, <2>1, <2>4 DEF MemoryInv, Memory, Kept, Covered, Gathering
  <2>5. ASSUME Remembers PROVE Knowing'
    <3>1. ~Plain => jobs = << >> /\ missed = {}
      BY <1>1, <2>5, Compressing DEF MemoryInv, Memory, Knowing
    <3>2. DOMAIN (<< >>) = {}
      OBVIOUS
    <3> QED
      BY <1>2, <1>5, <2>1, <3>1, <3>2 DEF Knowing, Plain, Gathering
  <2>6. ASSUME HotIsWhole PROVE Recent'
    BY <1>1, <1>2, <2>1, <2>2, <2>6 DEF MemoryInv, Recent, Recents, Gathering
  <2> QED
    BY <1>2, <1>4, <2>1, <2>3, <2>4, <2>5, <2>6 DEF MemoryInv, Memory, Remembers, HotIsWhole
<1>6. CASE suspended # {}
  <2> DEFINE c == created + 1
  <2>0. PICK d : d = Latest
    OBVIOUS
  <2>1. d \in suspended /\ d \in Contexts(created)
    BY <1>1, <1>6, <2>0, LatestIn
  <2>2. created' = c /\ pc' = "hot" /\ turn' = Close(d, c)
    BY <1>6, <2>0 DEF NewTurn
  <2>3. turn' = Context("close", d.doc, Append(d.record, c), d.usage, d.existing, d.keep, d.cands, d.needs)
    <3>1. \A n : Close(d, n) = Context("close", d.doc, Append(d.record, n), d.usage,
                                       d.existing, d.keep, d.cands, d.needs)
      BY <2>1, <1>1, Rewritten
    <3> QED
      BY <2>2, <3>1
  <2>4. /\ turn'.mode = "close" /\ turn'.record = Append(d.record, c) /\ turn'.needs = d.needs
        /\ turn'.keep = d.keep /\ turn'.cands = d.cands /\ turn'.existing = d.existing
    BY <2>3 DEF Context
  <2>5. ToSet(d.record) \subseteq ToSet(turn'.record)
    <3>1. d \in Contexts(c) /\ c \in Nat /\ c \in 1..c
      BY <2>1, <1>1, MoreMessages
    <3>2. d.record \in Seq(1..c)
      BY <3>1, Fields
    <3> QED
      BY <2>4, <3>1, <3>2, AppendElements
  <2> HIDE DEF c
  <2>6. "suspend" \in befalls /\ (HotIsWhole => befalls \cap {"expire", "hot_unread"} = {})
    BY <1>6 DEF MemoryInv, Steady, NotSuspending, HotIsWhole
  <2>7. Steady'
    BY <1>2, <2>1, <2>2, <2>4, <2>6 DEF MemoryInv, Steady, PlainHolds, Plain, NotSuspending
  <2>8. ASSUME Remembers PROVE Kept' /\ Covered'
    BY <1>2, <2>2, <2>4, <2>6, <2>8 DEF MemoryInv, Memory, Kept, Covered, Gathering, Remembers
  <2>9. ASSUME Remembers PROVE Knowing'
    <3> SUFFICES ASSUME ~Plain PROVE Knowing'
      BY <1>2 DEF Knowing, Plain
    <3>1. jobs = << >> /\ AtMostOne(suspended) /\ missed = {}
      BY <1>1, <2>9, Compressing DEF MemoryInv, Memory, Knowing
    <3>2. Knows(d) /\ \A e \in suspended : e = d
      BY <2>1, <2>9, <3>1 DEF MemoryInv, Memory, Knowing, AtMostOne
    <3>3. Knows(turn)' /\ Knows(d)'
      BY <1>2, <2>4, <2>5, <3>2 DEF Knows
    <3>4. Matches(d, turn')
      BY <2>4, <2>5 DEF Matches
    <3>5. jobs' = << >> /\ DOMAIN jobs' = {} /\ ToSet(turn'.keep) \subseteq ToSet(hot')
      BY <3>1, <3>3, <1>2 DEF Knows
    <3>6. \A e \in suspended' : Knows(e)' /\ Matches(e, turn')
      BY <3>2, <3>3, <3>4, <1>2
    <3> QED
      BY <1>2, <2>2, <2>4, <3>1, <3>3, <3>5, <3>6 DEF Knowing
  <2>10. ASSUME HotIsWhole PROVE Recent'
    BY <1>1, <1>2, <2>2, <2>4, <2>6, <2>10 DEF MemoryInv, Recent, Recents, Gathering
  <2> QED
    BY <1>2, <1>4, <2>2, <2>7, <2>8, <2>9, <2>10 DEF MemoryInv, Memory, Remembers, HotIsWhole
<1> QED
  BY <1>5, <1>6

\* A recovery that remembers everything happens only where nothing is compressed.
LEMMA RecoverRemembers ==
  ASSUME Parameters, SafeInv, MemoryInv, Recover
  PROVE  MemoryInv'
<1> DEFINE d == Latest
<1>1. /\ created \in Nat /\ suspended \subseteq Contexts(created)
      /\ suspended # {} /\ "recover" \in befalls /\ pc = "idle" /\ pc' = "llm"
      /\ turn' = [d EXCEPT !.mode = "recover", !.record = << >>, !.usage = {}]
      /\ "overlap" \in befalls \/ jobs = << >>
  BY DEF SafeInv, TypeInv, Messages, Recover, MayBegin
<1>2. UNCHANGED <<archive, hot, summary, settled, suspended, jobs, missed, befalls, created>>
  BY DEF Recover, stores, bills, authors
<1>3. d \in suspended /\ d \in Contexts(created)
  BY <1>1, LatestIn
<1> HIDE DEF d
<1>4. turn' = Context("recover", d.doc, << >>, {}, d.existing, d.keep, d.cands, d.needs)
  BY <1>1, <1>3, Rewritten
<1>5. turn'.mode = "recover" /\ turn'.needs = d.needs
  BY <1>4 DEF Context
<1>6. "suspend" \in befalls
  BY <1>1 DEF MemoryInv, Steady, NotSuspending
<1>7. Steady'
  BY <1>1, <1>2, <1>3, <1>5, <1>6 DEF MemoryInv, Steady, PlainHolds, Plain, NotSuspending
<1>8. ASSUME Remembers PROVE Kept' /\ Covered' /\ Knowing'
  <2>1. Plain /\ "expire" \notin befalls
    BY <1>1, <1>6, <1>8 DEF Remembers, HotIsWhole, Plain
  <2> QED
    BY <1>1, <1>2, <1>5, <1>8, <2>1 DEF MemoryInv, Memory, Kept, Covered, Knowing, Plain, Gathering
<1>9. ASSUME HotIsWhole PROVE Recent' /\ Reloading'
  <2>1. befalls \cap {"expire", "hot_unread"} = {}
    BY <1>6, <1>9 DEF HotIsWhole
  <2>2. Recent'
    BY <1>1, <1>2, <1>5, <1>9, <2>1 DEF MemoryInv, Recent, Recents, Gathering
  <2>3. DOMAIN (<< >>) = {}
    OBVIOUS
  <2>4. ~(\E i \in DOMAIN jobs : jobs[i].stage = "reload")
    BY <2>3, <1>1, <1>9, Suspending
  <2>5. Reloading'
    BY <1>1, <1>2, <1>9, <2>4, Suspending DEF Reloading, Plain
  <2> QED
    BY <2>2, <2>5
<1> QED
  BY <1>2, <1>7, <1>8, <1>9 DEF MemoryInv, Memory, Remembers, HotIsWhole


\* The turn in hand as a window, a record or a summary is read into it.
LEMMA Reads ==
  ASSUME Parameters, SafeInv
  PROVE  /\ created \in Nat /\ turn \in Contexts(created)
         /\ archive \in Seq(Made) /\ hot \in Seq(Made) /\ turn.record \in Seq(Made)
         /\ \A h \in Seq(Made) :
              LET t == Windowed(turn, h)
              IN  /\ t.mode = turn.mode /\ (t.needs => ~Plain)
                  /\ ToSet(t.keep) \cup t.cands = ToSet(h)
<1>1. /\ created \in Nat /\ turn \in Contexts(created) /\ archive \in Seq(Made) /\ hot \in Seq(Made)
      /\ turn.record \in Seq(Made)
  <2>1. TypeInv
    BY DEF SafeInv
  <2> QED
    BY <2>1, TurnTyped DEF TypeInv
<1>2. Low \in Nat /\ High \in Nat
  BY DEF Parameters
<1>3. ASSUME NEW h \in Seq(Made)
      PROVE  /\ Windowed(turn, h).mode = turn.mode /\ (Windowed(turn, h).needs => ~Plain)
             /\ ToSet(Windowed(turn, h).keep) \cup Windowed(turn, h).cands = ToSet(h)
  <2>1. \A x : Windowed(turn, x) = Context(turn.mode, turn.doc, turn.record, turn.usage, turn.existing,
                                           Window(x).keep, Window(x).cands, Window(x).needs)
    BY <1>1, Rewritten
  <2>2. PICK t : t = Windowed(turn, h)
    OBVIOUS
  <2>3. t = Context(turn.mode, turn.doc, turn.record, turn.usage, turn.existing,
                    Window(h).keep, Window(h).cands, Window(h).needs)
    BY <2>1, <2>2, Zenon
  <2>4. /\ t.mode = turn.mode /\ t.keep = Window(h).keep /\ t.cands = Window(h).cands
        /\ t.needs = Window(h).needs
    BY <2>3 DEF Context
  <2>5. /\ Window(h).needs => "compress" \in befalls
        /\ ToSet(Window(h).keep) \cup Window(h).cands = ToSet(h)
    BY <1>2, WindowSplits
  <2> QED
    BY <2>2, <2>4, <2>5 DEF Plain
<1> QED
  BY <1>1, <1>3

\* The hot context is read whole, or not at all ...
LEMMA LoadRemembers ==
  ASSUME Parameters, SafeInv, MemoryInv, Load
  PROVE  MemoryInv'
<1>1. /\ pc = "load"
      /\ UNCHANGED <<archive, hot, summary, billed, unbilled, settled, suspended, jobs, created, turns, missed, befalls>>
      /\ \/ (hot = << >> \/ "hot_unread" \in befalls) /\ pc' = "refill" /\ turn' = turn
         \/ hot # << >> /\ pc' = "recall" /\ turn' = Windowed(turn, hot)
  BY DEF Load, stores, bills, authors, counts
<1>2. ASSUME HotIsWhole PROVE Reloading'
  BY <1>1, <1>2 DEF MemoryInv, Reloading, Plain
<1>3. CASE pc' = "refill"
  <2>1. turn' = turn /\ (hot = << >> \/ "hot_unread" \in befalls)
    BY <1>1, <1>3
  <2>2. Steady'
    BY <1>1, <1>3, <2>1 DEF MemoryInv, Steady, PlainHolds, Plain, NotSuspending
  <2>3. ASSUME Remembers PROVE Memory'
    BY <1>1, <1>3, <2>1, <2>3 DEF MemoryInv, Memory, Kept, Covered, Knowing, Knows, Plain, Gathering
  <2>4. ASSUME HotIsWhole PROVE Recent'
    BY <1>1, <1>3, <2>1, <2>4 DEF MemoryInv, Recent, Recents, Gathering
  <2> QED
    BY <1>1, <1>2, <2>2, <2>3, <2>4 DEF MemoryInv, Remembers, HotIsWhole
<1>4. CASE pc' # "refill"
  <2>1. pc' = "recall" /\ turn' = Windowed(turn, hot) /\ hot # << >>
    BY <1>1, <1>4
  <2>2. /\ turn'.mode = turn.mode /\ (turn'.needs => ~Plain)
        /\ ToSet(turn'.keep) \cup turn'.cands = ToSet(hot)
    BY <2>1, Reads
  <2>3. Steady'
    BY <1>1, <2>1, <2>2 DEF MemoryInv, Steady, PlainHolds, Plain, NotSuspending
  <2>4. ASSUME Remembers PROVE Kept' /\ Covered'
    BY <1>1, <2>1, <2>2, <2>4 DEF MemoryInv, Memory, Kept, Covered, Gathering
  <2>5. ASSUME Remembers PROVE Knowing'
    <3> SUFFICES ASSUME ~Plain PROVE Knowing'
      BY <1>1 DEF Knowing, Plain
    <3>1. suspended = {} /\ jobs = << >> /\ missed = {}
      BY <1>1, <2>5, Compressing DEF MemoryInv, Memory, Knowing
    <3>2. DOMAIN jobs = {}
      BY <3>1
    <3> QED
      BY <1>1, <2>1, <2>2, <3>1, <3>2 DEF Knowing, Gathering
  <2>6. ASSUME HotIsWhole PROVE Recent'
    BY <1>1, <2>1, <2>2, <2>6 DEF MemoryInv, Recent, Recents, Gathering
  <2> QED
    BY <1>1, <1>2, <2>3, <2>4, <2>5, <2>6 DEF MemoryInv, Memory, Remembers, HotIsWhole
<1> QED
  BY <1>3, <1>4

\* ... or rebuilt from the archive, which holds all that is newer than the summary.
LEMMA RefillRemembers ==
  ASSUME Parameters, SafeInv, MemoryInv, Refill
  PROVE  MemoryInv'
<1> DEFINE history == Newer(archive, summary.at)
<1>1. /\ pc = "refill" /\ pc' = "recall"
      /\ UNCHANGED <<archive, summary, billed, unbilled, settled, suspended, jobs, created, turns, befalls>>
      /\ hot' = hot \/ hot' = IF history = << >> THEN hot ELSE history
      /\ \/ /\ turn' = Windowed(turn, history) /\ missed' = missed
            /\ hot' = IF history = << >> THEN hot ELSE history
         \/ "history_unread" \in befalls /\ turn' = Windowed(turn, << >>) /\ missed' = missed \cup {turns}
  BY DEF Refill, Refilled, Unrefilled, bills, authors
<1>2. archive \in Seq(Made) /\ Made \in SUBSET Nat /\ << >> \in Seq(Made) /\ summary.at \in Nat
      /\ settled \subseteq Made
  <2>1. archive \in Seq(Made)
    BY Reads
  <2> QED
    BY <2>1, EmptySeq DEF SafeInv, TypeInv, Made, Messages
<1>3. history \in Seq(Made) /\ ToSet(history) = {x \in ToSet(archive) : x > summary.at}
  BY <1>2, NewerElements
<1> HIDE DEF history
<1>4. /\ turn'.mode = turn.mode /\ (turn'.needs => ~Plain)
      /\ turn' = Windowed(turn, history) => ToSet(turn'.keep) \cup turn'.cands = ToSet(history)
  <2>1. ASSUME turn' = Windowed(turn, history)
        PROVE  /\ turn'.mode = turn.mode /\ (turn'.needs => ~Plain)
               /\ ToSet(turn'.keep) \cup turn'.cands = ToSet(history)
    BY <2>1, <1>3, Reads
  <2>2. ASSUME turn' = Windowed(turn, << >>)
        PROVE  turn'.mode = turn.mode /\ (turn'.needs => ~Plain)
    BY <2>2, <1>2, Reads
  <2>3. turn' = Windowed(turn, history) \/ turn' = Windowed(turn, << >>)
    BY <1>1, Zenon
  <2> QED
    BY <2>1, <2>2, <2>3, Zenon
<1>5. history = << >> <=> ToSet(history) = {}
  BY <1>3, Elements
<1>6. Steady'
  BY <1>1, <1>4 DEF MemoryInv, Steady, PlainHolds, Plain, NotSuspending
<1>7. ASSUME Remembers PROVE Kept' /\ Covered' /\ Knowing'
  <2>1. Plain
    BY <1>1, <1>7, Compressing
  <2>2. summary = [covers |-> {}, at |-> 0]
    BY <2>1 DEF MemoryInv, Steady, PlainHolds
  <2>3. ToSet(history) = ToSet(archive)
    <3>1. \A x \in ToSet(archive) : x \in Made
      BY <1>2, Elements
    <3> QED
      BY <3>1, <2>2, <1>3 DEF Made
  <2>4. settled \subseteq ToSet(archive)
    BY <1>1, <1>7 DEF MemoryInv, Memory, Kept
  <2>5. settled \subseteq ToSet(hot') \cup summary'.covers /\ (hot # << >> => hot' # << >>)
    <3>1. CASE hot' = hot /\ "history_unread" \in befalls
      BY <3>1, <1>1, <1>7 DEF MemoryInv, Memory, Kept, Remembers, HotIsWhole
    <3>2. CASE history # << >> /\ hot' = history
      BY <3>2, <2>3, <2>4
    <3>3. CASE history = << >>
      BY <3>3, <1>1, <1>5, <2>3, <2>4
    <3> QED
      BY <3>1, <3>2, <3>3, <1>1
  <2>6. Kept' /\ Covered'
    BY <1>1, <1>4, <1>7, <2>2, <2>3, <2>4, <2>5 DEF MemoryInv, Memory, Kept, Covered, Gathering
  <2> QED
    BY <1>1, <2>1, <2>6 DEF Knowing, Plain
<1>8. ASSUME HotIsWhole PROVE Recent'
  <2>1. Recents \subseteq ToSet(archive)
    BY <1>1, <1>8 DEF MemoryInv, Recent
  <2>2. Recents \subseteq ToSet(history)
    BY <2>1, <1>3 DEF Recents
  <2>3. Recents \subseteq ToSet(hot') /\ (hot # << >> => hot' # << >>)
    <3>1. CASE hot' = hot /\ "history_unread" \in befalls
      BY <3>1, <1>1, <1>8 DEF MemoryInv, Recent, HotIsWhole
    <3>2. CASE history # << >> /\ hot' = history
      BY <3>2, <2>2
    <3>3. CASE history = << >>
      BY <3>3, <1>1, <1>5, <2>2
    <3> QED
      BY <3>1, <3>2, <3>3, <1>1
  <2>4. Recents' = Recents
    BY <1>1 DEF Recents
  <2> QED
    BY <1>1, <1>4, <1>8, <2>1, <2>2, <2>3, <2>4 DEF MemoryInv, Recent, Gathering
<1>9. ASSUME HotIsWhole PROVE Reloading'
  BY <1>1, <1>9 DEF MemoryInv, Reloading, Plain
<1> QED
  BY <1>1, <1>6, <1>7, <1>8, <1>9 DEF MemoryInv, Memory, Remembers, HotIsWhole

\* The summary comes after the history, or is missed.
LEMMA RecallRemembers ==
  ASSUME Parameters, SafeInv, MemoryInv, Recall
  PROVE  MemoryInv'
<1>1. /\ pc = "recall" /\ pc' = "user"
      /\ UNCHANGED <<archive, hot, summary, billed, unbilled, settled, suspended, jobs, created, turns, befalls>>
      /\ \/ turn' = [turn EXCEPT !.existing = summary.covers] /\ missed' = missed
         \/ /\ "summary_unread" \in befalls
            /\ turn' = [turn EXCEPT !.existing = {}] /\ missed' = missed \cup {turns}
  BY DEF Recall, stores, bills, authors
<1>2. \A x : [turn EXCEPT !.existing = x]
               = Context(turn.mode, turn.doc, turn.record, turn.usage, x, turn.keep, turn.cands, turn.needs)
  BY Reads, Rewritten
<1>3. /\ turn'.mode = turn.mode /\ turn'.needs = turn.needs /\ turn'.record = turn.record
      /\ turn'.keep = turn.keep /\ turn'.cands = turn.cands
      /\ turns \notin missed' => turn'.existing = summary.covers /\ missed' = missed
  <2>1. PICK x : /\ turn' = Context(turn.mode, turn.doc, turn.record, turn.usage, x,
                                    turn.keep, turn.cands, turn.needs)
                 /\ turns \notin missed' => x = summary.covers /\ missed' = missed
    <3>1. CASE turn' = [turn EXCEPT !.existing = summary.covers] /\ missed' = missed
      BY <3>1, <1>2
    <3>2. CASE turn' = [turn EXCEPT !.existing = {}] /\ missed' = missed \cup {turns}
      BY <3>2, <1>2
    <3> QED
      BY <3>1, <3>2, <1>1
  <2> QED
    BY <2>1 DEF Context
<1>4. Steady'
  BY <1>1, <1>3 DEF MemoryInv, Steady, PlainHolds, Plain, NotSuspending
<1>5. ASSUME Remembers PROVE Kept' /\ Covered'
  BY <1>1, <1>3, <1>5 DEF MemoryInv, Memory, Kept, Covered, Gathering
<1>6. ASSUME Remembers PROVE Knowing'
  <2> SUFFICES ASSUME ~Plain PROVE Knowing'
    BY <1>1 DEF Knowing, Plain
  <2>1. suspended = {} /\ jobs = << >> /\ missed' = {} /\ missed = {}
    BY <1>1, <1>6, Compressing DEF MemoryInv, Memory, Knowing
  <2>2. DOMAIN jobs = {} /\ ToSet(turn.keep) \subseteq ToSet(hot)
    BY <1>1, <1>6, <2>1 DEF MemoryInv, Memory, Knowing, Gathering
  <2>3. Knows(turn)'
    BY <1>1, <1>3, <1>6, <2>1, <2>2 DEF MemoryInv, Memory, Covered, Knows
  <2> QED
    BY <1>1, <1>3, <2>1, <2>2, <2>3 DEF Knowing
<1>7. ASSUME HotIsWhole PROVE Recent' /\ Reloading'
  <2>1. Recent'
    BY <1>1, <1>3, <1>7 DEF MemoryInv, Recent, Recents, Gathering
  <2>2. Reloading'
    BY <1>1, <1>7 DEF MemoryInv, Reloading, Plain
  <2> QED
    BY <2>1, <2>2
<1> QED
  BY <1>1, <1>4, <1>5, <1>6, <1>7 DEF MemoryInv, Memory, Remembers, HotIsWhole

\* The user message is no part of what the prompt must hold.
LEMMA PersistUserRemembers ==
  ASSUME Parameters, SafeInv, MemoryInv, PersistUser
  PROVE  MemoryInv'
<1>1. /\ pc = "user" /\ pc' = "llm" /\ turn' = [turn EXCEPT !.record = <<created'>>]
      /\ archive' = Append(archive, created')
      /\ UNCHANGED <<hot, summary, billed, unbilled, settled, suspended, jobs, turns, missed, befalls>>
  BY DEF PersistUser, bills, counts
<1>2. turn' = Context(turn.mode, turn.doc, <<created'>>, turn.usage, turn.existing,
                      turn.keep, turn.cands, turn.needs)
  <2>1. \A r : [turn EXCEPT !.record = r]
                 = Context(turn.mode, turn.doc, r, turn.usage, turn.existing, turn.keep, turn.cands, turn.needs)
    BY Reads, Rewritten
  <2> QED
    BY <2>1, <1>1
<1>3. /\ turn'.mode = turn.mode /\ turn'.needs = turn.needs
      /\ turn'.keep = turn.keep /\ turn'.cands = turn.cands /\ turn'.existing = turn.existing
  BY <1>2 DEF Context
<1>4. ToSet(archive) \subseteq ToSet(archive')
  <2>1. TypeInv /\ created < MaxMessages /\ created' = created + 1
    BY DEF SafeInv, PersistUser
  <2>2. created' \in Made' /\ \A s \in Seq(Made) : s \in Seq(Made')
    BY <2>1, Older
  <2>3. archive \in Seq(Made')
    BY <2>2, Reads
  <2> QED
    BY <2>2, <2>3, <1>1, AppendElements
<1>5. Steady'
  BY <1>1, <1>3 DEF MemoryInv, Steady, PlainHolds, Plain, NotSuspending
<1>6. ASSUME Remembers PROVE Kept' /\ Covered'
  BY <1>1, <1>3, <1>4, <1>6 DEF MemoryInv, Memory, Kept, Covered, Gathering
<1>7. ASSUME Remembers PROVE Knowing'
  <2> SUFFICES ASSUME ~Plain PROVE Knowing'
    BY <1>1 DEF Knowing, Plain
  <2>1. suspended = {} /\ jobs = << >> /\ turn.mode = "new" /\ missed = {}
    BY <1>1, <1>7, Compressing DEF MemoryInv, Memory, Knowing
  <2>2. DOMAIN jobs = {} /\ ToSet(turn.keep) \subseteq ToSet(hot)
    BY <1>1, <1>7, <2>1 DEF MemoryInv, Memory, Knowing, Gathering
  <2>3. Knows(turn)'
    BY <1>1, <1>3, <1>7, <2>1, <2>2 DEF MemoryInv, Memory, Covered, Knows
  <2> QED
    BY <1>1, <1>3, <2>1, <2>2, <2>3 DEF Knowing
<1>8. ASSUME HotIsWhole PROVE Recent'
  BY <1>1, <1>3, <1>4, <1>8 DEF MemoryInv, Recent, Recents, Gathering
<1>9. ASSUME HotIsWhole PROVE Reloading'
  BY <1>1, <1>9, Suspending DEF MemoryInv, Reloading, Plain
<1> QED
  BY <1>1, <1>5, <1>6, <1>7, <1>8, <1>9 DEF MemoryInv, Memory, Remembers, HotIsWhole


\* A chat that is suspended knows what its turn knows.
LEMMA AnswerRemembers ==
  ASSUME Parameters, SafeInv, MemoryInv, Answer
  PROVE  MemoryInv'
<1>1. PICK c : c = created'
  OBVIOUS
<1>2. /\ pc = "llm" /\ pc' = "hot" /\ c = created + 1
      /\ turn' = [turn EXCEPT !.record = Append(@, c), !.usage = @ \cup {c}]
      /\ UNCHANGED <<archive, hot, summary, billed, unbilled, settled, jobs, missed, befalls>>
      /\ suspended' = suspended \/ ("suspend" \in befalls /\ suspended' = suspended \cup {[turn' EXCEPT !.doc = c]})
  BY <1>1 DEF Answer, Replied, Suspended, stores, bills, counts
<1>3. /\ created \in Nat /\ turn \in Contexts(created) /\ turn.record \in Seq(1..created)
  <2>1. created \in Nat /\ turn \in Contexts(created)
    BY Reads
  <2> QED
    BY <2>1, Fields
<1>4. turn' = Context(turn.mode, turn.doc, Append(turn.record, c), turn.usage \cup {c},
                      turn.existing, turn.keep, turn.cands, turn.needs)
  <2>1. \A n : [turn EXCEPT !.record = Append(@, n), !.usage = @ \cup {n}]
                 = Context(turn.mode, turn.doc, Append(turn.record, n), turn.usage \cup {n},
                           turn.existing, turn.keep, turn.cands, turn.needs)
    BY <1>3, Rewritten
  <2> QED
    BY <2>1, <1>2
<1>5. PICK e : e = Context(turn.mode, c, Append(turn.record, c), turn.usage \cup {c},
                           turn.existing, turn.keep, turn.cands, turn.needs)
  OBVIOUS
<1>6. [turn' EXCEPT !.doc = c] = e
  <2>1. PICK r, g : r = Append(turn.record, c) /\ g = turn.usage \cup {c}
    OBVIOUS
  <2>2. turn' = Context(turn.mode, turn.doc, r, g, turn.existing, turn.keep, turn.cands, turn.needs)
    BY <2>1, <1>4
  <2>3. [turn' EXCEPT !.doc = c]
          = Context(turn.mode, c, r, g, turn.existing, turn.keep, turn.cands, turn.needs)
    BY <2>2 DEF Context
  <2> QED
    BY <2>1, <2>3, <1>5
<1>7. /\ turn'.mode = turn.mode /\ turn'.record = Append(turn.record, c) /\ turn'.keep = turn.keep
      /\ turn'.cands = turn.cands /\ turn'.existing = turn.existing /\ turn'.needs = turn.needs
  BY <1>4 DEF Context
<1>8. /\ e.record = turn'.record /\ e.keep = turn.keep /\ e.cands = turn.cands
      /\ e.existing = turn.existing /\ e.needs = turn.needs
  BY <1>5, <1>7 DEF Context
<1>9. ToSet(turn.record) \subseteq ToSet(turn'.record)
  <2>1. turn.record \in Seq(1..c) /\ c \in 1..c
    BY <1>2, <1>3, SeqMonotonic
  <2> QED
    BY <2>1, <1>7, AppendElements
<1>10. Steady'
  BY <1>2, <1>6, <1>7, <1>8 DEF MemoryInv, Steady, PlainHolds, Plain, NotSuspending
<1>11. ASSUME Remembers PROVE Kept' /\ Covered'
  BY <1>2, <1>11 DEF MemoryInv, Memory, Kept, Covered, Gathering
<1>12. ASSUME Remembers PROVE Knowing'
  <2> SUFFICES ASSUME ~Plain PROVE Knowing'
    BY <1>2 DEF Knowing, Plain
  <2>1. suspended' \subseteq {e} /\ jobs = << >> /\ turn.mode = "new" /\ missed = {}
    BY <1>2, <1>6, <1>12, Compressing DEF MemoryInv, Memory, Knowing
  <2>2. DOMAIN jobs = {} /\ ToSet(turn.keep) \subseteq ToSet(hot) /\ Knows(turn)
    BY <1>2, <1>12, <2>1 DEF MemoryInv, Memory, Knowing, Gathering
  <2>3. Knows(turn)' /\ Knows(e)'
    BY <1>2, <1>7, <1>8, <1>9, <2>2 DEF Knows
  <2>4. Matches(e, turn')
    BY <1>7, <1>8 DEF Matches
  <2> QED
    BY <1>2, <1>7, <1>8, <2>1, <2>2, <2>3, <2>4 DEF Knowing
<1>13. ASSUME HotIsWhole PROVE Recent'
  BY <1>2, <1>13 DEF MemoryInv, Recent, Recents, Gathering
<1>14. ASSUME HotIsWhole PROVE Reloading'
  BY <1>2, <1>14, Suspending DEF MemoryInv, Reloading, Plain
<1> QED
  BY <1>2, <1>10, <1>11, <1>12, <1>13, <1>14 DEF MemoryInv, Memory, Remembers, HotIsWhole

\* Without an answer nothing changes.
LEMMA NoAnswerRemembers ==
  ASSUME Parameters, SafeInv, MemoryInv, NoAnswer
  PROVE  MemoryInv'
<1>1. /\ pc = "llm" /\ pc' = "hot"
      /\ UNCHANGED <<turn, archive, hot, summary, billed, unbilled, settled, suspended, jobs, created, turns, missed, befalls>>
  BY DEF NoAnswer, stores, bills, authors, counts
<1>2. Steady'
  BY <1>1 DEF MemoryInv, Steady, PlainHolds, Plain, NotSuspending
<1>3. ASSUME Remembers PROVE Kept' /\ Covered' /\ Knowing'
  BY <1>1, <1>3 DEF MemoryInv, Memory, Kept, Covered, Knowing, Knows, Plain, Gathering
<1>4. ASSUME HotIsWhole PROVE Recent' /\ Reloading'
  BY <1>1, <1>4 DEF MemoryInv, Recent, Recents, Reloading, Plain, Gathering
<1> QED
  BY <1>1, <1>2, <1>3, <1>4 DEF MemoryInv, Memory, Remembers, HotIsWhole

\* The hot context takes the messages of the turn.
LEMMA AppendHotRemembers ==
  ASSUME Parameters, SafeInv, MemoryInv, AppendHot
  PROVE  MemoryInv'
<1>1. /\ pc = "hot" /\ pc' = "archive"
      /\ HotIsWhole => hot' = hot \o turn.record
      /\ UNCHANGED <<turn, archive, summary, billed, unbilled, settled, suspended, jobs, created, turns, missed, befalls>>
  BY DEF AppendHot, HotIsWhole, bills, authors, counts
<1>2. ASSUME HotIsWhole
      PROVE  ToSet(hot') = ToSet(hot) \cup ToSet(turn.record) /\ (hot # << >> => hot' # << >>)
  <2>1. hot \in Seq(Made) /\ turn.record \in Seq(Made)
    BY Reads
  <2>2. hot \o turn.record \in Seq(Made)
    BY <2>1, ConcatProperties
  <2>3. ToSet(hot \o turn.record) = ToSet(hot) \cup ToSet(turn.record)
    BY <2>1, ConcatElements
  <2>4. hot' = hot \o turn.record
    BY <1>1, <1>2
  <2>5. hot' \in Seq(Made) /\ ToSet(hot') = ToSet(hot) \cup ToSet(turn.record)
    BY <2>2, <2>3, <2>4, Zenon
  <2>6. ToSet(hot) = {} <=> hot = << >>
    BY <2>1, Elements
  <2>7. ToSet(hot') = {} <=> hot' = << >>
    BY <2>5, Elements
  <2> QED
    BY <2>5, <2>6, <2>7
<1>3. Steady'
  BY <1>1 DEF MemoryInv, Steady, PlainHolds, Plain, NotSuspending
<1>4. Remembers => HotIsWhole
  BY DEF Remembers
<1>5. ASSUME Remembers PROVE Kept' /\ Covered'
  BY <1>1, <1>2, <1>4, <1>5 DEF MemoryInv, Memory, Kept, Covered, Gathering
<1>6. ASSUME Remembers PROVE Knowing'
  <2> SUFFICES ASSUME ~Plain PROVE Knowing'
    BY <1>1 DEF Knowing, Plain
  <2>1. jobs = << >> /\ DOMAIN jobs = {}
    <3>1. jobs = << >>
      BY <1>1, <1>6, Compressing
    <3> QED
      BY <3>1
  <2>2. Memory /\ \A t : Knows(t) => Knows(t)'
    BY <1>1, <1>2, <1>4, <1>6 DEF Knows, MemoryInv
  <2>3. Knows(turn)'
    BY <1>1, <1>2, <1>4, <1>6, <2>2 DEF Memory, Knowing, Knows, Gathering
  <2> QED
    BY <1>1, <1>2, <1>4, <1>6, <2>1, <2>2, <2>3 DEF Memory, Knowing, Knows, Gathering
<1>7. ASSUME HotIsWhole PROVE Recent'
  BY <1>1, <1>2, <1>7 DEF MemoryInv, Recent, Recents, Gathering
<1>8. ASSUME HotIsWhole PROVE Reloading'
  BY <1>1, <1>8 DEF MemoryInv, Reloading, Plain
<1> QED
  BY <1>1, <1>3, <1>5, <1>6, <1>7, <1>8 DEF MemoryInv, Memory, Remembers, HotIsWhole

\* A turn that was persisted is in the hot context, and in the archive from now on.
LEMMA ArchiveRemembers ==
  ASSUME Parameters, SafeInv, MemoryInv, Archive
  PROVE  MemoryInv'
<1>1. /\ pc = "archive" /\ archive' = archive \o Unstored(turn)
      /\ IF turn.mode = "close" THEN pc' = "bill" /\ settled' = settled
                                ELSE pc' = "finish" /\ settled' = settled \cup ToSet(turn.record)
      /\ UNCHANGED <<turn, hot, summary, billed, unbilled, suspended, jobs, created, turns, missed, befalls>>
  BY DEF Archive, bills, authors, counts
<1>2. /\ archive \in Seq(Made) /\ turn.record \in Seq(Made)
      /\ turn.mode \in {"new", "recover", "close"}
  <2>1. created \in Nat /\ turn \in Contexts(created)
    BY Reads
  <2>2. turn.mode \in {"none", "new", "recover", "close"} /\ turn.mode # "none"
    BY <1>1, <2>1, Fields DEF SafeInv, Placed, Persisting
  <2> QED
    BY <2>2, Reads
<1>3. turn.mode # "close" => ToSet(archive) \cup ToSet(turn.record) \subseteq ToSet(archive')
  <2>1. CASE turn.mode = "recover"
    <3>1. archive' = archive \o turn.record
      BY <1>1, <2>1 DEF Unstored
    <3> QED
      BY <3>1, <1>2, ConcatElements
  <2>2. CASE turn.mode = "new"
    <3>1. turn.record # << >> /\ turn.record[1] \in ToSet(archive)
      BY <1>1, <2>2 DEF SafeInv, Batch, Persisting
    <3>2. PICK u : u = Tail(turn.record)
      OBVIOUS
    <3>3. archive' = archive \o u
      BY <1>1, <2>2, <3>2 DEF Unstored
    <3>4. u \in Seq(Made) /\ ToSet(turn.record) = {turn.record[1]} \cup ToSet(u)
      BY <3>1, <3>2, <1>2, TailElements
    <3>5. ToSet(archive') = ToSet(archive) \cup ToSet(u)
      BY <3>3, <3>4, <1>2, ConcatElements
    <3> QED
      BY <3>1, <3>4, <3>5
  <2> QED
    BY <2>1, <2>2, <1>2
<1>4. Steady'
  BY <1>1 DEF MemoryInv, Steady, PlainHolds, Plain, NotSuspending
<1>5. HotIsWhole => befalls \cap {"expire", "hot_unread"} = {} \/ turn.mode = "new"
  BY <1>2 DEF MemoryInv, Steady, NotSuspending, HotIsWhole
<1>6. Remembers => HotIsWhole
  BY DEF Remembers
<1>7. ASSUME Remembers PROVE Kept' /\ Covered'
  <2>1. Covered' /\ ToSet(turn.record) \subseteq ToSet(hot)
    BY <1>1, <1>7 DEF MemoryInv, Memory, Covered, Gathering
  <2>2. Kept'
    BY <1>1, <1>3, <1>5, <1>6, <1>7, <2>1 DEF MemoryInv, Memory, Kept, Gathering
  <2> QED
    BY <2>1, <2>2
<1>8. ASSUME Remembers PROVE Knowing'
  <2> SUFFICES ASSUME ~Plain PROVE Knowing'
    BY <1>1 DEF Knowing, Plain
  <2>1. jobs = << >> /\ DOMAIN jobs = {} /\ turn.mode # "recover" /\ missed = {}
    <3>1. jobs = << >> /\ turn.mode # "recover" /\ missed = {}
      BY <1>1, <1>8, Compressing DEF MemoryInv, Memory, Knowing
    <3> QED
      BY <3>1
  <2>2. /\ ToSet(turn.keep) \subseteq ToSet(hot) /\ Knows(turn)
        /\ \A d \in suspended : Knows(d) /\ Matches(d, turn) /\ (turn.mode = "new" => d.record = turn.record)
    BY <1>1, <1>2, <1>8 DEF MemoryInv, Memory, Knowing, Gathering
  <2>3. Knows(turn)' /\ \A d \in suspended : Knows(d)'
    BY <1>1, <1>2, <2>1, <2>2 DEF Knows
  <2> QED
    BY <1>1, <2>1, <2>2, <2>3 DEF Knowing
<1>9. ASSUME HotIsWhole PROVE Recent'
  <2>1. ToSet(turn.record) \subseteq ToSet(hot) /\ Recents \subseteq ToSet(hot)
    BY <1>1, <1>9 DEF MemoryInv, Recent, Gathering
  <2>2. Recents' \subseteq Recents \cup ToSet(turn.record)
    BY <1>1 DEF Recents
  <2>3. befalls \cap {"expire", "hot_unread"} # {} => Recents' \subseteq ToSet(archive')
    <3> SUFFICES ASSUME befalls \cap {"expire", "hot_unread"} # {} PROVE Recents' \subseteq ToSet(archive')
      OBVIOUS
    <3>1. turn.mode = "new" /\ Recents \subseteq ToSet(archive)
      BY <1>5, <1>9 DEF MemoryInv, Recent
    <3> QED
      BY <3>1, <1>3, <2>2
  <2>4. pc' \in {"bill", "finish"}
    BY <1>1
  <2> QED
    BY <1>1, <1>9, <2>1, <2>2, <2>3, <2>4 DEF MemoryInv, Recent, Gathering
<1>10. ASSUME HotIsWhole PROVE Reloading'
  BY <1>1, <1>10 DEF MemoryInv, Reloading, Plain
<1> QED
  BY <1>1, <1>4, <1>7, <1>8, <1>9, <1>10 DEF MemoryInv, Memory, Remembers, HotIsWhole


\* The background task takes over what the turn knows.
LEMMA FinishRemembers ==
  ASSUME Parameters, SafeInv, MemoryInv, Finish
  PROVE  MemoryInv'
<1>1. PICK job : job = [stage |-> "bill", of |-> turn]
  OBVIOUS
<1>2. /\ pc = "finish" /\ jobs' = Append(jobs, job)
      /\ \/ turn.mode = "recover" /\ pc' = "delete" /\ turn' = turn
         \/ pc' = "idle" /\ turn' = NoTurn
      /\ UNCHANGED <<archive, hot, summary, billed, unbilled, settled, suspended, created, turns, missed, befalls>>
  BY <1>1 DEF Finish, stores, bills, authors, counts
<1>3. job.stage = "bill" /\ job.of = turn
  BY <1>1
<1>4. NoTurn.mode = "none" /\ NoTurn.needs = FALSE
  BY DEF NoTurn
<1>5. PICK last : last = Len(jobs) + 1
  OBVIOUS
<1>6. /\ DOMAIN jobs' = DOMAIN jobs \cup {last} /\ jobs'[last] = job
      /\ \A i \in DOMAIN jobs : jobs'[i] = jobs[i]
      /\ jobs = << >> => Len(jobs') = 1 /\ DOMAIN jobs' = {last}
  <2>1. created \in Nat /\ turn \in Contexts(created) /\ jobs \in Seq(Jobs(created))
    BY Reads DEF SafeInv, TypeInv
  <2>2. job \in Jobs(created)
    BY <1>1, <2>1 DEF Jobs
  <2>3. /\ Len(jobs') = Len(jobs) + 1 /\ jobs'[Len(jobs) + 1] = job /\ jobs' \in Seq(Jobs(created))
        /\ \A i \in 1..Len(jobs) : jobs'[i] = jobs[i]
    BY <1>2, <2>1, <2>2, AppendProperties
  <2>4. /\ DOMAIN jobs = 1..Len(jobs) /\ DOMAIN jobs' = 1..Len(jobs') /\ Len(jobs) \in Nat
        /\ jobs = << >> => Len(jobs) = 0
    BY <2>1, <2>3, LenProperties, EmptySeq
  <2> QED
    BY <2>3, <2>4, <1>5
<1>7. PlainHolds'
  <2> SUFFICES ASSUME Plain PROVE PlainHolds'
    BY <1>2 DEF PlainHolds, Plain
  <2>1. ~turn'.needs /\ ~turn.needs
    BY <1>2, <1>4 DEF MemoryInv, Steady, PlainHolds
  <2>2. \A i \in DOMAIN jobs' : jobs'[i].stage = "bill" /\ ~jobs'[i].of.needs
    BY <1>3, <1>6, <2>1 DEF MemoryInv, Steady, PlainHolds
  <2>3. pc' \notin {"summary", "reload"}
    BY <1>2
  <2> QED
    BY <1>2, <2>1, <2>2, <2>3 DEF MemoryInv, Steady, PlainHolds
<1>8. NotSuspending'
  BY <1>2, <1>4 DEF MemoryInv, Steady, NotSuspending
<1>9. ASSUME Remembers PROVE Kept' /\ Covered'
  BY <1>2, <1>9 DEF MemoryInv, Memory, Kept, Covered, Gathering
<1>10. ASSUME Remembers PROVE Knowing'
  <2> SUFFICES ASSUME ~Plain PROVE Knowing'
    BY <1>2 DEF Knowing, Plain
  <2>1. jobs = << >> /\ turn.mode # "recover" /\ turn.mode # "none" /\ missed = {}
    BY <1>2, <1>10, Compressing DEF SafeInv, Placed, MemoryInv, Memory, Knowing
  <2>2. pc' = "idle" /\ turn'.mode = "none"
    BY <1>2, <1>4, <2>1
  <2>3. /\ Knows(turn) /\ ToSet(turn.record) \subseteq ToSet(hot)
        /\ \A d \in suspended : Knows(d) /\ Matches(d, turn)
    BY <1>2, <1>10, <2>1 DEF MemoryInv, Memory, Knowing, Covered, Gathering
  <2>4. \A t : Knows(t) => Knows(t)'
    BY <1>2 DEF Knows
  <2>5. \A i \in DOMAIN jobs' : jobs'[i].of = turn /\ jobs'[i].stage = "bill"
    BY <1>3, <1>6, <2>1
  <2> QED
    BY <1>2, <1>6, <2>1, <2>2, <2>3, <2>4, <2>5 DEF Knowing, Knows, Gathering
<1>11. ASSUME HotIsWhole PROVE Recent'
  <2>1. Recents \subseteq ToSet(hot) /\ Recents' = Recents
    BY <1>2, <1>11 DEF MemoryInv, Recent, Recents, Gathering
  <2>2. pc' \in {"idle", "delete"} /\ turn'.mode # "close"
    BY <1>2, <1>4
  <2> QED
    BY <1>2, <1>11, <2>1, <2>2 DEF MemoryInv, Recent
<1>12. ASSUME HotIsWhole PROVE Reloading'
  <2>1. \A i \in DOMAIN jobs' : jobs'[i].stage = "reload" => \E j \in DOMAIN jobs : jobs[j].stage = "reload"
    BY <1>3, <1>6
  <2> QED
    BY <1>2, <1>12, <2>1 DEF MemoryInv, Reloading, Plain
<1> QED
  BY <1>2, <1>7, <1>8, <1>9, <1>10, <1>11, <1>12 DEF MemoryInv, Steady, Memory, Remembers, HotIsWhole

\* The closed chat is settled, and no suspended chat stays beside the new turn.
LEMMA DeleteRemembers ==
  ASSUME Parameters, SafeInv, MemoryInv, Delete
  PROVE  MemoryInv'
<1>1. /\ pc = "delete" /\ suspended' = {d \in suspended : d.doc # turn.doc}
      /\ IF turn.mode = "close"
           THEN pc' = "load" /\ turn' = [NoTurn EXCEPT !.mode = "new"]
                /\ settled' = settled \cup ToSet(turn.record)
           ELSE pc' = "idle" /\ turn' = NoTurn /\ settled' = settled
      /\ UNCHANGED <<archive, hot, summary, billed, unbilled, jobs, created, turns, missed, befalls>>
  BY DEF Delete, bills, authors, counts
<1>2. PICK mode : mode = IF turn.mode = "close" THEN "new" ELSE "none"
  OBVIOUS
<1>3. turn'.mode = mode /\ turn'.needs = FALSE
  <2>1. created \in Nat
    BY Reads
  <2>2. turn' = Context(mode, 0, << >>, {}, {}, << >>, {}, FALSE)
    BY <2>1, <1>1, <1>2, Fresh
  <2> QED
    BY <2>2 DEF Context
<1>4. turn.mode \in {"recover", "close"} /\ "suspend" \in befalls
  <2>1. turn.mode \in {"recover", "close"}
    BY <1>1 DEF SafeInv, Placed
  <2> QED
    BY <2>1 DEF MemoryInv, Steady, NotSuspending
<1>5. Steady'
  BY <1>1, <1>2, <1>3, <1>4 DEF MemoryInv, Steady, PlainHolds, Plain, NotSuspending
<1>6. HotIsWhole => befalls \cap {"expire", "hot_unread"} = {}
  BY <1>4 DEF HotIsWhole
<1>7. Remembers => HotIsWhole
  BY DEF Remembers
<1>8. ASSUME Remembers PROVE Kept' /\ Covered'
  BY <1>1, <1>6, <1>7, <1>8 DEF MemoryInv, Memory, Kept, Covered, Gathering
<1>9. ASSUME Remembers PROVE Knowing'
  <2> SUFFICES ASSUME ~Plain PROVE Knowing'
    BY <1>1 DEF Knowing, Plain
  <2>1. jobs = << >> /\ turn.mode # "recover" /\ "recover" \notin befalls /\ missed = {}
    BY <1>1, <1>9, Compressing DEF MemoryInv, Memory, Knowing
  <2>2. turn.mode = "close"
    BY <1>4, <2>1
  <2>3. suspended' = {}
    BY <1>1, <2>1, <2>2 DEF SafeInv, DocsLeft
  <2>4. DOMAIN jobs = {}
    BY <2>1
  <2> QED
    BY <1>1, <2>1, <2>2, <2>3, <2>4 DEF Knowing, Gathering
<1>10. ASSUME HotIsWhole PROVE Recent'
  <2>1. Recents \subseteq ToSet(hot) /\ (turn.mode = "close" => ToSet(turn.record) \subseteq ToSet(hot))
    BY <1>1, <1>10 DEF MemoryInv, Recent, Gathering
  <2>2. Recents' \subseteq ToSet(hot')
    BY <1>1, <2>1 DEF Recents
  <2>3. pc' \in {"load", "idle"}
    BY <1>1
  <2> QED
    BY <1>1, <1>6, <1>10, <2>2, <2>3 DEF MemoryInv, Recent
<1>11. ASSUME HotIsWhole PROVE Reloading'
  <2>1. ~Plain /\ jobs # << >> => turn.mode = "recover"
    BY <1>1, <1>11 DEF MemoryInv, Reloading
  <2>2. pc' = "idle" \/ turn.mode = "close"
    BY <1>1
  <2> QED
    BY <1>1, <1>11, <2>1, <2>2 DEF MemoryInv, Reloading, Plain
<1> QED
  BY <1>1, <1>5, <1>8, <1>9, <1>10, <1>11 DEF MemoryInv, Memory, Remembers, HotIsWhole


-----------------------------------------------------------------------------
(* Memory: compression, and what befalls the session                        *)

\* A compression that knows what was persisted moves it to the summary or keeps it.
LEMMA CompressionRemembers ==
  ASSUME Parameters, SafeInv, MemoryInv, Remembers, ~Plain,
         NEW t \in Contexts(created), NEW s, NEW next, Complete(t, s, next),
         Knows(t), ToSet(t.record) \subseteq ToSet(hot),
         s = "reload" => summary.covers = t.existing \cup t.cands
  PROVE  /\ settled \subseteq ToSet(hot') \cup summary'.covers /\ hot' # << >>
         /\ ToSet(t.keep) \cup ToSet(t.record) \subseteq ToSet(hot')
         /\ next = "reload" => summary'.covers = t.existing \cup t.cands
<1>1. created \in Nat /\ hot \in Seq(Made) /\ t.record \in Seq(Made) /\ t.keep \in Seq(Made)
  BY Reads, Fields DEF Made
<1>2. hot # << >> /\ settled \subseteq ToSet(hot) \cup summary.covers
  BY Compressing DEF MemoryInv, Memory, Kept
<1>3. /\ settled \subseteq ToSet(t.keep) \cup t.cands \cup t.existing \cup ToSet(t.record)
      /\ ToSet(t.keep) \subseteq ToSet(hot)
  BY DEF Knows
<1>4. CASE Bill(t, s, next)
  <2>1. UNCHANGED <<hot, summary>> /\ next # "reload"
    BY <1>4 DEF Bill
  <2> QED
    BY <1>2, <1>3, <2>1
<1>5. CASE Summarise(t, s, next)
  <2>1. hot' = hot
    BY <1>5 DEF Summarise
  <2>2. CASE summary' = Merged(t)
    <3>1. summary'.covers = t.existing \cup t.cands
      BY <2>2 DEF Merged
    <3> QED
      BY <2>1, <3>1, <1>2, <1>3
  <2>3. CASE summary' # Merged(t)
    <3>1. summary' = summary /\ next = "delete"
      BY <2>3, <1>5 DEF Summarise, Remembers, HotIsWhole
    <3> QED
      BY <2>1, <3>1, <1>2, <1>3
  <2> QED
    BY <2>2, <2>3
<1>6. CASE Reload(t, s, next)
  <2>1. PICK all : all = t.keep \o t.record
    OBVIOUS
  <2>2. all \in Seq(Made) /\ ToSet(all) = ToSet(t.keep) \cup ToSet(t.record)
    BY <2>1, <1>1, ConcatElements, ConcatProperties
  <2>3. /\ hot' = IF all = << >> THEN hot ELSE all
        /\ summary' = summary /\ summary.covers = t.existing \cup t.cands /\ next = "delete"
    BY <2>1, <1>6 DEF Reload, Reloaded
  <2>4. ToSet(t.keep) \cup ToSet(t.record) \subseteq ToSet(hot') /\ hot' # << >>
    BY <2>2, <2>3, <1>2, <1>3
  <2> QED
    BY <2>3, <2>4, <1>3
<1> QED
  BY <1>4, <1>5, <1>6 DEF Complete

\* Where the hot context is complete or gone, a compression hides nothing that was persisted
\* after its summary: the summary is the newest thing there is when it replaces that context.
LEMMA CompressionHidesNothing ==
  ASSUME Parameters, SafeInv, HotIsWhole,
         NEW t \in Contexts(created), NEW s, NEW next, Complete(t, s, next),
         s = "reload" => summary.at = created
  PROVE  /\ {n \in settled : n > summary'.at} \subseteq Recents
         /\ hot' = hot \/ ({n \in settled : n > summary'.at} = {} /\ ToSet(t.record) \subseteq ToSet(hot'))
         /\ hot # << >> => hot' # << >>
         /\ next = "reload" => summary'.at = created
         /\ s = "reload" \/ hot' = hot
         /\ summary' = summary \/ summary'.at = created
<1>1. /\ created \in Nat /\ hot \in Seq(Made) /\ t.record \in Seq(Made) /\ t.keep \in Seq(Made)
      /\ settled \subseteq 1..created /\ summary.at \in Nat
  BY Reads, Fields DEF SafeInv, TypeInv, Made
<1>2. \A n \in settled : ~(n > created)
  BY <1>1
<1>3. CASE Bill(t, s, next)
  <2>1. UNCHANGED <<hot, summary>> /\ next # "reload"
    BY <1>3 DEF Bill
  <2> QED
    BY <2>1 DEF Recents
<1>4. CASE Summarise(t, s, next)
  <2>1. hot' = hot
    BY <1>4 DEF Summarise
  <2>2. CASE summary' = Merged(t)
    <3>1. summary'.at = created
      BY <2>2 DEF Merged
    <3> QED
      BY <2>1, <3>1, <1>2
  <2>3. CASE summary' # Merged(t)
    <3>1. summary' = summary /\ next = "delete"
      BY <2>3, <1>4 DEF Summarise, HotIsWhole
    <3> QED
      BY <2>1, <3>1 DEF Recents
  <2> QED
    BY <2>2, <2>3
<1>5. CASE Reload(t, s, next)
  <2>1. PICK all : all = t.keep \o t.record
    OBVIOUS
  <2>2. all \in Seq(Made) /\ ToSet(all) = ToSet(t.keep) \cup ToSet(t.record)
    BY <2>1, <1>1, ConcatElements, ConcatProperties
  <2>3. /\ hot' = IF all = << >> THEN hot ELSE all
        /\ summary' = summary /\ summary.at = created /\ next = "delete" /\ s = "reload"
    BY <2>1, <1>5 DEF Reload, Reloaded
  <2>4. {n \in settled : n > summary'.at} = {}
    BY <2>3, <1>2
  <2>5. ToSet(t.record) \subseteq ToSet(hot') /\ (hot # << >> => hot' # << >>)
    <3>1. all = << >> => ToSet(all) = {}
      BY <2>2, Elements
    <3> QED
      BY <3>1, <2>2, <2>3
  <2> QED
    BY <2>3, <2>4, <2>5
<1> QED
  BY <1>3, <1>4, <1>5 DEF Complete

\* Without compression the completion of a turn is its bill.
LEMMA PlainBill ==
  ASSUME NEW t, NEW s, NEW next, Complete(t, s, next), ~t.needs, s \notin {"summary", "reload"}
  PROVE  next = "delete" /\ hot' = hot /\ summary' = summary
BY DEF Complete, Bill, Summarise, Reload

\* A closed chat is compressed before the new turn reads.
LEMMA CloseUnfinishedRemembers ==
  ASSUME Parameters, SafeInv, MemoryInv, CloseUnfinished
  PROVE  MemoryInv'
<1>1. /\ Complete(turn, pc, pc')
      /\ UNCHANGED <<turn, archive, settled, suspended, jobs, created, turns, missed, befalls>>
  BY DEF CloseUnfinished, authors, counts
<1>2. TypeInv /\ created \in Nat /\ turn \in Contexts(created)
  BY Reads DEF SafeInv
<1>3. pc \in {"bill", "summary", "reload"} /\ pc' \in {"summary", "reload", "delete"}
  BY <1>1, <1>2, CompleteTyped
<1>4. turn.mode = "close" /\ "suspend" \in befalls
  BY <1>3 DEF SafeInv, Placed, MemoryInv, Steady, NotSuspending
<1>5. HotIsWhole => befalls \cap {"expire", "hot_unread"} = {}
  BY <1>4 DEF HotIsWhole
<1>6. Plain => pc' = "delete" /\ hot' = hot /\ summary' = summary
  BY <1>1, <1>3, PlainBill DEF MemoryInv, Steady, PlainHolds
<1>7. Steady'
  BY <1>1, <1>3, <1>4, <1>6 DEF MemoryInv, Steady, PlainHolds, NotSuspending, Plain
<1>8. Remembers => HotIsWhole
  BY DEF Remembers
<1>9. ASSUME Remembers PROVE Memory'
  <2>1. Memory /\ ToSet(turn.record) \subseteq ToSet(hot) /\ "expire" \notin befalls
        /\ befalls \cap {"expire", "hot_unread"} = {}
    BY <1>3, <1>5, <1>8, <1>9 DEF MemoryInv, Memory, Covered, Gathering
  <2>2. CASE Plain
    BY <1>1, <1>3, <1>4, <1>6, <2>1, <2>2 DEF Memory, Kept, Covered, Knowing, Plain, Gathering
  <2>3. CASE ~Plain
    <3>1. Knows(turn) /\ (pc = "reload" => summary.covers = turn.existing \cup turn.cands) /\ missed = {}
      BY <1>3, <2>1, <2>3 DEF Memory, Knowing, Gathering
    <3>2. /\ settled \subseteq ToSet(hot') \cup summary'.covers /\ hot' # << >>
          /\ ToSet(turn.keep) \cup ToSet(turn.record) \subseteq ToSet(hot')
          /\ pc' = "reload" => summary'.covers = turn.existing \cup turn.cands
      BY <1>1, <1>2, <1>9, <2>1, <2>3, <3>1, CompressionRemembers
    <3>3. Kept' /\ Covered'
      BY <1>1, <1>3, <1>4, <2>1, <3>2 DEF Kept, Covered, Gathering
    <3>4. jobs = << >> /\ DOMAIN jobs = {}
      <4>1. jobs = << >>
        BY <1>3, <1>9, <2>3, Compressing
      <4> QED
        BY <4>1
    <3>5. \A d \in suspended : Knows(d) /\ Matches(d, turn)
      BY <1>4, <2>1, <2>3 DEF Memory, Knowing
    <3>6. Knows(turn)' /\ \A d \in suspended : Knows(d)'
      BY <1>1, <3>1, <3>2, <3>5 DEF Knows, Matches
    <3>7. Knowing'
      BY <1>1, <1>4, <3>1, <3>2, <3>4, <3>5, <3>6 DEF Knowing
    <3> QED
      BY <3>3, <3>7 DEF Memory
  <2> QED
    BY <2>2, <2>3
<1>10. ASSUME HotIsWhole PROVE Recent' /\ Reloading'
  <2>1. Recent /\ Reloading /\ befalls \cap {"expire", "hot_unread"} = {}
    BY <1>5, <1>10 DEF MemoryInv
  <2>2. Recents \subseteq ToSet(hot) /\ ToSet(turn.record) \subseteq ToSet(hot) /\ hot # << >>
    BY <1>3, <1>4, <2>1 DEF Recent
  <2>3. pc = "reload" => summary.at = created
    BY <2>1 DEF Reloading
  <2>4. /\ {n \in settled : n > summary'.at} \subseteq Recents
        /\ hot' = hot \/ ({n \in settled : n > summary'.at} = {} /\ ToSet(turn.record) \subseteq ToSet(hot'))
        /\ hot # << >> => hot' # << >>
        /\ pc' = "reload" => summary'.at = created
        /\ summary' = summary \/ summary'.at = created
    BY <1>1, <1>2, <1>10, <2>3, CompressionHidesNothing
  <2>5. Recents' = {n \in settled : n > summary'.at}
    BY <1>1 DEF Recents
  <2>6. Recents' \subseteq ToSet(hot') /\ ToSet(turn.record) \subseteq ToSet(hot') /\ hot' # << >>
    BY <2>2, <2>4, <2>5
  <2>7. Recent'
    BY <1>1, <1>3, <2>1, <2>6 DEF Recent
  <2>8. Reloading'
    BY <1>1, <1>3, <1>4, <2>1, <2>4 DEF Reloading, Plain
  <2> QED
    BY <2>7, <2>8
<1> QED
  BY <1>1, <1>7, <1>9, <1>10 DEF MemoryInv, Remembers, HotIsWhole

\* With compression at most one task is behind the session, and no turn before it.
LEMMA BackgroundRemembers ==
  ASSUME Parameters, SafeInv, MemoryInv, Background
  PROVE  MemoryInv'
<1>1. PICK i \in DOMAIN jobs, next \in {"summary", "reload", "delete"} :
        /\ Complete(jobs[i].of, jobs[i].stage, next)
        /\ jobs' = After(i, next)
  BY DEF Background, After
<1>2. UNCHANGED <<pc, turn, archive, settled, suspended, created, turns, missed, befalls>>
  BY DEF Background, authors, counts
<1>3. jobs \in Seq(Jobs(created)) /\ created \in Nat /\ TypeInv
  BY Reads DEF SafeInv, TypeInv
<1>4. PICK t, s : jobs[i] = [of |-> t, stage |-> s]
  <2>1. jobs[i] \in Jobs(created)
    BY <1>3, LenProperties
  <2> QED
    BY <2>1 DEF Jobs
<1>5. /\ jobs[i].of = t /\ jobs[i].stage = s /\ t \in Contexts(created) /\ Complete(t, s, next)
  <2>1. jobs[i] \in Jobs(created) /\ jobs[i].of = t /\ jobs[i].stage = s
    BY <1>3, <1>4, LenProperties
  <2> QED
    BY <2>1, <1>1 DEF Jobs
<1>6. PICK was \in [DOMAIN jobs' -> DOMAIN jobs] :
        /\ \A k \in DOMAIN jobs' :
             /\ jobs'[k].of = jobs[was[k]].of
             /\ was[k] # i => jobs'[k] = jobs[was[k]]
             /\ was[k] = i => next # "delete" /\ jobs'[k] = [jobs[i] EXCEPT !.stage = next]
        /\ \A k, m \in DOMAIN jobs' : was[k] = was[m] => k = m
        /\ \A m \in DOMAIN jobs : m # i => \E k \in DOMAIN jobs' : jobs'[k] = jobs[m]
  BY <1>1, <1>3, TasksAfter, Zenon
<1>7. jobs # << >>
  BY <1>1
<1>8. Plain => next = "delete" /\ hot' = hot /\ summary' = summary
  BY <1>5, PlainBill DEF MemoryInv, Steady, PlainHolds
<1>9. Steady'
  <2>1. NotSuspending'
    BY <1>2 DEF MemoryInv, Steady, NotSuspending
  <2>2. ASSUME Plain PROVE PlainHolds'
    <3>1. \A k \in DOMAIN jobs' : was[k] \in DOMAIN jobs /\ jobs'[k] = jobs[was[k]]
      BY <1>6, <1>8, <2>2
    <3> QED
      BY <1>2, <1>8, <2>2, <3>1 DEF MemoryInv, Steady, PlainHolds, Plain
  <2>3. ~Plain => PlainHolds'
    BY <1>2 DEF PlainHolds, Plain
  <2> QED
    BY <2>1, <2>2, <2>3 DEF Steady
<1>10. ASSUME Remembers PROVE Memory'
  <2>1. Memory
    BY <1>10 DEF MemoryInv
  <2>2. CASE Plain
    BY <1>2, <1>8, <2>1, <2>2 DEF Memory, Kept, Covered, Knowing, Plain
  <2>3. CASE ~Plain
    <3>1. /\ pc = "idle" /\ Len(jobs) = 1 /\ turn.mode = "none" /\ missed = {}
          /\ befalls \cap {"expire", "hot_unread"} = {}
          /\ Knows(t) /\ ToSet(t.record) \subseteq ToSet(hot)
          /\ s = "reload" => summary.covers = t.existing \cup t.cands
          /\ \A d \in suspended : Knows(d) /\ Matches(d, t)
      <4>1. pc = "idle" /\ Len(jobs) = 1 /\ missed = {} /\ befalls \cap {"expire", "hot_unread"} = {}
        BY <1>7, <1>10, <2>1, <2>3, Compressing DEF Memory, Knowing
      <4>2. turn.mode = "none"
        BY <4>1 DEF SafeInv, Placed, NoTurn
      <4> QED
        BY <4>1, <4>2, <1>5, <2>1, <2>3 DEF Memory, Knowing
    <3>2. /\ settled \subseteq ToSet(hot') \cup summary'.covers /\ hot' # << >>
          /\ ToSet(t.keep) \cup ToSet(t.record) \subseteq ToSet(hot')
          /\ next = "reload" => summary'.covers = t.existing \cup t.cands
      BY <1>5, <1>10, <2>3, <3>1, CompressionRemembers
    <3>3. Kept' /\ Covered'
      BY <1>2, <3>1, <3>2 DEF Kept, Covered, Gathering
    <3>4. Knows(t)' /\ \A d \in suspended : Knows(d)'
      BY <1>2, <3>1, <3>2 DEF Knows, Matches
    <3>5. /\ \A k \in DOMAIN jobs' : jobs'[k].of = t /\ jobs'[k].stage = next /\ next # "delete"
          /\ jobs' # << >> => Len(jobs') = 1
      <4>1. DOMAIN jobs = {1} /\ i = 1
        BY <1>1, <1>3, <3>1, LenProperties
      <4>2. \A k \in DOMAIN jobs' : was[k] = i
        BY <4>1, <1>6
      <4>3. [jobs[i] EXCEPT !.stage = next] = [of |-> t, stage |-> next]
        BY <1>4
      <4>4. ASSUME NEW k \in DOMAIN jobs'
            PROVE  jobs'[k].of = t /\ jobs'[k].stage = next /\ next # "delete"
        <5>1. jobs'[k] = [jobs[i] EXCEPT !.stage = next] /\ next # "delete"
          BY <4>2, <1>6
        <5>2. jobs'[k] = [of |-> t, stage |-> next]
          BY <4>3, <5>1, Zenon
        <5> QED
          BY <5>1, <5>2
      <4>5. Len(jobs') \in Nat /\ DOMAIN jobs' = 1..Len(jobs') /\ (Len(jobs') = 0 => jobs' = << >>)
        <5>1. jobs' \in Seq(Jobs(created'))
          BY <1>3, StepSafe DEF SafeInv, TypeInv, StoresNext
        <5> QED
          BY <5>1, LenProperties, EmptySeq
      <4>6. Len(jobs') <= 1
        <5>1. \A k, m \in DOMAIN jobs' : k = m
          BY <4>2, <1>6
        <5>2. Len(jobs') > 1 => 1 \in DOMAIN jobs' /\ 2 \in DOMAIN jobs'
          BY <4>5
        <5> QED
          BY <5>1, <5>2, <4>5
      <4> QED
        BY <4>4, <4>5, <4>6
    <3>6. Knowing'
      BY <1>2, <3>1, <3>2, <3>4, <3>5 DEF Knowing, Knows, Gathering
    <3> QED
      BY <3>3, <3>6 DEF Memory
  <2> QED
    BY <2>2, <2>3
<1>11. ASSUME HotIsWhole PROVE Recent' /\ Reloading'
  <2>1. Recent /\ Reloading
    BY <1>11 DEF MemoryInv
  <2>2. CASE Plain
    <3>1. \A k \in DOMAIN jobs' : was[k] \in DOMAIN jobs /\ jobs'[k] = jobs[was[k]]
      BY <1>6, <1>8, <2>2
    <3>2. Recent'
      BY <1>2, <1>8, <2>1, <2>2 DEF Recent, Recents
    <3>3. Reloading'
      BY <1>2, <1>8, <2>1, <2>2, <3>1 DEF Reloading, Plain
    <3> QED
      BY <3>2, <3>3
  <2>3. CASE ~Plain
    <3>1. pc = "idle" \/ (pc = "delete" /\ turn.mode = "recover")
      BY <1>7, <2>1, <2>3 DEF Reloading
    <3>2. s = "reload" => summary.at = created
      BY <1>5, <2>1 DEF Reloading
    <3>3. /\ {n \in settled : n > summary'.at} \subseteq Recents
          /\ hot' = hot \/ {n \in settled : n > summary'.at} = {}
          /\ hot # << >> => hot' # << >>
          /\ next = "reload" => summary'.at = created
          /\ summary' = summary \/ summary'.at = created
      BY <1>5, <1>11, <3>2, CompressionHidesNothing
    <3>4. Recents' = {n \in settled : n > summary'.at}
      BY <1>2 DEF Recents
    <3>5. Recents' \subseteq Recents /\ (hot' = hot \/ Recents' = {})
      BY <3>3, <3>4
    <3>6. Recent'
      BY <1>2, <2>1, <3>1, <3>3, <3>5 DEF Recent
    <3>7. \A k \in DOMAIN jobs' : jobs'[k].stage = "reload" => summary'.at = created
      <4>1. SUFFICES ASSUME NEW k \in DOMAIN jobs', jobs'[k].stage = "reload" PROVE summary'.at = created
        OBVIOUS
      <4>2. CASE was[k] = i
        <5>1. jobs'[k] = [jobs[i] EXCEPT !.stage = next]
          BY <4>2, <1>6
        <5>2. jobs'[k] = [of |-> t, stage |-> next]
          BY <5>1, <1>4
        <5> QED
          BY <4>1, <5>2, <3>3
      <4>3. CASE was[k] # i
        <5>1. was[k] \in DOMAIN jobs /\ jobs[was[k]].stage = "reload"
          BY <4>1, <4>3, <1>6
        <5> QED
          BY <5>1, <2>1, <3>3 DEF Reloading
      <4> QED
        BY <4>2, <4>3
    <3>8. Reloading'
      BY <1>2, <3>1, <3>7 DEF Reloading, Plain
    <3> QED
      BY <3>6, <3>8
  <2> QED
    BY <2>2, <2>3
<1> QED
  BY <1>2, <1>9, <1>10, <1>11 DEF MemoryInv, Remembers, HotIsWhole


\* What is lost or expires was either not persisted yet or is in the archive.
LEMMA MishapsRemember ==
  ASSUME Parameters, SafeInv, MemoryInv,
         RunLost \/ JobLost \/ Expire \/ UNCHANGED storesVars
  PROVE  MemoryInv'
<1>1. NoTurn.mode = "none" /\ NoTurn.needs = FALSE
  BY DEF NoTurn
<1>2. CASE RunLost
  <2>1. /\ pc # "idle" /\ pc' = "idle" /\ turn' = NoTurn
        /\ UNCHANGED <<archive, hot, summary, billed, unbilled, settled, suspended, jobs, created, turns, missed, befalls>>
    BY <1>2 DEF RunLost, stores, bills, authors
  <2>2. Steady'
    BY <1>1, <2>1 DEF MemoryInv, Steady, PlainHolds, Plain, NotSuspending
  <2>3. ASSUME Remembers PROVE Kept' /\ Covered'
    BY <1>1, <2>1, <2>3 DEF MemoryInv, Memory, Kept, Covered, Gathering
  <2>4. ASSUME Remembers PROVE Knowing'
    <3> SUFFICES ASSUME ~Plain PROVE Knowing'
      BY <2>1 DEF Knowing, Plain
    <3>1. jobs = << >> /\ missed = {}
      BY <2>1, <2>4, Compressing DEF MemoryInv, Memory, Knowing
    <3>2. DOMAIN jobs = {}
      BY <3>1
    <3>3. \A d \in suspended : Knows(d)'
      BY <2>1, <2>4 DEF MemoryInv, Memory, Knowing, Knows
    <3> QED
      BY <1>1, <2>1, <3>1, <3>2, <3>3 DEF Knowing, Gathering
  <2>5. ASSUME HotIsWhole PROVE Recent'
    BY <1>1, <2>1, <2>5 DEF MemoryInv, Recent, Recents, Gathering
  <2>6. ASSUME HotIsWhole PROVE Reloading'
    BY <2>1, <2>6 DEF MemoryInv, Reloading, Plain
  <2> QED
    BY <2>1, <2>2, <2>3, <2>4, <2>5, <2>6 DEF MemoryInv, Memory, Remembers, HotIsWhole
<1>3. CASE JobLost
  <2>1. /\ UNCHANGED <<pc, turn, archive, hot, summary, billed, unbilled, settled, suspended, created, turns, missed, befalls>>
        /\ \E i \in DOMAIN jobs : jobs' = RemoveAt(jobs, i)
    BY <1>3 DEF JobLost, stores, bills, authors
  <2>2. PICK i \in DOMAIN jobs : jobs' = RemoveAt(jobs, i)
    BY <2>1
  <2>3. jobs \in Seq(Jobs(created)) /\ jobs # << >>
    BY <2>2 DEF SafeInv, TypeInv
  <2>4. /\ jobs' \in Seq(Jobs(created)) /\ Len(jobs') = Len(jobs) - 1
        /\ \A k \in DOMAIN jobs' : \E m \in DOMAIN jobs : jobs'[k] = jobs[m]
    <3>1. /\ jobs' \in Seq(Jobs(created)) /\ Len(jobs') = Len(jobs) - 1
          /\ \A k \in DOMAIN jobs' : /\ (IF k < i THEN k ELSE k + 1) \in DOMAIN jobs \ {i}
                                     /\ jobs'[k] = jobs[IF k < i THEN k ELSE k + 1]
      BY <2>2, <2>3, Removed
    <3> QED
      BY <3>1
  <2>5. Steady'
    BY <2>1, <2>4 DEF MemoryInv, Steady, PlainHolds, Plain, NotSuspending
  <2>6. ASSUME Remembers PROVE Kept' /\ Covered'
    BY <2>1, <2>6 DEF MemoryInv, Memory, Kept, Covered
  <2>7. ASSUME Remembers PROVE Knowing'
    <3> SUFFICES ASSUME ~Plain PROVE Knowing'
      BY <2>1 DEF Knowing, Plain
    <3>1. Memory
      BY <2>7 DEF MemoryInv
    <3>2. jobs' = << >>
      BY <2>3, <2>4, <3>1, EmptySeq, SMTT(30) DEF Memory, Knowing
    <3>3. DOMAIN jobs' = {}
      BY <3>2
    <3>4. \A t : Knows(t) <=> Knows(t)'
      BY <2>1 DEF Knows
    <3> QED
      BY <2>1, <3>1, <3>2, <3>3, <3>4 DEF Memory, Knowing, Knows
  <2>8. ASSUME HotIsWhole PROVE Recent'
    BY <2>1, <2>8 DEF MemoryInv, Recent, Recents
  <2>9. ASSUME HotIsWhole PROVE Reloading'
    BY <2>1, <2>3, <2>4, <2>9 DEF MemoryInv, Reloading, Plain
  <2> QED
    BY <2>1, <2>5, <2>6, <2>7, <2>8, <2>9 DEF MemoryInv, Memory, Remembers, HotIsWhole
<1>4. CASE Expire
  <2>1. /\ pc = "idle" /\ hot' = << >> /\ "expire" \in befalls
        /\ UNCHANGED <<pc, turn, archive, summary, billed, unbilled, settled, suspended, jobs, created, turns, missed, befalls>>
    BY <1>4 DEF Expire, bills, authors, counts
  <2>2. Steady'
    BY <2>1 DEF MemoryInv, Steady, PlainHolds, Plain, NotSuspending
  <2>3. ASSUME Remembers PROVE Kept' /\ Covered' /\ Knowing'
    <3>1. Plain
      BY <2>1, <2>3 DEF Remembers, Plain
    <3> QED
      BY <2>1, <2>3, <3>1 DEF MemoryInv, Memory, Kept, Covered, Knowing, Plain, Gathering
  <2>4. ASSUME HotIsWhole PROVE Recent' /\ Reloading'
    <3>1. Recent'
      BY <2>1, <2>4 DEF MemoryInv, Recent, Recents, Gathering
    <3>2. Reloading'
      BY <2>1, <2>4 DEF MemoryInv, Reloading, Plain
    <3> QED
      BY <3>1, <3>2
  <2> QED
    BY <2>1, <2>2, <2>3, <2>4 DEF MemoryInv, Memory, Remembers, HotIsWhole
<1>5. CASE UNCHANGED storesVars
  <2>1. UNCHANGED <<pc, turn, archive, hot, summary, settled, suspended, jobs, created, turns, missed, befalls>>
    BY <1>5 DEF storesVars
  <2>2. Steady'
    BY <2>1 DEF MemoryInv, Steady, PlainHolds, Plain, NotSuspending
  <2>3. ASSUME Remembers PROVE Kept' /\ Covered' /\ Knowing'
    BY <2>1, <2>3 DEF MemoryInv, Memory, Kept, Covered, Knowing, Knows, Plain, Gathering
  <2>4. ASSUME HotIsWhole PROVE Recent' /\ Reloading'
    BY <2>1, <2>4 DEF MemoryInv, Recent, Recents, Reloading, Plain, Gathering
  <2> QED
    BY <2>1, <2>2, <2>3, <2>4 DEF MemoryInv, Memory, Remembers, HotIsWhole
<1> QED
  BY <1>2, <1>3, <1>4, <1>5

\* A session with one earlier turn remembers it.
LEMMA InitRemembers ==
  ASSUME Parameters, StoresInit
  PROVE  MemoryInv
<1>1. /\ pc = "idle" /\ turn = NoTurn /\ archive = <<1, 2>> /\ hot = <<1, 2>> /\ missed = {}
      /\ summary = [covers |-> {}, at |-> 0] /\ suspended = {} /\ jobs = << >> /\ settled = {1, 2}
  BY DEF StoresInit
<1>2. turn.mode = "none" /\ turn.needs = FALSE
  BY <1>1 DEF NoTurn
<1>3. DOMAIN jobs = {}
  BY <1>1
<1>4. ToSet(hot) = {1, 2} /\ ToSet(archive) = {1, 2}
  BY <1>1 DEF ToSet
<1>5. Steady /\ Kept /\ Covered /\ Knowing
  BY <1>1, <1>2, <1>3, <1>4 DEF Steady, PlainHolds, NotSuspending, Kept, Covered, Knowing, Gathering
<1>6. Recent /\ Reloading
  BY <1>1, <1>2, <1>3, <1>4 DEF Recent, Recents, Reloading
<1> QED
  BY <1>5, <1>6 DEF MemoryInv, Memory

\* No step of a session breaks what it remembers.
LEMMA StepRemembers ==
  ASSUME Parameters, SafeInv, MemoryInv, [StoresNext]_storesVars
  PROVE  MemoryInv'
BY NewTurnRemembers, RecoverRemembers, LoadRemembers, RefillRemembers, RecallRemembers,
   PersistUserRemembers, AnswerRemembers, NoAnswerRemembers, AppendHotRemembers, ArchiveRemembers,
   FinishRemembers, DeleteRemembers, CloseUnfinishedRemembers, BackgroundRemembers, MishapsRemember
   DEF StoresNext

\* The prompt of a new turn holds every message of the persisted turns, as it is or through the
\* summary, and those that are newer than the summary as they are, in the sessions in which
\* the hot context is complete or gone (handle_new_chat_start).
THEOREM NothingIsForgotten ==
  ASSUME Parameters
  PROVE  StoresSpec => []NothingForgotten
<1>1. StoresInit => SafeInv /\ MemoryInv
  BY InitSafe, InitRemembers
<1>2. SafeInv /\ MemoryInv /\ [StoresNext]_storesVars => SafeInv' /\ MemoryInv'
  BY StepSafe, StepRemembers
<1>3. SafeInv /\ MemoryInv => NothingForgotten
  BY DEF MemoryInv, Memory, Covered, Recent, NothingForgotten, Prompted
<1> QED
  BY <1>1, <1>2, <1>3, PTL DEF StoresSpec


=============================================================================
