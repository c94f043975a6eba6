---------------------------- MODULE WorkspaceProofs ----------------------------
(***************************************************************************)
(* What the workspaces guarantee for any requests, sessions and boxes, and   *)
(* the file tools for any calls, files, attachments and failures.            *)
(***************************************************************************)
EXTENDS Workspace, WorkspaceFiles, FiniteSetTheorems, SequenceTheorems, NaturalsInduction,
        WellFoundedInduction, TLAPS

-----------------------------------------------------------------------------
(* The inductive invariant.                                                 *)

Busy(r) == req[r].at \notin Ended \cup {"new"}

\* Box -> the requests that registered as active in it and have not unregistered yet.
Registered ==
  [b \in Boxes |-> {r \in Requests : req[r].at \in {"work", "unregister"} /\ req[r].back = b}]

\* Every mark of session s that was reported is among the marks F.
Kept(s, F) == \A r \in acked : Session[r] = s => r \in F

\* While a request is between the look at an empty binding and the assignment, the box
\* another one may have been given is not taken back: it was active just now.
BindInv ==
  /\ \A b, c \in Bound : b = c
  /\ \A r \in Requests : req[r].at = "assign" \/ (req[r].at = "find" /\ req[r].box = NoBox) =>
       \A b \in Bound : state[b] = "USER_ACTIVE" /\ b \notin idle

\* Behaviours in which only restarts befall the workspaces.
OnlyRestarts == happens \subseteq {"restart"}

\* One request of a session at a time, and all of them commands.
TurnsInv ==
  /\ \A r \in Requests : req[r].kind = "command"
  /\ \A q, r \in Requests : q # r /\ Session[q] = Session[r] => ~Busy(q) \/ ~Busy(r)

\* A session has one workspace, which is in a box that was the user's at some time.
NamesInv ==
  /\ \A s \in Sessions : latest[s] # NoOne =>
       Session[latest[s]] = s /\ sandbox[latest[s]] \in Boxes /\ state[sandbox[latest[s]]] # "READY"
  /\ \A w \in Requests : sandbox[w] # NoBox => latest[Session[w]] = w

\* Only containers of released boxes are gone, and the counter of the user's box is exact.
CountInv ==
  /\ \A b \in Boxes : b \notin alive => state[b] = "DESTROYING"
  /\ \A b \in Boxes : IsFiniteSet(Registered[b])
  /\ \A b \in Boxes : state[b] = "USER_ACTIVE" => count[b] = Cardinality(Registered[b])

Way    == {"find", "assign", "again", "restore", "mkdir", "attach"}
Inside == {"lease", "register", "work", "unregister"}

\* Request r on its way to a box: the box its workspace was in is released.
Coming(r) ==
  LET w == latest[Session[r]] IN
  /\ req[r].box # NoBox => state[req[r].box] # "READY"
  /\ w # NoOne => \/ state[sandbox[w]] = "DESTROYING"
                  \/ req[r].at = "find" /\ req[r].box = sandbox[w]
  /\ req[r].at # "find" =>
       req[r].ws = w /\ (w # NoOne => req[r].back = sandbox[w])
  /\ req[r].at \in {"restore", "mkdir", "attach"} => req[r].box \in Boxes
  /\ req[r].at = "restore" => w # NoOne
  /\ req[r].at = "mkdir" => Kept(Session[r], {}) \/ req[r].box \notin alive
  /\ req[r].at = "attach" /\ w # NoOne => Kept(Session[r], dir[req[r].box][w])

\* Request r in its workspace: it works in the box the workspace is in, and no other.
There(r) ==
  /\ req[r].ws # NoOne /\ req[r].ws = latest[Session[r]]
  /\ req[r].back \in Boxes
  /\ req[r].back = sandbox[req[r].ws] \/ state[req[r].back] = "DESTROYING"
  /\ req[r].at \in {"work", "unregister"} => state[req[r].back] = "USER_ACTIVE"

RequestInv ==
  \A r \in Requests : (req[r].at \in Way => Coming(r)) /\ (req[r].at \in Inside => There(r))

\* What reclaim has exported covers what was reported, and so does what it publishes.
WatchInv ==
  /\ watcher.at # "idle" => watcher.box \in Boxes
       /\ state[watcher.box] \in {"RETIRING", "DESTROYING"}
  /\ watcher.at = "destroy" => state[watcher.box] = "DESTROYING"
  /\ watcher.at \in {"list", "export"} /\ state[watcher.box] = "DESTROYING" =>
       watcher.box \notin alive
  /\ watcher.at = "publish" =>
       /\ state[watcher.box] = "RETIRING" /\ watcher.ws \in Requests
       /\ sandbox[watcher.ws] = watcher.box /\ Kept(Session[watcher.ws], watcher.staging)
  /\ watcher.at \in {"export", "publish"} /\ state[watcher.box] = "RETIRING" =>
       /\ \A w \in watcher.todo : sandbox[w] = watcher.box
       /\ \A w \in Requests : sandbox[w] = watcher.box /\ w \notin watcher.todo =>
            Kept(Session[w], cache[w])

KeptInv == \A s \in Sessions : Kept(s, Contents(s))

RestartInv == TurnsInv /\ NamesInv /\ CountInv /\ RequestInv /\ WatchInv /\ KeptInv

FilesIInv == TypeOK /\ BindInv /\ (OnlyRestarts => RestartInv)

-----------------------------------------------------------------------------
(* What the actions do to the progress of a request.                        *)

\* Only request r moves on.
Others(r) == \A q \in Requests : q # r => req'[q] = req[q]

\* A request that moves keeps its record a record.
LEMMA Moves ==
  ASSUME TypeOK, NEW r \in Requests, NEW p \in RequestTypes,
         req' = [req EXCEPT ![r] = p]
  PROVE  req' \in [Requests -> RequestTypes] /\ Others(r) /\ req'[r] = p
BY DEF TypeOK, Others

\* So does one that only goes to its next phase.
LEMMA GoesOn ==
  ASSUME TypeOK, NEW r \in Requests, NEW a \in Phases, Goes(r, a)
  PROVE  /\ req' \in [Requests -> RequestTypes] /\ Others(r)
         /\ req'[r].at = a
         /\ req'[r].kind = req[r].kind /\ req'[r].box = req[r].box
         /\ req'[r].ws = req[r].ws /\ req'[r].back = req[r].back
<1>1. req[r] \in RequestTypes /\ req \in [Requests -> RequestTypes]
  BY DEF TypeOK
<1>2. [req[r] EXCEPT !.at = a] \in RequestTypes
  BY <1>1 DEF RequestTypes
<1>3. req' = [req EXCEPT ![r] = [req[r] EXCEPT !.at = a]]
  BY <1>1 DEF Goes, RequestTypes
<1>4. req' \in [Requests -> RequestTypes] /\ Others(r) /\ req'[r] = [req[r] EXCEPT !.at = a]
  BY <1>2, <1>3, Moves
<1> QED
  BY <1>1, <1>4 DEF RequestTypes

\* A request that gets a box.
LEMMA WithBox ==
  ASSUME TypeOK, NEW r \in Requests, NEW b \in Boxes, NEW st \in States,
         NEW w \in Requests \cup {NoOne}, NEW back \in Boxes \cup {NoBox},
         With(r, b, st, w, back)
  PROVE  /\ req' \in [Requests -> RequestTypes] /\ Others(r)
         /\ req'[r].kind = req[r].kind /\ req'[r].box = b
         /\ req'[r].ws = w /\ req'[r].back = back
         /\ req'[r].at \in {"failed", "lease", "restore", "mkdir"}
         /\ req'[r].at = "lease" => w # NoOne /\ back = b
         /\ req'[r].at = "restore" => w # NoOne /\ back # b
         /\ req'[r].at = "mkdir" /\ w # NoOne => cache[w] = {} /\ back # b
<1> DEFINE a == IF st # "USER_ACTIVE" THEN "failed"
                ELSE IF w # NoOne /\ back = b THEN "lease"
                ELSE IF w # NoOne /\ cache[w] # {} THEN "restore" ELSE "mkdir"
           p == [req[r] EXCEPT !.box = b, !.saw = st, !.ws = w, !.back = back, !.at = a]
<1>1. req[r] \in RequestTypes /\ req \in [Requests -> RequestTypes]
  BY DEF TypeOK
<1>2. a \in {"failed", "lease", "restore", "mkdir"}
  OBVIOUS
<1>3. req' = [req EXCEPT ![r] = p]
  BY <1>1 DEF With, RequestTypes
<1>4. a = "lease" => w # NoOne /\ back = b
  OBVIOUS
<1>5. a = "restore" => w # NoOne /\ back # b
  OBVIOUS
<1>6. a = "mkdir" /\ w # NoOne => cache[w] = {} /\ back # b
  OBVIOUS
<1> HIDE DEF a
<1>7. p \in RequestTypes
  BY <1>1, <1>2 DEF RequestTypes, Phases
<1>8. p.kind = req[r].kind /\ p.box = b /\ p.ws = w /\ p.back = back /\ p.at = a
  BY <1>1 DEF RequestTypes
<1> HIDE DEF p
<1>9. req' \in [Requests -> RequestTypes] /\ Others(r) /\ req'[r] = p
  BY <1>3, <1>7, Moves
<1> QED
  BY <1>2, <1>4, <1>5, <1>6, <1>8, <1>9

-----------------------------------------------------------------------------
(* Types.                                                                   *)

\* Every step keeps the types.
LEMMA TypeStep ==
  ASSUME TypeOK, [Next]_vars
  PROVE  TypeOK'
<1> USE DEF Phases, Kinds, States, Ended
<1>t. /\ req \in [Requests -> RequestTypes] /\ watcher \in ReclaimTypes
      /\ state \in [Boxes -> States] /\ sandbox \in [Requests -> Boxes \cup {NoBox}]
      /\ latest \in [Sessions -> Requests \cup {NoOne}]
  BY DEF TypeOK
<1>s. \A r \in Requests : Session[r] \in Sessions
  BY DEF Sessions
<1>r. \A r \in Requests :
        /\ req[r].box \in Boxes \cup {NoBox} /\ req[r].saw \in States /\ req[r].kind \in Kinds
        /\ req[r].ws \in Requests \cup {NoOne} /\ req[r].back \in Boxes \cup {NoBox}
        /\ WorkspaceOf(Session[r]) \in Requests \cup {NoOne} /\ Id(r) \in Requests
  BY <1>t, <1>s DEF RequestTypes, WorkspaceOf, Id
<1>q. \A r \in Requests : req[r] \in RequestTypes
  BY <1>t
<1>w. /\ watcher.box \in Boxes \cup {NoBox} /\ watcher.staging \in SUBSET Requests
      /\ watcher.todo \in SUBSET Requests /\ watcher.ws \in Requests \cup {NoOne}
  BY <1>t DEF ReclaimTypes
<1>f. /\ dir \in [Boxes -> [Requests -> SUBSET Requests]] /\ alive \subseteq Boxes
      /\ cache \in [Requests -> SUBSET Requests]
  BY DEF TypeOK
<1>n. NoReclaim \in ReclaimTypes
  BY DEF NoReclaim, ReclaimTypes
<1>1. ASSUME NEW r \in Requests, Look(r)
      PROVE  TypeOK'
  <2>1. PICK b \in (IF Binding = {} THEN {NoBox} ELSE Binding), k \in Kinds :
          req' = [req EXCEPT ![r] = [@ EXCEPT !.at = "find", !.kind = k, !.box = b,
                                     !.saw = IF b = NoBox THEN "READY" ELSE state[b]]]
    BY <1>1 DEF Look
  <2> DEFINE saw == IF b = NoBox THEN "READY" ELSE state[b]
             p == [req[r] EXCEPT !.at = "find", !.kind = k, !.box = b, !.saw = saw]
  <2>2. b \in Boxes \cup {NoBox} /\ saw \in States
    BY <1>t, <2>1 DEF Binding, Bound
  <2>4. req' = [req EXCEPT ![r] = p]
    BY <2>1, <1>t
  <2> HIDE DEF saw
  <2>3. p \in RequestTypes
    BY <1>q, <2>2 DEF RequestTypes
  <2> QED
    BY <1>1, <2>3, <2>4, Moves DEF Look, TypeOK, boxes, docs, service
<1>2. ASSUME NEW r \in Requests, Find(r)
      PROVE  TypeOK'
  <2> DEFINE w == WorkspaceOf(Session[r])
             back == IF w = NoOne THEN NoBox ELSE sandbox[w]
             p == [req[r] EXCEPT !.at = "assign", !.ws = w, !.back = back]
  <2>1. back \in Boxes \cup {NoBox}
    BY <1>r, <1>t
  <2>2. CASE req[r].box = NoBox
    <3>2. req' = [req EXCEPT ![r] = p]
      BY <1>2, <2>2 DEF Find
    <3>3. w \in Requests \cup {NoOne}
      BY <1>r
    <3> HIDE DEF w, back
    <3>1. p \in RequestTypes
      BY <1>q, <2>1, <3>3 DEF RequestTypes
    <3> QED
      BY <1>2, <3>1, <3>2, Moves DEF Find, TypeOK, boxes, docs, service
  <2>3. CASE req[r].box # NoBox
    <3>1. With(r, req[r].box, req[r].saw, w, back)
      BY <1>2, <2>3 DEF Find
    <3>3. w \in Requests \cup {NoOne} /\ req[r].box \in Boxes /\ req[r].saw \in States
      BY <1>r, <2>3
    <3> HIDE DEF w, back
    <3>2. req' \in [Requests -> RequestTypes]
      BY <3>1, <2>1, <3>3, WithBox
    <3> QED
      BY <1>2, <3>2 DEF Find, TypeOK, boxes, docs, service
  <2> QED
    BY <2>2, <2>3
<1>3. ASSUME NEW r \in Requests, Assign(r)
      PROVE  TypeOK'
  <2>1. CASE Goes(r, "failed") /\ UNCHANGED <<state, count, idle>>
    BY <1>3, <2>1, GoesOn DEF Assign, TypeOK, docs, service
  <2>2. CASE Goes(r, "again") /\ UNCHANGED <<state, count, idle>>
    BY <1>3, <2>2, GoesOn DEF Assign, TypeOK, docs, service
  <2>3. ASSUME NEW b \in Ready, state' = [state EXCEPT ![b] = "USER_ACTIVE"],
               count' = [count EXCEPT ![b] = 0], idle' = idle \ {b},
               With(r, b, "USER_ACTIVE", req[r].ws, req[r].back)
        PROVE  TypeOK'
    <3>1. b \in Boxes
      BY DEF Ready
    <3>2. req' \in [Requests -> RequestTypes]
      BY <2>3, <3>1, <1>r, WithBox
    <3> QED
      BY <1>3, <2>3, <3>1, <3>2 DEF Assign, TypeOK, docs, service
  <2> QED
    BY <1>3, <2>1, <2>2, <2>3 DEF Assign
<1>4. ASSUME NEW r \in Requests, Again(r)
      PROVE  TypeOK'
  <2>1. CASE Goes(r, "failed")
    BY <1>4, <2>1, GoesOn DEF Again, TypeOK, boxes, docs, service
  <2>2. ASSUME NEW b \in Binding, With(r, b, state[b], req[r].ws, req[r].back)
        PROVE  TypeOK'
    <3>1. b \in Boxes /\ state[b] \in States
      BY <1>t DEF Binding, Bound
    <3>3. req[r].ws \in Requests \cup {NoOne} /\ req[r].back \in Boxes \cup {NoBox}
      BY <1>r
    <3>2. req' \in [Requests -> RequestTypes]
      BY <2>2, <3>1, <3>3, WithBox
    <3> QED
      BY <1>4, <3>2 DEF Again, TypeOK, boxes, docs, service
  <2> QED
    BY <1>4, <2>1, <2>2 DEF Again
<1>5. ASSUME NEW r \in Requests, Restore(r)
      PROVE  TypeOK'
  <2>1. req' \in [Requests -> RequestTypes]
    BY <1>5, GoesOn DEF Restore
  <2>2. dir' \in [Boxes -> [Requests -> SUBSET Requests]]
    <3>1. CASE UNCHANGED dir
      BY <3>1 DEF TypeOK
    <3>2. ASSUME NEW F \in SUBSET Requests, NEW b \in alive,
                 dir' = [dir EXCEPT ![b] = [dir[b] EXCEPT ![Id(r)] = F]]
          PROVE  dir' \in [Boxes -> [Requests -> SUBSET Requests]]
      BY <3>2, <1>r, <1>f
    <3>3. /\ dir[req[r].box][Id(r)] \in SUBSET Requests \/ req[r].box \notin alive
          /\ cache[Id(r)] \in SUBSET Requests
      BY <1>r, <1>f
    <3>4. \A F : [dir EXCEPT ![req[r].box][Id(r)] = F]
                  = [dir EXCEPT ![req[r].box] = [dir[req[r].box] EXCEPT ![Id(r)] = F]]
      BY <1>f
    <3> QED
      BY <1>5, <3>1, <3>2, <3>3, <3>4, <1>f DEF Restore
  <2> QED
    BY <1>5, <2>1, <2>2 DEF Restore, TypeOK, boxes, docs, service
<1>6. ASSUME NEW r \in Requests, Mkdir(r)
      PROVE  TypeOK'
  BY <1>6, GoesOn DEF Mkdir, TypeOK, boxes, docs, service
<1>7. ASSUME NEW r \in Requests, Attach(r)
      PROVE  TypeOK'
  <2> DEFINE back == IF req[r].ws = NoOne THEN req[r].box ELSE req[r].back
             p == [req[r] EXCEPT !.at = "lease", !.ws = Id(r), !.back = back]
  <2>2. req' = [req EXCEPT ![r] = p]
    BY <1>7 DEF Attach
  <2>4. back \in Boxes \cup {NoBox} /\ Id(r) \in Requests
    BY <1>r
  <2> HIDE DEF back
  <2>1. p \in RequestTypes
    BY <1>q, <2>4 DEF RequestTypes
  <2>3. req' \in [Requests -> RequestTypes]
    BY <2>1, <2>2, Moves
  <2>5. sandbox' \in [Requests -> Boxes \cup {NoBox}]
          /\ latest' \in [Sessions -> Requests \cup {NoOne}]
    BY <1>7, <1>r, <1>t DEF Attach
  <2> QED
    BY <1>7, <2>3, <2>5 DEF Attach, TypeOK, boxes, service
<1>8. ASSUME NEW r \in Requests, Leased(r)
      PROVE  TypeOK'
  <2>1. CASE Lease(r)
    BY <2>1, GoesOn DEF Lease, TypeOK, boxes, docs, service
  <2>2. CASE Register(r)
    <3>1. req' \in [Requests -> RequestTypes]
      BY <2>2, GoesOn DEF Register
    <3>2. count' \in [Boxes -> Nat] /\ idle' \subseteq Boxes
      BY <2>2 DEF Register, TypeOK
    <3> QED
      BY <2>2, <3>1, <3>2 DEF Register, TypeOK, docs, service
  <2>3. CASE Work(r)
    <3>1. req' \in [Requests -> RequestTypes]
      BY <2>3, GoesOn DEF Work
    <3>2. acked' \subseteq Requests
      BY <2>3 DEF Work, TypeOK
    <3>3. dir' \in [Boxes -> [Requests -> SUBSET Requests]]
      <4>1. CASE UNCHANGED dir
        BY <4>1, <1>f
      <4>2. CASE req[r].back \in alive
                 /\ dir' = [dir EXCEPT ![req[r].back][req[r].ws] = @ \cup {r}]
        <5>1. \A w \in Requests : [dir[req[r].back] EXCEPT ![w] = @ \cup {r}] \in
                [Requests -> SUBSET Requests]
          BY <4>2, <1>f
        <5>2. \A w, F : w \notin Requests => [dir[req[r].back] EXCEPT ![w] = F] = dir[req[r].back]
          BY <4>2, <1>f
        <5>4. [dir[req[r].back] EXCEPT ![req[r].ws] = @ \cup {r}] \in [Requests -> SUBSET Requests]
          <6>1. CASE req[r].ws \in Requests
            BY <5>1, <6>1
          <6>2. CASE req[r].ws \notin Requests
            <7>1. dir[req[r].back] \in [Requests -> SUBSET Requests]
              BY <4>2, <1>f
            <7> QED
              BY <5>2, <6>2, <7>1
          <6> QED
            BY <6>1, <6>2
        <5>3. dir' = [dir EXCEPT ![req[r].back] = [dir[req[r].back] EXCEPT ![req[r].ws] = @ \cup {r}]]
          BY <4>2, <1>f
        <5> QED
          BY <4>2, <5>3, <5>4, <1>f
      <4> QED
        BY <2>3, <4>1, <4>2 DEF Work
    <3> QED
      BY <2>3, <3>1, <3>2, <3>3 DEF Work, TypeOK, boxes, docs, service
  <2>4. CASE Unregister(r)
    <3>1. req' \in [Requests -> RequestTypes]
      BY <2>4, GoesOn DEF Unregister
    <3>2. count' \in [Boxes -> Nat]
      <4>1. count \in [Boxes -> Nat]
        BY DEF TypeOK
      <4>2. \A n \in Nat : (IF n >= 1 THEN n - 1 ELSE n) \in Nat
        OBVIOUS
      <4> QED
        BY <2>4, <4>1, <4>2 DEF Unregister
    <3> QED
      BY <2>4, <3>1, <3>2 DEF Unregister, TypeOK, docs, service
  <2> QED
    BY <1>8, <2>1, <2>2, <2>3, <2>4 DEF Leased
<1>9. ASSUME Reclaim
      PROVE  TypeOK'
  <2>1. ASSUME NEW b \in Boxes, Claim(b)
        PROVE  TypeOK'
    <3>1. [NoReclaim EXCEPT !.at = "list", !.box = b, !.again = TRUE] \in ReclaimTypes
      BY <1>n DEF ReclaimTypes
    <3>2. state' \in [Boxes -> States]
      BY <2>1, <1>t DEF Claim
    <3> QED
      BY <2>1, <3>1, <3>2 DEF Claim, TypeOK, docs
  <2>2. ASSUME NEW b \in Boxes, TakeRetiring(b)
        PROVE  TypeOK'
    <3>1. [NoReclaim EXCEPT !.at = "list", !.box = b] \in ReclaimTypes
      BY <1>n DEF ReclaimTypes
    <3> QED
      BY <2>2, <3>1 DEF TakeRetiring, TypeOK, boxes, docs
  <2>3. CASE List
    <3>1. watcher' \in ReclaimTypes
      BY <2>3, <1>t DEF List, ReclaimTypes
    <3> QED
      BY <2>3, <3>1 DEF List, TypeOK, boxes, docs
  <2>4. ASSUME NEW w \in Requests, Export(w)
        PROVE  TypeOK'
    <3>1. alive \subseteq Boxes /\ dir \in [Boxes -> [Requests -> SUBSET Requests]]
      BY DEF TypeOK
    <3>3. ASSUME watcher' = [watcher EXCEPT !.todo = @ \ {w}]
          PROVE  watcher' \in ReclaimTypes
      <4> DEFINE rest == watcher.todo \ {w}
      <4>1. rest \in SUBSET Requests
        BY <1>w
      <4>2. watcher' = [watcher EXCEPT !.todo = rest]
        BY <3>3, <1>t DEF ReclaimTypes
      <4> HIDE DEF rest
      <4>3. [watcher EXCEPT !.todo = rest] \in ReclaimTypes
        BY <4>1, <1>t DEF ReclaimTypes
      <4> QED
        BY <4>2, <4>3
    <3>4. ASSUME watcher.box \in alive,
                 watcher' = [watcher EXCEPT !.at = "publish", !.ws = w,
                   !.staging = dir[watcher.box][w]]
          PROVE  watcher' \in ReclaimTypes
      <4>1. dir[watcher.box][w] \in SUBSET Requests
        BY <3>1, <3>4
      <4> QED
        BY <4>1, <3>4, <1>t DEF ReclaimTypes
    <3>2. watcher' \in ReclaimTypes
      <4>1. \/ watcher' = [watcher EXCEPT !.todo = @ \ {w}]
            \/ /\ watcher.box \in alive
               /\ watcher' = [watcher EXCEPT !.at = "publish", !.ws = w,
                    !.staging = dir[watcher.box][w]]
        BY <2>4 DEF Export
      <4> QED
        BY <3>3, <3>4, <4>1, Zenon
    <3> QED
      BY <2>4, <3>2 DEF Export, TypeOK, boxes, docs
  <2>5. CASE Publish
    <3>1. watcher' \in ReclaimTypes
      BY <2>5, <1>t DEF Publish, ReclaimTypes
    <3>2. cache' \in [Requests -> SUBSET Requests]
      BY <2>5, <1>w DEF Publish, TypeOK
    <3> QED
      BY <2>5, <3>1, <3>2 DEF Publish, TypeOK, boxes, docs
  <2>6. CASE Release
    <3>1. watcher' \in ReclaimTypes
      BY <2>6, <1>t DEF Release, ReclaimTypes
    <3>2. state' \in [Boxes -> States]
      BY <2>6, <1>t DEF Release
    <3> QED
      BY <2>6, <3>1, <3>2 DEF Release, TypeOK, docs
  <2>7. CASE Destroy
    <3>1. watcher' \in ReclaimTypes
      BY <2>7, <1>t, <1>n DEF Destroy, ReclaimTypes
    <3> QED
      BY <2>7, <3>1 DEF Destroy, TypeOK, docs
  <2> QED
    BY <1>9, <2>1, <2>2, <2>3, <2>4, <2>5, <2>6, <2>7 DEF Reclaim
<1>10. ASSUME NEW b \in Boxes, TimePasses(b)
       PROVE  TypeOK'
  BY <1>10 DEF TimePasses, TypeOK, docs, service
<1>11. CASE Restart
  <2>1. req' \in [Requests -> RequestTypes]
    <3>1. \A r \in Requests : [req[r] EXCEPT !.at = "failed"] \in RequestTypes
      BY <1>t DEF RequestTypes
    <3> QED
      BY <1>11, <3>1, <1>t DEF Restart
  <2>2. count' \in [Boxes -> Nat]
    BY <1>11 DEF Restart, TypeOK
  <2>3. cache' \in [Requests -> SUBSET Requests]
    BY <1>11 DEF Restart, TypeOK
  <2>4. restarts' \in 0..MaxRestarts
    BY <1>11, RestartBound DEF Restart, TypeOK
  <2> QED
    BY <1>11, <1>n, <2>1, <2>2, <2>3, <2>4 DEF Restart, TypeOK, docs
<1>12. CASE UNCHANGED vars
  BY <1>12 DEF TypeOK, vars
<1> QED
  BY <1>1, <1>2, <1>3, <1>4, <1>5, <1>6, <1>7, <1>8, <1>9, <1>10, <1>11, <1>12 DEF Next, Allocate

-----------------------------------------------------------------------------
(* A user never has two boxes.                                              *)

\* Who is about to have a box assigned, though others may be faster.
Unbound(r) == req[r].at = "assign" \/ (req[r].at = "find" /\ req[r].box = NoBox)

\* A user is bound to one box at most, and whoever is assigned one had none.
LEMMA BindStep ==
  ASSUME TypeOK, BindInv, [Next]_vars
  PROVE  BindInv'
<1>t. /\ req \in [Requests -> RequestTypes] /\ state \in [Boxes -> States]
      /\ idle \subseteq Boxes /\ watcher \in ReclaimTypes
  BY DEF TypeOK
<1>r. \A r \in Requests :
        /\ req[r].box \in Boxes \cup {NoBox} /\ req[r].saw \in States /\ req[r].kind \in Kinds
        /\ req[r].ws \in Requests \cup {NoOne} /\ req[r].back \in Boxes \cup {NoBox}
        /\ WorkspaceOf(Session[r]) \in Requests \cup {NoOne} /\ Id(r) \in Requests
  BY DEF TypeOK, Sessions, RequestTypes, WorkspaceOf, Id
<1>i. /\ \A b, c \in Bound : b = c
      /\ \A r \in Requests : Unbound(r) => \A b \in Bound : state[b] = "USER_ACTIVE"
           /\ b \notin idle
  BY DEF BindInv, Unbound
<1>b. \A b : b \in Bound <=> b \in Boxes /\ state[b] \in {"USER_ACTIVE", "RETIRING"}
  BY DEF Bound
\* The boxes a step leaves alone, and the requests that do not wait for a box after it.
<1>u. ASSUME \A b \in Bound' : b \in Bound /\ state'[b] = state[b] /\ (b \in idle' => b \in idle),
             \A r \in Requests : Unbound(r)' => Unbound(r) \/ Bound' = {}
      PROVE  BindInv'
  BY <1>i, <1>u DEF BindInv, Unbound
<1>s. UNCHANGED state => Bound' = Bound
  BY DEF Bound
<1>1. ASSUME NEW r \in Requests, Look(r)
      PROVE  BindInv'
  <2>1. UNCHANGED <<state, idle>>
    BY <1>1 DEF Look, boxes
  <2>2. ASSUME NEW q \in Requests
        PROVE  Unbound(q)' => Unbound(q) \/ Bound = {}
    <3>1. CASE q # r
      BY <1>1, <1>t, <3>1 DEF Look, Unbound
    <3>2. CASE q = r
      <4>1. Binding # {} => \A b \in Binding : b # NoBox
        BY BoxesAssumption DEF Binding, Bound
      <4>2. PICK b \in (IF Binding = {} THEN {NoBox} ELSE Binding), k \in Kinds :
              req' = [req EXCEPT ![r] = [@ EXCEPT !.at = "find", !.kind = k, !.box = b,
                                         !.saw = IF b = NoBox THEN "READY" ELSE state[b]]]
        BY <1>1 DEF Look
      <4>3. req'[r].at = "find" /\ req'[r].box = b
        BY <4>2, <1>t DEF RequestTypes
      <4> QED
        BY <4>1, <4>2, <4>3, <3>2 DEF Unbound, Binding
    <3> QED
      BY <3>1, <3>2
  <2> QED
    BY <1>u, <1>s, <2>1, <2>2
<1>2. ASSUME NEW r \in Requests, Find(r)
      PROVE  BindInv'
  <2> DEFINE w == WorkspaceOf(Session[r])
             back == IF w = NoOne THEN NoBox ELSE sandbox[w]
  <2>1. UNCHANGED <<state, idle>>
    BY <1>2 DEF Find, boxes
  <2>2. CASE req[r].box = NoBox
    <3>1. req' = [req EXCEPT ![r] = [req[r] EXCEPT !.at = "assign", !.ws = w, !.back = back]]
      BY <1>2, <2>2 DEF Find
    <3>2. Unbound(r)
      BY <1>2, <2>2 DEF Find, Unbound
    <3>3. \A q \in Requests : q # r => req'[q] = req[q]
      BY <3>1, <1>t
    <3> QED
      BY <1>u, <1>s, <2>1, <3>2, <3>3 DEF Unbound
  <2>3. CASE req[r].box # NoBox
    <3>1. With(r, req[r].box, req[r].saw, w, back)
      BY <1>2, <2>3 DEF Find
    <3>2. w \in Requests \cup {NoOne} /\ req[r].box \in Boxes /\ req[r].saw \in States
      BY <1>r, <2>3
    <3>3. back \in Boxes \cup {NoBox}
      BY <3>2 DEF TypeOK
    <3> HIDE DEF w, back
    <3>4. Others(r) /\ req'[r].at \in {"failed", "lease", "restore", "mkdir"}
      BY <3>1, <3>2, <3>3, WithBox
    <3> QED
      BY <1>u, <1>s, <2>1, <3>4 DEF Unbound, Others
  <2> QED
    BY <2>2, <2>3
<1>3. ASSUME NEW r \in Requests, Assign(r)
      PROVE  BindInv'
  <2>1. ASSUME NEW a \in {"failed", "again"}, Goes(r, a), UNCHANGED <<state, count, idle>>
        PROVE  BindInv'
    <3>1. Others(r) /\ req'[r].at = a
      BY <2>1, GoesOn DEF Phases
    <3> QED
      BY <1>u, <1>s, <2>1, <3>1 DEF Unbound, Others
  <2>2. ASSUME NEW b \in Ready, \A c \in Boxes : state[c] # "USER_ACTIVE",
               state' = [state EXCEPT ![b] = "USER_ACTIVE"], idle' = idle \ {b},
               With(r, b, "USER_ACTIVE", req[r].ws, req[r].back)
        PROVE  BindInv'
    <3>1. b \in Boxes
      BY DEF Ready
    <3>2. Unbound(r)
      BY <1>3 DEF Assign, Unbound
    <3>3. Bound' = {b}
      BY <1>b, <1>i, <1>t, <2>2, <3>1, <3>2 DEF Bound
    <3>4. state'[b] = "USER_ACTIVE" /\ b \notin idle'
      BY <2>2, <3>1, <1>t
    <3> QED
      BY <3>3, <3>4 DEF BindInv
  <2> QED
    BY <1>3, <2>1, <2>2 DEF Assign
<1>4. ASSUME NEW r \in Requests, Again(r)
      PROVE  BindInv'
  <2>1. UNCHANGED <<state, idle>>
    BY <1>4 DEF Again, boxes
  <2>2. CASE Goes(r, "failed")
    <3>1. Others(r) /\ req'[r].at = "failed"
      BY <2>2, GoesOn DEF Phases
    <3> QED
      BY <1>u, <1>s, <2>1, <3>1 DEF Unbound, Others
  <2>3. ASSUME NEW b \in Binding, With(r, b, state[b], req[r].ws, req[r].back)
        PROVE  BindInv'
    <3>1. b \in Boxes /\ state[b] \in States
      BY <1>t DEF Binding, Bound
    <3>3. req[r].ws \in Requests \cup {NoOne} /\ req[r].back \in Boxes \cup {NoBox}
      BY <1>r
    <3>4. Others(r)
      BY <2>3, <3>1, <3>3, WithBox
    <3>5. req'[r].at \in {"failed", "lease", "restore", "mkdir"}
      BY <2>3, <3>1, <3>3, WithBox
    <3>2. Others(r) /\ req'[r].at \in {"failed", "lease", "restore", "mkdir"}
      BY <3>4, <3>5
    <3> QED
      BY <1>u, <1>s, <2>1, <3>2 DEF Unbound, Others
  <2> QED
    BY <1>4, <2>2, <2>3 DEF Again
<1>5. ASSUME NEW r \in Requests, Restore(r) \/ Mkdir(r) \/ Lease(r)
      PROVE  BindInv'
  <2>1. PICK a \in {"attach", "mkdir", "failed", "register", "unavailable"} : Goes(r, a)
    BY <1>5 DEF Restore, Mkdir, Lease
  <2>2. Others(r) /\ req'[r].at = a
    BY <2>1, GoesOn DEF Phases
  <2>3. UNCHANGED <<state, idle>>
    BY <1>5 DEF Restore, Mkdir, Lease, boxes
  <2> QED
    BY <1>u, <1>s, <2>2, <2>3 DEF Unbound, Others
<1>6. ASSUME NEW r \in Requests, Attach(r)
      PROVE  BindInv'
  <2>1. Others(r) /\ req'[r].at = "lease"
    BY <1>6, <1>t DEF Attach, Others, RequestTypes
  <2>2. UNCHANGED <<state, idle>>
    BY <1>6 DEF Attach, boxes
  <2> QED
    BY <1>u, <1>s, <2>1, <2>2 DEF Unbound, Others
<1>7. ASSUME NEW r \in Requests, Register(r) \/ Work(r) \/ Unregister(r)
      PROVE  BindInv'
  <2>1. PICK a \in {"work", "failed", "unregister", "done"} : Goes(r, a)
    BY <1>7 DEF Register, Work, Unregister
  <2>2. Others(r) /\ req'[r].at = a
    BY <2>1, GoesOn DEF Phases
  <2>3. UNCHANGED state /\ idle' \subseteq idle
    BY <1>7 DEF Register, Work, Unregister, boxes
  <2> QED
    BY <1>u, <1>s, <2>2, <2>3 DEF Unbound, Others
<1>8. ASSUME NEW b \in Boxes, Claim(b)
      PROVE  BindInv'
  <2>1. state' = [state EXCEPT ![b] = "RETIRING"] /\ b \in Bound /\ b \in idle /\ UNCHANGED req
    BY <1>8 DEF Claim, Bound
  <2>2. Bound' = Bound
    BY <2>1, <1>t DEF Bound
  <2>3. \A r \in Requests : ~Unbound(r)
    BY <2>1, <1>i
  <2> QED
    BY <2>1, <2>2, <2>3, <1>i DEF BindInv, Unbound
<1>9. ASSUME (\E b \in Boxes : TakeRetiring(b)) \/ List \/ (\E w \in Requests : Export(w))
        \/ Publish
             \/ Destroy
      PROVE  BindInv'
  <2>1. UNCHANGED <<state, idle, req>>
    BY <1>9 DEF TakeRetiring, List, Export, Publish, Destroy, boxes
  <2> QED
    BY <2>1, <1>u, <1>s DEF Unbound
<1>10. CASE Release
  <2>1. state' = [state EXCEPT ![watcher.box] = "DESTROYING"] /\ UNCHANGED <<idle, req>>
    BY <1>10 DEF Release
  <2>2. \A b \in Bound' : b \in Bound /\ state'[b] = state[b]
    BY <2>1, <1>t DEF Bound
  <2> QED
    BY <2>1, <2>2, <1>u DEF Unbound
<1>11. ASSUME NEW b \in Boxes, TimePasses(b)
       PROVE  BindInv'
  <2>1. UNCHANGED <<state, req>> /\ \A r \in Requests : ~Unbound(r)
    BY <1>11 DEF TimePasses, service, Unbound
  <2> QED
    BY <2>1, <1>i, <1>s DEF BindInv, Unbound
<1>12. CASE Restart
  <2>1. UNCHANGED <<state, idle>>
    BY <1>12 DEF Restart
  <2>2. \A r \in Requests : req'[r] = req[r] \/ req'[r].at = "failed"
    BY <1>12, <1>t DEF Restart, RequestTypes
  <2> QED
    BY <2>1, <2>2, <1>u, <1>s DEF Unbound
<1>13. CASE UNCHANGED vars
  BY <1>13, <1>u, <1>s DEF vars, Unbound
<1> QED
  BY <1>1, <1>2, <1>3, <1>4, <1>5, <1>6, <1>7, <1>8, <1>9, <1>10, <1>11, <1>12, <1>13
     DEF Next, Allocate, Leased, Reclaim

-----------------------------------------------------------------------------
(* What a step that does not touch a part of the state leaves as it was.    *)

\* What holds of names, turns, counts and files as long as what they are about stays.
LEMMA NamesStay ==
  ASSUME NamesInv, UNCHANGED docs,
         \A b \in Boxes : state[b] # "READY" => state'[b] # "READY"
  PROVE  NamesInv'
BY DEF NamesInv, docs

LEMMA TurnsStay ==
  ASSUME TurnsInv, \A r \in Requests : req'[r].kind = req[r].kind /\ (Busy(r)' => Busy(r))
  PROVE  TurnsInv'
BY DEF TurnsInv

LEMMA CountStays ==
  ASSUME CountInv, \A r \in Requests : req'[r] = req[r],
         \A b \in Boxes : b \notin alive' => state'[b] = "DESTROYING",
         \A b \in Boxes : state'[b] = "USER_ACTIVE" =>
           state[b] = "USER_ACTIVE" /\ count'[b] = count[b]
  PROVE  CountInv'
<1>1. Registered' = Registered
  BY DEF Registered
<1> QED
  BY <1>1 DEF CountInv

LEMMA KeptStays ==
  ASSUME KeptInv, UNCHANGED docs, UNCHANGED acked,
         \A w \in Requests : sandbox[w] \in Bound <=> sandbox[w] \in Bound',
         \A w \in Requests : IF sandbox[w] \in Bound
           THEN dir[sandbox[w]][w] \subseteq dir'[sandbox[w]][w]
                                                     ELSE cache[w] \subseteq cache'[w],
         latest \in [Sessions -> Requests \cup {NoOne}]
  PROVE  KeptInv'
<1>1. ASSUME NEW s \in Sessions
      PROVE  Contents(s) \subseteq Contents(s)'
  <2>1. latest[s] \in Requests \cup {NoOne} /\ UNCHANGED <<latest, sandbox>>
    BY DEF docs
  <2>2. CASE latest[s] = NoOne
    BY <2>1, <2>2 DEF Contents, WorkspaceOf
  <2>3. CASE latest[s] # NoOne /\ sandbox[latest[s]] \in Bound
    BY <2>1, <2>3 DEF Contents, WorkspaceOf
  <2>4. CASE latest[s] # NoOne /\ sandbox[latest[s]] \notin Bound
    BY <2>1, <2>4 DEF Contents, WorkspaceOf
  <2> QED
    BY <2>2, <2>3, <2>4
<1> QED
  BY <1>1 DEF KeptInv, Kept

\* Request q while others move on.
LEMMA StaysPut ==
  ASSUME TypeOK, NamesInv, RequestInv, NEW q \in Requests, req'[q] = req[q],
         latest'[Session[q]] = latest[Session[q]],
         latest[Session[q]] # NoOne => sandbox'[latest[Session[q]]] = sandbox[latest[Session[q]]],
         \A b \in Boxes : /\ state[b] # "READY" => state'[b] # "READY"
                          /\ state[b] = "DESTROYING" => state'[b] = "DESTROYING",
         alive' \subseteq alive,
         \A p \in acked' : Session[p] = Session[q] => p \in acked,
         latest[Session[q]] # NoOne =>
           \A b \in Boxes : dir[b][latest[Session[q]]] \subseteq dir'[b][latest[Session[q]]],
         req[q].at \in {"work", "unregister"} => state'[req[q].back] = "USER_ACTIVE"
  PROVE  (req'[q].at \in Way => Coming(q)') /\ (req'[q].at \in Inside => There(q)')
<1>1. Session[q] \in Sessions /\ req[q].box \in Boxes \cup {NoBox}
  BY DEF Sessions, TypeOK, RequestTypes
<1> DEFINE w == latest[Session[q]]
<1>2. w # NoOne => sandbox[w] \in Boxes
  BY <1>1 DEF NamesInv
<1>3. ASSUME req[q].at \in Way
      PROVE  Coming(q)'
  <2>1. Coming(q)
    BY <1>3 DEF RequestInv
  <2>2. Kept(Session[q], {}) => Kept(Session[q], {})'
    BY DEF Kept
  <2>3. req[q].box \in Boxes /\ w # NoOne /\ Kept(Session[q], dir[req[q].box][w])
          => Kept(Session[q], dir[req[q].box][w])'
    BY DEF Kept
  <2> QED
    BY <1>1, <1>2, <2>1, <2>2, <2>3 DEF Coming, Way
<1>4. ASSUME req[q].at \in Inside
      PROVE  There(q)'
  <2>1. There(q)
    BY <1>4 DEF RequestInv
  <2> QED
    BY <2>1 DEF There
<1> QED
  BY <1>3, <1>4

\* Request r moves on, and nothing else happens.
LEMMA OnlyRequest ==
  ASSUME TypeOK, RestartInv, NEW r \in Requests, Others(r),
         UNCHANGED <<boxes, docs, dir, cache, acked, service>>,
         req'[r].kind = req[r].kind,
         Busy(r) \/ \A q \in Requests \ {r} : Session[q] = Session[r] => ~Busy(q),
         {req[r].at, req'[r].at} \cap {"work", "unregister"} = {},
         req'[r].at \in Way => Coming(r)',
         req'[r].at \in Inside => There(r)'
  PROVE  RestartInv'
<1> USE DEF boxes, docs, service
<1>1. TurnsInv'
  BY DEF TurnsInv, RestartInv, Others, Busy
<1>2. NamesInv'
  BY NamesStay DEF RestartInv
<1>3. CountInv'
  <2>1. Registered' = Registered
    BY DEF Registered, Others
  <2> QED
    BY <2>1 DEF CountInv, RestartInv
<1>4. RequestInv'
  <2>1. ASSUME NEW q \in Requests, q # r
        PROVE  (req'[q].at \in Way => Coming(q)') /\ (req'[q].at \in Inside => There(q)')
    <3>1. req'[q] = req[q]
      BY <2>1 DEF Others
    <3>2. req[q].at \in {"work", "unregister"} => state'[req[q].back] = "USER_ACTIVE"
      BY DEF RestartInv, RequestInv, There, Inside
    <3> QED
      BY <3>1, <3>2, StaysPut DEF RestartInv
  <2> QED
    BY <2>1 DEF RequestInv
<1>5. WatchInv'
  BY DEF WatchInv, RestartInv, Kept
<1>6. KeptInv'
  <2>1. Bound' = Bound
    BY DEF Bound
  <2> QED
    BY <2>1, KeptStays DEF RestartInv, TypeOK
<1> QED
  BY <1>1, <1>2, <1>3, <1>4, <1>5, <1>6 DEF RestartInv

-----------------------------------------------------------------------------
(* The actions, where only restarts befall the workspaces.                  *)

\* The fields of requests, one by one.
LEMMA Fields ==
  ASSUME TypeOK
  PROVE  /\ req \in [Requests -> RequestTypes]
         /\ \A r \in Requests :
              /\ req[r].box \in Boxes \cup {NoBox} /\ req[r].saw \in States
              /\ req[r].ws \in Requests \cup {NoOne} /\ req[r].back \in Boxes \cup {NoBox}
              /\ Session[r] \in Sessions /\ latest[Session[r]] \in Requests \cup {NoOne}
              /\ Id(r) \in Requests
BY DEF TypeOK, Sessions, RequestTypes, Id

\* What was reported is empty while there is no workspace, and it is in the cache while
\* the box the workspace was in is released.
LEMMA Cached ==
  ASSUME TypeOK, KeptInv, NEW s \in Sessions
  PROVE  /\ latest[s] = NoOne => Kept(s, {})
         /\ latest[s] # NoOne /\ state[sandbox[latest[s]]] = "DESTROYING" =>
              Kept(s, cache[latest[s]])
BY DEF KeptInv, Kept, Contents, WorkspaceOf, Bound

\* The workspaces that are in a box are the ones their sessions use.
LEMMA Own ==
  ASSUME TypeOK, NamesInv, NEW w \in Requests, sandbox[w] \in Boxes
  PROVE  latest[Session[w]] = w /\ state[sandbox[w]] # "READY"
BY BoxesAssumption, NoOneAssumption DEF NamesInv, Sessions

\* allocate looks for the box of the user: USER_ACTIVE, or the request is refused.
LEMMA LookStep ==
  ASSUME TypeOK, BindInv, OnlyRestarts, RestartInv, NEW r \in Requests, Look(r)
  PROVE  RestartInv'
<1>1. PICK b \in (IF Binding = {} THEN {NoBox} ELSE Binding), k \in Kinds :
        /\ k = "file" => "files" \in happens
        /\ req' = [req EXCEPT ![r] = [@ EXCEPT !.at = "find", !.kind = k, !.box = b,
                                      !.saw = IF b = NoBox THEN "READY" ELSE state[b]]]
  BY DEF Look
<1> DEFINE saw == IF b = NoBox THEN "READY" ELSE state[b]
           p == [req[r] EXCEPT !.at = "find", !.kind = k, !.box = b, !.saw = saw]
<1>2. b \in Boxes \cup {NoBox} /\ saw \in States
  BY DEF TypeOK, Binding, Bound, States
<1>3. req' = [req EXCEPT ![r] = p]
  BY <1>1, Fields
<1>4. k = "command" /\ req[r].kind = "command"
  BY <1>1 DEF OnlyRestarts, Kinds, RestartInv, TurnsInv
<1> HIDE DEF saw
<1>11. p \in RequestTypes
  <2>1. req[r] \in RequestTypes
    BY Fields
  <2> QED
    BY <1>2, <2>1 DEF RequestTypes, Phases
<1>12. p.at = "find" /\ p.kind = k /\ p.box = b
  BY Fields DEF RequestTypes
<1>5. p \in RequestTypes /\ p.at = "find" /\ p.kind = "command" /\ p.box = b
  BY <1>4, <1>11, <1>12
<1> HIDE DEF p
<1>6. Others(r) /\ req'[r] = p
  BY <1>3, <1>5, Moves
<1>7. UNCHANGED <<boxes, docs, dir, cache, acked, service>>
  BY DEF Look
<1>8. Coming(r)'
  <2> DEFINE w == latest[Session[r]]
  <2>1. w # NoOne => sandbox[w] \in Boxes /\ state[sandbox[w]] # "READY"
    BY Fields DEF RestartInv, NamesInv
  <2>2. b # NoBox => b \in Boxes /\ state[b] # "READY" /\ b \in Bound
    BY <1>1 DEF Binding, Bound
  <2>3. b = NoBox => Bound = {}
    BY <1>1, BoxesAssumption DEF Binding, Bound
  <2>4. w # NoOne => state[sandbox[w]] = "DESTROYING" \/ sandbox[w] \in Bound
    BY <2>1 DEF TypeOK, States, Bound
  <2>5. w # NoOne => state[sandbox[w]] = "DESTROYING" \/ b = sandbox[w]
    BY <2>2, <2>3, <2>4 DEF BindInv
  <2> QED
    BY <1>5, <1>6, <1>7, <2>2, <2>5 DEF Coming, boxes, docs
<1>9. {req[r].at, req'[r].at} \cap {"work", "unregister"} = {} /\ req'[r].at \notin Inside
  BY <1>5, <1>6 DEF Look, Inside
<1>10. Busy(r) \/ \A q \in Requests \ {r} : Session[q] = Session[r] => ~Busy(q)
  BY DEF Look, OnlyRestarts, Busy
<1> QED
  BY <1>4, <1>5, <1>6, <1>7, <1>8, <1>9, <1>10, OnlyRequest

\* Request r, whose workspace is nowhere or in a released box, is to be served in box b.
LEMMA WithServes ==
  ASSUME TypeOK, NamesInv, KeptInv, NEW r \in Requests, NEW b \in Boxes, NEW st \in States,
         NEW w, w = latest[Session[r]],
         NEW back \in Boxes \cup {NoBox}, w # NoOne => back = sandbox[w],
         With(r, b, st, w, back), state'[b] # "READY",
         w # NoOne => state[sandbox[w]] = "DESTROYING" \/ b = sandbox[w],
         \A c \in Boxes : state[c] = "DESTROYING" => state'[c] = "DESTROYING",
         UNCHANGED <<docs, acked>>
  PROVE  /\ req'[r].at \in Way => Coming(r)'
         /\ req'[r].at \in Inside => There(r)'
<1>1. /\ req'[r].box = b /\ req'[r].ws = w /\ req'[r].back = back
      /\ req'[r].at \in {"failed", "lease", "restore", "mkdir"}
      /\ req'[r].at = "lease" => w # NoOne /\ back = b
      /\ req'[r].at = "restore" => w # NoOne /\ back # b
      /\ req'[r].at = "mkdir" /\ w # NoOne => cache[w] = {} /\ back # b
  <2>1. w \in Requests \cup {NoOne}
    BY Fields
  <2> QED
    BY <2>1, WithBox
<1>2. Session[r] \in Sessions /\ (w # NoOne => sandbox[w] \in Boxes)
  BY Fields DEF NamesInv
<1>3. latest' = latest /\ sandbox' = sandbox /\ acked' = acked
  BY DEF docs
<1>4. CASE req'[r].at \in {"restore", "mkdir"}
  <2>1. w # NoOne => state[sandbox[w]] = "DESTROYING" /\ state'[sandbox[w]] = "DESTROYING"
    BY <1>1, <1>2, <1>4
  <2>2. req'[r].at = "mkdir" => Kept(Session[r], {})
    BY <1>1, <1>2, <2>1, Cached
  <2>3. Coming(r)'
    BY <1>1, <1>3, <1>4, <2>1, <2>2 DEF Coming, Kept
  <2> QED
    BY <1>4, <2>3 DEF Inside
<1>5. CASE req'[r].at \in {"lease", "failed"}
  <2>1. req'[r].at = "lease" => There(r)'
    BY <1>1, <1>3 DEF There
  <2> QED
    BY <1>5, <2>1 DEF Way, Inside
<1> QED
  BY <1>1, <1>4, <1>5

\* allocate looks for the workspace of the session.
LEMMA FindStep ==
  ASSUME TypeOK, RestartInv, NEW r \in Requests, Find(r)
  PROVE  RestartInv'
<1> DEFINE w == latest[Session[r]]
           back == IF w = NoOne THEN NoBox ELSE sandbox[w]
<1>1. UNCHANGED <<boxes, docs, dir, cache, acked, service>> /\ req[r].at = "find"
  BY DEF Find
<1>2. Coming(r)
  BY <1>1 DEF RestartInv, RequestInv, Way
<1>3. w \in Requests \cup {NoOne} /\ back \in Boxes \cup {NoBox} /\ (w # NoOne => back = sandbox[w])
  BY Fields DEF TypeOK
<1>4. w # NoOne => sandbox[w] \in Boxes
  BY Fields DEF RestartInv, NamesInv
<1>5. CASE req[r].box = NoBox
  <2> DEFINE p == [req[r] EXCEPT !.at = "assign", !.ws = w, !.back = back]
  <2>1. req' = [req EXCEPT ![r] = p]
    BY <1>5 DEF Find, WorkspaceOf
  <2> HIDE DEF w, back
  <2>7. req[r] \in RequestTypes
    BY Fields
  <2>2. p \in RequestTypes
    BY <1>3, <2>7 DEF RequestTypes, Phases
  <2>3. /\ p.at = "assign" /\ p.ws = w /\ p.back = back
        /\ p.kind = req[r].kind /\ p.box = req[r].box
    BY Fields DEF RequestTypes
  <2> HIDE DEF p
  <2>4. Others(r) /\ req'[r] = p
    BY <2>1, <2>2, Moves
  <2>5. Coming(r)'
    BY <1>1, <1>2, <1>3, <1>4, <1>5, <2>3, <2>4, BoxesAssumption DEF Coming, boxes, docs, w
  <2>6. {req[r].at, req'[r].at} \cap {"work", "unregister"} = {}
          /\ req'[r].at \notin Inside /\ Busy(r)
    BY <1>1, <2>3, <2>4 DEF Inside, Busy, Ended
  <2> QED
    BY <1>1, <2>3, <2>4, <2>5, <2>6, OnlyRequest
<1>6. CASE req[r].box # NoBox
  <2>1. With(r, req[r].box, req[r].saw, w, back)
    BY <1>6 DEF Find, WorkspaceOf
  <2>2. req[r].box \in Boxes /\ req[r].saw \in States
    BY <1>6, Fields
  <2>3. state'[req[r].box] # "READY"
    BY <1>1, <1>2, <1>6 DEF Coming, boxes
  <2>4. w # NoOne => state[sandbox[w]] = "DESTROYING" \/ req[r].box = sandbox[w]
    BY <1>2 DEF Coming
  <2> HIDE DEF w, back
  <2>5. Others(r) /\ req'[r].kind = req[r].kind
          /\ req'[r].at \in {"failed", "lease", "restore", "mkdir"}
    <3>1. w \in Requests \cup {NoOne} /\ back \in Boxes \cup {NoBox}
      BY <1>3
    <3> QED
      BY <2>1, <2>2, <3>1, WithBox
  <2>6. (req'[r].at \in Way => Coming(r)') /\ (req'[r].at \in Inside => There(r)')
    BY <1>1, <1>3, <2>1, <2>2, <2>3, <2>4, WithServes DEF RestartInv, boxes, w
  <2>7. {req[r].at, req'[r].at} \cap {"work", "unregister"} = {} /\ Busy(r)
    BY <1>1, <2>5 DEF Busy, Ended
  <2> QED
    BY <1>1, <2>5, <2>6, <2>7, OnlyRequest
<1> QED
  BY <1>5, <1>6

\* A request that lost the race for a binding looks again.
LEMMA AgainStep ==
  ASSUME TypeOK, RestartInv, NEW r \in Requests, Again(r)
  PROVE  RestartInv'
<1>1. UNCHANGED <<boxes, docs, dir, cache, acked, service>> /\ req[r].at = "again"
  BY DEF Again
<1>2. Coming(r)
  BY <1>1 DEF RestartInv, RequestInv, Way
<1>3. CASE Goes(r, "failed")
  <2>1. Others(r) /\ req'[r].at = "failed" /\ req'[r].kind = req[r].kind
    BY <1>3, GoesOn DEF Phases
  <2> QED
    BY <1>1, <2>1, OnlyRequest DEF Way, Inside, Busy, Ended
<1>4. ASSUME NEW b \in Binding, With(r, b, state[b], req[r].ws, req[r].back)
      PROVE  RestartInv'
  <2>1. b \in Boxes /\ state[b] \in States /\ state[b] # "READY"
    BY DEF Binding, Bound, TypeOK
  <2>2. /\ req[r].ws = latest[Session[r]] /\ (req[r].ws # NoOne => req[r].back = sandbox[req[r].ws])
        /\ req[r].ws # NoOne => state[sandbox[req[r].ws]] = "DESTROYING"
    BY <1>1, <1>2 DEF Coming
  <2>3. Others(r) /\ req'[r].kind = req[r].kind
          /\ req'[r].at \in {"failed", "lease", "restore", "mkdir"}
    <3>1. req[r].ws \in Requests \cup {NoOne} /\ req[r].back \in Boxes \cup {NoBox}
      BY Fields
    <3> QED
      BY <1>4, <2>1, <3>1, WithBox
  <2>4. (req'[r].at \in Way => Coming(r)') /\ (req'[r].at \in Inside => There(r)')
    BY <1>1, <1>4, <2>1, <2>2, Fields, WithServes DEF RestartInv, boxes
  <2>5. {req[r].at, req'[r].at} \cap {"work", "unregister"} = {} /\ Busy(r)
    BY <1>1, <2>3 DEF Busy, Ended
  <2> QED
    BY <1>1, <2>3, <2>4, <2>5, OnlyRequest
<1> QED
  BY <1>3, <1>4 DEF Again

\* A directory is made for a new workspace.
LEMMA MkdirStep ==
  ASSUME TypeOK, RestartInv, NEW r \in Requests, Mkdir(r)
  PROVE  RestartInv'
<1>1. UNCHANGED <<boxes, docs, dir, cache, acked, service>> /\ req[r].at = "mkdir"
  BY DEF Mkdir
<1>2. Coming(r)
  BY <1>1 DEF RestartInv, RequestInv, Way
<1>3. PICK a \in {"attach", "failed"} : Goes(r, a) /\ (a = "attach" => req[r].box \in alive)
  BY DEF Mkdir
<1>4. /\ Others(r) /\ req'[r].at = a /\ req'[r].kind = req[r].kind /\ req'[r].box = req[r].box
      /\ req'[r].ws = req[r].ws /\ req'[r].back = req[r].back
  BY <1>3, GoesOn DEF Phases
<1>5. a = "attach" => Coming(r)'
  BY <1>1, <1>2, <1>3, <1>4 DEF Coming, Kept, boxes, docs
<1>6. {req[r].at, req'[r].at} \cap {"work", "unregister"} = {} /\ Busy(r)
        /\ req'[r].at \notin Inside
  BY <1>1, <1>4 DEF Busy, Ended, Inside
<1>7. req'[r].at \in Way => Coming(r)'
  BY <1>4, <1>5 DEF Way
<1> QED
  BY <1>1, <1>4, <1>6, <1>7, OnlyRequest

\* A command looks its workspace up.
LEMMA LeaseStep ==
  ASSUME TypeOK, RestartInv, NEW r \in Requests, Lease(r)
  PROVE  RestartInv'
<1>1. UNCHANGED <<boxes, docs, dir, cache, acked, service>> /\ req[r].at = "lease"
  BY DEF Lease
<1>2. There(r)
  BY <1>1 DEF RestartInv, RequestInv, Inside
<1>3. PICK a \in {"register", "unavailable"} : Goes(r, a)
  BY DEF Lease
<1>4. /\ Others(r) /\ req'[r].at = a /\ req'[r].kind = req[r].kind
      /\ req'[r].ws = req[r].ws /\ req'[r].back = req[r].back
  BY <1>3, GoesOn DEF Phases
<1>5. There(r)'
  BY <1>1, <1>2, <1>4 DEF There, boxes, docs
<1>6. {req[r].at, req'[r].at} \cap {"work", "unregister"} = {} /\ Busy(r) /\ req'[r].at \notin Way
  BY <1>1, <1>4 DEF Busy, Ended, Way
<1> QED
  BY <1>1, <1>4, <1>5, <1>6, OnlyRequest

\* A ready box is given to a user who has none.
LEMMA AssignStep ==
  ASSUME TypeOK, BindInv, OnlyRestarts, RestartInv, NEW r \in Requests, Assign(r)
  PROVE  RestartInv'
<1>1. UNCHANGED <<alive, docs, dir, cache, acked, service>> /\ req[r].at = "assign"
  BY DEF Assign
<1>2. Coming(r)
  BY <1>1 DEF RestartInv, RequestInv, Way
<1>3. ASSUME NEW a \in {"failed", "again"}, Goes(r, a), UNCHANGED <<state, count, idle>>
      PROVE  RestartInv'
  <2>1. /\ Others(r) /\ req'[r].at = a /\ req'[r].kind = req[r].kind /\ req'[r].box = req[r].box
        /\ req'[r].ws = req[r].ws /\ req'[r].back = req[r].back
    BY <1>3, GoesOn DEF Phases
  <2>2. a = "again" => Coming(r)'
    BY <1>1, <1>2, <1>3, <2>1 DEF Coming, docs
  <2>3. {req[r].at, req'[r].at} \cap {"work", "unregister"} = {} /\ Busy(r)
          /\ req'[r].at \notin Inside
    BY <1>1, <2>1 DEF Busy, Ended, Inside
  <2>4. req'[r].at \in Way => Coming(r)'
    BY <2>1, <2>2 DEF Way
  <2> QED
    BY <1>1, <1>3, <2>1, <2>3, <2>4, OnlyRequest DEF boxes
<1>4. ASSUME NEW b \in Ready, \A c \in Boxes : state[c] # "USER_ACTIVE",
             state' = [state EXCEPT ![b] = "USER_ACTIVE"], count' = [count EXCEPT ![b] = 0],
             With(r, b, "USER_ACTIVE", req[r].ws, req[r].back)
      PROVE  RestartInv'
  <2>1. b \in Boxes /\ state[b] = "READY"
    BY DEF Ready
  <2>2. /\ state'[b] = "USER_ACTIVE" /\ count'[b] = 0
        /\ \A c \in Boxes \ {b} : state'[c] = state[c] /\ count'[c] = count[c]
    BY <1>4, <2>1 DEF TypeOK
  <2>3. /\ req[r].ws = latest[Session[r]] /\ (req[r].ws # NoOne => req[r].back = sandbox[req[r].ws])
        /\ req[r].ws # NoOne => state[sandbox[req[r].ws]] = "DESTROYING"
    BY <1>1, <1>2 DEF Coming
  <2>4. req[r].ws \in Requests \cup {NoOne} /\ req[r].back \in Boxes \cup {NoBox}
          /\ "USER_ACTIVE" \in States
    BY Fields DEF States
  <2>5. Others(r) /\ req'[r].kind = req[r].kind
          /\ req'[r].at \in {"failed", "lease", "restore", "mkdir"}
    BY <1>4, <2>1, <2>4, WithBox
  <2>6. (req'[r].at \in Way => Coming(r)') /\ (req'[r].at \in Inside => There(r)')
    BY <1>1, <1>4, <2>1, <2>2, <2>3, <2>4, WithServes DEF RestartInv
  <2>7. \A c \in Boxes : /\ state[c] # "READY" => state'[c] = state[c]
                         /\ state'[c] # "USER_ACTIVE" => state'[c] = state[c]
    BY <2>1, <2>2
  <2>8. TurnsInv'
    BY <1>1, <2>5, TurnsStay DEF RestartInv, Others, Busy, Ended
  <2>9. NamesInv'
    BY <1>1, <2>7, NamesStay DEF RestartInv
  <2>10. CountInv'
    <3>1. Registered' = Registered
      BY <1>1, <2>5 DEF Registered, Others
    <3>2. \A q \in Requests : req[q].at \in {"work", "unregister"} =>
            state[req[q].back] = "USER_ACTIVE" /\ req[q].back \in Boxes
      BY DEF RestartInv, RequestInv, There, Inside
    <3>3. Registered[b] = {}
      BY <2>1, <3>2 DEF Registered
    <3>4. Cardinality(Registered[b]) = 0
      BY <3>3, FS_EmptySet
    <3>5. \A c \in Boxes : c \notin alive' => state'[c] = "DESTROYING"
      BY <1>1, <2>1, <2>7 DEF RestartInv, CountInv
    <3>6. \A c \in Boxes : state'[c] = "USER_ACTIVE" => count'[c] = Cardinality(Registered[c])
      BY <1>4, <2>2, <3>4
    <3>7. \A c \in Boxes : IsFiniteSet(Registered[c])
      BY DEF RestartInv, CountInv
    <3> QED
      BY <3>1, <3>5, <3>6, <3>7 DEF CountInv
  <2>11. RequestInv'
    <3>1. ASSUME NEW q \in Requests, q # r
          PROVE  (req'[q].at \in Way => Coming(q)') /\ (req'[q].at \in Inside => There(q)')
      <4>1. req'[q] = req[q]
        BY <2>5, <3>1 DEF Others
      <4>2. req[q].at \in {"work", "unregister"} => state'[req[q].back] = "USER_ACTIVE"
        BY <1>4 DEF RestartInv, RequestInv, There, Inside
      <4> QED
        BY <1>1, <2>7, <4>1, <4>2, StaysPut DEF RestartInv, docs
    <3> QED
      BY <2>6, <3>1 DEF RequestInv
  <2>12. WatchInv'
    <3>1. WatchInv /\ UNCHANGED <<watcher, alive, sandbox, cache, acked>>
      BY <1>1 DEF RestartInv, docs, service
    <3>2. watcher.at # "idle" => state'[watcher.box] = state[watcher.box]
      BY <2>7, <3>1 DEF WatchInv
    <3> QED
      BY <3>1, <3>2 DEF WatchInv, Kept
  <2>13. KeptInv'
    <3>1. \A w \in Requests : sandbox[w] \in Boxes => state[sandbox[w]] # "READY"
      BY Own DEF RestartInv
    <3>2. \A w \in Requests : sandbox[w] \in Bound <=> sandbox[w] \in Bound'
      BY <2>2, <2>7, <3>1 DEF Bound
    <3> QED
      BY <1>1, <3>2, KeptStays DEF RestartInv, TypeOK
  <2> QED
    BY <2>8, <2>9, <2>10, <2>11, <2>12, <2>13 DEF RestartInv
<1> QED
  BY <1>3, <1>4 DEF Assign

\* What the cache has of a workspace is copied to the box.
LEMMA RestoreStep ==
  ASSUME TypeOK, OnlyRestarts, RestartInv, NEW r \in Requests, Restore(r)
  PROVE  RestartInv'
<1> DEFINE w == latest[Session[r]]
           b == req[r].box
<1>1. UNCHANGED <<boxes, docs, cache, acked, service>> /\ req[r].at = "restore"
  BY DEF Restore
<1>2. Coming(r)
  BY <1>1 DEF RestartInv, RequestInv, Way
<1>3. /\ w \in Requests /\ req[r].ws = w /\ Id(r) = w /\ b \in Boxes /\ sandbox[w] \in Boxes
      /\ state[sandbox[w]] = "DESTROYING" /\ state[b] # "READY" /\ Session[w] = Session[r]
  BY <1>1, <1>2, Fields, BoxesAssumption DEF Coming, Id, RestartInv, NamesInv
<1>4. Kept(Session[r], cache[w])
  BY <1>3, Cached, Fields, NoOneAssumption DEF RestartInv
<1>5. CASE UNCHANGED dir /\ Goes(r, "mkdir") /\ b \notin alive
  <2>1. /\ Others(r) /\ req'[r].at = "mkdir" /\ req'[r].kind = req[r].kind
             /\ req'[r].box = req[r].box
        /\ req'[r].ws = req[r].ws /\ req'[r].back = req[r].back
    BY <1>5, GoesOn DEF Phases
  <2>2. Coming(r)'
    BY <1>1, <1>2, <1>5, <2>1 DEF Coming, boxes, docs
  <2>3. {req[r].at, req'[r].at} \cap {"work", "unregister"} = {} /\ Busy(r)
          /\ req'[r].at \notin Inside
    BY <1>1, <2>1 DEF Busy, Ended, Inside
  <2> QED
    BY <1>1, <1>5, <2>1, <2>2, <2>3, OnlyRequest
<1>6. CASE /\ dir' = [dir EXCEPT ![b][w] = IF cache[w] = {} THEN @ ELSE cache[w]]
           /\ Goes(r, "attach")
  <2>1. /\ Others(r) /\ req'[r].at = "attach" /\ req'[r].kind = req[r].kind
             /\ req'[r].box = req[r].box
        /\ req'[r].ws = req[r].ws /\ req'[r].back = req[r].back
    BY <1>6, GoesOn DEF Phases
  <2>2. /\ cache[w] \subseteq dir'[b][w]
        /\ \A c \in Boxes, v \in Requests : v # w \/ c # b => dir'[c][v] = dir[c][v]
    BY <1>3, <1>6 DEF TypeOK
  <2>3. Coming(r)'
    <3>1. Kept(Session[r], dir'[b][w])
      BY <1>4, <2>2 DEF Kept
    <3> QED
      BY <1>1, <1>2, <1>3, <2>1, <3>1 DEF Coming, Kept, boxes, docs
  <2>4. TurnsInv'
    BY <1>1, <2>1, TurnsStay DEF RestartInv, Others, Busy, Ended
  <2>5. NamesInv'
    BY <1>1, NamesStay DEF RestartInv, boxes
  <2>6. CountInv'
    <3>1. Registered' = Registered
      BY <1>1, <2>1 DEF Registered, Others
    <3> QED
      BY <1>1, <3>1 DEF CountInv, RestartInv, boxes
  <2>7. RequestInv'
    <3>1. ASSUME NEW q \in Requests, q # r
          PROVE  (req'[q].at \in Way => Coming(q)') /\ (req'[q].at \in Inside => There(q)')
      <4>1. req'[q] = req[q]
        BY <2>1, <3>1 DEF Others
      <4>2. req[q].at \in {"work", "unregister"} => state'[req[q].back] = "USER_ACTIVE"
        BY <1>1 DEF RestartInv, RequestInv, There, Inside, boxes
      <4>3. CASE Busy(q)
        <5>1. Session[q] # Session[r] /\ Session[q] \in Sessions
          BY <1>1, <3>1, <4>3, Fields DEF RestartInv, TurnsInv, Busy, Ended
        <5>2. latest[Session[q]] # NoOne => latest[Session[q]] # w
                /\ latest[Session[q]] \in Requests
          BY <1>3, <5>1, Fields DEF RestartInv, NamesInv
        <5>3. latest[Session[q]] # NoOne =>
                \A c \in Boxes : dir[c][latest[Session[q]]] \subseteq dir'[c][latest[Session[q]]]
          BY <2>2, <5>2
        <5> QED
          BY <1>1, <4>1, <4>2, <5>3, StaysPut DEF RestartInv, docs, boxes
      <4>4. CASE ~Busy(q)
        BY <4>1, <4>4 DEF Busy, Way, Inside, Ended
      <4> QED
        BY <4>3, <4>4
    <3> QED
      BY <2>1, <2>3, <3>1 DEF RequestInv, Inside
  <2>8. WatchInv'
    BY <1>1 DEF RestartInv, WatchInv, Kept, boxes, docs, service
  <2>9. KeptInv'
    <3>1. \A v \in Requests : sandbox[v] \in Bound <=> sandbox[v] \in Bound'
      BY <1>1 DEF Bound, boxes
    <3>2. \A v \in Requests : sandbox[v] \in Bound =>
            dir[sandbox[v]][v] \subseteq dir'[sandbox[v]][v]
      BY <1>3, <2>2 DEF Bound
    <3> QED
      BY <1>1, <3>1, <3>2, KeptStays DEF RestartInv, TypeOK
  <2> QED
    BY <2>4, <2>5, <2>6, <2>7, <2>8, <2>9 DEF RestartInv
<1> QED
  BY <1>3, <1>5, <1>6 DEF Restore, OnlyRestarts

\* The workspace document is written: its files are in the box it names.
LEMMA AttachStep ==
  ASSUME TypeOK, RestartInv, NEW r \in Requests, Attach(r)
  PROVE  RestartInv'
<1> DEFINE s == Session[r]
           w == latest[s]
           b == req[r].box
           i == Id(r)
<1>1. UNCHANGED <<boxes, dir, cache, acked, service>> /\ req[r].at = "attach"
  BY DEF Attach
<1>2. Coming(r)
  BY <1>1 DEF RestartInv, RequestInv, Way
<1>3. /\ s \in Sessions /\ w \in Requests \cup {NoOne} /\ req[r].ws = w /\ b \in Boxes
      /\ i = (IF w = NoOne THEN r ELSE w) /\ i \in Requests /\ i # NoOne /\ state[b] # "READY"
      /\ w # NoOne => Session[w] = s /\ sandbox[w] \in Boxes /\ state[sandbox[w]] = "DESTROYING"
      /\ w # NoOne => req[r].back = sandbox[w]
      /\ req[r].back \in Boxes \cup {NoBox}
  BY <1>1, <1>2, Fields, NoOneAssumption, BoxesAssumption DEF Coming, Id, RestartInv, NamesInv
<1>4. Session[i] = s
  BY <1>3
<1>5. /\ sandbox' = [sandbox EXCEPT ![i] = b]
      /\ latest' = [latest EXCEPT ![s] = i]
      /\ req' = [req EXCEPT ![r] = [req[r] EXCEPT !.at = "lease", !.ws = i,
                                      !.back = IF req[r].ws = NoOne THEN req[r].box ELSE req[r].back]]
  BY DEF Attach
<1> DEFINE back == IF w = NoOne THEN b ELSE req[r].back
           p == [req[r] EXCEPT !.at = "lease", !.ws = i, !.back = back]
<1>6. req' = [req EXCEPT ![r] = p]
  BY <1>3, <1>5
<1>7. /\ sandbox'[i] = b /\ \A v \in Requests \ {i} : sandbox'[v] = sandbox[v]
      /\ latest'[s] = i /\ \A t \in Sessions \ {s} : latest'[t] = latest[t]
  BY <1>3, <1>5 DEF TypeOK
\* What was reported in the session is in the cache.
<1>8. \A F : w = NoOne => Kept(s, F)
  BY <1>3, Cached DEF RestartInv, Kept
<1>9. Kept(s, cache[i])
  BY <1>3, <1>8, Cached DEF RestartInv
<1>10. Kept(s, dir[b][i])
  BY <1>1, <1>2, <1>3, <1>8 DEF Coming
\* Workspace i was in no box, or in a released one.
<1>11. sandbox[i] \in Boxes => state[sandbox[i]] = "DESTROYING" /\ w = i
  BY <1>3, <1>4, Own DEF RestartInv
<1> HIDE DEF i, w, b, back
<1>12. back \in Boxes /\ (back = b \/ state[back] = "DESTROYING")
  BY <1>3 DEF back
<1>13. p \in RequestTypes
  <2>1. req[r] \in RequestTypes /\ i \in Requests /\ back \in Boxes
    BY <1>3, <1>12, Fields
  <2> QED
    BY <2>1 DEF RequestTypes, Phases
<1>14. p.at = "lease" /\ p.kind = req[r].kind /\ p.ws = i /\ p.back = back
  BY Fields DEF RequestTypes
<1> HIDE DEF p
<1>15. Others(r) /\ req'[r] = p
  BY <1>6, <1>13, Moves
<1>16. There(r)'
  BY <1>1, <1>3, <1>7, <1>12, <1>14, <1>15 DEF There, boxes
<1>17. TurnsInv'
  BY <1>1, <1>14, <1>15, TurnsStay DEF RestartInv, Others, Busy, Ended
<1>18. NamesInv'
  <2>1. ASSUME NEW t \in Sessions, latest'[t] # NoOne
        PROVE  Session[latest'[t]] = t /\ sandbox'[latest'[t]] \in Boxes
               /\ state'[sandbox'[latest'[t]]] # "READY"
    <3>1. CASE t = s
      BY <1>1, <1>3, <1>4, <1>7, <3>1 DEF boxes
    <3>2. CASE t # s
      <4>1. latest'[t] = latest[t] /\ latest[t] \in Requests /\ latest[t] # i
        BY <1>4, <1>7, <2>1, <3>2 DEF RestartInv, NamesInv, TypeOK
      <4> QED
        BY <1>1, <1>7, <2>1, <4>1 DEF RestartInv, NamesInv, boxes
    <3> QED
      BY <3>1, <3>2
  <2>2. ASSUME NEW v \in Requests, sandbox'[v] # NoBox
        PROVE  latest'[Session[v]] = v
    <3>1. CASE v = i
      BY <1>4, <1>7, <3>1
    <3>2. CASE v # i
      <4>1. sandbox[v] \in Boxes /\ latest[Session[v]] = v /\ Session[v] \in Sessions
        BY <1>7, <2>2, <3>2, Own, Fields DEF TypeOK, RestartInv
      <4>2. Session[v] # s
        BY <1>3, <3>2, <4>1, NoOneAssumption DEF w
      <4> QED
        BY <1>7, <4>1, <4>2
    <3> QED
      BY <3>1, <3>2
  <2> QED
    BY <2>1, <2>2 DEF NamesInv
<1>19. CountInv'
  <2>1. Registered' = Registered
    BY <1>1, <1>14, <1>15 DEF Registered, Others
  <2> QED
    BY <1>1, <2>1 DEF CountInv, RestartInv, boxes
<1>20. RequestInv'
  <2>1. ASSUME NEW q \in Requests, q # r
        PROVE  (req'[q].at \in Way => Coming(q)') /\ (req'[q].at \in Inside => There(q)')
    <3>1. req'[q] = req[q]
      BY <1>15, <2>1 DEF Others
    <3>2. req[q].at \in {"work", "unregister"} => state'[req[q].back] = "USER_ACTIVE"
      BY <1>1 DEF RestartInv, RequestInv, There, Inside, boxes
    <3>3. CASE Busy(q)
      <4>1. Session[q] # s /\ Session[q] \in Sessions
        BY <1>1, <2>1, <3>3, Fields DEF RestartInv, TurnsInv, Busy, Ended
      <4>2. latest'[Session[q]] = latest[Session[q]]
        BY <1>7, <4>1
      <4>3. latest[Session[q]] # NoOne => latest[Session[q]] # i /\ latest[Session[q]] \in Requests
        BY <1>4, <4>1, Fields DEF RestartInv, NamesInv
      <4>4. latest[Session[q]] # NoOne => sandbox'[latest[Session[q]]] = sandbox[latest[Session[q]]]
        BY <1>7, <4>3
      <4> QED
        BY <1>1, <3>1, <3>2, <4>2, <4>4, StaysPut DEF RestartInv, boxes
    <3>4. CASE ~Busy(q)
      BY <3>1, <3>4 DEF Busy, Way, Inside, Ended
    <3> QED
      BY <3>3, <3>4
  <2> QED
    BY <1>14, <1>15, <1>16, <2>1 DEF RequestInv, Way
<1>21. WatchInv'
  <2>1. WatchInv /\ UNCHANGED <<watcher, alive, state, cache, acked>>
    BY <1>1 DEF RestartInv, boxes, service
  <2>2. watcher.at = "publish" => watcher.ws # i
    BY <1>11, <2>1 DEF WatchInv
  <2>3. watcher.at = "publish" => sandbox'[watcher.ws] = watcher.box
    BY <1>7, <2>1, <2>2 DEF WatchInv
  <2>5. watcher.at \in {"export", "publish"} /\ state[watcher.box] = "RETIRING" =>
          \A v \in watcher.todo : sandbox'[v] = watcher.box
    <3>1. watcher.todo \subseteq Requests
      BY DEF TypeOK, ReclaimTypes
    <3> QED
      BY <1>7, <1>11, <2>1, <3>1 DEF WatchInv
  <2>4. watcher.at \in {"export", "publish"} /\ state[watcher.box] = "RETIRING" =>
          \A v \in Requests : sandbox'[v] = watcher.box /\ v \notin watcher.todo =>
            Kept(Session[v], cache[v])
    BY <1>4, <1>7, <1>9, <2>1 DEF WatchInv
  <2> QED
    BY <2>1, <2>3, <2>4, <2>5 DEF WatchInv, Kept
<1>22. KeptInv'
  <2>1. ASSUME NEW t \in Sessions
        PROVE  Kept(t, Contents(t))'
    <3>1. Bound' = Bound
      BY <1>1 DEF Bound, boxes
    <3>2. CASE t = s
      <4>1. Contents(s)' = IF b \in Bound THEN dir[b][i] ELSE cache[i]
        BY <1>1, <1>3, <1>7, <3>1 DEF Contents, WorkspaceOf
      <4> QED
        BY <1>1, <1>9, <1>10, <3>2, <4>1 DEF Kept
    <3>3. CASE t # s
      <4>1. latest'[t] = latest[t] /\ (latest[t] # NoOne => latest[t] \in Requests /\ latest[t] # i)
        BY <1>4, <1>7, <3>3 DEF RestartInv, NamesInv, TypeOK
      <4>2. Contents(t)' = Contents(t)
        BY <1>1, <1>7, <3>1, <4>1 DEF Contents, WorkspaceOf
      <4> QED
        BY <1>1, <4>2 DEF RestartInv, KeptInv, Kept
    <3> QED
      BY <3>2, <3>3
  <2> QED
    BY <2>1 DEF KeptInv
<1> QED
  BY <1>17, <1>18, <1>19, <1>20, <1>21, <1>22 DEF RestartInv

\* A command protects its box, which nobody took meanwhile.
LEMMA RegisterStep ==
  ASSUME TypeOK, RestartInv, NEW r \in Requests, Register(r)
  PROVE  RestartInv'
<1> DEFINE b == req[r].back
<1>1. UNCHANGED <<state, alive, docs, dir, cache, acked, service>> /\ req[r].at = "register"
  BY DEF Register
<1>2. There(r) /\ b \in Boxes /\ req[r].kind = "command"
  BY <1>1 DEF RestartInv, RequestInv, Inside, There, TurnsInv
<1>3. CASE Goes(r, "failed") /\ UNCHANGED <<count, idle>>
  <2>1. Others(r) /\ req'[r].at = "failed" /\ req'[r].kind = req[r].kind
    BY <1>3, GoesOn DEF Phases
  <2> QED
    BY <1>1, <1>3, <2>1, OnlyRequest DEF Way, Inside, Busy, Ended, boxes
<1>4. CASE state[b] = "USER_ACTIVE" /\ count' = [count EXCEPT ![b] = @ + 1] /\ Goes(r, "work")
  <2>1. /\ Others(r) /\ req'[r].at = "work" /\ req'[r].kind = req[r].kind
        /\ req'[r].ws = req[r].ws /\ req'[r].back = req[r].back
    BY <1>4, GoesOn DEF Phases
  <2>2. There(r)'
    BY <1>1, <1>2, <1>4, <2>1 DEF There, docs
  <2>3. TurnsInv'
    BY <1>1, <2>1, TurnsStay DEF RestartInv, Others, Busy, Ended
  <2>4. NamesInv'
    BY <1>1, NamesStay DEF RestartInv
  <2>5. CountInv'
    <3>1. /\ Registered'[b] = Registered[b] \cup {r} /\ r \notin Registered[b]
          /\ \A c \in Boxes \ {b} : Registered'[c] = Registered[c]
      BY <1>1, <1>2, <2>1 DEF Registered, Others
    <3>2. IsFiniteSet(Registered[b]) /\ count[b] = Cardinality(Registered[b])
      BY <1>2, <1>4 DEF RestartInv, CountInv
    <3>3. IsFiniteSet(Registered'[b]) /\ Cardinality(Registered'[b]) = count[b] + 1
      <4>1. /\ IsFiniteSet(Registered[b] \cup {r})
            /\ Cardinality(Registered[b] \cup {r}) = Cardinality(Registered[b]) + 1
        BY <3>1, <3>2, FS_AddElement
      <4> QED
        BY <3>1, <3>2, <4>1
    <3>4. count'[b] = count[b] + 1 /\ \A c \in Boxes \ {b} : count'[c] = count[c]
      BY <1>2, <1>4 DEF TypeOK
    <3> QED
      BY <1>1, <3>1, <3>3, <3>4 DEF RestartInv, CountInv
  <2>6. RequestInv'
    <3>1. ASSUME NEW q \in Requests, q # r
          PROVE  (req'[q].at \in Way => Coming(q)') /\ (req'[q].at \in Inside => There(q)')
      <4>1. req'[q] = req[q]
        BY <2>1, <3>1 DEF Others
      <4>2. req[q].at \in {"work", "unregister"} => state'[req[q].back] = "USER_ACTIVE"
        BY <1>1 DEF RestartInv, RequestInv, There, Inside
      <4> QED
        BY <1>1, <4>1, <4>2, StaysPut DEF RestartInv, docs
    <3> QED
      BY <2>1, <2>2, <3>1 DEF RequestInv, Way
  <2>7. WatchInv'
    BY <1>1 DEF RestartInv, WatchInv, Kept, docs, service
  <2>8. KeptInv'
    <3>1. Bound' = Bound
      BY <1>1 DEF Bound
    <3> QED
      BY <1>1, <3>1, KeptStays DEF RestartInv, TypeOK
  <2> QED
    BY <2>3, <2>4, <2>5, <2>6, <2>7, <2>8 DEF RestartInv
<1> QED
  BY <1>2, <1>3, <1>4 DEF Register

\* What a command does is in the box, and is reported.
LEMMA WorkStep ==
  ASSUME TypeOK, RestartInv, NEW r \in Requests, Work(r)
  PROVE  RestartInv'
<1> DEFINE s == Session[r]
           w == req[r].ws
           b == req[r].back
<1>1. UNCHANGED <<boxes, docs, cache, service>> /\ req[r].at = "work" /\ Goes(r, "unregister")
  BY DEF Work
<1>2. There(r)
  BY <1>1 DEF RestartInv, RequestInv, Inside
<1>3. /\ w = latest[s] /\ w \in Requests /\ Session[w] = s /\ s \in Sessions
      /\ b \in Boxes /\ state[b] = "USER_ACTIVE" /\ sandbox[w] = b
  BY <1>1, <1>2, Fields, NoOneAssumption DEF There, RestartInv, NamesInv
<1>4. /\ dir' = [dir EXCEPT ![b][w] = @ \cup {r}]
      /\ acked' = acked \cup {r}
  <2>1. b \in alive
    BY <1>3 DEF RestartInv, CountInv
  <2> QED
    BY <2>1 DEF Work
<1>5. /\ dir'[b][w] = dir[b][w] \cup {r}
      /\ \A c \in Boxes, v \in Requests : c # b \/ v # w => dir'[c][v] = dir[c][v]
  BY <1>3, <1>4 DEF TypeOK
<1>6. /\ Others(r) /\ req'[r].at = "unregister" /\ req'[r].kind = req[r].kind
      /\ req'[r].ws = req[r].ws /\ req'[r].back = req[r].back
  BY <1>1, GoesOn DEF Phases
<1> HIDE DEF s, w, b
<1>7. There(r)'
  BY <1>1, <1>2, <1>6 DEF There, boxes, docs
<1>8. TurnsInv'
  BY <1>1, <1>6, TurnsStay DEF RestartInv, Others, Busy, Ended
<1>9. NamesInv'
  BY <1>1, NamesStay DEF RestartInv, boxes
<1>10. CountInv'
  <2>1. Registered' = Registered
    BY <1>1, <1>6 DEF Registered, Others
  <2> QED
    BY <1>1, <2>1 DEF CountInv, RestartInv, boxes
<1>11. RequestInv'
  <2>1. ASSUME NEW q \in Requests, q # r
        PROVE  (req'[q].at \in Way => Coming(q)') /\ (req'[q].at \in Inside => There(q)')
    <3>1. req'[q] = req[q]
      BY <1>6, <2>1 DEF Others
    <3>2. req[q].at \in {"work", "unregister"} => state'[req[q].back] = "USER_ACTIVE"
      BY <1>1 DEF RestartInv, RequestInv, There, Inside, boxes
    <3>3. CASE Busy(q)
      <4>1. Session[q] # s
        BY <1>1, <2>1, <3>3 DEF RestartInv, TurnsInv, Busy, Ended, s
      <4>2. \A p \in acked' : Session[p] = Session[q] => p \in acked
        BY <1>4, <4>1 DEF s
      <4>3. latest[Session[q]] # NoOne =>
              \A c \in Boxes : dir[c][latest[Session[q]]] \subseteq dir'[c][latest[Session[q]]]
        BY <1>5, Fields
      <4> QED
        BY <1>1, <3>1, <3>2, <4>2, <4>3, StaysPut DEF RestartInv, boxes, docs
    <3>4. CASE ~Busy(q)
      BY <3>1, <3>4 DEF Busy, Way, Inside, Ended
    <3> QED
      BY <3>3, <3>4
  <2> QED
    BY <1>6, <1>7, <2>1 DEF RequestInv, Way
<1>12. WatchInv'
  <2>1. WatchInv /\ UNCHANGED <<watcher, alive, state, sandbox, cache>>
    BY <1>1 DEF RestartInv, boxes, docs, service
  <2>2. ASSUME NEW v \in Requests, sandbox[v] = watcher.box, state[watcher.box] = "RETIRING",
               watcher.box \in Boxes, NEW F, Kept(Session[v], F)
        PROVE  Kept(Session[v], F)'
    <3>1. latest[Session[v]] = v /\ v # w
      BY <1>3, <2>2, Own DEF RestartInv
    <3>2. Session[v] # s
      BY <1>3, <3>1
    <3> QED
      BY <1>4, <2>2, <3>2 DEF Kept, s
  <2> QED
    BY <2>1, <2>2 DEF WatchInv
<1>13. KeptInv'
  <2>1. ASSUME NEW t \in Sessions
        PROVE  Kept(t, Contents(t))'
    <3>1. Bound' = Bound /\ b \in Bound
      BY <1>1, <1>3 DEF Bound, boxes
    <3>2. Kept(t, Contents(t))
      BY DEF RestartInv, KeptInv
    <3>3. CASE t = s
      <4>1. Contents(s)' = Contents(s) \cup {r}
        BY <1>1, <1>3, <1>5, <3>1, NoOneAssumption DEF Contents, WorkspaceOf, docs
      <4> QED
        BY <1>4, <3>2, <3>3, <4>1 DEF Kept
    <3>4. CASE t # s
      <4>1. latest[t] # NoOne => latest[t] # w /\ latest[t] \in Requests
        BY <1>3, <3>4 DEF RestartInv, NamesInv, TypeOK
      <4>2. Contents(t)' = Contents(t)
        BY <1>1, <1>5, <3>1, <4>1 DEF Contents, WorkspaceOf, docs, Bound
      <4> QED
        BY <1>4, <3>2, <3>4, <4>2 DEF Kept, s
    <3> QED
      BY <3>3, <3>4
  <2> QED
    BY <2>1 DEF KeptInv
<1> QED
  BY <1>8, <1>9, <1>10, <1>11, <1>12, <1>13 DEF RestartInv

\* The protection of a command ends with it.
LEMMA UnregisterStep ==
  ASSUME TypeOK, RestartInv, NEW r \in Requests, Unregister(r)
  PROVE  RestartInv'
<1> DEFINE b == req[r].back
<1>1. /\ UNCHANGED <<state, idle, alive, docs, dir, cache, acked, service>>
      /\ req[r].at = "unregister" /\ Goes(r, "done")
      /\ count' = [count EXCEPT ![b] = IF @ >= 1 THEN @ - 1 ELSE @]
  BY DEF Unregister
<1>2. There(r) /\ b \in Boxes /\ state[b] = "USER_ACTIVE"
  BY <1>1 DEF RestartInv, RequestInv, Inside, There
<1>3. Others(r) /\ req'[r].at = "done" /\ req'[r].kind = req[r].kind
  BY <1>1, GoesOn DEF Phases
<1>4. TurnsInv'
  BY <1>1, <1>3, TurnsStay DEF RestartInv, Others, Busy, Ended
<1>5. NamesInv'
  BY <1>1, NamesStay DEF RestartInv
<1>6. CountInv'
  <2>1. /\ Registered'[b] = Registered[b] \ {r} /\ r \in Registered[b]
        /\ \A c \in Boxes \ {b} : Registered'[c] = Registered[c]
    BY <1>1, <1>2, <1>3 DEF Registered, Others
  <2>2. IsFiniteSet(Registered[b]) /\ count[b] = Cardinality(Registered[b])
    BY <1>2 DEF RestartInv, CountInv
  <2>3. IsFiniteSet(Registered'[b]) /\ Cardinality(Registered'[b]) = count[b] - 1
    <3>1. /\ IsFiniteSet(Registered[b] \ {r})
          /\ Cardinality(Registered[b] \ {r}) = Cardinality(Registered[b]) - 1
      BY <2>1, <2>2, FS_RemoveElement
    <3> QED
      BY <2>1, <2>2, <3>1
  <2>4. count[b] >= 1
    BY <2>2, <2>3, <2>1, FS_CardinalityType
  <2>5. count'[b] = count[b] - 1 /\ \A c \in Boxes \ {b} : count'[c] = count[c]
    BY <1>1, <1>2, <2>4 DEF TypeOK
  <2> QED
    BY <1>1, <2>1, <2>3, <2>5 DEF RestartInv, CountInv
<1>7. RequestInv'
  <2>1. ASSUME NEW q \in Requests, q # r
        PROVE  (req'[q].at \in Way => Coming(q)') /\ (req'[q].at \in Inside => There(q)')
    <3>1. req'[q] = req[q]
      BY <1>3, <2>1 DEF Others
    <3>2. req[q].at \in {"work", "unregister"} => state'[req[q].back] = "USER_ACTIVE"
      BY <1>1 DEF RestartInv, RequestInv, There, Inside
    <3> QED
      BY <1>1, <3>1, <3>2, StaysPut DEF RestartInv, docs
  <2> QED
    BY <1>3, <2>1 DEF RequestInv, Way, Inside
<1>8. WatchInv'
  BY <1>1 DEF RestartInv, WatchInv, Kept, docs, service
<1>9. KeptInv'
  <2>1. Bound' = Bound
    BY <1>1 DEF Bound
  <2> QED
    BY <1>1, <2>1, KeptStays DEF RestartInv, TypeOK
<1> QED
  BY <1>4, <1>5, <1>6, <1>7, <1>8, <1>9 DEF RestartInv

\* A step of reclaim or of time: no request moves on.
LEMMA NoRequest ==
  ASSUME TypeOK, RestartInv, UNCHANGED <<docs, dir, req, acked>>, alive' \subseteq alive,
         \A b \in Boxes : /\ state[b] # "READY" => state'[b] # "READY"
                          /\ state[b] = "DESTROYING" => state'[b] = "DESTROYING"
                          /\ state[b] = "USER_ACTIVE" /\ count[b] # 0 => state'[b] = "USER_ACTIVE"
                          /\ b \notin alive' => state'[b] = "DESTROYING"
                          /\ state'[b] = "USER_ACTIVE" => state[b] = "USER_ACTIVE",
         UNCHANGED count, WatchInv', KeptInv'
  PROVE  RestartInv'
<1>1. \A r \in Requests : req'[r] = req[r] /\ (Busy(r)' <=> Busy(r))
  BY DEF Busy
<1>2. TurnsInv' /\ NamesInv'
  BY <1>1, TurnsStay, NamesStay DEF RestartInv
<1>3. CountInv'
  BY CountStays DEF RestartInv
<1>4. ASSUME NEW q \in Requests
      PROVE  (req'[q].at \in Way => Coming(q)') /\ (req'[q].at \in Inside => There(q)')
  <2>1. ASSUME req[q].at \in {"work", "unregister"}
        PROVE  state'[req[q].back] = "USER_ACTIVE"
    <3>1. req[q].back \in Boxes /\ state[req[q].back] = "USER_ACTIVE"
      BY <2>1 DEF RestartInv, RequestInv, There, Inside
    <3>2. q \in Registered[req[q].back]
      BY <2>1, <3>1 DEF Registered
    <3>3. Registered[req[q].back] # {} /\ IsFiniteSet(Registered[req[q].back])
          /\ count[req[q].back] = Cardinality(Registered[req[q].back])
      BY <3>1, <3>2 DEF RestartInv, CountInv
    <3>4. count[req[q].back] # 0
      BY <3>3, FS_EmptySet
    <3> QED
      BY <3>1, <3>4
  <2> QED
    BY <2>1, StaysPut DEF RestartInv, docs
<1> QED
  BY <1>2, <1>3, <1>4 DEF RequestInv, RestartInv

\* An idle box is claimed only without protection.
LEMMA ClaimStep ==
  ASSUME TypeOK, RestartInv, NEW b \in Boxes, Claim(b)
  PROVE  RestartInv'
<1>1. /\ watcher.at = "idle" /\ state[b] = "USER_ACTIVE" /\ count[b] = 0
      /\ state' = [state EXCEPT ![b] = "RETIRING"]
      /\ watcher' = [NoReclaim EXCEPT !.at = "list", !.box = b, !.again = TRUE]
      /\ UNCHANGED <<count, idle, alive, docs, dir, cache, req, acked, restarts, happens>>
  BY DEF Claim
<1>2. state'[b] = "RETIRING" /\ \A c \in Boxes \ {b} : state'[c] = state[c]
  BY <1>1 DEF TypeOK
<1>3. watcher'.at = "list" /\ watcher'.box = b
  BY <1>1 DEF NoReclaim
<1>4. WatchInv'
  BY <1>2, <1>3 DEF WatchInv
<1>5. KeptInv'
  <2>1. Bound' = Bound
    BY <1>1, <1>2 DEF Bound
  <2> QED
    BY <1>1, <2>1, KeptStays DEF RestartInv, TypeOK
<1> QED
  BY <1>1, <1>2, <1>4, <1>5, NoRequest DEF RestartInv, CountInv

\* The watcher reads which workspaces the box has.
LEMMA ListStep ==
  ASSUME TypeOK, RestartInv, (\E b \in Boxes : TakeRetiring(b)) \/ List
  PROVE  RestartInv'
<1>1. UNCHANGED <<boxes, docs, dir, cache, req, acked>>
  BY DEF TakeRetiring, List
<1>2. WatchInv'
  <2>1. ASSUME NEW b \in Boxes, TakeRetiring(b)
        PROVE  WatchInv'
    <3>1. watcher'.at = "list" /\ watcher'.box = b /\ state[b] = "RETIRING"
      BY <2>1 DEF TakeRetiring, NoReclaim
    <3> QED
      BY <1>1, <3>1 DEF WatchInv, boxes
  <2>2. CASE List
    <3>1. /\ watcher.at = "list" /\ watcher'.at = "export" /\ watcher'.box = watcher.box
          /\ watcher'.todo = {w \in Requests : sandbox[w] = watcher.box}
      BY <2>2 DEF List, TypeOK, ReclaimTypes
    <3> QED
      BY <1>1, <3>1 DEF RestartInv, WatchInv, boxes, docs
  <2> QED
    BY <2>1, <2>2
<1>3. KeptInv'
  <2>1. Bound' = Bound
    BY <1>1 DEF Bound, boxes
  <2> QED
    BY <1>1, <2>1, KeptStays DEF RestartInv, TypeOK
<1> QED
  BY <1>1, <1>2, <1>3, NoRequest DEF RestartInv, CountInv, boxes

\* A workspace is exported as it is: nobody works in a box that is RETIRING.
LEMMA ExportStep ==
  ASSUME TypeOK, OnlyRestarts, RestartInv, NEW w \in Requests, Export(w)
  PROVE  RestartInv'
<1>1. /\ UNCHANGED <<boxes, docs, dir, cache, req, acked>>
      /\ watcher.at = "export" /\ w \in watcher.todo
  BY DEF Export
<1>2. WatchInv /\ watcher \in ReclaimTypes
  BY DEF RestartInv, TypeOK
<1>3. WatchInv'
  <2>1. CASE /\ watcher.box \in alive
             /\ watcher' = [watcher EXCEPT !.at = "publish", !.ws = w,
                  !.staging = dir[watcher.box][w]]
             /\ sandbox[w] = watcher.box
    <3>1. /\ watcher'.at = "publish" /\ watcher'.ws = w /\ watcher'.staging = dir[watcher.box][w]
          /\ watcher'.box = watcher.box /\ watcher'.todo = watcher.todo
      BY <1>2, <2>1 DEF ReclaimTypes
    <3>2. watcher.box \in Boxes /\ state[watcher.box] = "RETIRING" /\ watcher.box \in Bound
      BY <1>1, <1>2, <2>1 DEF WatchInv, Bound
    <3>3. latest[Session[w]] = w /\ Session[w] \in Sessions
      BY <2>1, <3>2, Own, Fields DEF RestartInv
    <3>4. Kept(Session[w], dir[watcher.box][w])
      BY <2>1, <3>2, <3>3, NoOneAssumption DEF RestartInv, KeptInv, Contents, WorkspaceOf
    <3> QED
      BY <1>1, <1>2, <2>1, <3>1, <3>2, <3>4 DEF WatchInv, Kept, boxes, docs
  <2>2. CASE watcher.box \notin alive /\ watcher' = [watcher EXCEPT !.todo = @ \ {w}]
    <3>1. watcher'.at = "export" /\ watcher'.box = watcher.box
      BY <1>1, <1>2, <2>2 DEF ReclaimTypes
    <3>2. watcher.box \in Boxes /\ state[watcher.box] = "DESTROYING"
      BY <1>1, <1>2, <2>2 DEF WatchInv, RestartInv, CountInv
    <3> QED
      BY <1>1, <2>2, <3>1, <3>2 DEF WatchInv, boxes
  <2>3. watcher.box \in alive => sandbox[w] = watcher.box
    <3>1. watcher.box \in alive => state[watcher.box] = "RETIRING"
      BY <1>1, <1>2 DEF WatchInv
    <3> QED
      BY <1>1, <1>2, <3>1 DEF WatchInv
  <2> QED
    BY <2>1, <2>2, <2>3 DEF Export, OnlyRestarts
<1>4. KeptInv'
  <2>1. Bound' = Bound
    BY <1>1 DEF Bound, boxes
  <2> QED
    BY <1>1, <2>1, KeptStays DEF RestartInv, TypeOK
<1> QED
  BY <1>1, <1>3, <1>4, NoRequest DEF RestartInv, CountInv, boxes

\* An export replaces what the cache had.
LEMMA PublishStep ==
  ASSUME TypeOK, RestartInv, Publish
  PROVE  RestartInv'
<1> DEFINE v == watcher.ws
<1>1. /\ UNCHANGED <<boxes, docs, dir, req, acked>> /\ watcher.at = "publish"
      /\ cache' = [cache EXCEPT ![v] = watcher.staging]
  BY DEF Publish
<1>2. WatchInv /\ watcher \in ReclaimTypes
  BY DEF RestartInv, TypeOK
<1>3. /\ v \in Requests /\ watcher.box \in Boxes /\ state[watcher.box] = "RETIRING"
      /\ sandbox[v] = watcher.box /\ Kept(Session[v], watcher.staging)
  BY <1>1, <1>2 DEF WatchInv
<1>4. cache'[v] = watcher.staging /\ \A w \in Requests \ {v} : cache'[w] = cache[w]
  BY <1>1, <1>3 DEF TypeOK
<1>5. watcher'.at = "export" /\ watcher'.box = watcher.box /\ watcher'.todo = watcher.todo \ {v}
  BY <1>2 DEF Publish, ReclaimTypes
<1>6. WatchInv'
  BY <1>1, <1>2, <1>3, <1>4, <1>5 DEF WatchInv, Kept, boxes, docs
<1>7. KeptInv'
  <2>1. Bound' = Bound /\ sandbox[v] \in Bound
    BY <1>1, <1>3 DEF Bound, boxes
  <2> QED
    BY <1>1, <1>4, <2>1, KeptStays DEF RestartInv, TypeOK
<1> QED
  BY <1>1, <1>6, <1>7, NoRequest DEF RestartInv, CountInv, boxes

\* The binding ends when every workspace of the box is in the cache.
LEMMA ReleaseStep ==
  ASSUME TypeOK, RestartInv, Release
  PROVE  RestartInv'
<1>1. /\ UNCHANGED <<count, idle, alive, docs, dir, cache, req, acked>>
      /\ watcher.at = "export" /\ watcher.todo = {}
      /\ state' = [state EXCEPT ![watcher.box] = "DESTROYING"]
  BY DEF Release
<1>2. WatchInv /\ watcher \in ReclaimTypes
  BY DEF RestartInv, TypeOK
<1>3. watcher.box \in Boxes /\ state[watcher.box] \in {"RETIRING", "DESTROYING"}
  BY <1>1, <1>2 DEF WatchInv
<1>4. /\ state'[watcher.box] = "DESTROYING"
      /\ \A b \in Boxes \ {watcher.box} : state'[b] = state[b]
  BY <1>1, <1>3 DEF TypeOK
<1>5. watcher'.at = "destroy" /\ watcher'.box = watcher.box
  BY <1>2 DEF Release, ReclaimTypes
<1>6. WatchInv'
  BY <1>3, <1>4, <1>5 DEF WatchInv
<1>7. KeptInv'
  <2>1. ASSUME NEW s \in Sessions
        PROVE  Kept(s, Contents(s))'
    <3>1. Kept(s, Contents(s)) /\ latest[s] \in Requests \cup {NoOne}
      BY DEF RestartInv, KeptInv, TypeOK
    <3>2. CASE latest[s] = NoOne \/ sandbox[latest[s]] # watcher.box
      <4>1. latest[s] # NoOne => (sandbox[latest[s]] \in Bound <=> sandbox[latest[s]] \in Bound')
        BY <1>4, <3>2 DEF Bound
      <4>2. Contents(s)' = Contents(s)
        BY <1>1, <4>1 DEF Contents, WorkspaceOf, docs
      <4> QED
        BY <1>1, <3>1, <4>2 DEF Kept
    <3>3. CASE latest[s] # NoOne /\ sandbox[latest[s]] = watcher.box
            /\ state[watcher.box] = "RETIRING"
      <4>1. latest[s] \in Requests /\ Session[latest[s]] = s
        BY <3>1, <3>3 DEF RestartInv, NamesInv
      <4>2. Kept(s, cache[latest[s]])
        BY <1>1, <1>2, <3>3, <4>1 DEF WatchInv
      <4>3. Contents(s)' = cache[latest[s]]
        BY <1>1, <1>4, <3>3 DEF Contents, WorkspaceOf, docs, Bound
      <4> QED
        BY <1>1, <4>2, <4>3 DEF Kept
    <3>4. CASE latest[s] # NoOne /\ sandbox[latest[s]] = watcher.box
            /\ state[watcher.box] = "DESTROYING"
      <4>1. Contents(s)' = Contents(s)
        BY <1>1, <1>4, <3>4 DEF Contents, WorkspaceOf, docs, Bound
      <4> QED
        BY <1>1, <3>1, <4>1 DEF Kept
    <3> QED
      BY <1>3, <3>2, <3>3, <3>4
  <2> QED
    BY <2>1 DEF KeptInv
<1> QED
  BY <1>1, <1>3, <1>4, <1>6, <1>7, NoRequest DEF RestartInv, CountInv

\* A box goes with its files, which are in the cache by then.
LEMMA DestroyStep ==
  ASSUME TypeOK, OnlyRestarts, RestartInv, Destroy
  PROVE  RestartInv'
<1>1. /\ UNCHANGED <<state, count, idle, docs, dir, cache, req, acked>>
      /\ watcher.at = "destroy" /\ alive' = alive \ {watcher.box}
  BY DEF Destroy, OnlyRestarts
<1>2. WatchInv /\ watcher \in ReclaimTypes
  BY DEF RestartInv, TypeOK
<1>3. watcher.box \in Boxes /\ state[watcher.box] = "DESTROYING"
  BY <1>1, <1>2 DEF WatchInv
<1>4. \/ watcher'.at = "list" /\ watcher'.box = watcher.box
      \/ watcher'.at = "idle"
  BY <1>2 DEF Destroy, NoReclaim, ReclaimTypes
<1>5. WatchInv'
  BY <1>1, <1>3, <1>4 DEF WatchInv
<1>6. KeptInv'
  <2>1. Bound' = Bound
    BY <1>1 DEF Bound
  <2> QED
    BY <1>1, <2>1, KeptStays DEF RestartInv, TypeOK
<1> QED
  BY <1>1, <1>3, <1>5, <1>6, NoRequest DEF RestartInv, CountInv

\* Time passes over an idle box.
LEMMA TimeStep ==
  ASSUME TypeOK, RestartInv, NEW b \in Boxes, TimePasses(b)
  PROVE  RestartInv'
<1>1. UNCHANGED <<state, count, alive, docs, dir, cache, req, acked, watcher>>
  BY DEF TimePasses, service
<1>2. WatchInv'
  BY <1>1 DEF RestartInv, WatchInv, Kept, docs
<1>3. KeptInv'
  <2>1. Bound' = Bound
    BY <1>1 DEF Bound
  <2> QED
    BY <1>1, <2>1, KeptStays DEF RestartInv, TypeOK
<1> QED
  BY <1>1, <1>2, <1>3, NoRequest DEF RestartInv, CountInv

\* A restart ends all requests and their protections, and the watcher's round.
LEMMA RestartStep ==
  ASSUME TypeOK, OnlyRestarts, RestartInv, Restart
  PROVE  RestartInv'
<1>1. UNCHANGED <<state, idle, alive, docs, dir, cache, acked>> /\ watcher' = NoReclaim
  BY DEF Restart, OnlyRestarts
<1>2. \A r \in Requests : ~Busy(r)' /\ req'[r].kind = req[r].kind
  BY Fields DEF Restart, Busy, Ended, RequestTypes
<1>3. TurnsInv'
  BY <1>2, TurnsStay DEF RestartInv
<1>4. NamesInv'
  BY <1>1, NamesStay DEF RestartInv
<1>5. CountInv'
  <2>1. \A b \in Boxes : Registered'[b] = {}
    BY <1>2 DEF Registered, Busy, Ended
  <2>2. \A b \in Boxes : IsFiniteSet(Registered'[b]) /\ Cardinality(Registered'[b]) = 0
    BY <2>1, FS_EmptySet
  <2>3. \A b \in Boxes : state'[b] = "USER_ACTIVE" => count'[b] = 0
    BY <1>1 DEF Restart, TypeOK
  <2> QED
    BY <1>1, <2>2, <2>3 DEF RestartInv, CountInv
<1>6. RequestInv'
  BY <1>2 DEF RequestInv, Busy, Ended, Way, Inside
<1>7. WatchInv'
  <2>1. watcher'.at = "idle"
    BY <1>1 DEF NoReclaim
  <2> QED
    BY <2>1 DEF WatchInv
<1>8. KeptInv'
  <2>1. Bound' = Bound
    BY <1>1 DEF Bound
  <2> QED
    BY <1>1, <2>1, KeptStays DEF RestartInv, TypeOK
<1> QED
  BY <1>3, <1>4, <1>5, <1>6, <1>7, <1>8 DEF RestartInv

-----------------------------------------------------------------------------
(* The theorems.                                                            *)

\* At first nobody has a box and nothing was reported.
LEMMA InitInv == Init => FilesIInv
<1> SUFFICES ASSUME Init PROVE FilesIInv
  OBVIOUS
<1>1. NewRequest \in RequestTypes /\ NewRequest.at = "new" /\ NewRequest.kind = "command"
  BY DEF NewRequest, RequestTypes, Phases, Kinds, States
<1>2. NoReclaim \in ReclaimTypes /\ NoReclaim.at = "idle"
  BY DEF NoReclaim, ReclaimTypes
<1>3. TypeOK
  BY <1>1, <1>2, RestartBound DEF Init, TypeOK, States
<1>4. \A r \in Requests : req[r].at = "new" /\ req[r].kind = "command"
  BY <1>1 DEF Init
<1>5. Bound = {} /\ \A b \in Boxes : state[b] = "READY"
  BY DEF Bound, Init
<1>6. BindInv
  BY <1>5 DEF BindInv
<1>7. TurnsInv /\ RequestInv
  BY <1>4 DEF TurnsInv, RequestInv, Busy, Ended, Way, Inside
<1>8. NamesInv
  BY DEF Init, NamesInv
<1>9. CountInv
  <2>1. \A b \in Boxes : Registered[b] = {}
    BY <1>4 DEF Registered
  <2> QED
    BY <1>5, <2>1, FS_EmptySet DEF CountInv, Init
<1>10. WatchInv
  BY <1>2 DEF WatchInv, Init
<1>11. KeptInv
  BY DEF KeptInv, Kept, Init
<1> QED
  BY <1>3, <1>6, <1>7, <1>8, <1>9, <1>10, <1>11 DEF FilesIInv, RestartInv

\* Every step keeps where the reported files are, while restarts are all that happens.
LEMMA RestartStays ==
  ASSUME TypeOK, BindInv, OnlyRestarts, RestartInv, [Next]_vars
  PROVE  RestartInv'
<1>1. ASSUME NEW r \in Requests, Allocate(r)
      PROVE  RestartInv'
  BY <1>1, LookStep, FindStep, AssignStep, AgainStep, RestoreStep, MkdirStep, AttachStep
  DEF Allocate
<1>2. ASSUME NEW r \in Requests, Leased(r)
      PROVE  RestartInv'
  BY <1>2, LeaseStep, RegisterStep, WorkStep, UnregisterStep DEF Leased
<1>3. CASE Reclaim
  BY <1>3, ClaimStep, ListStep, ExportStep, PublishStep, ReleaseStep, DestroyStep DEF Reclaim
<1>4. CASE UNCHANGED vars
  <2>1. WatchInv'
    BY <1>4 DEF RestartInv, WatchInv, Kept, vars
  <2>2. Bound' = Bound
    BY <1>4 DEF Bound, vars
  <2>3. KeptInv'
    BY <1>4, <2>2, KeptStays DEF RestartInv, TypeOK, vars, docs
  <2> QED
    BY <1>4, <2>1, <2>3, NoRequest DEF RestartInv, CountInv, vars, docs
<1> QED
  BY <1>1, <1>2, <1>3, <1>4, TimeStep, RestartStep DEF Next

\* The inductive invariant.
THEOREM FilesInvariant == Spec => []FilesIInv
<1>1. FilesIInv /\ [Next]_vars => FilesIInv'
  <2> SUFFICES ASSUME FilesIInv, [Next]_vars PROVE FilesIInv'
    OBVIOUS
  <2>1. TypeOK' /\ BindInv'
    BY TypeStep, BindStep DEF FilesIInv
  <2>2. happens' = happens
    BY DEF Next, vars, Allocate, Look, Find, Assign, Again, Restore, Mkdir, Attach, Leased, Lease,
           Register, Work, Unregister, Reclaim, Claim, TakeRetiring, List, Export, Publish, Release,
           Destroy, TimePasses, Restart, service
  <2>3. OnlyRestarts' => RestartInv'
    BY <2>2, RestartStays DEF FilesIInv, OnlyRestarts
  <2> QED
    BY <2>1, <2>3 DEF FilesIInv
<1> QED
  BY <1>1, InitInv, PTL DEF Spec

\* A user is bound to one sandbox at most, whatever requests come at once, fail or are cut
\* off by a restart (WorkspaceManager.allocate and the claim of reclaim); and the types.
THEOREM UserHasOneBox == Spec => []BoxInv
<1>1. BindInv => Cardinality(Bound) <= 1
  <2> SUFFICES ASSUME BindInv PROVE Cardinality(Bound) <= 1
    OBVIOUS
  <2>1. CASE Bound = {}
    BY <2>1, FS_EmptySet
  <2>2. CASE Bound # {}
    <3>1. PICK b \in Bound : Bound = {b}
      BY <2>2 DEF BindInv
    <3> QED
      BY <3>1, FS_Singleton
  <2> QED
    BY <2>1, <2>2
<1>2. FilesIInv => BoxInv
  BY <1>1 DEF FilesIInv, BoxInv, OneBox
<1> QED
  BY <1>2, FilesInvariant, PTL

\* What a command was reported to have done is found by the next request of its session, in
\* the box or in the cache, however often the box is taken back and the service restarts.
THEOREM ReportedWorkStays == Spec => []NothingLost
<1>1. FilesIInv => NothingLost
  BY Fields DEF FilesIInv, NothingLost, OnlyRestarts, RestartInv, KeptInv, Kept, TypeOK
<1> QED
  BY <1>1, FilesInvariant, PTL

-----------------------------------------------------------------------------
(* What the file tools guarantee: the inductive invariant.                  *)

Whole(n) == Objects[Attachments[n].key]
PathOf(i) == Found(Absolute(i.session, i.path))

\* A content that begins like an attachment begins with all of it.
Sound(content) ==
  /\ content \in Seq(Marks)
  /\ \A n \in DOMAIN Attachments :
       Whole(n) # << >> /\ content # << >> /\ content[1] = Whole(n)[1] =>
         /\ Len(Whole(n)) <= MaxBytes /\ Len(Whole(n)) <= Len(content)
         /\ \A i \in 1..Len(Whole(n)) : content[i] = Whole(n)[i]

\* What files hold is what they have held, and all of it is sound.
TreeInv ==
  /\ \A w \in was : w = <<w[1], w[2]>> /\ Sound(w[2])
  /\ \A p \in DOMAIN tree : <<p, tree[p]>> \in was

\* Only calls add to storage, each at a place of its own.
StorageInv ==
  /\ \A k \in DOMAIN Objects : k \in DOMAIN objects /\ objects[k] = Objects[k]
  /\ DOMAIN objects \subseteq DOMAIN Objects \cup Calls
  /\ \A k \in DOMAIN objects : objects[k] \in Seq(Marks)

Leaving == {"export", "publish"}

\* The phases of a call by its operation.
Fits(phase, op) ==
  \/ phase \in {"lease", "failed", "done"}
  \/ phase = "look" /\ op \in Looks
  \/ phase = "edit" /\ op \in Edits
  \/ phase \in {"fetch", "put"} /\ op = "import"
  \/ phase \in {"open", "stream", "ticket", "send"} /\ op \in Leaving
  \/ phase = "link" /\ op = "export"
  \/ phase = "published" /\ op = "publish"

\* This file has had this content, which is within the limit.
Had(i, content) == <<PathOf(i), content>> \in was /\ Len(content) <= MaxBytes

\* What a call that has begun has got hold of.
Holds(c, r) ==
  /\ r.in.op = "import" /\ r.at \in {"lease", "fetch", "put"} => Offered(r.in.attachment) # {}
  /\ r.at = "put" => r.buffer = Objects[Attachment(r.in.attachment).key] /\ Len(r.buffer) <= MaxBytes
  /\ r.at \in {"lease", "open"} => r.buffer = << >>
  /\ r.at = "stream" =>
       /\ PathOf(r.in) \in DOMAIN tree /\ <<PathOf(r.in), r.seen>> \in was
       /\ Len(r.buffer) <= Len(r.seen) /\ Len(r.buffer) <= MaxBytes
       /\ \A n \in 1..Len(r.buffer) : r.buffer[n] = r.seen[n]
  /\ r.at \in {"ticket", "send"} => Had(r.in, r.buffer)
  /\ r.at = "send" => r.key = c
  /\ r.at \in {"link", "published"} \/ (r.at = "done" /\ r.in.op \in Leaving) =>
       r.key \in DOMAIN objects /\ Had(r.in, objects[r.key])
  /\ r.at \in {"send", "published", "done"} /\ r.in.op = "publish" =>
       \E t \in tasks : t.call = c /\ t.key = r.key

\* A call that has begun: its fields, its phase, and nothing at its place in storage
\* before it has sent something there.
CallInv(c, r) ==
  /\ r # Idle =>
       /\ r = [at |-> r.at, in |-> r.in,
               buffer |-> r.buffer, seen |-> r.seen, key |-> r.key, paths |-> r.paths]
       /\ r.in \in Inputs /\ r.buffer \in Seq(Marks) /\ r.seen \in Seq(Marks)
       /\ Fits(r.at, r.in.op) /\ Holds(c, r)
  /\ r = Idle \/ r.at \notin {"link", "published", "done", "failed"} => c \notin DOMAIN objects

TransfersInv ==
  /\ TreeInv /\ StorageInv
  /\ DOMAIN call = Calls /\ \A c \in Calls : CallInv(c, call[c])

-----------------------------------------------------------------------------
LEMMA PathIs == \A c : Path(c) = PathOf(call[c].in)
BY DEF Path, PathOf

LEMMA BeginsLike ==
  ASSUME NEW S, NEW s \in Seq(S), NEW t \in Seq(S), Len(s) <= Len(t), (\A i \in 1..Len(s) : t[i] = s[i])
  PROVE  IsPrefix(s, t)
<1>1. SubSeq(s, 1, Len(s)) = [i \in 1..Len(s) |-> s[i]]
  OBVIOUS
<1>2. SubSeq(t, 1, Len(s)) = [i \in 1..Len(s) |-> t[i]]
  OBVIOUS
<1> QED
  BY <1>1, <1>2 DEF IsPrefix

LEMMA Least ==
  ASSUME NEW T \in SUBSET Nat, T # {}
  PROVE  \E m \in T : \A n \in T : m <= n
<1> DEFINE R == OpToRel(<, Nat)
<1>1. IsWellFoundedOn(R, Nat)
  BY NatLessThanWellFounded
<1> HIDE DEF R
<1>2. PICK m \in T : \A n \in T : ~(<<n, m>> \in R)
  BY <1>1, WFMin, Zenon
<1>3. \A n \in T : ~(n < m)
  BY <1>2 DEF R, OpToRel
<1> QED
  BY <1>3

LEMMA Attached ==
  ASSUME FilesParameters, NEW id, Offered(id) # {}
  PROVE  \E n \in DOMAIN Attachments : Attachment(id) = Attachments[n]
<1>1. Offered(id) \in SUBSET Nat
  BY DEF FilesParameters, Offered
<1>2. \E n \in Offered(id) : \A k \in Offered(id) : n <= k
  BY <1>1, Least
<1> QED
  BY <1>2 DEF Attachment, Offered

\* What the marks of an attachment tell.
LEMMA Marked ==
  ASSUME FilesParameters, NEW n \in DOMAIN Attachments
  PROVE  /\ Whole(n) \in Seq(Marks) /\ Attachments[n].key \in DOMAIN Objects
         /\ \A i \in 1..Len(Whole(n)) : Whole(n)[i] \notin Calls /\ \A x \in Inputs : x.old # Whole(n)[i]
         /\ Whole(n) # << >> =>
              /\ \A p \in DOMAIN Files : Files[p] # << >> => Files[p][1] # Whole(n)[1]
              /\ \A m \in DOMAIN Attachments :
                   Whole(m) # << >> /\ Whole(m)[1] = Whole(n)[1] => Whole(m) = Whole(n)
BY DEF FilesParameters, Apart, Whole

LEMMA SoundFile == ASSUME FilesParameters, NEW p \in DOMAIN Files PROVE Sound(Files[p])
<1>1. Files[p] \in Seq(Marks)
  BY DEF FilesParameters
<1> QED
  BY <1>1, Marked DEF Sound

LEMMA SoundAttachment ==
  ASSUME FilesParameters, NEW n \in DOMAIN Attachments, Len(Whole(n)) <= MaxBytes
  PROVE  Sound(Whole(n))
<1>1. Whole(n) \in Seq(Marks)
  BY Marked
<1>2. ASSUME NEW m \in DOMAIN Attachments, Whole(m) # << >>, Whole(n) # << >>, Whole(n)[1] = Whole(m)[1]
      PROVE  Whole(n) = Whole(m)
  BY <1>2, Marked
<1> QED
  BY <1>1, <1>2 DEF Sound

LEMMA SoundWrite == ASSUME FilesParameters, NEW c \in Calls PROVE Sound(<<c>>)
<1>1. <<c>> \in Seq(Marks) /\ <<c>>[1] = c
  BY DEF Marks
<1>2. ASSUME NEW n \in DOMAIN Attachments, Whole(n) # << >>
      PROVE  Whole(n)[1] # c
  <2>1. 1 \in 1..Len(Whole(n))
    BY <1>2, Marked
  <2> QED
    BY <2>1, Marked
<1> QED
  BY <1>1, <1>2 DEF Sound

LEMMA SoundAppend ==
  ASSUME FilesParameters, NEW c \in Calls, NEW old, old = << >> \/ Sound(old)
  PROVE  Sound(Append(old, c))
<1>1. CASE old = << >>
  <2>1. Append(old, c) = <<c>>
    BY <1>1
  <2> QED
    BY <2>1, SoundWrite
<1>2. CASE old # << >> /\ Sound(old)
  <2>1. c \in Marks /\ old \in Seq(Marks) /\ old # << >>
    BY <1>2 DEF Sound, Marks
  <2>2. /\ Append(old, c) \in Seq(Marks) /\ Len(Append(old, c)) = Len(old) + 1
        /\ Append(old, c)[1] = old[1]
        /\ \A i \in 1..Len(old) : Append(old, c)[i] = old[i]
    BY <2>1
  <2>3. ASSUME NEW n \in DOMAIN Attachments, Whole(n) # << >>, Append(old, c)[1] = Whole(n)[1]
        PROVE  /\ Len(Whole(n)) <= MaxBytes /\ Len(Whole(n)) <= Len(Append(old, c))
               /\ \A i \in 1..Len(Whole(n)) : Append(old, c)[i] = Whole(n)[i]
    <3>1. /\ Len(Whole(n)) <= MaxBytes /\ Len(Whole(n)) <= Len(old)
          /\ \A i \in 1..Len(Whole(n)) : old[i] = Whole(n)[i]
      BY <1>2, <2>1, <2>2, <2>3 DEF Sound
    <3>2. Len(Whole(n)) \in Nat /\ Len(old) \in Nat
      BY <2>1, Marked
    <3> QED
      BY <2>2, <3>1, <3>2
  <2> QED
    BY <2>2, <2>3 DEF Sound
<1> QED
  BY <1>1, <1>2

LEMMA SoundReplace ==
  ASSUME FilesParameters, NEW c \in Calls, NEW i \in Inputs, NEW old, Sound(old)
  PROVE  Sound([n \in DOMAIN old |-> IF old[n] = i.old THEN c ELSE old[n]])
<1> DEFINE new == [n \in DOMAIN old |-> IF old[n] = i.old THEN c ELSE old[n]]
<1>1. old \in Seq(Marks) /\ c \in Marks
  BY DEF Sound, Marks
<1>2. /\ new \in Seq(Marks) /\ Len(new) = Len(old) /\ DOMAIN old = 1..Len(old) /\ Len(old) \in Nat
      /\ \A n \in 1..Len(old) : new[n] = IF old[n] = i.old THEN c ELSE old[n]
  BY <1>1
<1> HIDE DEF new
<1>3. ASSUME NEW n \in DOMAIN Attachments, Whole(n) # << >>, new # << >>, new[1] = Whole(n)[1]
      PROVE  /\ Len(Whole(n)) <= MaxBytes /\ Len(Whole(n)) <= Len(new)
             /\ \A k \in 1..Len(Whole(n)) : new[k] = Whole(n)[k]
  <2>1. /\ Len(Whole(n)) \in Nat /\ 1 \in 1..Len(Whole(n)) /\ 1 \in 1..Len(old)
        /\ \A k \in 1..Len(Whole(n)) : Whole(n)[k] # c /\ Whole(n)[k] # i.old
    BY <1>2, <1>3, Marked
  <2>2. old # << >> /\ old[1] = Whole(n)[1]
    BY <1>1, <1>2, <1>3, <2>1
  <2>3. /\ Len(Whole(n)) <= MaxBytes /\ Len(Whole(n)) <= Len(old)
        /\ \A k \in 1..Len(Whole(n)) : old[k] = Whole(n)[k]
    BY <1>3, <2>2 DEF Sound
  <2> QED
    BY <1>2, <2>1, <2>3
<1>4. Sound(new)
  BY <1>2, <1>3 DEF Sound
<1> QED
  BY <1>4 DEF new

-----------------------------------------------------------------------------
(* Steps of a call.                                                         *)

LEMMA AnyCall ==
  ASSUME TransfersInv, NEW c \in Calls, call[c] # Idle
  PROVE  /\ DOMAIN call = Calls
         /\ LET r == call[c] IN
              r = [at |-> r.at, in |-> r.in,
                   buffer |-> r.buffer, seen |-> r.seen, key |-> r.key, paths |-> r.paths]
         /\ call[c].in \in Inputs /\ call[c].buffer \in Seq(Marks) /\ call[c].seen \in Seq(Marks)
         /\ Fits(call[c].at, call[c].in.op) /\ Holds(c, call[c])
         /\ call[c].at \notin {"link", "published", "done", "failed"} => c \notin DOMAIN objects
BY DEF TransfersInv, CallInv

\* What a step does to the others: contents and objects are only added.
LEMMA Stays ==
  ASSUME TransfersInv, NEW c \in Calls, DOMAIN call' = Calls,
         \A x \in Calls : x # c => call'[x] = call[x], CallInv(c, call[c])', TreeInv', StorageInv',
         was \subseteq was', DOMAIN tree \subseteq DOMAIN tree', tasks \subseteq tasks',
         \A k \in DOMAIN objects : k \in DOMAIN objects' /\ objects'[k] = objects[k],
         DOMAIN objects' \subseteq DOMAIN objects \cup {c}
  PROVE  TransfersInv'
<1>1. ASSUME NEW x \in Calls, x # c
      PROVE  CallInv(x, call[x])'
  <2>1. call'[x] = call[x] /\ CallInv(x, call[x])
    BY <1>1 DEF TransfersInv
  <2>2. (x \in DOMAIN objects') = (x \in DOMAIN objects)
    BY <1>1
  <2>3. Holds(x, call[x]) => Holds(x, call[x])'
    BY <2>1 DEF Holds, Had
  <2> QED
    BY <2>1, <2>2, <2>3 DEF CallInv
<1> QED
  BY <1>1 DEF TransfersInv

LEMMA Turned ==
  ASSUME NEW c \in Calls, DOMAIN call = Calls, NEW v, call' = [call EXCEPT ![c] = v]
  PROVE  DOMAIN call' = Calls /\ (\A x \in Calls : x # c => call'[x] = call[x]) /\ call'[c] = v
OBVIOUS

LEMMA BegunFields ==
  \A c, a, i : LET b == Begun(c, a, i)
                IN  b.at = a /\ b.in = i /\ b.buffer = << >> /\ b.seen = << >> /\ b.key = c /\ b.paths = {}
BY DEF Begun, Progress

LEMMA EndsWell ==
  ASSUME TransfersInv, NEW c \in Calls, call[c] # Idle, NEW how \in {"done", "failed"},
         how = "done" => call[c].in.op \notin Leaving, Ends(c, how)
  PROVE  /\ DOMAIN call' = Calls /\ \A x \in Calls : x # c => call'[x] = call[x]
         /\ CallInv(c, call[c])'
<1>1. /\ DOMAIN call' = Calls /\ \A x \in Calls : x # c => call'[x] = call[x]
      /\ call'[c] = Begun(c, how, call[c].in)
  BY Turned DEF Ends, TransfersInv
<1>2. call[c].in \in Inputs /\ Fits(how, call[c].in.op) /\ << >> \in Seq(Marks)
  <2>1. call[c].in \in Inputs
    BY AnyCall
  <2> QED
    BY <2>1 DEF Fits
<1>3. call'[c].at = how /\ call'[c].in = call[c].in
  BY <1>1 DEF Begun, Progress
<1>5. Holds(c, call[c])'
  BY <1>3 DEF Holds, Leaving
<1>4. CallInv(c, call[c])'
  BY <1>1, <1>2, <1>3, <1>5 DEF CallInv, Begun, Progress, Idle
<1> QED
  BY <1>1, <1>4

LEMMA BeginStep ==
  ASSUME FilesParameters, TransfersInv, NEW c \in Calls, Begin(c)
  PROVE  TransfersInv'
<1>1. PICK i \in Inputs :
        call' = [call EXCEPT ![c] = Begun(c,
          IF i.op = "import" /\ (Offered(i.attachment) = {} \/ Attachment(i.attachment).size > MaxBytes)
            THEN "failed" ELSE "lease", i)]
  BY DEF Begin
<1>2. /\ UNCHANGED <<tree, objects, tasks, was>> /\ c \notin DOMAIN objects
      /\ DOMAIN call = Calls
  BY DEF Begin, TransfersInv, CallInv
<1>3. /\ DOMAIN call' = Calls /\ \A x \in Calls : x # c => call'[x] = call[x]
      /\ \/ call'[c] = Begun(c, "failed", i)
         \/ call'[c] = Begun(c, "lease", i) /\ (i.op = "import" => Offered(i.attachment) # {})
  BY <1>1, <1>2, Turned
<1>7. /\ call'[c].at \in {"failed", "lease"} /\ call'[c].in = i
      /\ call'[c].at = "lease" /\ i.op = "import" => Offered(i.attachment) # {}
  BY <1>3, BegunFields
<1>4. Holds(c, call[c])' /\ Fits(call'[c].at, i.op) /\ << >> \in Seq(Marks)
  <2>1. call'[c].buffer = << >>
    BY <1>3, BegunFields
  <2>2. Fits(call'[c].at, i.op) /\ << >> \in Seq(Marks)
    BY <1>7 DEF Fits
  <2>3. Holds(c, call[c])'
    BY <1>7, <2>1 DEF Holds
  <2> QED
    BY <2>2, <2>3
<1>5. CallInv(c, call[c])'
  <2>1. CASE call'[c] = Begun(c, "failed", i)
    BY <2>1, <1>2, <1>4 DEF CallInv, Begun, Progress, Idle
  <2>2. CASE call'[c] = Begun(c, "lease", i)
    BY <2>2, <1>2, <1>4 DEF CallInv, Begun, Progress, Idle
  <2> QED
    BY <2>1, <2>2, <1>3
<1>6. TreeInv' /\ StorageInv'
  BY <1>2 DEF TransfersInv, TreeInv, StorageInv
<1> QED
  BY <1>2, <1>3, <1>5, <1>6, Stays

LEMMA TakeLeaseStep ==
  ASSUME FilesParameters, TransfersInv, NEW c \in Calls, TakeLease(c)
  PROVE  TransfersInv'
<1>1. call[c] # Idle /\ UNCHANGED <<tree, objects, tasks, was>>
  BY DEF TakeLease, Idle
<1>2. TreeInv' /\ StorageInv'
  BY <1>1 DEF TransfersInv, TreeInv, StorageInv
<1>3. CASE Ends(c, "failed")
  BY <1>1, <1>2, <1>3, EndsWell, Stays
<1>4. CASE call' = [call EXCEPT ![c].at =
                CASE call[c].in.op \in Looks -> "look" [] call[c].in.op \in Edits -> "edit"
                  [] call[c].in.op = "import" -> "fetch" [] OTHER -> "open"]
  <2>1. /\ DOMAIN call' = Calls /\ \A x \in Calls : x # c => call'[x] = call[x]
        /\ call'[c] = [call[c] EXCEPT !.at =
                CASE call[c].in.op \in Looks -> "look" [] call[c].in.op \in Edits -> "edit"
                  [] call[c].in.op = "import" -> "fetch" [] OTHER -> "open"]
    BY <1>1, <1>4, AnyCall
  <2>2. Holds(c, call[c]) /\ call[c].at = "lease"
    BY <1>1, AnyCall DEF TakeLease
  <2>3. CallInv(c, call[c])'
    <3>1. call[c].in \in Inputs /\ call[c].in.op \in Looks \cup Edits \cup Transfers
      BY <1>1, AnyCall DEF FilesParameters
    <3>2. /\ call'[c].in = call[c].in /\ call'[c].buffer = call[c].buffer /\ call'[c].seen = call[c].seen
          /\ call'[c] = [at |-> call'[c].at, in |-> call[c].in, buffer |-> call[c].buffer,
                         seen |-> call[c].seen, key |-> call[c].key, paths |-> call[c].paths]
          /\ call'[c].key = call[c].key /\ call'[c].paths = call[c].paths
      BY <1>1, <2>1, AnyCall
    <3>3. /\ call'[c].at \in {"look", "edit", "fetch", "open"} /\ Fits(call'[c].at, call[c].in.op)
      BY <1>1, <2>1, <3>1, AnyCall DEF Fits, Looks, Edits, Transfers, Leaving
    <3>4. call[c].buffer = << >>
      BY <2>2 DEF Holds
    <3>5. Holds(c, call[c])'
      BY <2>2, <3>2, <3>3, <3>4 DEF Holds, Fits, Leaving, Looks, Edits
    <3> QED
      BY <1>1, <2>2, <3>2, <3>3, <3>5, AnyCall DEF CallInv, Idle
  <2> QED
    BY <1>1, <1>2, <2>1, <2>3, Stays
<1> QED
  BY <1>3, <1>4 DEF TakeLease

LEMMA ReadStep ==
  ASSUME FilesParameters, TransfersInv, NEW c \in Calls, Inspect(c)
  PROVE  TransfersInv'
<1>1. call[c] # Idle /\ call[c].at = "look" /\ UNCHANGED <<objects, tasks, tree, was>>
  BY DEF Inspect, Idle, Refused
<1>2. TreeInv' /\ StorageInv'
  BY <1>1 DEF TransfersInv, TreeInv, StorageInv
<1>3. call[c].in \in Inputs /\ call[c].in.op \in Looks
  BY <1>1, AnyCall DEF Fits
<1>4. CASE Ends(c, "failed")
  BY <1>1, <1>2, <1>4, EndsWell, Stays
<1>5. CASE call' = [call EXCEPT ![c] = Begun(c, "failed", call[c].in)]
  <2>1. DOMAIN call' = Calls /\ (\A x \in Calls : x # c => call'[x] = call[x])
        /\ call'[c] = Begun(c, "failed", call[c].in)
    BY <1>1, <1>5, Turned DEF TransfersInv
  <2>2. Holds(c, call[c])'
    BY <2>1, BegunFields DEF Holds
  <2>3. CallInv(c, call[c])'
    BY <2>1, <2>2, <1>3 DEF CallInv, Begun, Progress, Idle, Fits
  <2> QED
    BY <1>1, <1>2, <2>1, <2>3, Stays
<1>6. ASSUME NEW P, call' = [call EXCEPT ![c] = [Begun(c, "done", call[c].in) EXCEPT !.paths = P]]
      PROVE  TransfersInv'
  <2>1. DOMAIN call' = Calls /\ (\A x \in Calls : x # c => call'[x] = call[x])
        /\ call'[c] = [Begun(c, "done", call[c].in) EXCEPT !.paths = P]
    BY <1>1, <1>6, Turned DEF TransfersInv
  <2>2. call'[c] = [at |-> "done", in |-> call[c].in, buffer |-> << >>, seen |-> << >>,
                    key |-> c, paths |-> P]
    BY <2>1 DEF Begun, Progress
  <2>3. Holds(c, call[c])'
    BY <2>2, <1>3 DEF Holds, Looks, Leaving
  <2>4. CallInv(c, call[c])'
    BY <2>2, <2>3, <1>3 DEF CallInv, Idle, Fits
  <2> QED
    BY <1>1, <1>2, <2>1, <2>4, Stays
<1> QED
  BY <1>4, <1>5, <1>6 DEF Inspect, Refused

\* A content that is put in a file is one the file has had from then on.
LEMMA PutsWell ==
  ASSUME TransfersInv, NEW p, NEW content, Sound(content), Puts(p, content)
  PROVE  TreeInv' /\ was \subseteq was' /\ DOMAIN tree \subseteq DOMAIN tree'
<1>1. /\ DOMAIN tree' = DOMAIN tree \cup {p} /\ tree'[p] = content /\ was' = was \cup {<<p, content>>}
      /\ \A q \in DOMAIN tree : q # p => tree'[q] = tree[q]
  BY DEF Puts
<1>2. TreeInv
  BY DEF TransfersInv
<1>3. \A w \in was' : w = <<w[1], w[2]>> /\ Sound(w[2])
  BY <1>1, <1>2 DEF TreeInv
<1>4. \A q \in DOMAIN tree' : <<q, tree'[q]>> \in was'
  BY <1>1, <1>2 DEF TreeInv
<1> QED
  BY <1>1, <1>3, <1>4 DEF TreeInv

LEMMA EditStep ==
  ASSUME FilesParameters, TransfersInv, NEW c \in Calls, Edit(c)
  PROVE  TransfersInv'
<1>1. call[c] # Idle /\ call[c].at = "edit" /\ UNCHANGED <<objects, tasks>>
  BY DEF Edit, Idle
<1>2. StorageInv'
  BY <1>1 DEF TransfersInv, StorageInv
<1>3. call[c].in \in Inputs /\ call[c].in.op \in Edits /\ call[c].in.op \notin Leaving
  BY <1>1, AnyCall DEF Fits, Edits, Leaving
<1>4. CASE Ends(c, "failed") /\ UNCHANGED <<tree, was>>
  <2>1. TreeInv'
    BY <1>4 DEF TransfersInv, TreeInv
  <2> QED
    BY <1>1, <1>2, <1>4, <2>1, EndsWell, Stays
<1>5. ASSUME NEW how \in {"done", "failed"}, Ends(c, how),
             call[c].in.op = "replace" => Path(c) \in DOMAIN tree,
             Puts(Path(c), Edited(c, IF Path(c) \in DOMAIN tree THEN tree[Path(c)] ELSE << >>))
      PROVE  TransfersInv'
  <2> DEFINE old == IF Path(c) \in DOMAIN tree THEN tree[Path(c)] ELSE << >>
  <2>1. Path(c) \in DOMAIN tree => Sound(tree[Path(c)])
    <3>1. ASSUME Path(c) \in DOMAIN tree
          PROVE  <<Path(c), tree[Path(c)]>> \in was
      BY <3>1 DEF TransfersInv, TreeInv
    <3> QED
      BY <3>1 DEF TransfersInv, TreeInv
  <2>2. CASE call[c].in.op = "write"
    BY <2>2, SoundWrite, <1>5, PutsWell, <1>1, <1>2, <1>3, EndsWell, Stays DEF Edited
  <2>3. CASE call[c].in.op = "append"
    <3>1. Sound(Append(old, c))
      BY <2>1, SoundAppend
    <3> QED
      BY <2>3, <3>1, <1>5, PutsWell, <1>1, <1>2, <1>3, EndsWell, Stays DEF Edited
  <2>4. CASE call[c].in.op = "replace"
    <3>1. Sound([n \in DOMAIN old |-> IF old[n] = call[c].in.old THEN c ELSE old[n]])
      BY <1>3, <1>5, <2>1, <2>4, SoundReplace
    <3> QED
      BY <2>4, <3>1, <1>5, PutsWell, <1>1, <1>2, <1>3, EndsWell, Stays DEF Edited
  <2> QED
    BY <2>2, <2>3, <2>4, <1>3 DEF Edits
<1> QED
  BY <1>4, <1>5 DEF Edit, Refused

LEMMA PutStep ==
  ASSUME FilesParameters, TransfersInv, NEW c \in Calls, Put(c)
  PROVE  TransfersInv'
<1>1. call[c] # Idle /\ call[c].at = "put" /\ UNCHANGED <<objects, tasks>>
  BY DEF Put, Idle
<1>2. StorageInv'
  BY <1>1 DEF TransfersInv, StorageInv
<1>3. /\ call[c].in.op = "import" /\ call[c].in.op \notin Leaving /\ Offered(call[c].in.attachment) # {}
      /\ call[c].buffer = Objects[Attachment(call[c].in.attachment).key]
      /\ Len(call[c].buffer) <= MaxBytes
  <2>1. call[c].in.op = "import" /\ Holds(c, call[c])
    BY <1>1, AnyCall DEF Fits
  <2> QED
    BY <1>1, <2>1 DEF Holds, Leaving
<1>4. CASE Ends(c, "failed") /\ UNCHANGED <<tree, was>>
  <2>1. TreeInv'
    BY <1>4 DEF TransfersInv, TreeInv
  <2> QED
    BY <1>1, <1>2, <1>4, <2>1, EndsWell, Stays
<1>5. ASSUME NEW how \in {"done", "failed"}, Ends(c, how), Puts(Path(c), call[c].buffer)
      PROVE  TransfersInv'
  <2>1. PICK n \in DOMAIN Attachments : Attachment(call[c].in.attachment) = Attachments[n]
    BY <1>3, Attached
  <2>2. Sound(call[c].buffer)
    BY <1>3, <2>1, SoundAttachment DEF Whole
  <2> QED
    BY <2>2, <1>5, PutsWell, <1>1, <1>2, <1>3, EndsWell, Stays
<1> QED
  BY <1>4, <1>5 DEF Put, Refused

\* A call goes on.
LEMMA ProgressFields ==
  ASSUME NEW a, NEW i, NEW buffer, NEW seen, NEW key
  PROVE  LET p == Progress(a, i, buffer, seen, key) IN
         /\ p.at = a /\ p.in = i /\ p.buffer = buffer /\ p.seen = seen /\ p.key = key
         /\ p = Idle => a = "idle"
         /\ p = [at |-> p.at, in |-> p.in,
                 buffer |-> p.buffer, seen |-> p.seen, key |-> p.key, paths |-> p.paths]
BY DEF Progress, Idle

LEMMA CallContinues ==
  ASSUME TransfersInv, NEW c \in Calls, NEW at, NEW buffer, NEW seen, NEW key,
         Continues(c, at, buffer, seen, key)
  PROVE  /\ DOMAIN call' = Calls /\ \A x \in Calls : x # c => call'[x] = call[x]
         /\ call'[c] = Progress(at, call[c].in, buffer, seen, key)
BY Turned DEF TransfersInv, Continues

LEMMA FetchStep ==
  ASSUME FilesParameters, TransfersInv, NEW c \in Calls, Fetch(c)
  PROVE  TransfersInv'
<1>1. call[c] # Idle /\ call[c].at = "fetch" /\ UNCHANGED <<objects, tasks, tree, was>>
  BY DEF Fetch, Idle
<1>2. TreeInv' /\ StorageInv'
  BY <1>1 DEF TransfersInv, TreeInv, StorageInv
<1>3. CASE Ends(c, "failed")
  BY <1>1, <1>2, <1>3, EndsWell, Stays
<1> DEFINE content == objects[Attachment(call[c].in.attachment).key]
<1>4. CASE Len(content) <= MaxBytes /\ Continues(c, "put", content, << >>, c)
  <2>1. call[c].in.op = "import" /\ Offered(call[c].in.attachment) # {} /\ c \notin DOMAIN objects
    BY <1>1, AnyCall DEF Fits, Holds, Leaving
  <2>2. PICK n \in DOMAIN Attachments : Attachment(call[c].in.attachment) = Attachments[n]
    BY <2>1, Attached
  <2>3. content = Objects[Attachment(call[c].in.attachment).key] /\ content \in Seq(Marks)
    <3>1. Attachments[n].key \in DOMAIN Objects /\ Whole(n) \in Seq(Marks) /\ StorageInv
      BY Marked DEF TransfersInv
    <3> QED
      BY <2>2, <3>1 DEF StorageInv, Whole
  <2> HIDE DEF content
  <2>4. /\ call'[c].at = "put" /\ call'[c].in = call[c].in /\ call'[c].buffer = content
        /\ call'[c].seen = << >> /\ call'[c].key = c
    BY <1>4, CallContinues, ProgressFields
  <2>5. Holds(c, call[c])'
    BY <1>4, <2>1, <2>3, <2>4 DEF Holds
  <2>8. call[c].in \in Inputs
    BY <1>1, AnyCall
  <2>6. Fits("put", call[c].in.op) /\ call[c].in \in Inputs /\ << >> \in Seq(Marks)
    BY <2>1, <2>8 DEF Fits
  <2>7. CallInv(c, call[c])'
    BY <1>1, <1>4, <2>1, <2>3, <2>4, <2>5, <2>6, CallContinues, ProgressFields DEF CallInv
  <2> QED
    BY <1>1, <1>2, <1>4, <2>7, CallContinues, Stays
<1> QED
  BY <1>3, <1>4 DEF Fetch, Spooled

LEMMA OpenStep ==
  ASSUME FilesParameters, TransfersInv, NEW c \in Calls, Open(c)
  PROVE  TransfersInv'
<1>1. call[c] # Idle /\ call[c].at = "open" /\ UNCHANGED <<objects, tasks, tree, was>>
  BY DEF Open, Idle, Refused
<1>2. TreeInv' /\ StorageInv'
  BY <1>1 DEF TransfersInv, TreeInv, StorageInv
<1>3. CASE Ends(c, "failed")
  BY <1>1, <1>2, <1>3, EndsWell, Stays
<1>4. CASE Path(c) \in DOMAIN tree /\ Continues(c, "stream", << >>, tree[Path(c)], c)
  <2>1. /\ Path(c) = PathOf(call[c].in) /\ call[c].buffer = << >> /\ c \notin DOMAIN objects
        /\ call[c].in.op \in Leaving
    BY <1>1, AnyCall, PathIs DEF Fits, Holds
  <2>2. <<Path(c), tree[Path(c)]>> \in was
    BY <1>4 DEF TransfersInv, TreeInv
  <2>3. tree[Path(c)] \in Seq(Marks)
    BY <2>2 DEF TransfersInv, TreeInv, Sound
  <2> DEFINE file == tree[Path(c)]
  <2>5. /\ call'[c].at = "stream" /\ call'[c].in = call[c].in /\ call'[c].buffer = << >>
        /\ call'[c].seen = file /\ call'[c].key = c
    BY <1>4, CallContinues, ProgressFields
  <2>6. Len(file) \in Nat /\ MaxBytes \in Nat
    BY <2>3 DEF FilesParameters
  <2>9. PathOf(call[c].in) \in DOMAIN tree /\ <<PathOf(call[c].in), file>> \in was
    BY <1>4, <2>1, <2>2
  <2>7. Holds(c, call[c])'
    <3>1. Len(call'[c].buffer) = 0
      BY <2>5
    <3> HIDE DEF file
    <3> QED
      BY <1>1, <2>5, <2>6, <2>9, <3>1 DEF Holds
  <2>8. CallInv(c, call[c])'
    <3>3. call[c].in \in Inputs
      BY <1>1, AnyCall
    <3>1. file \in Seq(Marks) /\ << >> \in Seq(Marks) /\ call[c].in \in Inputs
      BY <2>3, <3>3 DEF file
    <3>2. Fits("stream", call[c].in.op)
      BY <2>1 DEF Fits
    <3> QED
      BY <1>1, <1>4, <2>1, <2>5, <2>7, <3>1, <3>2, CallContinues, ProgressFields DEF CallInv
  <2> QED
    BY <1>1, <1>2, <1>4, <2>8, CallContinues, Stays
<1> QED
  BY <1>3, <1>4 DEF Open, Refused

LEMMA StreamStep ==
  ASSUME FilesParameters, TransfersInv, NEW c \in Calls, Stream(c)
  PROVE  TransfersInv'
<1>1. call[c] # Idle /\ call[c].at = "stream" /\ UNCHANGED <<objects, tasks, tree, was>>
  BY DEF Stream, Idle
<1>2. TreeInv' /\ StorageInv'
  BY <1>1 DEF TransfersInv, TreeInv, StorageInv
<1>3. CASE Ends(c, "failed")
  BY <1>1, <1>2, <1>3, EndsWell, Stays
<1> DEFINE r == call[c]
           n == Len(r.buffer) + 1
<1>4. /\ Path(c) = PathOf(r.in) /\ r.in.op \in Leaving /\ c \notin DOMAIN objects
      /\ r.buffer \in Seq(Marks) /\ r.seen \in Seq(Marks) /\ MaxBytes \in Nat
      /\ PathOf(r.in) \in DOMAIN tree /\ <<PathOf(r.in), r.seen>> \in was
      /\ Len(r.buffer) <= Len(r.seen) /\ Len(r.buffer) <= MaxBytes
      /\ \A m \in 1..Len(r.buffer) : r.buffer[m] = r.seen[m]
  BY <1>1, AnyCall, PathIs DEF Fits, Holds, FilesParameters
<1>5. CASE /\ n <= Len(r.seen) /\ n <= MaxBytes
           /\ Continues(c, "stream", Append(r.buffer, r.seen[n]), r.seen, c)
  <2> DEFINE more == Append(r.buffer, r.seen[n])
  <2>1. r.seen[n] \in Marks
    BY <1>4, <1>5
  <2>2. /\ more \in Seq(Marks) /\ Len(more) = n /\ more[n] = r.seen[n]
        /\ \A m \in 1..Len(r.buffer) : more[m] = r.buffer[m]
    BY <1>4, <2>1
  <2>3. Continues(c, "stream", more, r.seen, c)
    BY <1>5
  <2> HIDE DEF more
  <2>4. /\ call'[c].at = "stream" /\ call'[c].in = r.in /\ call'[c].buffer = more
        /\ call'[c].seen = r.seen /\ call'[c].key = c
    BY <2>3, CallContinues, ProgressFields
  <2>5. \A m \in 1..Len(more) : more[m] = r.seen[m]
    BY <1>4, <2>2, SMTT(30)
  <2>6. Holds(c, call[c])'
    BY <1>1, <1>4, <1>5, <2>2, <2>4, <2>5 DEF Holds
  <2>9. r.in \in Inputs
    BY <1>1, AnyCall
  <2>7. Fits("stream", r.in.op) /\ r.in \in Inputs
    BY <1>4, <2>9 DEF Fits
  <2>8. CallInv(c, call[c])'
    BY <1>1, <1>4, <2>2, <2>3, <2>4, <2>6, <2>7, CallContinues, ProgressFields DEF CallInv
  <2> QED
    BY <1>1, <1>2, <2>3, <2>8, CallContinues, Stays
<1>6. CASE ~(n <= Len(r.seen)) /\ Continues(c, "ticket", r.buffer, << >>, c)
  <2>1. Len(r.buffer) = Len(r.seen)
    BY <1>4, <1>6
  <2>2. r.buffer = r.seen
    <3>1. /\ r.buffer \in Seq(Marks) /\ r.seen \in Seq(Marks)
          /\ \A m \in 1..Len(r.buffer) : r.buffer[m] = r.seen[m]
      BY <1>4
    <3> HIDE DEF r
    <3> QED
      BY <2>1, <3>1, SeqEqual
  <2>4. /\ call'[c].at = "ticket" /\ call'[c].in = r.in /\ call'[c].buffer = r.buffer
        /\ call'[c].seen = << >> /\ call'[c].key = c
    BY <1>6, CallContinues, ProgressFields
  <2>5. Holds(c, call[c])'
    BY <1>1, <1>4, <2>2, <2>4 DEF Holds, Had
  <2>3. r.in \in Inputs
    BY <1>1, AnyCall
  <2>6. Fits("ticket", r.in.op) /\ r.in \in Inputs /\ << >> \in Seq(Marks)
    BY <1>4, <2>3 DEF Fits
  <2>7. CallInv(c, call[c])'
    BY <1>1, <1>4, <1>6, <2>4, <2>5, <2>6, CallContinues, ProgressFields DEF CallInv
  <2> QED
    BY <1>1, <1>2, <1>6, <2>7, CallContinues, Stays
<1> QED
  BY <1>3, <1>4, <1>5, <1>6 DEF Stream, Unchanged

LEMMA TicketStep ==
  ASSUME FilesParameters, TransfersInv, NEW c \in Calls, Ticket(c)
  PROVE  TransfersInv'
<1>1. /\ call[c] # Idle /\ call[c].at = "ticket"
      /\ UNCHANGED <<objects, tree, was>> /\ tasks \subseteq tasks'
  BY DEF Ticket, Idle
<1>2. TreeInv' /\ StorageInv'
  BY <1>1 DEF TransfersInv, TreeInv, StorageInv
<1>3. CASE Ends(c, "failed")
  BY <1>1, <1>2, <1>3, EndsWell, Stays
<1> DEFINE r == call[c]
<1>4. /\ r.in.op \in Leaving /\ c \notin DOMAIN objects /\ r.in \in Inputs
      /\ r.buffer \in Seq(Marks) /\ << >> \in Seq(Marks) /\ Had(r.in, r.buffer)
  <2>1. /\ Fits(r.at, r.in.op) /\ Holds(c, r) /\ r.in \in Inputs /\ r.buffer \in Seq(Marks)
        /\ c \notin DOMAIN objects
    BY <1>1, AnyCall
  <2>2. r.in.op \in Leaving /\ Had(r.in, r.buffer)
    BY <1>1, <2>1 DEF Fits, Holds
  <2> QED
    BY <2>1, <2>2
<1>5. ASSUME NEW k, NEW next \in {"send", "link", "published"}, Continues(c, next, r.buffer, << >>, k),
             next = "send" => k = c, next # "send" => k \in DOMAIN objects /\ objects[k] = r.buffer,
             Fits(next, r.in.op),
             r.in.op = "publish" => [call |-> c, kind |-> Service(c), key |-> k] \in tasks'
      PROVE  TransfersInv'
  <2>1. /\ call'[c].at = next /\ call'[c].in = r.in /\ call'[c].buffer = r.buffer
        /\ call'[c].seen = << >> /\ call'[c].key = k
    BY <1>5, CallContinues, ProgressFields
  <2>2. r.in.op = "publish" => \E t \in tasks' : t.call = c /\ t.key = k
    BY <1>5
  <2>3. Holds(c, call[c])'
    BY <1>1, <1>4, <1>5, <2>1, <2>2 DEF Holds, Had
  <2>4. CallInv(c, call[c])'
    BY <1>1, <1>4, <1>5, <2>1, <2>3, CallContinues, ProgressFields DEF CallInv
  <2> QED
    BY <1>1, <1>2, <1>5, <2>4, CallContinues, Stays
<1>6. ASSUME NEW k \in IF Same(c) = {} THEN {c} ELSE Same(c),
             Continues(c, IF Same(c) = {} THEN "send"
                          ELSE IF r.in.op = "publish" THEN "published" ELSE "link", r.buffer, << >>, k),
             tasks' = tasks \cup (IF r.in.op = "publish"
                                 THEN {[call |-> c, kind |-> Service(c), key |-> k]} ELSE {})
      PROVE  TransfersInv'
  <2> DEFINE next == IF Same(c) = {} THEN "send" ELSE IF r.in.op = "publish" THEN "published" ELSE "link"
  <2>1. /\ next \in {"send", "link", "published"} /\ Fits(next, r.in.op)
        /\ Continues(c, next, r.buffer, << >>, k)
        /\ r.in.op = "publish" => [call |-> c, kind |-> Service(c), key |-> k] \in tasks'
    BY <1>4, <1>6 DEF Fits, Leaving
  <2>2. next = "send" => k = c
    BY <1>6
  <2>3. next # "send" => k \in DOMAIN objects /\ objects[k] = r.buffer
    BY <1>6 DEF Same
  <2> HIDE DEF next
  <2> QED
    BY <1>5, <2>1, <2>2, <2>3
<1> QED
  BY <1>3, <1>6 DEF Ticket

LEMMA SendStep ==
  ASSUME FilesParameters, TransfersInv, NEW c \in Calls, Send(c)
  PROVE  TransfersInv'
<1> DEFINE r == call[c]
<1>1. r # Idle /\ r.at = "send" /\ UNCHANGED <<tree, tasks, was>>
  BY DEF Send, Idle
<1>2. TreeInv'
  BY <1>1 DEF TransfersInv, TreeInv
<1>3. /\ r.in.op \in Leaving /\ c \notin DOMAIN objects /\ r.in \in Inputs /\ r.key = c
      /\ r.buffer \in Seq(Marks) /\ << >> \in Seq(Marks) /\ Had(r.in, r.buffer)
      /\ r.in.op = "publish" => \E t \in tasks : t.call = c /\ t.key = c
  <2>1. /\ Fits(r.at, r.in.op) /\ Holds(c, r) /\ r.in \in Inputs /\ r.buffer \in Seq(Marks)
        /\ c \notin DOMAIN objects
    BY <1>1, AnyCall
  <2>2. r.in.op \in Leaving /\ Had(r.in, r.buffer) /\ r.key = c
    BY <1>1, <2>1 DEF Fits, Holds
  <2>3. r.in.op = "publish" => \E t \in tasks : t.call = c /\ t.key = c
    BY <1>1, <2>1, <2>2 DEF Holds
  <2> QED
    BY <2>1, <2>2, <2>3
<1>4. CASE UNCHANGED objects /\ Ends(c, "failed")
  <2>1. StorageInv'
    BY <1>4 DEF TransfersInv, StorageInv
  <2> QED
    BY <1>1, <1>2, <1>4, <2>1, EndsWell, Stays
<1>5. CASE objects' = [k \in DOMAIN objects \cup {r.key} |-> IF k = r.key THEN r.buffer ELSE objects[k]]
  <2>1. /\ DOMAIN objects' = DOMAIN objects \cup {c} /\ objects'[c] = r.buffer
        /\ \A k \in DOMAIN objects : objects'[k] = objects[k]
    BY <1>3, <1>5
  <2>2. StorageInv'
    BY <1>3, <2>1 DEF TransfersInv, StorageInv
  <2>3. CASE Ends(c, "failed")
    BY <1>1, <1>2, <2>1, <2>2, <2>3, EndsWell, Stays
  <2>4. ASSUME NEW next \in {"link", "published"}, Fits(next, r.in.op),
               Continues(c, next, << >>, << >>, r.key)
        PROVE  TransfersInv'
    <3>1. /\ call'[c].at = next /\ call'[c].in = r.in /\ call'[c].buffer = << >>
          /\ call'[c].seen = << >> /\ call'[c].key = c
      BY <1>3, <2>4, CallContinues, ProgressFields
    <3>2. <<PathOf(r.in), objects'[c]>> \in was' /\ Len(objects'[c]) <= MaxBytes /\ c \in DOMAIN objects'
      BY <1>1, <1>3, <2>1 DEF Had
    <3>5. r.in.op = "publish" => \E t \in tasks' : t.call = c /\ t.key = c
      BY <1>1, <1>3
    <3>3. Holds(c, call[c])'
      BY <2>4, <3>1, <3>2, <3>5 DEF Holds, Had
    <3>4. CallInv(c, call[c])'
      BY <1>1, <1>3, <2>4, <3>1, <3>3, CallContinues, ProgressFields DEF CallInv
    <3> QED
      BY <1>1, <1>2, <2>1, <2>2, <2>4, <3>4, CallContinues, Stays
  <2>5. CASE Continues(c, IF r.in.op = "export" THEN "link" ELSE "published", << >>, << >>, r.key)
    <3> DEFINE next == IF r.in.op = "export" THEN "link" ELSE "published"
    <3>1. next \in {"link", "published"} /\ Fits(next, r.in.op)
      BY <1>3 DEF Fits, Leaving
    <3>2. Continues(c, next, << >>, << >>, r.key)
      BY <2>5
    <3> HIDE DEF next
    <3> QED
      BY <2>4, <3>1, <3>2
  <2> QED
    BY <1>4, <1>5, <2>3, <2>5 DEF Send
<1> QED
  BY <1>4, <1>5 DEF Send

LEMMA ReportStep ==
  ASSUME FilesParameters, TransfersInv, NEW c \in Calls, Report(c)
  PROVE  TransfersInv'
<1> DEFINE r == call[c]
<1>1. r # Idle /\ r.at \in {"link", "published"} /\ UNCHANGED <<tree, objects, tasks, was>>
  BY DEF Report, Idle
<1>2. TreeInv' /\ StorageInv'
  BY <1>1 DEF TransfersInv, TreeInv, StorageInv
<1>3. CASE Ends(c, "failed")
  BY <1>1, <1>2, <1>3, EndsWell, Stays
<1>4. CASE call' = [call EXCEPT ![c] = Progress("done", r.in, << >>, << >>, r.key)]
  <2>1. /\ r.key \in DOMAIN objects /\ Had(r.in, objects[r.key]) /\ r.in \in Inputs
        /\ r.in.op = "publish" => \E t \in tasks : t.call = c /\ t.key = r.key
    <3>1. Fits(r.at, r.in.op) /\ Holds(c, r) /\ r.in \in Inputs
      BY <1>1, AnyCall
    <3>2. r.key \in DOMAIN objects /\ Had(r.in, objects[r.key])
      BY <1>1, <3>1 DEF Holds
    <3>3. r.in.op = "publish" => r.at = "published"
      BY <1>1, <3>1 DEF Fits
    <3> QED
      BY <3>1, <3>2, <3>3 DEF Holds
  <2>2. DOMAIN call' = Calls /\ (\A x \in Calls : x # c => call'[x] = call[x])
        /\ call'[c] = Progress("done", r.in, << >>, << >>, r.key)
    BY <1>4, Turned DEF TransfersInv
  <2>3. /\ call'[c].at = "done" /\ call'[c].in = r.in /\ call'[c].buffer = << >>
        /\ call'[c].seen = << >> /\ call'[c].key = r.key
    BY <2>2, ProgressFields
  <2>7. /\ <<PathOf(r.in), objects'[r.key]>> \in was' /\ Len(objects'[r.key]) <= MaxBytes
        /\ r.key \in DOMAIN objects'
        /\ r.in.op = "publish" => \E t \in tasks' : t.call = c /\ t.key = r.key
    BY <1>1, <2>1 DEF Had
  <2>4. Holds(c, call[c])'
    BY <2>3, <2>7 DEF Holds, Had
  <2>5. Fits("done", r.in.op) /\ << >> \in Seq(Marks)
    BY DEF Fits
  <2>6. CallInv(c, call[c])'
    <3>1. /\ call'[c] # Idle
          /\ LET q == call'[c] IN
               q = [at |-> q.at, in |-> q.in,
                    buffer |-> q.buffer, seen |-> q.seen, key |-> q.key, paths |-> q.paths]
      BY <2>2, ProgressFields
    <3> QED
      BY <2>1, <2>3, <2>4, <2>5, <3>1 DEF CallInv
  <2> QED
    BY <1>1, <1>2, <2>2, <2>6, Stays
<1> QED
  BY <1>3, <1>4 DEF Report

-----------------------------------------------------------------------------
LEMMA TransfersInit == ASSUME FilesParameters, FilesInit PROVE TransfersInv
<1>1. TreeInv
  <2>1. \A w \in was : \E p \in DOMAIN Files : w = <<p, Files[p]>>
    BY DEF FilesInit
  <2>2. \A p \in DOMAIN tree : <<p, tree[p]>> \in was
    BY DEF FilesInit
  <2> QED
    BY <2>1, <2>2, SoundFile DEF TreeInv
<1>2. StorageInv
  BY DEF StorageInv, FilesInit, FilesParameters
<1>3. \A c \in Calls : call[c] = Idle /\ c \notin DOMAIN objects
  BY DEF FilesInit, FilesParameters
<1>4. DOMAIN call = Calls
  BY DEF FilesInit
<1> QED
  BY <1>1, <1>2, <1>3, <1>4 DEF TransfersInv, CallInv

LEMMA TransfersStep == ASSUME FilesParameters, TransfersInv, [FilesNext]_fileVars PROVE TransfersInv'
<1>1. CASE UNCHANGED fileVars
  BY <1>1 DEF fileVars, TransfersInv, TreeInv, StorageInv, CallInv, Holds, Had
<1>2. CASE FilesNext
  BY <1>2, BeginStep, TakeLeaseStep, ReadStep, EditStep, FetchStep, PutStep, OpenStep, StreamStep,
     TicketStep, SendStep, ReportStep DEF FilesNext
<1> QED
  BY <1>1, <1>2

LEMMA WholeTransfers == ASSUME FilesParameters, TransfersInv PROVE TransfersAreWhole
<1>1. ExportIsWhole
  <2> SUFFICES ASSUME NEW c \in Calls, Done(c, {"export", "publish"})
               PROVE  /\ <<Path(c), objects[call[c].key]>> \in was
                      /\ Len(objects[call[c].key]) <= MaxBytes
                      /\ Done(c, {"publish"}) => \E t \in tasks : t.call = c /\ t.key = call[c].key
    BY DEF ExportIsWhole
  <2>1. call[c].at = "done" /\ call[c].in.op \in Leaving /\ call[c] # Idle
    BY DEF Done, Leaving, Idle
  <2>2. Holds(c, call[c])
    BY <2>1, AnyCall
  <2> QED
    BY <2>1, <2>2, PathIs DEF Holds, Had, Done
<1>2. ImportIsWhole
  <2> SUFFICES ASSUME NEW w \in was, NEW n \in DOMAIN Attachments, w[2] # << >>, w[2][1] = Whole(n)[1]
               PROVE  IsPrefix(Whole(n), w[2]) /\ Len(Whole(n)) <= MaxBytes
    BY DEF ImportIsWhole, Whole
  <2>1. Sound(w[2]) /\ w[2] \in Seq(Marks) /\ Whole(n) \in Seq(Marks) /\ MaxBytes \in Nat
    BY Marked DEF TransfersInv, TreeInv, Sound, FilesParameters
  <2>2. CASE Whole(n) = << >>
    <3>1. /\ Len(Whole(n)) = 0 /\ Len(Whole(n)) <= Len(w[2])
          /\ \A i \in 1..Len(Whole(n)) : w[2][i] = Whole(n)[i]
      <4>1. Len(Whole(n)) = 0
        BY <2>2
      <4>2. Len(w[2]) \in Nat
        BY <2>1
      <4> QED
        BY <4>1, <4>2
    <3>2. IsPrefix(Whole(n), w[2])
      BY <2>1, <3>1, BeginsLike
    <3> QED
      BY <2>1, <3>1, <3>2
  <2>3. CASE Whole(n) # << >>
    <3>1. /\ Len(Whole(n)) <= MaxBytes /\ Len(Whole(n)) <= Len(w[2])
          /\ \A i \in 1..Len(Whole(n)) : w[2][i] = Whole(n)[i]
      BY <2>1, <2>3 DEF Sound
    <3> QED
      BY <2>1, <3>1, BeginsLike
  <2> QED
    BY <2>2, <2>3
<1> QED
  BY <1>1, <1>2 DEF TransfersAreWhole

\* Whatever fails and whatever others write meanwhile: what a call has exported or published
\* is in storage whole, as the file once was, and no file holds a part of an attachment.
THEOREM TransfersSafe ==
  ASSUME FilesParameters
  PROVE  FilesSpec => []TransfersAreWhole
<1>1. FilesInit => TransfersInv
  BY TransfersInit
<1>2. TransfersInv /\ [FilesNext]_fileVars => TransfersInv'
  BY TransfersStep
<1>3. TransfersInv => TransfersAreWhole
  BY WholeTransfers
<1> QED
  BY <1>1, <1>2, <1>3, PTL DEF FilesSpec

-----------------------------------------------------------------------------
(* Names and paths.                                                         *)

\* A value computed in steps.
Stepwise(f, n, T, a, step) ==
  f \in [0..n -> T] /\ f[0] = a /\ \A i \in 1..n : f[i] = step[i][f[i - 1]]

LEMMA StepsExist ==
  ASSUME NEW n \in Nat, NEW T, NEW a \in T, NEW step \in [1..n -> [T -> T]]
  PROVE  \E f : Stepwise(f, n, T, a, step)
<1> DEFINE Upto(f, m) == f[0] = a /\ \A i \in 1..m : f[i] = step[i][f[i - 1]]
           Bad == {m \in 0..n : ~\E f \in [0..n -> T] : Upto(f, m)}
<1> SUFFICES ASSUME Bad # {} PROVE FALSE
  <2>1. n \in 0..n
    OBVIOUS
  <2>2. Bad = {} => \E f \in [0..n -> T] : Upto(f, n)
    BY <2>1
  <2> QED
    BY <2>2 DEF Stepwise
<1>1. PICK m \in Bad : \A k \in Bad : m <= k
  <2>1. Bad \in SUBSET Nat
    OBVIOUS
  <2> HIDE DEF Bad
  <2> QED
    BY <2>1, Least
<1>2. m # 0
  <2>1. [i \in 0..n |-> a] \in [0..n -> T] /\ Upto([i \in 0..n |-> a], 0)
    OBVIOUS
  <2> QED
    BY <1>1, <2>1
<1>3. PICK f \in [0..n -> T] : Upto(f, m - 1)
  <2>1. m - 1 \in 0..n /\ ~(m <= m - 1)
    BY <1>1, <1>2
  <2> QED
    BY <1>1, <2>1
<1> DEFINE g == [f EXCEPT ![m] = step[m][f[m - 1]]]
<1>4. m \in 1..n /\ m - 1 \in 0..n
  BY <1>1, <1>2
<1>5. g \in [0..n -> T]
  BY <1>4
<1>6. Upto(g, m)
  <2>1. g[0] = a
    BY <1>3, <1>4
  <2>2. ASSUME NEW i \in 1..m
        PROVE  g[i] = step[i][g[i - 1]]
    <3>1. i \in 0..n /\ i - 1 \in 0..n /\ i - 1 # m /\ (i # m => i \in 1..m - 1)
      BY <1>4
    <3>2. g[i - 1] = f[i - 1]
      BY <3>1
    <3>3. CASE i = m
      BY <1>4, <3>2, <3>3
    <3>4. CASE i # m
      BY <1>3, <3>1, <3>2, <3>4
    <3> QED
      BY <3>3, <3>4
  <2> QED
    BY <2>1, <2>2
<1> QED
  BY <1>1, <1>5, <1>6

Odd == {"", "."}

\* Clean keeps the names of a path that are not odd, and all of a path that has none.
LEMMA CleanNames ==
  ASSUME NEW S, NEW p \in Seq(S)
  PROVE  /\ Clean(p) \in Seq({p[i] : i \in 1..Len(p)} \ Odd)
         /\ (\A i \in 1..Len(p) : p[i] \notin Odd) => Clean(p) = p
<1> DEFINE n == Len(p)
           kept == {p[i] : i \in 1..n} \ Odd
           T == Seq({p[i] : i \in 1..n})
           Steps(f) == f = [i \in 0..n |->
                              IF i = 0 THEN << >>
                              ELSE IF p[i] \in Odd THEN f[i - 1] ELSE Append(f[i - 1], p[i])]
           step == [i \in 1..n |-> [q \in T |-> IF p[i] \in Odd THEN q ELSE Append(q, p[i])]]
           clean == CHOOSE f : Steps(f)
<1>1. n \in Nat /\ << >> \in T /\ step \in [1..n -> [T -> T]]
  OBVIOUS
<1>2. PICK f : Stepwise(f, n, T, << >>, step)
  <2> HIDE DEF step, T, n
  <2> QED
    BY <1>1, StepsExist, Zenon
<1>3. ASSUME NEW i \in 1..n PROVE f[i] = IF p[i] \in Odd THEN f[i - 1] ELSE Append(f[i - 1], p[i])
  <2>1. i - 1 \in 0..n
    <3> HIDE DEF step, T, n
    <3> QED
      BY <1>1
  <2>2. f[i - 1] \in T /\ f[i] = step[i][f[i - 1]]
    <3> HIDE DEF step, T, n
    <3> QED
      BY <1>2, <2>1 DEF Stepwise
  <2>3. step[i] = [q \in T |-> IF p[i] \in Odd THEN q ELSE Append(q, p[i])]
    OBVIOUS
  <2> HIDE DEF T, step
  <2> QED
    BY <2>2, <2>3
<1>4. Steps(f)
  <2>1. \A i \in 0..n : i # 0 => i \in 1..n
    BY <1>1
  <2>2. f = [i \in 0..n |-> f[i]] /\ f[0] = << >>
    BY <1>2 DEF Stepwise
  <2> QED
    BY <1>3, <2>1, <2>2
<1>5. Steps(clean) /\ Clean(p) = clean[n]
  <2>1. Steps(clean)
    <3> HIDE DEF Steps
    <3> QED
      BY <1>4
  <2> QED
    BY <2>1 DEF Clean, Odd
<1> HIDE DEF clean
<1>6. /\ clean[0] = << >>
      /\ \A i \in 1..n : clean[i] = IF p[i] \in Odd THEN clean[i - 1] ELSE Append(clean[i - 1], p[i])
  <2>1. ASSUME NEW i \in 0..n
        PROVE  clean[i] = IF i = 0 THEN << >>
                          ELSE IF p[i] \in Odd THEN clean[i - 1] ELSE Append(clean[i - 1], p[i])
    BY <1>5, Zenon
  <2>2. 0 \in 0..n /\ \A i \in 1..n : i \in 0..n /\ i # 0
    BY <1>1
  <2> QED
    BY <2>1, <2>2
<1> DEFINE Right(m) == /\ clean[m] \in Seq(kept)
                       /\ (\A i \in 1..m : p[i] \notin Odd) =>
                            Len(clean[m]) = m /\ \A i \in 1..m : clean[m][i] = p[i]
           Bad == {m \in 0..n : ~Right(m)}
<1>7. Bad = {}
  <2> SUFFICES ASSUME Bad # {} PROVE FALSE
    OBVIOUS
  <2>1. PICK m \in Bad : \A k \in Bad : m <= k
    <3>1. Bad \in SUBSET Nat
      OBVIOUS
    <3> HIDE DEF Bad
    <3> QED
      BY <3>1, Least
  <2>2. m # 0
    <3>1. Right(0)
      BY <1>6
    <3> QED
      BY <2>1, <3>1
  <2>3. m \in 1..n /\ m - 1 \in 0..n /\ m - 1 \in Nat /\ ~(m <= m - 1)
    BY <1>1, <2>1, <2>2
  <2>4. Right(m - 1)
    BY <2>1, <2>3
  <2>5. Right(m)
    <3>1. CASE p[m] \in Odd
      BY <1>6, <2>3, <2>4, <3>1
    <3>2. CASE p[m] \notin Odd
      <4>1. clean[m] = Append(clean[m - 1], p[m]) /\ p[m] \in kept /\ clean[m - 1] \in Seq(kept)
        BY <1>6, <2>3, <2>4, <3>2
      <4> HIDE DEF kept
      <4>2. /\ clean[m] \in Seq(kept) /\ Len(clean[m]) = Len(clean[m - 1]) + 1
            /\ clean[m][Len(clean[m - 1]) + 1] = p[m]
            /\ \A i \in 1..Len(clean[m - 1]) : clean[m][i] = clean[m - 1][i]
        BY <4>1
      <4>3. ASSUME \A i \in 1..m : p[i] \notin Odd
            PROVE  Len(clean[m]) = m /\ \A i \in 1..m : clean[m][i] = p[i]
        <5>1. Len(clean[m - 1]) = m - 1 /\ \A i \in 1..m - 1 : clean[m - 1][i] = p[i]
          BY <2>3, <2>4, <4>3
        <5> QED
          BY <2>3, <4>2, <5>1
      <4> QED
        BY <4>2, <4>3
    <3> QED
      BY <3>1, <3>2
  <2> QED
    BY <2>1, <2>5
<1>8. Right(n)
  <2>1. n \in 0..n
    BY <1>1
  <2> HIDE DEF Right
  <2> QED
    BY <1>7, <2>1
<1>9. ASSUME \A i \in 1..n : p[i] \notin Odd
      PROVE  Clean(p) = p
  <2>1. clean[n] \in Seq(S) /\ Len(clean[n]) = n /\ \A i \in 1..n : clean[n][i] = p[i]
    BY <1>8, <1>9, SMTT(30)
  <2> QED
    BY <1>5, <2>1, SeqEqual
<1> QED
  BY <1>5, <1>8, <1>9

\* A path without ".." is where it says.
LEMMA FoundThere ==
  ASSUME NEW S, NEW p \in Seq(S), \A i \in 1..Len(p) : p[i] # ".."
  PROVE  Found(p) = p
<1> DEFINE n == Len(p)
           Steps(f) == f = [i \in 0..n |->
                              IF i = 0 THEN << >>
                              ELSE IF p[i] = ".." THEN Front(f[i - 1]) ELSE Append(f[i - 1], p[i])]
           there == [i \in 0..n |-> SubSeq(p, 1, i)]
           found == CHOOSE f : Steps(f)
<1>1. n \in Nat /\ 0 \in 0..n /\ n \in 0..n /\ \A i \in 0..n : i # 0 => i \in 1..n /\ i - 1 \in 0..n
  OBVIOUS
<1>2. Steps(there)
  <2>1. there[0] = << >>
    BY <1>1
  <2>2. ASSUME NEW i \in 1..n PROVE there[i] = Append(there[i - 1], p[i])
    BY <1>1
  <2> QED
    BY <1>1, <2>1, <2>2
<1>3. Steps(found) /\ Found(p) = found[n]
  <2>1. Steps(found)
    <3> HIDE DEF Steps
    <3> QED
      BY <1>2
  <2> QED
    BY <2>1 DEF Found
<1> HIDE DEF found
<1>4. /\ found[0] = << >>
      /\ \A i \in 1..n : found[i] = Append(found[i - 1], p[i])
  <2>1. ASSUME NEW i \in 0..n
        PROVE  found[i] = IF i = 0 THEN << >>
                          ELSE IF p[i] = ".." THEN Front(found[i - 1]) ELSE Append(found[i - 1], p[i])
    BY <1>3, Zenon
  <2>2. \A i \in 1..n : i \in 0..n /\ i # 0
    BY <1>1
  <2> QED
    BY <1>1, <2>1, <2>2
<1> DEFINE Bad == {m \in 0..n : found[m] # SubSeq(p, 1, m)}
<1>5. Bad = {}
  <2> SUFFICES ASSUME Bad # {} PROVE FALSE
    OBVIOUS
  <2>1. PICK m \in Bad : \A k \in Bad : m <= k
    <3>1. Bad \in SUBSET Nat
      OBVIOUS
    <3> HIDE DEF Bad
    <3> QED
      BY <3>1, Least
  <2>2. m # 0
    <3>1. found[0] = SubSeq(p, 1, 0)
      BY <1>4
    <3> QED
      BY <2>1, <3>1
  <2>3. m \in 1..n /\ m - 1 \in 0..n /\ m - 1 \in Nat /\ ~(m <= m - 1)
    BY <1>1, <2>1, <2>2
  <2>4. found[m - 1] = SubSeq(p, 1, m - 1)
    BY <2>1, <2>3
  <2>5. SubSeq(p, 1, m) = Append(SubSeq(p, 1, m - 1), p[m])
    BY <2>3
  <2> QED
    BY <1>4, <2>1, <2>3, <2>4, <2>5
<1>6. found[n] = SubSeq(p, 1, n)
  BY <1>1, <1>5
<1>7. SubSeq(p, 1, n) = p
  OBVIOUS
<1> QED
  BY <1>3, <1>6, <1>7

\* A path that is accepted is one of its session's workspace.
LEMMA AcceptedPath ==
  ASSUME FilesParameters, NEW i \in Inputs, Accepts(i.path)
  PROVE  /\ PathOf(i) \in Seq(Proper) /\ Within(i.session, PathOf(i))
         /\ Len(PathOf(i)) # 1 => PathOf(i) \in Places
<1> DEFINE p == Strip(i.path)
           s == i.session
<1>1. i.path \in Seq(Names) /\ s \in Proper /\ Lstrip \in [Names -> Names] /\ Rstrip \in [Names -> Names]
  BY DEF FilesParameters
<1>2. p \in Seq(Names) /\ \A k \in 1..Len(p) : p[k] # ".."
  <2>1. /\ Len(i.path) \in Nat /\ DOMAIN i.path = 1..Len(i.path)
        /\ \A k \in 1..Len(i.path) : i.path[k] \in Names
    BY <1>1
  <2>2. p = [k \in 1..Len(i.path) |-> p[k]]
    BY <2>1 DEF Strip
  <2>3. ASSUME NEW k \in 1..Len(i.path)
        PROVE  p[k] \in Names /\ p[k] # ".."
    BY <1>1, <2>1 DEF Strip, Accepts
  <2> HIDE DEF p
  <2> QED
    BY <2>1, <2>2, <2>3, SMTT(30)
<1> HIDE DEF p
<1>3. Clean(p) \in Seq({p[k] : k \in 1..Len(p)} \ Odd)
  BY <1>2, CleanNames
<1>4. {p[k] : k \in 1..Len(p)} \ Odd \subseteq Proper
  <2>1. \A k \in 1..Len(p) : p[k] \in Names /\ p[k] # ".."
    BY <1>2
  <2> QED
    BY <2>1 DEF Odd, Proper
<1>5. Clean(p) \in Seq(Proper)
  BY <1>3, <1>4
<1> DEFINE q == <<s>> \o Clean(p)
<1>6. q \in Seq(Proper) /\ q # << >> /\ q[1] = s /\ Len(q) >= 1 /\ Absolute(s, i.path) = q
  BY <1>1, <1>5 DEF Absolute, p
<1> HIDE DEF q
<1>7. Len(q) \in Nat /\ \A k \in 1..Len(q) : q[k] # ".."
  <2>1. Len(q) \in Nat /\ \A k \in 1..Len(q) : q[k] \in Proper
    BY <1>6
  <2> QED
    BY <2>1 DEF Proper
<1>8. PathOf(i) = q
  BY <1>6, <1>7, FoundThere DEF PathOf
<1>9. q \in Seq(Proper) /\ Within(s, q) /\ (Len(q) # 1 => q \in Places)
  <2>1. Len(q) # 1 => Len(q) >= 2
    <3>1. \A n \in Nat : n >= 1 /\ n # 1 => n >= 2
      OBVIOUS
    <3> QED
      BY <1>6, <1>7, <3>1, Zenon
  <2> QED
    BY <1>6, <2>1 DEF Within, Places
<1> QED
  BY <1>8, <1>9

\* The relative path of a file is accepted and leads to it.
LEMMA RelativeLeads ==
  ASSUME FilesParameters, NEW q \in Places, NEW s, Within(s, q),
         Strip(Relative(s, q)) = Relative(s, q),
         \A k \in DOMAIN Relative(s, q) : Relative(s, q)[k] \notin Foreign
  PROVE  Accepts(Relative(s, q)) /\ Found(Absolute(s, Relative(s, q))) = q
<1> DEFINE r == Relative(s, q)
<1>1. q \in Seq(Proper) /\ Len(q) >= 2 /\ q[1] = s
  BY DEF Places, Within
<1>2. /\ r \in Seq(Proper) /\ Len(r) = Len(q) - 1 /\ DOMAIN r = 1..Len(r)
      /\ \A k \in 1..Len(r) : r[k] = q[k + 1] /\ r[k] \in Proper
  BY <1>1 DEF Relative
<1> HIDE DEF r
<1>3. r # << >> /\ 1 \in 1..Len(r)
  BY <1>1, <1>2
<1>4. Strip(r) = r /\ \A k \in 1..Len(r) : r[k] \notin Foreign
  BY <1>2 DEF r
<1>5. Accepts(r)
  BY <1>2, <1>3, <1>4 DEF Accepts, Proper
<1>6. Clean(r) = r
  BY <1>2, CleanNames DEF Odd, Proper
<1>7. <<s>> \o r = q
  <2>1. <<s>> \o r \in Seq(Proper) /\ Len(<<s>> \o r) = Len(q)
    BY <1>1, <1>2
  <2>2. \A k \in 1..Len(q) : (<<s>> \o r)[k] = q[k]
    BY <1>1, <1>2
  <2> QED
    BY <1>1, <2>1, <2>2, SeqEqual
<1>8. Found(q) = q
  <2>1. \A k \in 1..Len(q) : q[k] \in Proper
    BY <1>1
  <2>2. \A k \in 1..Len(q) : q[k] # ".."
    BY <2>1 DEF Proper
  <2> QED
    BY <1>1, <2>2, FoundThere
<1> QED
  BY <1>4, <1>5, <1>6, <1>7, <1>8 DEF Absolute, r

-----------------------------------------------------------------------------
(* Names on the way in and out: the inductive invariant.                    *)

\* Every file has a proper place, and what a call wrote is in the workspace of its session;
\* a call that goes on has an acceptable path; the paths of an answer are relative to their files.
FilesInv ==
  /\ DOMAIN tree \subseteq Places
  /\ \A w \in was : \A n \in DOMAIN w[2] : w[2][n] \in Calls =>
       call[w[2][n]] # Idle /\ Within(call[w[2][n]].in.session, w[1])
  /\ \A c \in Calls : call[c].at \notin {"idle", "lease", "failed"} => Accepts(call[c].in.path)
  /\ \A c \in Calls : Done(c, Looks) => \A a \in call[c].paths :
       a[2] \in Places /\ Within(call[c].in.session, a[2]) /\ a[1] = Relative(call[c].in.session, a[2])

\* What a step does to the names: the others stay, the call is the one it was.
LEMMA PathsStay ==
  ASSUME FilesInv, NEW c \in Calls, \A x \in Calls : x # c => call'[x] = call[x],
         call[c] # Idle => call'[c] # Idle /\ call'[c].in = call[c].in,
         DOMAIN tree' \subseteq Places,
         \A w \in was' : w \in was \/ \A n \in DOMAIN w[2] : w[2][n] \in Calls =>
            call'[w[2][n]] # Idle /\ Within(call'[w[2][n]].in.session, w[1]),
         call'[c].at \notin {"idle", "lease", "failed"} => Accepts(call'[c].in.path),
         Done(c, Looks)' => \A a \in call'[c].paths :
            /\ a[2] \in Places /\ Within(call'[c].in.session, a[2])
            /\ a[1] = Relative(call'[c].in.session, a[2])
  PROVE  FilesInv'
<1>1. ASSUME NEW w \in was', NEW n \in DOMAIN w[2], w[2][n] \in Calls
      PROVE  call'[w[2][n]] # Idle /\ Within(call'[w[2][n]].in.session, w[1])
  <2>1. CASE w \in was
    <3>1. call[w[2][n]] # Idle /\ Within(call[w[2][n]].in.session, w[1])
      BY <1>1, <2>1 DEF FilesInv
    <3>2. CASE w[2][n] = c
      BY <3>1, <3>2
    <3>3. CASE w[2][n] # c
      BY <1>1, <3>1, <3>3
    <3> QED
      BY <3>2, <3>3
  <2>2. CASE w \notin was
    BY <1>1, <2>2
  <2> QED
    BY <2>1, <2>2
<1>2. ASSUME NEW x \in Calls, call'[x].at \notin {"idle", "lease", "failed"}
      PROVE  Accepts(call'[x].in.path)
  BY <1>2 DEF FilesInv
<1>3. ASSUME NEW x \in Calls, Done(x, Looks)', NEW a \in call'[x].paths
      PROVE  /\ a[2] \in Places /\ Within(call'[x].in.session, a[2])
             /\ a[1] = Relative(call'[x].in.session, a[2])
  <2>1. CASE x = c
    BY <1>3, <2>1
  <2>2. CASE x # c
    BY <1>3, <2>2 DEF FilesInv, Done
  <2> QED
    BY <2>1, <2>2
<1> QED
  BY <1>1, <1>2, <1>3 DEF FilesInv

\* A call that goes on, or ends, and leaves the files alone.
LEMMA PathsMove ==
  ASSUME FilesInv, NEW c \in Calls, \A x \in Calls : x # c => call'[x] = call[x],
         UNCHANGED <<tree, was>>, call[c] # Idle, call'[c].in = call[c].in,
         call'[c].at # "idle", call'[c].at = "failed" \/ call[c].at \notin {"idle", "lease", "failed"},
         call'[c].at = "done" => call[c].in.op \notin Looks
  PROVE  FilesInv'
<1>1. call'[c] # Idle
  BY DEF Idle
<1>2. DOMAIN tree' \subseteq Places
  BY DEF FilesInv
<1>3. call'[c].at \notin {"idle", "lease", "failed"} => Accepts(call'[c].in.path)
  BY DEF FilesInv
<1>4. ~Done(c, Looks)'
  BY DEF Done
<1>5. \A w \in was' : w \in was
  OBVIOUS
<1> QED
  BY <1>1, <1>2, <1>3, <1>4, <1>5, PathsStay

LEMMA EndsFields ==
  ASSUME TransfersInv, NEW c \in Calls, NEW how, Ends(c, how)
  PROVE  /\ \A x \in Calls : x # c => call'[x] = call[x]
         /\ call'[c].at = how /\ call'[c].in = call[c].in /\ call'[c].paths = {}
BY Turned, BegunFields DEF Ends, TransfersInv

LEMMA PathsFail ==
  ASSUME TransfersInv, FilesInv, NEW c \in Calls, Ends(c, "failed"), call[c] # Idle, UNCHANGED <<tree, was>>
  PROVE  FilesInv'
BY EndsFields, PathsMove

LEMMA PathsContinue ==
  ASSUME TransfersInv, FilesInv, NEW c \in Calls, UNCHANGED <<tree, was>>, call[c] # Idle,
         call[c].at \notin {"idle", "lease", "failed"},
         NEW at \in {"put", "stream", "ticket", "send", "link", "published"},
         NEW buffer, NEW seen, NEW key, Continues(c, at, buffer, seen, key)
  PROVE  FilesInv'
<1>1. /\ \A x \in Calls : x # c => call'[x] = call[x]
      /\ call'[c].at = at /\ call'[c].in = call[c].in
  BY CallContinues, ProgressFields
<1> QED
  BY <1>1, PathsMove

LEMMA PathsBegin ==
  ASSUME TransfersInv, FilesInv, NEW c \in Calls, Begin(c)
  PROVE  FilesInv'
<1>1. PICK i \in Inputs :
        call' = [call EXCEPT ![c] = Begun(c,
          IF i.op = "import" /\ (Offered(i.attachment) = {} \/ Attachment(i.attachment).size > MaxBytes)
            THEN "failed" ELSE "lease", i)]
  BY DEF Begin
<1>2. /\ UNCHANGED <<tree, was>> /\ call[c] = Idle /\ DOMAIN call = Calls
  BY DEF Begin, TransfersInv
<1>3. /\ \A x \in Calls : x # c => call'[x] = call[x]
      /\ call'[c].at \in {"failed", "lease"}
  BY <1>1, <1>2, Turned, BegunFields
<1>4. DOMAIN tree' \subseteq Places /\ \A w \in was' : w \in was
  BY <1>2 DEF FilesInv
<1>5. ~Done(c, Looks)'
  BY <1>3 DEF Done
<1> QED
  BY <1>2, <1>3, <1>4, <1>5, PathsStay

LEMMA PathsLease ==
  ASSUME TransfersInv, FilesInv, NEW c \in Calls, TakeLease(c)
  PROVE  FilesInv'
<1>1. call[c] # Idle /\ UNCHANGED <<tree, was>> /\ DOMAIN call = Calls
  BY DEF TakeLease, Idle, TransfersInv
<1>2. CASE Ends(c, "failed")
  BY <1>1, <1>2, PathsFail
<1>3. ASSUME NEW a \in {"look", "edit", "fetch", "open"}, Accepts(call[c].in.path),
             call' = [call EXCEPT ![c].at = a]
      PROVE  FilesInv'
  <2>1. /\ \A x \in Calls : x # c => call'[x] = call[x]
        /\ call'[c] = [call[c] EXCEPT !.at = a]
    BY <1>1, <1>3
  <2>2. call'[c].at = a /\ call'[c].in = call[c].in
    BY <1>1, <2>1, AnyCall
  <2>3. DOMAIN tree' \subseteq Places /\ \A w \in was' : w \in was
    BY <1>1 DEF FilesInv
  <2>4. ~Done(c, Looks)' /\ call'[c] # Idle
    BY <1>3, <2>2 DEF Done, Idle
  <2> QED
    BY <1>3, <2>1, <2>2, <2>3, <2>4, PathsStay
<1> QED
  BY <1>2, <1>3 DEF TakeLease

LEMMA PathsInspect ==
  ASSUME TransfersInv, FilesInv, NEW c \in Calls, Inspect(c)
  PROVE  FilesInv'
<1>1. call[c] # Idle /\ call[c].at = "look" /\ UNCHANGED <<tree, was>> /\ DOMAIN call = Calls
  BY DEF Inspect, Idle, Refused, TransfersInv
<1> DEFINE s == call[c].in.session
           answer == {<<Relative(s, p), p>> : p \in Seen(c)}
<1>2. CASE Ends(c, "failed")
  BY <1>1, <1>2, PathsFail
<1>3. CASE call' = [call EXCEPT ![c] = Begun(c, "failed", call[c].in)]
  <2>1. (\A x \in Calls : x # c => call'[x] = call[x]) /\ call'[c] = Begun(c, "failed", call[c].in)
    BY <1>1, <1>3, Turned
  <2> QED
    BY <1>1, <2>1, BegunFields, PathsMove
<1>4. CASE /\ \A p \in Seen(c) : Within(s, p)
           /\ call' = [call EXCEPT ![c] = [Begun(c, "done", call[c].in) EXCEPT !.paths = answer]]
  <2>1. (\A x \in Calls : x # c => call'[x] = call[x])
        /\ call'[c] = [Begun(c, "done", call[c].in) EXCEPT !.paths = answer]
    BY <1>1, <1>4, Turned
  <2>2. call'[c].at = "done" /\ call'[c].in = call[c].in /\ call'[c].paths = answer
    BY <2>1 DEF Begun, Progress
  <2>3. Seen(c) \subseteq DOMAIN tree /\ DOMAIN tree \subseteq Places
    BY DEF Seen, FilesInv
  <2>4. \A a \in answer : a[2] \in Places /\ Within(s, a[2]) /\ a[1] = Relative(s, a[2])
    BY <1>4, <2>3
  <2>5. call'[c] # Idle /\ Accepts(call'[c].in.path)
    BY <1>1, <2>2 DEF Idle, FilesInv
  <2>6. DOMAIN tree' \subseteq Places /\ \A w \in was' : w \in was
    BY <1>1 DEF FilesInv
  <2> HIDE DEF answer
  <2>7. \A a \in call'[c].paths :
          /\ a[2] \in Places /\ Within(call'[c].in.session, a[2])
          /\ a[1] = Relative(call'[c].in.session, a[2])
    BY <2>2, <2>4
  <2> QED
    BY <2>1, <2>2, <2>5, <2>6, <2>7, PathsStay
<1> QED
  BY <1>2, <1>3, <1>4 DEF Inspect, Refused

\* A call puts a content in its file: the marks of calls in it are its own, or were there.
LEMMA PathsPuts ==
  ASSUME FilesParameters, TransfersInv, FilesInv, NEW c \in Calls, NEW how \in {"done", "failed"},
         call[c].at \in {"edit", "put"}, call[c].in.op \notin Looks, Ends(c, how),
         ~Blocked(Path(c)), NEW content, Puts(Path(c), content),
         \A n \in DOMAIN content : content[n] \in Calls =>
           content[n] = c \/ (call[content[n]] # Idle /\ Within(call[content[n]].in.session, Path(c)))
  PROVE  FilesInv'
<1> DEFINE p == Path(c)
<1>1. call[c] # Idle /\ Accepts(call[c].in.path)
  BY DEF Idle, FilesInv
<1>2. call[c].in \in Inputs
  BY <1>1, AnyCall
<1>3. p \in Places /\ Within(call[c].in.session, p)
  BY <1>1, <1>2, AcceptedPath, PathIs DEF Blocked
<1>4. /\ \A x \in Calls : x # c => call'[x] = call[x]
      /\ call'[c].at = how /\ call'[c].in = call[c].in /\ call'[c].paths = {}
  BY EndsFields
<1>5. DOMAIN tree' = DOMAIN tree \cup {p} /\ was' = was \cup {<<p, content>>}
  BY DEF Puts
<1>6. DOMAIN tree' \subseteq Places
  BY <1>3, <1>5 DEF FilesInv
<1> HIDE DEF p
<1>7. call'[c] # Idle /\ ~Done(c, Looks)'
  BY <1>4 DEF Idle, Done
<1>8. ASSUME NEW n \in DOMAIN content, content[n] \in Calls
      PROVE  call'[content[n]] # Idle /\ Within(call'[content[n]].in.session, p)
  <2>1. content[n] = c \/ (call[content[n]] # Idle /\ Within(call[content[n]].in.session, p))
    BY <1>8 DEF p
  <2>2. CASE content[n] = c
    BY <1>3, <1>4, <1>7, <2>2
  <2>3. CASE content[n] # c
    BY <1>4, <1>8, <2>1, <2>3
  <2> QED
    BY <2>2, <2>3
<1>9. ASSUME NEW w \in was', w \notin was
      PROVE  \A n \in DOMAIN w[2] : w[2][n] \in Calls =>
               call'[w[2][n]] # Idle /\ Within(call'[w[2][n]].in.session, w[1])
  <2>1. w[1] = p /\ w[2] = content
    BY <1>5, <1>9
  <2> QED
    BY <1>8, <2>1
<1> QED
  BY <1>1, <1>4, <1>6, <1>7, <1>9, PathsStay

LEMMA PathsEdit ==
  ASSUME FilesParameters, TransfersInv, FilesInv, NEW c \in Calls, Edit(c)
  PROVE  FilesInv'
<1>1. call[c] # Idle /\ call[c].at = "edit"
  BY DEF Edit, Idle
<1>2. call[c].in.op \in Edits /\ call[c].in.op \notin Looks
  BY <1>1, AnyCall DEF Fits, Edits, Looks
<1>3. CASE Ends(c, "failed") /\ UNCHANGED <<tree, was>>
  BY <1>1, <1>3, PathsFail
<1> DEFINE p == Path(c)
           old == IF p \in DOMAIN tree THEN tree[p] ELSE << >>
<1>4. ASSUME NEW how \in {"done", "failed"}, Ends(c, how), ~Blocked(p),
             call[c].in.op = "replace" => p \in DOMAIN tree, Puts(p, Edited(c, old))
      PROVE  FilesInv'
  <2>1. p \in DOMAIN tree => <<p, tree[p]>> \in was /\ tree[p] \in Seq(Marks)
    BY DEF TransfersInv, TreeInv, Sound
  <2>2. ASSUME NEW n \in DOMAIN old, old[n] \in Calls
        PROVE  call[old[n]] # Idle /\ Within(call[old[n]].in.session, p)
    <3>1. p \in DOMAIN tree
      BY <2>2
    <3>2. <<p, old>> \in was
      BY <2>1, <3>1
    <3> HIDE DEF p, old
    <3> QED
      BY <2>2, <3>2 DEF FilesInv
  <2>3. old \in Seq(Marks)
    BY <2>1
  <2> HIDE DEF p, old
  <2>4. ASSUME NEW n \in DOMAIN Edited(c, old), Edited(c, old)[n] \in Calls
        PROVE  Edited(c, old)[n] = c \/ \E m \in DOMAIN old : Edited(c, old)[n] = old[m]
    <3>1. CASE call[c].in.op = "write"
      BY <2>4, <3>1 DEF Edited
    <3>2. CASE call[c].in.op = "append"
      BY <2>3, <2>4, <3>2 DEF Edited
    <3>3. CASE call[c].in.op = "replace"
      BY <2>3, <2>4, <3>3 DEF Edited
    <3> QED
      BY <1>2, <3>1, <3>2, <3>3 DEF Edits
  <2>5. \A n \in DOMAIN Edited(c, old) : Edited(c, old)[n] \in Calls =>
          \/ Edited(c, old)[n] = c
          \/ call[Edited(c, old)[n]] # Idle /\ Within(call[Edited(c, old)[n]].in.session, p)
    BY <2>2, <2>4
  <2> QED
    BY <1>1, <1>2, <1>4, <2>5, PathsPuts DEF p
<1> QED
  BY <1>3, <1>4 DEF Edit, Refused

LEMMA PathsPut ==
  ASSUME FilesParameters, TransfersInv, FilesInv, NEW c \in Calls, Put(c)
  PROVE  FilesInv'
<1>1. call[c] # Idle /\ call[c].at = "put"
  BY DEF Put, Idle
<1>2. /\ call[c].in.op \notin Looks /\ Offered(call[c].in.attachment) # {}
      /\ call[c].buffer = Objects[Attachment(call[c].in.attachment).key]
  <2>1. call[c].in.op = "import" /\ Holds(c, call[c])
    BY <1>1, AnyCall DEF Fits
  <2> QED
    BY <1>1, <2>1 DEF Holds, Looks
<1>3. CASE Ends(c, "failed") /\ UNCHANGED <<tree, was>>
  BY <1>1, <1>3, PathsFail
<1>4. ASSUME NEW how \in {"done", "failed"}, Ends(c, how), ~Blocked(Path(c)), Puts(Path(c), call[c].buffer)
      PROVE  FilesInv'
  <2>1. PICK n \in DOMAIN Attachments : Attachment(call[c].in.attachment) = Attachments[n]
    BY <1>2, Attached
  <2>2. call[c].buffer = Whole(n)
    BY <1>2, <2>1 DEF Whole
  <2>3. \A k \in DOMAIN Whole(n) : Whole(n)[k] \notin Calls
    BY Marked
  <2> QED
    BY <1>1, <1>2, <1>4, <2>2, <2>3, PathsPuts
<1> QED
  BY <1>3, <1>4 DEF Put, Refused

LEMMA PathsLeave ==
  ASSUME TransfersInv, FilesInv, NEW c \in Calls,
         Fetch(c) \/ Open(c) \/ Stream(c) \/ Ticket(c) \/ Send(c)
  PROVE  FilesInv'
<1>1. /\ call[c].at \in {"fetch", "open", "stream", "ticket", "send"} /\ call[c] # Idle
      /\ UNCHANGED <<tree, was>>
  BY DEF Fetch, Open, Stream, Ticket, Send, Refused, Idle
<1>2. CASE Ends(c, "failed")
  BY <1>1, <1>2, PathsFail
<1>3. ASSUME NEW at \in {"put", "stream", "ticket", "send", "link", "published"},
             NEW buffer, NEW seen, NEW key, Continues(c, at, buffer, seen, key)
      PROVE  FilesInv'
  BY <1>1, <1>3, PathsContinue
<1>4. CASE Fetch(c)
  BY <1>2, <1>3, <1>4 DEF Fetch
<1>5. CASE Open(c)
  BY <1>2, <1>3, <1>5 DEF Open, Refused
<1>6. CASE Stream(c)
  BY <1>2, <1>3, <1>6 DEF Stream
<1>7. CASE Ticket(c)
  BY <1>2, <1>3, <1>7 DEF Ticket
<1>8. CASE Send(c)
  BY <1>2, <1>3, <1>8 DEF Send
<1> QED
  BY <1>4, <1>5, <1>6, <1>7, <1>8

LEMMA PathsReport ==
  ASSUME TransfersInv, FilesInv, NEW c \in Calls, Report(c)
  PROVE  FilesInv'
<1>1. call[c].at \in {"link", "published"} /\ call[c] # Idle /\ UNCHANGED <<tree, was>>
  BY DEF Report, Idle
<1>2. CASE Ends(c, "failed")
  BY <1>1, <1>2, PathsFail
<1>3. CASE call' = [call EXCEPT ![c] = Progress("done", call[c].in, << >>, << >>, call[c].key)]
  <2>1. /\ \A x \in Calls : x # c => call'[x] = call[x]
        /\ call'[c] = Progress("done", call[c].in, << >>, << >>, call[c].key)
    BY <1>3, Turned DEF TransfersInv
  <2>2. call'[c].at = "done" /\ call'[c].in = call[c].in
    BY <2>1, ProgressFields
  <2>3. call[c].in.op \notin Looks
    BY <1>1, AnyCall DEF Fits, Looks
  <2> QED
    BY <1>1, <2>1, <2>2, <2>3, PathsMove
<1> QED
  BY <1>2, <1>3 DEF Report

LEMMA PathsInit == ASSUME FilesParameters, FilesInit PROVE FilesInv
<1>1. \A w \in was : \A n \in DOMAIN w[2] : w[2][n] \notin Calls
  BY DEF FilesInit, FilesParameters, ToSet
<1>2. DOMAIN tree \subseteq Places /\ \A c \in Calls : call[c].at = "idle"
  BY DEF FilesInit, FilesParameters, Idle
<1> QED
  BY <1>1, <1>2 DEF FilesInv, Done

LEMMA PathsStep ==
  ASSUME FilesParameters, TransfersInv, FilesInv, [FilesNext]_fileVars
  PROVE  FilesInv'
<1>1. CASE UNCHANGED fileVars
  BY <1>1 DEF fileVars, FilesInv, Done
<1>2. CASE FilesNext
  BY <1>2, PathsBegin, PathsLease, PathsInspect, PathsEdit, PathsPut, PathsLeave, PathsReport DEF FilesNext
<1> QED
  BY <1>1, <1>2

LEMMA PathsFound == ASSUME FilesParameters, FilesInv PROVE FilesFound
<1>1. OnlyOwnFiles
  BY DEF OnlyOwnFiles, FilesInv
<1>2. ASSUME NEW c \in Calls, Done(c, Looks), NEW a \in call[c].paths,
             Strip(a[1]) = a[1], \A i \in DOMAIN a[1] : a[1][i] \notin Foreign
      PROVE  Accepts(a[1]) /\ Found(Absolute(call[c].in.session, a[1])) = a[2]
  <2>1. /\ a[2] \in Places /\ Within(call[c].in.session, a[2])
        /\ a[1] = Relative(call[c].in.session, a[2])
    BY <1>2 DEF FilesInv
  <2> QED
    BY <1>2, <2>1, RelativeLeads
<1> QED
  BY <1>1, <1>2 DEF FilesFound, AnswersResolve

\* Whatever path a call is asked for, and however the calls interleave: what it writes is in
\* the workspace of its own session, and a path it answers with leads to the file it is of.
THEOREM PathsSafe ==
  ASSUME FilesParameters
  PROVE  FilesSpec => []FilesFound
<1>1. FilesInit => TransfersInv /\ FilesInv
  BY TransfersInit, PathsInit
<1>2. TransfersInv /\ FilesInv /\ [FilesNext]_fileVars => (TransfersInv /\ FilesInv)'
  BY TransfersStep, PathsStep
<1>3. FilesInv => FilesFound
  BY PathsFound
<1> QED
  BY <1>1, <1>2, <1>3, PTL DEF FilesSpec
=============================================================================
