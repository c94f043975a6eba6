-------------------------- MODULE CommandTaskProofs --------------------------
(***************************************************************************)
(* What the command tasks guarantee for any tasks, boxes and kill calls.    *)
(***************************************************************************)
EXTENDS CommandTask, FiniteSetTheorems, TLAPS

-----------------------------------------------------------------------------
(* The inductive invariant.                                                 *)

Active == StartPhases \cup FinishPhases

\* Where the processes of task t can be, and how far its record is by then.
PhaseOf(t) ==
  /\ At(t, "start") \in Active \cup {"none", "done", "failed"}
  /\ At(t, "work") \in WorkPhases \cup FinishPhases \cup {"none", "ended"}
  /\ \A k \in Killers : At(t, k) \in FinishPhases \cup {"none", "send"}
  /\ At(t, "start") # "done" => \A p \in Procs \ {"start"} : At(t, p) = "none"
  /\ status[t] = "none" => At(t, "start") = "none"
  /\ At(t, "start") \in StartPhases => status[t] = "PENDING"
  /\ At(t, "start") \in {"lock", "write"} => status[t] \in Unfinished
  /\ At(t, "start") = "done" => status[t] \notin {"none", "PENDING"}
  /\ t \in registered => At(t, "start") \in {"submit", "running"} \cup FinishPhases
  /\ At(t, "start") \in {"submit", "running"} => t \in registered
  /\ ~serving => t \notin registered /\ \A p \in Procs : At(t, p) = "none"

\* A second lock exists only once the worker is gone.
LockedBy(t) ==
  \A p \in Procs :
    /\ At(t, p) \in FinishPhases => proc[t][p].due \in Terminal
    /\ At(t, p) \in FinishPhases \cup {"record", "save"} => proc[t][p].lock \in {1, 2}
    /\ At(t, p) \in FinishPhases \cup {"record", "save"} /\ proc[t][p].lock = 2 =>
         At(t, "work") = "ended"

\* One process at a time is inside the lock, and it finds the task unfinished there.
AloneIn(t) ==
  /\ \A p, q \in Procs : At(t, p) \in Critical /\ At(t, q) \in Critical => p = q
  /\ \A p \in Procs : At(t, p) = "write" => status[t] \in Unfinished
  /\ \A p \in Procs \ {"start"} : At(t, p) \in {"write", "save"} => status[t] = "RUNNING"
  /\ \A p \in Procs : At(t, p) = "release" => status[t] \in Terminal
  /\ At(t, "start") \in FinishPhases /\ status[t] = "RUNNING" => t \in registered
  /\ At(t, "start") = "release" => t \in registered

\* The tasks that hold a protection of their box, and those of box b.
Holding ==
  {t \in Tasks : t \in registered \/ status[t] = "RUNNING" \/ \E p \in Procs : At(t, p) = "release"}

Held == [b \in Boxes |-> {t \in Holding : box[t] = b}]

BoxInv ==
  /\ \A t \in Holding : box[t] \in open
  /\ \A b \in Boxes : IsFiniteSet(Held[b]) /\ Cardinality(Held[b]) <= count[b]

\* Without failures of MongoDB and cancelled requests the count is exact.
ExactInv ==
  happens \cap {"mongo_fails", "cancelled"} = {} =>
    \A b \in Boxes : /\ serving => count[b] = Cardinality(Held[b])
                     /\ b \notin open => count[b] = 0

\* Who finishes task t when MongoDB works.
FollowedUp(t) ==
  "mongo_fails" \notin happens =>
    /\ At(t, "work") = "ended" => status[t] \in Terminal
    /\ serving /\ status[t] \in Unfinished => At(t, "start") \in Active \/ Followed(t)

\* What nobody but the worker can end.
WorkerEnds(t) ==
  happens \cap {"kill", "mongo_fails"} = {} =>
    /\ t \in waiter => Followed(t)
    /\ \A k \in Killers : At(t, k) = "none"
    /\ At(t, "work") \in {"poll", "record", "save", "lock", "write"} => status[t] = "RUNNING"

TaskOk(t) ==
  /\ PhaseOf(t) /\ LockedBy(t) /\ FollowedUp(t) /\ WorkerEnds(t)
  /\ FinishIsLocked => AloneIn(t)

TaskIInv ==
  /\ TypeOK
  /\ \A t \in Tasks : TaskOk(t)
  /\ FinishIsLocked => BoxInv /\ ExactInv

-----------------------------------------------------------------------------
(* Processes, protections and counts.                                       *)

ProcRec == [at : Phases, due : Statuses, lock : 0..2]

\* Process p of task t is at r.
Put(f, t, p, r) == [f EXCEPT ![t][p] = r]

\* The kinds of processes.
LEMMA Values ==
  /\ "start" \in Procs /\ "work" \in Procs /\ Killers \subseteq Procs
  /\ \A k \in Killers : k # "start" /\ k # "work"
  /\ \A p \in Procs : p \in Killers \/ p = "start" \/ p = "work"
BY KillersAssumption DEF Procs

\* The type of proc, folded.
LEMMA ProcsTyped == TypeOK => proc \in [Tasks -> [Procs -> ProcRec]]
BY DEF TypeOK, ProcRec

\* A process that moves leaves the others alone.
LEMMA PutMoves ==
  ASSUME NEW f \in [Tasks -> [Procs -> ProcRec]],
         NEW t \in Tasks, NEW p \in Procs, NEW r \in ProcRec
  PROVE  /\ Put(f, t, p, r) \in [Tasks -> [Procs -> ProcRec]]
         /\ Put(f, t, p, r)[t][p] = r
         /\ \A q \in Procs : q # p => Put(f, t, p, r)[t][q] = f[t][q]
         /\ \A u \in Tasks : u # t => Put(f, t, p, r)[u] = f[u]
BY DEF Put

\* A process that goes on to another phase keeps the end it is due and its lock.
LEMMA GoesPuts ==
  ASSUME TypeOK, NEW t \in Tasks, NEW p \in Procs, NEW a \in Phases, Goes(t, p, a)
  PROVE  \E r \in ProcRec : /\ proc' = Put(proc, t, p, r)
                           /\ r.at = a /\ r.due = proc[t][p].due /\ r.lock = proc[t][p].lock
<1> DEFINE r == [proc[t][p] EXCEPT !.at = a]
<1>1. proc[t][p] \in ProcRec BY ProcsTyped
<1>2. r \in ProcRec /\ r.at = a /\ r.due = proc[t][p].due /\ r.lock = proc[t][p].lock
  BY <1>1 DEF ProcRec
<1>3. proc' = Put(proc, t, p, r) BY ProcsTyped DEF Goes, Put
<1>4. QED BY <1>2, <1>3

\* A process that calls _finish takes along the lock it finds.
LEMMA CallPuts ==
  ASSUME TypeOK, NEW t \in Tasks, NEW p \in Procs, NEW s \in Terminal, CallFinish(t, p, s)
  PROVE  \E r \in ProcRec : /\ proc' = Put(proc, t, p, r)
                           /\ r.at = "lock" /\ r.due = s /\ r.lock = LockOf(t)
<1> DEFINE r == [at |-> "lock", due |-> s, lock |-> LockOf(t)]
<1>1. r \in ProcRec BY DEF ProcRec, LockOf, Phases, FinishPhases, Statuses
<1>2. proc' = Put(proc, t, p, r) BY DEF CallFinish, Put
<1>3. QED BY <1>1, <1>2

\* Where a process is after _finish.
LEMMA ReturnPuts ==
  ASSUME TypeOK, NEW t \in Tasks, NEW p \in Procs, NEW woken, Return(t, p, woken)
  PROVE  \E r \in ProcRec : /\ proc' = Put(proc, t, p, r)
                           /\ \/ p = "start" /\ r.at = "failed"
                              \/ p = "work" /\ r.at = "ended"
                              \/ p \in Killers /\ r.at = "none"
                              \/ /\ p \in Killers /\ r.at = "lock" /\ r.due = "KILLED"
                                 /\ r.lock = LockOf(t)
<1> USE Values
<1>1. CASE p = "start"
  <2> DEFINE r == [Idle EXCEPT !.at = "failed"]
  <2>1. r \in ProcRec /\ r.at = "failed" BY DEF ProcRec, Idle, Phases, Statuses
  <2>2. proc' = Put(proc, t, p, r) BY <1>1 DEF Return, Put
  <2>3. QED BY <1>1, <2>1, <2>2
<1>2. CASE p = "work"
  <2> DEFINE r == [Idle EXCEPT !.at = "ended"]
  <2>1. r \in ProcRec /\ r.at = "ended" BY DEF ProcRec, Idle, Phases, Statuses
  <2>2. proc' = Put(proc, t, p, r) BY <1>2 DEF Return, Put
  <2>3. QED BY <1>2, <2>1, <2>2
<1>3. CASE p \in Killers /\ proc[t][p].due = "LOST"
  <2> DEFINE r == [at |-> "lock", due |-> "KILLED", lock |-> LockOf(t)]
  <2>1. r \in ProcRec BY DEF ProcRec, LockOf, Phases, FinishPhases, Statuses, Terminal
  <2>2. proc' = Put(proc, t, p, r) BY <1>3 DEF Return, Put
  <2>3. QED BY <1>3, <2>1, <2>2
<1>4. CASE p \in Killers /\ proc[t][p].due # "LOST"
  <2>1. Idle \in ProcRec /\ Idle.at = "none" BY DEF ProcRec, Idle, Phases, Statuses
  <2>2. proc' = Put(proc, t, p, Idle) BY <1>4 DEF Return, Put
  <2>3. QED BY <1>4, <2>1, <2>2
<1>5. QED BY <1>1, <1>2, <1>3, <1>4

\* unregister_active takes one off the count of the task's box, never below zero.
LEMMA UnregisterCounts ==
  ASSUME TypeOK, NEW t \in Tasks, Unregister(t)
  PROVE  /\ count' \in [Boxes -> Nat]
         /\ \A b \in Boxes : b # box[t] => count'[b] = count[b]
         /\ box[t] \in Boxes =>
              count'[box[t]] = IF count[box[t]] >= 1 THEN count[box[t]] - 1 ELSE count[box[t]]
<1> DEFINE n == IF count[box[t]] >= 1 THEN count[box[t]] - 1 ELSE count[box[t]]
<1>1. count \in [Boxes -> Nat] BY DEF TypeOK
<1>2. count' = [count EXCEPT ![box[t]] = n] BY DEF Unregister
<1>3. box[t] \in Boxes => n \in Nat BY <1>1
<1> HIDE DEF n
<1>4. count' \in [Boxes -> Nat] BY <1>1, <1>2, <1>3
<1>5. /\ \A b \in Boxes : b # box[t] => count'[b] = count[b]
      /\ box[t] \in Boxes => count'[box[t]] = n
  BY <1>1, <1>2
<1>6. QED BY <1>4, <1>5 DEF n

\* register_active adds one to the count of the task's box.
LEMMA RegisterCounts ==
  ASSUME TypeOK, NEW t \in Tasks, box[t] \in open, count' = [count EXCEPT ![box[t]] = @ + 1]
  PROVE  /\ count' \in [Boxes -> Nat]
         /\ \A b \in Boxes : count[b] <= count'[b]
<1>1. count \in [Boxes -> Nat] /\ box[t] \in Boxes BY DEF TypeOK
<1> DEFINE n == count[box[t]] + 1
<1>2. n \in Nat /\ count[box[t]] <= n BY <1>1
<1>3. count' = [count EXCEPT ![box[t]] = n] OBVIOUS
<1> HIDE DEF n
<1>4. count' \in [Boxes -> Nat] BY <1>1, <1>2, <1>3
<1>5. /\ \A b \in Boxes : b # box[t] => count'[b] = count[b]
      /\ count'[box[t]] = n
  BY <1>1, <1>3
<1>6. \A b \in Boxes : count[b] <= count'[b]
  BY <1>1, <1>2, <1>5
<1>7. QED BY <1>4, <1>6

\* No protection begins or ends.
LEMMA BoxesKept ==
  ASSUME BoxInv, ExactInv, Holding' = Holding, \A t \in Holding : box'[t] = box[t],
         open' = open, count' = count, serving' = serving, happens' = happens
  PROVE  BoxInv' /\ ExactInv'
<1>1. \A b \in Boxes : Held'[b] = Held[b]
  BY DEF Held
<1>2. BoxInv' BY <1>1 DEF BoxInv
<1>3. ExactInv' BY <1>1 DEF ExactInv
<1>4. QED BY <1>2, <1>3

\* Boxes stay open while the holders become fewer.
LEMMA BoxesFewer ==
  ASSUME BoxInv, TypeOK, TypeOK', Holding' \subseteq Holding, \A t \in Holding' : box'[t] = box[t],
         open' = open, \A b \in Boxes : count[b] <= count'[b]
  PROVE  BoxInv'
<1>1. \A b \in Boxes : Held'[b] \subseteq Held[b]
  BY DEF Held
<1>2. ASSUME NEW b \in Boxes
      PROVE  IsFiniteSet(Held'[b]) /\ Cardinality(Held'[b]) <= count'[b]
  <2>1. IsFiniteSet(Held[b]) /\ Cardinality(Held[b]) <= count[b] BY DEF BoxInv
  <2>2. /\ IsFiniteSet(Held'[b]) /\ Cardinality(Held'[b]) <= Cardinality(Held[b])
        /\ Cardinality(Held'[b]) \in Nat /\ Cardinality(Held[b]) \in Nat
    BY <1>1, <2>1, FS_Subset, FS_CardinalityType
  <2>3. count[b] \in Nat /\ count'[b] \in Nat /\ count[b] <= count'[b] BY DEF TypeOK
  <2>4. QED BY <2>1, <2>2, <2>3
<1>3. \A t \in Holding' : box'[t] \in open' BY DEF BoxInv
<1>4. QED BY <1>2, <1>3 DEF BoxInv

\* After a failure some protections may never end.
LEMMA BoxesShrink ==
  ASSUME BoxInv, happens \cap {"mongo_fails", "cancelled"} # {}, TypeOK, TypeOK',
         Holding' \subseteq Holding, \A t \in Holding' : box'[t] = box[t],
         open' = open, \A b \in Boxes : count[b] <= count'[b], happens' = happens
  PROVE  BoxInv' /\ ExactInv'
BY BoxesFewer DEF ExactInv

\* The protection of task t ends.
LEMMA BoxesDrop ==
  ASSUME BoxInv, ExactInv, TypeOK, NEW t \in Holding, Holding' = Holding \ {t},
         box' = box, open' = open, Unregister(t), serving' = serving, happens' = happens
  PROVE  BoxInv' /\ ExactInv'
<1> DEFINE B == box[t]
<1>1. t \in Tasks /\ box[t] = B /\ B \in Boxes /\ B \in open BY DEF Holding, BoxInv, TypeOK
<1>2. /\ count' \in [Boxes -> Nat] /\ \A b \in Boxes : b # B => count'[b] = count[b]
      /\ count'[B] = IF count[B] >= 1 THEN count[B] - 1 ELSE count[B]
  BY <1>1, UnregisterCounts
<1> HIDE DEF B
<1>3. \A b \in Boxes : b # B => Held'[b] = Held[b]
  BY <1>1 DEF Held
<1>4. Held'[B] = Held[B] \ {t} /\ t \in Held[B]
  <2>1. Held[B] = {u \in Holding : box[u] = B} /\ Held'[B] = {u \in Holding' : box[u] = B}
    BY <1>1 DEF Held
  <2>2. QED BY <1>1, <2>1
<1>5. IsFiniteSet(Held[B]) /\ Cardinality(Held[B]) <= count[B] /\ count[B] \in Nat
  BY <1>1 DEF BoxInv, TypeOK
<1>6. /\ IsFiniteSet(Held'[B]) /\ Cardinality(Held'[B]) = Cardinality(Held[B]) - 1
      /\ Cardinality(Held[B]) \in Nat /\ Cardinality(Held'[B]) \in Nat
  <2>1. IsFiniteSet(Held[B] \ {t}) /\ Cardinality(Held[B] \ {t}) = Cardinality(Held[B]) - 1
    BY <1>4, <1>5, FS_RemoveElement
  <2>2. QED BY <1>4, <1>5, <2>1, FS_CardinalityType
<1>7. count'[B] = count[B] - 1 /\ count[B] >= 1
  BY <1>2, <1>5, <1>6
<1>8. BoxInv'
  <2>1. \A b \in Boxes : IsFiniteSet(Held'[b]) /\ Cardinality(Held'[b]) <= count'[b]
    <3> TAKE b \in Boxes
    <3>1. CASE b = B BY <1>1, <1>5, <1>6, <1>7, <3>1
    <3>2. CASE b # B BY <1>2, <1>3, <3>2 DEF BoxInv
    <3>3. QED BY <3>1, <3>2
  <2>2. \A s \in Holding' : box'[s] \in open' BY DEF BoxInv
  <2>3. QED BY <2>1, <2>2 DEF BoxInv
<1>9. ExactInv'
  <2> SUFFICES ASSUME happens \cap {"mongo_fails", "cancelled"} = {}, NEW b \in Boxes
               PROVE  /\ serving => count'[b] = Cardinality(Held'[b])
                      /\ b \notin open => count'[b] = 0
    BY DEF ExactInv
  <2>1. CASE b = B
    <3>1. b \in open /\ count[b] \in Nat BY <1>1, <1>5, <2>1
    <3>2. serving => count[b] = Cardinality(Held[b]) BY DEF ExactInv
    <3>3. QED BY <1>6, <1>7, <2>1, <3>1, <3>2
  <2>2. CASE b # B BY <1>2, <1>3, <2>2 DEF ExactInv
  <2>3. QED BY <2>1, <2>2
<1>10. QED BY <1>8, <1>9

\* The protection of task t begins.
LEMMA BoxesGrow ==
  ASSUME BoxInv, ExactInv, TypeOK, NEW t \in Tasks \ Holding, Holding' = Holding \cup {t},
         box' = box, box[t] \in open, open' = open, serving' = serving, happens' = happens,
         count' = [count EXCEPT ![box[t]] = @ + 1]
  PROVE  BoxInv' /\ ExactInv'
<1> DEFINE B == box[t]
<1>1. t \in Tasks /\ box[t] = B /\ B \in Boxes /\ B \in open BY DEF TypeOK
<1>2. /\ count' \in [Boxes -> Nat] /\ \A b \in Boxes : b # B => count'[b] = count[b]
      /\ count'[B] = count[B] + 1 /\ count[B] \in Nat
  BY <1>1 DEF TypeOK
<1> HIDE DEF B
<1>3. \A b \in Boxes : b # B => Held'[b] = Held[b]
  BY <1>1 DEF Held
<1>4. Held'[B] = Held[B] \cup {t} /\ t \notin Held[B]
  <2>1. Held[B] = {u \in Holding : box[u] = B} /\ Held'[B] = {u \in Holding' : box[u] = B}
    BY <1>1 DEF Held
  <2>2. QED BY <1>1, <2>1
<1>5. IsFiniteSet(Held[B]) /\ Cardinality(Held[B]) <= count[B]
  BY <1>1 DEF BoxInv
<1>6. /\ IsFiniteSet(Held'[B]) /\ Cardinality(Held'[B]) = Cardinality(Held[B]) + 1
      /\ Cardinality(Held[B]) \in Nat
  <2>1. /\ IsFiniteSet(Held[B] \cup {t})
        /\ Cardinality(Held[B] \cup {t}) = Cardinality(Held[B]) + 1
    BY <1>4, <1>5, FS_AddElement
  <2>2. QED BY <1>4, <1>5, <2>1, FS_CardinalityType
<1>8. BoxInv'
  <2>1. \A b \in Boxes : IsFiniteSet(Held'[b]) /\ Cardinality(Held'[b]) <= count'[b]
    <3> TAKE b \in Boxes
    <3>1. CASE b = B BY <1>2, <1>5, <1>6, <3>1
    <3>2. CASE b # B BY <1>2, <1>3, <3>2 DEF BoxInv
    <3>3. QED BY <3>1, <3>2
  <2>2. \A s \in Holding' : box'[s] \in open' BY DEF BoxInv
  <2>3. QED BY <2>1, <2>2 DEF BoxInv
<1>9. ExactInv'
  <2> SUFFICES ASSUME happens \cap {"mongo_fails", "cancelled"} = {}, NEW b \in Boxes
               PROVE  /\ serving => count'[b] = Cardinality(Held'[b])
                      /\ b \notin open => count'[b] = 0
    BY DEF ExactInv
  <2>1. CASE b = B
    <3>1. b \in open BY <1>1, <2>1
    <3>2. serving => count[b] = Cardinality(Held[b]) BY DEF ExactInv
    <3>3. QED BY <1>2, <1>6, <2>1, <3>1, <3>2
  <2>2. CASE b # B BY <1>2, <1>3, <2>2 DEF ExactInv
  <2>3. QED BY <2>1, <2>2
<1>10. QED BY <1>8, <1>9

\* Where the worker is after the output.
LEMMA GoesOnPuts ==
  ASSUME TypeOK, NEW t \in Tasks, WorkGoesOn(t)
  PROVE  \E r \in ProcRec : /\ proc' = Put(proc, t, "work", r)
                           /\ \/ r.at = "poll"
                              \/ r.at = "lock" /\ r.due \in Terminal /\ r.lock = LockOf(t)
<1>1. CASE proc[t]["work"].due \in Terminal
  BY <1>1, Values, CallPuts DEF WorkGoesOn
<1>2. CASE proc[t]["work"].due \notin Terminal /\ remote[t] = "overdue"
  BY <1>2, Values, CallPuts DEF WorkGoesOn, Terminal
<1>3. CASE proc[t]["work"].due \notin Terminal /\ remote[t] # "overdue"
  <2> DEFINE r == [Idle EXCEPT !.at = "poll"]
  <2>1. r \in ProcRec /\ r.at = "poll" BY DEF ProcRec, Idle, Phases, WorkPhases, Statuses
  <2>2. proc' = Put(proc, t, "work", r) BY <1>3 DEF WorkGoesOn, Put
  <2>3. QED BY <2>1, <2>2
<1>4. QED BY <1>1, <1>2, <1>3

\* The other tasks do not notice.
LEMMA OthersKeep ==
  ASSUME TaskIInv, NEW t \in Tasks, serving' = serving, happens' = happens,
         \A u \in Tasks : u # t => /\ proc'[u] = proc[u] /\ status'[u] = status[u]
                                 /\ (u \in registered' <=> u \in registered)
                                 /\ (u \in waiter' <=> u \in waiter)
  PROVE  \A u \in Tasks : u # t => TaskOk(u)' /\ (u \in Holding' <=> u \in Holding)
<1>1. \A u \in Tasks : u # t => PhaseOf(u)' /\ LockedBy(u)' /\ FollowedUp(u)' /\ WorkerEnds(u)'
  BY DEF TaskIInv, TaskOk, PhaseOf, LockedBy, FollowedUp, WorkerEnds, Followed, At
<1>2. FinishIsLocked => \A u \in Tasks : u # t => AloneIn(u)'
  BY DEF TaskIInv, TaskOk, AloneIn, At
<1>3. \A u \in Tasks : u # t => (u \in Holding' <=> u \in Holding)
  BY DEF Holding, At
<1>4. QED BY <1>1, <1>2, <1>3 DEF TaskOk, FinishIsLocked

-----------------------------------------------------------------------------
(* start_command: every step keeps the invariant.                           *)

\* start_command makes a task: no other process of it exists yet.
LEMMA NewTaskKeeps ==
  ASSUME TaskIInv, NEW t \in Tasks, NewTask(t)
  PROVE  TaskIInv'
<1>1. TypeOK /\ proc \in [Tasks -> [Procs -> ProcRec]] /\ "start" \in Procs
  BY ProcsTyped, Values DEF TaskIInv
<1>2. /\ PhaseOf(t) /\ LockedBy(t) /\ FollowedUp(t) /\ WorkerEnds(t)
      /\ FinishIsLocked => AloneIn(t) /\ BoxInv /\ ExactInv
  BY DEF TaskIInv, TaskOk
<1>3. status[t] \in Terminal \cup Unfinished \cup {"none"} BY <1>1 DEF TypeOK, Statuses
<1>4. PICK r \in ProcRec : /\ proc' = Put(proc, t, "start", r)
                           /\ r.at = "allocate" /\ r.due = proc[t]["start"].due
                                /\ r.lock = proc[t]["start"].lock
  BY <1>1, GoesPuts DEF NewTask, Phases, StartPhases
<1>5. /\ proc' \in [Tasks -> [Procs -> ProcRec]] /\ proc'[t]["start"] = r
      /\ \A q \in Procs : q # "start" => proc'[t][q] = proc[t][q]
      /\ \A u \in Tasks : u # t => proc'[u] = proc[u]
  <2>1. proc' = Put(proc, t, "start", r) BY <1>4
  <2>2. QED BY <1>1, <2>1, PutMoves
<1>6. /\ \A u \in Tasks : u # t => /\ status'[u] = status[u]
                                 /\ (u \in registered' <=> u \in registered)
                                 /\ (u \in waiter' <=> u \in waiter)
      /\ serving' = serving /\ happens' = happens
  BY <1>1 DEF NewTask, waiting, service
<1>7. /\ status'[t] = "PENDING"
      /\ registered' = registered /\ waiter' = waiter
      /\ status[t] = "none"
      /\ serving
  BY <1>1 DEF NewTask, TypeOK, waiting
<1>8. TypeOK'
  BY <1>1, <1>5 DEF NewTask, TypeOK, ProcRec, waiting, outside, service, Statuses, Unfinished
<1>9. \A u \in Tasks : u # t => TaskOk(u)' /\ (u \in Holding' <=> u \in Holding)
  BY <1>5, <1>6, OthersKeep DEF TaskOk
<1>10. PhaseOf(t)'
  BY <1>2, <1>3, <1>4, <1>5, <1>6, <1>7, Values
  DEF PhaseOf, At, StartPhases, FinishPhases, Active
<1>11. LockedBy(t)'
  BY <1>2, <1>3, <1>4, <1>5, <1>6, <1>7, Values DEF LockedBy, At, FinishPhases
<1>12. FollowedUp(t)'
  BY <1>2, <1>3, <1>4, <1>5, <1>6, <1>7, Values
  DEF FollowedUp, At, PhaseOf, StartPhases, Active
<1>13. WorkerEnds(t)'
  BY <1>2, <1>3, <1>4, <1>5, <1>6, <1>7, Values DEF WorkerEnds, At, Followed
<1>14. FinishIsLocked => AloneIn(t)'
  <2>1. FinishIsLocked =>
          \A q, s \in Procs : At(t, q)' \in Critical /\ At(t, s)' \in Critical => q = s
    BY <1>2, <1>3, <1>4, <1>5, <1>7 DEF At, AloneIn, PhaseOf
  <2>2. FinishIsLocked =>
          /\ \A q \in Procs : At(t, q)' = "write" => status'[t] \in Unfinished
          /\ \A q \in Procs \ {"start"} : At(t, q)' \in {"write", "save"} => status'[t] = "RUNNING"
          /\ \A q \in Procs : At(t, q)' = "release" => status'[t] \in Terminal
          /\ At(t, "start")' \in FinishPhases /\ status'[t] = "RUNNING" => t \in registered'
          /\ At(t, "start")' = "release" => t \in registered'
    BY <1>2, <1>3, <1>4, <1>5, <1>7 DEF At, PhaseOf
  <2>3. QED BY <2>1, <2>2 DEF AloneIn
<1>15. FinishIsLocked => BoxInv' /\ ExactInv'
  <2> SUFFICES ASSUME FinishIsLocked PROVE BoxInv' /\ ExactInv' OBVIOUS
  <2>1. Holding' = Holding
    <3>1. t \in Holding' <=> t \in Holding
      BY <1>2, <1>3, <1>4, <1>5, <1>7 DEF Holding, PhaseOf, At
    <3>2. QED BY <1>9, <3>1 DEF Holding
  <2>2. \A s \in Holding : box'[s] = box[s] BY DEF NewTask
  <2>3. open' = open /\ count' = count BY DEF NewTask, outside
  <2>4. QED BY <1>1, <1>2, <1>6, <2>1, <2>2, <2>3, BoxesKept
<1>16. QED
  BY <1>6, <1>8, <1>9, <1>10, <1>11, <1>12, <1>13, <1>14, <1>15
  DEF TaskIInv, TaskOk, FinishIsLocked

\* A start that finds no sandbox ends before it protects anything.
LEMMA NoSandboxKeeps ==
  ASSUME TaskIInv, NEW t \in Tasks, NoSandbox(t)
  PROVE  TaskIInv'
<1>1. TypeOK /\ proc \in [Tasks -> [Procs -> ProcRec]] /\ "start" \in Procs
  BY ProcsTyped, Values DEF TaskIInv
<1>2. /\ PhaseOf(t) /\ LockedBy(t) /\ FollowedUp(t) /\ WorkerEnds(t)
      /\ FinishIsLocked => AloneIn(t) /\ BoxInv /\ ExactInv
  BY DEF TaskIInv, TaskOk
<1>3. status[t] \in Terminal \cup Unfinished \cup {"none"} BY <1>1 DEF TypeOK, Statuses
<1>4. PICK r \in ProcRec : /\ proc' = Put(proc, t, "start", r)
                           /\ r.at = "lock" /\ r.due = "FAILED" /\ r.lock = LockOf(t)
  BY <1>1, CallPuts DEF NoSandbox, Terminal
<1>5. /\ proc' \in [Tasks -> [Procs -> ProcRec]] /\ proc'[t]["start"] = r
      /\ \A q \in Procs : q # "start" => proc'[t][q] = proc[t][q]
      /\ \A u \in Tasks : u # t => proc'[u] = proc[u]
  <2>1. proc' = Put(proc, t, "start", r) BY <1>4
  <2>2. QED BY <1>1, <2>1, PutMoves
<1>6. /\ \A u \in Tasks : u # t => /\ status'[u] = status[u]
                                 /\ (u \in registered' <=> u \in registered)
                                 /\ (u \in waiter' <=> u \in waiter)
      /\ serving' = serving /\ happens' = happens
  BY <1>1 DEF NoSandbox, waiting, service
<1>7. /\ status'[t] = status[t]
      /\ registered' = registered /\ waiter' = waiter
      /\ At(t, "start") = "allocate"
  BY <1>1 DEF NoSandbox, TypeOK, waiting
<1>8. TypeOK'
  BY <1>1, <1>5 DEF NoSandbox, TypeOK, ProcRec, waiting, outside, service
<1>9. \A u \in Tasks : u # t => TaskOk(u)' /\ (u \in Holding' <=> u \in Holding)
  BY <1>5, <1>6, OthersKeep DEF TaskOk
<1>10. PhaseOf(t)'
  BY <1>2, <1>3, <1>4, <1>5, <1>6, <1>7, Values DEF PhaseOf, At, FinishPhases, Active, Terminal
<1>11. LockedBy(t)'
  BY <1>2, <1>3, <1>4, <1>5, <1>6, <1>7, Values DEF LockedBy, At, LockOf, Terminal
<1>12. FollowedUp(t)'
  BY <1>2, <1>3, <1>4, <1>5, <1>6, <1>7, Values DEF FollowedUp, At, FinishPhases, Active
<1>13. WorkerEnds(t)'
  BY <1>2, <1>3, <1>4, <1>5, <1>6, <1>7, Values DEF WorkerEnds, At, Followed
<1>14. FinishIsLocked => AloneIn(t)'
  <2>1. FinishIsLocked =>
          \A q, s \in Procs : At(t, q)' \in Critical /\ At(t, s)' \in Critical => q = s
    BY <1>2, <1>3, <1>4, <1>5, <1>7 DEF At, AloneIn, Critical
  <2>2. FinishIsLocked =>
          /\ \A q \in Procs : At(t, q)' = "write" => status'[t] \in Unfinished
          /\ \A q \in Procs \ {"start"} : At(t, q)' \in {"write", "save"} => status'[t] = "RUNNING"
          /\ \A q \in Procs : At(t, q)' = "release" => status'[t] \in Terminal
          /\ At(t, "start")' \in FinishPhases /\ status'[t] = "RUNNING" => t \in registered'
          /\ At(t, "start")' = "release" => t \in registered'
    BY <1>2, <1>3, <1>4, <1>5, <1>7 DEF At, PhaseOf, StartPhases
  <2>3. QED BY <2>1, <2>2 DEF AloneIn
<1>15. FinishIsLocked => BoxInv' /\ ExactInv'
  <2> SUFFICES ASSUME FinishIsLocked PROVE BoxInv' /\ ExactInv' OBVIOUS
  <2>1. Holding' = Holding
    <3>1. t \in Holding' <=> t \in Holding
      BY <1>2, <1>3, <1>4, <1>5, <1>7 DEF Holding, At
    <3>2. QED BY <1>9, <3>1 DEF Holding
  <2>2. \A s \in Holding : box'[s] = box[s] BY DEF NoSandbox
  <2>3. open' = open /\ count' = count BY DEF NoSandbox, outside
  <2>4. QED BY <1>1, <1>2, <1>6, <2>1, <2>2, <2>3, BoxesKept
<1>16. QED
  BY <1>6, <1>8, <1>9, <1>10, <1>11, <1>12, <1>13, <1>14, <1>15
  DEF TaskIInv, TaskOk, FinishIsLocked

\* allocate gives the task its box, not yet its protection.
LEMMA AllocateKeeps ==
  ASSUME TaskIInv, NEW t \in Tasks, Allocate(t)
  PROVE  TaskIInv'
<1>1. TypeOK /\ proc \in [Tasks -> [Procs -> ProcRec]] /\ "start" \in Procs
  BY ProcsTyped, Values DEF TaskIInv
<1>2. /\ PhaseOf(t) /\ LockedBy(t) /\ FollowedUp(t) /\ WorkerEnds(t)
      /\ FinishIsLocked => AloneIn(t) /\ BoxInv /\ ExactInv
  BY DEF TaskIInv, TaskOk
<1>3. status[t] \in Terminal \cup Unfinished \cup {"none"} BY <1>1 DEF TypeOK, Statuses
<1>4. PICK r \in ProcRec : /\ proc' = Put(proc, t, "start", r)
                           /\ r.at = "register" /\ r.due = proc[t]["start"].due
                                /\ r.lock = proc[t]["start"].lock
  BY <1>1, GoesPuts DEF Allocate, Phases, StartPhases
<1>5. /\ proc' \in [Tasks -> [Procs -> ProcRec]] /\ proc'[t]["start"] = r
      /\ \A q \in Procs : q # "start" => proc'[t][q] = proc[t][q]
      /\ \A u \in Tasks : u # t => proc'[u] = proc[u]
  <2>1. proc' = Put(proc, t, "start", r) BY <1>4
  <2>2. QED BY <1>1, <2>1, PutMoves
<1>6. /\ \A u \in Tasks : u # t => /\ status'[u] = status[u]
                                 /\ (u \in registered' <=> u \in registered)
                                 /\ (u \in waiter' <=> u \in waiter)
      /\ serving' = serving /\ happens' = happens
  BY <1>1 DEF Allocate, waiting, service
<1>7. /\ status'[t] = status[t]
      /\ registered' = registered /\ waiter' = waiter
      /\ At(t, "start") = "allocate"
  BY <1>1 DEF Allocate, TypeOK, waiting
<1>8. TypeOK'
  BY <1>1, <1>5 DEF Allocate, TypeOK, ProcRec, waiting, outside, service
<1>9. \A u \in Tasks : u # t => TaskOk(u)' /\ (u \in Holding' <=> u \in Holding)
  BY <1>5, <1>6, OthersKeep DEF TaskOk
<1>10. PhaseOf(t)'
  BY <1>2, <1>3, <1>4, <1>5, <1>6, <1>7, Values
  DEF PhaseOf, At, StartPhases, FinishPhases, Active
<1>11. LockedBy(t)'
  BY <1>2, <1>3, <1>4, <1>5, <1>6, <1>7, Values DEF LockedBy, At, FinishPhases
<1>12. FollowedUp(t)'
  BY <1>2, <1>3, <1>4, <1>5, <1>6, <1>7, Values DEF FollowedUp, At, StartPhases, Active
<1>13. WorkerEnds(t)'
  BY <1>2, <1>3, <1>4, <1>5, <1>6, <1>7, Values DEF WorkerEnds, At, Followed
<1>14. FinishIsLocked => AloneIn(t)'
  <2>1. FinishIsLocked =>
          \A q, s \in Procs : At(t, q)' \in Critical /\ At(t, s)' \in Critical => q = s
    BY <1>2, <1>3, <1>4, <1>5, <1>7 DEF At, AloneIn, Critical
  <2>2. FinishIsLocked =>
          /\ \A q \in Procs : At(t, q)' = "write" => status'[t] \in Unfinished
          /\ \A q \in Procs \ {"start"} : At(t, q)' \in {"write", "save"} => status'[t] = "RUNNING"
          /\ \A q \in Procs : At(t, q)' = "release" => status'[t] \in Terminal
          /\ At(t, "start")' \in FinishPhases /\ status'[t] = "RUNNING" => t \in registered'
          /\ At(t, "start")' = "release" => t \in registered'
    BY <1>2, <1>3, <1>4, <1>5, <1>7 DEF At, PhaseOf, StartPhases
  <2>3. QED BY <2>1, <2>2 DEF AloneIn
<1>15. FinishIsLocked => BoxInv' /\ ExactInv'
  <2> SUFFICES ASSUME FinishIsLocked PROVE BoxInv' /\ ExactInv' OBVIOUS
  <2>1. Holding' = Holding
    <3>1. t \in Holding' <=> t \in Holding
      BY <1>2, <1>3, <1>4, <1>5, <1>7 DEF Holding, At
    <3>2. QED BY <1>9, <3>1 DEF Holding
  <2>2. \A s \in Holding : box'[s] = box[s]
    <3>1. t \notin Holding BY <1>2, <1>7 DEF Holding, PhaseOf, StartPhases, FinishPhases
    <3>2. \A s \in Tasks : s # t => box'[s] = box[s] BY <1>1 DEF Allocate, TypeOK
    <3>3. QED BY <3>1, <3>2 DEF Holding
  <2>3. open' = open /\ count' = count BY DEF Allocate, outside
  <2>4. QED BY <1>1, <1>2, <1>6, <2>1, <2>2, <2>3, BoxesKept
<1>16. QED
  BY <1>6, <1>8, <1>9, <1>10, <1>11, <1>12, <1>13, <1>14, <1>15
  DEF TaskIInv, TaskOk, FinishIsLocked

\* register_active protects an open box; the task holds one protection more.
LEMMA RegisterKeeps ==
  ASSUME TaskIInv, NEW t \in Tasks, Register(t)
  PROVE  TaskIInv'
<1>1. TypeOK /\ proc \in [Tasks -> [Procs -> ProcRec]] /\ "start" \in Procs
  BY ProcsTyped, Values DEF TaskIInv
<1>2. /\ PhaseOf(t) /\ LockedBy(t) /\ FollowedUp(t) /\ WorkerEnds(t)
      /\ FinishIsLocked => AloneIn(t) /\ BoxInv /\ ExactInv
  BY DEF TaskIInv, TaskOk
<1>3. status[t] \in Terminal \cup Unfinished \cup {"none"} BY <1>1 DEF TypeOK, Statuses
<1>4. PICK r \in ProcRec : /\ proc' = Put(proc, t, "start", r)
                           /\ \/ box[t] \in open /\ r.at = "submit"
                              \/ box[t] \notin open /\ r.at = "lock" /\ r.due = "FAILED"
                                   /\ r.lock = LockOf(t)
  <2>1. CASE box[t] \in open
    <3>1. Goes(t, "start", "submit") BY <2>1 DEF Register
    <3>2. QED BY <1>1, <2>1, <3>1, GoesPuts DEF Phases, StartPhases
  <2>2. CASE box[t] \notin open
    <3>1. CallFinish(t, "start", "FAILED") BY <2>2 DEF Register
    <3>2. QED BY <1>1, <2>2, <3>1, CallPuts DEF Terminal
  <2>3. QED BY <2>1, <2>2
<1>5. /\ proc' \in [Tasks -> [Procs -> ProcRec]] /\ proc'[t]["start"] = r
      /\ \A q \in Procs : q # "start" => proc'[t][q] = proc[t][q]
      /\ \A u \in Tasks : u # t => proc'[u] = proc[u]
  <2>1. proc' = Put(proc, t, "start", r) BY <1>4
  <2>2. QED BY <1>1, <2>1, PutMoves
<1>6. /\ \A u \in Tasks : u # t => /\ status'[u] = status[u]
                                 /\ (u \in registered' <=> u \in registered)
                                 /\ (u \in waiter' <=> u \in waiter)
      /\ serving' = serving /\ happens' = happens
  BY <1>1 DEF Register, waiting, service
<1>7. /\ status'[t] = status[t] /\ waiter' = waiter
      /\ At(t, "start") = "register"
      /\ box[t] \in open => registered' = registered \cup {t}
      /\ box[t] \notin open => registered' = registered
  BY DEF Register, waiting
<1>8. TypeOK'
  <2>1. count' \in [Boxes -> Nat]
    <3>1. CASE box[t] \in open
      <4>1. count' = [count EXCEPT ![box[t]] = @ + 1] BY <3>1 DEF Register
      <4>2. QED BY <1>1, <3>1, <4>1, RegisterCounts
    <3>2. CASE box[t] \notin open BY <1>1, <3>2 DEF Register, TypeOK
    <3>3. QED BY <3>1, <3>2
  <2>2. QED BY <1>1, <1>5, <2>1 DEF Register, TypeOK, ProcRec, waiting, outside, service
<1>9. \A u \in Tasks : u # t => TaskOk(u)' /\ (u \in Holding' <=> u \in Holding)
  BY <1>5, <1>6, OthersKeep DEF TaskOk
<1>10. PhaseOf(t)'
  BY <1>2, <1>3, <1>4, <1>5, <1>6, <1>7, Values
  DEF PhaseOf, At, StartPhases, FinishPhases, Active, Terminal
<1>11. LockedBy(t)'
  BY <1>2, <1>3, <1>4, <1>5, <1>6, <1>7, Values
  DEF LockedBy, At, LockOf, FinishPhases, Terminal
<1>12. FollowedUp(t)'
  BY <1>2, <1>3, <1>4, <1>5, <1>6, <1>7, Values
  DEF FollowedUp, At, StartPhases, FinishPhases, Active
<1>13. WorkerEnds(t)'
  BY <1>2, <1>3, <1>4, <1>5, <1>6, <1>7, Values DEF WorkerEnds, At, Followed
<1>14. FinishIsLocked => AloneIn(t)'
  <2>1. FinishIsLocked =>
          \A q, s \in Procs : At(t, q)' \in Critical /\ At(t, s)' \in Critical => q = s
    BY <1>2, <1>3, <1>4, <1>5, <1>7 DEF At, AloneIn, Critical
  <2>2. FinishIsLocked =>
          /\ \A q \in Procs : At(t, q)' = "write" => status'[t] \in Unfinished
          /\ \A q \in Procs \ {"start"} : At(t, q)' \in {"write", "save"} => status'[t] = "RUNNING"
          /\ \A q \in Procs : At(t, q)' = "release" => status'[t] \in Terminal
          /\ At(t, "start")' \in FinishPhases /\ status'[t] = "RUNNING" => t \in registered'
          /\ At(t, "start")' = "release" => t \in registered'
    BY <1>2, <1>3, <1>4, <1>5, <1>7 DEF At, PhaseOf, StartPhases
  <2>3. QED BY <2>1, <2>2 DEF AloneIn
<1>15. FinishIsLocked => BoxInv' /\ ExactInv'
  <2> SUFFICES ASSUME FinishIsLocked PROVE BoxInv' /\ ExactInv' OBVIOUS
  <2>1. \A u \in Tasks : u # t => (u \in Holding' <=> u \in Holding) BY <1>9
  <2>2. t \notin Holding BY <1>2, <1>7 DEF Holding, PhaseOf, StartPhases, FinishPhases
  <2>3. box' = box /\ open' = open BY DEF Register, outside
  <2>4. CASE box[t] \in open
    <3>1. Holding' = Holding \cup {t} BY <1>7, <2>1, <2>4 DEF Holding
    <3>2. count' = [count EXCEPT ![box[t]] = @ + 1] BY <2>4 DEF Register
    <3>3. QED BY <1>1, <1>2, <1>6, <2>2, <2>3, <2>4, <3>1, <3>2, BoxesGrow
  <2>5. CASE box[t] \notin open
    <3>1. t \notin Holding'
      BY <1>2, <1>3, <1>4, <1>5, <1>7, <2>5 DEF Holding, PhaseOf, At, StartPhases, FinishPhases
    <3>2. Holding' = Holding BY <2>1, <2>2, <3>1 DEF Holding
    <3>3. count' = count BY <2>5 DEF Register
    <3>4. QED BY <1>1, <1>2, <1>6, <2>3, <3>2, <3>3, BoxesKept
  <2>6. QED BY <2>4, <2>5
<1>16. QED
  BY <1>6, <1>8, <1>9, <1>10, <1>11, <1>12, <1>13, <1>14, <1>15
  DEF TaskIInv, TaskOk, FinishIsLocked

\* The command is submitted under the protection of its task.
LEMMA SubmitKeeps ==
  ASSUME TaskIInv, NEW t \in Tasks, Submit(t)
  PROVE  TaskIInv'
<1>1. TypeOK /\ proc \in [Tasks -> [Procs -> ProcRec]] /\ "start" \in Procs
  BY ProcsTyped, Values DEF TaskIInv
<1>2. /\ PhaseOf(t) /\ LockedBy(t) /\ FollowedUp(t) /\ WorkerEnds(t)
      /\ FinishIsLocked => AloneIn(t) /\ BoxInv /\ ExactInv
  BY DEF TaskIInv, TaskOk
<1>3. status[t] \in Terminal \cup Unfinished \cup {"none"} BY <1>1 DEF TypeOK, Statuses
<1>4. PICK r \in ProcRec : /\ proc' = Put(proc, t, "start", r)
                           /\ r.at = "running" /\ r.due = proc[t]["start"].due
                                /\ r.lock = proc[t]["start"].lock
  BY <1>1, GoesPuts DEF Submit, Phases, StartPhases
<1>5. /\ proc' \in [Tasks -> [Procs -> ProcRec]] /\ proc'[t]["start"] = r
      /\ \A q \in Procs : q # "start" => proc'[t][q] = proc[t][q]
      /\ \A u \in Tasks : u # t => proc'[u] = proc[u]
  <2>1. proc' = Put(proc, t, "start", r) BY <1>4
  <2>2. QED BY <1>1, <2>1, PutMoves
<1>6. /\ \A u \in Tasks : u # t => /\ status'[u] = status[u]
                                 /\ (u \in registered' <=> u \in registered)
                                 /\ (u \in waiter' <=> u \in waiter)
      /\ serving' = serving /\ happens' = happens
  BY <1>1 DEF Submit, waiting, service
<1>7. /\ status'[t] = status[t]
      /\ registered' = registered /\ waiter' = waiter
      /\ At(t, "start") = "submit"
  BY <1>1 DEF Submit, TypeOK, waiting
<1>8. TypeOK'
  BY <1>1, <1>5 DEF Submit, TypeOK, ProcRec, waiting, service, Remotes
<1>9. \A u \in Tasks : u # t => TaskOk(u)' /\ (u \in Holding' <=> u \in Holding)
  BY <1>5, <1>6, OthersKeep DEF TaskOk
<1>10. PhaseOf(t)'
  BY <1>2, <1>3, <1>4, <1>5, <1>6, <1>7, Values DEF PhaseOf, At, StartPhases, Active
<1>11. LockedBy(t)'
  BY <1>2, <1>3, <1>4, <1>5, <1>6, <1>7, Values DEF LockedBy, At, FinishPhases
<1>12. FollowedUp(t)'
  BY <1>2, <1>3, <1>4, <1>5, <1>6, <1>7, Values DEF FollowedUp, At, StartPhases, Active
<1>13. WorkerEnds(t)'
  BY <1>2, <1>3, <1>4, <1>5, <1>6, <1>7, Values DEF WorkerEnds, At, Followed
<1>14. FinishIsLocked => AloneIn(t)'
  <2>1. FinishIsLocked =>
          \A q, s \in Procs : At(t, q)' \in Critical /\ At(t, s)' \in Critical => q = s
    BY <1>2, <1>3, <1>4, <1>5, <1>7 DEF At, AloneIn, Critical
  <2>2. FinishIsLocked =>
          /\ \A q \in Procs : At(t, q)' = "write" => status'[t] \in Unfinished
          /\ \A q \in Procs \ {"start"} : At(t, q)' \in {"write", "save"} => status'[t] = "RUNNING"
          /\ \A q \in Procs : At(t, q)' = "release" => status'[t] \in Terminal
          /\ At(t, "start")' \in FinishPhases /\ status'[t] = "RUNNING" => t \in registered'
          /\ At(t, "start")' = "release" => t \in registered'
    BY <1>2, <1>3, <1>4, <1>5, <1>7 DEF At, PhaseOf
  <2>3. QED BY <2>1, <2>2 DEF AloneIn
<1>15. FinishIsLocked => BoxInv' /\ ExactInv'
  <2> SUFFICES ASSUME FinishIsLocked PROVE BoxInv' /\ ExactInv' OBVIOUS
  <2>1. Holding' = Holding
    <3>1. t \in Holding' <=> t \in Holding
      BY <1>2, <1>3, <1>4, <1>5, <1>7 DEF Holding, PhaseOf
    <3>2. QED BY <1>9, <3>1 DEF Holding
  <2>2. \A s \in Holding : box'[s] = box[s] BY DEF Submit
  <2>3. open' = open /\ count' = count BY DEF Submit, outside
  <2>4. QED BY <1>1, <1>2, <1>6, <2>1, <2>2, <2>3, BoxesKept
<1>16. QED
  BY <1>6, <1>8, <1>9, <1>10, <1>11, <1>12, <1>13, <1>14, <1>15
  DEF TaskIInv, TaskOk, FinishIsLocked

\* start_command hands the task over to the worker.
LEMMA StartedKeeps ==
  ASSUME TaskIInv, NEW t \in Tasks, Started(t)
  PROVE  TaskIInv'
<1> DEFINE r == [Idle EXCEPT !.at = "done"]
           w == [Idle EXCEPT !.at = "poll"]
           f == Put(proc, t, "start", r)
<1>1. TypeOK /\ proc \in [Tasks -> [Procs -> ProcRec]] /\ "start" \in Procs /\ "work" \in Procs
  BY ProcsTyped, Values DEF TaskIInv
<1>2. /\ PhaseOf(t) /\ LockedBy(t) /\ FollowedUp(t) /\ WorkerEnds(t)
      /\ FinishIsLocked => AloneIn(t) /\ BoxInv /\ ExactInv
  BY DEF TaskIInv, TaskOk
<1>3. r \in ProcRec /\ r.at = "done" /\ w \in ProcRec /\ w.at = "poll"
  BY DEF ProcRec, Idle, Phases, WorkPhases, Statuses
<1>4. proc' = Put(f, t, "work", w) BY <1>1 DEF Started, Put
<1> HIDE DEF r, w
<1>5. /\ f \in [Tasks -> [Procs -> ProcRec]] /\ f[t]["start"] = r
      /\ \A q \in Procs : q # "start" => f[t][q] = proc[t][q]
      /\ \A u \in Tasks : u # t => f[u] = proc[u]
  BY <1>1, <1>3, PutMoves
<1> HIDE DEF f
<1>6. /\ proc' \in [Tasks -> [Procs -> ProcRec]] /\ proc'[t]["work"] = w
      /\ \A q \in Procs : q # "work" => proc'[t][q] = f[t][q]
      /\ \A u \in Tasks : u # t => proc'[u] = f[u]
  <2>1. f \in [Tasks -> [Procs -> ProcRec]] /\ w \in ProcRec BY <1>3, <1>5
  <2>2. QED BY <1>1, <1>4, <2>1, PutMoves
<1>7. /\ proc'[t]["start"].at = "done" /\ proc'[t]["work"].at = "poll"
      /\ \A q \in Procs : q \notin {"start", "work"} => proc'[t][q] = proc[t][q]
      /\ \A u \in Tasks : u # t => proc'[u] = proc[u]
  BY <1>1, <1>3, <1>5, <1>6
<1>8. /\ \A u \in Tasks : u # t => /\ status'[u] = status[u]
                                 /\ (u \in registered' <=> u \in registered)
                                 /\ (u \in waiter' <=> u \in waiter)
      /\ serving' = serving /\ happens' = happens
  BY <1>1 DEF Started, waiting, service
<1>9. /\ At(t, "start") = "running" /\ status'[t] = "RUNNING" /\ t \notin registered'
      /\ waiter' = waiter
  BY <1>1 DEF Started, TypeOK, waiting
<1>10. TypeOK'
  <2>1. status' \in [Tasks -> Statuses] BY <1>1 DEF Started, TypeOK, Statuses, Unfinished
  <2>2. QED BY <1>1, <1>6, <2>1 DEF Started, TypeOK, ProcRec, waiting, outside, service
<1>11. \A u \in Tasks : u # t => TaskOk(u)' /\ (u \in Holding' <=> u \in Holding)
  BY <1>7, <1>8, OthersKeep DEF TaskOk
<1>12. \A q \in Procs : q \notin {"start", "work"} => proc'[t][q].at = "none"
  BY <1>2, <1>7, <1>9 DEF PhaseOf, At
<1>13. TaskOk(t)'
  <2>1. PhaseOf(t)' /\ LockedBy(t)'
    BY <1>2, <1>7, <1>8, <1>9, <1>12, Values
    DEF PhaseOf, LockedBy, At, StartPhases, WorkPhases, FinishPhases
  <2>2. FollowedUp(t)' /\ WorkerEnds(t)'
    BY <1>2, <1>7, <1>8, <1>9, <1>12, Values DEF FollowedUp, WorkerEnds, Followed, At
  <2>3. AloneIn(t)'
    BY <1>7, <1>9, <1>12 DEF AloneIn, At, Critical, FinishPhases
  <2>4. QED BY <2>1, <2>2, <2>3 DEF TaskOk
<1>14. FinishIsLocked => BoxInv' /\ ExactInv'
  <2>1. \A u \in Tasks : u # t => (u \in Holding' <=> u \in Holding) BY <1>11
  <2>2. t \in Holding /\ t \in Holding' BY <1>2, <1>9 DEF Holding, PhaseOf
  <2>3. Holding' = Holding BY <2>1, <2>2 DEF Holding
  <2>4. box' = box /\ open' = open /\ count' = count BY DEF Started, outside
  <2>5. QED BY <1>2, <1>8, <2>3, <2>4, BoxesKept
<1>15. QED BY <1>8, <1>10, <1>11, <1>13, <1>14 DEF TaskIInv, FinishIsLocked

\* A start that fails or is cancelled leaves its protection to its own _finish.
LEMMA StartFailsKeeps ==
  ASSUME TaskIInv, NEW t \in Tasks, StartFails(t)
  PROVE  TaskIInv'
<1>1. TypeOK /\ proc \in [Tasks -> [Procs -> ProcRec]] /\ "start" \in Procs
  BY ProcsTyped, Values DEF TaskIInv
<1>2. /\ PhaseOf(t) /\ LockedBy(t) /\ FollowedUp(t) /\ WorkerEnds(t)
      /\ FinishIsLocked => AloneIn(t) /\ BoxInv /\ ExactInv
  BY DEF TaskIInv, TaskOk
<1>3. status[t] \in Terminal \cup Unfinished \cup {"none"} BY <1>1 DEF TypeOK, Statuses
<1>4. PICK r \in ProcRec : /\ proc' = Put(proc, t, "start", r)
                           /\ r.at = "lock" /\ r.due \in {"LOST", "FAILED"} /\ r.lock = LockOf(t)
  <2>1. CallFinish(t, "start", "LOST") \/ CallFinish(t, "start", "FAILED") BY DEF StartFails
  <2>2. QED BY <1>1, <2>1, CallPuts DEF Terminal
<1>5. /\ proc' \in [Tasks -> [Procs -> ProcRec]] /\ proc'[t]["start"] = r
      /\ \A q \in Procs : q # "start" => proc'[t][q] = proc[t][q]
      /\ \A u \in Tasks : u # t => proc'[u] = proc[u]
  <2>1. proc' = Put(proc, t, "start", r) BY <1>4
  <2>2. QED BY <1>1, <2>1, PutMoves
<1>6. /\ \A u \in Tasks : u # t => /\ status'[u] = status[u]
                                 /\ (u \in registered' <=> u \in registered)
                                 /\ (u \in waiter' <=> u \in waiter)
      /\ serving' = serving /\ happens' = happens
  BY <1>1 DEF StartFails, TypeOK, waiting, service
<1>7. /\ At(t, "start") \in StartPhases
      /\ status'[t] \in {status[t], "RUNNING"}
      /\ status'[t] # status[t] => At(t, "start") = "running"
      /\ registered' = registered /\ waiter' = waiter
  <2>1. /\ status'[t] \in {status[t], "RUNNING"}
        /\ status'[t] # status[t] => At(t, "start") = "running"
    BY <1>1 DEF StartFails, TypeOK
  <2>2. QED BY <2>1 DEF StartFails, waiting
<1>8. TypeOK'
  <2>1. status' \in [Tasks -> Statuses] BY <1>1 DEF StartFails, TypeOK, Statuses, Unfinished
  <2>2. box' \in [Tasks -> Boxes \cup {NoBox}] BY <1>1 DEF StartFails, TypeOK
  <2>3. count' \in [Boxes -> Nat] BY <1>1 DEF StartFails, TypeOK
  <2>4. remote' \in [Tasks -> Remotes] BY <1>1 DEF StartFails, TypeOK, Remotes
  <2>5. QED
    BY <1>1, <1>5, <2>1, <2>2, <2>3, <2>4 DEF StartFails, TypeOK, ProcRec, waiting, service
<1>9. \A u \in Tasks : u # t => TaskOk(u)' /\ (u \in Holding' <=> u \in Holding)
  BY <1>5, <1>6, OthersKeep DEF TaskOk
<1>10. PhaseOf(t)'
  BY <1>2, <1>3, <1>4, <1>5, <1>6, <1>7, Values
  DEF PhaseOf, At, StartPhases, FinishPhases, Active, Unfinished
<1>11. LockedBy(t)'
  BY <1>2, <1>3, <1>4, <1>5, <1>6, <1>7, Values DEF LockedBy, At, LockOf, Terminal
<1>12. FollowedUp(t)'
  BY <1>2, <1>3, <1>4, <1>5, <1>6, <1>7, Values
  DEF FollowedUp, At, PhaseOf, FinishPhases, Active
<1>13. WorkerEnds(t)'
  BY <1>2, <1>3, <1>4, <1>5, <1>6, <1>7, Values DEF WorkerEnds, At, Followed
<1>14. FinishIsLocked => AloneIn(t)'
  <2>1. FinishIsLocked =>
          \A q, s \in Procs : At(t, q)' \in Critical /\ At(t, s)' \in Critical => q = s
    BY <1>2, <1>3, <1>4, <1>5, <1>7 DEF At, AloneIn, Critical
  <2>2. FinishIsLocked =>
          /\ \A q \in Procs : At(t, q)' = "write" => status'[t] \in Unfinished
          /\ \A q \in Procs \ {"start"} : At(t, q)' \in {"write", "save"} => status'[t] = "RUNNING"
          /\ \A q \in Procs : At(t, q)' = "release" => status'[t] \in Terminal
          /\ At(t, "start")' \in FinishPhases /\ status'[t] = "RUNNING" => t \in registered'
          /\ At(t, "start")' = "release" => t \in registered'
    BY <1>2, <1>3, <1>4, <1>5, <1>7 DEF At, PhaseOf
  <2>3. QED BY <2>1, <2>2 DEF AloneIn
<1>15. FinishIsLocked => BoxInv' /\ ExactInv'
  <2> SUFFICES ASSUME FinishIsLocked PROVE BoxInv' /\ ExactInv' OBVIOUS
  <2>1. Holding' = Holding
    <3>1. t \in Holding' <=> t \in Holding
      BY <1>2, <1>3, <1>4, <1>5, <1>7 DEF Holding, PhaseOf, At, StartPhases
    <3>2. QED BY <1>9, <3>1 DEF Holding
  <2>2. \A s \in Holding : box'[s] = box[s]
    <3>1. \A s \in Tasks : s # t => box'[s] = box[s] BY <1>1 DEF StartFails, TypeOK
    <3>2. At(t, "start") # "allocate" => box' = box BY DEF StartFails
    <3>3. At(t, "start") = "allocate" => t \notin Holding
      BY <1>2 DEF Holding, PhaseOf, StartPhases, FinishPhases
    <3>4. QED BY <3>1, <3>2, <3>3 DEF Holding
  <2>3. open' = open BY DEF StartFails
  <2>4. CASE happens \cap {"mongo_fails", "cancelled"} # {}
    <3>1. \A b \in Boxes : count[b] <= count'[b]
      <4>1. CASE count' = count BY <1>1, <4>1 DEF TypeOK
      <4>2. CASE box[t] \in open /\ count' = [count EXCEPT ![box[t]] = @ + 1]
        BY <1>1, <4>2, RegisterCounts
      <4>3. QED BY <4>1, <4>2 DEF StartFails
    <3>2. QED BY <1>1, <1>2, <1>6, <1>8, <2>1, <2>2, <2>3, <2>4, <3>1, BoxesShrink
  <2>5. CASE happens \cap {"mongo_fails", "cancelled"} = {}
    <3>1. count' = count BY <2>5 DEF StartFails
    <3>2. QED BY <1>1, <1>2, <1>6, <2>1, <2>2, <2>3, <3>1, BoxesKept
  <2>6. QED BY <2>4, <2>5
<1>16. QED
  BY <1>6, <1>8, <1>9, <1>10, <1>11, <1>12, <1>13, <1>14, <1>15
  DEF TaskIInv, TaskOk, FinishIsLocked

-----------------------------------------------------------------------------
(* The worker.                                                              *)

\* The worker asks AIO outside the lock.
LEMMA PollKeeps ==
  ASSUME TaskIInv, NEW t \in Tasks, Poll(t)
  PROVE  TaskIInv'
<1>1. TypeOK /\ proc \in [Tasks -> [Procs -> ProcRec]] /\ "work" \in Procs
  BY ProcsTyped, Values DEF TaskIInv
<1>2. /\ PhaseOf(t) /\ LockedBy(t) /\ FollowedUp(t) /\ WorkerEnds(t)
      /\ FinishIsLocked => AloneIn(t) /\ BoxInv /\ ExactInv
  BY DEF TaskIInv, TaskOk
<1>3. status[t] \in Terminal \cup Unfinished \cup {"none"} BY <1>1 DEF TypeOK, Statuses
<1>4. PICK r \in ProcRec : /\ proc' = Put(proc, t, "work", r)
                           /\ \/ status[t] \in Terminal /\ r.at = "ended"
                              \/ status[t] \notin Terminal /\ r.at = "record" /\ r.lock = LockOf(t)
  <2>1. CASE status[t] \in Terminal
    <3>1. Return(t, "work", FALSE) BY <2>1 DEF Poll
    <3>2. QED BY <1>1, <2>1, <3>1, Values, ReturnPuts
  <2>2. CASE status[t] \notin Terminal
    <3>1. PICK s \in {"RUNNING"} \cup Results :
            proc' = [proc EXCEPT ![t]["work"] = [at |-> "record", due |-> s, lock |-> LockOf(t)]]
      BY <2>2 DEF Poll
    <3> DEFINE r == [at |-> "record", due |-> s, lock |-> LockOf(t)]
    <3>2. r \in ProcRec
      BY DEF ProcRec, LockOf, Phases, WorkPhases, Statuses, Terminal, Unfinished, Results
    <3>3. proc' = Put(proc, t, "work", r) BY <3>1 DEF Put
    <3>4. QED BY <2>2, <3>2, <3>3
  <2>3. QED BY <2>1, <2>2
<1>5. /\ proc' \in [Tasks -> [Procs -> ProcRec]] /\ proc'[t]["work"] = r
      /\ \A q \in Procs : q # "work" => proc'[t][q] = proc[t][q]
      /\ \A u \in Tasks : u # t => proc'[u] = proc[u]
  <2>1. proc' = Put(proc, t, "work", r) BY <1>4
  <2>2. QED BY <1>1, <2>1, PutMoves
<1>6. /\ \A u \in Tasks : u # t => /\ status'[u] = status[u]
                                 /\ (u \in registered' <=> u \in registered)
                                 /\ (u \in waiter' <=> u \in waiter)
      /\ serving' = serving /\ happens' = happens
  BY <1>1 DEF Poll, Return, waiting, service
<1>7. /\ status'[t] = status[t] /\ registered' = registered /\ waiter' = waiter
      /\ At(t, "work") = "poll"
  BY Values DEF Poll, Return, waiting
<1>8. TypeOK'
  <2>1. caught' \subseteq Tasks /\ signalled' \subseteq Tasks
    BY <1>1 DEF Poll, Return, waiting, TypeOK
  <2>2. status' = status /\ box' = box /\ count' = count /\ open' = open
          /\ remote' = remote /\ crashes' = crashes
    BY DEF Poll, outside, service
  <2>3. QED BY <1>1, <1>5, <1>6, <1>7, <2>1, <2>2 DEF TypeOK, ProcRec
<1>9. \A u \in Tasks : u # t => TaskOk(u)' /\ (u \in Holding' <=> u \in Holding)
  BY <1>5, <1>6, OthersKeep DEF TaskOk
<1>10. PhaseOf(t)'
  BY <1>2, <1>3, <1>4, <1>5, <1>6, <1>7, Values DEF PhaseOf, At, WorkPhases
<1>11. LockedBy(t)'
  BY <1>2, <1>3, <1>4, <1>5, <1>6, <1>7 DEF LockedBy, At, LockOf, FinishPhases
<1>12. FollowedUp(t)'
  BY <1>2, <1>3, <1>4, <1>5, <1>6, <1>7 DEF FollowedUp, At, Followed, Terminal, Unfinished
<1>13. WorkerEnds(t)'
  BY <1>2, <1>3, <1>4, <1>5, <1>6, <1>7, Values DEF WorkerEnds, At, Followed, Terminal
<1>14. FinishIsLocked => AloneIn(t)'
  <2>1. FinishIsLocked =>
          \A q, s \in Procs : At(t, q)' \in Critical /\ At(t, s)' \in Critical => q = s
    BY <1>2, <1>3, <1>4, <1>5, <1>7 DEF At, AloneIn, Critical
  <2>2. FinishIsLocked =>
          /\ \A q \in Procs : At(t, q)' = "write" => status'[t] \in Unfinished
          /\ \A q \in Procs \ {"start"} : At(t, q)' \in {"write", "save"} => status'[t] = "RUNNING"
          /\ \A q \in Procs : At(t, q)' = "release" => status'[t] \in Terminal
          /\ At(t, "start")' \in FinishPhases /\ status'[t] = "RUNNING" => t \in registered'
          /\ At(t, "start")' = "release" => t \in registered'
    BY <1>2, <1>3, <1>4, <1>5, <1>7, Values DEF At, AloneIn, FollowedUp, Terminal
  <2>3. QED BY <2>1, <2>2 DEF AloneIn
<1>15. FinishIsLocked => BoxInv' /\ ExactInv'
  <2> SUFFICES ASSUME FinishIsLocked PROVE BoxInv' /\ ExactInv' OBVIOUS
  <2>1. Holding' = Holding
    <3>1. t \in Holding' <=> t \in Holding
      BY <1>2, <1>3, <1>4, <1>5, <1>7 DEF Holding, At
    <3>2. QED BY <1>9, <3>1 DEF Holding
  <2>2. box' = box /\ open' = open /\ count' = count BY DEF Poll, outside
  <2>3. QED BY <1>1, <1>2, <1>6, <2>1, <2>2, BoxesKept
<1>16. QED
  BY <1>6, <1>8, <1>9, <1>10, <1>11, <1>12, <1>13, <1>14, <1>15
  DEF TaskIInv, TaskOk, FinishIsLocked

\* The worker enters the lock to save output, and looks again there.
LEMMA RecordKeeps ==
  ASSUME TaskIInv, NEW t \in Tasks, Record(t)
  PROVE  TaskIInv'
<1>1. TypeOK /\ proc \in [Tasks -> [Procs -> ProcRec]] /\ "work" \in Procs
  BY ProcsTyped, Values DEF TaskIInv
<1>2. /\ PhaseOf(t) /\ LockedBy(t) /\ FollowedUp(t) /\ WorkerEnds(t)
      /\ FinishIsLocked => AloneIn(t) /\ BoxInv /\ ExactInv
  BY DEF TaskIInv, TaskOk
<1>3. status[t] \in Terminal \cup Unfinished \cup {"none"} BY <1>1 DEF TypeOK, Statuses
<1>4. PICK r \in ProcRec : /\ proc' = Put(proc, t, "work", r)
                           /\ \/ status[t] \in Terminal /\ r.at = "ended"
                              \/ /\ status[t] \notin Terminal
                                 /\ \/ r.at = "poll"
                                    \/ r.at = "lock" /\ r.due \in Terminal /\ r.lock = LockOf(t)
                                    \/ /\ r.at = "save" /\ r.lock = proc[t]["work"].lock
                                       /\ Free(t, proc[t]["work"].lock)
  <2>1. CASE status[t] \in Terminal
    <3>1. Return(t, "work", FALSE) BY <2>1 DEF Record
    <3>2. QED BY <1>1, <2>1, <3>1, Values, ReturnPuts
  <2>2. CASE status[t] \notin Terminal /\ WorkGoesOn(t)
    BY <1>1, <2>2, GoesOnPuts
  <2>3. CASE status[t] \notin Terminal /\ Goes(t, "work", "save")
    <3>1. Free(t, proc[t]["work"].lock) BY DEF Record
    <3>2. QED BY <1>1, <2>3, <3>1, GoesPuts DEF Phases, WorkPhases
  <2>4. QED BY <2>1, <2>2, <2>3 DEF Record
<1>5. /\ proc' \in [Tasks -> [Procs -> ProcRec]] /\ proc'[t]["work"] = r
      /\ \A q \in Procs : q # "work" => proc'[t][q] = proc[t][q]
      /\ \A u \in Tasks : u # t => proc'[u] = proc[u]
  <2>1. proc' = Put(proc, t, "work", r) BY <1>4
  <2>2. QED BY <1>1, <2>1, PutMoves
<1>6. /\ \A u \in Tasks : u # t => /\ status'[u] = status[u]
                                 /\ (u \in registered' <=> u \in registered)
                                 /\ (u \in waiter' <=> u \in waiter)
      /\ serving' = serving /\ happens' = happens
  BY <1>1 DEF Record, Return, waiting, service
<1>7. /\ status'[t] = status[t] /\ registered' = registered /\ waiter' = waiter
      /\ At(t, "work") = "record"
  BY Values DEF Record, Return, waiting
<1>8. TypeOK'
  <2>1. caught' \subseteq Tasks /\ signalled' \subseteq Tasks
    BY <1>1 DEF Record, Return, waiting, TypeOK
  <2>2. status' = status /\ box' = box /\ count' = count /\ open' = open
          /\ remote' = remote /\ crashes' = crashes
    BY DEF Record, outside, service
  <2>3. QED BY <1>1, <1>5, <1>6, <1>7, <2>1, <2>2 DEF TypeOK, ProcRec
<1>9. \A u \in Tasks : u # t => TaskOk(u)' /\ (u \in Holding' <=> u \in Holding)
  BY <1>5, <1>6, OthersKeep DEF TaskOk
<1>10. PhaseOf(t)'
  BY <1>2, <1>3, <1>4, <1>5, <1>6, <1>7, Values DEF PhaseOf, At, WorkPhases, FinishPhases
<1>11. LockedBy(t)'
  BY <1>2, <1>3, <1>4, <1>5, <1>6, <1>7 DEF LockedBy, At, LockOf, FinishPhases
<1>12. FollowedUp(t)'
  BY <1>2, <1>3, <1>4, <1>5, <1>6, <1>7 DEF FollowedUp, At, Followed, Terminal, Unfinished
<1>13. WorkerEnds(t)'
  BY <1>2, <1>3, <1>4, <1>5, <1>6, <1>7, Values DEF WorkerEnds, At, Followed, Terminal
<1>14. FinishIsLocked => AloneIn(t)'
  <2>1. FinishIsLocked =>
          \A q, s \in Procs : At(t, q)' \in Critical /\ At(t, s)' \in Critical => q = s
    BY <1>2, <1>3, <1>4, <1>5, <1>7, Values DEF At, Free, AloneIn, PhaseOf, LockedBy, Critical
  <2>2. FinishIsLocked =>
          /\ \A q \in Procs : At(t, q)' = "write" => status'[t] \in Unfinished
          /\ \A q \in Procs \ {"start"} : At(t, q)' \in {"write", "save"} => status'[t] = "RUNNING"
          /\ \A q \in Procs : At(t, q)' = "release" => status'[t] \in Terminal
          /\ At(t, "start")' \in FinishPhases /\ status'[t] = "RUNNING" => t \in registered'
          /\ At(t, "start")' = "release" => t \in registered'
    BY <1>2, <1>3, <1>4, <1>5, <1>7, Values DEF At, AloneIn, PhaseOf, Unfinished
  <2>3. QED BY <2>1, <2>2 DEF AloneIn
<1>15. FinishIsLocked => BoxInv' /\ ExactInv'
  <2> SUFFICES ASSUME FinishIsLocked PROVE BoxInv' /\ ExactInv' OBVIOUS
  <2>1. Holding' = Holding
    <3>1. t \in Holding' <=> t \in Holding
      BY <1>2, <1>3, <1>4, <1>5, <1>7 DEF Holding, At
    <3>2. QED BY <1>9, <3>1 DEF Holding
  <2>2. box' = box /\ open' = open /\ count' = count BY DEF Record, outside
  <2>3. QED BY <1>1, <1>2, <1>6, <2>1, <2>2, BoxesKept
<1>16. QED
  BY <1>6, <1>8, <1>9, <1>10, <1>11, <1>12, <1>13, <1>14, <1>15
  DEF TaskIInv, TaskOk, FinishIsLocked

\* The record the worker saves is of a running task: nobody finished it meanwhile.
LEMMA SaveKeeps ==
  ASSUME TaskIInv, NEW t \in Tasks, Save(t)
  PROVE  TaskIInv'
<1>1. TypeOK /\ proc \in [Tasks -> [Procs -> ProcRec]] /\ "work" \in Procs
  BY ProcsTyped, Values DEF TaskIInv
<1>2. /\ PhaseOf(t) /\ LockedBy(t) /\ FollowedUp(t) /\ WorkerEnds(t)
      /\ FinishIsLocked => AloneIn(t) /\ BoxInv /\ ExactInv
  BY DEF TaskIInv, TaskOk
<1>3. status[t] \in Terminal \cup Unfinished \cup {"none"} BY <1>1 DEF TypeOK, Statuses
<1>4. PICK r \in ProcRec : /\ proc' = Put(proc, t, "work", r)
                           /\ \/ r.at = "poll"
                              \/ r.at = "lock" /\ r.due \in Terminal /\ r.lock = LockOf(t)
  BY <1>1, GoesOnPuts DEF Save
<1>5. /\ proc' \in [Tasks -> [Procs -> ProcRec]] /\ proc'[t]["work"] = r
      /\ \A q \in Procs : q # "work" => proc'[t][q] = proc[t][q]
      /\ \A u \in Tasks : u # t => proc'[u] = proc[u]
  <2>1. proc' = Put(proc, t, "work", r) BY <1>4
  <2>2. QED BY <1>1, <2>1, PutMoves
<1>6. /\ \A u \in Tasks : u # t => /\ status'[u] = status[u]
                                 /\ (u \in registered' <=> u \in registered)
                                 /\ (u \in waiter' <=> u \in waiter)
      /\ serving' = serving /\ happens' = happens
  BY <1>1 DEF Save, waiting, service
<1>7. /\ status'[t] = "RUNNING"
      /\ registered' = registered /\ waiter' = waiter
      /\ At(t, "work") = "save"
  BY <1>1 DEF Save, TypeOK, waiting
<1>8. TypeOK'
  <2>1. status' \in [Tasks -> Statuses] BY <1>1 DEF Save, TypeOK, Statuses, Unfinished
  <2>2. QED BY <1>1, <1>5, <2>1 DEF Save, TypeOK, ProcRec, waiting, outside, service
<1>9. \A u \in Tasks : u # t => TaskOk(u)' /\ (u \in Holding' <=> u \in Holding)
  BY <1>5, <1>6, OthersKeep DEF TaskOk
<1>10. PhaseOf(t)'
  BY <1>2, <1>3, <1>4, <1>5, <1>6, <1>7, Values DEF PhaseOf, At, WorkPhases, FinishPhases
<1>11. LockedBy(t)'
  BY <1>2, <1>3, <1>4, <1>5, <1>6, <1>7 DEF LockedBy, At, LockOf, FinishPhases
<1>12. FollowedUp(t)'
  BY <1>2, <1>3, <1>4, <1>5, <1>6, <1>7 DEF FollowedUp, At, Followed
<1>13. WorkerEnds(t)'
  BY <1>2, <1>3, <1>4, <1>5, <1>6, <1>7, Values DEF WorkerEnds, At, Followed
<1>14. FinishIsLocked => AloneIn(t)'
  <2>1. FinishIsLocked =>
          \A q, s \in Procs : At(t, q)' \in Critical /\ At(t, s)' \in Critical => q = s
    BY <1>2, <1>3, <1>4, <1>5, <1>7 DEF At, AloneIn, Critical
  <2>2. FinishIsLocked =>
          /\ \A q \in Procs : At(t, q)' = "write" => status'[t] \in Unfinished
          /\ \A q \in Procs \ {"start"} : At(t, q)' \in {"write", "save"} => status'[t] = "RUNNING"
          /\ \A q \in Procs : At(t, q)' = "release" => status'[t] \in Terminal
          /\ At(t, "start")' \in FinishPhases /\ status'[t] = "RUNNING" => t \in registered'
          /\ At(t, "start")' = "release" => t \in registered'
    BY <1>2, <1>3, <1>4, <1>5, <1>7, Values DEF At, AloneIn
  <2>3. QED BY <2>1, <2>2 DEF AloneIn
<1>15. FinishIsLocked => BoxInv' /\ ExactInv'
  <2> SUFFICES ASSUME FinishIsLocked PROVE BoxInv' /\ ExactInv' OBVIOUS
  <2>1. Holding' = Holding
    <3>1. t \in Holding' <=> t \in Holding
      BY <1>2, <1>3, <1>4, <1>5, <1>7, Values DEF Holding, AloneIn
    <3>2. QED BY <1>9, <3>1 DEF Holding
  <2>2. box' = box /\ open' = open /\ count' = count BY DEF Save, outside
  <2>3. QED BY <1>1, <1>2, <1>6, <2>1, <2>2, BoxesKept
<1>16. QED
  BY <1>6, <1>8, <1>9, <1>10, <1>11, <1>12, <1>13, <1>14, <1>15
  DEF TaskIInv, TaskOk, FinishIsLocked

\* A worker that fails turns to _finish, unless a restart or a cancel took it.
LEMMA WorkFailsKeeps ==
  ASSUME TaskIInv, NEW t \in Tasks, WorkFails(t)
  PROVE  TaskIInv'
<1>1. TypeOK /\ proc \in [Tasks -> [Procs -> ProcRec]] /\ "work" \in Procs
  BY ProcsTyped, Values DEF TaskIInv
<1>2. /\ PhaseOf(t) /\ LockedBy(t) /\ FollowedUp(t) /\ WorkerEnds(t)
      /\ FinishIsLocked => AloneIn(t) /\ BoxInv /\ ExactInv
  BY DEF TaskIInv, TaskOk
<1>3. status[t] \in Terminal \cup Unfinished \cup {"none"} BY <1>1 DEF TypeOK, Statuses
<1>4. PICK r \in ProcRec : /\ proc' = Put(proc, t, "work", r)
                           /\ r.at = "lock" /\ r.due = "LOST" /\ r.lock = LockOf(t)
  BY <1>1, CallPuts DEF WorkFails, Terminal
<1>5. /\ proc' \in [Tasks -> [Procs -> ProcRec]] /\ proc'[t]["work"] = r
      /\ \A q \in Procs : q # "work" => proc'[t][q] = proc[t][q]
      /\ \A u \in Tasks : u # t => proc'[u] = proc[u]
  <2>1. proc' = Put(proc, t, "work", r) BY <1>4
  <2>2. QED BY <1>1, <2>1, PutMoves
<1>6. /\ \A u \in Tasks : u # t => /\ status'[u] = status[u]
                                 /\ (u \in registered' <=> u \in registered)
                                 /\ (u \in waiter' <=> u \in waiter)
      /\ serving' = serving /\ happens' = happens
  BY <1>1 DEF WorkFails, TypeOK, waiting, service
<1>7. /\ status'[t] \in {status[t], "RUNNING"}
      /\ status'[t] # status[t] => At(t, "work") = "save"
      /\ registered' = registered /\ waiter' = waiter
      /\ At(t, "work") \in WorkPhases
  <2>1. /\ status'[t] \in {status[t], "RUNNING"}
        /\ status'[t] # status[t] => At(t, "work") = "save"
    BY <1>1 DEF WorkFails, TypeOK
  <2>2. At(t, "work") \in WorkPhases BY DEF WorkFails, WorkPhases
  <2>3. QED BY <2>1, <2>2 DEF WorkFails, waiting
<1>8. TypeOK'
  <2>1. status' \in [Tasks -> Statuses] BY <1>1 DEF WorkFails, TypeOK, Statuses, Unfinished
  <2>2. QED BY <1>1, <1>5, <2>1 DEF WorkFails, TypeOK, ProcRec, waiting, outside, service
<1>9. \A u \in Tasks : u # t => TaskOk(u)' /\ (u \in Holding' <=> u \in Holding)
  BY <1>5, <1>6, OthersKeep DEF TaskOk
<1>10. PhaseOf(t)'
  BY <1>2, <1>3, <1>4, <1>5, <1>6, <1>7, Values DEF PhaseOf, At, WorkPhases, FinishPhases
<1>11. LockedBy(t)'
  BY <1>2, <1>3, <1>4, <1>5, <1>6, <1>7 DEF LockedBy, At, LockOf, WorkPhases, Terminal
<1>12. FollowedUp(t)'
  BY <1>2, <1>3, <1>4, <1>5, <1>6, <1>7 DEF FollowedUp, At, Followed
<1>13. WorkerEnds(t)'
  BY <1>2, <1>3, <1>4, <1>5, <1>6, <1>7, Values DEF WorkerEnds, At, Followed, WorkPhases
<1>14. FinishIsLocked => AloneIn(t)'
  <2>1. FinishIsLocked =>
          \A q, s \in Procs : At(t, q)' \in Critical /\ At(t, s)' \in Critical => q = s
    BY <1>2, <1>3, <1>4, <1>5, <1>7 DEF At, AloneIn, Critical
  <2>2. FinishIsLocked =>
          /\ \A q \in Procs : At(t, q)' = "write" => status'[t] \in Unfinished
          /\ \A q \in Procs \ {"start"} : At(t, q)' \in {"write", "save"} => status'[t] = "RUNNING"
          /\ \A q \in Procs : At(t, q)' = "release" => status'[t] \in Terminal
          /\ At(t, "start")' \in FinishPhases /\ status'[t] = "RUNNING" => t \in registered'
          /\ At(t, "start")' = "release" => t \in registered'
    BY <1>2, <1>3, <1>4, <1>5, <1>7, Values DEF At, AloneIn
  <2>3. QED BY <2>1, <2>2 DEF AloneIn
<1>15. FinishIsLocked => BoxInv' /\ ExactInv'
  <2> SUFFICES ASSUME FinishIsLocked PROVE BoxInv' /\ ExactInv' OBVIOUS
  <2>1. Holding' = Holding
    <3>1. t \in Holding' <=> t \in Holding
      BY <1>2, <1>3, <1>4, <1>5, <1>7, Values DEF Holding, AloneIn, At, WorkPhases, Critical
    <3>2. QED BY <1>9, <3>1 DEF Holding
  <2>2. box' = box /\ open' = open /\ count' = count BY DEF WorkFails, outside
  <2>3. QED BY <1>1, <1>2, <1>6, <2>1, <2>2, BoxesKept
<1>16. QED
  BY <1>6, <1>8, <1>9, <1>10, <1>11, <1>12, <1>13, <1>14, <1>15
  DEF TaskIInv, TaskOk, FinishIsLocked

-----------------------------------------------------------------------------
(* _finish: the lock keeps all others out, and who is inside finds the task *)
(* unfinished.                                                              *)

\* A process enters _finish: one at a time, and it looks at the status there.
LEMMA FinishLocksKeeps ==
  ASSUME TaskIInv, NEW t \in Tasks, NEW p \in Procs, FinishLocks(t, p)
  PROVE  TaskIInv'
<1>1. TypeOK /\ proc \in [Tasks -> [Procs -> ProcRec]] /\ p \in Procs
  BY ProcsTyped, Values DEF TaskIInv
<1>2. /\ PhaseOf(t) /\ LockedBy(t) /\ FollowedUp(t) /\ WorkerEnds(t)
      /\ FinishIsLocked => AloneIn(t) /\ BoxInv /\ ExactInv
  BY DEF TaskIInv, TaskOk
<1>3. status[t] \in Terminal \cup Unfinished \cup {"none"} BY <1>1 DEF TypeOK, Statuses
<1>4. PICK r \in ProcRec : /\ proc' = Put(proc, t, p, r)
                           /\ \/ /\ status[t] \in Terminal
                                 /\ \/ p = "start" /\ r.at = "failed"
                                    \/ p = "work" /\ r.at = "ended"
                                    \/ p \in Killers /\ r.at = "none"
                                    \/ p \in Killers /\ r.at = "lock" /\ r.due = "KILLED"
                                         /\ r.lock = LockOf(t)
                              \/ /\ status[t] \notin Terminal /\ r.at = "write"
                                 /\ r.due = proc[t][p].due /\ r.lock = proc[t][p].lock
                                      /\ Free(t, r.lock)
  <2>1. CASE status[t] \in Terminal
    <3>1. Return(t, p, FALSE) BY <2>1 DEF FinishLocks
    <3>2. QED BY <1>1, <2>1, <3>1, ReturnPuts
  <2>2. CASE status[t] \notin Terminal
    <3>1. Goes(t, p, "write") /\ Free(t, proc[t][p].lock) BY <2>2 DEF FinishLocks
    <3>2. QED BY <1>1, <2>2, <3>1, GoesPuts DEF Phases, FinishPhases
  <2>3. QED BY <2>1, <2>2
<1>5. /\ proc' \in [Tasks -> [Procs -> ProcRec]] /\ proc'[t][p] = r
      /\ \A q \in Procs : q # p => proc'[t][q] = proc[t][q]
      /\ \A u \in Tasks : u # t => proc'[u] = proc[u]
  <2>1. proc' = Put(proc, t, p, r) BY <1>4
  <2>2. QED BY <1>1, <2>1, PutMoves
<1>6. /\ \A u \in Tasks : u # t => /\ status'[u] = status[u]
                                 /\ (u \in registered' <=> u \in registered)
                                 /\ (u \in waiter' <=> u \in waiter)
      /\ serving' = serving /\ happens' = happens
  BY <1>1 DEF FinishLocks, Return, waiting, service
<1>7. /\ At(t, p) = "lock" /\ status'[t] = status[t] /\ waiter' = waiter
      /\ registered' \in {registered, registered \ {t}}
      /\ registered' # registered => p = "start" /\ status[t] \in Terminal
  BY Values DEF FinishLocks, Return, waiting
<1>8. TypeOK'
  <2>1. /\ caught' \subseteq Tasks /\ signalled' \subseteq Tasks /\ registered' \subseteq Tasks
        /\ waiter' \subseteq Tasks
    BY <1>1 DEF FinishLocks, Return, waiting, TypeOK
  <2>2. status' = status /\ box' = box /\ count' = count /\ open' = open
          /\ remote' = remote /\ crashes' = crashes
    BY DEF FinishLocks, outside, service
  <2>3. QED BY <1>1, <1>5, <1>6, <2>1, <2>2 DEF TypeOK, ProcRec
<1>9. \A u \in Tasks : u # t => TaskOk(u)' /\ (u \in Holding' <=> u \in Holding)
  BY <1>5, <1>6, OthersKeep DEF TaskOk
<1>10. PhaseOf(t)'
  BY <1>2, <1>3, <1>4, <1>5, <1>6, <1>7, Values
  DEF PhaseOf, At, StartPhases, FinishPhases, Active, Terminal, Unfinished
<1>11. LockedBy(t)'
  BY <1>2, <1>3, <1>4, <1>5, <1>6, <1>7, Values
  DEF LockedBy, At, LockOf, FinishPhases, Terminal
<1>12. FollowedUp(t)'
  BY <1>2, <1>3, <1>4, <1>5, <1>6, <1>7, Values
  DEF FollowedUp, At, Followed, FinishPhases, Active, Terminal, Unfinished
<1>13. WorkerEnds(t)'
  BY <1>2, <1>3, <1>4, <1>5, <1>6, <1>7, Values DEF WorkerEnds, At, Followed, Terminal
<1>14. FinishIsLocked => AloneIn(t)'
  <2>1. FinishIsLocked =>
          \A q, s \in Procs : At(t, q)' \in Critical /\ At(t, s)' \in Critical => q = s
    BY <1>2, <1>3, <1>4, <1>5, <1>7, Values
    DEF At, Free, AloneIn, PhaseOf, LockedBy, FollowedUp, FinishIsLocked, WorkPhases, Critical
  <2>2. FinishIsLocked =>
          /\ \A q \in Procs : At(t, q)' = "write" => status'[t] \in Unfinished
          /\ \A q \in Procs \ {"start"} : At(t, q)' \in {"write", "save"} => status'[t] = "RUNNING"
          /\ \A q \in Procs : At(t, q)' = "release" => status'[t] \in Terminal
          /\ At(t, "start")' \in FinishPhases /\ status'[t] = "RUNNING" => t \in registered'
          /\ At(t, "start")' = "release" => t \in registered'
    BY <1>2, <1>3, <1>4, <1>5, <1>7, Values
    DEF At, AloneIn, PhaseOf, WorkPhases, FinishPhases, Unfinished
  <2>3. QED BY <2>1, <2>2 DEF AloneIn
<1>15. FinishIsLocked => BoxInv' /\ ExactInv'
  <2> SUFFICES ASSUME FinishIsLocked PROVE BoxInv' /\ ExactInv' OBVIOUS
  <2>1. Holding' = Holding
    <3>1. t \in Holding' <=> t \in Holding
      BY <1>2, <1>3, <1>4, <1>5, <1>7 DEF Holding, PhaseOf, At, Terminal, Unfinished, Critical
    <3>2. QED BY <1>9, <3>1 DEF Holding
  <2>2. box' = box /\ open' = open /\ count' = count BY DEF FinishLocks, outside
  <2>3. QED BY <1>1, <1>2, <1>6, <2>1, <2>2, BoxesKept
<1>16. QED
  BY <1>6, <1>8, <1>9, <1>10, <1>11, <1>12, <1>13, <1>14, <1>15
  DEF TaskIInv, TaskOk, FinishIsLocked

\* The end is written once; the protection is held until the release.
LEMMA FinishWritesKeeps ==
  ASSUME TaskIInv, NEW t \in Tasks, NEW p \in Procs, FinishWrites(t, p)
  PROVE  TaskIInv'
<1>1. TypeOK /\ proc \in [Tasks -> [Procs -> ProcRec]] /\ p \in Procs
  BY ProcsTyped, Values DEF TaskIInv
<1>2. /\ PhaseOf(t) /\ LockedBy(t) /\ FollowedUp(t) /\ WorkerEnds(t)
      /\ FinishIsLocked => AloneIn(t) /\ BoxInv /\ ExactInv
  BY DEF TaskIInv, TaskOk
<1>3. status[t] \in Terminal \cup Unfinished \cup {"none"} BY <1>1 DEF TypeOK, Statuses
<1>4. PICK r \in ProcRec : /\ proc' = Put(proc, t, p, r)
                           /\ \/ /\ r.at = "release" /\ r.due = proc[t][p].due
                                      /\ r.lock = proc[t][p].lock
                                 /\ Releases(t, p)
                              \/ /\ r.at # "release" /\ ~Releases(t, p)
                                 /\ \/ p = "start" /\ r.at = "failed"
                                    \/ p = "work" /\ r.at = "ended"
                                    \/ p \in Killers /\ r.at = "none"
                                    \/ p \in Killers /\ r.at = "lock" /\ r.due = "KILLED"
                                         /\ r.lock = LockOf(t)
  <2>1. CASE Releases(t, p)
    <3>1. Goes(t, p, "release") BY <2>1 DEF FinishWrites
    <3>2. QED BY <1>1, <2>1, <3>1, GoesPuts DEF Phases, FinishPhases
  <2>2. CASE ~Releases(t, p)
    <3>1. Return(t, p, FALSE) BY <2>2 DEF FinishWrites
    <3>2. QED BY <1>1, <2>2, <3>1, ReturnPuts
  <2>3. QED BY <2>1, <2>2
<1>5. /\ proc' \in [Tasks -> [Procs -> ProcRec]] /\ proc'[t][p] = r
      /\ \A q \in Procs : q # p => proc'[t][q] = proc[t][q]
      /\ \A u \in Tasks : u # t => proc'[u] = proc[u]
  <2>1. proc' = Put(proc, t, p, r) BY <1>4
  <2>2. QED BY <1>1, <2>1, PutMoves
<1>6. /\ \A u \in Tasks : u # t => /\ status'[u] = status[u]
                                 /\ (u \in registered' <=> u \in registered)
                                 /\ (u \in waiter' <=> u \in waiter)
      /\ serving' = serving /\ happens' = happens
  BY <1>1 DEF FinishWrites, Return, waiting, service
<1>7. /\ At(t, p) = "write" /\ status'[t] \in Terminal /\ waiter' = waiter
      /\ registered' \in {registered, registered \ {t}}
      /\ registered' # registered => p = "start" /\ r.at # "release"
      /\ r.at = "release" /\ p = "start" => t \in registered
      /\ p = "start" /\ r.at # "release" => t \notin registered'
      /\ FinishIsLocked /\ (t \in registered \/ status[t] = "RUNNING") /\
           (p = "start" => t \in registered)
        => r.at = "release"
  <2>1. /\ At(t, p) = "write" /\ waiter' = waiter
        /\ registered' \in {registered, registered \ {t}}
        /\ registered' # registered => p = "start" /\ ~Releases(t, p)
        /\ p = "start" /\ ~Releases(t, p) => t \notin registered'
    BY Values DEF FinishWrites, Return, waiting
  <2>2. status'[t] \in Terminal
    <3>1. status'[t] = proc[t][p].due BY <1>1 DEF FinishWrites, TypeOK
    <3>2. QED BY <1>1, <1>2, <2>1, <3>1 DEF LockedBy, FinishPhases
  <2>3. FinishIsLocked /\ (t \in registered \/ status[t] = "RUNNING") => box[t] # NoBox
    BY <1>1, <1>2, NoBoxAssumption DEF BoxInv, Holding, TypeOK
  <2>4. QED BY <1>4, <2>1, <2>2, <2>3 DEF Releases
<1>8. TypeOK'
  <2>1. /\ caught' \subseteq Tasks /\ signalled' \subseteq Tasks /\ registered' \subseteq Tasks
        /\ waiter' \subseteq Tasks
    BY <1>1 DEF FinishWrites, Return, waiting, TypeOK
  <2>2. box' = box /\ count' = count /\ open' = open /\ remote' = remote /\ crashes' = crashes
    BY DEF FinishWrites, outside, service
  <2>3. status' \in [Tasks -> Statuses]
    <3>1. proc[t][p].due \in Statuses BY <1>1 DEF ProcRec
    <3>2. QED BY <1>1, <3>1 DEF FinishWrites, TypeOK
  <2>4. QED BY <1>1, <1>5, <1>6, <2>1, <2>2, <2>3 DEF TypeOK, ProcRec
<1>9. \A u \in Tasks : u # t => TaskOk(u)' /\ (u \in Holding' <=> u \in Holding)
  BY <1>5, <1>6, OthersKeep DEF TaskOk
<1>10. PhaseOf(t)'
  BY <1>2, <1>3, <1>4, <1>5, <1>6, <1>7, Values
  DEF PhaseOf, At, StartPhases, FinishPhases, Active, Terminal
<1>11. LockedBy(t)'
  BY <1>2, <1>3, <1>4, <1>5, <1>6, <1>7, Values
  DEF LockedBy, At, LockOf, FinishPhases, Terminal
<1>12. FollowedUp(t)'
  BY <1>2, <1>3, <1>4, <1>5, <1>6, <1>7 DEF FollowedUp, Terminal, Unfinished
<1>13. WorkerEnds(t)'
  BY <1>2, <1>3, <1>4, <1>5, <1>6, <1>7, Values
  DEF WorkerEnds, At, PhaseOf, FinishIsLocked, Followed
<1>14. FinishIsLocked => AloneIn(t)'
  <2>1. FinishIsLocked =>
          \A q, s \in Procs : At(t, q)' \in Critical /\ At(t, s)' \in Critical => q = s
    BY <1>2, <1>3, <1>4, <1>5, <1>7 DEF At, AloneIn, Critical
  <2>2. FinishIsLocked =>
          /\ \A q \in Procs : At(t, q)' = "write" => status'[t] \in Unfinished
          /\ \A q \in Procs \ {"start"} : At(t, q)' \in {"write", "save"} => status'[t] = "RUNNING"
          /\ \A q \in Procs : At(t, q)' = "release" => status'[t] \in Terminal
          /\ At(t, "start")' \in FinishPhases /\ status'[t] = "RUNNING" => t \in registered'
          /\ At(t, "start")' = "release" => t \in registered'
    BY <1>2, <1>3, <1>4, <1>5, <1>7, Values DEF At, AloneIn, FinishPhases, Active, Critical
  <2>3. QED BY <2>1, <2>2 DEF AloneIn
<1>15. FinishIsLocked => BoxInv' /\ ExactInv'
  <2> SUFFICES ASSUME FinishIsLocked PROVE BoxInv' /\ ExactInv' OBVIOUS
  <2>1. Holding' = Holding
    <3>1. t \in Holding' <=> t \in Holding
      BY <1>2, <1>3, <1>4, <1>5, <1>7 DEF Holding, AloneIn, At, FinishPhases, Terminal
    <3>2. QED BY <1>9, <3>1 DEF Holding
  <2>2. box' = box /\ open' = open /\ count' = count BY DEF FinishWrites, outside
  <2>3. QED BY <1>1, <1>2, <1>6, <2>1, <2>2, BoxesKept
<1>16. QED
  BY <1>6, <1>8, <1>9, <1>10, <1>11, <1>12, <1>13, <1>14, <1>15
  DEF TaskIInv, TaskOk, FinishIsLocked

\* The release takes off the protection that the task held, and no other.
LEMMA FinishReleasesKeeps ==
  ASSUME TaskIInv, NEW t \in Tasks, NEW p \in Procs, FinishReleases(t, p)
  PROVE  TaskIInv'
<1>1. TypeOK /\ proc \in [Tasks -> [Procs -> ProcRec]] /\ p \in Procs
  BY ProcsTyped, Values DEF TaskIInv
<1>2. /\ PhaseOf(t) /\ LockedBy(t) /\ FollowedUp(t) /\ WorkerEnds(t)
      /\ FinishIsLocked => AloneIn(t) /\ BoxInv /\ ExactInv
  BY DEF TaskIInv, TaskOk
<1>3. status[t] \in Terminal \cup Unfinished \cup {"none"} BY <1>1 DEF TypeOK, Statuses
<1>4. PICK r \in ProcRec : /\ proc' = Put(proc, t, p, r)
                           /\ \/ p = "start" /\ r.at = "failed"
                              \/ p = "work" /\ r.at = "ended"
                              \/ p \in Killers /\ r.at = "none"
                              \/ p \in Killers /\ r.at = "lock" /\ r.due = "KILLED"
                                   /\ r.lock = LockOf(t)
  BY <1>1, ReturnPuts DEF FinishReleases
<1>5. /\ proc' \in [Tasks -> [Procs -> ProcRec]] /\ proc'[t][p] = r
      /\ \A q \in Procs : q # p => proc'[t][q] = proc[t][q]
      /\ \A u \in Tasks : u # t => proc'[u] = proc[u]
  <2>1. proc' = Put(proc, t, p, r) BY <1>4
  <2>2. QED BY <1>1, <2>1, PutMoves
<1>6. /\ \A u \in Tasks : u # t => /\ status'[u] = status[u]
                                 /\ (u \in registered' <=> u \in registered)
                                 /\ (u \in waiter' <=> u \in waiter)
      /\ serving' = serving /\ happens' = happens
  <2>1. status' = status /\ serving' = serving /\ happens' = happens
    BY DEF FinishReleases, service
  <2>2. registered' \in {registered, registered \ {t}} /\ waiter' \in {waiter, waiter \ {t}}
    BY DEF FinishReleases, Return
  <2>3. QED BY <2>1, <2>2
<1>7. /\ At(t, p) = "release" /\ status'[t] = status[t]
      /\ Followed(t) => t \notin waiter'
      /\ waiter' \subseteq waiter
      /\ registered' \in {registered, registered \ {t}}
      /\ registered' # registered => p = "start"
      /\ p = "start" => t \notin registered'
  <2>1. At(t, p) = "release" /\ status'[t] = status[t] BY DEF FinishReleases
  <2>2. (Followed(t) => t \notin waiter') /\ waiter' \subseteq waiter
    BY DEF FinishReleases, Return
  <2>3. /\ registered' \in {registered, registered \ {t}}
        /\ registered' # registered => p = "start"
        /\ p = "start" => t \notin registered'
    BY DEF FinishReleases, Return
  <2>4. QED BY <2>1, <2>2, <2>3
<1>8. TypeOK'
  <2>1. /\ caught' \subseteq Tasks /\ signalled' \subseteq Tasks /\ registered' \subseteq Tasks
        /\ waiter' \subseteq Tasks
    BY <1>1 DEF FinishReleases, Return, TypeOK
  <2>2. status' = status /\ box' = box /\ open' = open /\ remote' = remote /\ crashes' = crashes
    BY DEF FinishReleases, outside, service
  <2>3. count' \in [Boxes -> Nat] BY <1>1, UnregisterCounts DEF FinishReleases
  <2>4. QED BY <1>1, <1>5, <1>6, <2>1, <2>2, <2>3 DEF TypeOK, ProcRec
<1>9. \A u \in Tasks : u # t => TaskOk(u)' /\ (u \in Holding' <=> u \in Holding)
  BY <1>5, <1>6, OthersKeep DEF TaskOk
<1>10. PhaseOf(t)'
  BY <1>2, <1>3, <1>4, <1>5, <1>6, <1>7, Values DEF PhaseOf, At, StartPhases, FinishPhases
<1>11. LockedBy(t)'
  BY <1>2, <1>3, <1>4, <1>5, <1>6, <1>7, Values
  DEF LockedBy, At, LockOf, FinishPhases, Terminal
<1>12. FollowedUp(t)'
  BY <1>2, <1>3, <1>4, <1>5, <1>6, <1>7
  DEF FollowedUp, AloneIn, FinishIsLocked, Terminal, Unfinished
<1>13. WorkerEnds(t)'
  BY <1>2, <1>3, <1>4, <1>5, <1>6, <1>7, Values DEF WorkerEnds, At
<1>14. FinishIsLocked => AloneIn(t)'
  <2>1. FinishIsLocked =>
          \A q, s \in Procs : At(t, q)' \in Critical /\ At(t, s)' \in Critical => q = s
    BY <1>2, <1>3, <1>4, <1>5, <1>7 DEF At, AloneIn, Critical
  <2>2. FinishIsLocked =>
          /\ \A q \in Procs : At(t, q)' = "write" => status'[t] \in Unfinished
          /\ \A q \in Procs \ {"start"} : At(t, q)' \in {"write", "save"} => status'[t] = "RUNNING"
          /\ \A q \in Procs : At(t, q)' = "release" => status'[t] \in Terminal
          /\ At(t, "start")' \in FinishPhases /\ status'[t] = "RUNNING" => t \in registered'
          /\ At(t, "start")' = "release" => t \in registered'
    BY <1>2, <1>3, <1>4, <1>5, <1>7, Values DEF At, AloneIn, FinishPhases
  <2>3. QED BY <2>1, <2>2 DEF AloneIn
<1>15. FinishIsLocked => BoxInv' /\ ExactInv'
  <2> SUFFICES ASSUME FinishIsLocked PROVE BoxInv' /\ ExactInv' OBVIOUS
  <2>1. \A u \in Tasks : u # t => (u \in Holding' <=> u \in Holding) BY <1>9
  <2>2. t \in Holding BY <1>7 DEF Holding
  <2>3. t \notin Holding'
    BY <1>2, <1>3, <1>4, <1>5, <1>7
    DEF Holding, PhaseOf, AloneIn, At, FinishPhases, Terminal, Critical
  <2>4. Holding' = Holding \ {t} BY <2>1, <2>2, <2>3 DEF Holding
  <2>5. box' = box /\ open' = open /\ Unregister(t) BY DEF FinishReleases, outside
  <2>6. QED BY <1>1, <1>2, <1>6, <2>2, <2>4, <2>5, BoxesDrop
<1>16. QED
  BY <1>6, <1>8, <1>9, <1>10, <1>11, <1>12, <1>13, <1>14, <1>15
  DEF TaskIInv, TaskOk, FinishIsLocked

\* A failed save leaves the task to the except of the worker, or as it was.
LEMMA FinishFailsKeeps ==
  ASSUME TaskIInv, NEW t \in Tasks, NEW p \in Procs, FinishFails(t, p)
  PROVE  TaskIInv'
<1>1. TypeOK /\ proc \in [Tasks -> [Procs -> ProcRec]] /\ p \in Procs
  BY ProcsTyped, Values DEF TaskIInv
<1>2. /\ PhaseOf(t) /\ LockedBy(t) /\ FollowedUp(t) /\ WorkerEnds(t)
      /\ FinishIsLocked => AloneIn(t) /\ BoxInv /\ ExactInv
  BY DEF TaskIInv, TaskOk
<1>3. status[t] \in Terminal \cup Unfinished \cup {"none"} BY <1>1 DEF TypeOK, Statuses
<1>4. PICK r \in ProcRec : /\ proc' = Put(proc, t, p, r)
                           /\ \/ p = "start" /\ r.at = "failed"
                              \/ p = "work" /\ r.at = "ended"
                              \/ p = "work" /\ r.at = "lock" /\ r.due = "LOST" /\ r.lock = LockOf(t)
                              \/ p \in Killers /\ r.at = "none"
  <2>1. CASE p = "work" /\ t \notin caught
    <3>1. CallFinish(t, p, "LOST") BY <2>1 DEF FinishFails
    <3>2. QED BY <1>1, <2>1, <3>1, CallPuts DEF Terminal
  <2>2. CASE p \in Killers
    <3>1. proc' = [proc EXCEPT ![t][p] = Idle] BY <2>2, Values DEF FinishFails
    <3>2. Idle \in ProcRec /\ Idle.at = "none" BY DEF ProcRec, Idle, Phases, Statuses
    <3>3. proc' = Put(proc, t, p, Idle) BY <3>1 DEF Put
    <3>4. QED BY <2>2, <3>2, <3>3
  <2>3. CASE p \notin Killers /\ ~(p = "work" /\ t \notin caught)
    <3>1. Return(t, p, FALSE) BY <2>3 DEF FinishFails
    <3>2. QED BY <1>1, <2>3, <3>1, ReturnPuts
  <2>4. QED BY <2>1, <2>2, <2>3
<1>5. /\ proc' \in [Tasks -> [Procs -> ProcRec]] /\ proc'[t][p] = r
      /\ \A q \in Procs : q # p => proc'[t][q] = proc[t][q]
      /\ \A u \in Tasks : u # t => proc'[u] = proc[u]
  <2>1. proc' = Put(proc, t, p, r) BY <1>4
  <2>2. QED BY <1>1, <2>1, PutMoves
<1>6. /\ \A u \in Tasks : u # t => /\ status'[u] = status[u]
                                 /\ (u \in registered' <=> u \in registered)
                                 /\ (u \in waiter' <=> u \in waiter)
      /\ serving' = serving /\ happens' = happens
  <2>1. \A u \in Tasks : u # t => status'[u] = status[u] BY <1>1 DEF FinishFails, TypeOK
  <2>2. registered' \in {registered, registered \ {t}} /\ waiter' = waiter
    BY DEF FinishFails, Return, waiting
  <2>3. serving' = serving /\ happens' = happens BY DEF FinishFails, service
  <2>4. QED BY <2>1, <2>2, <2>3
<1>7. /\ At(t, p) \in FinishPhases /\ "mongo_fails" \in happens
      /\ status'[t] \in {status[t], proc[t][p].due}
      /\ status'[t] # status[t] => At(t, p) = "write"
      /\ registered' \in {registered, registered \ {t}} /\ waiter' = waiter
      /\ p # "start" => registered' = registered
      /\ p = "start" => t \notin registered'
  <2>1. /\ status'[t] \in {status[t], proc[t][p].due}
        /\ status'[t] # status[t] => At(t, p) = "write"
    BY <1>1 DEF FinishFails, TypeOK
  <2>2. At(t, p) \in FinishPhases BY DEF FinishFails, FinishPhases
  <2>3. registered' \in {registered, registered \ {t}} /\ waiter' = waiter
    BY DEF FinishFails, Return, waiting
  <2>4. /\ p # "start" => registered' = registered
        /\ p = "start" => t \notin registered'
    BY Values DEF FinishFails, Return
  <2>5. "mongo_fails" \in happens BY DEF FinishFails
  <2>6. QED BY <2>1, <2>2, <2>3, <2>4, <2>5
<1>8. TypeOK'
  <2>1. status' \in [Tasks -> Statuses]
    <3>1. proc[t][p].due \in Statuses BY <1>1 DEF ProcRec
    <3>2. QED BY <1>1, <3>1 DEF FinishFails, TypeOK
  <2>2. count' \in [Boxes -> Nat]
    <3>1. CASE UNCHANGED count BY <1>1, <3>1 DEF TypeOK
    <3>2. CASE Unregister(t) BY <1>1, <3>2, UnregisterCounts
    <3>3. QED BY <3>1, <3>2 DEF FinishFails
  <2>3. /\ registered' \subseteq Tasks /\ caught' \subseteq Tasks
        /\ waiter' \subseteq Tasks /\ signalled' \subseteq Tasks
    BY <1>1 DEF FinishFails, Return, waiting, TypeOK
  <2>4. box' = box /\ open' = open /\ remote' = remote /\ crashes' = crashes
    BY DEF FinishFails, outside, service
  <2>5. QED BY <1>1, <1>5, <1>6, <2>1, <2>2, <2>3, <2>4 DEF TypeOK, ProcRec
<1>9. \A u \in Tasks : u # t => TaskOk(u)' /\ (u \in Holding' <=> u \in Holding)
  BY <1>5, <1>6, OthersKeep DEF TaskOk
<1>10. PhaseOf(t)'
  BY <1>2, <1>3, <1>4, <1>5, <1>6, <1>7, Values
  DEF PhaseOf, At, LockedBy, StartPhases, FinishPhases, Terminal
<1>11. LockedBy(t)'
  BY <1>2, <1>3, <1>4, <1>5, <1>6, <1>7, Values
  DEF LockedBy, At, LockOf, FinishPhases, Terminal
<1>12. FollowedUp(t)'
  BY <1>2, <1>3, <1>4, <1>5, <1>6, <1>7 DEF FollowedUp
<1>13. WorkerEnds(t)'
  BY <1>2, <1>3, <1>4, <1>5, <1>6, <1>7 DEF WorkerEnds
<1>14. FinishIsLocked => AloneIn(t)'
  <2>1. FinishIsLocked =>
          \A q, s \in Procs : At(t, q)' \in Critical /\ At(t, s)' \in Critical => q = s
    BY <1>2, <1>3, <1>4, <1>5, <1>7 DEF At, AloneIn, Critical
  <2>2. FinishIsLocked =>
          /\ \A q \in Procs : At(t, q)' = "write" => status'[t] \in Unfinished
          /\ \A q \in Procs \ {"start"} : At(t, q)' \in {"write", "save"} => status'[t] = "RUNNING"
          /\ \A q \in Procs : At(t, q)' = "release" => status'[t] \in Terminal
          /\ At(t, "start")' \in FinishPhases /\ status'[t] = "RUNNING" => t \in registered'
          /\ At(t, "start")' = "release" => t \in registered'
    BY <1>2, <1>3, <1>4, <1>5, <1>7, Values DEF At, AloneIn, FinishPhases, Critical
  <2>3. QED BY <2>1, <2>2 DEF AloneIn
<1>15. FinishIsLocked => BoxInv' /\ ExactInv'
  <2> SUFFICES ASSUME FinishIsLocked PROVE BoxInv' /\ ExactInv' OBVIOUS
  <2>1. \A u \in Tasks : u # t => (u \in Holding' <=> u \in Holding) BY <1>9
  <2>2. t \in Holding' => t \in Holding
    BY <1>2, <1>3, <1>4, <1>5, <1>7 DEF Holding, LockedBy, At, Terminal
  <2>3. Holding' \subseteq Holding BY <2>1, <2>2 DEF Holding
  <2>4. box' = box /\ open' = open /\ happens \cap {"mongo_fails", "cancelled"} # {}
    BY DEF FinishFails, outside
  <2>5. CASE count' = count
    <3>1. \A b \in Boxes : count[b] <= count'[b] BY <1>1, <2>5 DEF TypeOK
    <3>2. QED BY <1>1, <1>2, <1>6, <1>8, <2>3, <2>4, <3>1, BoxesShrink
  <2>6. CASE At(t, p) = "release" /\ Unregister(t)
    <3>1. t \in Holding BY <1>1, <2>6 DEF Holding
    <3>2. t \notin Holding'
      BY <1>2, <1>3, <1>4, <1>5, <1>7, <2>6
      DEF Holding, PhaseOf, AloneIn, At, FinishPhases, Terminal, Critical
    <3>3. Holding' = Holding \ {t} BY <2>1, <3>1, <3>2 DEF Holding
    <3>4. QED BY <1>1, <1>2, <1>6, <2>4, <2>6, <3>1, <3>3, BoxesDrop
  <2>7. QED BY <2>5, <2>6 DEF FinishFails
<1>16. QED
  BY <1>6, <1>8, <1>9, <1>10, <1>11, <1>12, <1>13, <1>14, <1>15
  DEF TaskIInv, TaskOk, FinishIsLocked

-----------------------------------------------------------------------------
(* kill_command.                                                            *)

\* kill_command finds a running task.
LEMMA KillKeeps ==
  ASSUME TaskIInv, NEW t \in Tasks, NEW k \in Killers, Kill(t, k)
  PROVE  TaskIInv'
<1>1. TypeOK /\ proc \in [Tasks -> [Procs -> ProcRec]] /\ k \in Procs
  BY ProcsTyped, Values DEF TaskIInv
<1>2. /\ PhaseOf(t) /\ LockedBy(t) /\ FollowedUp(t) /\ WorkerEnds(t)
      /\ FinishIsLocked => AloneIn(t) /\ BoxInv /\ ExactInv
  BY DEF TaskIInv, TaskOk
<1>3. status[t] \in Terminal \cup Unfinished \cup {"none"} BY <1>1 DEF TypeOK, Statuses
<1>4. PICK r \in ProcRec : /\ proc' = Put(proc, t, k, r)
                           /\ r.at = "send" /\ r.due = proc[t][k].due /\ r.lock = proc[t][k].lock
  BY <1>1, GoesPuts DEF Kill, Phases
<1>5. /\ proc' \in [Tasks -> [Procs -> ProcRec]] /\ proc'[t][k] = r
      /\ \A q \in Procs : q # k => proc'[t][q] = proc[t][q]
      /\ \A u \in Tasks : u # t => proc'[u] = proc[u]
  <2>1. proc' = Put(proc, t, k, r) BY <1>4
  <2>2. QED BY <1>1, <2>1, PutMoves
<1>6. /\ \A u \in Tasks : u # t => /\ status'[u] = status[u]
                                 /\ (u \in registered' <=> u \in registered)
                                 /\ (u \in waiter' <=> u \in waiter)
      /\ serving' = serving /\ happens' = happens
  BY <1>1 DEF Kill, waiting, service
<1>7. /\ status'[t] = status[t]
      /\ registered' = registered /\ waiter' = waiter
      /\ At(t, k) = "none"
      /\ At(t, "start") = "done" /\ serving
      /\ "kill" \in happens
      /\ status[t] \notin Terminal
  BY <1>1 DEF Kill, TypeOK, waiting
<1>8. TypeOK'
  BY <1>1, <1>5 DEF Kill, TypeOK, ProcRec, waiting, outside, service
<1>9. \A u \in Tasks : u # t => TaskOk(u)' /\ (u \in Holding' <=> u \in Holding)
  BY <1>5, <1>6, OthersKeep DEF TaskOk
<1>10. PhaseOf(t)'
  BY <1>2, <1>3, <1>4, <1>5, <1>6, <1>7, Values DEF PhaseOf, At
<1>11. LockedBy(t)'
  BY <1>2, <1>3, <1>4, <1>5, <1>6, <1>7, Values DEF LockedBy, At, FinishPhases
<1>12. FollowedUp(t)'
  BY <1>2, <1>3, <1>4, <1>5, <1>6, <1>7, Values DEF FollowedUp, At, Followed
<1>13. WorkerEnds(t)'
  BY <1>2, <1>3, <1>4, <1>5, <1>6, <1>7 DEF WorkerEnds
<1>14. FinishIsLocked => AloneIn(t)'
  <2>1. FinishIsLocked =>
          \A q, s \in Procs : At(t, q)' \in Critical /\ At(t, s)' \in Critical => q = s
    BY <1>2, <1>3, <1>4, <1>5, <1>7 DEF At, AloneIn, Critical
  <2>2. FinishIsLocked =>
          /\ \A q \in Procs : At(t, q)' = "write" => status'[t] \in Unfinished
          /\ \A q \in Procs \ {"start"} : At(t, q)' \in {"write", "save"} => status'[t] = "RUNNING"
          /\ \A q \in Procs : At(t, q)' = "release" => status'[t] \in Terminal
          /\ At(t, "start")' \in FinishPhases /\ status'[t] = "RUNNING" => t \in registered'
          /\ At(t, "start")' = "release" => t \in registered'
    BY <1>2, <1>3, <1>4, <1>5, <1>7, Values DEF At, AloneIn
  <2>3. QED BY <2>1, <2>2 DEF AloneIn
<1>15. FinishIsLocked => BoxInv' /\ ExactInv'
  <2> SUFFICES ASSUME FinishIsLocked PROVE BoxInv' /\ ExactInv' OBVIOUS
  <2>1. Holding' = Holding
    <3>1. t \in Holding' <=> t \in Holding
      BY <1>2, <1>3, <1>4, <1>5, <1>7 DEF Holding, At
    <3>2. QED BY <1>9, <3>1 DEF Holding
  <2>2. \A s \in Holding : box'[s] = box[s] BY DEF Kill
  <2>3. open' = open /\ count' = count BY DEF Kill, outside
  <2>4. QED BY <1>1, <1>2, <1>6, <2>1, <2>2, <2>3, BoxesKept
<1>16. QED
  BY <1>6, <1>8, <1>9, <1>10, <1>11, <1>12, <1>13, <1>14, <1>15
  DEF TaskIInv, TaskOk, FinishIsLocked

\* After the kill was sent, the call turns to _finish with the lock of the worker.
LEMMA SendKeeps ==
  ASSUME TaskIInv, NEW t \in Tasks, NEW k \in Killers, Send(t, k)
  PROVE  TaskIInv'
<1>1. TypeOK /\ proc \in [Tasks -> [Procs -> ProcRec]] /\ k \in Procs
  BY ProcsTyped, Values DEF TaskIInv
<1>2. /\ PhaseOf(t) /\ LockedBy(t) /\ FollowedUp(t) /\ WorkerEnds(t)
      /\ FinishIsLocked => AloneIn(t) /\ BoxInv /\ ExactInv
  BY DEF TaskIInv, TaskOk
<1>3. status[t] \in Terminal \cup Unfinished \cup {"none"} BY <1>1 DEF TypeOK, Statuses
<1>4. PICK r \in ProcRec : /\ proc' = Put(proc, t, k, r)
                           /\ r.at = "lock" /\ r.due \in {"KILLED", "LOST"} /\ r.lock = LockOf(t)
  BY <1>1, CallPuts DEF Send, Terminal
<1>5. /\ proc' \in [Tasks -> [Procs -> ProcRec]] /\ proc'[t][k] = r
      /\ \A q \in Procs : q # k => proc'[t][q] = proc[t][q]
      /\ \A u \in Tasks : u # t => proc'[u] = proc[u]
  <2>1. proc' = Put(proc, t, k, r) BY <1>4
  <2>2. QED BY <1>1, <2>1, PutMoves
<1>6. /\ \A u \in Tasks : u # t => /\ status'[u] = status[u]
                                 /\ (u \in registered' <=> u \in registered)
                                 /\ (u \in waiter' <=> u \in waiter)
      /\ serving' = serving /\ happens' = happens
  BY <1>1 DEF Send, waiting, service
<1>7. /\ status'[t] = status[t]
      /\ registered' = registered /\ waiter' = waiter
      /\ At(t, k) = "send"
  BY <1>1 DEF Send, TypeOK, waiting
<1>8. TypeOK'
  BY <1>1, <1>5 DEF Send, TypeOK, ProcRec, waiting, outside, service
<1>9. \A u \in Tasks : u # t => TaskOk(u)' /\ (u \in Holding' <=> u \in Holding)
  BY <1>5, <1>6, OthersKeep DEF TaskOk
<1>10. PhaseOf(t)'
  BY <1>2, <1>3, <1>4, <1>5, <1>6, <1>7, Values DEF PhaseOf, At, FinishPhases
<1>11. LockedBy(t)'
  BY <1>2, <1>3, <1>4, <1>5, <1>6, <1>7, Values DEF LockedBy, At, LockOf, Terminal
<1>12. FollowedUp(t)'
  BY <1>2, <1>3, <1>4, <1>5, <1>6, <1>7, Values DEF FollowedUp, At, Followed
<1>13. WorkerEnds(t)'
  BY <1>2, <1>3, <1>4, <1>5, <1>6, <1>7 DEF WorkerEnds
<1>14. FinishIsLocked => AloneIn(t)'
  <2>1. FinishIsLocked =>
          \A q, s \in Procs : At(t, q)' \in Critical /\ At(t, s)' \in Critical => q = s
    BY <1>2, <1>3, <1>4, <1>5, <1>7 DEF At, AloneIn, Critical
  <2>2. FinishIsLocked =>
          /\ \A q \in Procs : At(t, q)' = "write" => status'[t] \in Unfinished
          /\ \A q \in Procs \ {"start"} : At(t, q)' \in {"write", "save"} => status'[t] = "RUNNING"
          /\ \A q \in Procs : At(t, q)' = "release" => status'[t] \in Terminal
          /\ At(t, "start")' \in FinishPhases /\ status'[t] = "RUNNING" => t \in registered'
          /\ At(t, "start")' = "release" => t \in registered'
    BY <1>2, <1>3, <1>4, <1>5, <1>7, Values DEF At, AloneIn
  <2>3. QED BY <2>1, <2>2 DEF AloneIn
<1>15. FinishIsLocked => BoxInv' /\ ExactInv'
  <2> SUFFICES ASSUME FinishIsLocked PROVE BoxInv' /\ ExactInv' OBVIOUS
  <2>1. Holding' = Holding
    <3>1. t \in Holding' <=> t \in Holding
      BY <1>2, <1>3, <1>4, <1>5, <1>7 DEF Holding, At
    <3>2. QED BY <1>9, <3>1 DEF Holding
  <2>2. \A s \in Holding : box'[s] = box[s] BY DEF Send
  <2>3. open' = open /\ count' = count BY DEF Send, outside
  <2>4. QED BY <1>1, <1>2, <1>6, <2>1, <2>2, <2>3, BoxesKept
<1>16. QED
  BY <1>6, <1>8, <1>9, <1>10, <1>11, <1>12, <1>13, <1>14, <1>15
  DEF TaskIInv, TaskOk, FinishIsLocked

\* A kill call that is cancelled leaves the task to its worker.
LEMMA KillCancelledKeeps ==
  ASSUME TaskIInv, NEW t \in Tasks, NEW k \in Killers, KillCancelled(t, k)
  PROVE  TaskIInv'
<1>1. TypeOK /\ proc \in [Tasks -> [Procs -> ProcRec]] /\ k \in Procs
  BY ProcsTyped, Values DEF TaskIInv
<1>2. /\ PhaseOf(t) /\ LockedBy(t) /\ FollowedUp(t) /\ WorkerEnds(t)
      /\ FinishIsLocked => AloneIn(t) /\ BoxInv /\ ExactInv
  BY DEF TaskIInv, TaskOk
<1>3. status[t] \in Terminal \cup Unfinished \cup {"none"} BY <1>1 DEF TypeOK, Statuses
<1>4. PICK r \in ProcRec : /\ proc' = Put(proc, t, k, r)
                           /\ r.at = "none"
  <2>1. Idle \in ProcRec /\ Idle.at = "none" BY DEF ProcRec, Idle, Phases, Statuses
  <2>2. proc' = Put(proc, t, k, Idle) BY DEF KillCancelled, Put
  <2>3. QED BY <2>1, <2>2
<1>5. /\ proc' \in [Tasks -> [Procs -> ProcRec]] /\ proc'[t][k] = r
      /\ \A q \in Procs : q # k => proc'[t][q] = proc[t][q]
      /\ \A u \in Tasks : u # t => proc'[u] = proc[u]
  <2>1. proc' = Put(proc, t, k, r) BY <1>4
  <2>2. QED BY <1>1, <2>1, PutMoves
<1>6. /\ \A u \in Tasks : u # t => /\ status'[u] = status[u]
                                 /\ (u \in registered' <=> u \in registered)
                                 /\ (u \in waiter' <=> u \in waiter)
      /\ serving' = serving /\ happens' = happens
  BY <1>1 DEF KillCancelled, TypeOK, waiting, service
<1>7. /\ At(t, k) # "none"
      /\ status'[t] \in {status[t], proc[t][k].due}
      /\ status'[t] # status[t] => At(t, k) = "write"
      /\ registered' = registered /\ waiter' = waiter
  <2>1. /\ status'[t] \in {status[t], proc[t][k].due}
        /\ status'[t] # status[t] => At(t, k) = "write"
    BY <1>1 DEF KillCancelled, TypeOK
  <2>2. QED BY <2>1 DEF KillCancelled, waiting
<1>8. TypeOK'
  <2>1. status' \in [Tasks -> Statuses]
    <3>1. proc[t][k].due \in Statuses BY <1>1 DEF ProcRec
    <3>2. QED BY <1>1, <3>1 DEF KillCancelled, TypeOK
  <2>2. count' \in [Boxes -> Nat]
    <3>1. CASE UNCHANGED count BY <1>1, <3>1 DEF TypeOK
    <3>2. CASE Unregister(t) BY <1>1, <3>2, UnregisterCounts
    <3>3. QED BY <3>1, <3>2 DEF KillCancelled
  <2>3. QED
    BY <1>1, <1>5, <1>6, <2>1, <2>2
    DEF KillCancelled, TypeOK, ProcRec, waiting, outside, service
<1>9. \A u \in Tasks : u # t => TaskOk(u)' /\ (u \in Holding' <=> u \in Holding)
  BY <1>5, <1>6, OthersKeep DEF TaskOk
<1>10. PhaseOf(t)'
  BY <1>2, <1>3, <1>4, <1>5, <1>6, <1>7, Values DEF PhaseOf, At, LockedBy, Terminal
<1>11. LockedBy(t)'
  BY <1>2, <1>3, <1>4, <1>5, <1>6, <1>7, Values DEF LockedBy, At, FinishPhases
<1>12. FollowedUp(t)'
  BY <1>2, <1>3, <1>4, <1>5, <1>6, <1>7, Values
  DEF FollowedUp, At, PhaseOf, AloneIn, LockedBy, FinishIsLocked, Followed
<1>13. WorkerEnds(t)'
  BY <1>2, <1>3, <1>4, <1>5, <1>6, <1>7 DEF WorkerEnds
<1>14. FinishIsLocked => AloneIn(t)'
  <2>1. FinishIsLocked =>
          \A q, s \in Procs : At(t, q)' \in Critical /\ At(t, s)' \in Critical => q = s
    BY <1>2, <1>3, <1>4, <1>5, <1>7 DEF At, AloneIn, Critical
  <2>2. FinishIsLocked =>
          /\ \A q \in Procs : At(t, q)' = "write" => status'[t] \in Unfinished
          /\ \A q \in Procs \ {"start"} : At(t, q)' \in {"write", "save"} => status'[t] = "RUNNING"
          /\ \A q \in Procs : At(t, q)' = "release" => status'[t] \in Terminal
          /\ At(t, "start")' \in FinishPhases /\ status'[t] = "RUNNING" => t \in registered'
          /\ At(t, "start")' = "release" => t \in registered'
    BY <1>2, <1>3, <1>4, <1>5, <1>7, Values DEF At, AloneIn, Critical
  <2>3. QED BY <2>1, <2>2 DEF AloneIn
<1>15. FinishIsLocked => BoxInv' /\ ExactInv'
  <2> SUFFICES ASSUME FinishIsLocked PROVE BoxInv' /\ ExactInv' OBVIOUS
  <2>1. \A u \in Tasks : u # t => (u \in Holding' <=> u \in Holding) BY <1>9
  <2>2. t \in Holding' => t \in Holding
    BY <1>2, <1>3, <1>4, <1>5, <1>7, Values DEF Holding, AloneIn, At
  <2>3. Holding' \subseteq Holding BY <2>1, <2>2 DEF Holding
  <2>4. box' = box /\ open' = open /\ happens \cap {"mongo_fails", "cancelled"} # {}
    BY DEF KillCancelled, outside
  <2>5. CASE count' = count
    <3>1. \A b \in Boxes : count[b] <= count'[b] BY <1>1, <2>5 DEF TypeOK
    <3>2. QED BY <1>1, <1>2, <1>6, <1>8, <2>3, <2>4, <3>1, BoxesShrink
  <2>6. CASE At(t, k) = "release" /\ Unregister(t)
    <3>1. t \in Holding BY <1>1, <2>6 DEF Holding
    <3>2. t \notin Holding'
      BY <1>2, <1>3, <1>4, <1>5, <1>7, <2>6, Values
      DEF Holding, PhaseOf, AloneIn, At, FinishPhases, Terminal, Critical
    <3>3. Holding' = Holding \ {t} BY <2>1, <3>1, <3>2 DEF Holding
    <3>4. QED BY <1>1, <1>2, <1>6, <2>4, <2>6, <3>1, <3>3, BoxesDrop
  <2>7. QED BY <2>5, <2>6 DEF KillCancelled
<1>16. QED
  BY <1>6, <1>8, <1>9, <1>10, <1>11, <1>12, <1>13, <1>14, <1>15
  DEF TaskIInv, TaskOk, FinishIsLocked

-----------------------------------------------------------------------------
(* The steps that move no process, the boxes, and restarts.                 *)

\* A waiter has a worker to wake it.
LEMMA TasksKept ==
  ASSUME TaskIInv, proc' = proc, status' = status, registered' = registered,
         serving' = serving, happens' = happens,
         \A t \in waiter' : t \in waiter \/ Followed(t)
  PROVE  \A t \in Tasks : TaskOk(t)'
<1>1. \A t \in Tasks : PhaseOf(t)' /\ LockedBy(t)' /\ FollowedUp(t)'
  BY DEF TaskIInv, TaskOk, PhaseOf, LockedBy, FollowedUp, Followed, At
<1>2. \A t \in Tasks : WorkerEnds(t)'
  BY DEF TaskIInv, TaskOk, WorkerEnds, Followed, At
<1>3. FinishIsLocked => \A t \in Tasks : AloneIn(t)'
  BY DEF TaskIInv, TaskOk, AloneIn, At
<1>4. QED BY <1>1, <1>2, <1>3 DEF TaskOk, FinishIsLocked

\* What a task is followed by does not depend on what AIO and its callers do.
LEMMA StillKeeps ==
  ASSUME TaskIInv, TypeOK', proc' = proc, status' = status, registered' = registered,
         serving' = serving, happens' = happens, box' = box, open' = open, count' = count,
         \A t \in waiter' : t \in waiter \/ Followed(t)
  PROVE  TaskIInv'
<1>1. \A t \in Tasks : TaskOk(t)' BY TasksKept DEF TaskOk
<1>2. Holding' = Holding BY DEF Holding, At
<1>3. FinishIsLocked => BoxInv' /\ ExactInv' BY <1>2, BoxesKept DEF TaskIInv
<1>4. QED BY <1>1, <1>3 DEF TaskIInv, FinishIsLocked

\* Waiters come and go, and AIO ends a command.
LEMMA WaitKeeps ==
  ASSUME TaskIInv, NEW t \in Tasks, Wait(t) \/ GiveUp(t) \/ RemoteEnds(t) \/ TimePasses(t)
  PROVE  TaskIInv'
<1>1. CASE Wait(t)
  <2>1. TypeOK' BY <1>1 DEF TaskIInv, Wait, TypeOK, outside, service
  <2>2. \A u \in waiter' : u \in waiter \/ Followed(u) BY <1>1 DEF Wait
  <2>3. QED BY <1>1, <2>1, <2>2, StillKeeps DEF Wait, outside, service
<1>2. CASE GiveUp(t)
  <2>1. TypeOK' BY <1>2 DEF TaskIInv, GiveUp, TypeOK, outside, service
  <2>2. \A u \in waiter' : u \in waiter \/ Followed(u) BY <1>2 DEF GiveUp
  <2>3. QED BY <1>2, <2>1, <2>2, StillKeeps DEF GiveUp, outside, service
<1>3. CASE RemoteEnds(t)
  <2>1. TypeOK' BY <1>3 DEF TaskIInv, RemoteEnds, TypeOK, waiting, service, Remotes
  <2>2. QED BY <1>3, <2>1, StillKeeps DEF RemoteEnds, waiting, service
<1>4. CASE TimePasses(t)
  <2>1. TypeOK' BY <1>4 DEF TaskIInv, TimePasses, TypeOK, waiting, service, Remotes
  <2>2. QED BY <1>4, <2>1, StillKeeps DEF TimePasses, waiting, service
<1>5. QED BY <1>1, <1>2, <1>3, <1>4

\* A box that is taken back protects nobody.
LEMMA ClaimKeeps ==
  ASSUME TaskIInv, NEW b \in Boxes, Claim(b)
  PROVE  TaskIInv'
<1>1. TypeOK' BY DEF TaskIInv, Claim, TypeOK, waiting, service
<1>2. \A t \in Tasks : TaskOk(t)' BY TasksKept DEF TaskOk, Claim, waiting, service
<1>3. ASSUME FinishIsLocked PROVE BoxInv' /\ ExactInv'
  <2>1. BoxInv /\ ExactInv BY <1>3 DEF TaskIInv
  <2>2. Holding' = Holding BY DEF Claim, Holding, At
  <2>3. box' = box /\ count' = count /\ serving' = serving /\ happens' = happens
        /\ open' = open \ {b} /\ count[b] = 0
    BY DEF Claim, service
  <2>4. \A s \in Boxes : Held'[s] = Held[s] BY <2>2, <2>3 DEF Held
  <2>5. Held[b] = {}
    <3>1. IsFiniteSet(Held[b]) /\ Cardinality(Held[b]) <= 0 BY <2>1, <2>3 DEF BoxInv
    <3>2. Cardinality(Held[b]) = 0 BY <3>1, FS_CardinalityType
    <3>3. QED BY <3>1, <3>2, FS_EmptySet
  <2>6. \A t \in Holding : box[t] # b BY <2>5 DEF Held
  <2>7. BoxInv' BY <2>1, <2>2, <2>3, <2>4, <2>6 DEF BoxInv
  <2>8. ExactInv' BY <2>1, <2>3, <2>4 DEF ExactInv
  <2>9. QED BY <2>7, <2>8
<1>4. QED BY <1>1, <1>2, <1>3 DEF TaskIInv, Claim, service, FinishIsLocked

\* The processes are gone, and so are their protections of unfinished starts.
LEMMA StopKeeps == TaskIInv /\ Stop => TaskIInv'
<1> SUFFICES ASSUME TaskIInv, Stop PROVE TaskIInv'
  OBVIOUS
<1>1. TypeOK'
  <2>1. Idle \in ProcRec BY DEF ProcRec, Idle, Phases, Statuses
  <2>2. proc' \in [Tasks -> [Procs -> ProcRec]] BY <2>1 DEF Stop
  <2>3. crashes' \in 0..MaxCrashes BY CrashBound DEF TaskIInv, TypeOK, Stop
  <2>4. QED BY <2>2, <2>3 DEF TaskIInv, TypeOK, ProcRec, Stop, outside
<1>2. \A t \in Tasks, p \in Procs : proc'[t][p].at = "none" BY DEF Stop, Idle
<1>3. /\ status' = status /\ registered' = {} /\ waiter' = {} /\ serving' = FALSE
      /\ box' = box /\ open' = open /\ count' = count /\ happens' = happens
  BY DEF Stop, outside
<1>4. \A t \in Tasks : TaskOk(t)'
  <2>1. \A t \in Tasks : status[t] # "none" \/ status[t] = "none" OBVIOUS
  <2>2. \A t \in Tasks : PhaseOf(t)' BY <1>2, <1>3, Values DEF PhaseOf, At, StartPhases
  <2>3. \A t \in Tasks : LockedBy(t)' /\ AloneIn(t)'
    BY <1>2, <1>3, Values DEF LockedBy, AloneIn, At, FinishPhases, Critical
  <2>4. \A t \in Tasks : FollowedUp(t)' /\ WorkerEnds(t)'
    BY <1>2, <1>3, Values DEF FollowedUp, WorkerEnds, At
  <2>5. QED BY <2>2, <2>3, <2>4 DEF TaskOk
<1>5. ASSUME FinishIsLocked PROVE BoxInv' /\ ExactInv'
  <2>1. BoxInv /\ ExactInv /\ TypeOK BY <1>5 DEF TaskIInv
  <2>2. Holding' \subseteq Holding BY <1>2, <1>3 DEF Holding, At
  <2>3. BoxInv'
    <3>1. \A b \in Boxes : count[b] <= count'[b] BY <1>3, <2>1 DEF TypeOK
    <3>2. QED BY <1>1, <1>3, <2>1, <2>2, <3>1, BoxesFewer
  <2>4. ExactInv' BY <1>3, <2>1 DEF ExactInv
  <2>5. QED BY <2>3, <2>4
<1>6. QED BY <1>1, <1>3, <1>4, <1>5 DEF TaskIInv, FinishIsLocked

\* After a restart no process is left, and only tasks in the state RUNNING hold protections.
LEMMA ReconcileKeeps == TaskIInv /\ Reconcile => TaskIInv'
<1> SUFFICES ASSUME TaskIInv, Reconcile PROVE TaskIInv'
  OBVIOUS
<1>1. ASSUME NEW t \in Tasks, ReconcileTask(t) PROVE TaskIInv'
  <2>1. TypeOK' /\ TypeOK
    <3>1. status' \in [Tasks -> Statuses]
      BY <1>1 DEF TaskIInv, ReconcileTask, TypeOK, Statuses, Terminal
    <3>2. QED BY <1>1, <3>1 DEF TaskIInv, ReconcileTask, TypeOK, waiting, outside, service
  <2>2. /\ \A u \in Tasks : status'[u] \in {status[u], "LOST"} /\ (status'[u] # status[u] => u = t)
        /\ status[t] # "none"
    BY <1>1, <2>1 DEF ReconcileTask, Unfinished
  <2>3. /\ proc' = proc /\ registered' = registered /\ waiter' = waiter /\ serving' = serving
        /\ box' = box /\ open' = open /\ count' = count /\ happens' = happens /\ ~serving
    BY <1>1 DEF ReconcileTask, outside, service, waiting
  <2>4. \A u \in Tasks : u \notin registered /\ \A p \in Procs : proc[u][p].at = "none"
    BY <2>3 DEF TaskIInv, TaskOk, PhaseOf, At
  <2>5. \A u \in Tasks : TaskOk(u)'
    <3>1. \A u \in Tasks : PhaseOf(u)' BY <2>2, <2>3, <2>4, Values DEF PhaseOf, At, StartPhases
    <3>2. \A u \in Tasks : LockedBy(u)' /\ AloneIn(u)'
      BY <2>3, <2>4, Values DEF LockedBy, AloneIn, At, FinishPhases, Critical
    <3>3. \A u \in Tasks : FollowedUp(u)' /\ WorkerEnds(u)'
      BY <2>3, <2>4, Values DEF TaskIInv, TaskOk, FollowedUp, WorkerEnds, Followed, At
    <3>4. QED BY <3>1, <3>2, <3>3 DEF TaskOk
  <2>6. ASSUME FinishIsLocked PROVE BoxInv' /\ ExactInv'
    <3>1. BoxInv /\ ExactInv BY <2>6 DEF TaskIInv
    <3>2. Holding' \subseteq Holding BY <2>2, <2>3 DEF Holding, At
    <3>3. BoxInv'
      <4>1. \A b \in Boxes : count[b] <= count'[b] BY <2>1, <2>3 DEF TypeOK
      <4>2. QED BY <2>1, <2>3, <3>1, <3>2, <4>1, BoxesFewer
    <3>4. ExactInv' BY <2>3, <3>1 DEF ExactInv
    <3>5. QED BY <3>3, <3>4
  <2>7. QED BY <2>1, <2>3, <2>5, <2>6 DEF TaskIInv, FinishIsLocked
<1>2. ASSUME ~serving, \A t \in Tasks : status[t] \notin Unfinished PROVE Holding = {}
  BY <1>2 DEF TaskIInv, TaskOk, PhaseOf, Holding, Unfinished
<1>3. ASSUME NEW b \in Boxes, ReconcileBox(b) PROVE TaskIInv'
  <2>1. TypeOK'
    <3>1. count' \in [Boxes -> Nat] BY <1>3 DEF TaskIInv, ReconcileBox, TypeOK
    <3>2. QED BY <1>3, <3>1 DEF TaskIInv, ReconcileBox, TypeOK, waiting, outside, service
  <2>2. \A t \in Tasks : TaskOk(t)'
    BY <1>3, TasksKept DEF TaskOk, ReconcileBox, waiting, service
  <2>3. /\ proc' = proc /\ registered' = registered /\ status' = status /\ serving' = serving
        /\ box' = box /\ open' = open /\ happens' = happens /\ ~serving
        /\ count' = [count EXCEPT ![b] = 0]
    BY <1>3 DEF ReconcileBox, outside, service
  <2>4. Holding = {} BY <1>2, <1>3 DEF ReconcileBox
  <2>5. Holding' = {} BY <2>3, <2>4 DEF Holding, At
  <2>6. \A s \in Boxes : count'[s] \in {count[s], 0} /\ count'[s] \in Nat
    BY <2>1, <2>3 DEF TaskIInv, TypeOK
  <2>7. BoxInv'
    <3>1. \A s \in Boxes : Held'[s] = {} BY <2>5 DEF Held
    <3>2. \A s \in Boxes : IsFiniteSet(Held'[s]) /\ Cardinality(Held'[s]) <= count'[s]
      BY <2>6, <3>1, FS_EmptySet
    <3>3. QED BY <2>5, <3>2 DEF BoxInv
  <2>8. FinishIsLocked => ExactInv' BY <2>3, <2>6 DEF TaskIInv, ExactInv
  <2>9. QED BY <2>1, <2>2, <2>3, <2>7, <2>8 DEF TaskIInv, FinishIsLocked
<1>4. ASSUME Serve PROVE TaskIInv'
  <2>1. TypeOK' BY <1>4 DEF TaskIInv, Serve, TypeOK, waiting, outside
  <2>2. /\ proc' = proc /\ registered' = registered /\ status' = status /\ serving' = TRUE
        /\ box' = box /\ open' = open /\ happens' = happens /\ ~serving /\ count' = count
        /\ waiter' = waiter /\ \A b \in open : count[b] = 0
        /\ \A t \in Tasks : status[t] \notin Unfinished
    BY <1>4 DEF Serve, outside, waiting
  <2>3. Holding = {} BY <1>2, <2>2
  <2>4. Holding' = {} BY <2>2, <2>3 DEF Holding, At
  <2>5. \A u \in Tasks : TaskOk(u)'
    <3>1. \A u \in Tasks : u \notin registered /\ \A p \in Procs : proc[u][p].at = "none"
      BY <2>2 DEF TaskIInv, TaskOk, PhaseOf, At
    <3>2. \A u \in Tasks : PhaseOf(u)' BY <2>2, <3>1, Values DEF PhaseOf, At, StartPhases
    <3>3. \A u \in Tasks : LockedBy(u)' /\ AloneIn(u)'
      BY <2>2, <3>1, Values DEF LockedBy, AloneIn, At, FinishPhases, Critical
    <3>4. \A u \in Tasks : FollowedUp(u)' /\ WorkerEnds(u)'
      BY <2>2, <3>1 DEF TaskIInv, TaskOk, FollowedUp, WorkerEnds, Followed, At
    <3>5. QED BY <3>2, <3>3, <3>4 DEF TaskOk
  <2>6. \A s \in Boxes : Held'[s] = {} BY <2>4 DEF Held
  <2>7. BoxInv'
    <3>1. \A s \in Boxes : count'[s] \in Nat BY <2>1 DEF TypeOK
    <3>2. \A s \in Boxes : IsFiniteSet(Held'[s]) /\ Cardinality(Held'[s]) <= count'[s]
      BY <2>6, <3>1, FS_EmptySet
    <3>3. QED BY <2>4, <3>2 DEF BoxInv
  <2>8. FinishIsLocked => ExactInv'
    <3>1. Cardinality({}) = 0 BY FS_EmptySet
    <3>2. QED BY <2>2, <2>6, <3>1 DEF TaskIInv, ExactInv
  <2>9. QED BY <2>1, <2>2, <2>5, <2>7, <2>8 DEF TaskIInv, FinishIsLocked
<1>5. QED BY <1>1, <1>3, <1>4 DEF Reconcile

-----------------------------------------------------------------------------
(* The theorems.                                                            *)

\* No task exists at first.
LEMMA InitInv == Init => TaskIInv
<1> SUFFICES ASSUME Init PROVE TaskIInv
  OBVIOUS
<1>1. TypeOK
  <2>1. Idle \in ProcRec BY DEF ProcRec, Idle, Phases, Statuses
  <2>2. proc \in [Tasks -> [Procs -> ProcRec]] BY <2>1 DEF Init
  <2>3. QED BY <2>2, CrashBound DEF Init, TypeOK, ProcRec, Statuses, Remotes
<1>2. \A t \in Tasks, p \in Procs : proc[t][p].at = "none" BY DEF Init, Idle
<1>3. \A t \in Tasks : status[t] = "none" BY DEF Init
<1>4. \A t \in Tasks : TaskOk(t)
  <2>1. \A t \in Tasks : PhaseOf(t)
    BY <1>2, <1>3, Values DEF Init, PhaseOf, At, StartPhases
  <2>2. \A t \in Tasks : LockedBy(t) /\ AloneIn(t)
    BY <1>2, Values DEF LockedBy, AloneIn, At, FinishPhases, Critical
  <2>3. \A t \in Tasks : FollowedUp(t) /\ WorkerEnds(t)
    BY <1>2, <1>3, Values DEF Init, FollowedUp, WorkerEnds, At, Unfinished
  <2>4. QED BY <2>1, <2>2, <2>3 DEF TaskOk
<1>5. BoxInv /\ ExactInv
  <2>1. Holding = {} BY <1>2, <1>3 DEF Init, Holding, At
  <2>2. \A b \in Boxes : Held[b] = {} BY <2>1 DEF Held
  <2>3. \A b \in Boxes : count[b] = 0 /\ b \in open BY DEF Init
  <2>4. IsFiniteSet({}) /\ Cardinality({}) = 0 BY FS_EmptySet
  <2>5. BoxInv BY <2>1, <2>2, <2>3, <2>4 DEF BoxInv
  <2>6. ExactInv BY <2>2, <2>3, <2>4 DEF ExactInv
  <2>7. QED BY <2>5, <2>6
<1>6. QED BY <1>1, <1>4, <1>5 DEF TaskIInv

\* Every step of start_command, the workers, _finish, kill_command and of a restart.
LEMMA NextKeeps == TaskIInv /\ [Next]_vars => TaskIInv'
<1> SUFFICES ASSUME TaskIInv, [Next]_vars PROVE TaskIInv'
  OBVIOUS
<1>1. ASSUME NEW t \in Tasks, NewTask(t) \/ Start(t) PROVE TaskIInv'
  BY <1>1, NewTaskKeeps, NoSandboxKeeps, AllocateKeeps, RegisterKeeps, SubmitKeeps,
       StartedKeeps, StartFailsKeeps
  DEF Start
<1>2. ASSUME NEW t \in Tasks, Work(t) PROVE TaskIInv'
  BY <1>2, PollKeeps, RecordKeeps, SaveKeeps, WorkFailsKeeps DEF Work
<1>3. ASSUME NEW t \in Tasks, NEW p \in Procs, Finish(t, p) \/ FinishFails(t, p) PROVE TaskIInv'
  BY <1>3, FinishLocksKeeps, FinishWritesKeeps, FinishReleasesKeeps, FinishFailsKeeps
  DEF Finish
<1>4. ASSUME NEW t \in Tasks, NEW k \in Killers, Kill(t, k) \/ Send(t, k) \/ KillCancelled(t, k)
      PROVE  TaskIInv'
  BY <1>4, KillKeeps, SendKeeps, KillCancelledKeeps
<1>5. ASSUME NEW t \in Tasks, Wait(t) \/ GiveUp(t) \/ RemoteEnds(t) \/ TimePasses(t)
      PROVE  TaskIInv'
  BY <1>5, WaitKeeps
<1>6. ASSUME NEW b \in Boxes, Claim(b) PROVE TaskIInv'
  BY <1>6, ClaimKeeps
<1>7. CASE Stop \/ Reconcile
  BY <1>7, StopKeeps, ReconcileKeeps
<1>8. CASE UNCHANGED vars
  <2>1. TypeOK' BY <1>8 DEF TaskIInv, TypeOK, vars
  <2>2. QED BY <1>8, <2>1, StillKeeps DEF vars
<1>9. QED
  BY <1>1, <1>2, <1>3, <1>4, <1>5, <1>6, <1>7, <1>8 DEF Next

\* The inductive invariant of the tasks, their locks and their protections.
THEOREM TaskIInvariant == Spec => []TaskIInv
BY InitInv, NextKeeps, PTL DEF Spec

\* A box is not taken back while a command runs in it (claim_idle_sandbox looks at the
\* count that _finish releases), unless MongoDB fails and two kill calls meet.
THEOREM TasksKeepBoxes == Spec => []TaskInv
<1>1. TaskIInv => TaskInv BY DEF TaskIInv, TaskInv, RunningKeepsBox, BoxInv, Holding
<1>2. QED BY <1>1, TaskIInvariant, PTL

\* While MongoDB works, an unfinished task has somebody who will finish it: start_command,
\* the worker, or whoever is in _finish.
THEOREM NoTaskForgotten == Spec => []TaskIsFollowed
<1>1. TaskIInv => TaskIsFollowed
  BY DEF TaskIInv, TaskOk, FollowedUp, TaskIsFollowed, Active
<1>2. QED BY <1>1, TaskIInvariant, PTL

\* Without kill calls and failures of MongoDB, get_command_result waits for a worker that
\* is there to wake it.
THEOREM WaitersWoken == Spec => []WaiterWoken
<1>1. TaskIInv => WaiterWoken
  BY DEF TaskIInv, TaskOk, WorkerEnds, WaiterWoken, TypeOK
<1>2. QED BY <1>1, TaskIInvariant, PTL

\* When all tasks ended, no box is protected any more, unless MongoDB failed or a request
\* was cancelled: register_active and _finish are in balance.
THEOREM NoProtectionLeaks == Spec => []NothingLeaked
<1>1. ASSUME TaskIInv, happens \cap {"mongo_fails", "cancelled"} = {}, serving,
             \A t \in Tasks : AtRest(t)
      PROVE  \A b \in Boxes : count[b] = 0
  <2>1. FinishIsLocked BY <1>1 DEF FinishIsLocked
  <2>2. Holding = {}
    BY <1>1, Values DEF TaskIInv, TaskOk, PhaseOf, Holding, AtRest, Unfinished, FinishPhases
  <2>3. \A b \in Boxes : Held[b] = {} BY <2>2 DEF Held
  <2>4. QED BY <1>1, <2>1, <2>3, FS_EmptySet DEF TaskIInv, ExactInv
<1>2. TaskIInv => NothingLeaked BY <1>1 DEF NothingLeaked
<1>3. QED BY <1>2, TaskIInvariant, PTL

\* Every running command has a protection of its own, what _finish says of releasing once:
\* it holds unless MongoDB fails and two kill calls meet, the case CommandTask_overlap shows.
THEOREM RunningAreProtected == Spec => [](FinishIsLocked => RunningIsProtected)
<1>1. ASSUME TaskIInv, FinishIsLocked, NEW b \in Boxes
      PROVE  Cardinality({t \in Tasks : box[t] = b /\ status[t] = "RUNNING"}) <= count[b]
  <2> DEFINE R == {t \in Tasks : box[t] = b /\ status[t] = "RUNNING"}
  <2>1. R \subseteq Held[b] BY DEF Held, Holding
  <2>2. IsFiniteSet(Held[b]) /\ Cardinality(Held[b]) <= count[b] /\ count[b] \in Nat
    BY <1>1 DEF TaskIInv, TypeOK, BoxInv
  <2> HIDE DEF R
  <2>3. IsFiniteSet(R) /\ Cardinality(R) <= Cardinality(Held[b]) BY <2>1, <2>2, FS_Subset
  <2>4. Cardinality(R) \in Nat /\ Cardinality(Held[b]) \in Nat
    BY <2>2, <2>3, FS_CardinalityType
  <2>5. Cardinality(R) <= count[b] BY <2>2, <2>3, <2>4
  <2>6. QED BY <2>5 DEF R
<1>2. TaskIInv => (FinishIsLocked => RunningIsProtected) BY <1>1 DEF RunningIsProtected
<1>3. QED BY <1>2, TaskIInvariant, PTL

\* What each step does to a finished task.
LEMMA TerminalStays ==
  ASSUME TaskIInv, FinishIsLocked, [Next]_vars, NEW t \in Tasks, status[t] \in Terminal
  PROVE  status'[t] = status[t]
<1>0. TypeOK /\ \A u \in Tasks : PhaseOf(u) /\ AloneIn(u) BY DEF TaskIInv, TaskOk
<1> USE DEF Terminal
<1>1. ASSUME NEW u \in Tasks, NewTask(u) \/ Start(u) PROVE status'[t] = status[t]
  <2>1. CASE NewTask(u) BY <1>0, <2>1 DEF NewTask, TypeOK
  <2>2. CASE Started(u) BY <1>0, <2>2 DEF Started, PhaseOf, StartPhases
  <2>3. CASE StartFails(u) BY <1>0, <2>3 DEF StartFails, TypeOK, PhaseOf
  <2>4. QED BY <1>1, <2>1, <2>2, <2>3 DEF Start, NoSandbox, Allocate, Register, Submit
<1>2. ASSUME NEW u \in Tasks, Work(u) PROVE status'[t] = status[t]
  <2>1. CASE Save(u) BY <1>0, <2>1, Values DEF Save, AloneIn
  <2>2. CASE WorkFails(u) BY <1>0, <2>2, Values DEF WorkFails, TypeOK, AloneIn
  <2>3. QED BY <1>2, <2>1, <2>2 DEF Work, Poll, Record
<1>3. ASSUME NEW u \in Tasks, NEW p \in Procs, Finish(u, p) \/ FinishFails(u, p)
      PROVE  status'[t] = status[t]
  <2>1. CASE FinishWrites(u, p) BY <1>0, <2>1 DEF FinishWrites, AloneIn, Unfinished
  <2>2. CASE FinishFails(u, p) BY <1>0, <2>2 DEF FinishFails, TypeOK, AloneIn, Unfinished
  <2>3. QED BY <1>3, <2>1, <2>2 DEF Finish, FinishLocks, FinishReleases
<1>4. ASSUME NEW u \in Tasks, NEW k \in Killers, Kill(u, k) \/ Send(u, k) \/ KillCancelled(u, k)
      PROVE  status'[t] = status[t]
  <2>1. CASE KillCancelled(u, k)
    BY <1>0, <2>1, Values DEF KillCancelled, TypeOK, AloneIn
  <2>2. QED BY <1>4, <2>1 DEF Kill, Send
<1>5. ASSUME NEW u \in Tasks, Wait(u) \/ GiveUp(u) \/ RemoteEnds(u) \/ TimePasses(u)
      PROVE  status'[t] = status[t]
  BY <1>5 DEF Wait, GiveUp, RemoteEnds, TimePasses
<1>6. ASSUME NEW b \in Boxes, Claim(b) PROVE status'[t] = status[t]
  BY <1>6 DEF Claim
<1>7. CASE Stop \/ Reconcile
  <2>1. ASSUME NEW u \in Tasks, ReconcileTask(u) PROVE status'[t] = status[t]
    BY <1>0, <2>1 DEF ReconcileTask, Unfinished
  <2>2. ASSUME NEW b \in Boxes, ReconcileBox(b) PROVE status'[t] = status[t]
    BY <2>2 DEF ReconcileBox
  <2>3. QED BY <1>7, <2>1, <2>2 DEF Stop, Serve, Reconcile
<1>8. CASE UNCHANGED vars BY <1>8 DEF vars
<1>9. QED
  BY <1>1, <1>2, <1>3, <1>4, <1>5, <1>6, <1>7, <1>8 DEF Next

\* A finished task is not brought back to life, nor given another end, by the whole records
\* that workers and kill calls save (_finish, _run_worker).
THEOREM FinishedTasksStay == Spec => TerminalIsFinal
<1>1. TaskIInv /\ [Next]_vars =>
        [FinishIsLocked => \A t \in Tasks : status[t] \in Terminal => status'[t] = status[t]]_vars
  BY TerminalStays
<1>2. QED BY <1>1, TaskIInvariant, PTL DEF Spec, TerminalIsFinal

=============================================================================
