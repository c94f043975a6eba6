-------------------------- MODULE SandboxPoolProofs --------------------------
(***************************************************************************)
(* What the watcher guarantees for any users, boxes, target and scenarios.  *)
(***************************************************************************)
EXTENDS SandboxPool, FiniteSetTheorems, TLAPS

-----------------------------------------------------------------------------
(* The inductive invariant.                                                 *)

\* The types, except for the number of boxes counted, which CountInv bounds.
TypeInv ==
  /\ state \in [Boxes -> States \cup {"none"}]
  /\ user \in [Boxes -> Users \cup {Nobody}]
  /\ working \in [Boxes -> Nat] /\ idle \in [Boxes -> BOOLEAN]
  /\ created \in 0..MaxBoxes /\ alive \subseteq 1..created
  /\ pc \in Phases /\ next \in {"health", "scan", "doom", "relieve"}
  /\ snap \in [Boxes -> States \cup {"none"}]
  /\ todo \subseteq Boxes /\ doomed \subseteq Boxes /\ again \subseteq Boxes
  /\ box \in 0..MaxBoxes
  /\ happens \in Scenarios
  /\ existing \in Nat /\ missing \in 0..Target /\ retries \in 0..MaxRetries

\* The watcher destroys a box on behalf of the phase `next`.
InDestruction == pc \in {"remove", "mark"}

\* The phases that look at one box after the other, by what was read of them.
Swapping == pc \in {"rotate", "scan"} \/ (InDestruction /\ next = "scan")
Dooming  == pc = "doom" \/ (InDestruction /\ next = "doom")

\* Which box is in hand, and what the watcher has left to look at.
HandInv ==
  /\ InDestruction => next # "health"
  /\ ~InDestruction => next = "health"
  /\ pc \in {"remove", "mark", "save", "release"} => box \in Boxes
  /\ pc \notin {"remove", "mark", "save", "release"} => box = 0
  /\ pc \in {"health", "warm", "save"} \/ Dooming => todo = {}

\* A box has a document only after docker run, and the box about to get its document
\* has none.
BornInv ==
  /\ \A s \in Boxes : s > created => state[s] = "none"
  /\ pc = "save" => box = created /\ state[box] = "none"
  /\ \A s \in doomed \cup again : state[s] # "none"
  /\ InDestruction => state[box] # "none"

\* What the watcher read is what it finds, but for the READY boxes users were assigned.
StillAsRead(s) ==
  \/ snap[s] = "READY" /\ state[s] \in {"READY", "USER_ACTIVE"}
  \/ snap[s] \in {"WARMING", "DESTROYING"} /\ state[s] = snap[s]

ReadInv ==
  /\ pc \in {"rotate", "scan", "relieve", "remove", "mark"} => \A s \in todo : StillAsRead(s)
  /\ pc \in {"claim", "reclaim", "release"} => todo \subseteq InState({"RETIRING"})
  /\ pc \in {"reclaim", "release"} => again \subseteq InState({"RETIRING", "DESTROYING"})
  /\ InDestruction => box \notin todo

GoneInv ==
  /\ DestroyedIsGone
  /\ pc = "mark" => box \notin alive

\* The boxes no user has, and those of them that count: where writes fail a document may
\* outlive its container.
Stock == InState({"WARMING", "READY"})
Held  == {s \in Stock : "mongo_fails" \in happens => s \in alive}

\* Counted so far are at least the unassigned boxes that were looked at and will stay;
\* what is missing to the target is warmed on top of them.
CountInv ==
  /\ existing # 0 => pc = "scan" \/ Dooming \/ (InDestruction /\ next = "scan")
  /\ Swapping => existing + Cardinality(todo) <= MaxBoxes
  /\ existing <= MaxBoxes
  /\ pc = "save" => missing > 0 /\ retries < MaxRetries

StockInv ==
  "docker_fails" \notin happens =>
    /\ Cardinality(Held) <= Target
    /\ Swapping \/ Dooming => Cardinality(Held \ (todo \cup doomed \cup {box})) <= existing
    /\ pc \in {"warm", "save"} => Cardinality(Held) + missing <= Target

PoolIInv ==
  /\ TypeInv /\ HandInv /\ BornInv /\ ReadInv /\ GoneInv /\ CountInv /\ StockInv

-----------------------------------------------------------------------------
(* Types, and the box in hand.                                              *)

\* The bounds are numbers.
LEMMA BoxNumbers ==
  ASSUME TypeInv
  PROVE  /\ MaxBoxes \in Nat /\ Target \in Nat /\ MaxRetries \in Nat /\ created \in Nat
         /\ 0 \in 0..MaxBoxes /\ 0 \in 0..Target /\ 0 \in 0..MaxRetries
         /\ \A s \in Boxes : s \in Nat /\ s # 0 /\ s <= MaxBoxes /\ s \in 0..MaxBoxes
BY PoolBounds DEF TypeInv, Boxes

\* Every step keeps the types.
LEMMA TypeStep == TypeInv /\ HandInv /\ CountInv /\ [Next]_vars => TypeInv'
<1> SUFFICES ASSUME TypeInv, HandInv, CountInv, [Next]_vars PROVE TypeInv'
  OBVIOUS
<1> USE DEF docs, docker, counts
<1>1. CASE HealthNormal
  BY <1>1 DEF HealthNormal, Snapshot, TypeInv, Phases, InState
<1>2. CASE HealthCpu
  BY <1>2 DEF HealthCpu, TypeInv, Phases
<1>3. CASE HealthDisk
  BY <1>3 DEF HealthDisk, Snapshot, TypeInv, Phases, InState
<1>4. CASE RotateOldest
  BY <1>4, BoxNumbers DEF RotateOldest, Destroying, change_state, TypeInv, Phases, States
<1>5. CASE RotateNone
  BY <1>5 DEF RotateNone, TypeInv, Phases
<1>6. CASE Scan
  <2>1. PICK s \in todo : /\ ScanReady(s) \/ ScanWarming(s) \/ ScanDestroying(s)
                        /\ todo' = todo \ {s}
    BY <1>6 DEF Scan
  <2>2. s \in Boxes BY DEF TypeInv
  <2>3. /\ state' \in [Boxes -> States \cup {"none"}] /\ user' \in [Boxes -> Users \cup {Nobody}]
        /\ doomed' \subseteq Boxes /\ existing' \in Nat
    <3>1. CASE ScanReady(s) BY <2>2, <3>1 DEF ScanReady, TypeInv
    <3>2. CASE ScanWarming(s) BY <2>2, <3>2 DEF ScanWarming, change_state, TypeInv, States
    <3>3. CASE ScanDestroying(s)
      BY <2>2, <3>3 DEF ScanDestroying, change_state, TypeInv, States
    <3>4. QED BY <2>1, <3>1, <3>2, <3>3
  <2>4. QED BY <1>6, <2>1, <2>3 DEF Scan, TypeInv
<1>7. CASE ScanEnds
  BY <1>7 DEF ScanEnds, NoSnapshot, TypeInv, Phases
<1>8. CASE Doom
  BY <1>8, BoxNumbers DEF Doom, Destroying, TypeInv, Phases
<1>9. CASE DoomEnds
  <2>1. missing' \in 0..Target BY <1>9, BoxNumbers DEF DoomEnds, TypeInv
  <2>2. QED BY <1>9, <2>1, BoxNumbers DEF DoomEnds, TypeInv, Phases
<1>10. CASE Relieve
  BY <1>10, BoxNumbers DEF Relieve, Destroying, change_state, TypeInv, Phases, States
<1>11. CASE RelieveEnds
  BY <1>11 DEF RelieveEnds, NoSnapshot, TypeInv, Phases
<1>12. CASE Remove
  BY <1>12 DEF Remove, TypeInv, Phases
<1>13. CASE RemoveFails
  BY <1>13, BoxNumbers DEF RemoveFails, Return, TypeInv, Phases
<1>14. CASE MarkDestroyed
  <2>1. state' \in [Boxes -> States \cup {"none"}] /\ user' \in [Boxes -> Users \cup {Nobody}]
    BY <1>14 DEF MarkDestroyed, change_state, TypeInv, States
  <2>2. QED BY <1>14, <2>1, BoxNumbers DEF MarkDestroyed, Return, TypeInv, Phases
<1>15. CASE WarmStart
  <2>1. created' \in 0..MaxBoxes /\ created' = created + 1
    BY <1>15, BoxNumbers DEF WarmStart, TypeInv
  <2>2. alive' \subseteq 1..created' BY <1>15, <2>1 DEF WarmStart, TypeInv
  <2>3. QED BY <1>15, <2>1, <2>2 DEF WarmStart, TypeInv, Phases
<1>16. CASE WarmFails
  <2>1. retries' \in 0..MaxRetries BY <1>16, BoxNumbers DEF WarmFails, TypeInv
  <2>2. QED BY <1>16, <2>1 DEF WarmFails, TypeInv
<1>17. CASE WarmSave
  <2>1. missing' \in 0..Target BY <1>17, BoxNumbers DEF WarmSave, TypeInv, CountInv
  <2>2. state' \in [Boxes -> States \cup {"none"}]
    BY <1>17 DEF WarmSave, change_state, TypeInv, States
  <2>3. QED BY <1>17, <2>1, <2>2, BoxNumbers DEF WarmSave, TypeInv, Phases
<1>18. CASE WarmCleanup
  <2>1. retries' \in 0..MaxRetries BY <1>18, BoxNumbers DEF WarmCleanup, TypeInv, CountInv
  <2>2. state' \in [Boxes -> States \cup {"none"}] /\ alive' \subseteq alive
    BY <1>18 DEF WarmCleanup, change_state, TypeInv, States
  <2>3. QED BY <1>18, <2>1, <2>2, BoxNumbers DEF WarmCleanup, TypeInv, Phases
<1>19. CASE WarmEnds
  BY <1>19, BoxNumbers DEF WarmEnds, TypeInv, Phases
<1>20. ASSUME NEW s \in Boxes, ClaimIdle(s) PROVE TypeInv'
  BY <1>20 DEF ClaimIdle, change_state, TypeInv, States
<1>21. ASSUME NEW s \in Boxes, Reclaim(s) PROVE TypeInv'
  <2>1. /\ state' \in [Boxes -> States \cup {"none"}] /\ user' \in [Boxes -> Users \cup {Nobody}]
    BY <1>21 DEF Reclaim, change_state, TypeInv, States
  <2>2. todo' \subseteq Boxes /\ again' \subseteq Boxes BY <1>21 DEF Reclaim, Take, TypeInv
  <2>3. QED BY <1>21, <2>1, <2>2, BoxNumbers DEF Reclaim, TypeInv, Phases
<1>22. CASE ClaimEnds
  BY <1>22 DEF ClaimEnds, TypeInv, Phases, InState
<1>23. CASE ReclaimFails
  BY <1>23 DEF ReclaimFails, Take, TypeInv
<1>24. CASE Release
  BY <1>24, BoxNumbers DEF Release, TypeInv, Phases
<1>25. CASE ReclaimEnds
  BY <1>25 DEF ReclaimEnds, TypeInv, Phases
<1>26. ASSUME NEW u \in Users, Assign(u) PROVE TypeInv'
  BY <1>26 DEF Assign, change_state, TypeInv, States, InState
<1>27. ASSUME NEW u \in Users, BeginWork(u) PROVE TypeInv'
  BY <1>27 DEF BeginWork, BoxesOf, TypeInv, InState
<1>28. ASSUME NEW s \in Boxes, EndWork(s) PROVE TypeInv'
  BY <1>28 DEF EndWork, TypeInv
<1>29. ASSUME NEW s \in Boxes, TimePasses(s) PROVE TypeInv'
  BY <1>29 DEF TimePasses, TypeInv
<1>30. CASE Restart
  <2>1. working' \in [Boxes -> Nat]
    <3>1. \A s \in Boxes : (IF state[s] = "USER_ACTIVE" THEN 0 ELSE working[s]) \in Nat
      BY DEF TypeInv
    <3>2. QED BY <1>30, <3>1 DEF Restart
  <2>2. QED BY <1>30, <2>1, BoxNumbers DEF Restart, NoSnapshot, TypeInv, Phases
<1>31. CASE UNCHANGED vars
  BY <1>31 DEF vars, TypeInv
<1>32. CASE MaintenanceFails
  BY <1>32, BoxNumbers DEF MaintenanceFails, NoSnapshot, TypeInv, Phases
<1>33. CASE ClaimFails
  BY <1>33 DEF ClaimFails, TypeInv, Phases
<1>34. QED
  BY <1>1, <1>2, <1>3, <1>4, <1>5, <1>6, <1>7, <1>8, <1>9, <1>10, <1>11, <1>12, <1>13, <1>14,
       <1>15, <1>16, <1>17, <1>18, <1>19, <1>20, <1>21, <1>22, <1>23, <1>24, <1>25, <1>26,
       <1>27, <1>28, <1>29, <1>30, <1>31, <1>32, <1>33
  DEF Next, Watcher

\* Which box the watcher has in hand, at each of its points.
LEMMA HandStep == TypeInv /\ HandInv /\ [Next]_vars => HandInv'
<1> SUFFICES ASSUME TypeInv, HandInv, [Next]_vars PROVE HandInv'
  OBVIOUS
<1> USE DEF docs, docker, counts
<1>1. CASE HealthNormal
  BY <1>1 DEF HealthNormal, HandInv, InDestruction, Dooming
<1>2. CASE HealthCpu
  BY <1>2 DEF HealthCpu, HandInv, InDestruction
<1>3. CASE HealthDisk
  BY <1>3 DEF HealthDisk, HandInv, InDestruction, Dooming
<1>4. CASE RotateOldest
  BY <1>4 DEF RotateOldest, Destroying, HandInv, InDestruction, Dooming, TypeInv
<1>5. CASE RotateNone
  BY <1>5 DEF RotateNone, HandInv, InDestruction, Dooming
<1>6. CASE Scan
  BY <1>6 DEF Scan, HandInv, InDestruction, Dooming
<1>7. CASE ScanEnds
  BY <1>7 DEF ScanEnds, HandInv, InDestruction
<1>8. CASE Doom
  BY <1>8 DEF Doom, Destroying, HandInv, InDestruction, Dooming, TypeInv
<1>9. CASE DoomEnds
  BY <1>9 DEF DoomEnds, HandInv, InDestruction, Dooming
<1>10. CASE Relieve
  BY <1>10 DEF Relieve, Destroying, HandInv, InDestruction, Dooming, TypeInv
<1>11. CASE RelieveEnds
  BY <1>11 DEF RelieveEnds, HandInv, InDestruction
<1>12. CASE Remove
  BY <1>12 DEF Remove, HandInv, InDestruction, Dooming
<1>13. CASE RemoveFails
  BY <1>13 DEF RemoveFails, Return, HandInv, InDestruction, Dooming, TypeInv
<1>14. CASE MarkDestroyed
  BY <1>14 DEF MarkDestroyed, Return, HandInv, InDestruction, Dooming, TypeInv
<1>15. CASE WarmStart
  BY <1>15, BoxNumbers DEF WarmStart, Boxes, HandInv, InDestruction
<1>16. CASE WarmFails
  BY <1>16 DEF WarmFails, HandInv, InDestruction
<1>17. CASE WarmSave
  BY <1>17 DEF WarmSave, HandInv, InDestruction
<1>18. CASE WarmCleanup
  BY <1>18 DEF WarmCleanup, HandInv, InDestruction
<1>19. CASE WarmEnds
  BY <1>19 DEF WarmEnds, HandInv, InDestruction
<1>20. ASSUME NEW s \in Boxes, ClaimIdle(s) PROVE HandInv'
  BY <1>20 DEF ClaimIdle, HandInv, InDestruction, Dooming
<1>21. ASSUME NEW s \in Boxes, Reclaim(s) PROVE HandInv'
  BY <1>21 DEF Reclaim, Take, HandInv, InDestruction, Dooming
<1>22. CASE ClaimEnds
  BY <1>22 DEF ClaimEnds, HandInv, InDestruction, Dooming
<1>23. CASE ReclaimFails
  BY <1>23 DEF ReclaimFails, Take, HandInv, InDestruction, Dooming
<1>24. CASE Release
  BY <1>24 DEF Release, HandInv, InDestruction, Dooming
<1>25. CASE ReclaimEnds
  BY <1>25 DEF ReclaimEnds, HandInv, InDestruction
<1>26. ASSUME NEW u \in Users, Assign(u) PROVE HandInv'
  BY <1>26 DEF Assign, HandInv, InDestruction, Dooming
<1>27. ASSUME NEW u \in Users, BeginWork(u) PROVE HandInv'
  BY <1>27 DEF BeginWork, HandInv, InDestruction, Dooming
<1>28. ASSUME NEW s \in Boxes, EndWork(s) PROVE HandInv'
  BY <1>28 DEF EndWork, HandInv, InDestruction, Dooming
<1>29. ASSUME NEW s \in Boxes, TimePasses(s) PROVE HandInv'
  BY <1>29 DEF TimePasses, HandInv, InDestruction, Dooming
<1>30. CASE Restart
  BY <1>30 DEF Restart, HandInv, InDestruction
<1>31. CASE UNCHANGED vars
  BY <1>31 DEF vars, HandInv, InDestruction, Dooming
<1>32. CASE MaintenanceFails
  BY <1>32 DEF MaintenanceFails, HandInv, InDestruction, Dooming
<1>33. CASE ClaimFails
  BY <1>33 DEF ClaimFails, HandInv, InDestruction
<1>34. QED
  BY <1>1, <1>2, <1>3, <1>4, <1>5, <1>6, <1>7, <1>8, <1>9, <1>10, <1>11, <1>12, <1>13, <1>14,
       <1>15, <1>16, <1>17, <1>18, <1>19, <1>20, <1>21, <1>22, <1>23, <1>24, <1>25, <1>26,
       <1>27, <1>28, <1>29, <1>30, <1>31, <1>32, <1>33
  DEF Next, Watcher

-----------------------------------------------------------------------------
(* Documents, containers, and what the watcher read.                        *)

\* A box whose document was read is born.
LEMMA ReadIsBorn ==
  ASSUME TypeInv, BornInv, NEW s \in Boxes, StillAsRead(s)
  PROVE  state[s] # "none" /\ ~(s > created)
BY DEF StillAsRead, BornInv

\* Boxes that were not created have no document and no container.
LEMMA BornStep == TypeInv /\ HandInv /\ ReadInv /\ BornInv /\ [Next]_vars => BornInv'
<1> SUFFICES ASSUME TypeInv, HandInv, ReadInv, BornInv, [Next]_vars PROVE BornInv'
  OBVIOUS
<1> USE DEF docs, docker, counts
<1>1. CASE HealthNormal
  BY <1>1 DEF HealthNormal, BornInv, InDestruction
<1>2. CASE HealthCpu
  BY <1>2 DEF HealthCpu, BornInv, InDestruction
<1>3. CASE HealthDisk
  BY <1>3 DEF HealthDisk, BornInv, InDestruction
<1>4. CASE RotateOldest
  <2>1. PICK s \in todo : /\ state' = [state EXCEPT ![s] = "DESTROYING"]
                        /\ todo' = todo \ {s} /\ box' = s /\ pc' = "remove"
    BY <1>4 DEF RotateOldest, Destroying, change_state
  <2>2. s \in Boxes /\ state \in [Boxes -> States \cup {"none"}] BY DEF TypeInv
  <2>3. state[s] # "none" /\ ~(s > created)
    <3>1. StillAsRead(s) BY <1>4 DEF RotateOldest, ReadInv
    <3>2. QED BY <2>2, <3>1, ReadIsBorn
  <2>4. \A t \in Boxes : state'[t] # "none" <=> state[t] # "none" BY <2>1, <2>2, <2>3
  <2>5. created' = created /\ doomed' = doomed /\ again' = again BY <1>4 DEF RotateOldest
  <2>6. doomed \subseteq Boxes /\ again \subseteq Boxes BY DEF TypeInv
  <2>7. QED BY <2>1, <2>2, <2>3, <2>4, <2>5, <2>6 DEF BornInv
<1>5. CASE RotateNone
  BY <1>5 DEF RotateNone, BornInv, InDestruction
<1>6. CASE Scan
  <2>1. PICK s \in todo : /\ ScanReady(s) \/ ScanWarming(s) \/ ScanDestroying(s)
                        /\ todo' = todo \ {s}
    BY <1>6 DEF Scan
  <2>2. s \in Boxes /\ state \in [Boxes -> States \cup {"none"}] BY DEF TypeInv
  <2>3. state[s] # "none" /\ ~(s > created)
    <3>1. StillAsRead(s) BY <1>6, <2>1 DEF Scan, ReadInv
    <3>2. QED BY <2>2, <3>1, ReadIsBorn
  <2>4. /\ \A t \in Boxes : state'[t] # "none" <=> state[t] # "none"
        /\ doomed' \subseteq doomed \cup {s}
    <3>1. CASE ScanReady(s) BY <2>2, <3>1 DEF ScanReady
    <3>2. CASE ScanWarming(s) BY <2>2, <2>3, <3>2 DEF ScanWarming, change_state
    <3>3. CASE ScanDestroying(s) BY <2>2, <2>3, <3>3 DEF ScanDestroying, change_state
    <3>4. QED BY <2>1, <3>1, <3>2, <3>3
  <2>5. pc = "scan" /\ pc' = "scan" /\ created' = created /\ again' = again BY <1>6 DEF Scan
  <2>6. doomed \subseteq Boxes /\ again \subseteq Boxes BY DEF TypeInv
  <2>7. QED BY <2>2, <2>3, <2>4, <2>5, <2>6 DEF BornInv, InDestruction
<1>7. CASE ScanEnds
  BY <1>7 DEF ScanEnds, BornInv, InDestruction
<1>8. CASE Doom
  BY <1>8 DEF Doom, Destroying, BornInv
<1>9. CASE DoomEnds
  BY <1>9 DEF DoomEnds, BornInv, InDestruction
<1>10. CASE Relieve
  <2>1. PICK s \in todo : /\ state' = [state EXCEPT ![s] = "DESTROYING"]
                        /\ todo' = todo \ {s} /\ box' = s /\ pc' = "remove"
    BY <1>10 DEF Relieve, Destroying, change_state
  <2>2. s \in Boxes /\ state \in [Boxes -> States \cup {"none"}] BY DEF TypeInv
  <2>3. state[s] # "none" /\ ~(s > created)
    <3>1. StillAsRead(s) BY <1>10 DEF Relieve, ReadInv
    <3>2. QED BY <2>2, <3>1, ReadIsBorn
  <2>4. \A t \in Boxes : state'[t] # "none" <=> state[t] # "none" BY <2>1, <2>2, <2>3
  <2>5. created' = created /\ doomed' = doomed /\ again' = again BY <1>10 DEF Relieve
  <2>6. doomed \subseteq Boxes /\ again \subseteq Boxes BY DEF TypeInv
  <2>7. QED BY <2>1, <2>2, <2>3, <2>4, <2>5, <2>6 DEF BornInv
<1>11. CASE RelieveEnds
  BY <1>11 DEF RelieveEnds, BornInv, InDestruction
<1>12. CASE Remove
  BY <1>12 DEF Remove, BornInv, InDestruction
<1>13. CASE RemoveFails
  BY <1>13 DEF RemoveFails, Return, BornInv, InDestruction, TypeInv
<1>14. CASE MarkDestroyed
  BY <1>14 DEF MarkDestroyed, Return, change_state, BornInv, InDestruction, TypeInv
<1>15. CASE WarmStart
  <2>1. created' = created + 1 /\ created' \in Boxes /\ created \in Nat
    BY <1>15, BoxNumbers DEF WarmStart, Boxes
  <2>2. state' = state /\ doomed' = doomed /\ again' = again /\ pc' = "save" /\ box' = created'
    BY <1>15 DEF WarmStart
  <2>3. \A s \in Boxes : s > created' => s > created BY <2>1, BoxNumbers
  <2>4. created' > created BY <2>1
  <2>5. QED BY <2>1, <2>2, <2>3, <2>4 DEF BornInv, InDestruction
<1>16. CASE WarmFails
  BY <1>16 DEF WarmFails, BornInv, InDestruction
<1>17. CASE WarmSave
  BY <1>17 DEF WarmSave, change_state, BornInv, InDestruction, TypeInv
<1>18. CASE WarmCleanup
  BY <1>18 DEF WarmCleanup, change_state, BornInv, InDestruction, TypeInv
<1>19. CASE WarmEnds
  BY <1>19 DEF WarmEnds, BornInv, InDestruction
<1>20. ASSUME NEW s \in Boxes, ClaimIdle(s) PROVE BornInv'
  BY <1>20 DEF ClaimIdle, change_state, BornInv, InDestruction
<1>21. ASSUME NEW s \in Boxes, Reclaim(s) PROVE BornInv'
  <2>1. state' = [state EXCEPT ![s] = "DESTROYING"] /\ pc = "reclaim" /\ pc' = "release"
    BY <1>21 DEF Reclaim, Take, change_state
  <2>2. created' = created /\ doomed' = doomed /\ again' \subseteq again
    BY <1>21 DEF Reclaim, Take
  <2>3. state[s] # "none" BY <1>21, <2>1 DEF Reclaim, Take, ReadInv, InState
  <2>4. state \in [Boxes -> States \cup {"none"}] /\ doomed \subseteq Boxes /\ again \subseteq Boxes
    BY DEF TypeInv
  <2>5. \A t \in Boxes : state'[t] # "none" <=> state[t] # "none" BY <1>21, <2>1, <2>3, <2>4
  <2>6. QED BY <2>1, <2>2, <2>4, <2>5 DEF BornInv, InDestruction
<1>22. CASE ClaimEnds
  BY <1>22 DEF ClaimEnds, BornInv, InDestruction, InState
<1>23. CASE ReclaimFails
  BY <1>23 DEF ReclaimFails, Take, BornInv, InDestruction
<1>24. CASE Release
  BY <1>24 DEF Release, BornInv, InDestruction
<1>25. CASE ReclaimEnds
  BY <1>25 DEF ReclaimEnds, BornInv, InDestruction
<1>26. ASSUME NEW u \in Users, Assign(u) PROVE BornInv'
  BY <1>26 DEF Assign, change_state, BornInv, InDestruction, InState
<1>27. ASSUME NEW u \in Users, BeginWork(u) PROVE BornInv'
  BY <1>27 DEF BeginWork, BornInv, InDestruction
<1>28. ASSUME NEW s \in Boxes, EndWork(s) PROVE BornInv'
  BY <1>28 DEF EndWork, BornInv, InDestruction
<1>29. ASSUME NEW s \in Boxes, TimePasses(s) PROVE BornInv'
  BY <1>29 DEF TimePasses, BornInv, InDestruction
<1>30. CASE Restart
  BY <1>30 DEF Restart, BornInv, InDestruction
<1>31. CASE UNCHANGED vars
  BY <1>31 DEF vars, BornInv, InDestruction
<1>32. CASE MaintenanceFails
  BY <1>32 DEF MaintenanceFails, BornInv, InDestruction
<1>33. CASE ClaimFails
  BY <1>33 DEF ClaimFails, BornInv, InDestruction
<1>34. QED
  BY <1>1, <1>2, <1>3, <1>4, <1>5, <1>6, <1>7, <1>8, <1>9, <1>10, <1>11, <1>12, <1>13, <1>14,
       <1>15, <1>16, <1>17, <1>18, <1>19, <1>20, <1>21, <1>22, <1>23, <1>24, <1>25, <1>26,
       <1>27, <1>28, <1>29, <1>30, <1>31, <1>32, <1>33
  DEF Next, Watcher

\* What the watcher read of the boxes it still has to handle is still so.
LEMMA ReadStep == TypeInv /\ HandInv /\ BornInv /\ ReadInv /\ [Next]_vars => ReadInv'
<1> SUFFICES ASSUME TypeInv, HandInv, BornInv, ReadInv, [Next]_vars PROVE ReadInv'
  OBVIOUS
<1> USE DEF docs, docker, counts
<1>1. CASE HealthNormal
  BY <1>1 DEF HealthNormal, Snapshot, ReadInv, StillAsRead, InDestruction, InState
<1>2. CASE HealthCpu
  BY <1>2 DEF HealthCpu, ReadInv, HandInv
<1>3. CASE HealthDisk
  BY <1>3 DEF HealthDisk, Snapshot, ReadInv, StillAsRead, InDestruction, InState
<1>4. CASE RotateOldest
  BY <1>4 DEF RotateOldest, Destroying, change_state, ReadInv, StillAsRead
<1>5. CASE RotateNone
  BY <1>5 DEF RotateNone, ReadInv, StillAsRead, InDestruction
<1>6. CASE Scan
  BY <1>6
  DEF Scan, ScanReady, ScanWarming, ScanDestroying, change_state, ReadInv, StillAsRead,
       InDestruction, TypeInv
<1>7. CASE ScanEnds
  BY <1>7 DEF ScanEnds, ReadInv
<1>8. CASE Doom
  BY <1>8 DEF Doom, Destroying, ReadInv, HandInv, Dooming
<1>9. CASE DoomEnds
  BY <1>9 DEF DoomEnds, ReadInv, InDestruction
<1>10. CASE Relieve
  BY <1>10 DEF Relieve, Destroying, change_state, ReadInv, StillAsRead
<1>11. CASE RelieveEnds
  BY <1>11 DEF RelieveEnds, ReadInv
<1>12. CASE Remove
  BY <1>12 DEF Remove, ReadInv, StillAsRead, InDestruction
<1>13. CASE RemoveFails
  BY <1>13 DEF RemoveFails, Return, ReadInv, StillAsRead, InDestruction, TypeInv
<1>14. CASE MarkDestroyed
  BY <1>14
  DEF MarkDestroyed, Return, change_state, ReadInv, StillAsRead, InDestruction, TypeInv
<1>15. CASE WarmStart
  BY <1>15 DEF WarmStart, ReadInv, HandInv
<1>16. CASE WarmFails
  BY <1>16 DEF WarmFails, ReadInv, HandInv
<1>17. CASE WarmSave
  BY <1>17 DEF WarmSave, ReadInv, HandInv
<1>18. CASE WarmCleanup
  BY <1>18 DEF WarmCleanup, ReadInv, HandInv
<1>19. CASE WarmEnds
  BY <1>19 DEF WarmEnds, ReadInv, HandInv
<1>20. ASSUME NEW s \in Boxes, ClaimIdle(s) PROVE ReadInv'
  BY <1>20 DEF ClaimIdle, change_state, ReadInv, InDestruction, TypeInv, InState
<1>21. ASSUME NEW s \in Boxes, Reclaim(s) PROVE ReadInv'
  BY <1>21 DEF Reclaim, Take, change_state, ReadInv, InState
<1>22. CASE ClaimEnds
  BY <1>22 DEF ClaimEnds, ReadInv, InDestruction, InState
<1>23. CASE ReclaimFails
  BY <1>23 DEF ReclaimFails, Take, ReadInv, InDestruction, InState
<1>24. CASE Release
  BY <1>24 DEF Release, ReadInv, InDestruction, InState
<1>25. CASE ReclaimEnds
  BY <1>25 DEF ReclaimEnds, ReadInv
<1>26. ASSUME NEW u \in Users, Assign(u) PROVE ReadInv'
  BY <1>26 DEF Assign, change_state, ReadInv, StillAsRead, InDestruction, InState
<1>27. ASSUME NEW u \in Users, BeginWork(u) PROVE ReadInv'
  BY <1>27 DEF BeginWork, ReadInv, StillAsRead, InDestruction, InState
<1>28. ASSUME NEW s \in Boxes, EndWork(s) PROVE ReadInv'
  BY <1>28 DEF EndWork, ReadInv, StillAsRead, InDestruction, InState
<1>29. ASSUME NEW s \in Boxes, TimePasses(s) PROVE ReadInv'
  BY <1>29 DEF TimePasses, ReadInv, StillAsRead, InDestruction, InState
<1>30. CASE Restart
  BY <1>30 DEF Restart, ReadInv
<1>31. CASE UNCHANGED vars
  BY <1>31 DEF vars, ReadInv, StillAsRead, InDestruction, InState
<1>32. CASE MaintenanceFails
  BY <1>32 DEF MaintenanceFails, ReadInv, InDestruction
<1>33. CASE ClaimFails
  BY <1>33 DEF ClaimFails, ReadInv, InDestruction
<1>34. QED
  BY <1>1, <1>2, <1>3, <1>4, <1>5, <1>6, <1>7, <1>8, <1>9, <1>10, <1>11, <1>12, <1>13, <1>14,
       <1>15, <1>16, <1>17, <1>18, <1>19, <1>20, <1>21, <1>22, <1>23, <1>24, <1>25, <1>26,
       <1>27, <1>28, <1>29, <1>30, <1>31, <1>32, <1>33
  DEF Next, Watcher

\* A box is marked DESTROYED after its container is gone.
LEMMA GoneStep == TypeInv /\ HandInv /\ BornInv /\ GoneInv /\ [Next]_vars => GoneInv'
<1> SUFFICES ASSUME TypeInv, HandInv, BornInv, GoneInv, [Next]_vars PROVE GoneInv'
  OBVIOUS
<1> USE DEF docs, docker, counts
<1>1. CASE HealthNormal
  BY <1>1 DEF HealthNormal, GoneInv, DestroyedIsGone
<1>2. CASE HealthCpu
  BY <1>2 DEF HealthCpu, GoneInv, DestroyedIsGone
<1>3. CASE HealthDisk
  BY <1>3 DEF HealthDisk, GoneInv, DestroyedIsGone
<1>4. CASE RotateOldest
  BY <1>4 DEF RotateOldest, Destroying, change_state, GoneInv, DestroyedIsGone
<1>5. CASE RotateNone
  BY <1>5 DEF RotateNone, GoneInv, DestroyedIsGone
<1>6. CASE Scan
  <2>1. PICK s \in todo : /\ ScanReady(s) \/ ScanWarming(s) \/ ScanDestroying(s)
                        /\ todo' = todo \ {s}
    BY <1>6 DEF Scan
  <2>2. s \in Boxes /\ state \in [Boxes -> States \cup {"none"}] BY DEF TypeInv
  <2>5. alive \subseteq Boxes BY BoxNumbers DEF TypeInv, Boxes
  <2>3. \A t \in alive : state'[t] = "DESTROYED" => state[t] = "DESTROYED"
    <3>1. CASE ScanReady(s) BY <3>1 DEF ScanReady
    <3>2. CASE ScanWarming(s) BY <2>5, <2>2, <3>2 DEF ScanWarming, change_state
    <3>3. CASE ScanDestroying(s) BY <2>5, <2>2, <3>3 DEF ScanDestroying, change_state
    <3>4. QED BY <2>1, <3>1, <3>2, <3>3
  <2>4. QED BY <1>6, <2>3 DEF Scan, GoneInv, DestroyedIsGone
<1>7. CASE ScanEnds
  BY <1>7 DEF ScanEnds, GoneInv, DestroyedIsGone
<1>8. CASE Doom
  BY <1>8 DEF Doom, Destroying, GoneInv, DestroyedIsGone
<1>9. CASE DoomEnds
  BY <1>9 DEF DoomEnds, GoneInv, DestroyedIsGone
<1>10. CASE Relieve
  BY <1>10 DEF Relieve, Destroying, change_state, GoneInv, DestroyedIsGone
<1>11. CASE RelieveEnds
  BY <1>11 DEF RelieveEnds, GoneInv, DestroyedIsGone
<1>12. CASE Remove
  BY <1>12 DEF Remove, GoneInv, DestroyedIsGone
<1>13. CASE RemoveFails
  BY <1>13 DEF RemoveFails, Return, GoneInv, DestroyedIsGone, TypeInv
<1>14. CASE MarkDestroyed
  <2>1. /\ alive' = alive /\ box \notin alive /\ pc' # "mark"
        /\ state' = state \/ state' = [state EXCEPT ![box] = "DESTROYED"]
    BY <1>14 DEF MarkDestroyed, Return, change_state, GoneInv, TypeInv
  <2>2. alive \subseteq Boxes /\ state \in [Boxes -> States \cup {"none"}]
    BY BoxNumbers DEF TypeInv, Boxes
  <2>3. \A s \in alive : state'[s] = state[s] BY <2>1, <2>2
  <2>4. QED BY <2>1, <2>3 DEF GoneInv, DestroyedIsGone
<1>15. CASE WarmStart
  <2>1. created' \in Boxes /\ created' > created BY <1>15, BoxNumbers DEF WarmStart, Boxes
  <2>2. state[created'] = "none" BY <2>1 DEF BornInv
  <2>3. QED BY <1>15, <2>2 DEF WarmStart, GoneInv, DestroyedIsGone
<1>16. CASE WarmFails
  BY <1>16 DEF WarmFails, GoneInv, DestroyedIsGone
<1>17. CASE WarmSave
  BY <1>17 DEF WarmSave, change_state, GoneInv, DestroyedIsGone
<1>18. CASE WarmCleanup
  <2>1. /\ alive' \subseteq alive /\ pc' # "mark"
        /\ state' = state \/ state' = [state EXCEPT ![box] = "WARMING"]
    BY <1>18 DEF WarmCleanup, change_state
  <2>2. alive \subseteq Boxes /\ state \in [Boxes -> States \cup {"none"}]
    BY BoxNumbers DEF TypeInv, Boxes
  <2>3. \A s \in alive : state'[s] = "DESTROYED" => state[s] = "DESTROYED" BY <2>1, <2>2
  <2>4. QED BY <2>1, <2>3 DEF GoneInv, DestroyedIsGone
<1>19. CASE WarmEnds
  BY <1>19 DEF WarmEnds, GoneInv, DestroyedIsGone
<1>20. ASSUME NEW s \in Boxes, ClaimIdle(s) PROVE GoneInv'
  BY <1>20 DEF ClaimIdle, change_state, GoneInv, DestroyedIsGone
<1>21. ASSUME NEW s \in Boxes, Reclaim(s) PROVE GoneInv'
  BY <1>21 DEF Reclaim, change_state, GoneInv, DestroyedIsGone
<1>22. CASE ClaimEnds
  BY <1>22 DEF ClaimEnds, GoneInv, DestroyedIsGone
<1>23. CASE ReclaimFails
  BY <1>23 DEF ReclaimFails, GoneInv, DestroyedIsGone
<1>24. CASE Release
  BY <1>24 DEF Release, GoneInv, DestroyedIsGone
<1>25. CASE ReclaimEnds
  BY <1>25 DEF ReclaimEnds, GoneInv, DestroyedIsGone
<1>26. ASSUME NEW u \in Users, Assign(u) PROVE GoneInv'
  BY <1>26 DEF Assign, change_state, GoneInv, DestroyedIsGone
<1>27. ASSUME NEW u \in Users, BeginWork(u) PROVE GoneInv'
  BY <1>27 DEF BeginWork, GoneInv, DestroyedIsGone
<1>28. ASSUME NEW s \in Boxes, EndWork(s) PROVE GoneInv'
  BY <1>28 DEF EndWork, GoneInv, DestroyedIsGone
<1>29. ASSUME NEW s \in Boxes, TimePasses(s) PROVE GoneInv'
  BY <1>29 DEF TimePasses, GoneInv, DestroyedIsGone
<1>30. CASE Restart
  BY <1>30 DEF Restart, GoneInv, DestroyedIsGone
<1>31. CASE UNCHANGED vars
  BY <1>31 DEF vars, GoneInv, DestroyedIsGone
<1>32. CASE MaintenanceFails
  BY <1>32 DEF MaintenanceFails, GoneInv, DestroyedIsGone
<1>33. CASE ClaimFails
  BY <1>33 DEF ClaimFails, GoneInv, DestroyedIsGone
<1>34. QED
  BY <1>1, <1>2, <1>3, <1>4, <1>5, <1>6, <1>7, <1>8, <1>9, <1>10, <1>11, <1>12, <1>13, <1>14,
       <1>15, <1>16, <1>17, <1>18, <1>19, <1>20, <1>21, <1>22, <1>23, <1>24, <1>25, <1>26,
       <1>27, <1>28, <1>29, <1>30, <1>31, <1>32, <1>33
  DEF Next, Watcher

-----------------------------------------------------------------------------
(* How many boxes there are.                                                *)

\* Sets of boxes are finite, and no larger than their bound.
LEMMA SubsetCard ==
  ASSUME TypeInv, NEW B \in SUBSET Boxes
  PROVE  /\ IsFiniteSet(B) /\ Cardinality(B) \in Nat /\ Cardinality(B) <= MaxBoxes
         /\ \A A \in SUBSET B : Cardinality(A) \in Nat /\ Cardinality(A) <= Cardinality(B)
         /\ \A s : Cardinality(B \cup {s}) <= Cardinality(B) + 1
         /\ \A s \in B : Cardinality(B \ {s}) = Cardinality(B) - 1
<1>1. IsFiniteSet(Boxes) /\ Cardinality(Boxes) = MaxBoxes
  <2>1. 1 \in Int /\ MaxBoxes \in Int /\ MaxBoxes \in Nat BY PoolBounds
  <2>2. IsFiniteSet(1..MaxBoxes) /\ Cardinality(1..MaxBoxes) = IF 1 > MaxBoxes THEN 0 ELSE MaxBoxes - 1 + 1
    BY <2>1, FS_Interval
  <2>3. QED BY <2>1, <2>2 DEF Boxes
<1>2. IsFiniteSet(B) /\ Cardinality(B) <= MaxBoxes BY <1>1, FS_Subset
<1>3. Cardinality(B) \in Nat BY <1>2, FS_CardinalityType
<1>4. ASSUME NEW A \in SUBSET B PROVE Cardinality(A) \in Nat /\ Cardinality(A) <= Cardinality(B)
  <2>1. IsFiniteSet(A) /\ Cardinality(A) <= Cardinality(B) BY <1>2, FS_Subset
  <2>2. QED BY <2>1, FS_CardinalityType
<1>5. ASSUME NEW s PROVE Cardinality(B \cup {s}) <= Cardinality(B) + 1
  BY <1>2, <1>3, FS_AddElement
<1>6. ASSUME NEW s \in B PROVE Cardinality(B \ {s}) = Cardinality(B) - 1
  BY <1>2, <1>3, FS_RemoveElement
<1>7. QED BY <1>2, <1>3, <1>4, <1>5, <1>6

\* The empty stock.
LEMMA EmptyCard == Cardinality({}) = 0
BY FS_EmptySet

\* The round counts no more boxes than there are.
LEMMA CountStep == TypeInv /\ HandInv /\ CountInv /\ [Next]_vars => CountInv'
<1> SUFFICES ASSUME TypeInv, HandInv, CountInv, [Next]_vars PROVE CountInv'
  OBVIOUS
<1> USE DEF docs, docker, counts
<1>1. CASE HealthNormal
  <2>1. Cardinality(todo') \in Nat /\ Cardinality(todo') <= MaxBoxes
    <3>1. todo' \subseteq Boxes BY <1>1 DEF HealthNormal, InState
    <3>2. QED BY <3>1, SubsetCard
  <2>2. existing = 0 BY <1>1 DEF HealthNormal, CountInv, Dooming, InDestruction
  <2>3. pc' = "rotate" /\ existing' = existing BY <1>1 DEF HealthNormal
  <2>4. QED BY <2>1, <2>2, <2>3 DEF CountInv
<1>2. CASE HealthCpu
  BY <1>2 DEF HealthCpu, CountInv, Swapping, Dooming, InDestruction
<1>3. CASE HealthDisk
  BY <1>3 DEF HealthDisk, CountInv, Swapping, Dooming, InDestruction
<1>4. CASE RotateOldest
  <2>1. todo' \subseteq todo /\ todo \subseteq Boxes BY <1>4 DEF RotateOldest, TypeInv
  <2>2. Cardinality(todo') \in Nat /\ Cardinality(todo') <= Cardinality(todo)
          /\ Cardinality(todo) \in Nat
    BY <2>1, SubsetCard
  <2>3. QED
    BY <1>4, <2>2, BoxNumbers
    DEF RotateOldest, Destroying, CountInv, TypeInv, Swapping, InDestruction
<1>5. CASE RotateNone
  BY <1>5 DEF RotateNone, CountInv, Swapping
<1>6. CASE Scan
  <2>1. PICK s \in todo : /\ ScanReady(s) \/ ScanWarming(s) \/ ScanDestroying(s)
                        /\ todo' = todo \ {s}
    BY <1>6 DEF Scan
  <2>2. existing \in Nat /\ existing' \in {existing, existing + 1}
    <3>1. CASE ScanReady(s) BY <3>1 DEF ScanReady, TypeInv
    <3>2. CASE ScanWarming(s) BY <3>2 DEF ScanWarming, TypeInv
    <3>3. CASE ScanDestroying(s) BY <3>3 DEF ScanDestroying, TypeInv
    <3>4. QED BY <2>1, <3>1, <3>2, <3>3
  <2>3. Cardinality(todo') = Cardinality(todo) - 1 /\ Cardinality(todo) \in Nat
          /\ Cardinality(todo') \in Nat
    BY <2>1, SubsetCard DEF TypeInv
  <2>4. pc = "scan" /\ pc' = "scan" BY <1>6 DEF Scan
  <2>5. QED BY <2>2, <2>3, <2>4, BoxNumbers DEF CountInv, Swapping
<1>7. CASE ScanEnds
  BY <1>7 DEF ScanEnds, CountInv, Swapping, Dooming
<1>8. CASE Doom
  BY <1>8 DEF Doom, Destroying, CountInv, Swapping, Dooming, InDestruction
<1>9. CASE DoomEnds
  <2>1. existing' = 0 /\ pc' = "warm" BY <1>9 DEF DoomEnds
  <2>2. QED BY <2>1, BoxNumbers DEF CountInv, Swapping, InDestruction
<1>10. CASE Relieve
  BY <1>10 DEF Relieve, Destroying, CountInv, HandInv, Swapping, InDestruction
<1>11. CASE RelieveEnds
  BY <1>11 DEF RelieveEnds, CountInv, Swapping, Dooming, InDestruction
<1>12. CASE Remove
  BY <1>12 DEF Remove, CountInv, Swapping, Dooming, InDestruction
<1>13. CASE RemoveFails
  BY <1>13 DEF RemoveFails, Return, CountInv, HandInv, Swapping, Dooming, TypeInv
<1>14. CASE MarkDestroyed
  BY <1>14 DEF MarkDestroyed, Return, CountInv, HandInv, Swapping, Dooming, TypeInv
<1>15. CASE WarmStart
  BY <1>15 DEF WarmStart, CountInv, Swapping, Dooming, InDestruction
<1>16. CASE WarmFails
  BY <1>16 DEF WarmFails, CountInv, Swapping, Dooming, InDestruction
<1>17. CASE WarmSave
  BY <1>17 DEF WarmSave, CountInv, Swapping, Dooming, InDestruction
<1>18. CASE WarmCleanup
  BY <1>18 DEF WarmCleanup, CountInv, Swapping, Dooming, InDestruction
<1>19. CASE WarmEnds
  BY <1>19 DEF WarmEnds, CountInv, Swapping, Dooming, InDestruction
<1>20. ASSUME NEW s \in Boxes, ClaimIdle(s) PROVE CountInv'
  BY <1>20 DEF ClaimIdle, CountInv, Swapping, Dooming, InDestruction
<1>21. ASSUME NEW s \in Boxes, Reclaim(s) PROVE CountInv'
  BY <1>21 DEF Reclaim, Take, CountInv, Swapping, Dooming, InDestruction
<1>22. CASE ClaimEnds
  BY <1>22 DEF ClaimEnds, CountInv, Swapping, Dooming, InDestruction
<1>23. CASE ReclaimFails
  BY <1>23 DEF ReclaimFails, Take, CountInv, Swapping, Dooming, InDestruction
<1>24. CASE Release
  BY <1>24 DEF Release, CountInv, Swapping, Dooming, InDestruction
<1>25. CASE ReclaimEnds
  BY <1>25 DEF ReclaimEnds, CountInv, Swapping, Dooming, InDestruction
<1>26. ASSUME NEW u \in Users, Assign(u) PROVE CountInv'
  BY <1>26 DEF Assign, CountInv, Swapping, Dooming, InDestruction
<1>27. ASSUME NEW u \in Users, BeginWork(u) PROVE CountInv'
  BY <1>27 DEF BeginWork, CountInv, Swapping, Dooming, InDestruction
<1>28. ASSUME NEW s \in Boxes, EndWork(s) PROVE CountInv'
  BY <1>28 DEF EndWork, CountInv, Swapping, Dooming, InDestruction
<1>29. ASSUME NEW s \in Boxes, TimePasses(s) PROVE CountInv'
  BY <1>29 DEF TimePasses, CountInv, Swapping, Dooming, InDestruction
<1>30. CASE Restart
  <2>1. existing' = 0 /\ pc' = "health" BY <1>30 DEF Restart
  <2>2. QED BY <2>1, BoxNumbers DEF CountInv, Swapping, InDestruction
<1>31. CASE UNCHANGED vars
  BY <1>31 DEF vars, CountInv, Swapping, Dooming, InDestruction
<1>32. CASE MaintenanceFails
  <2>1. existing' = 0 /\ pc' = "claim" BY <1>32 DEF MaintenanceFails
  <2>2. QED BY <2>1, BoxNumbers DEF CountInv, Swapping, InDestruction
<1>33. CASE ClaimFails
  BY <1>33 DEF ClaimFails, CountInv, Swapping, Dooming, InDestruction
<1>34. QED
  BY <1>1, <1>2, <1>3, <1>4, <1>5, <1>6, <1>7, <1>8, <1>9, <1>10, <1>11, <1>12, <1>13, <1>14,
       <1>15, <1>16, <1>17, <1>18, <1>19, <1>20, <1>21, <1>22, <1>23, <1>24, <1>25, <1>26,
       <1>27, <1>28, <1>29, <1>30, <1>31, <1>32, <1>33
  DEF Next, Watcher

-----------------------------------------------------------------------------
(* How many of them are unassigned.                                         *)

Unseen == todo \cup doomed \cup {box}

\* Boxes leave the stock one by one.
LEMMA StockSets ==
  ASSUME TypeInv
  PROVE  /\ Held \subseteq Boxes /\ Cardinality(Held) \in Nat
         /\ \A A \in SUBSET Held : Cardinality(A) \in Nat /\ Cardinality(A) <= Cardinality(Held)
         /\ existing \in Nat /\ missing \in Nat /\ Target \in Nat
<1>1. Held \subseteq Boxes BY DEF Held, Stock, InState
<1>2. QED BY <1>1, SubsetCard, PoolBounds DEF TypeInv

\* A step that takes boxes from the stock and starts no count keeps the invariant.
LEMMA StockLess ==
  ASSUME TypeInv, StockInv, happens' = happens, Held' \subseteq Held,
         (Swapping \/ Dooming)' => /\ Swapping \/ Dooming
                                  /\ Held' \ Unseen' \subseteq Held \ Unseen
                                  /\ existing' = existing,
         pc' \in {"warm", "save"} => pc \in {"warm", "save"} /\ missing' = missing
  PROVE  StockInv'
<1> SUFFICES ASSUME "docker_fails" \notin happens PROVE StockInv'
  BY DEF StockInv
<1>1. /\ Cardinality(Held) <= Target
      /\ Swapping \/ Dooming => Cardinality(Held \ Unseen) <= existing
      /\ pc \in {"warm", "save"} => Cardinality(Held) + missing <= Target
  BY DEF StockInv, Unseen
<1>2. Cardinality(Held') <= Cardinality(Held) /\ Cardinality(Held') \in Nat BY StockSets
<1>3. (Swapping \/ Dooming)' => Cardinality(Held' \ Unseen') <= existing'
  <2>1. Held \ Unseen \subseteq Boxes BY StockSets
  <2>2. SUFFICES ASSUME (Swapping \/ Dooming)' PROVE Cardinality(Held' \ Unseen') <= existing'
    OBVIOUS
  <2>3. Cardinality(Held' \ Unseen') \in Nat
        /\ Cardinality(Held' \ Unseen') <= Cardinality(Held \ Unseen)
        /\ Cardinality(Held \ Unseen) \in Nat
    BY <2>1, <2>2, SubsetCard
  <2>4. QED BY <1>1, <2>2, <2>3, StockSets
<1>4. pc' \in {"warm", "save"} => Cardinality(Held') + missing' <= Target
  BY <1>1, <1>2, StockSets
<1>5. QED BY <1>1, <1>2, <1>3, <1>4, StockSets DEF StockInv, Unseen

\* What the round counted is at least what will stay, so that warming keeps to the target.
LEMMA StockStep == TypeInv /\ HandInv /\ BornInv /\ ReadInv /\ GoneInv /\ StockInv /\ CountInv
    /\ [Next]_vars => StockInv'
<1> SUFFICES ASSUME TypeInv, HandInv, BornInv, ReadInv, GoneInv, StockInv, CountInv, [Next]_vars
      PROVE StockInv'
  OBVIOUS
<1> USE DEF docs, docker, counts
<1>1. CASE HealthNormal
  <2>1. Held' = Held /\ existing' = existing /\ pc' = "rotate" /\ happens' = happens
    BY <1>1 DEF HealthNormal, Held, Stock, InState
  <2>2. Held' \ (todo \cup doomed \cup {box})' = {} BY <1>1 DEF HealthNormal, Held, Stock, InState
  <2>3. QED BY <2>1, <2>2, EmptyCard, StockSets DEF StockInv
<1>2. CASE HealthCpu
  <2>1. happens' = happens /\ Held' \subseteq Held
    BY <1>2 DEF HealthCpu, Held, Stock, InState
  <2>2. (Swapping \/ Dooming)' => /\ Swapping \/ Dooming
                                 /\ Held' \ Unseen' \subseteq Held \ Unseen
                                 /\ existing' = existing
    BY <1>2 DEF HealthCpu, Swapping, Dooming, InDestruction
  <2>3. pc' \in {"warm", "save"} => pc \in {"warm", "save"} /\ missing' = missing
    BY <1>2 DEF HealthCpu, HandInv, TypeInv
  <2>4. QED BY <2>1, <2>2, <2>3, StockLess
<1>3. CASE HealthDisk
  <2>1. happens' = happens /\ Held' \subseteq Held
    BY <1>3 DEF HealthDisk, Held, Stock, InState
  <2>2. (Swapping \/ Dooming)' => /\ Swapping \/ Dooming
                                 /\ Held' \ Unseen' \subseteq Held \ Unseen
                                 /\ existing' = existing
    BY <1>3 DEF HealthDisk, Swapping, Dooming, InDestruction
  <2>3. pc' \in {"warm", "save"} => pc \in {"warm", "save"} /\ missing' = missing
    BY <1>3 DEF HealthDisk
  <2>4. QED BY <2>1, <2>2, <2>3, StockLess
<1>4. CASE RotateOldest
  <2>1. happens' = happens /\ Held' \subseteq Held
    BY <1>4 DEF RotateOldest, change_state, Held, Stock, InState
  <2>2. (Swapping \/ Dooming)' => /\ Swapping \/ Dooming
                                 /\ Held' \ Unseen' \subseteq Held \ Unseen
                                 /\ existing' = existing
    BY <1>4, BoxNumbers
    DEF RotateOldest, Destroying, change_state, Held, Stock, InState, Unseen, Swapping, HandInv
  <2>3. pc' \in {"warm", "save"} => pc \in {"warm", "save"} /\ missing' = missing
    BY <1>4 DEF RotateOldest, Destroying
  <2>4. QED BY <2>1, <2>2, <2>3, StockLess
<1>5. CASE RotateNone
  <2>1. happens' = happens /\ Held' \subseteq Held
    BY <1>5 DEF RotateNone, Held, Stock, InState
  <2>2. (Swapping \/ Dooming)' => /\ Swapping \/ Dooming
                                 /\ Held' \ Unseen' \subseteq Held \ Unseen
                                 /\ existing' = existing
    BY <1>5 DEF RotateNone, Held, Stock, InState, Unseen, Swapping
  <2>3. pc' \in {"warm", "save"} => pc \in {"warm", "save"} /\ missing' = missing
    BY <1>5 DEF RotateNone, HandInv, TypeInv
  <2>4. QED BY <2>1, <2>2, <2>3, StockLess
<1>6. CASE Scan
  <2>1. PICK s \in todo : /\ ScanReady(s) \/ ScanWarming(s) \/ ScanDestroying(s)
                        /\ todo' = todo \ {s}
    BY <1>6 DEF Scan
  <2>2. s \in Boxes /\ state \in [Boxes -> States \cup {"none"}] BY DEF TypeInv
  <2>3. StillAsRead(s) BY <1>6, <2>1 DEF Scan, ReadInv
  <2>4. /\ pc = "scan" /\ pc' = "scan" /\ UNCHANGED <<box, happens, next, alive>> BY <1>6 DEF Scan
  <2>5. Held' \subseteq Held
        /\ \/ existing' = existing /\ Held' \ Unseen' \subseteq Held \ Unseen
           \/ existing' = existing + 1 /\ Held' \ Unseen' \subseteq (Held \ Unseen) \cup {s}
    <3>1. CASE ScanReady(s)
      BY <2>1, <2>2, <2>4, <3>1 DEF ScanReady, Held, Stock, InState, Unseen
    <3>2. CASE ScanWarming(s)
      BY <2>1, <2>2, <2>3, <2>4, <3>2
      DEF ScanWarming, StillAsRead, change_state, Held, Stock, InState, Unseen
    <3>3. CASE ScanDestroying(s)
      BY <2>1, <2>2, <2>3, <2>4, <3>3
      DEF ScanDestroying, StillAsRead, change_state, Held, Stock, InState, Unseen
    <3>4. QED BY <2>1, <3>1, <3>2, <3>3
  <2>6. CASE existing' = existing /\ Held' \ Unseen' \subseteq Held \ Unseen
    BY <2>4, <2>5, <2>6, StockLess DEF Swapping
  <2>7. CASE existing' = existing + 1 /\ Held' \ Unseen' \subseteq (Held \ Unseen) \cup {s}
    <3> SUFFICES ASSUME "docker_fails" \notin happens PROVE StockInv'
      BY <2>4 DEF StockInv
    <3> DEFINE Seen == Held \ Unseen
    <3>1. Cardinality(Seen) <= existing /\ Cardinality(Held) <= Target
      BY <2>4 DEF StockInv, Swapping, Unseen
    <3>2. Seen \subseteq Boxes /\ Seen \cup {s} \subseteq Boxes BY <2>2, StockSets
    <3> HIDE DEF Seen
    <3>3. Cardinality(Seen \cup {s}) <= Cardinality(Seen) + 1 /\ Cardinality(Seen) \in Nat
      BY <3>2, SubsetCard
    <3>4. Held' \ Unseen' \subseteq Seen \cup {s} BY <2>7 DEF Seen
    <3>5. /\ Cardinality(Held' \ Unseen') \in Nat /\ Cardinality(Seen \cup {s}) \in Nat
          /\ Cardinality(Held' \ Unseen') <= Cardinality(Seen \cup {s})
      BY <3>2, <3>4, SubsetCard
    <3>6. Cardinality(Held' \ Unseen') <= existing' BY <2>7, <3>1, <3>3, <3>5, StockSets
    <3>7. Cardinality(Held') <= Target BY <2>5, <3>1, StockSets
    <3>8. QED BY <2>4, <3>6, <3>7 DEF StockInv, Unseen
  <2>8. QED BY <2>5, <2>6, <2>7
<1>7. CASE ScanEnds
  <2>1. happens' = happens /\ Held' \subseteq Held
    BY <1>7 DEF ScanEnds, Held, Stock, InState
  <2>2. (Swapping \/ Dooming)' => /\ Swapping \/ Dooming
                                 /\ Held' \ Unseen' \subseteq Held \ Unseen
                                 /\ existing' = existing
    BY <1>7 DEF ScanEnds, Held, Stock, InState, Unseen, Swapping
  <2>3. pc' \in {"warm", "save"} => pc \in {"warm", "save"} /\ missing' = missing
    BY <1>7 DEF ScanEnds
  <2>4. QED BY <2>1, <2>2, <2>3, StockLess
<1>8. CASE Doom
  <2>1. happens' = happens /\ Held' \subseteq Held
    BY <1>8 DEF Doom, Held, Stock, InState
  <2>2. (Swapping \/ Dooming)' => /\ Swapping \/ Dooming
                                 /\ Held' \ Unseen' \subseteq Held \ Unseen
                                 /\ existing' = existing
    BY <1>8, BoxNumbers DEF Doom, Destroying, Held, Stock, InState, Unseen, Dooming, HandInv
  <2>3. pc' \in {"warm", "save"} => pc \in {"warm", "save"} /\ missing' = missing
    BY <1>8 DEF Doom, Destroying
  <2>4. QED BY <2>1, <2>2, <2>3, StockLess
<1>9. CASE DoomEnds
  <2>1. Held' = Held /\ pc' = "warm" /\ happens' = happens
    BY <1>9 DEF DoomEnds, Held, Stock, InState
  <2>2. pc = "doom" /\ doomed = {} /\ todo = {} /\ box = 0
    BY <1>9 DEF DoomEnds, HandInv, Dooming
  <2>3. Held \ (todo \cup doomed \cup {box}) = Held BY <2>2, StockSets, BoxNumbers
  <2>4. missing' = IF existing >= Target THEN 0 ELSE Target - existing BY <1>9 DEF DoomEnds
  <2>5. "docker_fails" \notin happens =>
          Cardinality(Held) <= Target /\ Cardinality(Held) <= existing
    BY <2>2, <2>3 DEF StockInv, Dooming
  <2>6. "docker_fails" \notin happens => Cardinality(Held) + missing' <= Target
    BY <2>4, <2>5, StockSets
  <2>7. QED BY <2>1, <2>5, <2>6 DEF StockInv, Swapping, Dooming, InDestruction
<1>10. CASE Relieve
  <2>1. happens' = happens /\ Held' \subseteq Held
    BY <1>10 DEF Relieve, change_state, Held, Stock, InState
  <2>2. (Swapping \/ Dooming)' => /\ Swapping \/ Dooming
                                 /\ Held' \ Unseen' \subseteq Held \ Unseen
                                 /\ existing' = existing
    BY <1>10 DEF Relieve, Destroying, Swapping, Dooming
  <2>3. pc' \in {"warm", "save"} => pc \in {"warm", "save"} /\ missing' = missing
    BY <1>10 DEF Relieve, Destroying
  <2>4. QED BY <2>1, <2>2, <2>3, StockLess
<1>11. CASE RelieveEnds
  <2>1. happens' = happens /\ Held' \subseteq Held
    BY <1>11 DEF RelieveEnds, Held, Stock, InState
  <2>2. (Swapping \/ Dooming)' => /\ Swapping \/ Dooming
                                 /\ Held' \ Unseen' \subseteq Held \ Unseen
                                 /\ existing' = existing
    BY <1>11 DEF RelieveEnds, Swapping, Dooming, InDestruction
  <2>3. pc' \in {"warm", "save"} => pc \in {"warm", "save"} /\ missing' = missing
    BY <1>11 DEF RelieveEnds
  <2>4. QED BY <2>1, <2>2, <2>3, StockLess
<1>12. CASE Remove
  <2>1. happens' = happens /\ Held' \subseteq Held
    BY <1>12 DEF Remove, Held, Stock, InState
  <2>2. (Swapping \/ Dooming)' => /\ Swapping \/ Dooming
                                 /\ Held' \ Unseen' \subseteq Held \ Unseen
                                 /\ existing' = existing
    BY <1>12 DEF Remove, Held, Stock, InState, Unseen, Swapping, Dooming, InDestruction
  <2>3. pc' \in {"warm", "save"} => pc \in {"warm", "save"} /\ missing' = missing
    BY <1>12 DEF Remove, HandInv, TypeInv
  <2>4. QED BY <2>1, <2>2, <2>3, StockLess
<1>13. CASE RemoveFails
  BY <1>13 DEF RemoveFails, StockInv
<1>14. CASE MarkDestroyed
  <2>1. happens' = happens /\ Held' \subseteq Held
    BY <1>14 DEF MarkDestroyed, change_state, Held, Stock, InState, TypeInv
  <2>2. box \notin Held'
    BY <1>14 DEF MarkDestroyed, change_state, GoneInv, Held, Stock, InState, TypeInv
  <2>3. (Swapping \/ Dooming)' => /\ Swapping \/ Dooming
                                 /\ Held' \ Unseen' \subseteq Held \ Unseen
                                 /\ existing' = existing
    BY <1>14, <2>1, <2>2
    DEF MarkDestroyed, Return, Unseen, Swapping, Dooming, InDestruction, TypeInv
  <2>4. pc' \in {"warm", "save"} => pc \in {"warm", "save"} /\ missing' = missing
    BY <1>14 DEF MarkDestroyed, Return, TypeInv
  <2>5. QED BY <2>1, <2>3, <2>4, StockLess
<1>15. CASE WarmStart
  <2>1. happens' = happens /\ Held' \subseteq Held
    <3>1. happens' = happens /\ state' = state /\ alive' = alive \cup {created + 1}
      BY <1>15 DEF WarmStart
    <3>2. created + 1 \in Boxes => state[created + 1] = "none"
      BY BoxNumbers DEF BornInv
    <3> QED
      BY <3>1, <3>2 DEF Held, Stock, InState
  <2>2. (Swapping \/ Dooming)' => /\ Swapping \/ Dooming
                                 /\ Held' \ Unseen' \subseteq Held \ Unseen
                                 /\ existing' = existing
    BY <1>15 DEF WarmStart, Swapping, Dooming, InDestruction
  <2>3. pc' \in {"warm", "save"} => pc \in {"warm", "save"} /\ missing' = missing
    BY <1>15 DEF WarmStart, HandInv, TypeInv
  <2>4. QED BY <2>1, <2>2, <2>3, StockLess
<1>16. CASE WarmFails
  BY <1>16 DEF WarmFails, StockInv
<1>17. CASE WarmSave
  <2>1. /\ box \in Boxes /\ state' = [state EXCEPT ![box] = "WARMING"]
        /\ pc = "save" /\ pc' = "warm" /\ happens' = happens /\ missing' = missing - 1
    BY <1>17 DEF WarmSave, change_state, HandInv
  <2>2. Held' \subseteq Held \cup {box} /\ Held \cup {box} \subseteq Boxes
    BY <1>17, <2>1 DEF WarmSave, Held, Stock, InState, TypeInv
  <2>3. Cardinality(Held') <= Cardinality(Held) + 1 /\ Cardinality(Held') \in Nat
    <3>1. /\ Cardinality(Held') \in Nat /\ Cardinality(Held') <= Cardinality(Held \cup {box})
          /\ Cardinality(Held \cup {box}) \in Nat
      BY <2>2, SubsetCard
    <3>2. Cardinality(Held \cup {box}) <= Cardinality(Held) + 1 /\ Cardinality(Held) \in Nat
      BY <2>2, SubsetCard
    <3>3. QED BY <3>1, <3>2
  <2>4. missing > 0 BY <2>1 DEF CountInv
  <2>5. "docker_fails" \notin happens => Cardinality(Held) + missing <= Target
    BY <2>1 DEF StockInv
  <2>6. "docker_fails" \notin happens => /\ Cardinality(Held') <= Target
                                        /\ Cardinality(Held') + missing' <= Target
    BY <2>1, <2>3, <2>4, <2>5, StockSets
  <2>7. QED BY <2>1, <2>6 DEF StockInv, Swapping, Dooming, InDestruction
<1>18. CASE WarmCleanup
  <2>1. CASE "docker_fails" \in happens
    BY <1>18, <2>1 DEF WarmCleanup, StockInv
  <2>2. CASE "docker_fails" \notin happens
    <3>1. /\ "mongo_fails" \in happens /\ happens' = happens /\ alive' = alive \ {box}
          /\ state' = state \/ state' = [state EXCEPT ![box] = "WARMING"]
          /\ pc = "save" /\ pc' = "warm" /\ missing' = missing
      BY <1>18, <2>2 DEF WarmCleanup, change_state
    <3>2. Held' \subseteq Held
      BY <3>1 DEF Held, Stock, InState, TypeInv
    <3>3. ~(Swapping \/ Dooming)'
      BY <3>1 DEF Swapping, Dooming, InDestruction
    <3> QED
      BY <3>1, <3>2, <3>3, StockLess
  <2> QED
    BY <2>1, <2>2
<1>19. CASE WarmEnds
  <2>1. happens' = happens /\ Held' \subseteq Held
    BY <1>19 DEF WarmEnds, Held, Stock, InState
  <2>2. (Swapping \/ Dooming)' => /\ Swapping \/ Dooming
                                 /\ Held' \ Unseen' \subseteq Held \ Unseen
                                 /\ existing' = existing
    BY <1>19 DEF WarmEnds, Swapping, Dooming, InDestruction
  <2>3. pc' \in {"warm", "save"} => pc \in {"warm", "save"} /\ missing' = missing
    BY <1>19 DEF WarmEnds, HandInv, TypeInv
  <2>4. QED BY <2>1, <2>2, <2>3, StockLess
<1>20. ASSUME NEW s \in Boxes, ClaimIdle(s) PROVE StockInv'
  <2>1. happens' = happens /\ Held' \subseteq Held
    BY <1>20 DEF ClaimIdle, change_state, Held, Stock, InState
  <2>2. (Swapping \/ Dooming)' => /\ Swapping \/ Dooming
                                 /\ Held' \ Unseen' \subseteq Held \ Unseen
                                 /\ existing' = existing
    BY <1>20 DEF ClaimIdle, Swapping, Dooming, InDestruction
  <2>3. pc' \in {"warm", "save"} => pc \in {"warm", "save"} /\ missing' = missing
    BY <1>20 DEF ClaimIdle
  <2>4. QED BY <2>1, <2>2, <2>3, StockLess
<1>21. ASSUME NEW s \in Boxes, Reclaim(s) PROVE StockInv'
  <2>1. happens' = happens /\ Held' \subseteq Held
    BY <1>21 DEF Reclaim, change_state, Held, Stock, InState
  <2>2. (Swapping \/ Dooming)' => /\ Swapping \/ Dooming
                                 /\ Held' \ Unseen' \subseteq Held \ Unseen
                                 /\ existing' = existing
    BY <1>21 DEF Reclaim, Swapping, Dooming, InDestruction
  <2>3. pc' \in {"warm", "save"} => pc \in {"warm", "save"} /\ missing' = missing
    BY <1>21 DEF Reclaim
  <2>4. QED BY <2>1, <2>2, <2>3, StockLess
<1>22. CASE ClaimEnds
  <2>1. happens' = happens /\ Held' \subseteq Held
    BY <1>22 DEF ClaimEnds, Held, Stock, InState
  <2>2. (Swapping \/ Dooming)' => /\ Swapping \/ Dooming
                                 /\ Held' \ Unseen' \subseteq Held \ Unseen
                                 /\ existing' = existing
    BY <1>22 DEF ClaimEnds, Swapping, Dooming, InDestruction
  <2>3. pc' \in {"warm", "save"} => pc \in {"warm", "save"} /\ missing' = missing
    BY <1>22 DEF ClaimEnds, HandInv, TypeInv
  <2>4. QED BY <2>1, <2>2, <2>3, StockLess
<1>23. CASE ReclaimFails
  <2>1. happens' = happens /\ Held' \subseteq Held
    BY <1>23 DEF ReclaimFails, Held, Stock, InState
  <2>2. (Swapping \/ Dooming)' => /\ Swapping \/ Dooming
                                 /\ Held' \ Unseen' \subseteq Held \ Unseen
                                 /\ existing' = existing
    BY <1>23 DEF ReclaimFails, Take, Swapping, Dooming, InDestruction
  <2>3. pc' \in {"warm", "save"} => pc \in {"warm", "save"} /\ missing' = missing
    BY <1>23 DEF ReclaimFails
  <2>4. QED BY <2>1, <2>2, <2>3, StockLess
<1>24. CASE Release
  <2>1. happens' = happens /\ Held' \subseteq Held
    BY <1>24 DEF Release, Held, Stock, InState
  <2>2. (Swapping \/ Dooming)' => /\ Swapping \/ Dooming
                                 /\ Held' \ Unseen' \subseteq Held \ Unseen
                                 /\ existing' = existing
    BY <1>24 DEF Release, Swapping, Dooming, InDestruction
  <2>3. pc' \in {"warm", "save"} => pc \in {"warm", "save"} /\ missing' = missing
    BY <1>24 DEF Release, HandInv, TypeInv
  <2>4. QED BY <2>1, <2>2, <2>3, StockLess
<1>25. CASE ReclaimEnds
  <2>1. happens' = happens /\ Held' \subseteq Held
    BY <1>25 DEF ReclaimEnds, Held, Stock, InState
  <2>2. (Swapping \/ Dooming)' => /\ Swapping \/ Dooming
                                 /\ Held' \ Unseen' \subseteq Held \ Unseen
                                 /\ existing' = existing
    BY <1>25 DEF ReclaimEnds, Swapping, Dooming, InDestruction
  <2>3. pc' \in {"warm", "save"} => pc \in {"warm", "save"} /\ missing' = missing
    BY <1>25 DEF ReclaimEnds, HandInv, TypeInv
  <2>4. QED BY <2>1, <2>2, <2>3, StockLess
<1>26. ASSUME NEW u \in Users, Assign(u) PROVE StockInv'
  <2>1. happens' = happens /\ Held' \subseteq Held
    BY <1>26 DEF Assign, change_state, Held, Stock, InState
  <2>2. (Swapping \/ Dooming)' => /\ Swapping \/ Dooming
                                 /\ Held' \ Unseen' \subseteq Held \ Unseen
                                 /\ existing' = existing
    BY <1>26 DEF Assign, change_state, Held, Stock, InState, Unseen, Swapping, Dooming, InDestruction
  <2>3. pc' \in {"warm", "save"} => pc \in {"warm", "save"} /\ missing' = missing
    BY <1>26 DEF Assign
  <2>4. QED BY <2>1, <2>2, <2>3, StockLess
<1>27. ASSUME NEW u \in Users, BeginWork(u) PROVE StockInv'
  <2>1. happens' = happens /\ Held' \subseteq Held
    BY <1>27 DEF BeginWork, Held, Stock, InState
  <2>2. (Swapping \/ Dooming)' => /\ Swapping \/ Dooming
                                 /\ Held' \ Unseen' \subseteq Held \ Unseen
                                 /\ existing' = existing
    BY <1>27 DEF BeginWork, Held, Stock, InState, Unseen, Swapping, Dooming, InDestruction
  <2>3. pc' \in {"warm", "save"} => pc \in {"warm", "save"} /\ missing' = missing
    BY <1>27 DEF BeginWork
  <2>4. QED BY <2>1, <2>2, <2>3, StockLess
<1>28. ASSUME NEW s \in Boxes, EndWork(s) PROVE StockInv'
  <2>1. happens' = happens /\ Held' \subseteq Held
    BY <1>28 DEF EndWork, Held, Stock, InState
  <2>2. (Swapping \/ Dooming)' => /\ Swapping \/ Dooming
                                 /\ Held' \ Unseen' \subseteq Held \ Unseen
                                 /\ existing' = existing
    BY <1>28 DEF EndWork, Held, Stock, InState, Unseen, Swapping, Dooming, InDestruction
  <2>3. pc' \in {"warm", "save"} => pc \in {"warm", "save"} /\ missing' = missing
    BY <1>28 DEF EndWork, HandInv, TypeInv
  <2>4. QED BY <2>1, <2>2, <2>3, StockLess
<1>29. ASSUME NEW s \in Boxes, TimePasses(s) PROVE StockInv'
  <2>1. happens' = happens /\ Held' \subseteq Held
    BY <1>29 DEF TimePasses, Held, Stock, InState
  <2>2. (Swapping \/ Dooming)' => /\ Swapping \/ Dooming
                                 /\ Held' \ Unseen' \subseteq Held \ Unseen
                                 /\ existing' = existing
    BY <1>29 DEF TimePasses, Held, Stock, InState, Unseen, Swapping, Dooming, InDestruction
  <2>3. pc' \in {"warm", "save"} => pc \in {"warm", "save"} /\ missing' = missing
    BY <1>29 DEF TimePasses, HandInv, TypeInv
  <2>4. QED BY <2>1, <2>2, <2>3, StockLess
<1>30. CASE Restart
  <2>1. happens' = happens /\ Held' \subseteq Held
    BY <1>30 DEF Restart, Held, Stock, InState
  <2>2. (Swapping \/ Dooming)' => /\ Swapping \/ Dooming
                                 /\ Held' \ Unseen' \subseteq Held \ Unseen
                                 /\ existing' = existing
    BY <1>30 DEF Restart, Swapping, Dooming
  <2>3. pc' \in {"warm", "save"} => pc \in {"warm", "save"} /\ missing' = missing
    BY <1>30 DEF Restart
  <2>4. QED BY <2>1, <2>2, <2>3, StockLess
<1>31. CASE UNCHANGED vars
  <2>1. happens' = happens /\ Held' \subseteq Held
    BY <1>31 DEF vars, Held, Stock, InState
  <2>2. (Swapping \/ Dooming)' => /\ Swapping \/ Dooming
                                 /\ Held' \ Unseen' \subseteq Held \ Unseen
                                 /\ existing' = existing
    BY <1>31 DEF vars, Held, Stock, InState, Unseen, Swapping, Dooming, InDestruction
  <2>3. pc' \in {"warm", "save"} => pc \in {"warm", "save"} /\ missing' = missing
    BY <1>31 DEF vars, HandInv, TypeInv
  <2>4. QED BY <2>1, <2>2, <2>3, StockLess
<1>32. CASE MaintenanceFails
  <2>1. happens' = happens /\ Held' \subseteq Held
    BY <1>32 DEF MaintenanceFails, Held, Stock, InState
  <2>2. ~(Swapping \/ Dooming)' /\ pc' \notin {"warm", "save"}
    BY <1>32 DEF MaintenanceFails, Swapping, Dooming, InDestruction
  <2>3. QED BY <2>1, <2>2, StockLess
<1>33. CASE ClaimFails
  <2>1. happens' = happens /\ Held' \subseteq Held
    BY <1>33 DEF ClaimFails, Held, Stock, InState
  <2>2. ~(Swapping \/ Dooming)' /\ pc' \notin {"warm", "save"}
    BY <1>33 DEF ClaimFails, Swapping, Dooming, InDestruction
  <2>3. QED BY <2>1, <2>2, StockLess
<1>34. QED
  BY <1>1, <1>2, <1>3, <1>4, <1>5, <1>6, <1>7, <1>8, <1>9, <1>10, <1>11, <1>12, <1>13, <1>14,
       <1>15, <1>16, <1>17, <1>18, <1>19, <1>20, <1>21, <1>22, <1>23, <1>24, <1>25, <1>26,
       <1>27, <1>28, <1>29, <1>30, <1>31, <1>32, <1>33
  DEF Next, Watcher

-----------------------------------------------------------------------------
(* What always holds.                                                       *)

\* The pool is empty at first.
LEMMA PoolInit == Init => PoolIInv
<1> SUFFICES ASSUME Init PROVE PoolIInv
  OBVIOUS
<1>1. Held = {} BY DEF Init, Held, Stock, InState
<1>2. TypeInv BY PoolBounds DEF Init, TypeInv, Phases, NoSnapshot
<1>3. HandInv BY DEF Init, HandInv, InDestruction, Dooming
<1>4. BornInv BY DEF Init, BornInv, InDestruction
<1>5. ReadInv BY DEF Init, ReadInv, InDestruction
<1>6. GoneInv BY DEF Init, GoneInv, DestroyedIsGone
<1>7. CountInv BY PoolBounds DEF Init, CountInv, Swapping
<1>8. StockInv BY <1>1, EmptyCard, PoolBounds DEF Init, StockInv
<1>9. QED BY <1>2, <1>3, <1>4, <1>5, <1>6, <1>7, <1>8 DEF PoolIInv

\* The parts of the invariant preserve each other.
LEMMA PoolNext == PoolIInv /\ [Next]_vars => PoolIInv'
BY TypeStep, HandStep, BornStep, ReadStep, GoneStep, CountStep, StockStep DEF PoolIInv

\* The inductive invariant of the pool.
LEMMA PoolIndInv == Spec => []PoolIInv
BY PoolInit, PoolNext, PTL DEF Spec

\* In any scenario of host pressure, failing docker commands and restarts, the documents
\* and the watcher's work keep their types, no more boxes are counted than there are,
\* and a document says DESTROYED only when its container is gone.
THEOREM PoolSafe == Spec => []PoolInv
<1>1. PoolIInv => PoolInv
  BY DEF PoolIInv, TypeInv, CountInv, GoneInv, PoolInv, TypeOK
<1>2. QED BY PoolIndInv, <1>1, PTL

\* While docker commands work, the running boxes no user has never exceed the target, whatever
\* its size: swaps, timeouts, assignments, restarts and failing writes between the count and
\* the warming only make room.  Their documents do so only where no write fails.
THEOREM StockBounded == Spec => []PoolBounded
<1>1. PoolIInv => PoolBounded
  <2> SUFFICES ASSUME PoolIInv, "docker_fails" \notin happens
               PROVE  /\ Cardinality(Stock \cap alive) <= Target
                      /\ "mongo_fails" \notin happens => Cardinality(Stock) <= Target
    BY DEF PoolBounded, Stock
  <2>1. Cardinality(Held) <= Target /\ TypeInv
    BY DEF PoolIInv, StockInv
  <2>2. Stock \cap alive \subseteq Held /\ Held \subseteq Boxes
    BY DEF Held, Stock, InState
  <2>3. "mongo_fails" \notin happens => Held = Stock
    BY DEF Held
  <2>4. /\ Cardinality(Stock \cap alive) <= Cardinality(Held)
        /\ Cardinality(Stock \cap alive) \in Nat /\ Cardinality(Held) \in Nat
    BY <2>1, <2>2, SubsetCard
  <2> QED
    BY <2>1, <2>3, <2>4, PoolBounds
<1>2. QED BY PoolIndInv, <1>1, PTL

\* The order of the states.
LEMMA RankValues ==
  /\ Rank["none"] = 0 /\ Rank["WARMING"] = 1 /\ Rank["READY"] = 2 /\ Rank["USER_ACTIVE"] = 3
  /\ Rank["RETIRING"] = 4 /\ Rank["DESTROYING"] = 5 /\ Rank["DESTROYED"] = 6
  /\ \A x \in States \cup {"none"} : Rank[x] \in Nat /\ Rank[x] <= 6
BY DEF Rank, States

\* One box moves on, and the others stay.
LEMMA OneMoves ==
  ASSUME TypeInv, NEW s \in Boxes, NEW to \in States, state' = [state EXCEPT ![s] = to],
         Rank[state[s]] <= Rank[to]
  PROVE  \A t \in Boxes : Rank[state[t]] <= Rank[state'[t]]
BY RankValues DEF TypeInv

\* Every step moves boxes forward in their life.
LEMMA Forward ==
  ASSUME TypeInv, HandInv, BornInv, ReadInv, [Next]_vars
  PROVE  \A b \in Boxes : Rank[state[b]] <= Rank[state'[b]]
<1> USE DEF docs, docker, counts
<1>1. state' = state => \A b \in Boxes : Rank[state[b]] <= Rank[state'[b]]
  BY RankValues DEF TypeInv
<1>2. CASE HealthNormal
  BY <1>1, <1>2 DEF HealthNormal
<1>3. CASE HealthCpu
  BY <1>1, <1>3 DEF HealthCpu
<1>4. CASE HealthDisk
  BY <1>1, <1>4 DEF HealthDisk
<1>5. CASE RotateOldest
  <2>1. PICK b \in todo : state' = [state EXCEPT ![b] = "DESTROYING"]
    BY <1>5 DEF RotateOldest, Destroying, change_state
  <2>2. b \in Boxes /\ StillAsRead(b) BY <1>5 DEF RotateOldest, ReadInv, TypeInv
  <2>3. Rank[state[b]] <= Rank["DESTROYING"] BY <2>2, RankValues DEF StillAsRead
  <2>4. QED BY <2>1, <2>2, <2>3, OneMoves DEF States
<1>6. CASE RotateNone
  BY <1>1, <1>6 DEF RotateNone
<1>7. CASE Scan
  <2>1. PICK b \in todo : ScanReady(b) \/ ScanWarming(b) \/ ScanDestroying(b)
    BY <1>7 DEF Scan
  <2>2. b \in Boxes /\ StillAsRead(b) BY <1>7 DEF Scan, ReadInv, TypeInv
  <2>3. CASE ScanReady(b) BY <1>1, <2>3 DEF ScanReady
  <2>4. CASE ScanWarming(b)
    <3>1. state' = [state EXCEPT ![b] = "READY"] \/ state' = state
      BY <2>4 DEF ScanWarming, change_state
    <3>2. Rank[state[b]] <= Rank["READY"]
      BY <2>2, <2>4, RankValues DEF ScanWarming, StillAsRead
    <3>3. QED BY <1>1, <2>2, <3>1, <3>2, OneMoves DEF States
  <2>5. CASE ScanDestroying(b)
    <3>1. state' = [state EXCEPT ![b] = "DESTROYED"] \/ state' = state
      BY <2>5 DEF ScanDestroying, change_state
    <3>2. Rank[state[b]] <= Rank["DESTROYED"] BY <2>2, RankValues DEF TypeInv
    <3>3. QED BY <1>1, <2>2, <3>1, <3>2, OneMoves DEF States
  <2>6. QED BY <2>1, <2>3, <2>4, <2>5
<1>8. CASE ScanEnds
  BY <1>1, <1>8 DEF ScanEnds
<1>9. CASE Doom
  BY <1>1, <1>9 DEF Doom
<1>10. CASE DoomEnds
  BY <1>1, <1>10 DEF DoomEnds
<1>11. CASE Relieve
  <2>1. PICK b \in todo : state' = [state EXCEPT ![b] = "DESTROYING"]
    BY <1>11 DEF Relieve, Destroying, change_state
  <2>2. b \in Boxes /\ StillAsRead(b) BY <1>11 DEF Relieve, ReadInv, TypeInv
  <2>3. Rank[state[b]] <= Rank["DESTROYING"] BY <2>2, RankValues DEF StillAsRead
  <2>4. QED BY <2>1, <2>2, <2>3, OneMoves DEF States
<1>12. CASE RelieveEnds
  BY <1>1, <1>12 DEF RelieveEnds
<1>13. CASE Remove
  BY <1>1, <1>13 DEF Remove
<1>14. CASE RemoveFails
  BY <1>1, <1>14 DEF RemoveFails
<1>15. CASE MarkDestroyed
  <2>1. box \in Boxes /\ (state' = state \/ state' = [state EXCEPT ![box] = "DESTROYED"])
    BY <1>15 DEF MarkDestroyed, change_state, HandInv
  <2>2. Rank[state[box]] <= Rank["DESTROYED"]
    BY <1>15, <2>1, RankValues DEF MarkDestroyed, TypeInv
  <2>3. QED BY <1>1, <2>1, <2>2, OneMoves DEF States
<1>16. CASE WarmStart
  BY <1>1, <1>16 DEF WarmStart
<1>17. CASE WarmFails
  BY <1>1, <1>17 DEF WarmFails
<1>18. CASE WarmSave
  <2>1. box \in Boxes /\ state' = [state EXCEPT ![box] = "WARMING"]
    BY <1>18 DEF WarmSave, change_state, HandInv
  <2>2. Rank[state[box]] <= Rank["WARMING"] BY <1>18, <2>1, RankValues DEF WarmSave, BornInv
  <2>3. QED BY <2>1, <2>2, OneMoves DEF States
<1>19. CASE WarmCleanup
  <2>1. box \in Boxes /\ (state' = state \/ state' = [state EXCEPT ![box] = "WARMING"])
    BY <1>19 DEF WarmCleanup, change_state, HandInv
  <2>2. Rank[state[box]] <= Rank["WARMING"] BY <1>19, <2>1, RankValues DEF WarmCleanup, BornInv
  <2>3. QED BY <1>1, <2>1, <2>2, OneMoves DEF States
<1>20. CASE WarmEnds
  BY <1>1, <1>20 DEF WarmEnds
<1>21. ASSUME NEW s \in Boxes, ClaimIdle(s) PROVE \A b \in Boxes : Rank[state[b]] <= Rank[state'[b]]
  <2>1. s \in Boxes /\ state' = [state EXCEPT ![s] = "RETIRING"]
    BY <1>21 DEF ClaimIdle, change_state
  <2>2. Rank[state[s]] <= Rank["RETIRING"] BY <1>21, <2>1, RankValues DEF ClaimIdle
  <2>3. QED BY <2>1, <2>2, OneMoves DEF States
<1>22. ASSUME NEW s \in Boxes, Reclaim(s) PROVE \A b \in Boxes : Rank[state[b]] <= Rank[state'[b]]
  <2>1. s \in Boxes /\ state' = [state EXCEPT ![s] = "DESTROYING"]
    BY <1>22 DEF Reclaim, change_state
  <2>2. Rank[state[s]] <= Rank["DESTROYING"]
    BY <1>22, <2>1, RankValues DEF Reclaim, Take, ReadInv, InState
  <2>3. QED BY <2>1, <2>2, OneMoves DEF States
<1>23. CASE ClaimEnds
  BY <1>1, <1>23 DEF ClaimEnds
<1>24. CASE ReclaimFails
  BY <1>1, <1>24 DEF ReclaimFails
<1>25. CASE Release
  BY <1>1, <1>25 DEF Release
<1>26. CASE ReclaimEnds
  BY <1>1, <1>26 DEF ReclaimEnds
<1>27. ASSUME NEW u \in Users, Assign(u) PROVE \A b \in Boxes : Rank[state[b]] <= Rank[state'[b]]
  <2>1. PICK b \in InState({"READY"}) : state' = [state EXCEPT ![b] = "USER_ACTIVE"]
    BY <1>27 DEF Assign, change_state
  <2>2. b \in Boxes /\ Rank[state[b]] <= Rank["USER_ACTIVE"] BY RankValues DEF InState
  <2>3. QED BY <2>1, <2>2, OneMoves DEF States
<1>28. ASSUME NEW u \in Users, BeginWork(u) PROVE \A b \in Boxes : Rank[state[b]] <= Rank[state'[b]]
  BY <1>1, <1>28 DEF BeginWork
<1>29. ASSUME NEW s \in Boxes, EndWork(s) PROVE \A b \in Boxes : Rank[state[b]] <= Rank[state'[b]]
  BY <1>1, <1>29 DEF EndWork
<1>30. ASSUME NEW s \in Boxes, TimePasses(s)
         PROVE \A b \in Boxes : Rank[state[b]] <= Rank[state'[b]]
  BY <1>1, <1>30 DEF TimePasses
<1>31. CASE Restart
  BY <1>1, <1>31 DEF Restart
<1>32. CASE UNCHANGED vars
  BY <1>1, <1>32 DEF vars
<1>33. CASE MaintenanceFails
  BY <1>1, <1>33 DEF MaintenanceFails
<1>34. CASE ClaimFails
  BY <1>1, <1>34 DEF ClaimFails
<1>35. QED
  BY <1>2, <1>3, <1>4, <1>5, <1>6, <1>7, <1>8, <1>9, <1>10, <1>11, <1>12, <1>13, <1>14, <1>15,
       <1>16, <1>17, <1>18, <1>19, <1>20, <1>21, <1>22, <1>23, <1>24, <1>25, <1>26, <1>27,
       <1>28, <1>29, <1>30, <1>31, <1>32, <1>33, <1>34
  DEF Next, Watcher

\* A box never goes back in its life: in whatever order the watcher, users and restarts
\* act, a state written without looking is never earlier than the one it replaces.
THEOREM NoWayBack == Spec => NeverBack
<1>1. PoolIInv /\ [Next]_vars => [\A s \in Boxes : Rank[state[s]] <= Rank[state'[s]]]_vars
  BY Forward DEF PoolIInv
<1>2. QED BY PoolIndInv, <1>1, PTL DEF Spec, NeverBack
=============================================================================
