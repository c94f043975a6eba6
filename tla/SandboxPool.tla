----------------------------- MODULE SandboxPool -----------------------------
(***************************************************************************)
(* The pool of sandboxes: the Watcher keeps Target warm containers, swaps   *)
(* old ones, frees disk space, and takes back the sandboxes of idle users;  *)
(* requests of users are assigned a READY sandbox and protect it while they *)
(* run.  Sandbox documents live in MongoDB, containers in Docker, and one   *)
(* service instance runs one watcher.                                       *)
(*                                                                          *)
(* The watcher awaits between reading the documents and acting on them; each*)
(* await is a step of its own.  A box is a sandbox document and its         *)
(* container, named in the order of docker run.  Ages, probes and pressure  *)
(* are choices of the environment; Workspace has the files.                 *)
(***************************************************************************)
EXTENDS Integers, FiniteSets

CONSTANTS
  Users,        \* user ids
  Nobody,       \* the empty binding
  MaxBoxes,     \* bound on the containers of a behaviour
  Target,       \* pool.target_ready
  MaxRetries,   \* pool.warmup.max_retries
  Scenarios     \* sets of events the pool is exposed to, one drawn per behaviour

\* rotate: a READY box is too old; unhealthy: one fails its probe; slow: warming or
\* destroying takes too long; disk, cpu: host pressure; docker_fails: a docker
\* command fails; mongo_fails: a document cannot be read or written, or it is written and
\* the reply is an error; reclaim_fails: the same, only while a box is taken back;
\* restart: the service dies and comes back.
Events == {"rotate", "unhealthy", "slow", "disk", "cpu", "docker_fails", "mongo_fails",
           "reclaim_fails", "restart"}

ASSUME NobodyAssumption == Nobody \notin Users
ASSUME PoolBounds == MaxBoxes \in Nat /\ Target \in Nat /\ MaxRetries \in Nat
ASSUME ScenariosAssumption == Scenarios \subseteq SUBSET Events

VARIABLES
  state,    \* box -> its document's state, "none" while there is no document
  user,     \* box -> bind_user_id
  working,  \* box -> active_command_count
  idle,     \* box -> is its last activity older than the idle timeout?
  alive,    \* the containers Docker runs
  created,  \* containers started so far
  pc,       \* where the watcher is (see Phases)
  snap,     \* the states the watcher read
  todo,     \* boxes it has still to look at
  doomed,   \* force_destroy_sandbox_list
  box,      \* the box in hand
  next,     \* where it goes after destroying that box
  existing, \* ready_count + warming_count
  missing,  \* containers it has still to warm
  retries,  \* failures of warm_sandboxes in a row
  again,    \* retiring boxes it read besides those it claimed
  happens   \* what may befall the pool in this behaviour

vars == <<state, user, working, idle, alive, created, pc, snap, todo, doomed, box, next,
          existing, missing, retries, again, happens>>

docs    == <<state, user, working, idle>>
docker  == <<alive, created>>
counts  == <<existing, missing, retries>>

-----------------------------------------------------------------------------
Boxes == 1..MaxBoxes

States == {"WARMING", "READY", "USER_ACTIVE", "RETIRING", "DESTROYING", "DESTROYED"}

Phases == {"health", "rotate", "scan", "doom", "relieve", "remove", "mark", "warm", "save",
           "claim", "reclaim", "release"}

InState(S) == {s \in Boxes : state[s] \in S}

BoxesOf(u) == {s \in InState({"USER_ACTIVE", "RETIRING"}) : user[s] = u}

NoSnapshot  == [s \in Boxes |-> "none"]
Snapshot(S) == [s \in Boxes |-> IF state[s] \in S THEN state[s] ELSE "none"]

\* change_state: no condition on the state the box is in.
change_state(s, to) == state' = [state EXCEPT ![s] = to]

Init ==
  /\ state = [s \in Boxes |-> "none"]
  /\ user = [s \in Boxes |-> Nobody]
  /\ working = [s \in Boxes |-> 0]
  /\ idle = [s \in Boxes |-> FALSE]
  /\ alive = {} /\ created = 0
  /\ pc = "health" /\ snap = NoSnapshot
  /\ todo = {} /\ doomed = {} /\ box = 0 /\ next = "health"
  /\ existing = 0 /\ missing = 0 /\ retries = 0
  /\ again = {}
  /\ happens \in Scenarios

-----------------------------------------------------------------------------
(* maintain_sandbox_pool                                                    *)

\* The host is healthy: the states of all unassigned and dying boxes are read.
HealthNormal ==
  /\ pc = "health"
  /\ snap' = Snapshot({"READY", "WARMING", "DESTROYING"})
  /\ todo' = InState({"READY", "WARMING", "DESTROYING"})
  /\ pc' = "rotate"
  /\ UNCHANGED <<docs, docker, doomed, box, next, counts, again, happens>>

\* CPU pressure only pauses the pool.
HealthCpu ==
  /\ pc = "health" /\ "cpu" \in happens
  /\ pc' = "claim"
  /\ UNCHANGED <<docs, docker, snap, todo, doomed, box, next, counts, again, happens>>

\* Disk pressure: relieve_host_pressure reads the unassigned boxes.
HealthDisk ==
  /\ pc = "health" /\ "disk" \in happens
  /\ snap' = Snapshot({"READY", "WARMING"})
  /\ todo' = InState({"READY", "WARMING"})
  /\ pc' = "relieve"
  /\ UNCHANGED <<docs, docker, doomed, box, next, counts, again, happens>>

\* Destroy box s next, then go on at phase p.
Destroying(s, p) ==
  /\ box' = s /\ next' = p
  /\ pc' = "remove"

\* The oldest READY box that reached its maximal age is replaced ...
RotateOldest ==
  /\ pc = "rotate" /\ "rotate" \in happens
  /\ \E s \in {t \in todo : snap[t] = "READY"} :
       /\ change_state(s, "DESTROYING")
       /\ todo' = todo \ {s}
       /\ Destroying(s, "scan")
  /\ UNCHANGED <<user, working, idle, docker, snap, doomed, counts, again, happens>>

\* ... if there is one.
RotateNone ==
  /\ pc = "rotate"
  /\ pc' = "scan"
  /\ UNCHANGED <<docs, docker, snap, todo, doomed, box, next, counts, again, happens>>

\* check_ready or check_container_status of box s, by the state that was read.
ScanReady(s) ==
  /\ snap[s] = "READY"
  /\ \/ s \in alive /\ existing' = existing + 1 /\ UNCHANGED doomed
     \/ /\ s \notin alive \/ "unhealthy" \in happens
        /\ doomed' = doomed \cup {s} /\ UNCHANGED existing
  /\ UNCHANGED <<state, user>>

\* Mutant: a box that is still warming is not counted.
scan_warming_uncounted(s) ==
  /\ snap[s] = "WARMING"
  /\ \/ s \in alive /\ change_state(s, "READY") /\ existing' = existing + 1 /\ UNCHANGED doomed
     \/ UNCHANGED <<existing, state, doomed>>
  /\ UNCHANGED user

ScanWarming(s) ==
  /\ snap[s] = "WARMING"
  /\ \/ s \in alive /\ change_state(s, "READY") /\ existing' = existing + 1 /\ UNCHANGED doomed
     \/ existing' = existing + 1 /\ UNCHANGED <<state, doomed>>
     \/ /\ s \notin alive \/ "slow" \in happens
        /\ doomed' = doomed \cup {s} /\ UNCHANGED <<state, existing>>
  /\ UNCHANGED user

ScanDestroying(s) ==
  /\ snap[s] = "DESTROYING"
  /\ \/ /\ s \notin alive
        /\ change_state(s, "DESTROYED")
        /\ user' = [user EXCEPT ![s] = Nobody]
        /\ UNCHANGED doomed
     \/ /\ s \in alive
        /\ doomed' \in {doomed, doomed \cup {s}}
        /\ UNCHANGED <<state, user>>
  /\ UNCHANGED existing

Scan ==
  /\ pc = "scan"
  /\ \E s \in todo :
       /\ ScanReady(s) \/ ScanWarming(s) \/ ScanDestroying(s)
       /\ todo' = todo \ {s}
  /\ UNCHANGED <<working, idle, docker, pc, snap, box, next, missing, retries, again, happens>>

ScanEnds ==
  /\ pc = "scan" /\ todo = {}
  /\ snap' = NoSnapshot
  /\ pc' = "doom"
  /\ UNCHANGED <<docs, docker, todo, doomed, box, next, counts, again, happens>>

\* force_destroy_specified_sandboxes, one box after the other ...
Doom ==
  /\ pc = "doom"
  /\ \E s \in doomed :
       /\ doomed' = doomed \ {s}
       /\ Destroying(s, "doom")
  /\ UNCHANGED <<docs, docker, snap, todo, counts, again, happens>>

\* ... and then the pool is filled up.
DoomEnds ==
  /\ pc = "doom" /\ doomed = {}
  /\ missing' = IF existing >= Target THEN 0 ELSE Target - existing
  /\ existing' = 0 /\ retries' = 0
  /\ pc' = "warm"
  /\ UNCHANGED <<docs, docker, snap, todo, doomed, box, next, again, happens>>

\* relieve_host_pressure: READY boxes before WARMING ones, until the disk recovers.
Relieve ==
  /\ pc = "relieve"
  /\ \E s \in todo :
       /\ snap[s] = "WARMING" => \A t \in todo : snap[t] = "WARMING"
       /\ change_state(s, "DESTROYING")
       /\ todo' = todo \ {s}
       /\ Destroying(s, "relieve")
  /\ UNCHANGED <<user, working, idle, docker, snap, doomed, counts, again, happens>>

RelieveEnds ==
  /\ pc = "relieve"
  /\ todo' = {} /\ snap' = NoSnapshot
  /\ pc' = "claim"
  /\ UNCHANGED <<docs, docker, doomed, box, next, counts, again, happens>>

-----------------------------------------------------------------------------
(* force_destroy_specified_sandbox and warm_sandboxes                       *)

Return == pc' = next /\ next' = "health" /\ box' = 0

Remove ==
  /\ pc = "remove"
  /\ alive' = alive \ {box}
  /\ pc' = "mark"
  /\ UNCHANGED <<docs, created, snap, todo, doomed, box, next, counts, again, happens>>

\* Mutant: the document is written although the container could not be removed.
remove_fails_unnoticed ==
  /\ pc = "remove" /\ "docker_fails" \in happens
  /\ pc' = "mark"
  /\ UNCHANGED <<docs, docker, snap, todo, doomed, box, next, counts, again, happens>>

RemoveFails ==
  /\ pc = "remove" /\ "docker_fails" \in happens
  /\ Return
  /\ UNCHANGED <<docs, docker, snap, todo, doomed, counts, again, happens>>

\* The container is gone.  A document that cannot be written stays as it was, and the round
\* goes on.
MarkDestroyed ==
  /\ pc = "mark"
  /\ \/ change_state(box, "DESTROYED") /\ user' = [user EXCEPT ![box] = Nobody]
     \/ "mongo_fails" \in happens /\ UNCHANGED <<state, user>>
  /\ Return
  /\ UNCHANGED <<working, idle, docker, snap, todo, doomed, counts, again, happens>>

\* docker run
WarmStart ==
  /\ pc = "warm" /\ missing > 0 /\ retries < MaxRetries
  /\ created < MaxBoxes
  /\ created' = created + 1
  /\ alive' = alive \cup {created'}
  /\ box' = created'
  /\ pc' = "save"
  /\ UNCHANGED <<docs, snap, todo, doomed, next, counts, again, happens>>

\* docker run fails: nothing to clean up.
WarmFails ==
  /\ pc = "warm" /\ missing > 0 /\ retries < MaxRetries
  /\ "docker_fails" \in happens
  /\ retries' = retries + 1
  /\ UNCHANGED <<docs, docker, pc, snap, todo, doomed, box, next, existing, missing, again, happens>>

WarmSave ==
  /\ pc = "save"
  /\ change_state(box, "WARMING")
  /\ missing' = missing - 1 /\ retries' = 0
  /\ pc' = "warm" /\ box' = 0
  /\ UNCHANGED <<user, working, idle, docker, snap, todo, doomed, next, existing, again, happens>>

\* docker port or the save fails: the container is destroyed, if that does not fail as
\* well, and its document stays if it was written all the same.
WarmCleanup ==
  /\ pc = "save"
  /\ \/ "docker_fails" \in happens /\ UNCHANGED state
     \/ "mongo_fails" \in happens /\ (change_state(box, "WARMING") \/ UNCHANGED state)
  /\ \/ alive' = alive \ {box}
     \/ "docker_fails" \in happens /\ UNCHANGED alive
  /\ retries' = retries + 1
  /\ pc' = "warm" /\ box' = 0
  /\ UNCHANGED <<user, working, idle, created, snap, todo, doomed, next, existing, missing,
                 again, happens>>

WarmEnds ==
  /\ pc = "warm"
  /\ missing = 0 \/ retries >= MaxRetries \/ created = MaxBoxes
  /\ missing' = 0 /\ retries' = 0
  /\ pc' = "claim"
  /\ UNCHANGED <<docs, docker, snap, todo, doomed, box, next, existing, again, happens>>

-----------------------------------------------------------------------------
(* reclaim_idle_sandboxes                                                   *)

\* Mutant: the claim does not look at the state of the box.
claim_idle_any_state(s) ==
  /\ pc = "claim"
  /\ working[s] = 0 /\ idle[s]
  /\ change_state(s, "RETIRING")
  /\ todo' = todo \cup {s}
  /\ UNCHANGED <<user, working, idle, docker, pc, snap, doomed, box, next, counts, again, happens>>

\* claim_idle_sandbox: the box becomes RETIRING only while its user is idle.
ClaimIdle(s) ==
  /\ pc = "claim"
  /\ state[s] = "USER_ACTIVE" /\ working[s] = 0 /\ idle[s]
  /\ change_state(s, "RETIRING")
  /\ todo' = todo \cup {s}
  /\ UNCHANGED <<user, working, idle, docker, pc, snap, doomed, box, next, counts, again, happens>>

\* Mutant: only the boxes claimed in this round are taken back.
claim_ends_without_retiring ==
  /\ pc = "claim"
  /\ again' = {}
  /\ pc' = "reclaim"
  /\ UNCHANGED <<docs, docker, snap, todo, doomed, box, next, counts, happens>>

\* The claimed boxes first, then every RETIRING box that was read: a box just
\* claimed is in both lists.
ClaimEnds ==
  /\ pc = "claim"
  /\ again' = InState({"RETIRING"})
  /\ pc' = "reclaim"
  /\ UNCHANGED <<docs, docker, snap, todo, doomed, box, next, counts, happens>>

\* Box s is next: claimed boxes before the others.
Take(s) ==
  /\ pc = "reclaim"
  /\ IF todo # {} THEN s \in todo /\ todo' = todo \ {s} /\ UNCHANGED again
                   ELSE s \in again /\ again' = again \ {s} /\ UNCHANGED todo

\* reclaim, once the files are exported: the binding ends and the container goes.
Reclaim(s) ==
  /\ Take(s)
  /\ change_state(s, "DESTROYING")
  /\ user' = [user EXCEPT ![s] = Nobody]
  /\ box' = s
  /\ pc' = "release"
  /\ UNCHANGED <<working, idle, docker, snap, doomed, next, counts, happens>>

\* A failure leaves the box RETIRING for the next round.
ReclaimFails ==
  /\ "reclaim_fails" \in happens
  /\ \E s \in Boxes : Take(s)
  /\ UNCHANGED <<docs, docker, pc, snap, doomed, box, next, counts, happens>>

\* The container goes, unless docker fails or the document was written with an error.
Release ==
  /\ pc = "release"
  /\ \/ alive' = alive \ {box}
     \/ {"docker_fails", "mongo_fails"} \cap happens # {} /\ UNCHANGED alive
  /\ pc' = "reclaim" /\ box' = 0
  /\ UNCHANGED <<docs, created, snap, todo, doomed, next, counts, again, happens>>

\* The watcher sleeps and starts over.
ReclaimEnds ==
  /\ pc = "reclaim" /\ todo = {} /\ again = {}
  /\ pc' = "health"
  /\ UNCHANGED <<docs, docker, snap, todo, doomed, box, next, counts, again, happens>>

-----------------------------------------------------------------------------
(* Users, time and restarts.                                                *)

\* assign_to_user takes the READY box created first.
Assign(u) ==
  /\ BoxesOf(u) = {}
  /\ \E s \in InState({"READY"}) :
       /\ \A t \in InState({"READY"}) : s <= t
       /\ change_state(s, "USER_ACTIVE")
       /\ user' = [user EXCEPT ![s] = u]
       /\ working' = [working EXCEPT ![s] = 0]
       /\ idle' = [idle EXCEPT ![s] = FALSE]
  /\ UNCHANGED <<docker, pc, snap, todo, doomed, box, next, counts, again, happens>>

\* register_active
BeginWork(u) ==
  /\ \E s \in BoxesOf(u) :
       /\ state[s] = "USER_ACTIVE" /\ working[s] = 0
       /\ working' = [working EXCEPT ![s] = @ + 1]
       /\ idle' = [idle EXCEPT ![s] = FALSE]
  /\ UNCHANGED <<state, user, docker, pc, snap, todo, doomed, box, next, counts, again, happens>>

\* unregister_active
EndWork(s) ==
  /\ working[s] >= 1
  /\ working' = [working EXCEPT ![s] = @ - 1]
  /\ UNCHANGED <<state, user, idle, docker, pc, snap, todo, doomed, box, next, counts, again, happens>>

TimePasses(s) ==
  /\ state[s] = "USER_ACTIVE" /\ ~idle[s]
  /\ idle' = [idle EXCEPT ![s] = TRUE]
  /\ UNCHANGED <<state, user, working, docker, pc, snap, todo, doomed, box, next, counts, again, happens>>

\* The watcher starts from nothing; reconcile_interrupted_tasks ends the protection
\* of every USER_ACTIVE box.
Restart ==
  /\ "restart" \in happens
  /\ working' = [s \in Boxes |-> IF state[s] = "USER_ACTIVE" THEN 0 ELSE working[s]]
  /\ pc' = "health" /\ next' = "health" /\ box' = 0
  /\ snap' = NoSnapshot /\ todo' = {} /\ doomed' = {} /\ again' = {}
  /\ existing' = 0 /\ missing' = 0 /\ retries' = 0
  /\ UNCHANGED <<state, user, idle, docker, happens>>

\* A document that cannot be read or written ends the pool's part of the round; a box in
\* hand was written DESTROYING though the reply was an error.
MaintenanceFails ==
  /\ "mongo_fails" \in happens
  /\ \/ pc \in {"health", "rotate", "scan", "relieve"}
     \/ pc = "remove" /\ next \in {"scan", "relieve"}
  /\ snap' = NoSnapshot /\ todo' = {} /\ doomed' = {} /\ existing' = 0
  /\ pc' = "claim" /\ next' = "health" /\ box' = 0
  /\ UNCHANGED <<docs, docker, missing, retries, again, happens>>

\* One that cannot be read or claimed ends the other part; the next round finds what was claimed.
ClaimFails ==
  /\ pc = "claim" /\ "mongo_fails" \in happens
  /\ todo' = {}
  /\ pc' = "health"
  /\ UNCHANGED <<docs, docker, snap, doomed, box, next, counts, again, happens>>

Watcher ==
  \/ HealthNormal \/ HealthCpu \/ HealthDisk
  \/ RotateOldest \/ RotateNone \/ Scan \/ ScanEnds \/ Doom \/ DoomEnds
  \/ Relieve \/ RelieveEnds
  \/ Remove \/ RemoveFails \/ MarkDestroyed
  \/ WarmStart \/ WarmFails \/ WarmSave \/ WarmCleanup \/ WarmEnds
  \/ \E s \in Boxes : ClaimIdle(s) \/ Reclaim(s)
  \/ ClaimEnds \/ ReclaimFails \/ Release \/ ReclaimEnds
  \/ MaintenanceFails \/ ClaimFails

Next ==
  \/ Watcher
  \/ \E u \in Users : Assign(u) \/ BeginWork(u)
  \/ \E s \in Boxes : EndWork(s) \/ TimePasses(s)
  \/ Restart

Spec == Init /\ [][Next]_vars

\* The watcher's loop runs on as long as the service lives, and taking a box back
\* does not fail for ever.
WatchedSpec == Spec /\ WF_vars(Watcher) /\ \A s \in Boxes : SF_vars(Reclaim(s))

\* A dying box exceeds the timeout of its destruction at last, host pressure ends
\* now and then, and a docker rm that is tried again and again succeeds.
TimesOut(s) == Scan /\ snap[s] = "DESTROYING" /\ doomed' = doomed \cup {s}

RecoveringSpec ==
  /\ WatchedSpec
  /\ SF_vars(HealthNormal) /\ SF_vars(Remove)
  /\ \A s \in Boxes : SF_vars(s \notin doomed /\ TimesOut(s))

-----------------------------------------------------------------------------
Rank == [x \in States \cup {"none"} |->
           CASE x = "none" -> 0 [] x = "WARMING" -> 1 [] x = "READY" -> 2 [] x = "USER_ACTIVE" -> 3
             [] x = "RETIRING" -> 4 [] x = "DESTROYING" -> 5 [] x = "DESTROYED" -> 6]

\* Types of the documents and of the watcher's work.
TypeOK ==
  /\ state \in [Boxes -> States \cup {"none"}]
  /\ user \in [Boxes -> Users \cup {Nobody}]
  /\ working \in [Boxes -> Nat] /\ idle \in [Boxes -> BOOLEAN]
  /\ created \in 0..MaxBoxes /\ alive \subseteq 1..created
  /\ pc \in Phases /\ next \in {"health", "scan", "doom", "relieve"}
  /\ snap \in [Boxes -> States \cup {"none"}]
  /\ todo \subseteq Boxes /\ doomed \subseteq Boxes /\ again \subseteq Boxes
  /\ box \in 0..MaxBoxes
  /\ happens \in Scenarios
  /\ existing \in 0..MaxBoxes /\ missing \in 0..Target /\ retries \in 0..MaxRetries

\* A box never goes back in its life: change_state writes without looking, so the
\* order holds only because one watcher acts on what it read (SandboxState).
NeverBack == [][\A s \in Boxes : Rank[state[s]] <= Rank[state'[s]]]_vars

\* A document that says DESTROYED has no running container, though removing the
\* container and writing the document are two steps that may fail apart.
DestroyedIsGone == \A s \in alive : state[s] # "DESTROYED"

\* Types, and no container outlives its document.
PoolInv == TypeOK /\ DestroyedIsGone

\* While docker commands work, the unassigned boxes that run are never more than the pool's
\* target, whatever a restart, a timeout, a swap or a failed write leaves behind
\* (maintain_sandbox_pool); and where no write fails, nor are their documents.
PoolBounded ==
  "docker_fails" \notin happens =>
    LET stock == InState({"WARMING", "READY"})
    IN  /\ Cardinality(stock \cap alive) <= Target
        /\ "mongo_fails" \notin happens => Cardinality(stock) <= Target

\* The user of a retiring box does not wait for ever: whatever Docker and the host
\* do, and though a round may fail, a later round of the watcher ends the binding.
RetiringEnds == \A s \in Boxes : state[s] = "RETIRING" ~> state[s] \in {"DESTROYING", "DESTROYED"}

\* A box that is being destroyed is destroyed in the end.
DestroyingEnds == \A s \in Boxes : state[s] = "DESTROYING" ~> state[s] = "DESTROYED"

\* Forced destruction only meets unassigned boxes (comments in maintain_sandbox_pool).
ForcedIsUnassigned == pc = "remove" /\ next # "health" => user[box] = Nobody
=============================================================================
