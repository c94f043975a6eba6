------------------------------ MODULE Workspace ------------------------------
(***************************************************************************)
(* The files of ONE user's chat sessions.  Each session has a workspace: a  *)
(* document in MongoDB, a directory in the sandbox the user is bound to, and *)
(* a copy on the host, the cache, from which the next sandbox restores it.  *)
(* WorkspaceManager.allocate finds or binds the sandbox and brings the      *)
(* workspace there; the lease of a request protects the sandbox while the   *)
(* request works; reclaim exports every workspace of an idle sandbox before *)
(* it is destroyed.                                                          *)
(*                                                                          *)
(* A step ends at an await.  A directory is reduced to one file, which every *)
(* request appends its mark to: a copy that replaces the file replaces all   *)
(* marks.  The id of a workspace is the request that made it.  READY boxes   *)
(* are given: SandboxPool makes them.                                        *)
(***************************************************************************)
EXTENDS Naturals, FiniteSets

CONSTANTS
  Requests,     \* requests to work in a workspace
  Session,      \* request -> the session it belongs to
  Boxes,        \* sandboxes, READY at first; numbered by age
  NoBox,        \* no sandbox
  NoOne,        \* no workspace
  MaxRestarts,  \* bound on the restarts of a behaviour
  Scenarios     \* sets of events a behaviour is exposed to, one drawn by each

\* overlap: requests of one session run at the same time; files: a request may be a
\* file operation instead of a command; docker_fails: docker exec, cp or rm fails;
\* restart: the service stops and starts again; torn: it may stop between the
\* deletion of a cache and the renaming of its successor.
Events == {"overlap", "files", "docker_fails", "restart", "torn"}

ASSUME BoxesAssumption == Boxes \subseteq Nat /\ NoBox \notin Boxes
ASSUME NoOneAssumption == NoOne \notin Requests
ASSUME RestartBound == MaxRestarts \in Nat
ASSUME ScenariosAssumption == Scenarios \subseteq SUBSET Events

VARIABLES
  state,     \* box -> its document's state
  count,     \* box -> active_command_count
  idle,      \* the USER_ACTIVE boxes whose last activity is past the idle timeout
  alive,     \* the boxes whose container runs
  sandbox,   \* workspace -> sandbox_id of its document, NoBox while there is none
  latest,    \* session -> its workspace that was updated last
  dir,       \* box -> workspace -> marks in the file in the box
  cache,     \* workspace -> marks in the file in the cache
  req,       \* request -> its progress
  acked,     \* requests whose work was reported as done
  watcher,   \* progress of reclaim
  restarts,  \* restarts so far
  happens    \* what may befall the workspaces in this behaviour

vars == <<state, count, idle, alive, sandbox, latest, dir, cache, req, acked, watcher,
          restarts, happens>>

boxes   == <<state, count, idle, alive>>
docs    == <<sandbox, latest>>
service == <<watcher, restarts, happens>>

-----------------------------------------------------------------------------
States == {"READY", "USER_ACTIVE", "RETIRING", "DESTROYING"}

Sessions == {Session[r] : r \in Requests}

Kinds  == {"command", "file"}
Phases == {"new", "find", "assign", "again", "restore", "mkdir", "attach", "lease", "register",
           "work", "unregister", "done", "failed", "unavailable"}
Ended  == {"done", "failed", "unavailable"}

\* box: the sandbox in hand; ws, back: the workspace document that was read, and its
\* sandbox_id; saw: the state of the sandbox when it was read.
NewRequest == [at |-> "new", kind |-> "command", box |-> NoBox, saw |-> "READY",
               ws |-> NoOne, back |-> NoBox]

NoReclaim == [at |-> "idle", box |-> NoBox, todo |-> {}, ws |-> NoOne, staging |-> {},
              again |-> FALSE]

Bound == {b \in Boxes : state[b] \in {"USER_ACTIVE", "RETIRING"}}

\* Mutant: a box that is being exported is not taken for the user's.
binding_active_only == {b \in Boxes : state[b] = "USER_ACTIVE"}

\* get_by_user_binding: the box the user has, RETIRING or not.
Binding == Bound

\* get_by_user_session: the document of session s that was updated last.
WorkspaceOf(s) == latest[s]

\* The id of the workspace request r works in.
Id(r) == IF req[r].ws = NoOne THEN r ELSE req[r].ws

Init ==
  /\ state = [b \in Boxes |-> "READY"] /\ count = [b \in Boxes |-> 0]
  /\ idle = {} /\ alive = Boxes
  /\ sandbox = [w \in Requests |-> NoBox] /\ latest = [s \in Sessions |-> NoOne]
  /\ dir = [b \in Boxes |-> [w \in Requests |-> {}]]
  /\ cache = [w \in Requests |-> {}]
  /\ req = [r \in Requests |-> NewRequest] /\ acked = {}
  /\ watcher = NoReclaim /\ restarts = 0
  /\ happens \in Scenarios

-----------------------------------------------------------------------------
(* allocate                                                                 *)

Goes(r, a) == req' = [req EXCEPT ![r].at = a]

\* Where allocate goes with sandbox b, whose document said st, and workspace w, whose
\* document said back: it is busy, the workspace is there, or it is brought there.
With(r, b, st, w, back) ==
  req' = [req EXCEPT ![r] = [@ EXCEPT !.box = b, !.saw = st, !.ws = w, !.back = back,
            !.at = IF st # "USER_ACTIVE" THEN "failed"
                   ELSE IF w # NoOne /\ back = b THEN "lease"
                   ELSE IF w # NoOne /\ cache[w] # {} THEN "restore" ELSE "mkdir"]]

\* A request comes, with a look at the binding of its user.
Look(r) ==
  /\ req[r].at = "new"
  /\ "overlap" \in happens \/ \A q \in Requests \ {r} :
       Session[q] = Session[r] => req[q].at \in Ended \cup {"new"}
  /\ \E b \in IF Binding = {} THEN {NoBox} ELSE Binding, k \in Kinds :
       /\ k = "file" => "files" \in happens
       /\ req' = [req EXCEPT ![r] = [@ EXCEPT !.at = "find", !.kind = k, !.box = b,
                                     !.saw = IF b = NoBox THEN "READY" ELSE state[b]]]
  /\ UNCHANGED <<boxes, docs, dir, cache, acked, service>>

\* get_by_user_session
Find(r) ==
  /\ req[r].at = "find"
  /\ LET w == WorkspaceOf(Session[r])
         back == IF w = NoOne THEN NoBox ELSE sandbox[w]
     IN  IF req[r].box = NoBox
           THEN req' = [req EXCEPT ![r] = [@ EXCEPT !.at = "assign", !.ws = w, !.back = back]]
           ELSE With(r, req[r].box, req[r].saw, w, back)
  /\ UNCHANGED <<boxes, docs, dir, cache, acked, service>>

Ready == {b \in Boxes : state[b] = "READY"}

\* assign_to_user: the oldest READY box, unless the unique index of USER_ACTIVE
\* bindings refuses it; without a READY box the request fails.
Assign(r) ==
  /\ req[r].at = "assign"
  /\ \/ Ready = {} /\ Goes(r, "failed") /\ UNCHANGED <<state, count, idle>>
     \/ /\ Ready # {} /\ \E b \in Boxes : state[b] = "USER_ACTIVE"
        /\ Goes(r, "again") /\ UNCHANGED <<state, count, idle>>
     \/ /\ \A b \in Boxes : state[b] # "USER_ACTIVE"
        /\ \E b \in Ready :
             /\ \A c \in Ready : b <= c
             /\ state' = [state EXCEPT ![b] = "USER_ACTIVE"]
             /\ count' = [count EXCEPT ![b] = 0] /\ idle' = idle \ {b}
             /\ With(r, b, "USER_ACTIVE", req[r].ws, req[r].back)
  /\ UNCHANGED <<alive, docs, dir, cache, acked, service>>

\* The binding that was there first; if it is gone again, the request fails.
Again(r) ==
  /\ req[r].at = "again"
  /\ \/ Binding = {} /\ Goes(r, "failed")
     \/ \E b \in Binding : With(r, b, state[b], req[r].ws, req[r].back)
  /\ UNCHANGED <<boxes, docs, dir, cache, acked, service>>

\* copy_workspace_from_cache_to_container: the copy replaces the file.  If docker
\* fails the directory is removed, or that fails too, and allocate goes on without.
Restore(r) ==
  /\ req[r].at = "restore"
  /\ LET b == req[r].box IN
     \/ /\ b \in alive
        /\ dir' = [dir EXCEPT ![b][Id(r)] = IF cache[Id(r)] = {} THEN @ ELSE cache[Id(r)]]
        /\ Goes(r, "attach")
     \/ /\ b \notin alive \/ "docker_fails" \in happens
        /\ \/ UNCHANGED dir
           \/ b \in alive /\ dir' = [dir EXCEPT ![b][Id(r)] = {}]
        /\ Goes(r, "mkdir")
  /\ UNCHANGED <<boxes, docs, cache, acked, service>>

\* create_workspace_directory: mkdir -p
Mkdir(r) ==
  /\ req[r].at = "mkdir"
  /\ \/ req[r].box \in alive /\ Goes(r, "attach")
     \/ (req[r].box \notin alive \/ "docker_fails" \in happens) /\ Goes(r, "failed")
  /\ UNCHANGED <<boxes, docs, dir, cache, acked, service>>

\* set_attached_workspace moves the document to its new box, and the copy in memory
\* keeps the old sandbox_id; a new document is saved with the new one.
Attach(r) ==
  /\ req[r].at = "attach"
  /\ sandbox' = [sandbox EXCEPT ![Id(r)] = req[r].box]
  /\ latest' = [latest EXCEPT ![Session[r]] = Id(r)]
  /\ req' = [req EXCEPT ![r] = [@ EXCEPT !.at = "lease", !.ws = Id(r),
                                !.back = IF req[r].ws = NoOne THEN req[r].box ELSE req[r].back]]
  /\ UNCHANGED <<boxes, dir, cache, acked, service>>

Allocate(r) ==
  Look(r) \/ Find(r) \/ Assign(r) \/ Again(r) \/ Restore(r) \/ Mkdir(r) \/ Attach(r)

-----------------------------------------------------------------------------
(* The lease of a request: start_command and _workspace_lease.              *)

\* get_by_id(workspace.sandbox_id)
Lease(r) ==
  /\ req[r].at = "lease"
  /\ Goes(r, IF state[req[r].back] = "USER_ACTIVE" THEN "register" ELSE "unavailable")
  /\ UNCHANGED <<boxes, docs, dir, cache, acked, service>>

\* register_active: where the box was claimed meanwhile, a command is refused; a file
\* operation does not look at the answer.
Register(r) ==
  /\ req[r].at = "register"
  /\ LET b == req[r].back IN
     \/ /\ state[b] = "USER_ACTIVE"
        /\ count' = [count EXCEPT ![b] = @ + 1] /\ idle' = idle \ {b}
        /\ Goes(r, "work")
     \/ /\ state[b] # "USER_ACTIVE" /\ UNCHANGED <<count, idle>>
        /\ Goes(r, IF req[r].kind = "file" THEN "work" ELSE "failed")
  /\ UNCHANGED <<state, alive, docs, dir, cache, acked, service>>

\* The request does its work and reports it, unless the container is gone.
Work(r) ==
  /\ req[r].at = "work"
  /\ IF req[r].back \in alive
       THEN /\ dir' = [dir EXCEPT ![req[r].back][req[r].ws] = @ \cup {r}]
            /\ acked' = acked \cup {r}
       ELSE UNCHANGED <<dir, acked>>
  /\ Goes(r, "unregister")
  /\ UNCHANGED <<boxes, docs, cache, service>>

\* unregister_active, registered or not.
Unregister(r) ==
  /\ req[r].at = "unregister"
  /\ count' = [count EXCEPT ![req[r].back] = IF @ >= 1 THEN @ - 1 ELSE @]
  /\ Goes(r, "done")
  /\ UNCHANGED <<state, idle, alive, docs, dir, cache, acked, service>>

Leased(r) == Lease(r) \/ Register(r) \/ Work(r) \/ Unregister(r)

-----------------------------------------------------------------------------
(* reclaim                                                                  *)

\* claim_idle_sandbox; the same round reads the RETIRING boxes afterwards, so that it
\* takes a claimed box back twice.
Claim(b) ==
  /\ watcher.at = "idle"
  /\ state[b] = "USER_ACTIVE" /\ count[b] = 0 /\ b \in idle
  /\ state' = [state EXCEPT ![b] = "RETIRING"]
  /\ watcher' = [NoReclaim EXCEPT !.at = "list", !.box = b, !.again = TRUE]
  /\ UNCHANGED <<count, idle, alive, docs, dir, cache, req, acked, restarts, happens>>

\* A box an earlier round left RETIRING.
TakeRetiring(b) ==
  /\ watcher.at = "idle" /\ state[b] = "RETIRING"
  /\ watcher' = [NoReclaim EXCEPT !.at = "list", !.box = b]
  /\ UNCHANGED <<boxes, docs, dir, cache, req, acked, restarts, happens>>

\* list_by_sandbox
List ==
  /\ watcher.at = "list"
  /\ watcher' = [watcher EXCEPT !.at = "export",
                                !.todo = {w \in Requests : sandbox[w] = watcher.box}]
  /\ UNCHANGED <<boxes, docs, dir, cache, req, acked, restarts, happens>>

\* docker cp to the staging directory; a workspace that fails is passed over.
Export(w) ==
  /\ watcher.at = "export" /\ w \in watcher.todo
  /\ \/ /\ watcher.box \in alive
        /\ watcher' = [watcher EXCEPT !.at = "publish", !.ws = w, !.staging = dir[watcher.box][w]]
     \/ /\ watcher.box \notin alive \/ "docker_fails" \in happens
        /\ watcher' = [watcher EXCEPT !.todo = @ \ {w}]
  /\ UNCHANGED <<boxes, docs, dir, cache, req, acked, restarts, happens>>

\* rmtree and rename: the cache is replaced.
Publish ==
  /\ watcher.at = "publish"
  /\ cache' = [cache EXCEPT ![watcher.ws] = watcher.staging]
  /\ watcher' = [watcher EXCEPT !.at = "export", !.todo = @ \ {watcher.ws}, !.ws = NoOne,
                                !.staging = {}]
  /\ UNCHANGED <<boxes, docs, dir, req, acked, restarts, happens>>

\* Mutant: the user is released before all workspaces are exported.
release_early ==
  /\ watcher.at = "export"
  /\ state' = [state EXCEPT ![watcher.box] = "DESTROYING"]
  /\ watcher' = [watcher EXCEPT !.at = "destroy"]
  /\ UNCHANGED <<count, idle, alive, docs, dir, cache, req, acked, restarts, happens>>

\* The user may have another box from now on.
Release ==
  /\ watcher.at = "export" /\ watcher.todo = {}
  /\ state' = [state EXCEPT ![watcher.box] = "DESTROYING"]
  /\ watcher' = [watcher EXCEPT !.at = "destroy"]
  /\ UNCHANGED <<count, idle, alive, docs, dir, cache, req, acked, restarts, happens>>

\* docker rm; then the box is next once more if it was claimed in this round.
Destroy ==
  /\ watcher.at = "destroy"
  /\ \/ alive' = alive \ {watcher.box}
     \/ "docker_fails" \in happens /\ UNCHANGED alive
  /\ watcher' = IF watcher.again THEN [watcher EXCEPT !.at = "list", !.again = FALSE] ELSE NoReclaim
  /\ UNCHANGED <<state, count, idle, docs, dir, cache, req, acked, restarts, happens>>

Reclaim ==
  \/ \E b \in Boxes : Claim(b) \/ TakeRetiring(b)
  \/ List \/ (\E w \in Requests : Export(w)) \/ Publish \/ Release \/ Destroy

-----------------------------------------------------------------------------
(* Time and restarts.                                                       *)

\* The idle timeout of box b is over.  It lasts minutes: longer than a request is
\* between the reading of the user's binding and the assignment of a box.
TimePasses(b) ==
  /\ state[b] = "USER_ACTIVE" /\ b \notin idle
  /\ \A r \in Requests : req[r].at \notin {"find", "assign", "again"}
  /\ idle' = idle \cup {b}
  /\ UNCHANGED <<state, count, alive, docs, dir, cache, req, acked, service>>

\* The service stops: requests and reclaim are gone, and on its start the protection
\* of the USER_ACTIVE boxes ends.  A torn replacement leaves no cache.
Restart ==
  /\ "restart" \in happens /\ restarts < MaxRestarts
  /\ restarts' = restarts + 1
  /\ req' = [r \in Requests |-> IF req[r].at \in Ended \cup {"new"} THEN req[r]
                                ELSE [req[r] EXCEPT !.at = "failed"]]
  /\ count' = [b \in Boxes |-> IF state[b] = "USER_ACTIVE" THEN 0 ELSE count[b]]
  /\ watcher' = NoReclaim
  /\ \/ UNCHANGED cache
     \/ /\ "torn" \in happens /\ watcher.at = "publish"
        /\ cache' = [cache EXCEPT ![watcher.ws] = {}]
  /\ UNCHANGED <<state, idle, alive, docs, dir, acked, happens>>

Next ==
  \/ \E r \in Requests : Allocate(r) \/ Leased(r)
  \/ Reclaim
  \/ \E b \in Boxes : TimePasses(b)
  \/ Restart

Spec == Init /\ [][Next]_vars

-----------------------------------------------------------------------------
RequestTypes ==
  [at : Phases, kind : Kinds, box : Boxes \cup {NoBox}, saw : States,
   ws : Requests \cup {NoOne}, back : Boxes \cup {NoBox}]

ReclaimTypes ==
  [at : {"idle", "list", "export", "publish", "destroy"}, box : Boxes \cup {NoBox},
   todo : SUBSET Requests, ws : Requests \cup {NoOne}, staging : SUBSET Requests,
   again : BOOLEAN]

\* Types of the documents, the files and the processes.
TypeOK ==
  /\ state \in [Boxes -> States] /\ count \in [Boxes -> Nat]
  /\ idle \subseteq Boxes /\ alive \subseteq Boxes
  /\ sandbox \in [Requests -> Boxes \cup {NoBox}] /\ latest \in [Sessions -> Requests \cup {NoOne}]
  /\ dir \in [Boxes -> [Requests -> SUBSET Requests]] /\ cache \in [Requests -> SUBSET Requests]
  /\ req \in [Requests -> RequestTypes] /\ acked \subseteq Requests
  /\ watcher \in ReclaimTypes
  /\ restarts \in 0..MaxRestarts /\ happens \in Scenarios

\* The marks the next request of session s will find: in its box while the user has
\* that box, and in the cache afterwards.
Contents(s) ==
  LET w == WorkspaceOf(s)
  IN  IF w = NoOne THEN {}
      ELSE IF sandbox[w] \in Bound THEN dir[sandbox[w]][w] ELSE cache[w]

\* What a command was reported to have done stays in the files of its session, however
\* often the box is taken back and the workspace restored, and whenever the service
\* stops; commands of other sessions may run all the while (allocate, reclaim).
NothingLost ==
  happens \subseteq {"restart"} => \A r \in acked : r \in Contents(Session[r])

\* The user never has two boxes: while the files of one are exported no other is
\* given out, and of two first requests one meets the binding of the other.
OneBox == Cardinality(Bound) <= 1

\* The types, and a user never has two boxes.
BoxInv == TypeOK /\ OneBox

\* A request that brought its workspace to a box the user is bound to is served there
\* ("allocate or restore workspace" in start_command).
RestoredIsServed ==
  \A r \in Requests : req[r].at = "unavailable" => state[req[r].box] # "USER_ACTIVE"
=============================================================================
