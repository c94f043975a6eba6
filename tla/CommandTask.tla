----------------------------- MODULE CommandTask -----------------------------
(***************************************************************************)
(* Commands in sandboxes: their records, the workers that follow them, the  *)
(* calls that kill them, and the protection that keeps a box from being     *)
(* taken back while a command runs in it.                                   *)
(*                                                                          *)
(* CommandTaskService runs in one process; between two awaits nothing else  *)
(* runs, so a step ends at an await; a read is taken together with the call *)
(* it leads to where that call looks again or the lock is held.             *)
(* start_command, the worker and kill_command are processes of the task,    *)
(* and each may be inside _finish, which a lock per task serialises.        *)
(* Records and counts live in MongoDB and survive the process.  Which box a *)
(* session gets is left to Workspace, why it is taken back to SandboxPool.  *)
(***************************************************************************)
EXTENDS Naturals, FiniteSets

CONSTANTS
  Tasks,       \* command tasks
  Boxes,       \* sandboxes of the user
  NoBox,       \* no sandbox yet
  Killers,     \* concurrent kill_command calls per task
  MaxCrashes,  \* bound on the restarts of a behaviour
  Scenarios    \* sets of events the service is exposed to, one drawn per behaviour

\* kill: kill_command is called; provider_fails: a call to AIO raises, with or
\* without effect; mongo_fails: likewise for MongoDB; cancelled: a request is
\* cancelled while it awaits; restart: the service stops and starts again.
Events == {"kill", "provider_fails", "mongo_fails", "cancelled", "restart"}

ASSUME NoBoxAssumption == NoBox \notin Boxes
ASSUME CrashBound == MaxCrashes \in Nat
ASSUME KillersAssumption == Killers \cap {"start", "work"} = {}
ASSUME ScenariosAssumption == Scenarios \subseteq SUBSET Events

VARIABLES
  status,     \* task -> its status, "none" before it exists
  box,        \* task -> sandbox_id
  count,      \* box -> active_command_count
  open,       \* the boxes that are USER_ACTIVE
  remote,     \* task -> its command in the box (see Remotes)
  proc,       \* task -> process -> [at, due, lock]
  registered, \* tasks whose start_command holds protection_registered
  caught,     \* tasks whose worker is in its except clause
  waiter,     \* tasks with a get_command_result that waits for their event
  signalled,  \* tasks whose event is set and still in the dict
  serving,    \* is the service past its startup?
  crashes,    \* restarts so far
  happens     \* what may befall the service in this behaviour

vars == <<status, box, count, open, remote, proc, registered, caught, waiter,
          signalled, serving, crashes, happens>>

outside == <<open, remote>>
service == <<serving, crashes, happens>>
waiting == <<waiter, signalled>>

-----------------------------------------------------------------------------
Procs == {"start", "work"} \cup Killers

Terminal   == {"COMPLETED", "FAILED", "KILLED", "LOST"}
Unfinished == {"PENDING", "RUNNING"}
Statuses   == Terminal \cup Unfinished \cup {"none"}

\* What AIO reports of a command that ended; TIMED_OUT is handled like these.
Results == {"COMPLETED", "FAILED"}

\* overdue: past the hard timeout and its grace, and AIO has not reported an end.
Remotes == {"none", "running", "overdue", "ended"}

StartPhases  == {"allocate", "register", "submit", "running"}
WorkPhases   == {"poll", "record", "save"}
FinishPhases == {"lock", "write", "release"}
Phases == StartPhases \cup WorkPhases \cup FinishPhases \cup {"none", "send", "done", "failed", "ended"}

\* Where a process is in the body of `async with lock`.
Critical == {"save", "write", "release"}

Idle == [at |-> "none", due |-> "none", lock |-> 0]

At(t, p) == proc[t][p].at

\* Process p of task t goes on at a.
Goes(t, p, a) == proc' = [proc EXCEPT ![t][p].at = a]

\* The worker has put its event and lock into the dicts and not yet popped them.
Followed(t) == At(t, "work") \notin {"none", "ended"}

\* _locks[task_id]: once the worker has popped its lock, setdefault makes another.
LockOf(t) == IF At(t, "work") = "ended" THEN 2 ELSE 1

Free(t, l) == \A q \in Procs : At(t, q) \in Critical => proc[t][q].lock # l

Init ==
  /\ status = [t \in Tasks |-> "none"] /\ box = [t \in Tasks |-> NoBox]
  /\ count = [b \in Boxes |-> 0] /\ open = Boxes
  /\ remote = [t \in Tasks |-> "none"]
  /\ proc = [t \in Tasks |-> [p \in Procs |-> Idle]]
  /\ registered = {} /\ caught = {}
  /\ waiter = {} /\ signalled = {}
  /\ serving = TRUE /\ crashes = 0
  /\ happens \in Scenarios

-----------------------------------------------------------------------------
(* _finish                                                                  *)

\* Process p of task t calls _finish with status s.
CallFinish(t, p, s) ==
  proc' = [proc EXCEPT ![t][p] = [at |-> "lock", due |-> s, lock |-> LockOf(t)]]

\* _finish is over, and woken says whether it set the event.  start_command raises; the
\* worker ends and drops event and lock; a kill_command whose request failed calls
\* _finish a second time, with KILLED.
Return(t, p, woken) ==
  /\ proc' = [proc EXCEPT ![t][p] =
                CASE p = "start" -> [Idle EXCEPT !.at = "failed"]
                  [] p = "work" -> [Idle EXCEPT !.at = "ended"]
                  [] p \in Killers /\ proc[t][p].due = "LOST" ->
                       [at |-> "lock", due |-> "KILLED", lock |-> LockOf(t)]
                  [] OTHER -> Idle]
  /\ waiter' = IF woken THEN waiter \ {t} ELSE waiter
  /\ signalled' = IF p = "work" THEN signalled \ {t} ELSE IF woken THEN signalled \cup {t} ELSE signalled
  /\ registered' = IF p = "start" THEN registered \ {t} ELSE registered
  /\ caught' = IF p = "work" THEN caught \ {t} ELSE caught

\* Whoever comes second finds the task finished and leaves it alone.
FinishLocks(t, p) ==
  /\ At(t, p) = "lock" /\ Free(t, proc[t][p].lock)
  /\ IF status[t] \in Terminal
       THEN Return(t, p, FALSE)
       ELSE Goes(t, p, "write") /\ UNCHANGED <<registered, caught, waiting>>
  /\ UNCHANGED <<status, box, count, outside, service>>

\* Mutant: the box of the task is taken for a sign of its protection.
releases_any(t, p) == box[t] # NoBox

\* release_protection: start_command passes on whether it got to register.
Releases(t, p) == box[t] # NoBox /\ (p = "start" => t \in registered)

FinishWrites(t, p) ==
  /\ At(t, p) = "write"
  /\ status' = [status EXCEPT ![t] = proc[t][p].due]
  /\ IF Releases(t, p) THEN Goes(t, p, "release") /\ UNCHANGED <<registered, caught, waiting>>
                       ELSE Return(t, p, FALSE)
  /\ UNCHANGED <<box, count, outside, service>>

\* unregister_active
Unregister(t) ==
  count' = [count EXCEPT ![box[t]] = IF @ >= 1 THEN @ - 1 ELSE @]

\* Mutant: the protection ends and nobody is told.
finish_releases_silently(t, p) ==
  /\ At(t, p) = "release"
  /\ Unregister(t)
  /\ Return(t, p, FALSE)
  /\ UNCHANGED <<status, box, outside, service>>

\* Mutant: the protection of a finished task stays.
finish_forgets_count(t, p) ==
  /\ At(t, p) = "release"
  /\ Return(t, p, Followed(t))
  /\ UNCHANGED <<status, box, count, outside, service>>

\* The protection ends, and the waiter is woken if the event is still there.
FinishReleases(t, p) ==
  /\ At(t, p) = "release"
  /\ Unregister(t)
  /\ Return(t, p, Followed(t))
  /\ UNCHANGED <<status, box, outside, service>>

\* MongoDB fails in _finish, with or without effect.  The worker tries once more
\* with LOST; every other caller gives up.
FinishFails(t, p) ==
  /\ "mongo_fails" \in happens
  /\ \/ At(t, p) = "lock" /\ Free(t, proc[t][p].lock) /\ UNCHANGED <<status, count>>
     \/ /\ At(t, p) = "write" /\ UNCHANGED count
        /\ status' \in {status, [status EXCEPT ![t] = proc[t][p].due]}
     \/ At(t, p) = "release" /\ (Unregister(t) \/ UNCHANGED count) /\ UNCHANGED status
  /\ IF p = "work" /\ t \notin caught
       THEN /\ CallFinish(t, p, "LOST")
            /\ caught' = caught \cup {t} /\ UNCHANGED <<registered, waiting>>
       ELSE IF p \in Killers
       THEN proc' = [proc EXCEPT ![t][p] = Idle] /\ UNCHANGED <<registered, caught, waiting>>
       ELSE Return(t, p, FALSE)
  /\ UNCHANGED <<box, outside, service>>

Finish(t, p) == FinishLocks(t, p) \/ FinishWrites(t, p) \/ FinishReleases(t, p)

-----------------------------------------------------------------------------
(* start_command                                                            *)

NewTask(t) ==
  /\ serving /\ status[t] = "none"
  /\ status' = [status EXCEPT ![t] = "PENDING"]
  /\ Goes(t, "start", "allocate")
  /\ UNCHANGED <<box, count, outside, registered, caught, waiting, service>>

\* allocate raises, or the box it names is none of the user's USER_ACTIVE boxes.
NoSandbox(t) ==
  /\ At(t, "start") = "allocate"
  /\ CallFinish(t, "start", "FAILED")
  /\ UNCHANGED <<status, box, count, outside, registered, caught, waiting, service>>

\* allocate, get_by_id, and the saving of the record with its sandbox_id.
Allocate(t) ==
  /\ At(t, "start") = "allocate"
  /\ \E b \in open : box' = [box EXCEPT ![t] = b]
  /\ Goes(t, "start", "register")
  /\ UNCHANGED <<status, count, outside, registered, caught, waiting, service>>

\* register_active: the box is refused if it was taken back meanwhile.
Register(t) ==
  /\ At(t, "start") = "register"
  /\ IF box[t] \in open
       THEN /\ count' = [count EXCEPT ![box[t]] = @ + 1]
            /\ registered' = registered \cup {t}
            /\ Goes(t, "start", "submit")
       ELSE /\ CallFinish(t, "start", "FAILED")
            /\ UNCHANGED <<count, registered>>
  /\ UNCHANGED <<status, box, outside, caught, waiting, service>>

Submit(t) ==
  /\ At(t, "start") = "submit"
  /\ remote' = [remote EXCEPT ![t] = "running"]
  /\ Goes(t, "start", "running")
  /\ UNCHANGED <<status, box, count, open, registered, caught, waiting, service>>

\* The record is RUNNING, and the worker begins.
Started(t) ==
  /\ At(t, "start") = "running"
  /\ status' = [status EXCEPT ![t] = "RUNNING"]
  /\ proc' = [proc EXCEPT ![t]["start"] = [Idle EXCEPT !.at = "done"],
                          ![t]["work"] = [Idle EXCEPT !.at = "poll"]]
  /\ registered' = registered \ {t}
  /\ UNCHANGED <<box, count, outside, caught, waiting, service>>

\* An await of start_command raises, with or without effect: the task is LOST if
\* the command was submitted and FAILED otherwise.
StartFails(t) ==
  /\ At(t, "start") \in StartPhases
  /\ \/ "cancelled" \in happens
     \/ At(t, "start") # "submit" /\ "mongo_fails" \in happens
     \/ At(t, "start") = "submit" /\ "provider_fails" \in happens
  /\ CallFinish(t, "start", IF At(t, "start") = "running" THEN "LOST" ELSE "FAILED")
  /\ \/ UNCHANGED <<status, box, count, remote>>
     \/ /\ At(t, "start") = "allocate"
        /\ \E b \in open : box' = [box EXCEPT ![t] = b]
        /\ UNCHANGED <<status, count, remote>>
     \/ /\ At(t, "start") = "register" /\ box[t] \in open
        /\ count' = [count EXCEPT ![box[t]] = @ + 1]
        /\ UNCHANGED <<status, box, remote>>
     \/ /\ At(t, "start") = "submit"
        /\ remote' = [remote EXCEPT ![t] = "running"]
        /\ UNCHANGED <<status, box, count>>
     \/ /\ At(t, "start") = "running"
        /\ status' = [status EXCEPT ![t] = "RUNNING"]
        /\ UNCHANGED <<box, count, remote>>
  /\ UNCHANGED <<open, registered, caught, waiting, service>>

Start(t) ==
  NoSandbox(t) \/ Allocate(t) \/ Register(t) \/ Submit(t) \/ Started(t) \/ StartFails(t)

-----------------------------------------------------------------------------
(* _run_worker                                                              *)

\* The task is finished, or AIO says that its command is running or what became of it.
Poll(t) ==
  /\ At(t, "work") = "poll"
  /\ IF status[t] \in Terminal
       THEN Return(t, "work", FALSE)
       ELSE /\ \E s \in (IF remote[t] = "ended" THEN Results ELSE {"RUNNING"}) :
                 proc' = [proc EXCEPT ![t]["work"] = [at |-> "record", due |-> s, lock |-> LockOf(t)]]
            /\ UNCHANGED <<registered, caught, waiting>>
  /\ UNCHANGED <<status, box, count, outside, service>>

\* After the output: the reported end, the hard timeout, or the next round.
WorkGoesOn(t) ==
  IF proc[t]["work"].due \in Terminal THEN CallFinish(t, "work", proc[t]["work"].due)
  ELSE IF remote[t] = "overdue" THEN CallFinish(t, "work", "LOST")
  ELSE proc' = [proc EXCEPT ![t]["work"] = [Idle EXCEPT !.at = "poll"]]

\* Mutant: the output is recorded without the lock.
record_unlocked(t) ==
  /\ At(t, "work") = "record"
  /\ IF status[t] \in Terminal
       THEN Return(t, "work", FALSE)
       ELSE (WorkGoesOn(t) \/ Goes(t, "work", "save")) /\ UNCHANGED <<registered, caught, waiting>>
  /\ UNCHANGED <<status, box, count, outside, service>>

\* The record is read again under the lock; there may be output to save.
Record(t) ==
  /\ At(t, "work") = "record" /\ Free(t, proc[t]["work"].lock)
  /\ IF status[t] \in Terminal
       THEN Return(t, "work", FALSE)
       ELSE (WorkGoesOn(t) \/ Goes(t, "work", "save")) /\ UNCHANGED <<registered, caught, waiting>>
  /\ UNCHANGED <<status, box, count, outside, service>>

\* The whole record is saved as it was read, its status included.
Save(t) ==
  /\ At(t, "work") = "save"
  /\ status' = [status EXCEPT ![t] = "RUNNING"]
  /\ WorkGoesOn(t)
  /\ UNCHANGED <<box, count, outside, registered, caught, waiting, service>>

\* Mutant: the worker forgets the task when AIO fails.
work_fails_quietly(t) ==
  /\ At(t, "work") = "poll" /\ "provider_fails" \in happens
  /\ Return(t, "work", FALSE)
  /\ UNCHANGED <<status, box, count, outside, service>>

\* An await of the worker raises: LOST.
WorkFails(t) ==
  /\ \/ At(t, "work") = "poll" /\ "provider_fails" \in happens
     \/ At(t, "work") \in {"poll", "save"} /\ "mongo_fails" \in happens
     \/ At(t, "work") = "record" /\ "mongo_fails" \in happens /\ Free(t, proc[t]["work"].lock)
  /\ caught' = caught \cup {t}
  /\ CallFinish(t, "work", "LOST")
  /\ \/ UNCHANGED status
     \/ At(t, "work") = "save" /\ status' = [status EXCEPT ![t] = "RUNNING"]
  /\ UNCHANGED <<box, count, outside, registered, waiting, service>>

Work(t) == Poll(t) \/ Record(t) \/ Save(t) \/ WorkFails(t)

-----------------------------------------------------------------------------
(* kill_command and get_command_result                                      *)

\* A client that knows the task kills it; a finished task is left alone.
Kill(t, k) ==
  /\ serving /\ "kill" \in happens
  /\ At(t, k) = "none" /\ At(t, "start") = "done" /\ status[t] \notin Terminal
  /\ Goes(t, k, "send")
  /\ UNCHANGED <<status, box, count, outside, registered, caught, waiting, service>>

\* AIO accepts the request, whatever becomes of the command; or it fails.
Send(t, k) ==
  /\ At(t, k) = "send"
  /\ \/ CallFinish(t, k, "KILLED")
     \/ happens \cap {"provider_fails", "mongo_fails"} # {} /\ CallFinish(t, k, "LOST")
  /\ UNCHANGED <<status, box, count, outside, registered, caught, waiting, service>>

\* The request is cancelled in an await, which may have had its effect.
KillCancelled(t, k) ==
  /\ "cancelled" \in happens /\ At(t, k) # "none"
  /\ proc' = [proc EXCEPT ![t][k] = Idle]
  /\ \/ UNCHANGED <<status, count>>
     \/ /\ At(t, k) = "write" /\ UNCHANGED count
        /\ status' = [status EXCEPT ![t] = proc[t][k].due]
     \/ At(t, k) = "release" /\ Unregister(t) /\ UNCHANGED status
  /\ UNCHANGED <<box, outside, registered, caught, waiting, service>>

\* get_command_result(wait) of a task that is not finished waits for its event, if there is one.
Wait(t) ==
  /\ serving /\ At(t, "start") = "done" /\ status[t] \notin Terminal
  /\ Followed(t) /\ t \notin waiter \cup signalled
  /\ waiter' = waiter \cup {t}
  /\ UNCHANGED <<status, box, count, outside, proc, registered, caught, signalled, service>>

\* The time is up.
GiveUp(t) ==
  /\ t \in waiter
  /\ waiter' = waiter \ {t}
  /\ UNCHANGED <<status, box, count, outside, proc, registered, caught, signalled, service>>

-----------------------------------------------------------------------------
(* The boxes, AIO, and restarts.                                            *)

\* claim_idle_sandbox
Claim(b) ==
  /\ serving /\ b \in open /\ count[b] = 0
  /\ open' = open \ {b}
  /\ UNCHANGED <<status, box, count, remote, proc, registered, caught, waiting, service>>

RemoteEnds(t) ==
  /\ remote[t] \in {"running", "overdue"}
  /\ remote' = [remote EXCEPT ![t] = "ended"]
  /\ UNCHANGED <<status, box, count, open, proc, registered, caught, waiting, service>>

\* The hard timeout and its grace pass without a report.
TimePasses(t) ==
  /\ remote[t] = "running"
  /\ remote' = [remote EXCEPT ![t] = "overdue"]
  /\ UNCHANGED <<status, box, count, open, proc, registered, caught, waiting, service>>

\* The process stops, by close or otherwise: records and counts stay as they are.
Stop ==
  /\ "restart" \in happens /\ crashes < MaxCrashes
  /\ crashes' = crashes + 1 /\ serving' = FALSE
  /\ proc' = [t \in Tasks |-> [p \in Procs |-> Idle]]
  /\ registered' = {} /\ caught' = {} /\ signalled' = {}
  /\ waiter' = {}
  /\ UNCHANGED <<status, box, count, outside, happens>>

\* reconcile_interrupted_tasks: every unfinished task is LOST ...
ReconcileTask(t) ==
  /\ ~serving /\ status[t] \in Unfinished
  /\ status' = [status EXCEPT ![t] = "LOST"]
  /\ UNCHANGED <<box, count, outside, proc, registered, caught, waiting, service>>

\* ... and then the protection left over in every USER_ACTIVE box ends.
ReconcileBox(b) ==
  /\ ~serving /\ \A t \in Tasks : status[t] \notin Unfinished
  /\ b \in open /\ count[b] > 0
  /\ count' = [count EXCEPT ![b] = 0]
  /\ UNCHANGED <<status, box, outside, proc, registered, caught, waiting, service>>

Serve ==
  /\ ~serving /\ \A t \in Tasks : status[t] \notin Unfinished
  /\ \A b \in open : count[b] = 0
  /\ serving' = TRUE
  /\ UNCHANGED <<status, box, count, outside, proc, registered, caught, waiting, crashes, happens>>

Reconcile == \/ \E t \in Tasks : ReconcileTask(t)
             \/ \E b \in Boxes : ReconcileBox(b)
             \/ Serve

Next ==
  \/ \E t \in Tasks :
       \/ NewTask(t) \/ Start(t) \/ Work(t)
       \/ \E p \in Procs : Finish(t, p) \/ FinishFails(t, p)
       \/ \E k \in Killers : Kill(t, k) \/ Send(t, k) \/ KillCancelled(t, k)
       \/ Wait(t) \/ GiveUp(t)
       \/ RemoteEnds(t) \/ TimePasses(t)
  \/ \E b \in Boxes : Claim(b)
  \/ Stop \/ Reconcile

Spec == Init /\ [][Next]_vars

-----------------------------------------------------------------------------
\* Types of the records, the counts and the processes.
TypeOK ==
  /\ status \in [Tasks -> Statuses] /\ box \in [Tasks -> Boxes \cup {NoBox}]
  /\ count \in [Boxes -> Nat] /\ open \subseteq Boxes
  /\ remote \in [Tasks -> Remotes]
  /\ proc \in [Tasks -> [Procs -> [at : Phases, due : Statuses, lock : 0..2]]]
  /\ registered \subseteq Tasks /\ caught \subseteq Tasks
  /\ waiter \subseteq Tasks /\ signalled \subseteq Tasks
  /\ serving \in BOOLEAN /\ crashes \in 0..MaxCrashes /\ happens \in Scenarios

\* When MongoDB fails both attempts of a worker to finish its task, the worker drops the
\* lock, and kill calls with the old lock and with a new one may finish the task twice
\* (RunningIsProtected shows how): not so if MongoDB works, or if kill calls come singly.
FinishIsLocked == "mongo_fails" \notin happens \/ \A k, l \in Killers : k = l

\* A finished task stays as it is: the worker, kill calls, failures and restarts all
\* save whole records, and only the lock and the second look keep an old copy from
\* reviving the task or a later end from replacing the first (_finish, _run_worker).
TerminalIsFinal ==
  [][FinishIsLocked => \A t \in Tasks : status[t] \in Terminal => status'[t] = status[t]]_vars

\* The box of a running task is never taken back: whatever ends other tasks in it,
\* protection that was registered once is released at most once (_finish).
RunningKeepsBox ==
  FinishIsLocked => \A t \in Tasks : status[t] = "RUNNING" => box[t] \in open

\* Types, and boxes that stay while a task runs in them.
TaskInv == TypeOK /\ RunningKeepsBox

\* Every running task has a protection of its own: what the comment in _finish says of
\* releasing once.  Two kill calls and two failures of MongoDB in the worker break it.
RunningIsProtected ==
  \A b \in Boxes : Cardinality({t \in Tasks : box[t] = b /\ status[t] = "RUNNING"}) <= count[b]

AtRest(t) ==
  /\ status[t] \notin Unfinished
  /\ \A p \in Procs : At(t, p) \in {"none", "done", "failed", "ended"}

\* Unless MongoDB fails or a request is cancelled in the middle, no protection is
\* left once all tasks ended: the box can be taken back.
NothingLeaked ==
  happens \cap {"mongo_fails", "cancelled"} = {} /\ serving /\ (\A t \in Tasks : AtRest(t)) =>
    \A b \in Boxes : count[b] = 0

\* Without kill calls the end of a task wakes whoever waits for it, before the worker
\* drops the event: execute_command does not sit out its timeout.
WaiterWoken ==
  happens \cap {"kill", "mongo_fails"} = {} =>
    \A t \in waiter : Followed(t)

\* While MongoDB works every unfinished task has somebody who will finish it: whatever
\* AIO does, whoever is cancelled or comes second, none is forgotten as RUNNING.
TaskIsFollowed ==
  "mongo_fails" \notin happens /\ serving =>
    \A t \in Tasks : status[t] \in Unfinished =>
      At(t, "start") \in StartPhases \cup FinishPhases \/ Followed(t)
=============================================================================
