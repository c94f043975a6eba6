----------------------------- MODULE TurnStream -----------------------------
(***************************************************************************)
(* The running turn of ONE chat session: the Redis lease that names it      *)
(* (RedisChatTurnStream), the background runner that produces its SSE       *)
(* frames (ChatTurnStreamManager._run_turn), the subscribers that replay    *)
(* and follow the frames, and the cancel endpoint, over several instances   *)
(* of the chat service.  Sessions share nothing but the Redis server, so    *)
(* one session is enough.                                                   *)
(*                                                                          *)
(* A runner step is what happens between two awaits; a Redis command takes  *)
(* effect in the step that issues it, and the reply may be an exception     *)
(* whether or not it took effect.  The frame generator (the coordinator)    *)
(* is seen only through what it does to this loop: it yields a frame, ends  *)
(* or raises.  Frames are reduced to their kind.                            *)
(***************************************************************************)
EXTENDS Naturals, Sequences, FiniteSets

CONSTANTS
  Turns,         \* turn ids; a uuid names one turn only
  Procs,         \* instances of the chat service
  Subs,          \* browsers, each with at most one HTTP response that forwards frames
  Cancels,       \* calls of the cancel endpoint
  None,          \* no turn / no instance
  MaxFrames,     \* bound on the content frames of one turn
  Scenarios      \* sets of events a behaviour is exposed to, one drawn by each

ASSUME NoneAssumption == None \notin Turns /\ None \notin Procs
ASSUME BoundAssumption == MaxFrames \in Nat

\* redis_fails: a Redis command of a runner raises; cancel: the cancel endpoint is called.
Events == {"redis_fails", "cancel"}

ASSUME ScenariosAssumption == Scenarios \subseteq SUBSET Events

VARIABLES
  active_turn,       \* the lease: the turn that owns the session, or None
  cancel_requested,  \* turns whose cancel flag is set in Redis
  stream,            \* turn -> the frames appended to its Redis stream
  runner,            \* turn -> where its runner is (see Phases)
  home,              \* turn -> the instance that runs it
  tasks,             \* instance -> the turns in its _tasks dictionary
  sub,               \* subscriber -> its request
  got,               \* subscriber -> the frames it forwarded so far
  canc,              \* cancel call -> its progress
  expired,           \* history: turns whose lease ran out under them
  killed,            \* history: turns stopped by task.cancel()
  stale,             \* history: turn -> content frames written without the lease
  unreported,        \* history: turns whose failure could not be reported
  happens            \* what may befall the turns in this behaviour

vars == <<active_turn, cancel_requested, stream, runner, home, tasks,
          sub, got, canc, expired, killed, stale, unreported, happens>>

leaseVars  == <<active_turn, expired>>
readVars   == <<sub, got>>
cancelVars == <<cancel_requested, canc, killed>>

-----------------------------------------------------------------------------
Frames == {"start", "data", "finish", "error", "done"}

\* The generator may still be running or about to be asked for a frame.
Working == {"start", "gen", "renew", "append", "release"}
Closing == {"finish", "finish_done", "lost", "lost_done", "except", "except_done"}
Over    == {"finally", "background", "ended", "dead"}
Phases  == {"new", "rejected"} \cup Working \cup Closing \cup Over

NoSub    == [pc |-> "idle", turn |-> None, last_id |-> 0]
NoCancel == [pc |-> "idle", turn |-> None, proc |-> None]

TypeOK ==
  /\ active_turn \in Turns \cup {None}
  /\ cancel_requested \subseteq Turns
  /\ stream \in [Turns -> Seq(Frames)]
  /\ runner \in [Turns -> Phases]
  /\ home \in [Turns -> Procs \cup {None}]
  /\ tasks \in [Procs -> SUBSET Turns]
  /\ sub \in [Subs -> [pc : {"idle", "replay", "tail", "done", "closed"},
                       turn : Turns \cup {None}, last_id : Nat]]
  /\ got \in [Subs -> Seq(Frames)]
  /\ canc \in [Cancels -> [pc : {"idle", "flag", "lookup", "wait", "returned"},
                           turn : Turns \cup {None}, proc : Procs \cup {None}]]
  /\ expired \subseteq Turns
  /\ killed \subseteq Turns
  /\ stale \in [Turns -> Nat]
  /\ unreported \subseteq Turns
  /\ happens \in Scenarios

Init ==
  /\ active_turn = None
  /\ cancel_requested = {}
  /\ stream = [t \in Turns |-> << >>]
  /\ runner = [t \in Turns |-> "new"]
  /\ home = [t \in Turns |-> None]
  /\ tasks = [p \in Procs |-> {}]
  /\ sub = [s \in Subs |-> NoSub]
  /\ got = [s \in Subs |-> << >>]
  /\ canc = [c \in Cancels |-> NoCancel]
  /\ expired = {}
  /\ killed = {}
  /\ stale = [t \in Turns |-> 0]
  /\ unreported = {}
  /\ happens \in Scenarios

-----------------------------------------------------------------------------
(* Starting a turn: the completions and recover endpoints.                  *)

\* Mutant: SET without NX.
acquire_overwrites(t) == active_turn' = t

\* SET NX EX on the lease key.
acquire_active_turn(t) == active_turn = None /\ active_turn' = t

\* The lease is free: the runner task is created and registered, and the
\* endpoint returns a response that will read the stream of the turn.
start_turn(p, t) ==
  /\ runner[t] = "new"
  /\ acquire_active_turn(t)
  /\ runner' = [runner EXCEPT ![t] = "start"]
  /\ home' = [home EXCEPT ![t] = p]
  /\ tasks' = [tasks EXCEPT ![p] = @ \cup {t}]
  /\ UNCHANGED <<stream, expired, stale, unreported, readVars, cancelVars, happens>>

\* The lease is taken: CHAT_TURN_IN_PROGRESS, and the fresh id is dropped.
start_turn_rejected(t) ==
  /\ runner[t] = "new"
  /\ active_turn # None
  /\ runner' = [runner EXCEPT ![t] = "rejected"]
  /\ UNCHANGED <<stream, home, tasks, stale, unreported, leaseVars, readVars, cancelVars, happens>>

\* Taking the lease raises, with or without effect: the request fails, and a lease that was
\* taken names a turn that never runs, until it expires.
start_turn_fails(t) ==
  /\ "redis_fails" \in happens
  /\ runner[t] = "new"
  /\ acquire_active_turn(t) \/ UNCHANGED active_turn
  /\ runner' = [runner EXCEPT ![t] = "rejected"]
  /\ UNCHANGED <<stream, home, tasks, expired, stale, unreported, readVars, cancelVars, happens>>

-----------------------------------------------------------------------------
(* The runner.                                                              *)

Goto(t, phase) == runner' = [runner EXCEPT ![t] = phase]

\* Where an exception raised in a phase is caught: by the except clause of
\* _run_turn, or, inside that clause, by nothing but the finally clause.
OnError(phase) == IF phase \in {"except", "except_done"} THEN "finally" ELSE "except"

\* The error reaches its clause; one raised in the except clause ends the turn unreported.
Raise(t) ==
  /\ Goto(t, OnError(runner[t]))
  /\ unreported' = IF OnError(runner[t]) = "finally" THEN unreported \cup {t} ELSE unreported

\* Continue after a Redis command that took effect: its reply is either the
\* result or a connection error.
Reply(t, next) ==
  \/ Goto(t, next) /\ UNCHANGED unreported
  \/ "redis_fails" \in happens /\ Raise(t)

append_frame(t, frame) == stream' = [stream EXCEPT ![t] = Append(@, frame)]

\* A frame written whatever the lease says.
LifecycleFrame(t, phase, frame, next) ==
  /\ runner[t] = phase
  /\ append_frame(t, frame)
  /\ Reply(t, next)
  /\ UNCHANGED <<home, tasks, stale, leaseVars, readVars, cancelVars, happens>>

message_start(t) == LifecycleFrame(t, "start", "start", "gen")

HasFrame(t, frame) == \E i \in DOMAIN stream[t] : stream[t][i] = frame

ContentFrames(t) == Cardinality({i \in DOMAIN stream[t] : stream[t][i] = "data"})

\* What the generator does next.
GeneratorStep(t) ==
  /\ runner[t] = "gen"
  /\ \/ /\ ContentFrames(t) < MaxFrames
        /\ Goto(t, "renew")
     \/ Goto(t, "release")
     \/ Goto(t, "except")
  /\ UNCHANGED <<stream, home, tasks, stale, unreported, leaseVars, readVars, cancelVars, happens>>

\* Mutant: the renewal checks that the key exists, not whose it is.
renew_any_owner(t) ==
  /\ runner[t] = "renew"
  /\ Reply(t, IF active_turn # None THEN "append" ELSE "lost")
  /\ UNCHANGED <<stream, home, tasks, stale, leaseVars, readVars, cancelVars, happens>>

\* EXPIRE only if the lease still names this turn.
renew_active_turn(t) ==
  /\ runner[t] = "renew"
  /\ Reply(t, IF active_turn = t THEN "append" ELSE "lost")
  /\ UNCHANGED <<stream, home, tasks, stale, leaseVars, readVars, cancelVars, happens>>

AppendContent(t) ==
  /\ runner[t] = "append"
  /\ append_frame(t, "data")
  /\ stale' = [stale EXCEPT ![t] = IF active_turn = t THEN @ ELSE @ + 1]
  /\ Reply(t, "gen")
  /\ UNCHANGED <<home, tasks, leaseVars, readVars, cancelVars, happens>>

\* The renewal failed: an error frame, the terminal frame, and return.
LeaseLost(t) ==
  \/ LifecycleFrame(t, "lost", "error", "lost_done")
  \/ LifecycleFrame(t, "lost_done", "done", "finally")

\* Mutant: DEL whoever owns the lease.
release_any_owner(t) ==
  /\ runner[t] = "release"
  /\ active_turn' = None
  /\ Reply(t, "finish")
  /\ UNCHANGED <<stream, home, tasks, stale, expired, readVars, cancelVars, happens>>

\* Mutant: the finish frame is written while the lease is still held.
release_after_finish(t) ==
  \/ /\ runner[t] = "release"
     /\ Reply(t, "finish")
     /\ UNCHANGED active_turn
     /\ UNCHANGED <<stream, home, tasks, stale, expired, readVars, cancelVars, happens>>
  \/ /\ runner[t] = "finally"
     /\ active_turn = t
     /\ active_turn' = None
     /\ UNCHANGED runner
     /\ UNCHANGED <<stream, home, tasks, stale, unreported, expired, readVars, cancelVars, happens>>

\* DEL only if the lease still names this turn.
release_active_turn(t) ==
  /\ runner[t] = "release"
  /\ active_turn' = IF active_turn = t THEN None ELSE active_turn
  /\ Reply(t, "finish")
  /\ UNCHANGED <<stream, home, tasks, stale, expired, readVars, cancelVars, happens>>

message_finish(t) ==
  \/ LifecycleFrame(t, "finish", "finish", "finish_done")
  \/ LifecycleFrame(t, "finish_done", "done", "finally")

\* Mutant: the except clause forgets the terminal frame.
failed_without_terminal(t) == LifecycleFrame(t, "except", "error", "finally")

\* The except clause: an error frame and the terminal frame.
RunnerFailed(t) ==
  \/ LifecycleFrame(t, "except", "error", "except_done")
  \/ LifecycleFrame(t, "except_done", "done", "finally")

\* A Redis command of the runner raises without having taken effect.
RedisRaises(t) ==
  /\ "redis_fails" \in happens
  /\ runner[t] \in (Working \ {"gen"}) \cup Closing
  /\ Raise(t)
  /\ UNCHANGED <<stream, home, tasks, stale, leaseVars, readVars, cancelVars, happens>>

\* The finally clause: the task leaves _tasks, then the background tasks run.
FinallyPop(t) ==
  /\ runner[t] = "finally"
  /\ tasks' = [tasks EXCEPT ![home[t]] = @ \ {t}]
  /\ Goto(t, "background")
  /\ UNCHANGED <<stream, home, stale, unreported, leaseVars, readVars, cancelVars, happens>>

BackgroundTasks(t) ==
  /\ runner[t] = "background"
  /\ Goto(t, "ended")
  /\ UNCHANGED <<stream, home, tasks, stale, unreported, leaseVars, readVars, cancelVars, happens>>

-----------------------------------------------------------------------------
(* Subscribers.                                                             *)

\* A response starts to iterate over the frames of a turn.  It has the id from
\* start_turn, or from the lease when the page reconnects, and either way the
\* turn may have moved on since.
subscribe_turn(s, t) ==
  /\ sub[s].pc \notin {"replay", "tail"}
  /\ runner[t] \notin {"new", "rejected"} \/ active_turn = t
  /\ sub' = [sub EXCEPT ![s] = [pc |-> "replay", turn |-> t, last_id |-> 0]]
  /\ got' = [got EXCEPT ![s] = << >>]
  /\ UNCHANGED <<stream, runner, home, tasks, stale, unreported, leaseVars, cancelVars, happens>>

\* Positions of the stream read by one call that starts after last_id: up to
\* the first terminal frame, where the iteration returns.
Batch(s) ==
  LET frames == stream[sub[s].turn]
      from   == sub[s].last_id
      upto(n) == \A i \in (from + 1)..(n - 1) : frames[i] # "done"
  IN  {n \in (from + 1)..Len(frames) : upto(n)}

\* Forward the frames up to position n.
Forward(s, n) ==
  LET frames == stream[sub[s].turn] IN
  /\ got' = [got EXCEPT ![s] = @ \o SubSeq(frames, sub[s].last_id + 1, n)]
  /\ sub' = [sub EXCEPT ![s] =
               [@ EXCEPT !.pc = IF n > 0 /\ frames[n] = "done" THEN "done" ELSE "tail",
                         !.last_id = n]]
  /\ UNCHANGED <<stream, runner, home, tasks, stale, unreported, leaseVars, cancelVars, happens>>

\* Mutant: follow from the newest entry without replaying the older ones.
replay_from_end(s) ==
  /\ sub[s].pc = "replay"
  /\ sub' = [sub EXCEPT ![s].pc = "tail", ![s].last_id = Len(stream[sub[s].turn])]
  /\ UNCHANGED <<got, stream, runner, home, tasks, stale, unreported, leaseVars, cancelVars, happens>>

\* XRANGE - +: everything there is now, possibly nothing.
Replay(s) ==
  /\ sub[s].pc = "replay"
  /\ \E n \in {0} \cup Batch(s) :
       /\ \A m \in Batch(s) : m <= n
       /\ Forward(s, n)

\* XREAD after last_id: some frames that arrived since.
Follow(s) ==
  /\ sub[s].pc = "tail"
  /\ \E n \in Batch(s) : Forward(s, n)

\* The browser goes away; the runner is not told.
Disconnect(s) ==
  /\ sub[s].pc \in {"replay", "tail"}
  /\ sub' = [sub EXCEPT ![s].pc = "closed"]
  /\ UNCHANGED <<got, stream, runner, home, tasks, stale, unreported, leaseVars, cancelVars, happens>>

-----------------------------------------------------------------------------
(* Cancelling.                                                              *)

\* Mutant: no check that a turn is running.
cancel_reads_unchecked(c, p) ==
  /\ canc[c].pc = "idle" /\ "cancel" \in happens
  /\ canc' = [canc EXCEPT ![c] = [pc |-> "flag", turn |-> active_turn, proc |-> p]]
  /\ UNCHANGED <<cancel_requested, killed, stream, runner, home, tasks, stale, unreported,
                 leaseVars, readVars, happens>>

\* The endpoint reads the lease; without one it reports that no turn is running.
CancelReads(c, p) ==
  /\ canc[c].pc = "idle"
  /\ "cancel" \in happens /\ active_turn # None
  /\ canc' = [canc EXCEPT ![c] = [pc |-> "flag", turn |-> active_turn, proc |-> p]]
  /\ UNCHANGED <<cancel_requested, killed, stream, runner, home, tasks, stale, unreported,
                 leaseVars, readVars, happens>>

request_turn_cancel(c) ==
  /\ canc[c].pc = "flag"
  /\ cancel_requested' = cancel_requested \cup {canc[c].turn}
  /\ canc' = [canc EXCEPT ![c].pc = "lookup"]
  /\ UNCHANGED <<killed, stream, runner, home, tasks, stale, unreported, leaseVars, readVars, happens>>

\* Mutant: the task looked up is the one that owns the session now.
cancel_looks_up_active(c) ==
  /\ canc[c].pc = "lookup"
  /\ canc' = [canc EXCEPT ![c] =
                IF active_turn \in tasks[canc[c].proc]
                THEN [@ EXCEPT !.pc = "wait", !.turn = active_turn]
                ELSE [@ EXCEPT !.pc = "returned"]]
  /\ UNCHANGED <<cancel_requested, killed, stream, runner, home, tasks, stale, unreported,
                 leaseVars, readVars, happens>>

\* Only the instance that runs the turn finds its task.
CancelLooksUp(c) ==
  /\ canc[c].pc = "lookup"
  /\ canc' = [canc EXCEPT ![c].pc =
                IF canc[c].turn \in tasks[canc[c].proc] THEN "wait" ELSE "returned"]
  /\ UNCHANGED <<cancel_requested, killed, stream, runner, home, tasks, stale, unreported,
                 leaseVars, readVars, happens>>

CancelSeesEnd(c) ==
  /\ canc[c].pc = "wait"
  /\ runner[canc[c].turn] \in {"ended", "dead"}
  /\ canc' = [canc EXCEPT ![c].pc = "returned"]
  /\ UNCHANGED <<cancel_requested, killed, stream, runner, home, tasks, stale, unreported,
                 leaseVars, readVars, happens>>

\* Mutant: the timeout is swallowed and the task left alone.
cancel_gives_up(c) ==
  /\ canc[c].pc = "wait"
  /\ runner[canc[c].turn] \notin {"ended", "dead"}
  /\ canc' = [canc EXCEPT ![c].pc = "returned"]
  /\ UNCHANGED <<cancel_requested, killed, stream, runner, home, tasks, stale, unreported,
                 leaseVars, readVars, happens>>

\* Thirty seconds passed: CancelledError is thrown into the runner.  No except
\* clause of the runner catches it; but if it waits for the generator, and that
\* for the model or a tool, the generator turns it into an aborted step.
CancelTimesOut(c) ==
  LET t == canc[c].turn IN
  /\ canc[c].pc = "wait"
  /\ runner[t] \notin {"ended", "dead"}
  /\ \/ Goto(t, IF runner[t] = "background" THEN "ended" ELSE "finally")
     \/ runner[t] = "gen" /\ UNCHANGED runner
  /\ killed' = killed \cup {t}
  /\ canc' = [canc EXCEPT ![c].pc = "returned"]
  /\ UNCHANGED <<cancel_requested, stream, home, tasks, stale, unreported, leaseVars, readVars, happens>>

-----------------------------------------------------------------------------
(* The environment.                                                         *)

\* The TTL of the lease runs out.
LeaseExpires ==
  /\ active_turn # None
  /\ expired' = expired \cup {active_turn}
  /\ active_turn' = None
  /\ UNCHANGED <<stream, runner, home, tasks, stale, unreported, readVars, cancelVars, happens>>

\* An instance dies and comes back with an empty _tasks; its runners and the
\* cancel calls it was serving are gone.
Crash(p) ==
  /\ \E t \in Turns : home[t] = p /\ runner[t] \notin {"ended", "dead"}
  /\ runner' = [t \in Turns |-> IF home[t] = p /\ runner[t] # "ended"
                                THEN "dead" ELSE runner[t]]
  /\ tasks' = [tasks EXCEPT ![p] = {}]
  /\ canc' = [c \in Cancels |-> IF canc[c].proc = p
                                THEN [canc[c] EXCEPT !.pc = "returned"] ELSE canc[c]]
  /\ UNCHANGED <<cancel_requested, killed, stream, home, stale, unreported, leaseVars, readVars, happens>>

-----------------------------------------------------------------------------
\* The steps of the runner that do not wait for the generator.
RunnerStep(t) ==
  \/ message_start(t) \/ renew_active_turn(t) \/ AppendContent(t) \/ LeaseLost(t)
  \/ release_active_turn(t) \/ message_finish(t) \/ RunnerFailed(t)
  \/ FinallyPop(t) \/ BackgroundTasks(t)

CancelStep(c) ==
  \/ request_turn_cancel(c) \/ CancelLooksUp(c) \/ CancelSeesEnd(c) \/ CancelTimesOut(c)

Next ==
  \/ \E p \in Procs, t \in Turns : start_turn(p, t)
  \/ \E t \in Turns : start_turn_rejected(t) \/ start_turn_fails(t)
  \/ \E t \in Turns : RunnerStep(t)
  \/ \E t \in Turns : GeneratorStep(t)
  \/ \E t \in Turns : RedisRaises(t)
  \/ \E s \in Subs, t \in Turns : subscribe_turn(s, t)
  \/ \E s \in Subs : Replay(s) \/ Follow(s) \/ Disconnect(s)
  \/ \E c \in Cancels, p \in Procs : CancelReads(c, p)
  \/ \E c \in Cancels : CancelStep(c)
  \/ LeaseExpires
  \/ \E p \in Procs : Crash(p)

Spec == Init /\ [][Next]_vars

\* The event loop runs every task that can run, the subscriber polls, and the
\* cancel call's timeout fires.  Nothing makes the generator move on but a kill
\* it caught: then it only closes the step and saves it.
Fairness ==
  /\ \A t \in Turns : WF_vars(RunnerStep(t)) /\ WF_vars(t \in killed /\ GeneratorStep(t))
  /\ \A s \in Subs : WF_vars(Replay(s)) /\ WF_vars(Follow(s))
  /\ \A c \in Cancels : WF_vars(CancelStep(c))

LiveSpec == Spec /\ Fairness

-----------------------------------------------------------------------------
(* Safety.                                                                  *)

\* A runner that may still produce content keeps the session's lease until
\* the lease expires under it: no other turn's renewal, release, failure or
\* cancellation takes it away (the owner comparison in the Lua scripts).
HolderKeepsLease ==
  \A t \in Turns : runner[t] \in Working /\ t \notin expired => active_turn = t

\* A runner that lost the session writes at most one more content frame: the
\* one it had already renewed for ("avoid an old runner writing on").
StaleWriterStops == \A t \in Turns : stale[t] <= 1

\* Whoever reads the finish frame can start the next turn at once: the lease
\* is given up before that frame is written.
FinishFreesSession ==
  \A t \in Turns : HasFrame(t, "finish") => active_turn # t

\* Every subscriber, early, late or reconnected, forwards a gapless prefix of
\* the turn's stream, in order, without repetition: replay and follow join.
SeesPrefix(s) ==
  sub[s].turn # None => got[s] = SubSeq(stream[sub[s].turn], 1, Len(got[s]))

\* A cancel call only ever kills the turn whose cancel flag it set, although
\* the session may have passed to another turn meanwhile.
KillOnlyCancelled == killed \subseteq cancel_requested

\* Once the terminal frame is in a stream no content follows it: a subscriber
\* that returned there missed nothing the model said.
NoContentAfterTerminal ==
  [][\A t \in Turns :
       HasFrame(t, "done") => ContentFrames(t)' = ContentFrames(t)]_stream

\* What subscribers saw is a gapless prefix of their turn's stream, and nothing that the
\* model said comes after the frame at which they return.
StreamIsWhole == [](\A s \in Subs : SeesPrefix(s)) /\ NoContentAfterTerminal

\* The lease implements the abstract session: live turns exclude each other.
Session ==
  INSTANCE ExclusiveTurns WITH
    live  <- {t \in Turns : runner[t] \in Working /\ t \notin expired},
    begun <- {t \in Turns : runner[t] \notin {"new", "rejected"}}

SessionSpec == Session!Spec

-----------------------------------------------------------------------------
(* Liveness.                                                                *)

\* The turns that may end without a terminal frame: killed, on an instance that died, unable
\* to report their own failure, or never run though they took the lease.
Silent == killed \cup unreported \cup {t \in Turns : runner[t] \in {"dead", "rejected"}}

\* As long as the model and the tools answer, a subscriber that keeps reading comes to an end
\* of its own, whatever Redis command of its turn fails and whoever cancels it, unless the
\* turn is a silent one (iter_frames returns on the terminal frame only).
SubscribersEnd ==
  (\A t \in Turns : WF_vars(GeneratorStep(t))) =>
    \A s \in Subs :
      sub[s].pc \in {"replay", "tail"} ~>
        sub[s].pc \in {"done", "closed"} \/ sub[s].turn \in Silent

\* A cancel call that found its task stops the turn, even when the generator
\* hangs for ever: the hard kill after the grace period.
CancelEndsTurn ==
  \A c \in Cancels, t \in Turns :
    canc[c].pc = "wait" /\ canc[c].turn = t ~> runner[t] \in Over

=============================================================================
