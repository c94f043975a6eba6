-------------------------- MODULE TurnStreamProofs --------------------------
(***************************************************************************)
(* What TurnStream guarantees for any number of turns, instances,           *)
(* subscribers and cancel calls.                                            *)
(***************************************************************************)
EXTENDS TurnStream, TLAPS

\* A request that is under way names a turn.
RequestsNameTurns ==
  /\ \A s \in Subs : sub[s].pc \in {"replay", "tail"} => sub[s].turn \in Turns
  /\ \A c \in Cancels : canc[c].pc \in {"flag", "lookup", "wait"} => canc[c].turn \in Turns

TypeInv == TypeOK /\ RequestsNameTurns

-----------------------------------------------------------------------------
\* Every runner step only moves its own runner, and to a phase.
LEMMA ReplyType ==
  ASSUME TypeOK, NEW t \in Turns, NEW next \in Phases, Reply(t, next)
  PROVE  runner' \in [Turns -> Phases] /\ unreported' \in SUBSET Turns
<1>1. runner' \in [Turns -> Phases]
  BY DEF TypeOK, Reply, Raise, Goto, OnError, Phases, Closing, Over
<1>2. unreported' \in SUBSET Turns
  BY DEF TypeOK, Reply, Raise
<1> QED
  BY <1>1, <1>2

\* A lifecycle frame that is written keeps the types.
LEMMA LifecycleType ==
  ASSUME TypeInv, NEW t \in Turns, NEW phase, NEW frame \in Frames,
         NEW next \in Phases, LifecycleFrame(t, phase, frame, next)
  PROVE  TypeInv'
<1>1. runner' \in [Turns -> Phases] /\ unreported' \in SUBSET Turns
  BY ReplyType DEF TypeInv, LifecycleFrame
<1>2. stream' \in [Turns -> Seq(Frames)]
  BY DEF TypeInv, TypeOK, LifecycleFrame, append_frame
<1>3. QED
  BY <1>1, <1>2
  DEF TypeInv, TypeOK, RequestsNameTurns, LifecycleFrame, leaseVars, readVars, cancelVars

\* What a subscriber forwards are frames of its turn.
LEMMA BatchInStream ==
  ASSUME TypeInv, NEW s \in Subs, sub[s].pc \in {"replay", "tail"}, NEW n \in Batch(s)
  PROVE  n \in Nat /\ n <= Len(stream[sub[s].turn]) /\ sub[s].last_id < n
<1> DEFINE frames == stream[sub[s].turn]
<1>1. frames \in Seq(Frames) /\ sub[s].last_id \in Nat
  BY DEF TypeInv, TypeOK, RequestsNameTurns
<1>2. n \in (sub[s].last_id + 1)..Len(frames)
  BY DEF Batch
<1>3. QED BY <1>1, <1>2

\* A subscriber that forwards a frame keeps the types.
LEMMA ForwardType ==
  ASSUME TypeInv, NEW s \in Subs, sub[s].pc \in {"replay", "tail"},
         NEW n \in Nat, n <= Len(stream[sub[s].turn]), Forward(s, n)
  PROVE  TypeInv'
<1> DEFINE frames == stream[sub[s].turn]
<1>1. frames \in Seq(Frames) /\ sub[s].last_id \in Nat /\ got[s] \in Seq(Frames)
  BY DEF TypeInv, TypeOK, RequestsNameTurns
<1>2. SubSeq(frames, sub[s].last_id + 1, n) \in Seq(Frames)
  BY <1>1
<1>3. got' \in [Subs -> Seq(Frames)]
  BY <1>1, <1>2 DEF TypeInv, TypeOK, Forward
<1> DEFINE next == IF n > 0 /\ frames[n] = "done" THEN "done" ELSE "tail"
           moved == [sub[s] EXCEPT !.pc = next, !.last_id = n]
<1>a. next \in {"done", "tail"} OBVIOUS
<1>b. sub' = [sub EXCEPT ![s] = moved] BY DEF Forward
<1> HIDE DEF next
<1>c. moved \in [pc : {"idle", "replay", "tail", "done", "closed"},
                 turn : Turns \cup {None}, last_id : Nat] /\ moved.turn = sub[s].turn
  BY <1>a DEF TypeInv, TypeOK
<1> HIDE DEF moved
<1>4. sub' \in [Subs -> [pc : {"idle", "replay", "tail", "done", "closed"},
                         turn : Turns \cup {None}, last_id : Nat]]
  BY <1>b, <1>c DEF TypeInv, TypeOK
<1>5. \A r \in Subs : sub'[r].turn = sub[r].turn
  BY <1>b, <1>c DEF TypeInv, TypeOK
<1>6. \A r \in Subs : sub'[r].pc \in {"replay", "tail"} => sub[r].pc \in {"replay", "tail"}
  BY <1>b DEF TypeInv, TypeOK
<1>7. QED
  BY <1>3, <1>4, <1>5, <1>6
  DEF TypeInv, TypeOK, RequestsNameTurns, Forward, leaseVars, cancelVars

\* Every step keeps the types.
LEMMA TypeStep == TypeInv /\ [Next]_vars => TypeInv'
<1> SUFFICES ASSUME TypeInv, [Next]_vars PROVE TypeInv'
  OBVIOUS
<1> USE DEF leaseVars, readVars, cancelVars
<1>1. ASSUME NEW p \in Procs, NEW t \in Turns, start_turn(p, t) PROVE TypeInv'
  BY <1>1 DEF TypeInv, TypeOK, RequestsNameTurns, start_turn, acquire_active_turn,
              Phases, Working
<1>2. ASSUME NEW t \in Turns, start_turn_rejected(t) \/ start_turn_fails(t) PROVE TypeInv'
  BY <1>2
  DEF TypeInv, TypeOK, RequestsNameTurns, start_turn_rejected, start_turn_fails, acquire_active_turn,
      Phases
<1>3. ASSUME NEW t \in Turns, RunnerStep(t) PROVE TypeInv'
  <2>1. CASE message_start(t)
    BY <2>1, LifecycleType DEF message_start, Frames, Phases, Working
  <2>2. CASE renew_active_turn(t)
    <3>1. runner' \in [Turns -> Phases] /\ unreported' \in SUBSET Turns
      BY <2>2, ReplyType DEF TypeInv, renew_active_turn, Phases, Working, Closing
    <3>2. QED BY <2>2, <3>1 DEF TypeInv, TypeOK, RequestsNameTurns, renew_active_turn
  <2>3. CASE AppendContent(t)
    <3>1. runner' \in [Turns -> Phases] /\ unreported' \in SUBSET Turns
      BY <2>3, ReplyType DEF TypeInv, AppendContent, Phases, Working
    <3>2. stream' \in [Turns -> Seq(Frames)] /\ stale' \in [Turns -> Nat]
      BY <2>3 DEF TypeInv, TypeOK, AppendContent, append_frame, Frames
    <3>3. QED BY <2>3, <3>1, <3>2 DEF TypeInv, TypeOK, RequestsNameTurns, AppendContent
  <2>4. CASE LeaseLost(t)
    BY <2>4, LifecycleType DEF LeaseLost, Frames, Phases, Closing, Over
  <2>5. CASE release_active_turn(t)
    <3>1. runner' \in [Turns -> Phases] /\ unreported' \in SUBSET Turns
      BY <2>5, ReplyType DEF TypeInv, release_active_turn, Phases, Closing
    <3>2. QED BY <2>5, <3>1 DEF TypeInv, TypeOK, RequestsNameTurns, release_active_turn
  <2>6. CASE message_finish(t)
    BY <2>6, LifecycleType DEF message_finish, Frames, Phases, Closing, Over
  <2>7. CASE RunnerFailed(t)
    BY <2>7, LifecycleType DEF RunnerFailed, Frames, Phases, Closing, Over
  <2>8. CASE FinallyPop(t)
    BY <2>8 DEF TypeInv, TypeOK, RequestsNameTurns, FinallyPop, Goto, Phases, Over
  <2>9. CASE BackgroundTasks(t)
    BY <2>9 DEF TypeInv, TypeOK, RequestsNameTurns, BackgroundTasks, Goto, Phases, Over
  <2>10. QED
    BY <1>3, <2>1, <2>2, <2>3, <2>4, <2>5, <2>6, <2>7, <2>8, <2>9 DEF RunnerStep
<1>4. ASSUME NEW t \in Turns, GeneratorStep(t) PROVE TypeInv'
  BY <1>4 DEF TypeInv, TypeOK, RequestsNameTurns, GeneratorStep, Goto, Phases, Working, Closing
<1>5. ASSUME NEW t \in Turns, RedisRaises(t) PROVE TypeInv'
  BY <1>5 DEF TypeInv, TypeOK, RequestsNameTurns, RedisRaises, Raise, OnError, Goto, Phases, Over,
              Closing
<1>6. ASSUME NEW s \in Subs, NEW t \in Turns, subscribe_turn(s, t) PROVE TypeInv'
  BY <1>6 DEF TypeInv, TypeOK, RequestsNameTurns, subscribe_turn
<1>7. ASSUME NEW s \in Subs, Replay(s) PROVE TypeInv'
  <2>1. sub[s].pc \in {"replay", "tail"} BY <1>7 DEF Replay
  <2>2. PICK n \in {0} \cup Batch(s) : Forward(s, n) BY <1>7 DEF Replay
  <2>3. Len(stream[sub[s].turn]) \in Nat
    BY <2>1 DEF TypeInv, TypeOK, RequestsNameTurns
  <2>4. QED BY <2>1, <2>2, <2>3, BatchInStream, ForwardType
<1>8. ASSUME NEW s \in Subs, Follow(s) PROVE TypeInv'
  <2>1. sub[s].pc \in {"replay", "tail"} BY <1>8 DEF Follow
  <2>2. PICK n \in Batch(s) : Forward(s, n) BY <1>8 DEF Follow
  <2>3. QED BY <2>1, <2>2, BatchInStream, ForwardType
<1>9. ASSUME NEW s \in Subs, Disconnect(s) PROVE TypeInv'
  <2>1. sub' = [sub EXCEPT ![s] = [@ EXCEPT !.pc = "closed"]]
    BY <1>9 DEF Disconnect
  <2>2. [sub[s] EXCEPT !.pc = "closed"] \in
          [pc : {"idle", "replay", "tail", "done", "closed"},
           turn : Turns \cup {None}, last_id : Nat]
    BY ZenonT(40) DEF TypeInv, TypeOK
  <2>3. sub' \in [Subs -> [pc : {"idle", "replay", "tail", "done", "closed"},
                           turn : Turns \cup {None}, last_id : Nat]]
    BY <2>1, <2>2 DEF TypeInv, TypeOK
  <2>4. \A r \in Subs : sub'[r].pc \in {"replay", "tail"} => sub'[r].turn \in Turns
    BY <2>1 DEF TypeInv, TypeOK, RequestsNameTurns
  <2>5. QED BY <1>9, <2>3, <2>4 DEF TypeInv, TypeOK, RequestsNameTurns, Disconnect
<1>10. ASSUME NEW c \in Cancels, NEW p \in Procs, CancelReads(c, p) PROVE TypeInv'
  BY <1>10, ZenonT(40) DEF TypeInv, TypeOK, RequestsNameTurns, CancelReads
<1>11. ASSUME NEW c \in Cancels, CancelStep(c) PROVE TypeInv'
  <2>1. CASE request_turn_cancel(c)
    BY <2>1, ZenonT(40) DEF TypeInv, TypeOK, RequestsNameTurns, request_turn_cancel
  <2>2. CASE CancelLooksUp(c)
    BY <2>2, ZenonT(40) DEF TypeInv, TypeOK, RequestsNameTurns, CancelLooksUp
  <2>3. CASE CancelSeesEnd(c)
    BY <2>3, ZenonT(40) DEF TypeInv, TypeOK, RequestsNameTurns, CancelSeesEnd
  <2>4. CASE CancelTimesOut(c)
    <3>1. canc[c].turn \in Turns
      BY <2>4 DEF TypeInv, RequestsNameTurns, CancelTimesOut
    <3>2. runner' \in [Turns -> Phases]
      BY <2>4 DEF TypeInv, TypeOK, CancelTimesOut, Goto, Phases, Over
    <3>3. canc' = [canc EXCEPT ![c].pc = "returned"] /\ killed' = killed \cup {canc[c].turn}
      BY <2>4 DEF CancelTimesOut
    <3>4. canc' \in [Cancels -> [pc : {"idle", "flag", "lookup", "wait", "returned"},
                                 turn : Turns \cup {None}, proc : Procs \cup {None}]]
      BY <3>3, ZenonT(40) DEF TypeInv, TypeOK
    <3>5. \A d \in Cancels : canc'[d].pc \in {"flag", "lookup", "wait"} => canc'[d].turn \in Turns
      BY <3>3 DEF TypeInv, TypeOK, RequestsNameTurns
    <3>6. UNCHANGED <<cancel_requested, stream, home, tasks, stale, unreported, leaseVars, readVars, happens>>
      BY <2>4 DEF CancelTimesOut
    <3>7. TypeOK'
      BY <3>1, <3>2, <3>3, <3>4, <3>6 DEF TypeInv, TypeOK, leaseVars, readVars
    <3>8. QED
      BY <3>5, <3>6, <3>7 DEF TypeInv, RequestsNameTurns, readVars
  <2>5. QED BY <1>11, <2>1, <2>2, <2>3, <2>4 DEF CancelStep
<1>12. CASE LeaseExpires
  BY <1>12 DEF TypeInv, TypeOK, RequestsNameTurns, LeaseExpires
<1>13. ASSUME NEW p \in Procs, Crash(p) PROVE TypeInv'
  <2>1. runner' \in [Turns -> Phases] /\ tasks' \in [Procs -> SUBSET Turns]
    BY <1>13 DEF TypeInv, TypeOK, Crash, Phases, Over
  <2>2. \A c \in Cancels :
          canc'[c] = IF canc[c].proc = p THEN [canc[c] EXCEPT !.pc = "returned"] ELSE canc[c]
    BY <1>13 DEF Crash
  <2>3. canc' \in [Cancels -> [pc : {"idle", "flag", "lookup", "wait", "returned"},
                               turn : Turns \cup {None}, proc : Procs \cup {None}]]
    <3> DEFINE Call == [pc : {"idle", "flag", "lookup", "wait", "returned"},
                        turn : Turns \cup {None}, proc : Procs \cup {None}]
    <3>1. \A c \in Cancels : canc[c] \in Call /\ [canc[c] EXCEPT !.pc = "returned"] \in Call
      BY ZenonT(40) DEF TypeInv, TypeOK
    <3> HIDE DEF Call
    <3>2. \A c \in Cancels : canc'[c] \in Call BY <2>2, <3>1
    <3>3. canc' = [c \in Cancels |-> canc'[c]] BY <1>13 DEF Crash
    <3>4. canc' \in [Cancels -> Call] BY <3>2, <3>3
    <3>5. QED BY <3>4 DEF Call
  <2>4. \A c \in Cancels : canc'[c].pc \in {"flag", "lookup", "wait"} => canc'[c].turn \in Turns
    BY <2>2 DEF TypeInv, TypeOK, RequestsNameTurns
  <2>5. QED BY <1>13, <2>1, <2>3, <2>4 DEF TypeInv, TypeOK, RequestsNameTurns, Crash
<1>14. CASE UNCHANGED vars
  BY <1>14 DEF TypeInv, TypeOK, RequestsNameTurns, vars
<1>15. QED
  BY <1>1, <1>2, <1>3, <1>4, <1>5, <1>6, <1>7, <1>8, <1>9, <1>10, <1>11, <1>12,
     <1>13, <1>14 DEF Next

\* The variables keep their types in every behaviour.
LEMMA TypeCorrect == Spec => []TypeInv
<1>1. Init => TypeInv
  BY DEF Init, TypeInv, TypeOK, RequestsNameTurns, NoSub, NoCancel, Phases
<1>2. QED BY <1>1, TypeStep, PTL DEF Spec

\* The type invariant the runs check.
THEOREM TypeSafety == Spec => []TypeOK
<1>1. TypeInv => TypeOK BY DEF TypeInv
<1>2. QED BY <1>1, TypeCorrect, PTL

-----------------------------------------------------------------------------
(* The lease.  LeaseInv is HolderKeepsLease, StaleWriterStops and             *)
(* FinishFreesSession together with what makes them inductive.               *)

\* A turn that was not asked for has no past, and one that was not accepted has no instance.
Unstarted ==
  \A t \in Turns :
    /\ runner[t] = "new" => active_turn # t /\ t \notin expired
    /\ runner[t] \in {"new", "rejected"} => home[t] = None

\* A runner that wrote a stale frame is not about to write another, and its
\* turn never owns the session again.
StaleInv ==
  \A t \in Turns :
    /\ stale[t] \in {0, 1}
    /\ stale[t] = 1 => active_turn # t /\ runner[t] \notin {"new", "append"}

\* From the release on, the turn never owns the session again.
FinishInv ==
  \A t \in Turns :
    HasFrame(t, "finish") \/ runner[t] \in {"finish", "finish_done"}
      => active_turn # t /\ runner[t] # "new"

LeaseInv == HolderKeepsLease /\ Unstarted /\ StaleInv /\ FinishInv

\* What is in a stream with one frame more.
LEMMA AppendedFrame ==
  ASSUME TypeInv, NEW t \in Turns, NEW f \in Frames, append_frame(t, f),
         NEW u \in Turns, NEW g, HasFrame(u, g)'
  PROVE  HasFrame(u, g) \/ (u = t /\ g = f)
<1>1. stream[t] \in Seq(Frames) /\ stream \in [Turns -> Seq(Frames)]
  BY DEF TypeInv, TypeOK
<1>2. CASE u # t
  BY <1>1, <1>2 DEF append_frame, HasFrame
<1>3. CASE u = t
  BY <1>1, <1>3 DEF append_frame, HasFrame
<1>4. QED BY <1>2, <1>3

\* A frame written whatever the lease says: only a finish frame matters, and
\* it is written after the release.
LEMMA LifecycleLease ==
  ASSUME TypeInv, LeaseInv, NEW t \in Turns, NEW phase \in Phases \ {"new", "rejected"},
         NEW frame \in Frames,
         NEW next \in Phases \ {"new", "rejected", "append", "finish"},
         next \in Working => phase \in Working,
         next = "finish_done" => phase = "finish",
         frame = "finish" => phase = "finish",
         LifecycleFrame(t, phase, frame, next)
  PROVE  LeaseInv'
<1> USE DEF TypeInv, TypeOK, LeaseInv, LifecycleFrame, Reply, Raise, OnError, Goto, leaseVars, Working
<1>1. HolderKeepsLease' BY DEF HolderKeepsLease
<1>2. Unstarted' BY DEF Unstarted
<1>3. StaleInv' BY DEF StaleInv
<1>4. FinishInv'
  <2>1. \A u \in Turns : HasFrame(u, "finish")' =>
          HasFrame(u, "finish") \/ (u = t /\ phase = "finish")
    BY AppendedFrame DEF LifecycleFrame
  <2>2. QED BY <2>1 DEF FinishInv
<1>5. QED BY <1>1, <1>2, <1>3, <1>4

\* Every step keeps the lease with its owner.
LEMMA LeaseStep == TypeInv /\ LeaseInv /\ [Next]_vars => LeaseInv'
<1> SUFFICES ASSUME TypeInv, LeaseInv, [Next]_vars PROVE LeaseInv'
  OBVIOUS
<1> USE DEF leaseVars, readVars, cancelVars
<1>1. ASSUME NEW p \in Procs, NEW t \in Turns, start_turn(p, t) PROVE LeaseInv'
  BY <1>1, NoneAssumption
  DEF TypeInv, TypeOK, LeaseInv, HolderKeepsLease, Unstarted, StaleInv, FinishInv, HasFrame,
      start_turn, acquire_active_turn
<1>2. ASSUME NEW t \in Turns, start_turn_rejected(t) \/ start_turn_fails(t) PROVE LeaseInv'
  <2> USE DEF TypeInv, TypeOK, LeaseInv
  <2>1. /\ runner[t] = "new" /\ runner' = [runner EXCEPT ![t] = "rejected"]
        /\ active_turn' = active_turn \/ (active_turn = None /\ active_turn' = t)
        /\ UNCHANGED <<stream, stale, expired, home>>
    BY <1>2 DEF start_turn_rejected, start_turn_fails, acquire_active_turn
  <2>2. HolderKeepsLease'
    BY <2>1, NoneAssumption DEF HolderKeepsLease, Working
  <2>3. Unstarted' /\ StaleInv'
    BY <2>1 DEF Unstarted, StaleInv
  <2>4. FinishInv'
    BY <2>1 DEF FinishInv, HasFrame
  <2> QED
    BY <2>2, <2>3, <2>4
<1>3. ASSUME NEW t \in Turns, RunnerStep(t) PROVE LeaseInv'
  <2>1. CASE message_start(t)
    BY <2>1, LifecycleLease DEF message_start, Frames, Phases, Working
  <2>2. CASE renew_active_turn(t)
    BY <2>2, ZenonT(40)
    DEF TypeInv, TypeOK, LeaseInv, HolderKeepsLease, Unstarted, StaleInv, FinishInv, HasFrame,
        renew_active_turn, Reply, Raise, OnError, Goto, Working
  <2>3. CASE AppendContent(t)
    <3> USE <2>3 DEF TypeInv, TypeOK, LeaseInv, AppendContent, Reply, Raise, OnError, Goto
    <3>1. HolderKeepsLease' BY DEF HolderKeepsLease, Working
    <3>2. Unstarted' BY DEF Unstarted
    <3>3. StaleInv' BY DEF StaleInv, Unstarted
    <3>4. FinishInv'
      <4>1. \A u \in Turns : HasFrame(u, "finish")' => HasFrame(u, "finish")
        BY AppendedFrame DEF Frames
      <4>2. QED BY <4>1 DEF FinishInv
    <3>5. QED BY <3>1, <3>2, <3>3, <3>4
  <2>4. CASE LeaseLost(t)
    BY <2>4, LifecycleLease DEF LeaseLost, Frames, Phases, Working, Closing, Over
  <2>5. CASE release_active_turn(t)
    <3> USE DEF TypeInv, TypeOK, LeaseInv
    <3>1. /\ runner[t] = "release" /\ \E next \in {"finish", "except"} : Goto(t, next)
          /\ active_turn' = IF active_turn = t THEN None ELSE active_turn
          /\ UNCHANGED <<stream, stale, expired, home>>
      BY <2>5 DEF release_active_turn, Reply, Raise, OnError, Goto
    <3>2. HolderKeepsLease'
      BY <3>1, NoneAssumption DEF HolderKeepsLease, Goto, Working
    <3>3. Unstarted' /\ StaleInv'
      BY <3>1, NoneAssumption DEF Unstarted, StaleInv, Goto
    <3>4. FinishInv'
      BY <3>1, NoneAssumption DEF FinishInv, HasFrame, Goto
    <3> QED
      BY <3>2, <3>3, <3>4
  <2>6. CASE message_finish(t)
    BY <2>6, LifecycleLease DEF message_finish, Frames, Phases, Working, Closing, Over
  <2>7. CASE RunnerFailed(t)
    BY <2>7, LifecycleLease DEF RunnerFailed, Frames, Phases, Working, Closing, Over
  <2>8. CASE FinallyPop(t)
    BY <2>8
    DEF TypeInv, TypeOK, LeaseInv, HolderKeepsLease, Unstarted, StaleInv, FinishInv, HasFrame,
        FinallyPop, Goto, Working
  <2>9. CASE BackgroundTasks(t)
    BY <2>9
    DEF TypeInv, TypeOK, LeaseInv, HolderKeepsLease, Unstarted, StaleInv, FinishInv, HasFrame,
        BackgroundTasks, Goto, Working
  <2>10. QED
    BY <1>3, <2>1, <2>2, <2>3, <2>4, <2>5, <2>6, <2>7, <2>8, <2>9 DEF RunnerStep
<1>4. ASSUME NEW t \in Turns, GeneratorStep(t) PROVE LeaseInv'
  BY <1>4
  DEF TypeInv, TypeOK, LeaseInv, HolderKeepsLease, Unstarted, StaleInv, FinishInv, HasFrame,
      GeneratorStep, Goto, Working
<1>5. ASSUME NEW t \in Turns, RedisRaises(t) PROVE LeaseInv'
  BY <1>5
  DEF TypeInv, TypeOK, LeaseInv, HolderKeepsLease, Unstarted, StaleInv, FinishInv, HasFrame,
      RedisRaises, Raise, OnError, Goto, Working, Closing
<1>6. ASSUME UNCHANGED <<active_turn, expired, runner, stale, stream, home>> PROVE LeaseInv'
  BY <1>6 DEF LeaseInv, HolderKeepsLease, Unstarted, StaleInv, FinishInv, HasFrame
<1>7. ASSUME NEW c \in Cancels, CancelStep(c) PROVE LeaseInv'
  <2>1. CASE CancelTimesOut(c)
    BY <2>1
    DEF TypeInv, TypeOK, LeaseInv, HolderKeepsLease, Unstarted, StaleInv, FinishInv, HasFrame,
        CancelTimesOut, Goto, Working
  <2>2. CASE request_turn_cancel(c) \/ CancelLooksUp(c) \/ CancelSeesEnd(c)
    BY <2>2, <1>6 DEF request_turn_cancel, CancelLooksUp, CancelSeesEnd
  <2>3. QED BY <1>7, <2>1, <2>2 DEF CancelStep
<1>8. CASE LeaseExpires
  BY <1>8, NoneAssumption
  DEF TypeInv, TypeOK, LeaseInv, HolderKeepsLease, Unstarted, StaleInv, FinishInv, HasFrame,
      LeaseExpires
<1>9. ASSUME NEW p \in Procs, Crash(p) PROVE LeaseInv'
  BY <1>9, NoneAssumption
  DEF TypeInv, TypeOK, LeaseInv, HolderKeepsLease, Unstarted, StaleInv, FinishInv, HasFrame,
      Crash, Working
<1>10. ASSUME NEW s \in Subs,
             (\E t \in Turns : subscribe_turn(s, t)) \/ Replay(s) \/ Follow(s) \/ Disconnect(s)
       PROVE LeaseInv'
  BY <1>10, <1>6 DEF subscribe_turn, Replay, Follow, Forward, Disconnect
<1>11. ASSUME NEW c \in Cancels, NEW p \in Procs, CancelReads(c, p) PROVE LeaseInv'
  BY <1>11, <1>6 DEF CancelReads
<1>12. CASE UNCHANGED vars BY <1>12, <1>6 DEF vars
<1>13. QED
  BY <1>1, <1>2, <1>3, <1>4, <1>5, <1>7, <1>8, <1>9, <1>10, <1>11, <1>12 DEF Next

\* The inductive invariant of leases and stale writers.
LEMMA LeaseInvariant == Spec => []LeaseInv
<1>1. Init => LeaseInv
  <2> SUFFICES ASSUME Init PROVE LeaseInv OBVIOUS
  <2>1. \A t \in Turns : DOMAIN stream[t] = {} BY DEF Init
  <2>2. QED
    BY <2>1, NoneAssumption
    DEF Init, LeaseInv, HolderKeepsLease, Unstarted, StaleInv, FinishInv, HasFrame, Working
<1>2. QED BY <1>1, LeaseStep, TypeCorrect, PTL DEF Spec

\* A runner that may still produce content owns the session unless its lease
\* ran out (the owner comparison of the renew and release scripts).
THEOREM LeaseSafety == Spec => []HolderKeepsLease
<1>1. LeaseInv => HolderKeepsLease BY DEF LeaseInv
<1>2. QED BY <1>1, LeaseInvariant, PTL

\* A runner that lost its lease writes at most the frame it had renewed for.
THEOREM StaleSafety == Spec => []StaleWriterStops
<1>1. LeaseInv => StaleWriterStops BY DEF LeaseInv, StaleInv, StaleWriterStops
<1>2. QED BY <1>1, LeaseInvariant, PTL

\* The finish frame is only visible once the session is free for a next turn.
THEOREM FinishSafety == Spec => []FinishFreesSession
<1>1. LeaseInv => FinishFreesSession BY DEF LeaseInv, FinishInv, FinishFreesSession
<1>2. QED BY <1>1, LeaseInvariant, PTL

-----------------------------------------------------------------------------
(* Cancelling.                                                              *)

\* A cancel call works on a turn that was asked for, has set its flag by the time it looks for
\* the task, and waits for a turn that was accepted, for only those have a task.
CancelInv ==
  /\ KillOnlyCancelled
  /\ \A p \in Procs : \A t \in tasks[p] : runner[t] \notin {"new", "rejected"}
  /\ \A c \in Cancels :
       /\ canc[c].pc \in {"flag", "lookup", "wait"} =>
            canc[c].proc \in Procs /\ runner[canc[c].turn] # "new"
       /\ canc[c].pc = "wait" => runner[canc[c].turn] # "rejected"
       /\ canc[c].pc \in {"lookup", "wait"} => canc[c].turn \in cancel_requested

\* No step takes a turn back to where it was never asked for, or never accepted.
LEMMA AcceptedStays ==
  ASSUME TypeInv, [Next]_vars, NEW u \in Turns, runner[u] # "new"
  PROVE  runner'[u] # "new" /\ (runner[u] # "rejected" => runner'[u] # "rejected")
<1> USE DEF TypeInv, TypeOK
<1>1. CASE \E t \in Turns : RunnerStep(t)
  BY <1>1 DEF RunnerStep, message_start, renew_active_turn, AppendContent, LeaseLost,
    release_active_turn, message_finish, RunnerFailed, FinallyPop, BackgroundTasks,
    LifecycleFrame, Reply, Raise, OnError, Goto
<1>2. CASE \E t \in Turns : GeneratorStep(t) \/ RedisRaises(t)
  BY <1>2 DEF GeneratorStep, RedisRaises, Raise, OnError, Goto
<1>3. CASE \E c \in Cancels : CancelStep(c)
  BY <1>3 DEF CancelStep, request_turn_cancel, CancelLooksUp, CancelSeesEnd, CancelTimesOut, Goto
<1>4. CASE \E t \in Turns : \/ start_turn_rejected(t) \/ start_turn_fails(t)
                         \/ \E p \in Procs : start_turn(p, t)
  BY <1>4 DEF start_turn, start_turn_rejected, start_turn_fails
<1>5. CASE \E p \in Procs : Crash(p)
  BY <1>5 DEF Crash
<1>6. CASE UNCHANGED runner
  BY <1>6
<1>7. QED
  BY <1>1, <1>2, <1>3, <1>4, <1>5, <1>6
  DEF Next, vars, subscribe_turn, Replay, Follow, Forward, Disconnect, CancelReads, LeaseExpires

\* Every step keeps what a cancel call knows of its turn.
LEMMA CancelInvStep == TypeInv /\ LeaseInv /\ CancelInv /\ [Next]_vars => CancelInv'
<1> SUFFICES ASSUME TypeInv, LeaseInv, CancelInv, [Next]_vars PROVE CancelInv'
  OBVIOUS
<1> DEFINE Listed == \A p \in Procs : \A t \in tasks[p] : runner[t] \notin {"new", "rejected"}
<1>0. Listed'
  <2>1. CASE \A p \in Procs : tasks'[p] \subseteq tasks[p]
    BY <2>1, AcceptedStays DEF CancelInv, TypeInv, TypeOK
  <2>2. CASE \E p \in Procs, t \in Turns : start_turn(p, t)
    <3>1. PICK p \in Procs, t \in Turns : start_turn(p, t)
      BY <2>2
    <3>2. /\ \A q \in Procs : tasks'[q] \subseteq tasks[q] \cup {t}
          /\ runner'[t] = "start" /\ \A u \in Turns \ {t} : runner'[u] = runner[u]
      BY <3>1 DEF start_turn, TypeInv, TypeOK
    <3> QED
      BY <3>2 DEF CancelInv, TypeInv, TypeOK
  <2>3. CASE ~\E p \in Procs, t \in Turns : start_turn(p, t)
    <3>1. UNCHANGED tasks \/ \E t \in Turns : FinallyPop(t) \/ \E p \in Procs : Crash(p)
      BY <2>3
      DEF Next, vars, start_turn_rejected, start_turn_fails, GeneratorStep, RedisRaises, RunnerStep,
          message_start, renew_active_turn, AppendContent, LeaseLost, release_active_turn,
          message_finish, RunnerFailed, BackgroundTasks, LifecycleFrame, subscribe_turn, Replay,
          Follow, Forward, Disconnect, CancelReads, CancelStep, request_turn_cancel, CancelLooksUp,
          CancelSeesEnd, CancelTimesOut, LeaseExpires, Crash
    <3>2. \A p \in Procs : tasks'[p] \subseteq tasks[p]
      BY <3>1 DEF FinallyPop, Crash, TypeInv, TypeOK
    <3> QED
      BY <3>2, <2>1
  <2> QED
    BY <2>2, <2>3
<1> HIDE DEF Listed
<1>1. ASSUME UNCHANGED <<canc, cancel_requested, killed>> PROVE CancelInv'
  BY <1>1, <1>0, AcceptedStays DEF CancelInv, KillOnlyCancelled, TypeInv, RequestsNameTurns, Listed
<1>2. ASSUME NEW c \in Cancels, NEW p \in Procs, CancelReads(c, p) PROVE CancelInv'
  BY <1>2, <1>0
  DEF CancelReads, CancelInv, KillOnlyCancelled, LeaseInv, Unstarted, TypeInv, TypeOK, Listed
<1>3. ASSUME NEW c \in Cancels, CancelStep(c) PROVE CancelInv'
  <2> USE <1>0 DEF Listed, CancelInv, KillOnlyCancelled, TypeInv, TypeOK, RequestsNameTurns
  <2>1. CASE request_turn_cancel(c) BY <2>1 DEF request_turn_cancel
  <2>2. CASE CancelLooksUp(c) BY <2>2 DEF CancelLooksUp
  <2>3. CASE CancelSeesEnd(c) BY <2>3 DEF CancelSeesEnd
  <2>4. CASE CancelTimesOut(c) BY <2>4 DEF CancelTimesOut, Goto
  <2>5. QED BY <1>3, <2>1, <2>2, <2>3, <2>4 DEF CancelStep
<1>4. ASSUME NEW p \in Procs, Crash(p) PROVE CancelInv'
  <2>1. \A c \in Cancels : canc'[c].turn = canc[c].turn /\ canc'[c].proc = canc[c].proc
                          /\ (canc'[c].pc = canc[c].pc \/ canc'[c].pc = "returned")
    BY <1>4 DEF Crash, TypeInv, TypeOK
  <2>2. UNCHANGED <<cancel_requested, killed>> BY <1>4 DEF Crash
  <2>3. QED
    BY <2>1, <2>2, <1>0, AcceptedStays
    DEF CancelInv, KillOnlyCancelled, TypeInv, RequestsNameTurns, Listed
<1>5. CASE \E t \in Turns : RunnerStep(t) \/ GeneratorStep(t) \/ RedisRaises(t)
  BY <1>5, <1>1 DEF cancelVars, RunnerStep, GeneratorStep, RedisRaises, message_start,
    renew_active_turn, AppendContent, LeaseLost, release_active_turn, message_finish,
    RunnerFailed, FinallyPop, BackgroundTasks, LifecycleFrame
<1>6. QED
  BY <1>1, <1>2, <1>3, <1>4, <1>5
  DEF Next, vars, cancelVars, start_turn, start_turn_rejected, start_turn_fails, subscribe_turn, Replay, Follow,
      Forward, Disconnect, LeaseExpires

\* The inductive invariant of cancels and kills.
LEMMA CancelInvariant == Spec => []CancelInv
<1>1. Init => CancelInv BY DEF Init, CancelInv, KillOnlyCancelled, NoCancel
<1>2. QED BY <1>1, CancelInvStep, TypeCorrect, LeaseInvariant, PTL DEF Spec

\* Only a turn whose cancel flag was set is ever killed, whatever happened to
\* the session between the reads of a cancel call.
THEOREM CancelSafety == Spec => []KillOnlyCancelled
<1>1. CancelInv => KillOnlyCancelled BY DEF CancelInv
<1>2. QED BY <1>1, CancelInvariant, PTL

-----------------------------------------------------------------------------
(* The stream and its readers.                                              *)

\* Once the terminal frame is written the runner only cleans up.
Finished == {"except", "except_done"} \cup Over
TerminalInv == \A t \in Turns : HasFrame(t, "done") => runner[t] \in Finished

\* A subscriber has forwarded its turn's frames up to last_id, one by one.
UpToHere(s) ==
  /\ sub[s].last_id = Len(got[s]) /\ Len(got[s]) <= Len(stream[sub[s].turn])
  /\ \A i \in 1..Len(got[s]) : got[s][i] = stream[sub[s].turn][i]
  /\ sub[s].pc = "replay" => sub[s].last_id = 0
ReadersInv == \A s \in Subs : sub[s].turn # None => UpToHere(s)

\* A step leaves the streams alone, or appends a frame to one of them: content only behind
\* a renewal, and the terminal frame on the way out.
LEMMA OneFrame ==
  ASSUME TypeInv, [Next]_vars
  PROVE  \/ UNCHANGED stream
         \/ \E t \in Turns, f \in Frames :
              /\ append_frame(t, f)
              /\ f = "data" => runner[t] = "append"
              /\ f = "done" => runner'[t] \in Finished
<1> DEFINE Appends == \E t \in Turns, f \in Frames :
             /\ append_frame(t, f)
             /\ f = "data" => runner[t] = "append"
             /\ f = "done" => runner'[t] \in Finished
<1>1. ASSUME NEW t \in Turns, NEW phase, NEW f \in Frames \ {"data"}, NEW next,
             LifecycleFrame(t, phase, f, next), f = "done" => next = "finally"
      PROVE  Appends
  <2>1. append_frame(t, f) BY <1>1 DEF LifecycleFrame
  <2>2. f = "done" => runner'[t] \in Finished
    BY <1>1 DEF LifecycleFrame, Reply, Raise, Goto, OnError, Finished, Over, TypeInv, TypeOK
  <2>3. QED BY <1>1, <2>1, <2>2
<1> HIDE DEF Appends
<1>2. ASSUME NEW t \in Turns, RunnerStep(t) PROVE UNCHANGED stream \/ Appends
  <2>1. CASE message_start(t) BY <2>1, <1>1 DEF message_start, Frames
  <2>2. CASE AppendContent(t)
    <3>1. append_frame(t, "data") /\ runner[t] = "append" BY <2>2 DEF AppendContent
    <3>2. QED BY <3>1 DEF Appends, Frames
  <2>3. CASE LeaseLost(t) BY <2>3, <1>1 DEF LeaseLost, Frames
  <2>4. CASE message_finish(t) BY <2>4, <1>1 DEF message_finish, Frames
  <2>5. CASE RunnerFailed(t) BY <2>5, <1>1 DEF RunnerFailed, Frames
  <2>6. CASE renew_active_turn(t) \/ release_active_turn(t) \/ FinallyPop(t) \/ BackgroundTasks(t)
    BY <2>6 DEF renew_active_turn, release_active_turn, FinallyPop, BackgroundTasks
  <2>7. QED BY <1>2, <2>1, <2>2, <2>3, <2>4, <2>5, <2>6 DEF RunnerStep
<1>3. CASE \E t \in Turns : RunnerStep(t) BY <1>2, <1>3 DEF Appends
<1>4. CASE ~\E t \in Turns : RunnerStep(t)
  BY <1>4
  DEF Next, vars, readVars, start_turn, start_turn_rejected, start_turn_fails, GeneratorStep,
      RedisRaises, subscribe_turn, Replay, Follow, Forward, Disconnect, CancelReads, CancelStep, request_turn_cancel, CancelLooksUp,
      CancelSeesEnd, CancelTimesOut, LeaseExpires, Crash
<1>5. QED BY <1>3, <1>4

\* A runner that cleans up goes on cleaning up.
LEMMA FinishedStays ==
  ASSUME TypeInv, [Next]_vars, NEW u \in Turns, runner[u] \in Finished
  PROVE  runner'[u] \in Finished
<1> USE DEF TypeInv, TypeOK, Finished, Over
<1>1. CASE \E t \in Turns : RunnerStep(t)
  BY <1>1 DEF RunnerStep, message_start, renew_active_turn, AppendContent, LeaseLost,
    release_active_turn, message_finish, RunnerFailed, FinallyPop, BackgroundTasks,
    LifecycleFrame, Reply, Raise, OnError, Goto
<1>2. CASE \E t \in Turns : GeneratorStep(t) \/ RedisRaises(t)
  BY <1>2 DEF GeneratorStep, RedisRaises, Raise, OnError, Goto
<1>3. CASE \E c \in Cancels : CancelStep(c)
  BY <1>3 DEF CancelStep, request_turn_cancel, CancelLooksUp, CancelSeesEnd, CancelTimesOut, Goto
<1>4. CASE \E t \in Turns : \/ start_turn_rejected(t) \/ start_turn_fails(t)
                         \/ \E p \in Procs : start_turn(p, t)
  BY <1>4 DEF start_turn, start_turn_rejected, start_turn_fails
<1>5. CASE \E p \in Procs : Crash(p) BY <1>5 DEF Crash
<1>6. CASE UNCHANGED runner BY <1>6
<1>7. QED
  BY <1>1, <1>2, <1>3, <1>4, <1>5, <1>6
  DEF Next, vars, subscribe_turn, Replay, Follow, Forward, Disconnect, CancelReads, LeaseExpires

\* Every step keeps runners that wrote the terminal frame from going back to work.
LEMMA TerminalStep == TypeInv /\ TerminalInv /\ [Next]_vars => TerminalInv'
<1> SUFFICES ASSUME TypeInv, TerminalInv, [Next]_vars, NEW u \in Turns, HasFrame(u, "done")'
             PROVE  runner'[u] \in Finished
  BY DEF TerminalInv
<1>1. CASE HasFrame(u, "done") BY <1>1, FinishedStays DEF TerminalInv
<1>2. CASE ~HasFrame(u, "done")
  <2>1. ~UNCHANGED stream BY <1>2 DEF HasFrame
  <2>2. PICK t \in Turns, f \in Frames : append_frame(t, f) /\ (f = "done" => runner'[t] \in Finished)
    BY <2>1, OneFrame
  <2>3. u = t /\ f = "done" BY <1>2, <2>2, AppendedFrame
  <2>4. QED BY <2>2, <2>3
<1>3. QED BY <1>1, <1>2

\* A stream only grows, so what was read of it stays read.
LEMMA ReadStays ==
  ASSUME TypeInv, [Next]_vars, NEW t \in Turns
  PROVE  /\ Len(stream[t]) <= Len(stream'[t])
         /\ \A i \in 1..Len(stream[t]) : stream'[t][i] = stream[t][i]
<1>1. stream[t] \in Seq(Frames) /\ stream \in [Turns -> Seq(Frames)] BY DEF TypeInv, TypeOK
<1>2. CASE UNCHANGED stream BY <1>1, <1>2
<1>3. CASE \E u \in Turns, f \in Frames : append_frame(u, f)
  <2>1. PICK u \in Turns, f \in Frames : append_frame(u, f) BY <1>3
  <2>2. stream'[t] = stream[t] \/ stream'[t] = Append(stream[t], f) BY <1>1, <2>1 DEF append_frame
  <2>3. QED BY <1>1, <2>2
<1>4. QED BY <1>2, <1>3, OneFrame

\* A piece of a stream.
LEMMA PieceOf ==
  ASSUME NEW f \in Seq(Frames), NEW k \in Nat, NEW n \in Nat, k <= n, n <= Len(f)
  PROVE  /\ SubSeq(f, k + 1, n) \in Seq(Frames) /\ Len(SubSeq(f, k + 1, n)) = n - k
         /\ \A i \in 1..(n - k) : SubSeq(f, k + 1, n)[i] = f[k + i]
OBVIOUS

\* A subscriber forwards what comes next in the stream.
LEMMA ForwardReads ==
  ASSUME TypeInv, ReadersInv, NEW s \in Subs, sub[s].pc \in {"replay", "tail"}, NEW n \in Nat,
         n >= sub[s].last_id, n <= Len(stream[sub[s].turn]), Forward(s, n)
  PROVE  ReadersInv'
<1> DEFINE frames == stream[sub[s].turn]
           old == got[s]
           piece == SubSeq(frames, sub[s].last_id + 1, n)
           there == IF n > 0 /\ frames[n] = "done" THEN "done" ELSE "tail"
<1>1. sub[s].turn \in Turns /\ frames \in Seq(Frames) /\ old \in Seq(Frames) /\ UpToHere(s)
  BY NoneAssumption DEF TypeInv, TypeOK, RequestsNameTurns, ReadersInv
<1>2. sub[s].last_id = Len(old) /\ \A i \in 1..Len(old) : old[i] = frames[i] BY <1>1 DEF UpToHere
<1>3. piece \in Seq(Frames) /\ Len(piece) = n - Len(old)
      /\ \A i \in 1..(n - Len(old)) : piece[i] = frames[Len(old) + i]
  <2>1. frames \in Seq(Frames) /\ Len(old) \in Nat /\ Len(old) <= n /\ n <= Len(frames)
    BY <1>1, <1>2
  <2>2. piece = SubSeq(frames, Len(old) + 1, n) BY <1>2
  <2> HIDE DEF frames, old, piece
  <2>3. QED BY <2>1, <2>2, PieceOf
<1> DEFINE more == old \o piece
<1> HIDE DEF piece
<1>4. Len(more) = n /\ \A i \in 1..n : more[i] = frames[i] BY <1>1, <1>2, <1>3
<1>5. got' = [got EXCEPT ![s] = more] BY DEF Forward, piece
<1>6. sub' = [sub EXCEPT ![s] = [sub[s] EXCEPT !.pc = there, !.last_id = n]] BY DEF Forward
<1>7. there \in {"done", "tail"} OBVIOUS
<1> HIDE DEF more, there
<1>8. sub'[s].turn = sub[s].turn /\ sub'[s].last_id = n /\ sub'[s].pc = there /\ got'[s] = more
  BY <1>5, <1>6 DEF TypeInv, TypeOK
<1>9. UNCHANGED stream BY DEF Forward
<1>10. UpToHere(s)' BY <1>4, <1>7, <1>8, <1>9 DEF UpToHere
<1>11. \A r \in Subs \ {s} : sub'[r] = sub[r] /\ got'[r] = got[r] BY <1>5, <1>6 DEF TypeInv, TypeOK
<1>12. \A r \in Subs \ {s} : sub'[r].turn # None => UpToHere(r)'
  BY <1>9, <1>11 DEF ReadersInv, UpToHere
<1>13. QED BY <1>10, <1>12 DEF ReadersInv

\* Every step keeps every subscriber with what it has read.
LEMMA ReadersStep == TypeInv /\ ReadersInv /\ [Next]_vars => ReadersInv'
<1> SUFFICES ASSUME TypeInv, ReadersInv, [Next]_vars PROVE ReadersInv' OBVIOUS
<1>1. ASSUME NEW s \in Subs, NEW t \in Turns, subscribe_turn(s, t) PROVE ReadersInv'
  <2>1. /\ sub'[s] = [pc |-> "replay", turn |-> t, last_id |-> 0] /\ got'[s] = << >>
        /\ UNCHANGED stream
        /\ \A r \in Subs \ {s} : sub'[r] = sub[r] /\ got'[r] = got[r]
    BY <1>1 DEF subscribe_turn, TypeInv, TypeOK
  <2>2. stream[t] \in Seq(Frames) BY DEF TypeInv, TypeOK
  <2>3. UpToHere(s)' BY <2>1, <2>2 DEF UpToHere
  <2>4. \A r \in Subs \ {s} : sub'[r].turn # None => UpToHere(r)' BY <2>1 DEF ReadersInv, UpToHere
  <2>5. QED BY <2>3, <2>4 DEF ReadersInv
<1>2. ASSUME NEW s \in Subs, Replay(s) \/ Follow(s) PROVE ReadersInv'
  <2>1. sub[s].pc \in {"replay", "tail"} BY <1>2 DEF Replay, Follow
  <2>2. sub[s].turn \in Turns /\ sub[s].last_id \in Nat /\ stream[sub[s].turn] \in Seq(Frames)
    BY <2>1 DEF TypeInv, TypeOK, RequestsNameTurns
  <2>3. PICK n \in {0} \cup Batch(s) : Forward(s, n) /\ (n = 0 => sub[s].pc = "replay" \/ n \in Batch(s))
    BY <1>2 DEF Replay, Follow
  <2>4. n \in Batch(s) => n \in Nat /\ n <= Len(stream[sub[s].turn]) /\ sub[s].last_id < n
    BY <2>1, BatchInStream
  <2>5. sub[s].pc = "replay" => sub[s].last_id = 0
    BY <2>2, NoneAssumption DEF ReadersInv, UpToHere
  <2>6. n \in Nat /\ n >= sub[s].last_id /\ n <= Len(stream[sub[s].turn])
    BY <2>2, <2>3, <2>4, <2>5
  <2>7. QED BY <2>1, <2>3, <2>6, ForwardReads
<1>3. ASSUME NEW s \in Subs, Disconnect(s) PROVE ReadersInv'
  <2>1. /\ sub'[s].turn = sub[s].turn /\ sub'[s].last_id = sub[s].last_id /\ sub'[s].pc = "closed"
        /\ UNCHANGED <<got, stream>>
        /\ \A r \in Subs \ {s} : sub'[r] = sub[r]
    BY <1>3 DEF Disconnect, TypeInv, TypeOK
  <2>2. QED BY <2>1 DEF ReadersInv, UpToHere
<1>4. ASSUME UNCHANGED readVars PROVE ReadersInv'
  <2> SUFFICES ASSUME NEW s \in Subs, sub[s].turn # None PROVE UpToHere(s)'
    BY <1>4 DEF ReadersInv, readVars
  <2>1. sub[s].turn \in Turns BY DEF TypeInv, TypeOK
  <2>2. stream[sub[s].turn] \in Seq(Frames) /\ got[s] \in Seq(Frames) /\ UpToHere(s)
    BY <2>1 DEF TypeInv, TypeOK, ReadersInv
  <2>3. stream'[sub[s].turn] \in Seq(Frames) BY <2>1, TypeStep DEF TypeInv, TypeOK
  <2>4. /\ Len(stream[sub[s].turn]) <= Len(stream'[sub[s].turn])
        /\ \A i \in 1..Len(stream[sub[s].turn]) : stream'[sub[s].turn][i] = stream[sub[s].turn][i]
    BY <2>1, ReadStays
  <2>5. QED BY <1>4, <2>2, <2>3, <2>4 DEF UpToHere, readVars
<1>5. CASE UNCHANGED readVars BY <1>4, <1>5
<1>6. CASE ~UNCHANGED readVars
  BY <1>1, <1>2, <1>3, <1>6
  DEF Next, vars, readVars, start_turn, start_turn_rejected, start_turn_fails, GeneratorStep, RedisRaises, RunnerStep,
      message_start, renew_active_turn, AppendContent, LeaseLost, release_active_turn, message_finish,
      RunnerFailed, FinallyPop, BackgroundTasks, LifecycleFrame, CancelReads, CancelStep,
      request_turn_cancel, CancelLooksUp, CancelSeesEnd, CancelTimesOut, LeaseExpires, Crash
<1>7. QED BY <1>5, <1>6

\* The inductive invariant of streams and readers.
LEMMA StreamInvariant == Spec => [](TerminalInv /\ ReadersInv)
<1>1. Init => TerminalInv /\ ReadersInv
  <2> SUFFICES ASSUME Init PROVE TerminalInv /\ ReadersInv OBVIOUS
  <2>1. \A t \in Turns : DOMAIN stream[t] = {} BY DEF Init
  <2>2. QED BY <2>1 DEF Init, TerminalInv, ReadersInv, HasFrame, NoSub
<1>2. QED BY <1>1, TerminalStep, ReadersStep, TypeCorrect, PTL DEF Spec

\* After the terminal frame a step leaves the number of content frames as it is.
LEMMA NoMoreContent ==
  ASSUME TypeInv, TerminalInv, [Next]_vars, NEW t \in Turns, HasFrame(t, "done")
  PROVE  ContentFrames(t)' = ContentFrames(t)
<1>1. stream[t] \in Seq(Frames) /\ stream \in [Turns -> Seq(Frames)] BY DEF TypeInv, TypeOK
<1>2. CASE stream'[t] = stream[t] BY <1>2 DEF ContentFrames
<1>3. CASE stream'[t] # stream[t]
  <2>1. PICK u \in Turns, f \in Frames : append_frame(u, f) /\ (f = "data" => runner[u] = "append")
    BY <1>3, OneFrame
  <2>2. u = t /\ stream'[t] = Append(stream[t], f) BY <1>1, <1>3, <2>1 DEF append_frame
  <2>3. f # "data" BY <2>1, <2>2 DEF TerminalInv, Finished, Over
  <2>4. DOMAIN stream'[t] = 1..(Len(stream[t]) + 1) /\ DOMAIN stream[t] = 1..Len(stream[t])
        /\ Len(stream[t]) \in Nat /\ stream'[t][Len(stream[t]) + 1] = f
        /\ \A i \in 1..Len(stream[t]) : stream'[t][i] = stream[t][i]
    BY <1>1, <2>2
  <2>5. {i \in DOMAIN stream'[t] : stream'[t][i] = "data"} = {i \in DOMAIN stream[t] : stream[t][i] = "data"}
    BY <2>3, <2>4
  <2>6. QED BY <2>5 DEF ContentFrames
<1>4. QED BY <1>2, <1>3

\* A subscriber's frames are a gapless prefix of its turn's stream, however replay, follow,
\* reconnections and the runner interleave (iter_frames), and no content follows the
\* terminal frame at which subscribers return.
THEOREM StreamSafety == Spec => StreamIsWhole
<1>1. TypeInv /\ ReadersInv => \A s \in Subs : SeesPrefix(s)
  <2> SUFFICES ASSUME TypeInv, ReadersInv, NEW s \in Subs, sub[s].turn # None
               PROVE  got[s] = SubSeq(stream[sub[s].turn], 1, Len(got[s]))
    BY DEF SeesPrefix
  <2>1. got[s] \in Seq(Frames) /\ stream[sub[s].turn] \in Seq(Frames) /\ UpToHere(s)
    BY DEF TypeInv, TypeOK, ReadersInv
  <2>2. QED BY <2>1 DEF UpToHere
<1> DEFINE Kept == \A t \in Turns : HasFrame(t, "done") => ContentFrames(t)' = ContentFrames(t)
<1>2. TypeInv /\ TerminalInv /\ [Next]_vars => [Kept]_stream BY NoMoreContent
<1>3. Spec => [](\A s \in Subs : SeesPrefix(s)) BY <1>1, TypeCorrect, StreamInvariant, PTL
<1>4. Spec => NoContentAfterTerminal
  BY <1>2, TypeCorrect, StreamInvariant, PTL DEF Spec, NoContentAfterTerminal
<1>5. QED BY <1>3, <1>4 DEF StreamIsWhole

-----------------------------------------------------------------------------
(* The lease implements the abstract session.                               *)

Live  == {t \in Turns : runner[t] \in Working /\ t \notin expired}
Begun == {t \in Turns : runner[t] \notin {"new", "rejected"}}

\* A step that accepts no turn and lets no turn come back to work ends at most
\* one live turn, for at most one was live.
LEMMA StopStep ==
  ASSUME TypeInv, LeaseInv, Live' \subseteq Live, Begun' = Begun
  PROVE  [Session!Next]_(Session!vars)
<1>1. CASE Live' = Live
  BY <1>1 DEF Live, Begun, Session!vars
<1>2. CASE Live' # Live
  <2>1. PICK t \in Live : t \notin Live' BY <1>2
  <2>2. t \in Turns /\ Live = {t}
    BY <2>1 DEF Live, LeaseInv, HolderKeepsLease
  <2>3. Live' = Live \ {t} BY <2>1, <2>2
  <2>4. Session!End(t) BY <2>1, <2>3 DEF Live, Begun, Session!End
  <2>5. QED BY <2>2, <2>4 DEF Session!Next
<1>3. QED BY <1>1, <1>2

\* Every step is a step of ExclusiveTurns, or leaves its state alone.
LEMMA SessionStep ==
  TypeInv /\ LeaseInv /\ CancelInv /\ [Next]_vars => [Session!Next]_(Session!vars)
<1> SUFFICES ASSUME TypeInv, LeaseInv, CancelInv, [Next]_vars
             PROVE  [Session!Next]_(Session!vars)
  OBVIOUS
<1> USE DEF leaseVars, readVars, cancelVars
<1>1. ASSUME NEW p \in Procs, NEW t \in Turns, start_turn(p, t)
      PROVE  [Session!Next]_(Session!vars)
  <2>1. Live = {}
    BY <1>1, NoneAssumption
    DEF start_turn, acquire_active_turn, Live, LeaseInv, HolderKeepsLease
  <2>2. t \notin Begun /\ Begun' = Begun \cup {t}
    BY <1>1 DEF start_turn, Begun, TypeInv, TypeOK
  <2>3. t \notin expired
    BY <1>1 DEF start_turn, LeaseInv, Unstarted
  <2>4. Live' = {t}
    BY <1>1, <2>1, <2>3 DEF start_turn, Live, TypeInv, TypeOK, Working
  <2>5. Session!Begin(t) BY <2>1, <2>2, <2>4 DEF Session!Begin, Live, Begun
  <2>6. QED BY <2>5 DEF Session!Next
<1>2. ASSUME \A u \in Turns : runner'[u] \in Working => runner[u] \in Working,
             \A u \in Turns : runner'[u] \in {"new", "rejected"} <=> runner[u] \in {"new",
               "rejected"},
             expired \subseteq expired'
      PROVE  [Session!Next]_(Session!vars)
  <2>1. Live' \subseteq Live /\ Begun' = Begun BY <1>2 DEF Live, Begun
  <2>2. QED BY <2>1, StopStep
<1> USE DEF TypeInv, TypeOK
<1>3. ASSUME NEW t \in Turns, start_turn_rejected(t) \/ start_turn_fails(t)
      PROVE  [Session!Next]_(Session!vars)
  BY <1>3, <1>2 DEF start_turn_rejected, start_turn_fails, Working
<1>4. ASSUME NEW t \in Turns, RunnerStep(t) PROVE [Session!Next]_(Session!vars)
  <2> USE DEF Working, LifecycleFrame, Reply, Raise, OnError, Goto
  <2>1. CASE message_start(t) BY <2>1, <1>2 DEF message_start
  <2>2. CASE renew_active_turn(t) BY <2>2, <1>2 DEF renew_active_turn
  <2>3. CASE AppendContent(t) BY <2>3, <1>2 DEF AppendContent
  <2>4. CASE LeaseLost(t) BY <2>4, <1>2 DEF LeaseLost
  <2>5. CASE release_active_turn(t) BY <2>5, <1>2 DEF release_active_turn
  <2>6. CASE message_finish(t) BY <2>6, <1>2 DEF message_finish
  <2>7. CASE RunnerFailed(t) BY <2>7, <1>2 DEF RunnerFailed
  <2>8. CASE FinallyPop(t) BY <2>8, <1>2 DEF FinallyPop
  <2>9. CASE BackgroundTasks(t) BY <2>9, <1>2 DEF BackgroundTasks
  <2>10. QED
    BY <1>4, <2>1, <2>2, <2>3, <2>4, <2>5, <2>6, <2>7, <2>8, <2>9 DEF RunnerStep
<1>5. ASSUME NEW t \in Turns, GeneratorStep(t) \/ RedisRaises(t)
      PROVE  [Session!Next]_(Session!vars)
  BY <1>5, <1>2 DEF GeneratorStep, RedisRaises, Raise, OnError, Goto, Working, Closing
<1>6. ASSUME UNCHANGED runner, expired \subseteq expired' PROVE [Session!Next]_(Session!vars)
  BY <1>6, <1>2
<1>7. ASSUME NEW c \in Cancels, CancelStep(c) PROVE [Session!Next]_(Session!vars)
  <2>1. CASE CancelTimesOut(c)
    BY <2>1, <1>2 DEF CancelTimesOut, Goto, Working, CancelInv, RequestsNameTurns
  <2>2. CASE request_turn_cancel(c) \/ CancelLooksUp(c) \/ CancelSeesEnd(c)
    BY <2>2, <1>6 DEF request_turn_cancel, CancelLooksUp, CancelSeesEnd
  <2>3. QED BY <1>7, <2>1, <2>2 DEF CancelStep
<1>8. CASE LeaseExpires BY <1>8, <1>6 DEF LeaseExpires
<1>9. ASSUME NEW p \in Procs, Crash(p) PROVE [Session!Next]_(Session!vars)
  BY <1>9, <1>2, NoneAssumption DEF Crash, Working, LeaseInv, Unstarted
<1>10. ASSUME NEW s \in Subs,
             (\E t \in Turns : subscribe_turn(s, t)) \/ Replay(s) \/ Follow(s) \/ Disconnect(s)
       PROVE [Session!Next]_(Session!vars)
  BY <1>10, <1>6 DEF subscribe_turn, Replay, Follow, Forward, Disconnect
<1>11. ASSUME NEW c \in Cancels, NEW p \in Procs, CancelReads(c, p)
       PROVE  [Session!Next]_(Session!vars)
  BY <1>11, <1>6 DEF CancelReads
<1>12. CASE UNCHANGED vars BY <1>12, <1>6 DEF vars
<1>13. QED
  BY <1>1, <1>3, <1>4, <1>5, <1>7, <1>8, <1>9, <1>10, <1>11, <1>12 DEF Next

\* The lease protocol implements ExclusiveTurns: turns of one session that are
\* entitled to work exclude each other, whatever fails.
THEOREM Refinement == Spec => SessionSpec
<1>1. Init => Session!Init
  BY DEF Init, Session!Init, Working
<1>2. QED
  BY <1>1, SessionStep, TypeCorrect, LeaseInvariant, CancelInvariant, PTL
  DEF Spec, SessionSpec, Session!Spec
=============================================================================
