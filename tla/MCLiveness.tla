------------------------------ MODULE MCLiveness ------------------------------
(* What must come to an end, for TLC: the stream of a turn and a cancel call,  *)
(* the query loop, the binding of a retiring sandbox.  One of the three runs   *)
(* in a behaviour, under the fairness its module states.                       *)
EXTENDS TurnStream, TLC

CONSTANTS t1, p1, p2, s1, c1, high, cli, Nobody

VARIABLES
  which,
  iteration, messages, record, calls, outputs, group, pending, resumed, answers, flagged,
  suspended, recovering, asked, executed, late, failures, loop_pc,
  state, user, working, idle, alive, created, pc, snap, todo, doomed, box, next, existing,
  missing, retries, again, befalls

CancelOrFail == {{"cancel"}, {"redis_fails"}}

Loop == INSTANCE QueryLoop WITH
  pc <- loop_pc, cancel_requested <- flagged, Tools <- {high, cli},
  MaxIterations <- 2, MaxSteps <- 2, MaxFailures <- 0,
  Kind <- (high :> "approval") @@ (cli :> "client")

\* Docker and the host misbehave, for a time.
Pressed == {"unhealthy", "disk", "cpu", "docker_fails", "reclaim_fails"}

Pool == INSTANCE SandboxPool WITH
  happens <- befalls, Users <- {1}, MaxBoxes <- 2, Target <- 1, MaxRetries <- 1, Scenarios <- {Pressed}

loopVars == <<loop_pc, iteration, messages, record, calls, outputs, group, pending, resumed, answers,
              flagged, suspended, recovering, asked, executed, late, failures>>
poolVars == <<state, user, working, idle, alive, created, pc, snap, todo, doomed, box, next, existing,
              missing, retries, again, befalls>>
allVars == <<which, vars, loopVars, poolVars>>

AnyInit ==
  /\ which \in {"stream", "loop", "pool"} /\ Init /\ Loop!Init /\ Pool!Init
  /\ which # "stream" => happens = {"cancel"}

AnyNext ==
  /\ UNCHANGED which
  /\ \/ which = "stream" /\ Next /\ UNCHANGED <<loopVars, poolVars>>
     \/ which = "loop" /\ Loop!Next /\ UNCHANGED <<vars, poolVars>>
     \/ which = "pool" /\ Pool!Next /\ UNCHANGED <<vars, loopVars>>

\* Each component's own fairness: TurnStream's Fairness, Loop!LiveSpec, Pool!RecoveringSpec.
Fair ==
  /\ WF_vars(which = "stream" /\ RunnerStep(t1))
  /\ WF_vars(which = "stream" /\ t1 \in killed /\ GeneratorStep(t1))
  /\ WF_vars(which = "stream" /\ Replay(s1))
  /\ WF_vars(which = "stream" /\ Follow(s1))
  /\ WF_vars(which = "stream" /\ CancelStep(c1))
  /\ WF_loopVars(which = "loop" /\ Loop!LoopStep)
  /\ WF_poolVars(which = "pool" /\ Pool!Watcher)
  /\ SF_poolVars(which = "pool" /\ Pool!HealthNormal) /\ SF_poolVars(which = "pool" /\ Pool!Remove)
  /\ \A s \in 1..2 : SF_poolVars(which = "pool" /\ Pool!Reclaim(s))
  /\ \A s \in 1..2 : SF_poolVars(which = "pool" /\ s \notin doomed /\ Pool!TimesOut(s))

AnySpec == AnyInit /\ [][AnyNext]_allVars /\ Fair

\* See QueryLoop: the loop comes to an end.
LoopEnds == which = "loop" => Loop!LoopEnds

\* See SandboxPool: a retiring box is released and a dying one destroyed in the end.
BoxesEnd == Pool!RetiringEnds /\ Pool!DestroyingEnds
=============================================================================
