---------------------------- MODULE MCCommandTask ----------------------------
(* CommandTask for TLC: two tasks in one box, and the scenarios of its runs.*)
EXTENDS CommandTask, TLC

CONSTANTS t1, t2, k1, k2

TwoTasks == {t1, t2}
OneKill  == {k1}
TwoKills == {k1, k2}

Killing == {"kill", "provider_fails", "restart"}
Waiting == {"provider_fails", "cancelled", "restart"}

Scenes == {Events, Killing, Waiting}

\* MongoDB fails the worker while two calls kill its task.
Overlap == {{"kill", "mongo_fails"}}

Symmetry     == Permutations(TwoTasks)
KillSymmetry == Symmetry \cup Permutations(TwoKills)
=============================================================================
