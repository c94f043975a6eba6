---------------------------- MODULE MCTurnStream ----------------------------
(* TurnStream for TLC: two turns of one session on two instances.            *)
EXTENDS TurnStream, TLC

CONSTANTS t1, t2, p1, p2, c1

TwoTurns  == {t1, t2}
TwoProcs  == {p1, p2}
OneCancel == {c1}

CancelOrFail == {{"cancel"}, {"redis_fails"}}

Symmetry == Permutations(TwoTurns) \cup Permutations(TwoProcs)
=============================================================================
