----------------------------- MODULE MCWorkspace -----------------------------
(* Workspace for TLC: two requests of one session and one of another.       *)
EXTENDS Workspace, TLC

CONSTANTS a1, a2, b1

ThreeRequests == {a1, a2, b1}

TwoSessions == (a1 :> "a") @@ (a2 :> "a") @@ (b1 :> "b")

Scenes == {{"restart"}, {"overlap"}, {"docker_fails"}, {"files", "torn", "restart"}}
Calm   == {{}}

Symmetry == Permutations({a1, a2})
=============================================================================
