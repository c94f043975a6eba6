----------------------------- MODULE MCQueryLoop -----------------------------
(* QueryLoop for TLC: a turn with a tool of each kind.                        *)
EXTENDS QueryLoop, TLC

CONSTANTS srv, high, cli

ThreeTools == {srv, high, cli}
ThreeKinds == (srv :> "server") @@ (high :> "approval") @@ (cli :> "client")
=============================================================================
