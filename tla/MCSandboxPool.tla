--------------------------- MODULE MCSandboxPool ---------------------------
(* SandboxPool for TLC: the scenarios of its runs.                          *)
EXTENDS SandboxPool

Everything  == Events
Unfailing   == Events \ {"docker_fails"}
Written     == Unfailing \ {"mongo_fails"}
Calm        == {"slow", "cpu", "docker_fails", "restart"}
Rotation    == {"rotate"}

Safety      == {Everything, Unfailing, Written, Calm}
Swap        == {Rotation}
=============================================================================
