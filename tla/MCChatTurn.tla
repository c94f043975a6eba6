----------------------------- MODULE MCChatTurn -----------------------------
(* ChatTurn for TLC: the turn of one request that begins while the           *)
(* background tasks of the last one run.                                      *)
EXTENDS ChatTurn

Overlapping == {{"compress", "overlap"}}
=============================================================================
