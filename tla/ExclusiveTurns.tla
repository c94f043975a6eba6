--------------------------- MODULE ExclusiveTurns ---------------------------
(***************************************************************************)
(* What the running-turn lease of a chat session promises: turns of one     *)
(* session are live one at a time, and a turn that stopped being live never *)
(* becomes live again.  A turn is live from the moment its start request is *)
(* accepted until it gives the session up, dies, or its lease runs out.     *)
(***************************************************************************)
CONSTANT Turns

VARIABLES
  live,   \* the turns entitled to work on the session now
  begun   \* the turns that were ever accepted

vars == <<live, begun>>

Init ==
  /\ live = {}
  /\ begun = {}

Begin(t) ==
  /\ live = {}
  /\ t \notin begun
  /\ live' = {t}
  /\ begun' = begun \cup {t}

End(t) ==
  /\ t \in live
  /\ live' = live \ {t}
  /\ begun' = begun

Next == \E t \in Turns : Begin(t) \/ End(t)

Spec == Init /\ [][Next]_vars
=============================================================================
