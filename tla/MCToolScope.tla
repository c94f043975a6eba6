----------------------------- MODULE MCToolScope -----------------------------
(* ToolScope for TLC: two servers of the user of which one may be kept, two  *)
(* endpoint calls, and turns that differ in what they may see.               *)
EXTENDS ToolScope

CONSTANTS s1, s2

TwoServers == {s1, s2}

Find == [name |-> "find", described |-> TRUE, valid |-> TRUE]
Twin == [name |-> "Find", described |-> TRUE, valid |-> TRUE]
Odd  == [name |-> "odd", described |-> TRUE, valid |-> FALSE]

Bare == [name |-> "bare", described |-> FALSE, valid |-> TRUE]

SomeOffers == {<<Find, Twin>>, <<Bare, Odd, Find>>}
SomeServices == {{"create_note", "exa_search"}, {}}

None == [n \in {} |-> TRUE]
Plain == [use_tool |-> TRUE, use_skill |-> TRUE, skills |-> {}, summary |-> FALSE, image |-> FALSE,
          default |-> TRUE, overrides |-> None, client |-> {}]

\* With skills and images; choosing one tool; a client tool that a server may have, too.
SomeRequests ==
  {[Plain EXCEPT !.skills = {"skill-creator"}, !.image = TRUE],
   [Plain EXCEPT !.use_tool = FALSE, !.summary = TRUE, !.default = FALSE,
                 !.overrides = [n \in {<<"system", "exa_search">>} |-> TRUE]],
   [Plain EXCEPT !.skills = {"own"}, !.client = {<<"mcp", s1, "find">>},
                 !.overrides = [n \in {<<"builtin", "load_skill">>} |-> FALSE]]}

OneKind == {{k} : k \in Kinds}

SomeLegacy == {[n \in {<<"exa_search">>} |-> [enabled |-> TRUE, key |-> TRUE]], None}
=============================================================================
