------------------------------ MODULE MCWorkspaces -----------------------------
(* The workspaces of sessions, for TLC: which box they are in (Workspace), and *)
(* what the file tools do in them (WorkspaceFiles): two sessions with a file   *)
(* each, names that are stripped, refused or climb up, and attachments that    *)
(* are within the limit, over it as they say, and over it although they say    *)
(* otherwise.  A behaviour is one of the first or one of the second.           *)
EXTENDS MCWorkspace, WorkspaceFiles

CONSTANTS c1, c2

VARIABLE which

allVars == <<which, vars, fileVars>>

SomeNames == {"s1", "s2", "a", "b.pdf", " c", "c", "d\\e", " ..", "..", ".", ""}
AtStart == [n \in SomeNames |-> CASE n = " c" -> "c" [] n = " .." -> ".." [] OTHER -> n]
AtEnd   == [n \in SomeNames |-> n]
KindOfName == [n \in SomeNames |-> IF n = "b.pdf" THEN "pdf" ELSE "other"]

FirstFiles == (<<"s1", "b.pdf">> :> <<"x", "y">>) @@ (<<"s1", " c">> :> <<"z">>)
                @@ (<<"s1", "d\\e">> :> <<"x", "y", "z">>) @@ (<<"s2", "a">> :> <<"z">>)
FirstObjects == [good |-> <<"g", "h">>, big |-> <<"k", "l", "m">>, liar |-> <<"n", "o", "p">>]
References == << [id |-> "good", key |-> "big",  size |-> 2, deleted |-> TRUE],
                 [id |-> "good", key |-> "good", size |-> 2, deleted |-> FALSE],
                 [id |-> "big",  key |-> "big",  size |-> 3, deleted |-> FALSE],
                 [id |-> "liar", key |-> "liar", size |-> 2, deleted |-> FALSE] >>

In(op, s, p) == [op |-> op, session |-> s, path |-> p, old |-> "x", attachment |-> "good"]
SomeInputs ==
  {In(op, "s1", <<"b.pdf">>) : op \in {"read", "write", "append", "replace", "export", "publish"}}
    \cup {In(op, "s1", <<".">>) : op \in {"list", "export"}}
    \cup {In("list", "s2", <<".">>), In("append", "s1", <<".", "", " c">>), In("write", "s1", <<" c">>),
          In("write", "s1", <<" ..", "s2", "a">>), In("read", "s1", <<"", "s1", "b.pdf">>),
          In("publish", "s2", <<"a">>), In("export", "s2", <<"a">>), In("export", "s1", <<"d\\e">>),
          In("write", "s1", <<".">>), In("append", "s1", <<"b.pdf", "a">>)}
    \cup {[In("import", "s1", <<"b.pdf">>) EXCEPT !.attachment = id] : id \in {"good", "big", "liar", "gone"}}

TwoCalls    == {c1, c2}
SomeForeign == {"d\\e"}
SomeFaults  == {{}, {"aio"}, {"oss"}, {"box"}, {"unconfigured"}}

ASSUME Given == FilesParameters

\* What a behaviour is not about stays at one of its initial states.
AnyInit ==
  /\ which \in {"boxes", "files"} /\ Init /\ FilesInit
  /\ which = "boxes" => faulty = {}
  /\ which = "files" => happens = {"restart"}

AnyNext ==
  /\ UNCHANGED which
  /\ \/ which = "boxes" /\ Next /\ UNCHANGED fileVars
     \/ which = "files" /\ FilesNext /\ UNCHANGED vars

AnySpec == AnyInit /\ [][AnyNext]_allVars

AllAlike == Symmetry \cup Permutations({c1, c2})
=============================================================================
