------------------------------ MODULE MCSessions ------------------------------
(* What the turns of a session do to what outlives them, for TLC: the lease    *)
(* and the stream (TurnStream), and the stores (ChatTurn).  A behaviour is one *)
(* of the first or one of the second.                                          *)
EXTENDS MCTurnStream, ChatTurn

VARIABLE which

allVars == <<which, vars, storesVars>>

\* The largest sets of events under which the hot context is complete or gone, one in which
\* the summary misses nothing though it is compressed, and one in which it may be partial.
Anyway == {"recover", "run_lost", "generation_fails", "bill_fails", "summary_unread"}
Whole  == {Anyway \cup {a} \cup b :
             a \in {"compress", "overlap"},
             b \in {{"suspend", "history_unread"}, {"expire", "hot_unread"},
                   {"hot_unread", "history_unread"}}}
Compression == {"compress", "suspend", "history_unread", "run_lost", "generation_fails", "bill_fails"}
Partial == {"compress", "overlap", "suspend", "recover", "append_fails", "summary_unsaved"}

ManyFates == Whole \cup {Compression, Partial}

ASSUME Given == Parameters

\* What a behaviour is not about stays at one of its initial states.
AnyInit ==
  /\ which \in {"stream", "stores"} /\ Init /\ StoresInit
  /\ which = "stream" => befalls = Partial
  /\ which = "stores" => happens = {"cancel"}

AnyNext ==
  /\ UNCHANGED which
  /\ \/ which = "stream" /\ Next /\ UNCHANGED storesVars
     \/ which = "stores" /\ StoresNext /\ UNCHANGED vars

AnySpec == AnyInit /\ [][AnyNext]_allVars
=============================================================================
