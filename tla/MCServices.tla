------------------------------ MODULE MCServices ------------------------------
(* What a turn asks of others, for TLC: its tools (ToolScope), its model and   *)
(* provider (ModelRouting), the answers of that model (LlmStreams), and the    *)
(* instance an RPC goes to (RpcRouting).  The four share no state: a behaviour *)
(* is one of each.                                                             *)
EXTENDS MCToolScope, ModelRouting, RpcRouting, MCLlmStreams, TLC

CONSTANTS u1, u2, m0, m1, p0, p1, p2, k1, k2, dev, c1, c2, d1, b1, b2

VARIABLE which

allVars == <<which, vars, routingVars, rpcVars, streamVars>>

-----------------------------------------------------------------------------
(* Two users, a model of the platform and one of a user, and a provider of     *)
(* each of them.                                                               *)

OwnerOf(p) == CASE p = p0 -> System [] p = p1 -> u1 [] p = p2 -> u2
Provided(p) == [owner |-> OwnerOf(p), active |-> TRUE, used |-> 0]
Joins(m, p, o, preferred, born) ==
  [model |-> m, provider |-> p, owner |-> o, preferred |-> preferred, active |-> TRUE, born |-> born]

\* Seeded by the platform; and with bindings of both users.
Seeded == [model |-> m0 :> [owner |-> System, active |-> TRUE], provider |-> p0 :> Provided(p0),
           mappings |-> {Joins(m0, p0, System, TRUE, 0)}]
Bound == [model |-> (m0 :> [owner |-> System, active |-> TRUE]) @@ (m1 :> [owner |-> u1, active |-> TRUE]),
          provider |-> [p \in {p0, p1, p2} |-> Provided(p)],
          mappings |-> {Joins(m0, p0, System, TRUE, 0), Joins(m0, p1, u1, TRUE, 0), Joins(m1, p1, u1, TRUE, 0)}]

\* Managing mappings while turns run; deleting; a turn while its provider is edited.
SomeKinds == {{"bind", "unbind", "chat"}, {"bind", "delete_model", "remove_provider"},
              {"create", "bind", "update_model", "delete_model"}, {"update_provider", "chat"}}

TwoUsers       == {u1, u2}
TwoModels      == {m0, m1}
ThreeProviders == {p0, p1, p2}
SomeCatalogs   == {Seeded, Bound}

-----------------------------------------------------------------------------
(* An instance of a developer and two of the baseline, a call with the         *)
(* developer's tag and one without.                                            *)

ThreeInstances == {d1, b1, b2}
SomeRegistries == {{}, {d1, b1}, {d1, b1, b2}}
DevelopedBy    == d1 :> dev @@ b1 :> NoDev @@ b2 :> NoDev
TaggedWith     == c1 :> dev @@ c2 :> NoDev

-----------------------------------------------------------------------------
ASSUME Given == RoutingParameters /\ RpcParameters /\ StreamParameters

\* What a behaviour is not about stays at one of its initial states.
AnyInit ==
  /\ which \in {"tools", "models", "rpc", "streams"}
  /\ Init /\ RoutingInit /\ RpcInit /\ StreamInit
  /\ which # "tools" => config = None /\ happens = {"settings"}
  /\ which # "models" => model = Seeded.model /\ workload = {"update_provider", "chat"}
  /\ which # "rpc" => registry = {}
  /\ which # "streams" => asked = "openai"

AnyNext ==
  /\ UNCHANGED which
  /\ \/ which = "tools" /\ Next /\ UNCHANGED <<routingVars, rpcVars, streamVars>>
     \/ which = "models" /\ RoutingNext /\ UNCHANGED <<vars, rpcVars, streamVars>>
     \/ which = "rpc" /\ RpcNext /\ UNCHANGED <<vars, routingVars, streamVars>>
     \/ which = "streams" /\ StreamNext /\ UNCHANGED <<vars, routingVars, rpcVars>>

AnySpec == AnyInit /\ [][AnyNext]_allVars
=============================================================================
