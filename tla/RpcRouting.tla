----------------------------- MODULE RpcRouting -----------------------------
(***************************************************************************)
(* Calls between services: an RPC picks an instance from the local list of  *)
(* the service's instances, which is refreshed from Nacos and by its pushes,*)
(* and goes on to another instance when one fails.                          *)
(*                                                                          *)
(* One service.  An instance belongs to a developer or to the baseline; a   *)
(* call carries a developer's tag or none.  Among the instances of a pool   *)
(* any may be picked: that covers the three balancing strategies.           *)
(***************************************************************************)
EXTENDS Naturals, Sequences, FiniteSets

CONSTANTS
  Instances,  \* ip:port of the service's instances
  Registries, \* lists of them that Nacos may have
  Rpcs,       \* RPCs to the service
  Owner,      \* Owner[i]: developer of an instance, or NoDev
  Tag,        \* Tag[c]: developer tag of a call, or NoDev
  NoDev,      \* the baseline, or no tag
  NoCache,    \* the service is not in the local cache
  NoCall,     \* the lock of the service is free
  Attempts,   \* retries + 1
  MaxMoves,   \* bound on changes in the registry
  MaxTicks    \* bound on how often the TTL ends

\* What the parameters must be; the run's module assumes it.
RpcParameters ==
  /\ NoDev \in {Owner[i] : i \in Instances} /\ DOMAIN Tag = Rpcs /\ Registries \subseteq SUBSET Instances
  /\ (\A s \in SUBSET Instances : s # NoCache) /\ NoCall \notin Rpcs
  /\ Attempts \in Nat \ {0} /\ MaxMoves \in Nat /\ MaxTicks \in Nat

VARIABLES
  registry,   \* the healthy and enabled instances that Nacos knows
  pushes,     \* lists that Nacos has pushed and the callback has not seen
  cache,      \* _cache: NoCache or a set of instances
  fresh,      \* is _fetched_at within the TTL?
  lock,       \* who holds the lock of the service
  subscribed, \* how many subscriptions Nacos holds
  knows,      \* is the service in _subscribed?
  rpc,        \* c -> [pc, tried, listed, answer]
  moves, ticks, closed

rpcVars == <<registry, pushes, cache, fresh, lock, subscribed, knows, rpc, moves, ticks, closed>>
net == <<registry, pushes, moves, ticks, closed>>
local == <<cache, fresh, lock, subscribed, knows>>

\* What a call ends with: data, an RpcError for its answer, or no instance left.
Ends == {"data", "error", "unavailable"}

-----------------------------------------------------------------------------
(* Picking an instance                                                      *)

\* _select_gray_pool: the developer's instances, else the baseline.
Pool(c) ==
  LET own == {i \in cache : Owner[i] = Tag[c]}
  IN IF Tag[c] # NoDev /\ own # {} THEN own ELSE {i \in cache : Owner[i] = NoDev}

EndedWith(c, with) == [rpc EXCEPT ![c].pc = "done", ![c].answer = with]

\* ServiceDiscovery.pick once the list is ready: one that this call has not tried.
Chosen(c) ==
  LET left == IF cache = NoCache THEN {} ELSE Pool(c) \ rpc[c].tried
  IN IF left = {} THEN rpc' = EndedWith(c, IF rpc[c].tried = {} THEN "unavailable" ELSE "error")
     ELSE \E i \in left : rpc' = [rpc EXCEPT ![c].pc = "sent", ![c].tried = @ \cup {i}]

Usable == cache # NoCache /\ fresh

\* _ensure_ready without the lock, and with it when it is free: a list within its TTL is
\* used as it is, at once.
Pick(c) ==
  /\ rpc[c].pc = "pick"
  /\ IF Usable THEN Chosen(c) ELSE rpc' = [rpc EXCEPT ![c].pc = "wait"]
  /\ UNCHANGED <<net, local>>

\* The lock is taken: the list may have come while waiting, else it is asked for.
Lock(c) ==
  /\ rpc[c].pc = "wait" /\ lock = NoCall
  /\ IF Usable THEN Chosen(c) /\ UNCHANGED local
     ELSE /\ rpc' = [rpc EXCEPT ![c].pc = "refresh", ![c].listed = registry]
          /\ lock' = c
          /\ UNCHANGED <<cache, fresh, subscribed, knows>>
  /\ UNCHANGED net

\* list_instances answers with the list as it was asked for, or as it is by now.
Refreshed(c) ==
  /\ rpc[c].pc = "refresh"
  /\ cache' \in {rpc[c].listed, registry}
  /\ fresh' = TRUE
  /\ rpc' = [rpc EXCEPT ![c].pc = IF knows THEN "choose" ELSE "subscribe"]
  /\ lock' = IF knows THEN NoCall ELSE lock
  /\ UNCHANGED <<net, subscribed, knows>>

\* It fails: the list that there is goes on being used, if there is one.
Degraded(c) ==
  /\ rpc[c].pc = "refresh"
  /\ rpc' = IF cache = NoCache THEN EndedWith(c, IF rpc[c].tried = {} THEN "unavailable" ELSE "error")
             ELSE [rpc EXCEPT ![c].pc = "choose"]
  /\ lock' = NoCall
  /\ UNCHANGED <<net, cache, fresh, subscribed, knows>>

\* After the first list the service is subscribed to; failing that, before or after
\* Nacos has the callback, is not fatal.
Subscribe(c) ==
  /\ rpc[c].pc = "subscribe"
  /\ \/ UNCHANGED <<subscribed, knows>>
     \/ subscribed' = subscribed + 1 /\ knows' \in {knows, TRUE}
  /\ rpc' = [rpc EXCEPT ![c].pc = "choose"]
  /\ lock' = NoCall
  /\ UNCHANGED <<net, cache, fresh>>

\* The caller is cancelled while it waits: the lock is given back, and Nacos may have
\* the callback.
Cancelled(c) ==
  /\ rpc[c].pc \in {"wait", "refresh", "subscribe", "sent"}
  /\ subscribed' \in {subscribed, IF rpc[c].pc = "subscribe" THEN subscribed + 1 ELSE subscribed}
  /\ rpc' = EndedWith(c, "error")
  /\ lock' = IF lock = c THEN NoCall ELSE lock
  /\ UNCHANGED <<net, cache, fresh, knows>>

\* After the lock is given back the call goes on with what the cache holds.
Choose(c) ==
  /\ rpc[c].pc = "choose"
  /\ Chosen(c)
  /\ UNCHANGED <<net, local>>

-----------------------------------------------------------------------------
(* The request                                                              *)

\* RpcClient.request_raw and request: an answer ends the call, with data when it is a
\* success of the other service; an unexpected error ends it too.
Answered(c) ==
  /\ rpc[c].pc = "sent"
  /\ \E with \in {"data", "error"} : rpc' = EndedWith(c, with)
  /\ UNCHANGED <<net, local>>

\* An answer of 5xx, or no connection, or none in time: the next attempt, if one is left.
Failed(c) ==
  /\ rpc[c].pc = "sent"
  /\ rpc' = IF Cardinality(rpc[c].tried) < Attempts THEN [rpc EXCEPT ![c].pc = "pick"] ELSE EndedWith(c, "error")
  /\ UNCHANGED <<net, local>>

-----------------------------------------------------------------------------
(* Nacos                                                                    *)

\* Instances come and go; subscribers are sent the list.
Change ==
  /\ moves < MaxMoves
  /\ registry' \in Registries \ {registry}
  /\ pushes' = IF subscribed > 0 THEN Append(pushes, registry') ELSE pushes
  /\ moves' = moves + 1
  /\ UNCHANGED <<local, rpc, ticks, closed>>

\* Mutant: an empty list is stored like any other.
stores_empty ==
  /\ pushes # << >> /\ pushes' = Tail(pushes)
  /\ cache' = Head(pushes) /\ fresh' = TRUE
  /\ UNCHANGED <<registry, lock, subscribed, knows, rpc, moves, ticks, closed>>

\* _on_change: a list without a usable instance is not believed.
Push ==
  /\ pushes # << >>
  /\ pushes' = Tail(pushes)
  /\ IF Head(pushes) = {} THEN UNCHANGED <<cache, fresh>>
     ELSE cache' = Head(pushes) /\ fresh' = TRUE
  /\ UNCHANGED <<registry, lock, subscribed, knows, rpc, moves, ticks, closed>>

\* The TTL of the list ends.
ListExpires ==
  /\ ticks < MaxTicks /\ fresh
  /\ fresh' = FALSE /\ ticks' = ticks + 1
  /\ UNCHANGED <<registry, pushes, cache, lock, subscribed, knows, rpc, moves, closed>>

\* ServiceDiscovery.close: the process ends, calls may still run.
Close ==
  /\ ~closed
  /\ closed' = TRUE /\ cache' = NoCache /\ fresh' = FALSE /\ knows' = FALSE
  /\ UNCHANGED <<registry, pushes, lock, subscribed, rpc, moves, ticks>>

RpcInit ==
  /\ registry \in Registries /\ pushes = << >>
  /\ cache = NoCache /\ fresh = FALSE /\ lock = NoCall /\ subscribed = 0 /\ knows = FALSE
  /\ rpc = [c \in Rpcs |-> [pc |-> "pick", tried |-> {}, listed |-> {}, answer |-> "none"]]
  /\ moves = 0 /\ ticks = 0 /\ closed = FALSE

Step(c) ==
  \/ Pick(c) \/ Lock(c) \/ Refreshed(c) \/ Degraded(c) \/ Subscribe(c) \/ Choose(c)
  \/ Answered(c) \/ Failed(c) \/ Cancelled(c)

RpcNext == (\E c \in Rpcs : Step(c)) \/ Change \/ Push \/ ListExpires \/ Close

RpcSpec == RpcInit /\ [][RpcNext]_rpcVars

-----------------------------------------------------------------------------
(* Properties                                                               *)

\* No call reaches an instance of another developer, and one with a tag goes to the
\* baseline only when the list that it looks at has no instance of its developer.
GrayKept ==
  [][\A c \in Rpcs : \A i \in rpc'[c].tried \ rpc[c].tried :
       /\ Owner[i] \in {NoDev, Tag[c]}
       /\ Owner[i] = NoDev /\ Tag[c] # NoDev => \A j \in cache : Owner[j] # Tag[c]]_rpcVars

\* One call at a time asks Nacos for the list, however many find it old, and none
\* subscribes to a service whose subscription is known.
OneRefresher ==
  /\ \A c, d \in Rpcs : {rpc[c].pc, rpc[d].pc} \subseteq {"refresh", "subscribe"} => c = d
  /\ \A c \in Rpcs : rpc[c].pc = "subscribe" => ~knows

\* A list with instances is not lost to an outage: only an answer of Nacos that none is
\* left, or the end of the process, empties it.
OutageTolerated ==
  [][cache \notin {NoCache, {}} /\ cache' \in {NoCache, {}} =>
       closed' # closed \/ \E c \in Rpcs : rpc[c].pc = "refresh" /\ rpc'[c].pc # "refresh"]_rpcVars

\* One call at a time refreshes a list, no call reaches the instance of another developer,
\* and an outage of the registry empties no list.
RoutesKept == []OneRefresher /\ GrayKept /\ OutageTolerated
=============================================================================
