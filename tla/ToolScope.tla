------------------------------ MODULE ToolScope ------------------------------
(***************************************************************************)
(* Which tools a turn of a conversation may call: the registry with its     *)
(* built-in tools, the catalogs of the internal MCP services and of the     *)
(* user's MCP servers, the user's tool configurations, and the scope that   *)
(* is derived for a turn, suspended with it and recovered from it.          *)
(*                                                                          *)
(* One turn of one user, whose calls to the catalogs and to MongoDB are a   *)
(* step each; beside it, other turns that refresh the shared catalog, and   *)
(* the endpoints by which the user changes configurations and servers.      *)
(* Built-in and internal tools that one policy treats alike are one tool    *)
(* here.  A tool is known by where it comes from and its name there.        *)
(***************************************************************************)
EXTENDS Naturals, Sequences, SequencesExt, FiniteSets

CONSTANTS
  Servers,      \* ids of the user's MCP servers, each used once (uuid4)
  MaxServers,   \* settings.mcp.max_user_servers
  Offers,       \* what a user's server may list: sequences of [name, described, valid]
  Services,     \* what an internal service may list: sets of tool names
  Requests,     \* turns: what is asked of derive (see AllowedSkills)
  Legacy,       \* configurations saved before the tools had a prefix: functions
  Writers,      \* concurrent calls of the endpoints that save
  Scenarios,    \* what may change around a turn, one drawn per behaviour (see Kinds)
  MaxChanges,   \* bound on the changes around the turn
  Nothing,      \* None
  Down          \* a call to list_tools that raises

ASSUME ServerBound == MaxServers \in Nat \ {0}
ASSUME ChangeBound == MaxChanges \in Nat

\* settings: the user's tool configurations; servers: the user's servers; services: what
\* the internal services list.
Kinds == {"settings", "servers", "services"}

ASSUME NothingAssumption == Nothing \notin Requests
ASSUME LegacyAssumption ==
  \A c \in Legacy : \A n \in DOMAIN c : c[n] \in [enabled : BOOLEAN, key : BOOLEAN]
ASSUME ScenariosAssumption == Scenarios \subseteq SUBSET Kinds

VARIABLES
  config,    \* name of a configuration -> [enabled, key]  (wisepen_user_tool_configs)
  server,    \* the user's servers, newest first: [id, enabled, names]
  used,      \* ids that were given to servers
  listing,   \* source -> what its list_tools answers now, Down when it fails
  cached,    \* internal service -> [tools, fresh], Nothing before the first answer
  late,      \* internal service -> answers that other turns have yet to store
  asking,    \* internal service the turn waits for -> what the cache held when it asked
  seen,      \* history: internal service -> listings it had since the turn began to load
  found,     \* user's server -> cached descriptors, Nothing on a miss
  turn,      \* the turn: [at, request, ...]
  writer,    \* endpoint call -> [at, ...]
  changes,   \* changes so far
  happens    \* the kinds of changes in this behaviour

vars == <<config, server, used, listing, cached, late, asking, seen, found, turn, writer,
          changes, happens>>
stored == <<config, server, used, writer>>
catalogs == <<listing, cached, late, found, asking, seen>>
round == <<changes, happens>>

Rest == [at |-> "idle"]
Internal == {"system", "sandbox"}

-----------------------------------------------------------------------------
(* Tools and their policies                                                 *)

Policy(mode, shown, skills, keyed, needs) ==
  [mode |-> mode, shown |-> shown, skills |-> skills, keyed |-> keyed, needs |-> needs]

\* Registered at start: load_skill stands for the two skill tools, read_cached for the
\* six readers of cached outputs.
BuiltinTools ==
  [load_skill  |-> Policy("contextual", FALSE, {}, FALSE, {"allowed_skill_ids"}),
   read_cached |-> Policy("contextual", FALSE, {}, FALSE, {"session_id"}),
   get_history |-> Policy("contextual", FALSE, {}, FALSE, {"session_id"}),
   load_image  |-> Policy("contextual", FALSE, {}, FALSE, {"session_id", "temporary_attachment_refs"})]

\* create_skill_info stands for the four authoring tools, create_note for the tools on
\* notes and resources, exa_search for the six searches that need a key of the user.
SystemTools ==
  [create_skill_info  |-> Policy("contextual", FALSE, {"skill-creator"}, FALSE, {"allowed_skill_ids"}),
   create_note        |-> Policy("selectable", TRUE, {}, FALSE, {}),
   exa_search         |-> Policy("selectable", TRUE, {}, TRUE, {})]

SandboxTools == [execute_command |-> Policy("selectable", TRUE, {}, FALSE, {"user_id", "session_id"})]

UserTool == Policy("selectable", TRUE, {}, FALSE, {})
ClientTool == Policy("selectable", TRUE, {}, FALSE, {})

\* A tool is registered under <<prefix, ..., name>>.
Known(source) == CASE source = "builtin" -> BuiltinTools
                   [] source = "system" -> SystemTools
                   [] source = "sandbox" -> SandboxTools

\* A call that raises is no listing, and a catalog that was filled is not an empty one.
ASSUME DownAssumption == \A s \in Internal : \A l \in SUBSET DOMAIN Known(s) : l # Down
ASSUME FilledAssumption ==
  \A s \in Internal : \A l \in SUBSET DOMAIN Known(s), f \in BOOLEAN :
    [tools |-> l, fresh |-> f] # Nothing

Tool(from, name, policy) == [from |-> from, name |-> name, policy |-> policy]

\* The configured tools among those an internal service lists, under its prefix.
RemoteTools(source, names) ==
  [n \in {<<source, x>> : x \in names \cap DOMAIN Known(source)} |->
     Tool(source, n[2], Known(source)[n[2]])]

Merge(f, g) == [n \in DOMAIN f \cup DOMAIN g |-> IF n \in DOMAIN f THEN f[n] ELSE g[n]]
Empty == [n \in {} |-> Nothing]

Registered == [n \in {<<"builtin", x>> : x \in DOMAIN BuiltinTools} |->
                 Tool("builtin", n[2], BuiltinTools[n[2]])]

\* Letters are lowered and others replaced, so two names of one server may become one.
Normal(name) == IF name = "Find" THEN "find" ELSE name

\* The enabled, well-formed tools of a server; of two with one name the later stays.
UserTools(entry, descriptors) ==
  LET usable == SelectSeq(descriptors, LAMBDA d : d.name \in entry.names /\ d.valid)
      names  == {<<"mcp", entry.id, Normal(usable[i].name)>> : i \in DOMAIN usable}
      last(n) == CHOOSE i \in DOMAIN usable :
                   /\ Normal(usable[i].name) = n[3]
                   /\ \A j \in DOMAIN usable : Normal(usable[j].name) = n[3] => j <= i
  IN  [n \in names |-> Tool(entry.id, usable[last(n)].name, UserTool)]

-----------------------------------------------------------------------------
(* What a turn asks for, and what the policy builder makes of it            *)

\* A request has use_tool and use_skill of the agent; skills, matched for the query;
\* summary and image of the history; default and overrides, the selection; and client,
\* the names of the client tools.
AllowedSkills(r) == IF r.use_tool /\ r.use_skill THEN r.skills ELSE {}

ContextKeys(r) ==
  {"session_id", "user_id", "temporary_attachment_refs"}
    \cup (IF AllowedSkills(r) # {} THEN {"allowed_skill_ids"} ELSE {})

Exposed(r) ==
  {<<"builtin", x>> : x \in
     (IF AllowedSkills(r) # {} THEN {"load_skill"} ELSE {})
       \cup (IF r.summary THEN {"get_history"} ELSE {})
       \cup (IF r.image THEN {"load_image"} ELSE {})
       \cup (IF r.use_tool THEN {"read_cached"} ELSE {})}

Override(r, n) == IF n \in DOMAIN r.overrides THEN r.overrides[n] ELSE Nothing

Selected(r, n, p) ==
  IF p.mode = "contextual" THEN Override(r, n) # FALSE
  ELSE IF Override(r, n) = Nothing THEN r.default ELSE Override(r, n)

\* The configuration of a tool, under its name or under the one it had before.
Entity(c, n) ==
  IF n \in DOMAIN c THEN c[n]
  ELSE IF <<n[2]>> \in DOMAIN c THEN c[<<n[2]>>] ELSE Nothing

Configured(c, n) == Entity(c, n) # Nothing /\ Entity(c, n).enabled /\ Entity(c, n).key

Visible(r, c, n, p) ==
  LET satisfied == p.skills # {} /\ p.skills \subseteq AllowedSkills(r)
      asked     == n \in Exposed(r) \/ satisfied
  IN  /\ p.keyed => Configured(c, n)
      /\ Selected(r, n, p)
      /\ p.skills # {} => satisfied
      /\ p.mode = "contextual" \/ ~p.shown => asked

ClientTools(client) == [n \in client |-> Tool("client", n, ClientTool)]

-----------------------------------------------------------------------------
NoTurn == [at |-> "idle", request |-> Nothing, resumed |-> FALSE, wait |-> {}, todo |-> <<>>,
           tools |-> Empty, user |-> Empty, keys |-> {}, saved |-> Nothing]

Init ==
  /\ config \in Legacy
  /\ server = <<>> /\ used = {}
  /\ listing = [s \in Internal \cup Servers |-> IF s \in Internal THEN DOMAIN Known(s) ELSE Down]
  /\ cached = [s \in Internal |-> Nothing] /\ late = [s \in Internal |-> {}]
  /\ asking = Empty /\ seen = [s \in Internal |-> {}]
  /\ found = [s \in Servers |-> Nothing]
  /\ turn = NoTurn /\ writer = [w \in Writers |-> Rest]
  /\ changes = 0 /\ happens \in Scenarios

(* The turn.  Both internal services are asked at once; each has a cache.   *)

\* What an internal service is known to list: nothing, before its first answer.
LastKnown(s) == IF cached[s] = Nothing THEN {} ELSE cached[s].tools

BeginsToLoad ==
  /\ asking' = Empty /\ seen' = [s \in Internal |-> {LastKnown(s)}]
  /\ UNCHANGED <<listing, cached, late, found>>

Begin(r) ==
  /\ turn.at = "idle"
  /\ turn' = [NoTurn EXCEPT !.at = "load", !.request = r, !.wait = Internal, !.tools = Registered]
  /\ BeginsToLoad
  /\ UNCHANGED <<stored, round>>

\* The suspension keeps the names and the configurations of the scope.
Suspend ==
  /\ turn.at = "ready"
  /\ turn' = [turn EXCEPT !.at = "suspended", !.tools = Empty, !.saved =
                [from |-> [n \in DOMAIN turn.tools |-> turn.tools[n].from], keys |-> turn.keys]]
  /\ UNCHANGED <<catalogs, stored, round>>

Resume ==
  /\ turn.at = "suspended"
  /\ turn' = [NoTurn EXCEPT !.at = "load", !.request = turn.request, !.resumed = TRUE,
                            !.wait = Internal, !.tools = Registered, !.saved = turn.saved]
  /\ BeginsToLoad
  /\ UNCHANGED <<stored, round>>

\* A turn that cannot be resumed stays suspended.
End ==
  /\ turn.at \in {"ready", "failed"}
  /\ turn' = IF turn.at = "failed" /\ turn.resumed THEN [turn EXCEPT !.at = "suspended"] ELSE NoTurn
  /\ UNCHANGED <<catalogs, stored, round>>

Fresh(s) == cached[s] # Nothing /\ cached[s].fresh

\* Mutant: a failed refresh forgets what the service listed before.
answer_or_nothing(s, held) == IF listing[s] # Down THEN listing[s] ELSE {}

\* What the service lists, or else what was held of it when it was asked.
Answer(s, held) ==
  IF listing[s] # Down THEN listing[s] ELSE IF held # Nothing THEN held.tools ELSE {}

Loaded(s, names) ==
  turn' = [turn EXCEPT !.wait = @ \ {s}, !.at = IF turn.wait = {s} THEN "servers" ELSE @,
                       !.tools = Merge(@, RemoteTools(s, names))]

\* _load_tools looks at the cache, and asks the service if that is not fresh ...
LoadReads(s) ==
  /\ turn.at = "load" /\ s \in turn.wait \ DOMAIN asking
  /\ IF Fresh(s) THEN Loaded(s, cached[s].tools) /\ UNCHANGED asking
                 ELSE asking' = Merge([x \in {s} |-> cached[s]], asking) /\ UNCHANGED turn
  /\ UNCHANGED <<listing, cached, late, seen, found, stored, round>>

\* ... and has its answer: by then another turn may have filled the cache.
LoadAnswers(s) ==
  /\ turn.at = "load" /\ s \in DOMAIN asking
  /\ Loaded(s, Answer(s, asking[s]))
  /\ asking' = [x \in DOMAIN asking \ {s} |-> asking[x]]
  /\ IF listing[s] = Down THEN UNCHANGED <<cached, seen>>
     ELSE /\ cached' = [cached EXCEPT ![s] = [tools |-> listing[s], fresh |-> TRUE]]
          /\ seen' = [seen EXCEPT ![s] = @ \cup {listing[s]}]
  /\ UNCHANGED <<listing, late, found, stored, round>>

\* What an endpoint that asks for the tools of the service is told.
Listed(s) == IF Fresh(s) THEN cached[s].tools ELSE Answer(s, cached[s])

ListServers ==
  /\ turn.at = "servers"
  /\ turn' = [turn EXCEPT !.at = "discover", !.todo =
                SelectSeq(SubSeq(server, 1, IF Len(server) < MaxServers THEN Len(server) ELSE MaxServers),
                          LAMBDA e : e.enabled)]
  /\ UNCHANGED <<catalogs, stored, round>>

\* What list_tools of a user's server keeps: tools that have a description.
Described(id) == IF listing[id] = Down THEN Down ELSE SelectSeq(listing[id], LAMBDA d : d.described)

\* The next server: from the discovery cache, else asked; one that fails is left out.
Discover ==
  /\ turn.at = "discover" /\ turn.todo # <<>>
  /\ LET e == Head(turn.todo)
         descriptors == IF found[e.id] # Nothing THEN found[e.id] ELSE Described(e.id)
     IN  IF descriptors = Down
           THEN turn' = [turn EXCEPT !.todo = Tail(@)] /\ UNCHANGED found
           ELSE /\ turn' = [turn EXCEPT !.todo = Tail(@), !.user = Merge(UserTools(e, descriptors), @)]
                /\ found' = [found EXCEPT ![e.id] = descriptors]
  /\ UNCHANGED <<listing, cached, late, asking, seen, stored, round>>

Fails == turn' = [turn EXCEPT !.at = "failed", !.tools = Empty, !.user = Empty]

\* Tools of the user do not replace others; a client tool must not share a name.
Available == Merge(turn.tools, turn.user)
Conflict(client) == DOMAIN Available \cap client # {}
Candidates(client) == Merge(Available, ClientTools(client))

\* derive
Derive ==
  /\ turn.at = "discover" /\ turn.todo = <<>> /\ ~turn.resumed
  /\ IF Conflict(turn.request.client) THEN Fails
     ELSE LET all == Candidates(turn.request.client)
              Shown(n) == Visible(turn.request, config, n, all[n].policy)
              tools == RestrictDomain(all, Shown)
          IN  turn' = [turn EXCEPT !.at = "ready", !.user = Empty, !.tools = tools,
                         !.keys = {n \in DOMAIN tools : tools[n].policy.keyed /\ Configured(config, n)}]
  /\ UNCHANGED <<catalogs, stored, round>>

\* The client tools that the suspended scope had.
ClientOfScope == turn.request.client \cap DOMAIN turn.saved.from

\* Mutant: a client tool gives way to a tool that took its name meanwhile.
recover_unchecked ==
  /\ turn.at = "discover" /\ turn.todo = <<>> /\ turn.resumed
  /\ IF ~(DOMAIN turn.saved.from \subseteq DOMAIN Candidates(ClientOfScope)) THEN Fails
     ELSE turn' = [turn EXCEPT !.at = "ready", !.user = Empty, !.keys = turn.saved.keys,
                      !.tools = [n \in DOMAIN turn.saved.from |-> Candidates(ClientOfScope)[n]]]
  /\ UNCHANGED <<catalogs, stored, round>>

\* recover_derived: the tools of the suspended scope, by name, or none at all.
Recover ==
  /\ turn.at = "discover" /\ turn.todo = <<>> /\ turn.resumed
  /\ IF Conflict(ClientOfScope) \/ ~(DOMAIN turn.saved.from \subseteq DOMAIN Candidates(ClientOfScope)) THEN Fails
     ELSE turn' = [turn EXCEPT !.at = "ready", !.user = Empty, !.keys = turn.saved.keys,
                      !.tools = [n \in DOMAIN turn.saved.from |-> Candidates(ClientOfScope)[n]]]
  /\ UNCHANGED <<catalogs, stored, round>>

\* ToolExecutor runs tool n of the scope: its configuration is there when it needs one,
\* and so is every key of the context it requires.
CanRun(n) ==
  LET p == turn.tools[n].policy
  IN  (p.keyed => n \in turn.keys) /\ p.needs \subseteq ContextKeys(turn.request)

-----------------------------------------------------------------------------
(* Around the turn                                                          *)

\* Bounds the model only.
Changes(kind) ==
  /\ kind \in happens /\ changes < MaxChanges
  /\ changes' = changes + 1 /\ UNCHANGED happens

\* Another turn found the cache of s expired and has its answer, which it stores later.
OtherFetch(s) ==
  /\ ~Fresh(s) /\ listing[s] # Down /\ Changes("services")
  /\ late' = [late EXCEPT ![s] = @ \cup {listing[s]}]
  /\ UNCHANGED <<listing, cached, asking, seen, found, turn, stored>>

OtherStore(s) ==
  /\ \E a \in late[s] : /\ cached' = [cached EXCEPT ![s] = [tools |-> a, fresh |-> TRUE]]
                        /\ late' = [late EXCEPT ![s] = @ \ {a}]
                        /\ seen' = [seen EXCEPT ![s] = @ \cup {a}]
  /\ UNCHANGED <<listing, asking, found, turn, stored, round>>

Expire(s) ==
  /\ IF s \in Internal
       THEN Fresh(s) /\ cached' = [cached EXCEPT ![s].fresh = FALSE] /\ UNCHANGED found
       ELSE found[s] # Nothing /\ found' = [found EXCEPT ![s] = Nothing] /\ UNCHANGED cached
  /\ UNCHANGED <<listing, late, asking, seen, turn, stored, round>>

ListingChanges(s) ==
  /\ Changes(IF s \in Internal THEN "services" ELSE "servers")
  /\ \E l \in {Down} \cup (IF s \in Internal THEN {DOMAIN Known(s) \cap x : x \in Services} ELSE Offers) :
       l # listing[s] /\ listing' = [listing EXCEPT ![s] = l]
  /\ UNCHANGED <<cached, late, asking, seen, found, turn, stored>>

\* updateUserToolConfig reads the stored configuration and later saves it with the
\* fields of the request.
UpdateReads(w, n) ==
  /\ writer[w].at = "idle" /\ Changes("settings")
  /\ n \in DOMAIN RemoteTools("system", Listed("system")) /\ SystemTools[n[2]].keyed
  /\ \E e \in BOOLEAN \cup {Nothing}, k \in BOOLEAN :
       writer' = [writer EXCEPT ![w] = [at |-> "update", name |-> n, enabled |-> e, key |-> k,
                    copy |-> IF n \in DOMAIN config THEN config[n] ELSE [enabled |-> TRUE, key |-> FALSE]]]
  /\ UNCHANGED <<catalogs, turn, config, server, used>>

UpdateSaves(w) ==
  /\ writer[w].at = "update"
  /\ LET u == writer[w]
         entity == [enabled |-> IF u.enabled = Nothing THEN u.copy.enabled ELSE u.enabled,
                    key |-> u.key \/ u.copy.key]
     IN  config' = Merge([n \in {u.name} |-> entity], config)
  /\ writer' = [writer EXCEPT ![w] = Rest]
  /\ UNCHANGED <<catalogs, turn, server, used, round>>

\* deleteUserToolConfig looks the configuration up under the name of the request only.
DeleteConfig(n) ==
  /\ n \in DOMAIN RemoteTools("system", Listed("system")) /\ n \in DOMAIN config
  /\ Changes("settings")
  /\ config' = [m \in DOMAIN config \ {n} |-> config[m]]
  /\ UNCHANGED <<catalogs, turn, server, used, writer>>

\* upsertUserMcpServer, for a new server or for one the user has: the server is looked up
\* under a new id in either case.
UpsertReads(w, id) ==
  /\ writer[w].at = "idle" /\ Changes("servers")
  /\ id \in Servers \ used
  /\ \E named \in {Nothing} \cup {server[i].id : i \in DOMAIN server} :
       LET existing == \E i \in DOMAIN server : server[i].id = id
       IN  writer' = [writer EXCEPT ![w] =
             IF (named # Nothing /\ ~existing) \/ (~existing /\ Len(server) >= MaxServers)
               THEN [at |-> "refused", named |-> named] ELSE [at |-> "insert", id |-> id]]
  /\ used' = used \cup {id}
  /\ UNCHANGED <<catalogs, turn, config, server>>

UpsertSaves(w) ==
  /\ writer[w].at = "insert"
  /\ \E names \in SUBSET {"find", "Find", "odd"}, enabled \in BOOLEAN :
       /\ Cardinality(names) = 2
       /\ server' = <<[id |-> writer[w].id, enabled |-> enabled, names |-> names]>> \o server
  /\ writer' = [writer EXCEPT ![w] = Rest]
  /\ UNCHANGED <<catalogs, turn, config, used, round>>

Refused(w) ==
  /\ writer[w].at = "refused" /\ writer' = [writer EXCEPT ![w] = Rest]
  /\ UNCHANGED <<catalogs, turn, config, server, used, round>>

DeleteServer(i) ==
  /\ Changes("servers")
  /\ server' = RemoveAt(server, i)
  /\ UNCHANGED <<catalogs, turn, config, used, writer>>

Next ==
  \/ \E r \in Requests : Begin(r)
  \/ Suspend \/ Resume \/ End
  \/ ListServers \/ Discover \/ Derive \/ Recover
  \/ \E s \in Internal : LoadReads(s) \/ LoadAnswers(s) \/ OtherFetch(s) \/ OtherStore(s)
  \/ \E s \in Internal \cup Servers : Expire(s) \/ ListingChanges(s)
  \/ \E n \in {<<"system", x>> : x \in DOMAIN SystemTools} :
       DeleteConfig(n) \/ \E w \in Writers : UpdateReads(w, n)
  \/ \E w \in Writers : UpdateSaves(w) \/ UpsertSaves(w) \/ Refused(w)
  \/ \E w \in Writers, id \in Servers : UpsertReads(w, id)
  \/ \E i \in DOMAIN server : DeleteServer(i)

Spec == Init /\ [][Next]_vars

-----------------------------------------------------------------------------
(* What a turn may rely on                                                  *)

\* The catalogs hold what was listed, and a scope is built only where a turn is.
TypeOK ==
  /\ turn.at \in {"idle", "load", "servers", "discover", "ready", "suspended", "failed"}
  /\ \A s \in Internal : cached[s] # Nothing => cached[s].tools \subseteq DOMAIN Known(s)
  /\ \A n \in DOMAIN config : config[n] \in [enabled : BOOLEAN, key : BOOLEAN]
  /\ {server[i].id : i \in DOMAIN server} \subseteq used
  /\ turn.at = "idle" <=> turn.request = Nothing

\* A tool the model is shown passes the checks of ToolExecutor before it runs: its
\* configuration is there, and every key of the context it requires, in a derived scope
\* and in a recovered one.
OfferedCanRun ==
  turn.at = "ready" => \A n \in DOMAIN turn.tools : CanRun(n)

\* A resumed turn has the tools it was suspended with, each from where it came then: a
\* call that waits for the client is not answered by a tool that took the name meanwhile.
ResumedAsSuspended ==
  turn.at = "ready" /\ turn.resumed =>
    [n \in DOMAIN turn.tools |-> turn.tools[n].from] = turn.saved.from

\* The types, a tool that is shown can run, and a resumed turn has the tools it was
\* suspended with.
ScopeInv == TypeOK /\ OfferedCanRun /\ ResumedAsSuspended

\* The tools of an internal service that a turn has are those of one of its listings, and of
\* none older than the one that was cached when the turn began to load: a service that fails
\* takes no tool away, and turns that refresh the shared cache at the same time never mix.
OutageKeepsTools ==
  turn.at \in {"servers", "discover"} =>
    \A s \in Internal : \E l \in seen[s] :
      {n \in DOMAIN turn.tools : n[1] = s} = DOMAIN RemoteTools(s, l)

=============================================================================
