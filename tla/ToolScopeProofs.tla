---------------------------- MODULE ToolScopeProofs ----------------------------
(***************************************************************************)
(* What a turn is offered, for every set of servers, of requests and of     *)
(* configurations: ToolScope's ScopeInv and OutageKeepsTools.               *)
(***************************************************************************)
EXTENDS ToolScope, SequenceTheorems, TLAPS

-----------------------------------------------------------------------------
(* A name tells where its tool comes from and which policy it has.          *)

Sources == {"builtin", "system", "sandbox"}
Entry == [enabled : BOOLEAN, key : BOOLEAN]

\* The servers of the user, with an id that was given to them.
ServerType ==
  {e \in [id : Servers, enabled : BOOLEAN, names : SUBSET {"find", "Find", "odd"}] : e.id \in used}

OfUser(n) == n[1] = "mcp"
OfPlatform(n) == n[1] \in Sources /\ n[2] \in DOMAIN Known(n[1])

FromOf(n) == IF OfUser(n) THEN n[2] ELSE n[1]
PolicyOf(n) == IF OfUser(n) THEN UserTool ELSE Known(n[1])[n[2]]

\* In a turn with client tools.
FromIn(r, n) == IF n \in r.client THEN "client" ELSE FromOf(n)
PolicyIn(r, n) == IF n \in r.client THEN ClientTool ELSE PolicyOf(n)

\* Tool t is what name n stands for, in the registry and in a turn.
Named(n, t) == t.from = FromOf(n) /\ t.policy = PolicyOf(n)
Chosen(r, n, t) == t.from = FromIn(r, n) /\ t.policy = PolicyIn(r, n)

\* Name n passes the checks of ToolExecutor in a turn r with these configurations.
Runnable(r, n, keys) ==
  /\ PolicyIn(r, n).keyed => n \in keys
  /\ PolicyIn(r, n).needs \subseteq ContextKeys(r)

-----------------------------------------------------------------------------
(* The inductive invariant: the turn, and what the catalogs and the stores  *)
(* hold.                                                                    *)

Building == {"load", "servers", "discover"}
Points == Building \cup {"idle", "ready", "suspended", "failed"}

TurnType ==
  /\ turn = [at |-> turn.at, request |-> turn.request, resumed |-> turn.resumed,
             wait |-> turn.wait, todo |-> turn.todo, tools |-> turn.tools, user |-> turn.user,
             keys |-> turn.keys, saved |-> turn.saved]
  /\ turn.at \in Points /\ turn.resumed \in BOOLEAN
  /\ turn.at # "idle" => turn.request \in Requests
  /\ turn.at = "idle" => turn.request = Nothing /\ ~turn.resumed

\* Before the scope is derived, the tools are those of the platform and of the user.
BuildInv ==
  turn.at \in Building =>
    /\ \A n \in DOMAIN turn.tools : OfPlatform(n) /\ Named(n, turn.tools[n])
    /\ \A n \in DOMAIN turn.user : OfUser(n) /\ Named(n, turn.user[n])

ReadyInv ==
  turn.at = "ready" =>
    \A n \in DOMAIN turn.tools :
      Chosen(turn.request, n, turn.tools[n]) /\ Runnable(turn.request, n, turn.keys)

\* What was suspended could run, and still can: the policy of a name does not change.
SavedInv ==
  turn.at = "suspended" \/ turn.resumed =>
    /\ turn.saved.from = [n \in DOMAIN turn.saved.from |-> FromIn(turn.request, n)]
    /\ \A n \in DOMAIN turn.saved.from : Runnable(turn.request, n, turn.saved.keys)

TurnInv == TurnType /\ BuildInv /\ ReadyInv /\ SavedInv /\ ResumedAsSuspended

StoreType ==
  /\ cached = [s \in Internal |-> cached[s]]
  /\ late = [s \in Internal |-> late[s]]
  /\ seen = [s \in Internal |-> seen[s]]
  /\ listing = [s \in Internal \cup Servers |-> listing[s]]
  /\ writer = [w \in Writers |-> writer[w]]
  /\ server \in Seq(ServerType)
  /\ \A n \in DOMAIN config : config[n] \in Entry

Filled(s) == [tools : SUBSET DOMAIN Known(s), fresh : BOOLEAN]

\* What an internal service lists is among what is known of it, in every copy.
CatalogInv ==
  \A s \in Internal :
    /\ listing[s] # Down => listing[s] \subseteq DOMAIN Known(s)
    /\ cached[s] # Nothing => cached[s] \in Filled(s)
    /\ \A a \in late[s] : a \subseteq DOMAIN Known(s)

\* What an endpoint read and will save.
WriterInv ==
  \A w \in Writers :
    /\ writer[w].at = "update" =>
         /\ writer[w].enabled \in BOOLEAN \cup {Nothing}
         /\ writer[w].key \in BOOLEAN /\ writer[w].copy \in Entry
    /\ writer[w].at = "insert" => writer[w].id \in used \cap Servers

StoreInv == StoreType /\ CatalogInv /\ WriterInv

ScopeIInv == TurnInv /\ StoreInv

-----------------------------------------------------------------------------
(* Names, tools and policies.                                               *)

\* The names of the platform's tools.
LEMMA Values ==
  /\ DOMAIN BuiltinTools = {"load_skill", "read_cached", "get_history", "load_image"}
  /\ DOMAIN SystemTools = {"create_skill_info", "create_note", "exa_search"}
  /\ DOMAIN SandboxTools = {"execute_command"}
  /\ Known("builtin") = BuiltinTools /\ Known("system") = SystemTools
  /\ Known("sandbox") = SandboxTools
BY DEF BuiltinTools, SystemTools, SandboxTools, Known

\* What is registered at start.
LEMMA RegisteredNamed ==
  \A n \in DOMAIN Registered : OfPlatform(n) /\ Named(n, Registered[n])
<1> SUFFICES ASSUME NEW x \in DOMAIN BuiltinTools
    PROVE  LET n == <<"builtin", x>> IN OfPlatform(n) /\ Named(n, Registered[n])
  BY DEF Registered
<1> DEFINE n == <<"builtin", x>>
<1>1. n[1] = "builtin" /\ n[2] = x OBVIOUS
<1>2. Registered[n] = Tool("builtin", x, BuiltinTools[x]) BY <1>1 DEF Registered
<1> HIDE DEF n
<1>3. OfPlatform(n) /\ ~OfUser(n) BY <1>1, Values DEF OfPlatform, OfUser, Sources
<1>4. Named(n, Registered[n]) BY <1>1, <1>2, <1>3, Values DEF Named, FromOf, PolicyOf, Tool
<1>5. QED BY <1>3, <1>4 DEF n

\* What an internal service adds, whatever it lists.
LEMMA RemoteNamed ==
  ASSUME NEW s \in Internal, NEW l
  PROVE  \A n \in DOMAIN RemoteTools(s, l) : OfPlatform(n) /\ Named(n, RemoteTools(s, l)[n])
<1> SUFFICES ASSUME NEW x \in l \cap DOMAIN Known(s)
    PROVE  LET n == <<s, x>> IN OfPlatform(n) /\ Named(n, RemoteTools(s, l)[n])
  BY DEF RemoteTools
<1> DEFINE n == <<s, x>>
<1>1. n[1] = s /\ n[2] = x OBVIOUS
<1>2. RemoteTools(s, l)[n] = Tool(s, x, Known(s)[x]) BY <1>1 DEF RemoteTools
<1> HIDE DEF n
<1>3. OfPlatform(n) /\ ~OfUser(n) BY <1>1 DEF OfPlatform, OfUser, Sources, Internal
<1>4. Named(n, RemoteTools(s, l)[n]) BY <1>1, <1>2, <1>3 DEF Named, FromOf, PolicyOf, Tool
<1>5. QED BY <1>3, <1>4 DEF n

\* What a server of the user adds, whatever it lists.
LEMMA UserNamed ==
  ASSUME NEW e, NEW d
  PROVE  \A n \in DOMAIN UserTools(e, d) : OfUser(n) /\ Named(n, UserTools(e, d)[n])
<1> DEFINE usable == SelectSeq(d, LAMBDA x : x.name \in e.names /\ x.valid)
           names  == {<<"mcp", e.id, Normal(usable[i].name)>> : i \in DOMAIN usable}
           last(n) == CHOOSE i \in DOMAIN usable :
                        /\ Normal(usable[i].name) = n[3]
                        /\ \A j \in DOMAIN usable : Normal(usable[j].name) = n[3] => j <= i
<1>1. UserTools(e, d) = [n \in names |-> Tool(e.id, usable[last(n)].name, UserTool)]
  BY DEF UserTools
<1>2. \A n \in names : n[1] = "mcp" /\ n[2] = e.id
  <2>1. \A x : <<"mcp", e.id, x>>[1] = "mcp" /\ <<"mcp", e.id, x>>[2] = e.id OBVIOUS
  <2>2. QED BY <2>1
<1> HIDE DEF names, last, usable
<1>3. \A n \in names : UserTools(e, d)[n] = Tool(e.id, usable[last(n)].name, UserTool)
  BY <1>1
<1>4. DOMAIN UserTools(e, d) = names BY <1>1
<1>5. QED BY <1>2, <1>3, <1>4 DEF OfUser, Named, FromOf, PolicyOf, Tool

\* Names of the user's servers and of the platform differ.
LEMMA Apart == \A n : ~(OfPlatform(n) /\ OfUser(n))
BY DEF OfPlatform, OfUser, Sources

\* Without a conflict, every tool there is to choose from is what its name stands for.
LEMMA CandidatesChosen ==
  ASSUME BuildInv, turn.at \in Building,
         NEW client \in SUBSET turn.request.client, ~Conflict(client),
         NEW n \in DOMAIN Candidates(client), n \notin turn.request.client \ client
  PROVE  /\ Chosen(turn.request, n, Candidates(client)[n])
         /\ n \notin turn.request.client => OfPlatform(n) \/ OfUser(n)
<1>1. DOMAIN Available = DOMAIN turn.tools \cup DOMAIN turn.user BY DEF Available, Merge
<1>2. \A m \in DOMAIN Available : (OfPlatform(m) \/ OfUser(m)) /\ Named(m, Available[m])
  <2> SUFFICES ASSUME NEW m \in DOMAIN Available
      PROVE (OfPlatform(m) \/ OfUser(m)) /\ Named(m, Available[m])
    OBVIOUS
  <2>1. Available[m] = IF m \in DOMAIN turn.tools THEN turn.tools[m] ELSE turn.user[m]
    BY <1>1 DEF Available, Merge
  <2>2. QED BY <1>1, <2>1 DEF BuildInv
<1>3. DOMAIN ClientTools(client) = client BY DEF ClientTools
<1>4. DOMAIN Candidates(client) = DOMAIN Available \cup client
  BY <1>3 DEF Candidates, Merge
<1>5. Candidates(client)[n] = IF n \in DOMAIN Available THEN Available[n] ELSE ClientTools(client)[n]
  BY <1>3, <1>4 DEF Candidates, Merge
<1>6. CASE n \in DOMAIN Available
  <2>1. n \notin client BY <1>6 DEF Conflict
  <2>2. QED BY <1>2, <1>5, <1>6, <2>1 DEF Chosen, Named, FromIn, PolicyIn
<1>7. CASE n \notin DOMAIN Available
  <2>1. n \in client /\ n \in turn.request.client BY <1>4, <1>7
  <2>2. Candidates(client)[n] = Tool("client", n, ClientTool) BY <1>5, <1>7, <2>1 DEF ClientTools
  <2>3. QED BY <2>1, <2>2 DEF Chosen, FromIn, PolicyIn, Tool
<1>8. QED BY <1>6, <1>7

\* A tool that the model is shown finds every key of the context that it requires.
LEMMA NeedsMet ==
  ASSUME NEW r, NEW c, NEW n, Visible(r, c, n, PolicyIn(r, n)),
         n \in r.client \/ OfPlatform(n) \/ OfUser(n)
  PROVE  PolicyIn(r, n).needs \subseteq ContextKeys(r)
<1> DEFINE p == PolicyIn(r, n)
<1>1. {"session_id", "user_id", "temporary_attachment_refs"} \subseteq ContextKeys(r)
  BY DEF ContextKeys
<1>2. CASE n \in r.client \/ OfUser(n)
  BY <1>2 DEF PolicyIn, PolicyOf, ClientTool, UserTool, Policy
<1>3. CASE n \notin r.client /\ OfPlatform(n)
  <2>1. p = Known(n[1])[n[2]] BY <1>3, Apart DEF PolicyIn, PolicyOf
  <2>2. CASE n[1] = "builtin" /\ n[2] = "load_skill"
    <3>1. p.skills = {} /\ p.mode = "contextual" /\ p.needs = {"allowed_skill_ids"}
      BY <2>1, <2>2, Values DEF BuiltinTools, Policy
    <3>2. n \in Exposed(r) BY <3>1 DEF Visible
    <3>3. AllowedSkills(r) # {} BY <2>2, <3>2 DEF Exposed
    <3>4. QED BY <3>1, <3>3 DEF ContextKeys
  <2>3. CASE n[1] = "system" /\ n[2] = "create_skill_info"
    <3>1. p.skills = {"skill-creator"} /\ p.needs = {"allowed_skill_ids"}
      BY <2>1, <2>3, Values DEF SystemTools, Policy
    <3>2. AllowedSkills(r) # {} BY <3>1 DEF Visible
    <3>3. QED BY <3>1, <3>2 DEF ContextKeys
  <2>4. CASE n[1] = "builtin" /\ n[2] # "load_skill"
    BY <1>1, <1>3, <2>1, <2>4, Values DEF OfPlatform, BuiltinTools, Policy
  <2>5. CASE n[1] = "system" /\ n[2] # "create_skill_info"
    BY <1>1, <1>3, <2>1, <2>5, Values DEF OfPlatform, SystemTools, Policy
  <2>6. CASE n[1] = "sandbox"
    BY <1>1, <1>3, <2>1, <2>6, Values DEF OfPlatform, SandboxTools, Policy
  <2>7. QED BY <1>3, <2>2, <2>3, <2>4, <2>5, <2>6 DEF OfPlatform, Sources
<1>4. QED BY <1>2, <1>3

-----------------------------------------------------------------------------
(* The turn.                                                                *)

\* A turn that begins, or goes on, has the built-in tools.
LEMMA BeginKeeps == ASSUME TurnInv, NEW r \in Requests, Begin(r) PROVE TurnInv'
<1>1. turn' = [at |-> "load", request |-> r, resumed |-> FALSE, wait |-> Internal, todo |-> <<>>,
               tools |-> Registered, user |-> Empty, keys |-> {}, saved |-> Nothing]
  BY DEF Begin, NoTurn
<1>2. TurnType' BY <1>1 DEF TurnType, Points, Building
<1>3. BuildInv' BY <1>1, RegisteredNamed DEF BuildInv, Empty
<1>4. ReadyInv' /\ SavedInv' /\ ResumedAsSuspended'
  BY <1>1 DEF ReadyInv, SavedInv, ResumedAsSuspended
<1>5. QED BY <1>2, <1>3, <1>4 DEF TurnInv

\* A recovery starts from the tools that were suspended.
LEMMA ResumeKeeps == ASSUME TurnInv, Resume PROVE TurnInv'
<1>1. turn' = [at |-> "load", request |-> turn.request, resumed |-> TRUE, wait |-> Internal,
               todo |-> <<>>, tools |-> Registered, user |-> Empty, keys |-> {},
               saved |-> turn.saved]
  BY DEF Resume, NoTurn
<1>2. TurnType' BY <1>1 DEF TurnInv, TurnType, Points, Building, Resume
<1>3. BuildInv' BY <1>1, RegisteredNamed DEF BuildInv, Empty
<1>4. SavedInv' BY <1>1 DEF TurnInv, SavedInv, Resume
<1>5. ReadyInv' /\ ResumedAsSuspended' BY <1>1 DEF ReadyInv, ResumedAsSuspended
<1>6. QED BY <1>2, <1>3, <1>4, <1>5 DEF TurnInv

\* What a ready turn has, its suspension names: with what it needs to run.
LEMMA SuspendKeeps == ASSUME TurnInv, Suspend PROVE TurnInv'
<1> DEFINE s == [from |-> [n \in DOMAIN turn.tools |-> turn.tools[n].from], keys |-> turn.keys]
<1>1. turn' = [turn EXCEPT !.at = "suspended", !.tools = Empty, !.saved = s] BY DEF Suspend
<1>2. turn' = [at |-> "suspended", request |-> turn.request, resumed |-> turn.resumed,
               wait |-> turn.wait, todo |-> turn.todo, tools |-> Empty, user |-> turn.user,
               keys |-> turn.keys, saved |-> s]
  BY <1>1 DEF TurnInv, TurnType
<1>3. TurnType' BY <1>2 DEF TurnInv, TurnType, Points, Building, Suspend
<1>4. DOMAIN s.from = DOMAIN turn.tools /\ s.keys = turn.keys OBVIOUS
<1>5. s.from = [n \in DOMAIN s.from |-> FromIn(turn.request, n)]
  BY <1>4 DEF TurnInv, ReadyInv, Chosen, Suspend
<1>6. \A n \in DOMAIN s.from : Runnable(turn.request, n, s.keys)
  BY <1>4 DEF TurnInv, ReadyInv, Suspend
<1> HIDE DEF s
<1>7. SavedInv' BY <1>2, <1>5, <1>6 DEF SavedInv
<1>8. BuildInv' /\ ReadyInv' /\ ResumedAsSuspended'
  BY <1>2 DEF BuildInv, ReadyInv, ResumedAsSuspended, Building
<1>9. QED BY <1>3, <1>7, <1>8 DEF TurnInv

\* A turn that ends leaves nothing, unless its recovery failed: it stays suspended.
LEMMA EndKeeps == ASSUME TurnInv, End PROVE TurnInv'
<1>1. CASE turn.at = "failed" /\ turn.resumed
  <2>1. turn' = [at |-> "suspended", request |-> turn.request, resumed |-> turn.resumed,
                 wait |-> turn.wait, todo |-> turn.todo, tools |-> turn.tools,
                 user |-> turn.user, keys |-> turn.keys, saved |-> turn.saved]
    BY <1>1 DEF End, TurnInv, TurnType
  <2>2. TurnType' BY <1>1, <2>1 DEF TurnInv, TurnType, Points, Building
  <2>3. SavedInv' BY <1>1, <2>1 DEF TurnInv, SavedInv
  <2>4. BuildInv' /\ ReadyInv' /\ ResumedAsSuspended'
    BY <2>1 DEF BuildInv, ReadyInv, ResumedAsSuspended, Building
  <2>5. QED BY <2>2, <2>3, <2>4 DEF TurnInv
<1>2. CASE ~(turn.at = "failed" /\ turn.resumed)
  <2>1. turn' = NoTurn BY <1>2 DEF End
  <2>2. TurnType' BY <2>1 DEF TurnType, NoTurn, Points
  <2>3. BuildInv' /\ ReadyInv' /\ SavedInv' /\ ResumedAsSuspended'
    BY <2>1 DEF BuildInv, ReadyInv, SavedInv, ResumedAsSuspended, NoTurn, Building
  <2>4. QED BY <2>2, <2>3 DEF TurnInv
<1>3. QED BY <1>1, <1>2

\* The steps that collect tools: the tools of the platform and of the user stay what their
\* names say.
LEMMA BuildKeeps ==
  ASSUME TurnInv, turn.at \in Building, NEW a \in Building, NEW w, NEW d, NEW tools, NEW user,
         turn' = [at |-> a, request |-> turn.request, resumed |-> turn.resumed, wait |-> w,
                  todo |-> d, tools |-> tools, user |-> user, keys |-> turn.keys,
                  saved |-> turn.saved],
         \A n \in DOMAIN tools : OfPlatform(n) /\ Named(n, tools[n]),
         \A n \in DOMAIN user : OfUser(n) /\ Named(n, user[n])
  PROVE  TurnInv'
<1>1. TurnType' BY DEF TurnInv, TurnType, Points, Building
<1>2. BuildInv' BY DEF BuildInv
<1>3. SavedInv' BY DEF TurnInv, SavedInv, Building
<1>4. ReadyInv' /\ ResumedAsSuspended' BY DEF ReadyInv, ResumedAsSuspended, Building
<1>5. QED BY <1>1, <1>2, <1>3, <1>4 DEF TurnInv

\* An internal service adds tools of its own names.
LEMMA LoadedKeeps ==
  ASSUME TurnInv, turn.at = "load", NEW s \in Internal, NEW l, Loaded(s, l)
  PROVE  TurnInv'
<1> DEFINE tools == Merge(turn.tools, RemoteTools(s, l))
           a == IF turn.wait = {s} THEN "servers" ELSE turn.at
<1>1. turn.at \in Building /\ a \in Building BY DEF Building
<1>2. turn' = [at |-> a, request |-> turn.request, resumed |-> turn.resumed,
               wait |-> turn.wait \ {s}, todo |-> turn.todo, tools |-> tools,
               user |-> turn.user, keys |-> turn.keys, saved |-> turn.saved]
  BY DEF Loaded, TurnInv, TurnType
<1>3. \A n \in DOMAIN tools : OfPlatform(n) /\ Named(n, tools[n])
  <2> DEFINE g == RemoteTools(s, l)
  <2>1. \A n \in DOMAIN g : OfPlatform(n) /\ Named(n, g[n]) BY RemoteNamed
  <2>2. \A n \in DOMAIN turn.tools : OfPlatform(n) /\ Named(n, turn.tools[n])
    BY <1>1 DEF TurnInv, BuildInv
  <2> HIDE DEF g
  <2>3. QED BY <2>1, <2>2 DEF Merge, g
<1>4. \A n \in DOMAIN turn.user : OfUser(n) /\ Named(n, turn.user[n])
  BY <1>1 DEF TurnInv, BuildInv
<1> HIDE DEF tools, a
<1>5. QED BY <1>1, <1>2, <1>3, <1>4, BuildKeeps

\* The servers of the user are listed.
LEMMA ListServersKeeps == ASSUME TurnInv, ListServers PROVE TurnInv'
<1> DEFINE d == SelectSeq(SubSeq(server, 1,
      IF Len(server) < MaxServers THEN Len(server) ELSE MaxServers),
                          LAMBDA e : e.enabled)
<1>1. turn' = [turn EXCEPT !.at = "discover", !.todo = d] BY DEF ListServers
<1> HIDE DEF d
<1>2. turn' = [at |-> "discover", request |-> turn.request, resumed |-> turn.resumed,
               wait |-> turn.wait, todo |-> d, tools |-> turn.tools, user |-> turn.user,
               keys |-> turn.keys, saved |-> turn.saved]
  BY <1>1 DEF TurnInv, TurnType
<1>3. turn.at \in Building BY DEF ListServers, Building
<1>4. \A n \in DOMAIN turn.tools : OfPlatform(n) /\ Named(n, turn.tools[n])
  BY <1>3 DEF TurnInv, BuildInv
<1>5. \A n \in DOMAIN turn.user : OfUser(n) /\ Named(n, turn.user[n])
  BY <1>3 DEF TurnInv, BuildInv
<1>6. "discover" \in Building BY DEF Building
<1>7. QED BY <1>2, <1>3, <1>4, <1>5, <1>6, BuildKeeps

\* A server of the user adds tools under its own prefix.
LEMMA DiscoverKeeps == ASSUME TurnInv, Discover PROVE TurnInv'
<1> DEFINE e == Head(turn.todo)
           d == IF found[e.id] # Nothing THEN found[e.id] ELSE Described(e.id)
           g == UserTools(e, d)
<1>1. turn.at = "discover" /\ "discover" \in Building BY DEF Discover, Building
<1>2. \A n \in DOMAIN turn.tools : OfPlatform(n) /\ Named(n, turn.tools[n])
  BY <1>1 DEF TurnInv, BuildInv
<1>3. \A n \in DOMAIN turn.user : OfUser(n) /\ Named(n, turn.user[n])
  BY <1>1 DEF TurnInv, BuildInv
<1>4. \/ turn' = [turn EXCEPT !.todo = Tail(@)]
      \/ turn' = [turn EXCEPT !.todo = Tail(@), !.user = Merge(g, @)]
  BY DEF Discover
<1>5. \A n \in DOMAIN g : OfUser(n) /\ Named(n, g[n]) BY UserNamed
<1> HIDE DEF g
<1>6. \A n \in DOMAIN Merge(g, turn.user) : OfUser(n) /\ Named(n, Merge(g, turn.user)[n])
  BY <1>3, <1>5 DEF Merge
<1>7. PICK user \in {turn.user, Merge(g, turn.user)} :
        turn' = [at |-> "discover", request |-> turn.request, resumed |-> turn.resumed,
                 wait |-> turn.wait, todo |-> Tail(turn.todo), tools |-> turn.tools,
                 user |-> user, keys |-> turn.keys, saved |-> turn.saved]
  BY <1>1, <1>4 DEF TurnInv, TurnType
<1>8. \A n \in DOMAIN user : OfUser(n) /\ Named(n, user[n]) BY <1>3, <1>6, <1>7
<1>9. QED BY <1>1, <1>2, <1>7, <1>8, BuildKeeps

\* A turn that cannot be built has no tools.
LEMMA FailsKeeps == ASSUME TurnInv, turn.at \in Building, Fails PROVE TurnInv'
<1>1. turn' = [at |-> "failed", request |-> turn.request, resumed |-> turn.resumed,
               wait |-> turn.wait, todo |-> turn.todo, tools |-> Empty, user |-> Empty,
               keys |-> turn.keys, saved |-> turn.saved]
  BY DEF Fails, TurnInv, TurnType
<1>2. TurnType' BY <1>1 DEF TurnInv, TurnType, Points, Building
<1>3. SavedInv' BY <1>1 DEF TurnInv, SavedInv, Building
<1>4. BuildInv' /\ ReadyInv' /\ ResumedAsSuspended'
  BY <1>1 DEF BuildInv, ReadyInv, ResumedAsSuspended, Building
<1>5. QED BY <1>2, <1>3, <1>4 DEF TurnInv

\* A derived scope has, of the tools there are, those that its turn may see.
LEMMA DeriveKeeps == ASSUME TurnInv, Derive PROVE TurnInv'
<1>1. turn.at = "discover" /\ turn.at \in Building /\ ~turn.resumed BY DEF Derive, Building
<1> DEFINE all == Candidates(turn.request.client)
<1>2. CASE Conflict(turn.request.client) BY <1>1, <1>2, FailsKeeps DEF Derive
<1>3. CASE ~Conflict(turn.request.client)
  <2> DEFINE r == turn.request
             Shown(n) == Visible(r, config, n, all[n].policy)
             D == {n \in DOMAIN all : Shown(n)}
             tools == [n \in D |-> all[n]]
             K == {n \in D : all[n].policy.keyed /\ Configured(config, n)}
  <2>1. RestrictDomain(all, Shown) = tools
    BY DEF RestrictDomain, Restrict
  <2>2. {n \in DOMAIN tools : tools[n].policy.keyed /\ Configured(config, n)} = K OBVIOUS
  <2>3. turn' = [turn EXCEPT !.at = "ready", !.user = Empty, !.tools = tools, !.keys = K]
    BY <1>3, <2>1, <2>2 DEF Derive
  <2>4. DOMAIN tools = D /\ \A n \in D : tools[n] = all[n] OBVIOUS
  <2>5. \A n \in D : n \in DOMAIN all /\ Shown(n) OBVIOUS
  <2>6. \A n \in D : all[n].policy.keyed /\ Configured(config, n) => n \in K OBVIOUS
  <2> HIDE DEF tools, K, D
  <2>7. turn' = [at |-> "ready", request |-> r, resumed |-> FALSE, wait |-> turn.wait,
                 todo |-> turn.todo, tools |-> tools, user |-> Empty, keys |-> K,
                 saved |-> turn.saved]
    BY <1>1, <2>3 DEF TurnInv, TurnType
  <2>8. \A n \in D : /\ Chosen(r, n, all[n])
                     /\ n \in r.client \/ OfPlatform(n) \/ OfUser(n)
    BY <1>1, <1>3, <2>5, CandidatesChosen DEF TurnInv
  <2>9. \A n \in D : Visible(r, config, n, PolicyIn(r, n)) BY <2>5, <2>8 DEF Chosen
  <2>10. \A n \in D : Runnable(r, n, K)
    <3> SUFFICES ASSUME NEW n \in D PROVE Runnable(r, n, K) OBVIOUS
    <3>1. PolicyIn(r, n).needs \subseteq ContextKeys(r) BY <2>8, <2>9, NeedsMet
    <3>2. PolicyIn(r, n).keyed => Configured(config, n) BY <2>9 DEF Visible
    <3>3. PolicyIn(r, n) = all[n].policy BY <2>8 DEF Chosen
    <3>4. QED BY <2>6, <3>1, <3>2, <3>3 DEF Runnable
  <2>11. TurnType' BY <1>1, <2>7 DEF TurnInv, TurnType, Points, Building
  <2>12. ReadyInv' BY <2>4, <2>7, <2>8, <2>10 DEF ReadyInv
  <2>13. BuildInv' /\ SavedInv' /\ ResumedAsSuspended'
    BY <2>7 DEF BuildInv, SavedInv, ResumedAsSuspended, Building
  <2>14. QED BY <2>11, <2>12, <2>13 DEF TurnInv
<1>4. QED BY <1>2, <1>3

\* A recovered scope has the tools of the suspended one, each under its name.
LEMMA RecoverKeeps == ASSUME TurnInv, Recover PROVE TurnInv'
<1>1. turn.at = "discover" /\ turn.at \in Building /\ turn.resumed BY DEF Recover, Building
<1> DEFINE all == Candidates(ClientOfScope)
<1>2. CASE Conflict(ClientOfScope) \/ ~(DOMAIN turn.saved.from \subseteq DOMAIN all)
  BY <1>1, <1>2, FailsKeeps DEF Recover
<1>3. CASE ~Conflict(ClientOfScope) /\ DOMAIN turn.saved.from \subseteq DOMAIN all
  <2> DEFINE r == turn.request
             D == DOMAIN turn.saved.from
             tools == [n \in D |-> all[n]]
  <2>1. turn' = [turn EXCEPT !.at = "ready", !.user = Empty, !.keys = turn.saved.keys,
                             !.tools = tools]
    BY <1>3 DEF Recover
  <2>2. DOMAIN tools = D /\ \A n \in D : tools[n] = all[n] OBVIOUS
  <2>3. [n \in DOMAIN tools |-> tools[n].from] = [n \in D |-> all[n].from] OBVIOUS
  <2> HIDE DEF tools
  <2>4. turn' = [at |-> "ready", request |-> r, resumed |-> turn.resumed, wait |-> turn.wait,
                 todo |-> turn.todo, tools |-> tools, user |-> Empty, keys |-> turn.saved.keys,
                 saved |-> turn.saved]
    BY <2>1 DEF TurnInv, TurnType
  <2>5. \A n \in D : Chosen(r, n, all[n])
    <3>1. ClientOfScope \in SUBSET r.client BY DEF ClientOfScope
    <3>2. \A n \in D : n \notin r.client \ ClientOfScope BY DEF ClientOfScope
    <3>3. QED BY <1>1, <1>3, <3>1, <3>2, CandidatesChosen DEF TurnInv
  <2>6. /\ turn.saved.from = [n \in D |-> FromIn(r, n)]
        /\ \A n \in D : Runnable(r, n, turn.saved.keys)
    BY <1>1 DEF TurnInv, SavedInv
  <2>7. [n \in D |-> all[n].from] = turn.saved.from BY <2>5, <2>6 DEF Chosen
  <2>8. TurnType' BY <1>1, <2>4 DEF TurnInv, TurnType, Points, Building
  <2>9. ReadyInv' BY <2>2, <2>4, <2>5, <2>6 DEF ReadyInv
  <2>10. SavedInv' BY <2>4, <2>6 DEF SavedInv
  <2>11. ResumedAsSuspended' BY <2>3, <2>4, <2>7 DEF ResumedAsSuspended
  <2>12. BuildInv' BY <2>4 DEF BuildInv, Building
  <2>13. QED BY <2>8, <2>9, <2>10, <2>11, <2>12 DEF TurnInv
<1>4. QED BY <1>2, <1>3

\* What happens around the turn does not touch it.
LEMMA TurnStep == TurnInv /\ [Next]_vars => TurnInv'
<1> SUFFICES ASSUME TurnInv, [Next]_vars PROVE TurnInv' OBVIOUS
<1>1. ASSUME UNCHANGED turn PROVE TurnInv'
  BY <1>1 DEF TurnInv, TurnType, BuildInv, ReadyInv, SavedInv, ResumedAsSuspended
<1>2. CASE \E r \in Requests : Begin(r) BY <1>2, BeginKeeps
<1>3. CASE Suspend \/ Resume \/ End BY <1>3, SuspendKeeps, ResumeKeeps, EndKeeps
<1>4. CASE ListServers \/ Discover \/ Derive \/ Recover
  BY <1>4, ListServersKeeps, DiscoverKeeps, DeriveKeeps, RecoverKeeps
<1>5. CASE \E s \in Internal : LoadReads(s) \/ LoadAnswers(s)
  BY <1>1, <1>5, LoadedKeeps DEF LoadReads, LoadAnswers
<1>6. CASE \E s \in Internal : OtherFetch(s) \/ OtherStore(s)
  BY <1>1, <1>6 DEF OtherFetch, OtherStore
<1>7. CASE \E s \in Internal \cup Servers : Expire(s) \/ ListingChanges(s)
  BY <1>1, <1>7 DEF Expire, ListingChanges
<1>8. CASE \E n \in {<<"system", x>> : x \in DOMAIN SystemTools} :
             DeleteConfig(n) \/ \E w \in Writers : UpdateReads(w, n)
  BY <1>1, <1>8 DEF DeleteConfig, UpdateReads
<1>9. CASE \E w \in Writers : UpdateSaves(w) \/ UpsertSaves(w) \/ Refused(w)
  BY <1>1, <1>9 DEF UpdateSaves, UpsertSaves, Refused
<1>10. CASE \E w \in Writers, id \in Servers : UpsertReads(w, id)
  BY <1>1, <1>10 DEF UpsertReads
<1>11. CASE \E i \in DOMAIN server : DeleteServer(i) BY <1>1, <1>11 DEF DeleteServer
<1>12. CASE UNCHANGED vars BY <1>1, <1>12 DEF vars
<1>13. QED
  BY <1>2, <1>3, <1>4, <1>5, <1>6, <1>7, <1>8, <1>9, <1>10, <1>11, <1>12 DEF Next

-----------------------------------------------------------------------------
(* The catalogs, the configurations and the servers.                        *)

\* The copies of what an internal service lists, after one of them was made.
LEMMA CatalogStep == StoreInv /\ [Next]_vars => CatalogInv'
<1> SUFFICES ASSUME StoreInv, [Next]_vars PROVE CatalogInv' OBVIOUS
<1> USE DEF StoreInv
<1>0. ASSUME UNCHANGED <<listing, cached, late>> PROVE CatalogInv'
  BY <1>0 DEF CatalogInv, Filled
<1>1. ASSUME NEW s \in Internal, LoadReads(s) \/ LoadAnswers(s) PROVE CatalogInv'
  <2>1. CASE cached' = cached BY <1>0, <1>1, <2>1 DEF LoadReads, LoadAnswers
  <2>2. CASE listing[s] # Down /\ cached' = [cached EXCEPT ![s] = [tools |-> listing[s],
          fresh |-> TRUE]]
    <3>1. cached'[s] = [tools |-> listing[s], fresh |-> TRUE] BY <2>2 DEF StoreType
    <3>2. cached'[s] \in Filled(s)
      <4>1. listing[s] \subseteq DOMAIN Known(s) BY <2>2 DEF CatalogInv
      <4>2. QED BY <3>1, <4>1 DEF Filled
    <3>3. \A t \in Internal : t # s => cached'[t] = cached[t] BY <2>2 DEF StoreType
    <3>4. UNCHANGED <<listing, late>> BY <1>1 DEF LoadReads, LoadAnswers
    <3>5. QED BY <3>2, <3>3, <3>4 DEF CatalogInv, Filled
  <2>3. QED BY <1>1, <2>1, <2>2 DEF LoadReads, LoadAnswers
<1>2. ASSUME NEW s \in Internal, OtherFetch(s) PROVE CatalogInv'
  <2>1. late'[s] = late[s] \cup {listing[s]} /\ listing[s] # Down
    BY <1>2 DEF OtherFetch, StoreType
  <2>2. \A t \in Internal : t # s => late'[t] = late[t] BY <1>2 DEF OtherFetch, StoreType
  <2>3. QED BY <1>2, <2>1, <2>2 DEF OtherFetch, CatalogInv
<1>3. ASSUME NEW s \in Internal, OtherStore(s) PROVE CatalogInv'
  <2>1. PICK a \in late[s] : /\ cached' = [cached EXCEPT ![s] = [tools |-> a, fresh |-> TRUE]]
                             /\ late' = [late EXCEPT ![s] = @ \ {a}]
    BY <1>3 DEF OtherStore
  <2>2. cached'[s] = [tools |-> a, fresh |-> TRUE] /\ late'[s] = late[s] \ {a}
    BY <2>1 DEF StoreType
  <2>3. \A t \in Internal : t # s => cached'[t] = cached[t] /\ late'[t] = late[t]
    BY <2>1 DEF StoreType
  <2>4. cached'[s] \in Filled(s) BY <2>2 DEF CatalogInv, Filled
  <2>5. QED BY <1>3, <2>2, <2>3, <2>4 DEF OtherStore, CatalogInv, Filled
<1>4. ASSUME NEW s \in Internal \cup Servers, Expire(s) PROVE CatalogInv'
  <2>1. CASE s \in Internal
    <3>1. cached' = [cached EXCEPT ![s].fresh = FALSE] BY <1>4, <2>1 DEF Expire
    <3>2. cached[s] # Nothing BY <1>4, <2>1 DEF Expire, Fresh
    <3>3. \A t \in Internal : t # s => cached'[t] = cached[t] BY <2>1, <3>1 DEF StoreType
    <3>4. cached'[s] = [cached[s] EXCEPT !.fresh = FALSE] BY <2>1, <3>1 DEF StoreType
    <3>5. cached'[s] \in Filled(s) BY <2>1, <3>2, <3>4 DEF CatalogInv, Filled
    <3>6. QED BY <1>4, <3>2, <3>3, <3>5 DEF Expire, CatalogInv, Filled
  <2>2. CASE s \notin Internal BY <1>0, <1>4, <2>2 DEF Expire
  <2>3. QED BY <2>1, <2>2
<1>5. ASSUME NEW s \in Internal \cup Servers, ListingChanges(s) PROVE CatalogInv'
  <2>1. PICK l \in {Down} \cup (IF s \in Internal THEN {DOMAIN Known(s) \cap x :
          x \in Services} ELSE Offers) :
          listing' = [listing EXCEPT ![s] = l]
    BY <1>5 DEF ListingChanges
  <2>2. listing'[s] = l /\ \A t \in Internal : t # s => listing'[t] = listing[t]
    BY <2>1 DEF StoreType
  <2>3. s \in Internal => l = Down \/ l \subseteq DOMAIN Known(s) BY <2>1
  <2>4. QED BY <1>5, <2>2, <2>3 DEF ListingChanges, CatalogInv, Filled
<1>6. CASE \/ \E r \in Requests : Begin(r)
           \/ Suspend \/ Resume \/ End \/ ListServers \/ Discover \/ Derive \/ Recover
  BY <1>0, <1>6
     DEF Begin, Suspend, Resume, BeginsToLoad, End, ListServers, Discover, Derive, Recover,
         catalogs
<1>7. CASE \E n \in {<<"system", x>> : x \in DOMAIN SystemTools} :
             DeleteConfig(n) \/ \E w \in Writers : UpdateReads(w, n)
  BY <1>0, <1>7 DEF DeleteConfig, UpdateReads, catalogs
<1>8. CASE \/ \E w \in Writers : UpdateSaves(w) \/ UpsertSaves(w) \/ Refused(w)
           \/ \E w \in Writers, id \in Servers : UpsertReads(w, id)
           \/ \E i \in DOMAIN server : DeleteServer(i)
  BY <1>0, <1>8 DEF UpdateSaves, UpsertSaves, Refused, UpsertReads, DeleteServer, catalogs
<1>9. CASE UNCHANGED vars BY <1>0, <1>9 DEF vars
<1>10. QED
  BY <1>1, <1>2, <1>3, <1>4, <1>5, <1>6, <1>7, <1>8, <1>9 DEF Next

\* More ids that were given leave the servers what they are.
LEMMA ServersStay ==
  ASSUME server \in Seq(ServerType), server' = server, used \subseteq used'
  PROVE  server' \in Seq(ServerType')
<1>1. ServerType \subseteq ServerType' BY DEF ServerType
<1>2. \A i \in 1..Len(server) : server[i] \in ServerType' BY <1>1
<1>3. QED BY <1>2

\* One call of an endpoint goes on, the others stay where they are.
LEMMA WriterMoves ==
  ASSUME StoreType, WriterInv, used \subseteq used', NEW w \in Writers, NEW x,
         writer' = [writer EXCEPT ![w] = x],
         x.at = "update" => /\ x.enabled \in BOOLEAN \cup {Nothing}
                            /\ x.key \in BOOLEAN /\ x.copy \in Entry,
         x.at = "insert" => x.id \in used' \cap Servers
  PROVE  WriterInv' /\ writer' = [v \in Writers |-> writer'[v]]
<1>1. writer'[w] = x /\ \A v \in Writers : v # w => writer'[v] = writer[v] BY DEF StoreType
<1>2. WriterInv' BY <1>1 DEF WriterInv
<1>3. QED BY <1>2 DEF StoreType

\* An endpoint reads the configuration it will change.
LEMMA UpdateReadsKeeps ==
  ASSUME StoreInv, NEW w \in Writers, NEW n, UpdateReads(w, n)
  PROVE  StoreType' /\ WriterInv'
<1> USE DEF StoreInv
<1>1. PICK e \in BOOLEAN \cup {Nothing}, k \in BOOLEAN :
        writer' = [writer EXCEPT ![w] = [at |-> "update", name |-> n, enabled |-> e, key |-> k,
          copy |-> IF n \in DOMAIN config THEN config[n] ELSE [enabled |-> TRUE, key |-> FALSE]]]
  BY DEF UpdateReads
<1>2. (IF n \in DOMAIN config THEN config[n] ELSE [enabled |-> TRUE, key |-> FALSE]) \in Entry
  BY DEF StoreType, Entry
<1>3. UNCHANGED <<config, server, used, cached, late, seen, listing>> BY DEF UpdateReads, catalogs
<1>4. WriterInv' /\ writer' = [v \in Writers |-> writer'[v]]
  BY <1>1, <1>2, <1>3, WriterMoves
<1>5. server' \in Seq(ServerType') BY <1>3, ServersStay DEF StoreType
<1>6. QED BY <1>3, <1>4, <1>5 DEF StoreType

\* What is saved is a configuration.
LEMMA UpdateSavesKeeps ==
  ASSUME StoreInv, NEW w \in Writers, UpdateSaves(w)
  PROVE  StoreType' /\ WriterInv'
<1> USE DEF StoreInv
<1> DEFINE u == writer[w]
           entity == [enabled |-> IF u.enabled = Nothing THEN u.copy.enabled ELSE u.enabled,
                      key |-> u.key \/ u.copy.key]
<1>1. /\ config' = Merge([n \in {u.name} |-> entity], config)
      /\ writer' = [writer EXCEPT ![w] = Rest]
      /\ UNCHANGED <<server, used, cached, late, seen, listing>>
  BY DEF UpdateSaves, catalogs
<1>2. entity \in Entry
  <2>1. u.enabled \in BOOLEAN \cup {Nothing} /\ u.key \in BOOLEAN /\ u.copy \in Entry
    BY DEF UpdateSaves, WriterInv
  <2>2. u.copy.enabled \in BOOLEAN /\ u.copy.key \in BOOLEAN BY <2>1 DEF Entry
  <2>3. QED BY <2>1, <2>2 DEF Entry
<1> HIDE DEF entity
<1>3. \A n \in DOMAIN config' : config'[n] \in Entry BY <1>1, <1>2 DEF Merge, StoreType
<1>4. WriterInv' /\ writer' = [v \in Writers |-> writer'[v]]
  BY <1>1, WriterMoves DEF Rest
<1>5. server' \in Seq(ServerType') BY <1>1, ServersStay DEF StoreType
<1>6. QED BY <1>1, <1>3, <1>4, <1>5 DEF StoreType

\* An endpoint reads the server it will change, or gets an id for a new one.
LEMMA UpsertReadsKeeps ==
  ASSUME StoreInv, NEW w \in Writers, NEW id \in Servers, UpsertReads(w, id)
  PROVE  StoreType' /\ WriterInv'
<1> USE DEF StoreInv
<1>1. used' = used \cup {id} /\ UNCHANGED <<config, server, cached, late, seen, listing>>
  BY DEF UpsertReads, catalogs
<1>2. PICK x : /\ writer' = [writer EXCEPT ![w] = x]
               /\ (\E named : x = [at |-> "refused", named |-> named])
                    \/ x = [at |-> "insert", id |-> id]
  BY DEF UpsertReads
<1>3. x.at # "update" /\ (x.at = "insert" => x.id = id) BY <1>2
<1>4. WriterInv' /\ writer' = [v \in Writers |-> writer'[v]]
  BY <1>1, <1>2, <1>3, WriterMoves
<1>5. server' \in Seq(ServerType') BY <1>1, ServersStay DEF StoreType
<1>6. QED BY <1>1, <1>4, <1>5 DEF StoreType

\* It saves that server.
LEMMA UpsertSavesKeeps ==
  ASSUME StoreInv, NEW w \in Writers, UpsertSaves(w)
  PROVE  StoreType' /\ WriterInv'
<1> USE DEF StoreInv
<1>1. UNCHANGED <<config, used, cached, late, seen, listing>> /\ writer' = [writer EXCEPT ![w] = Rest]
  BY DEF UpsertSaves, catalogs
<1>2. PICK names \in SUBSET {"find", "Find", "odd"}, enabled \in BOOLEAN :
        server' = <<[id |-> writer[w].id, enabled |-> enabled, names |-> names]>> \o server
  BY DEF UpsertSaves
<1> DEFINE e == [id |-> writer[w].id, enabled |-> enabled, names |-> names]
<1>3. e \in ServerType BY DEF UpsertSaves, WriterInv, ServerType
<1> HIDE DEF e
<1>4. server' \in Seq(ServerType) BY <1>2, <1>3 DEF StoreType, e
<1>5. ServerType' = ServerType BY <1>1 DEF ServerType
<1>6. WriterInv' /\ writer' = [v \in Writers |-> writer'[v]]
  BY <1>1, WriterMoves DEF Rest
<1>7. QED BY <1>1, <1>4, <1>5, <1>6 DEF StoreType

\* A server is deleted.
LEMMA DeleteServerKeeps ==
  ASSUME StoreInv, NEW i \in DOMAIN server, DeleteServer(i)
  PROVE  StoreType' /\ WriterInv'
<1> USE DEF StoreInv
<1>1. UNCHANGED <<config, used, writer, cached, late, seen, listing>> BY DEF DeleteServer, catalogs
<1>2. server' = SubSeq(server, 1, i - 1) \o SubSeq(server, i + 1, Len(server))
  BY DEF DeleteServer, RemoveAt
<1>3. server \in Seq(ServerType) /\ i \in 1..Len(server) BY DEF StoreType
<1>4. SubSeq(server, 1, i - 1) \in Seq(ServerType) BY <1>3
<1>5. SubSeq(server, i + 1, Len(server)) \in Seq(ServerType) BY <1>3
<1>6. server' \in Seq(ServerType) BY <1>2, <1>4, <1>5
<1>7. ServerType' = ServerType BY <1>1 DEF ServerType
<1>8. QED BY <1>1, <1>6, <1>7 DEF StoreType, WriterInv

\* Every step keeps what the stores and the endpoints hold.
LEMMA StoreStep == StoreInv /\ [Next]_vars => StoreInv'
<1> SUFFICES ASSUME StoreInv, [Next]_vars PROVE StoreType' /\ WriterInv'
  BY CatalogStep DEF StoreInv
<1> USE DEF StoreInv
<1>0. ASSUME UNCHANGED <<server, used, writer>>,
             \A n \in DOMAIN config' : config'[n] \in Entry,
             cached' = [s \in Internal |-> cached'[s]], late' = [s \in Internal |-> late'[s]],
             seen' = [s \in Internal |-> seen'[s]],
             listing' = [s \in Internal \cup Servers |-> listing'[s]]
      PROVE  StoreType' /\ WriterInv'
  <2>1. server' \in Seq(ServerType') BY <1>0, ServersStay DEF StoreType
  <2>2. QED BY <1>0, <2>1 DEF StoreType, WriterInv
<1>1. ASSUME UNCHANGED stored,
             cached' = [s \in Internal |-> cached'[s]], late' = [s \in Internal |-> late'[s]],
             seen' = [s \in Internal |-> seen'[s]],
             listing' = [s \in Internal \cup Servers |-> listing'[s]]
      PROVE  StoreType' /\ WriterInv'
  BY <1>0, <1>1 DEF stored, StoreType
<1>2. CASE \/ \E r \in Requests : Begin(r)
           \/ Suspend \/ Resume \/ End \/ ListServers \/ Derive \/ Recover
  BY <1>1, <1>2
     DEF Begin, Suspend, Resume, BeginsToLoad, End, ListServers, Derive, Recover, catalogs,
         StoreType
<1>3. CASE Discover BY <1>1, <1>3 DEF Discover, StoreType
<1>4. ASSUME NEW s \in Internal, LoadReads(s) \/ LoadAnswers(s)
      PROVE  StoreType' /\ WriterInv'
  <2>1. cached' = [t \in Internal |-> cached'[t]]
    BY <1>4 DEF LoadReads, LoadAnswers, StoreType
  <2>2. seen' = [t \in Internal |-> seen'[t]] BY <1>4 DEF LoadReads, LoadAnswers, StoreType
  <2>3. QED BY <1>1, <1>4, <2>1, <2>2 DEF LoadReads, LoadAnswers, StoreType
<1>5. ASSUME NEW s \in Internal, OtherFetch(s) PROVE StoreType' /\ WriterInv'
  <2>1. late' = [t \in Internal |-> late'[t]] BY <1>5 DEF OtherFetch, StoreType
  <2>2. QED BY <1>1, <1>5, <2>1 DEF OtherFetch, StoreType
<1>6. ASSUME NEW s \in Internal, OtherStore(s) PROVE StoreType' /\ WriterInv'
  <2>1. late' = [t \in Internal |-> late'[t]] BY <1>6 DEF OtherStore, StoreType
  <2>2. cached' = [t \in Internal |-> cached'[t]] BY <1>6 DEF OtherStore, StoreType
  <2>3. seen' = [t \in Internal |-> seen'[t]] BY <1>6 DEF OtherStore, StoreType
  <2>4. QED BY <1>1, <1>6, <2>1, <2>2, <2>3 DEF OtherStore, StoreType
<1>7. ASSUME NEW s \in Internal \cup Servers, Expire(s) PROVE StoreType' /\ WriterInv'
  <2>1. cached' = [t \in Internal |-> cached'[t]] BY <1>7 DEF Expire, StoreType
  <2>2. QED BY <1>1, <1>7, <2>1 DEF Expire, StoreType
<1>8. ASSUME NEW s \in Internal \cup Servers, ListingChanges(s) PROVE StoreType' /\ WriterInv'
  <2>1. listing' = [t \in Internal \cup Servers |-> listing'[t]]
    BY <1>8 DEF ListingChanges, StoreType
  <2>2. QED BY <1>1, <1>8, <2>1 DEF ListingChanges, StoreType
<1>9. ASSUME NEW n, DeleteConfig(n) PROVE StoreType' /\ WriterInv'
  <2>1. \A m \in DOMAIN config' : config'[m] \in Entry BY <1>9 DEF DeleteConfig, StoreType
  <2>2. QED BY <1>0, <1>9, <2>1 DEF DeleteConfig, catalogs, StoreType
<1>10. ASSUME NEW w \in Writers, Refused(w) PROVE StoreType' /\ WriterInv'
  <2>1. /\ UNCHANGED <<config, server, used, cached, late, seen, listing>>
        /\ writer' = [writer EXCEPT ![w] = Rest]
    BY <1>10 DEF Refused, catalogs
  <2>2. WriterInv' /\ writer' = [v \in Writers |-> writer'[v]] BY <2>1, WriterMoves DEF Rest
  <2>3. server' \in Seq(ServerType') BY <2>1, ServersStay DEF StoreType
  <2>4. QED BY <2>1, <2>2, <2>3 DEF StoreType
<1>11. CASE UNCHANGED vars BY <1>1, <1>11 DEF vars, stored, StoreType
<1>12. QED
  BY <1>2, <1>3, <1>4, <1>5, <1>6, <1>7, <1>8, <1>9, <1>10, <1>11, UpdateReadsKeeps,
     UpdateSavesKeeps, UpsertReadsKeeps, UpsertSavesKeeps, DeleteServerKeeps
  DEF Next

-----------------------------------------------------------------------------
(* The theorems.                                                            *)

\* At first there is no turn, and the stores hold what is registered.
LEMMA InitInv == Init => ScopeIInv
<1> SUFFICES ASSUME Init PROVE ScopeIInv OBVIOUS
<1>1. TurnInv
  BY DEF Init, NoTurn, TurnInv, TurnType, Points, BuildInv, Building, ReadyInv, SavedInv,
         ResumedAsSuspended
<1>2. CatalogInv BY DEF Init, CatalogInv, Internal
<1>3. WriterInv BY DEF Init, WriterInv, Rest
<1>4. server \in Seq(ServerType) BY DEF Init
<1>5. \A n \in DOMAIN config : config[n] \in Entry BY LegacyAssumption DEF Init, Entry
<1>6. StoreType BY <1>4, <1>5 DEF Init, StoreType
<1>7. QED BY <1>1, <1>2, <1>3, <1>6 DEF ScopeIInv, StoreInv

\* The invariant of the turn and of the stores.
THEOREM ScopeInvariant == Spec => []ScopeIInv
<1>1. ScopeIInv /\ [Next]_vars => ScopeIInv' BY TurnStep, StoreStep DEF ScopeIInv
<1>2. QED BY <1>1, InitInv, PTL DEF Spec

\* A tool that the model is shown can run, in a derived scope and in a recovered one, and a
\* resumed turn has the tools it was suspended with (registry.py: derive, recover_derived).
THEOREM OfferedToolsRun == Spec => []ScopeInv
<1>1. ASSUME ScopeIInv PROVE TypeOK
  <2>1. \A i \in DOMAIN server : server[i].id \in used
    <3>1. server \in Seq(ServerType) BY <1>1 DEF ScopeIInv, StoreInv, StoreType
    <3>2. \A i \in DOMAIN server : server[i] \in ServerType BY <3>1
    <3>3. QED BY <3>2 DEF ServerType
  <2>2. turn.at = "idle" <=> turn.request = Nothing
    BY <1>1, NothingAssumption DEF ScopeIInv, TurnInv, TurnType
  <2>3. QED
    BY <1>1, <2>1, <2>2
    DEF TypeOK, ScopeIInv, TurnInv, TurnType, StoreInv, StoreType, CatalogInv, Points,
      Filled, Building, Entry
<1>2. ASSUME ScopeIInv PROVE OfferedCanRun
  BY <1>2 DEF OfferedCanRun, CanRun, ScopeIInv, TurnInv, ReadyInv, Chosen, Runnable
<1>3. ScopeIInv => ScopeInv BY <1>1, <1>2 DEF ScopeInv, ScopeIInv, TurnInv
<1>4. QED BY <1>3, ScopeInvariant, PTL

-----------------------------------------------------------------------------
(* The listings that a turn was given.                                      *)

\* The tools that internal service s brought to the turn.
Brought(s) == {n \in DOMAIN turn.tools : n[1] = s}

\* A service brings its tools once, those of a listing it had since the turn began to load;
\* what the turn fell back on, or would, is such a listing.
LoadInv ==
  /\ turn.at \in Building =>
       /\ turn.wait \subseteq Internal
       /\ turn.at # "load" => turn.wait = {}
       /\ \A s \in turn.wait : Brought(s) = {}
       /\ \A s \in Internal \ turn.wait :
            \E l \in seen[s] : Brought(s) = DOMAIN RemoteTools(s, l)
  /\ turn.at = "load" =>
       /\ DOMAIN asking \subseteq turn.wait
       /\ \A s \in Internal : LastKnown(s) \in seen[s]
       /\ \A s \in DOMAIN asking :
            (IF asking[s] = Nothing THEN {} ELSE asking[s].tools) \in seen[s]

\* What a service adds has its prefix.
LEMMA RemoteFrom == ASSUME NEW s, NEW l PROVE \A n \in DOMAIN RemoteTools(s, l) : n[1] = s
<1>1. \A x : <<s, x>>[1] = s OBVIOUS
<1>2. DOMAIN RemoteTools(s, l) = {<<s, x>> : x \in l \cap DOMAIN Known(s)} BY DEF RemoteTools
<1>3. QED BY <1>1, <1>2

\* The built-in tools are of no service.
LEMMA BuiltinFrom == \A n \in DOMAIN Registered : n[1] \notin Internal
<1>1. \A x : <<"builtin", x>>[1] \notin Internal BY DEF Internal
<1>2. DOMAIN Registered = {<<"builtin", x>> : x \in DOMAIN BuiltinTools} BY DEF Registered
<1>3. QED BY <1>1, <1>2

\* A turn that begins to load has none of their tools, and has seen what is cached.
LEMMA BeginsLoadInv ==
  ASSUME StoreType, BeginsToLoad, turn'.at = "load", turn'.wait = Internal,
         turn'.tools = Registered
  PROVE  LoadInv'
<1>1. \A s \in Internal : seen'[s] = {LastKnown(s)} BY DEF BeginsToLoad
<1>2. \A s \in Internal : LastKnown(s)' = LastKnown(s) BY DEF BeginsToLoad, LastKnown
<1>3. DOMAIN asking' = {} BY DEF BeginsToLoad, Empty
<1>4. \A s \in Internal : Brought(s)' = {} BY BuiltinFrom DEF Brought
<1>5. QED BY <1>1, <1>2, <1>3, <1>4 DEF LoadInv

\* What a turn has of the services stays, when the turn keeps its tools and no listing is
\* forgotten.
LEMMA SeenKeeps ==
  ASSUME LoadInv, turn.at \in Building, turn'.at = turn.at, turn'.wait = turn.wait,
         turn'.tools = turn.tools, UNCHANGED asking,
         \A s \in Internal : seen[s] \subseteq seen'[s] /\ LastKnown(s)' \in seen'[s] \cup {LastKnown(s)}
  PROVE  LoadInv'
<1>1. \A s : Brought(s)' = Brought(s) BY DEF Brought
<1>2. QED BY <1>1 DEF LoadInv

\* Service s brings its tools.
LEMMA LoadedBrings ==
  ASSUME TurnType, LoadInv, turn.at = "load", NEW s \in turn.wait, NEW l, Loaded(s, l),
         \A t \in Internal : seen[t] \subseteq seen'[t], l \in seen'[s],
         \A t \in Internal : LastKnown(t)' \in seen'[t] \cup {LastKnown(t)},
         DOMAIN asking' \subseteq DOMAIN asking \ {s},
         \A t \in DOMAIN asking' : asking'[t] = asking[t]
  PROVE  LoadInv'
<1> DEFINE g == RemoteTools(s, l)
<1>1. turn.at \in Building /\ s \in Internal BY DEF Building, LoadInv
<1>2. /\ turn'.tools = Merge(turn.tools, g) /\ turn'.wait = turn.wait \ {s}
      /\ turn'.at = IF turn.wait = {s} THEN "servers" ELSE "load"
  BY DEF Loaded, TurnType
<1>3. \A n \in DOMAIN g : n[1] = s BY RemoteFrom
<1> HIDE DEF g
<1>4. DOMAIN turn'.tools = DOMAIN turn.tools \cup DOMAIN g BY <1>2 DEF Merge
<1>5. Brought(s)' = DOMAIN g BY <1>1, <1>3, <1>4 DEF LoadInv, Brought
<1>6. \A t \in Internal : t # s => Brought(t)' = Brought(t) BY <1>3, <1>4 DEF Brought
<1>7. \A t \in Internal \ turn'.wait : \E k \in seen'[t] : Brought(t)' = DOMAIN RemoteTools(t, k)
  <2> TAKE t \in Internal \ turn'.wait
  <2>1. CASE t = s BY <1>5, <2>1 DEF g
  <2>2. CASE t # s BY <1>1, <1>2, <1>6, <2>2 DEF LoadInv
  <2>3. QED BY <2>1, <2>2
<1>8. \A t \in turn'.wait : Brought(t)' = {} BY <1>1, <1>2, <1>6 DEF LoadInv
<1>9. turn'.wait \subseteq Internal /\ (turn'.at # "load" => turn'.wait = {})
  BY <1>1, <1>2 DEF LoadInv
<1>10. DOMAIN asking' \subseteq turn'.wait BY <1>2 DEF LoadInv
<1>11. \A t \in Internal : LastKnown(t)' \in seen'[t] BY DEF LoadInv
<1>12. \A t \in DOMAIN asking' :
         (IF asking'[t] = Nothing THEN {} ELSE asking'[t].tools) \in seen'[t]
  BY <1>1 DEF LoadInv
<1>13. QED BY <1>7, <1>8, <1>9, <1>10, <1>11, <1>12 DEF LoadInv

\* A fresh cache is believed; otherwise the service is asked, and what was cached is kept.
LEMMA ReadsKeep ==
  ASSUME TurnType, LoadInv, NEW s \in Internal, LoadReads(s) PROVE LoadInv'
<1>1. turn.at = "load" /\ s \in turn.wait \ DOMAIN asking /\ turn.at \in Building
  BY DEF LoadReads, Building
<1>2. UNCHANGED <<cached, seen>> BY DEF LoadReads
<1>3. \A t : LastKnown(t)' = LastKnown(t) BY <1>2 DEF LastKnown
<1>4. CASE Fresh(s)
  <2>1. cached[s].tools = LastKnown(s) BY <1>4 DEF Fresh, LastKnown
  <2>2. Loaded(s, cached[s].tools) /\ UNCHANGED asking BY <1>4 DEF LoadReads
  <2>3. cached[s].tools \in seen'[s] BY <1>1, <1>2, <2>1 DEF LoadInv
  <2>4. QED BY <1>1, <1>2, <1>3, <2>2, <2>3, LoadedBrings
<1>5. CASE ~Fresh(s)
  <2>1. asking' = Merge([x \in {s} |-> cached[s]], asking) /\ UNCHANGED turn
    BY <1>5 DEF LoadReads
  <2>2. DOMAIN asking' = DOMAIN asking \cup {s} BY <2>1 DEF Merge
  <2>3. asking'[s] = cached[s] BY <2>1 DEF Merge
  <2>4. \A t \in DOMAIN asking : t # s => asking'[t] = asking[t] BY <2>1 DEF Merge
  <2>5. \A t : Brought(t)' = Brought(t) BY <2>1 DEF Brought
  <2>6. \A t \in DOMAIN asking' :
          (IF asking'[t] = Nothing THEN {} ELSE asking'[t].tools) \in seen'[t]
    BY <1>1, <1>2, <2>2, <2>3, <2>4 DEF LoadInv, LastKnown
  <2>7. QED BY <1>1, <1>2, <1>3, <2>1, <2>2, <2>5, <2>6 DEF LoadInv
<1>6. QED BY <1>4, <1>5

\* The answer is what is listed now, or else what was cached when the service was asked.
LEMMA AnswersKeep ==
  ASSUME TurnType, StoreType, LoadInv, CatalogInv, NEW s \in Internal, LoadAnswers(s)
  PROVE  LoadInv'
<1>1. turn.at = "load" /\ s \in DOMAIN asking /\ s \in turn.wait
  BY DEF LoadAnswers, LoadInv
<1>2. Loaded(s, Answer(s, asking[s])) /\ DOMAIN asking' = DOMAIN asking \ {s}
  BY DEF LoadAnswers
<1>3. \A t \in DOMAIN asking' : asking'[t] = asking[t] BY DEF LoadAnswers
<1>4. CASE listing[s] = Down
  <2>1. UNCHANGED <<cached, seen>> BY <1>4 DEF LoadAnswers
  <2>2. Answer(s, asking[s]) \in seen'[s] BY <1>1, <1>4, <2>1 DEF LoadInv, Answer
  <2>3. \A t : LastKnown(t)' = LastKnown(t) BY <2>1 DEF LastKnown
  <2>4. QED BY <1>1, <1>2, <1>3, <2>1, <2>2, <2>3, LoadedBrings
<1>5. CASE listing[s] # Down
  <2>1. /\ cached' = [cached EXCEPT ![s] = [tools |-> listing[s], fresh |-> TRUE]]
        /\ seen' = [seen EXCEPT ![s] = @ \cup {listing[s]}]
    BY <1>5 DEF LoadAnswers
  <2>2. seen'[s] = seen[s] \cup {listing[s]} /\ cached'[s] = [tools |-> listing[s], fresh |-> TRUE]
    BY <2>1 DEF StoreType
  <2>3. \A t \in Internal : t # s => seen'[t] = seen[t] /\ cached'[t] = cached[t]
    BY <2>1 DEF StoreType
  <2>4. cached'[s] # Nothing BY <1>5, <2>2, FilledAssumption DEF CatalogInv
  <2>5. \A t \in Internal : LastKnown(t)' \in seen'[t] \cup {LastKnown(t)}
    BY <2>2, <2>3, <2>4 DEF LastKnown
  <2>6. Answer(s, asking[s]) \in seen'[s] BY <1>5, <2>2 DEF Answer
  <2>7. \A t \in Internal : seen[t] \subseteq seen'[t] BY <2>2, <2>3
  <2>8. QED BY <1>1, <1>2, <1>3, <2>5, <2>6, <2>7, LoadedBrings
<1>6. QED BY <1>4, <1>5

\* A listing that another turn stores is one the service had.
LEMMA StoreSeen ==
  ASSUME StoreType, LoadInv, CatalogInv, NEW s \in Internal, OtherStore(s) PROVE LoadInv'
<1>1. PICK a \in late[s] : /\ cached' = [cached EXCEPT ![s] = [tools |-> a, fresh |-> TRUE]]
                           /\ seen' = [seen EXCEPT ![s] = @ \cup {a}]
  BY DEF OtherStore
<1>2. seen'[s] = seen[s] \cup {a} /\ cached'[s] = [tools |-> a, fresh |-> TRUE]
  BY <1>1 DEF StoreType
<1>3. \A t \in Internal : t # s => seen'[t] = seen[t] /\ cached'[t] = cached[t]
  BY <1>1 DEF StoreType
<1>4. cached'[s] # Nothing BY <1>2, FilledAssumption DEF CatalogInv
<1>5. \A t \in Internal : LastKnown(t)' \in seen'[t] \cup {LastKnown(t)}
  BY <1>2, <1>3, <1>4 DEF LastKnown
<1>6. \A t \in Internal : seen[t] \subseteq seen'[t] BY <1>2, <1>3
<1>7. UNCHANGED <<turn, asking>> BY DEF OtherStore
<1>8. CASE turn.at \in Building BY <1>5, <1>6, <1>7, <1>8, SeenKeeps
<1>9. CASE turn.at \notin Building BY <1>7, <1>9 DEF LoadInv, Building
<1>10. QED BY <1>8, <1>9

\* A catalog that expires is known as before.
LEMMA ExpireSeen ==
  ASSUME StoreType, LoadInv, CatalogInv, NEW s \in Internal \cup Servers, Expire(s)
  PROVE  LoadInv'
<1>1. UNCHANGED <<turn, asking, seen>> BY DEF Expire
<1>2. \A t \in Internal : LastKnown(t)' = LastKnown(t)
  <2>1. CASE s \in Internal
    <3>1. cached' = [cached EXCEPT ![s].fresh = FALSE] /\ cached[s] # Nothing
      BY <2>1 DEF Expire, Fresh
    <3>2. \A t \in Internal : t # s => cached'[t] = cached[t] BY <3>1 DEF StoreType
    <3>3. cached'[s] = [cached[s] EXCEPT !.fresh = FALSE] BY <2>1, <3>1 DEF StoreType
    <3>4. cached'[s] = [tools |-> cached[s].tools, fresh |-> FALSE]
      BY <2>1, <3>1, <3>3 DEF CatalogInv, Filled
    <3>5. cached[s].tools \in SUBSET DOMAIN Known(s) BY <2>1, <3>1 DEF CatalogInv, Filled
    <3>6. cached'[s] # Nothing BY <2>1, <3>4, <3>5, FilledAssumption
    <3>7. QED BY <3>1, <3>2, <3>4, <3>6 DEF LastKnown
  <2>2. CASE s \notin Internal BY <2>2 DEF Expire, LastKnown
  <2>3. QED BY <2>1, <2>2
<1>3. CASE turn.at \in Building BY <1>1, <1>2, <1>3, SeenKeeps
<1>4. CASE turn.at \notin Building BY <1>1, <1>4 DEF LoadInv, Building
<1>5. QED BY <1>3, <1>4

\* Every step keeps what a turn has of the services.
LEMMA LoadStep == ScopeIInv /\ LoadInv /\ [Next]_vars => LoadInv'
<1> SUFFICES ASSUME ScopeIInv, LoadInv, [Next]_vars PROVE LoadInv' OBVIOUS
<1> USE DEF ScopeIInv, TurnInv, StoreInv
<1>0. ASSUME UNCHANGED <<turn, cached, asking, seen>> PROVE LoadInv'
  BY <1>0 DEF LoadInv, Brought, LastKnown
<1>1. CASE \E r \in Requests : Begin(r) BY <1>1, BeginsLoadInv DEF Begin, NoTurn
<1>2. CASE Resume BY <1>2, BeginsLoadInv DEF Resume, NoTurn
<1>3. CASE Suspend \/ End
  <2>1. CASE Suspend
    <3>1. PICK x : turn' = [turn EXCEPT !.at = "suspended", !.tools = Empty, !.saved = x]
      BY <2>1 DEF Suspend
    <3>2. turn'.at = "suspended" BY <3>1 DEF TurnType
    <3>3. QED BY <3>2 DEF LoadInv, Building
  <2>2. CASE End
    <3>1. turn'.at \in {"idle", "suspended"} BY <2>2 DEF End, NoTurn, TurnType
    <3>2. QED BY <3>1 DEF LoadInv, Building
  <2>3. QED BY <1>3, <2>1, <2>2
<1>4. CASE Derive \/ Recover
  <2>1. \/ turn' = [turn EXCEPT !.at = "failed", !.tools = Empty, !.user = Empty]
        \/ \E t, k : turn' = [turn EXCEPT !.at = "ready", !.user = Empty, !.tools = t, !.keys = k]
        \/ \E t, k : turn' = [turn EXCEPT !.at = "ready", !.user = Empty, !.keys = k, !.tools = t]
    BY <1>4, Zenon DEF Derive, Recover, Fails
  <2>2. turn'.at \in {"failed", "ready"} BY <2>1 DEF TurnType
  <2>3. QED BY <2>2 DEF LoadInv, Building
<1>5. CASE ListServers \/ Discover
  <2>1. turn'.at = "discover" /\ turn'.wait = turn.wait /\ turn'.tools = turn.tools
    BY <1>5 DEF ListServers, Discover, TurnType
  <2>2. turn.at \in {"servers", "discover"} BY <1>5 DEF ListServers, Discover
  <2>3. UNCHANGED seen BY <1>5 DEF ListServers, Discover, catalogs
  <2>4. \A s : Brought(s)' = Brought(s) BY <2>1 DEF Brought
  <2>5. QED BY <2>1, <2>2, <2>3, <2>4 DEF LoadInv, Building
<1>6. CASE \E s \in Internal : LoadReads(s) \/ LoadAnswers(s) BY <1>6, ReadsKeep, AnswersKeep
<1>7. CASE \E s \in Internal : OtherFetch(s) \/ OtherStore(s)
  BY <1>0, <1>7, StoreSeen DEF OtherFetch
<1>8. CASE \E s \in Internal \cup Servers : Expire(s) \/ ListingChanges(s)
  BY <1>0, <1>8, ExpireSeen DEF ListingChanges
<1>9. CASE \E n \in {<<"system", x>> : x \in DOMAIN SystemTools} :
             DeleteConfig(n) \/ \E w \in Writers : UpdateReads(w, n)
  BY <1>0, <1>9 DEF DeleteConfig, UpdateReads, catalogs
<1>10. CASE \/ \E w \in Writers : UpdateSaves(w) \/ UpsertSaves(w) \/ Refused(w)
            \/ \E w \in Writers, id \in Servers : UpsertReads(w, id)
            \/ \E i \in DOMAIN server : DeleteServer(i)
  BY <1>0, <1>10 DEF UpdateSaves, UpsertSaves, Refused, UpsertReads, DeleteServer, catalogs
<1>11. CASE UNCHANGED vars BY <1>0, <1>11 DEF vars
<1>12. QED
  BY <1>1, <1>2, <1>3, <1>4, <1>5, <1>6, <1>7, <1>8, <1>9, <1>10, <1>11 DEF Next

\* A turn has, of every internal service, one of its listings, none older than what was cached
\* when the turn began to load, though the service fails and other turns refresh the catalog
\* in the meantime (system_mcp_tool_catalog.py: _load_tools).
THEOREM OutageIsSurvived == Spec => []OutageKeepsTools
<1>1. Init => LoadInv BY DEF Init, NoTurn, LoadInv, Building
<1>2. ScopeIInv /\ LoadInv /\ [Next]_vars => (ScopeIInv /\ LoadInv)'
  BY LoadStep, TurnStep, StoreStep DEF ScopeIInv
<1>3. LoadInv => OutageKeepsTools
  <2> SUFFICES ASSUME LoadInv, turn.at \in {"servers", "discover"}, NEW s \in Internal
      PROVE  \E l \in seen[s] : Brought(s) = DOMAIN RemoteTools(s, l)
    BY DEF OutageKeepsTools, Brought
  <2>1. turn.at \in Building /\ turn.at # "load" BY DEF Building
  <2>2. QED BY <2>1 DEF LoadInv
<1>4. QED BY <1>1, <1>2, <1>3, InitInv, PTL DEF Spec

=============================================================================
