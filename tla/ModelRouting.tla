----------------------------- MODULE ModelRouting -----------------------------
(***************************************************************************)
(* Models, the providers that serve them, and the mappings between the two: *)
(* which provider, with whose key, answers a turn of a user.                *)
(*                                                                          *)
(* Calls of users run side by side.  A call reads documents and writes      *)
(* whole documents back later (Document.save sets every field and inserts   *)
(* what is gone), so a step is a run of reads or one write.  Indexes of     *)
(* MongoDB are checked at each write.  Names, ratios and capabilities are   *)
(* left out; a provider keeps the tokens that were used with its key.       *)
(***************************************************************************)
EXTENDS Naturals, FiniteSets

CONSTANTS
  Users,      \* users
  System,     \* owner_user_id None: what the platform provides
  Models,     \* ids of models
  Providers,  \* ids of providers
  Catalogs,   \* what may be stored at first: [model, provider, mappings]
  Callers,    \* calls that run at once
  MaxCalls,   \* bound on the calls of a behaviour
  Workloads   \* the calls of a behaviour, one set of them drawn (see Calls)

Calls == {"bind", "unbind", "delete_model", "update_model", "remove_provider",
          "update_provider", "create", "chat"}

Owners == Users \cup {System}

MappingType ==
  [model : Models, provider : Providers, owner : Owners, preferred : BOOLEAN, active : BOOLEAN, born : Nat]
ModelDoc == [owner : Owners, active : BOOLEAN]
Unspent  == [owner : Owners, active : BOOLEAN, used : {0}]

\* What may be stored at first: mappings join what is there and may be joined, one at most
\* is preferred, and nothing was spent yet.
Consistent(c) ==
  /\ c.model \in UNION {[M -> ModelDoc] : M \in SUBSET Models}
  /\ c.provider \in UNION {[P -> Unspent] : P \in SUBSET Providers}
  /\ c.mappings \subseteq MappingType
  /\ \A x \in c.mappings :
       /\ x.owner # System =>
            /\ x.model \in DOMAIN c.model /\ c.model[x.model].owner \in {x.owner, System}
            /\ x.provider \in DOMAIN c.provider /\ c.provider[x.provider].owner = x.owner
       /\ \A y \in c.mappings :
            /\ x.model = y.model /\ x.provider = y.provider /\ x.owner = y.owner => x = y
            /\ x.preferred /\ y.preferred /\ x.active /\ y.active /\ x.model = y.model
                 /\ x.owner = y.owner => x = y

\* What the parameters must be; the run's module assumes it.
RoutingParameters ==
  /\ System \notin Users /\ MaxCalls \in Nat /\ Workloads \subseteq SUBSET Calls
  /\ \A c \in Catalogs : Consistent(c)

VARIABLES
  model,     \* id -> [owner, active]
  provider,  \* id -> [owner, active, used]
  mappings,  \* set of [model, provider, owner, preferred, active, born]
  spent,     \* provider -> tokens used with its key in all
  call,      \* caller -> [at, user, ...]
  calls,     \* calls so far; also the time
  overlapped,\* did calls run side by side so far?
  workload   \* the kinds of calls in this behaviour

routingVars == <<model, provider, mappings, spent, call, calls, overlapped, workload>>
documents == <<model, provider, mappings, spent>>

Idle == [at |-> "idle"]

-----------------------------------------------------------------------------
(* What the queries answer                                                  *)

\* _find_accessible_model: the user's own, or one of the platform.
Accessible(u, m, active) ==
  m \in DOMAIN model /\ model[m].owner \in {u, System} /\ (active => model[m].active)

Owned(f, id, u) == id \in DOMAIN f /\ f[id].owner = u

OfModel(m, u) == {x \in mappings : x.model = m /\ x.owner = u}
Key(x) == <<x.model, x.provider, x.owner>>

\* -is_preferred, +priority, +created_at (every mapping has priority 0).
First(set) ==
  CHOOSE x \in set : \A y \in set :
    (x.preferred /\ ~y.preferred) \/ (x.preferred = y.preferred /\ x.born <= y.born)

\* The unique indexes: one mapping (born tells them apart) of a model, provider and
\* owner, and one active preferred mapping of a model and owner.
Unique(x) == \A y \in mappings :
  IF Key(y) = Key(x) THEN y.born = x.born ELSE
    ~(y.model = x.model /\ y.owner = x.owner /\ y.preferred /\ y.active /\ x.preferred /\ x.active)

\* Document.save.
Saved(x) == {y \in mappings : Key(y) # Key(x)} \cup {x}

Put(f, id, v) == [i \in DOMAIN f \cup {id} |-> IF i = id THEN v ELSE f[i]]
Without(f, id) == [i \in DOMAIN f \ {id} |-> f[i]]

-----------------------------------------------------------------------------
RoutingInit ==
  /\ \E c \in Catalogs : model = c.model /\ provider = c.provider /\ mappings = c.mappings
  /\ spent = [p \in Providers |-> 0]
  /\ call = [c \in Callers |-> Idle]
  /\ calls = 0 /\ overlapped = FALSE /\ workload \in Workloads

\* Caller c begins a call of a kind; calls of one behaviour are bounded.
Begins(c, kind) ==
  /\ call[c] = Idle /\ kind \in workload /\ calls < MaxCalls
  /\ overlapped' = (overlapped \/ \E d \in Callers \ {c} : call[d] # Idle)
  /\ calls' = calls + 1 /\ UNCHANGED workload

Goes(c, r) == call' = [call EXCEPT ![c] = r]
On == UNCHANGED <<calls, overlapped, workload>>

CreateModel(c, u) ==
  /\ Begins(c, "create")
  /\ \E m \in Models \ DOMAIN model : model' = Put(model, m, [owner |-> u, active |-> TRUE])
  /\ UNCHANGED <<provider, mappings, spent, call>>

\* A new provider, of which nothing was used yet: an id may come again here.
CreateProvider(c, u) ==
  /\ Begins(c, "create")
  /\ \E p \in Providers \ DOMAIN provider, a \in BOOLEAN :
       /\ provider' = Put(provider, p, [owner |-> u, active |-> a, used |-> 0])
       /\ spent' = [spent EXCEPT ![p] = 0]
  /\ UNCHANGED <<model, mappings, call>>

\* bind_model_to_provider: model, provider and mapping are read, the preferred mapping
\* loses its place, and the mapping is inserted or saved.
BindReads(c, u, m, p) ==
  /\ Begins(c, "bind")
  /\ Accessible(u, m, FALSE) /\ Owned(provider, p, u)
  /\ \E preferred, active \in BOOLEAN :
       LET old == {x \in OfModel(m, u) : x.provider = p}
           x == [model |-> m, provider |-> p, owner |-> u, preferred |-> preferred /\ active, active |-> active,
                 born |-> IF old = {} THEN calls + 1 ELSE (CHOOSE y \in old : TRUE).born]
           clear == IF x.preferred /\ \A y \in old : ~y.preferred
                      THEN {y \in OfModel(m, u) : y.preferred} ELSE {}
       IN  Goes(c, [at |-> "bind", clear |-> clear, x |-> x])
  /\ UNCHANGED documents

\* _clear_preferred_mappings saves one of the mappings it read.
BindClears(c) ==
  /\ call[c].at = "bind" /\ call[c].clear # {}
  /\ \E y \in call[c].clear :
       LET x == [y EXCEPT !.preferred = FALSE]
       IN  IF Unique(x) THEN mappings' = Saved(x) /\ Goes(c, [call[c] EXCEPT !.clear = @ \ {y}])
                        ELSE Goes(c, Idle) /\ UNCHANGED mappings
  /\ On /\ UNCHANGED <<model, provider, spent>>

\* insert or save; a duplicate key ends the call with an error.
BindSaves(c) ==
  /\ call[c].at = "bind" /\ call[c].clear = {}
  /\ mappings' = IF Unique(call[c].x) THEN Saved(call[c].x) ELSE mappings
  /\ Goes(c, Idle)
  /\ On /\ UNCHANGED <<model, provider, spent>>

\* unbind_model_from_provider: the mapping is deleted, then the next one promoted.
Unbind(c, u, m, p) ==
  /\ Begins(c, "unbind")
  /\ Accessible(u, m, FALSE)
  /\ \E x \in OfModel(m, u) :
       /\ x.provider = p
       /\ mappings' = mappings \ {x}
       /\ Goes(c, IF x.preferred THEN [at |-> "promote", user |-> u, model |-> m] ELSE Idle)
  /\ UNCHANGED <<model, provider, spent>>

PromoteReads(c) ==
  /\ call[c].at = "promote"
  /\ LET active == {x \in OfModel(call[c].model, call[c].user) : x.active}
         oldest == CHOOSE x \in active : \A y \in active : x.born <= y.born
     IN  Goes(c, IF active = {} THEN Idle ELSE [at |-> "promoted", x |-> oldest])
  /\ On /\ UNCHANGED documents

PromoteSaves(c) ==
  /\ call[c].at = "promoted"
  /\ LET x == [call[c].x EXCEPT !.preferred = TRUE]
     IN  mappings' = IF Unique(x) THEN Saved(x) ELSE mappings
  /\ Goes(c, Idle)
  /\ On /\ UNCHANGED <<model, provider, spent>>

\* delete_model: the mappings it read one by one, then the model.
DeleteReads(c, u, m) ==
  /\ Begins(c, "delete_model") /\ Owned(model, m, u)
  /\ Goes(c, [at |-> "delete", model |-> m, clear |-> OfModel(m, u)])
  /\ UNCHANGED documents

\* Mutant: the mappings of the model are left alone.
deletes_model_only(c) ==
  /\ call[c].at = "delete" /\ Goes(c, Idle)
  /\ model' = Without(model, call[c].model) /\ UNCHANGED mappings
  /\ On /\ UNCHANGED <<provider, spent>>

Deletes(c) ==
  /\ call[c].at = "delete"
  /\ IF call[c].clear = {}
       THEN model' = Without(model, call[c].model) /\ Goes(c, Idle) /\ UNCHANGED mappings
       ELSE \E y \in call[c].clear :
              /\ mappings' = {x \in mappings : Key(x) # Key(y)}
              /\ Goes(c, [call[c] EXCEPT !.clear = @ \ {y}]) /\ UNCHANGED model
  /\ On /\ UNCHANGED <<provider, spent>>

\* remove_provider: refused while mappings use the provider.
RemoveReads(c, u, p) ==
  /\ Begins(c, "remove_provider") /\ Owned(provider, p, u)
  /\ \A x \in mappings : ~(x.provider = p /\ x.owner = u)
  /\ Goes(c, [at |-> "remove", provider |-> p])
  /\ UNCHANGED documents

Removes(c) ==
  /\ call[c].at = "remove"
  /\ provider' = Without(provider, call[c].provider) /\ Goes(c, Idle)
  /\ On /\ UNCHANGED <<model, mappings, spent>>

\* update_model and update_provider: read, then every field saved.
UpdateModelReads(c, u) ==
  /\ Begins(c, "update_model")
  /\ \E m \in Models, a \in BOOLEAN :
       Owned(model, m, u) /\ Goes(c, [at |-> "model", id |-> m, doc |-> [model[m] EXCEPT !.active = a]])
  /\ UNCHANGED documents

UpdateModelSaves(c) ==
  /\ call[c].at = "model" /\ Goes(c, Idle)
  /\ model' = Put(model, call[c].id, call[c].doc)
  /\ On /\ UNCHANGED <<provider, mappings, spent>>

UpdateProviderReads(c, u) ==
  /\ Begins(c, "update_provider")
  /\ \E p \in Providers, a \in BOOLEAN :
       Owned(provider, p, u) /\ Goes(c, [at |-> "provider", id |-> p, doc |-> [provider[p] EXCEPT !.active = a]])
  /\ UNCHANGED documents

UpdateProviderSaves(c) ==
  /\ call[c].at = "provider" /\ Goes(c, Idle)
  /\ provider' = Put(provider, call[c].id, call[c].doc)
  /\ On /\ UNCHANGED <<model, mappings, spent>>

-----------------------------------------------------------------------------
(* A turn: resolve_model_for_chat, then increment_usage                     *)

\* The mappings to the provider the user named: his own or the platform's, if the one
\* the query finds is.
Named(u, m, p) ==
  LET found == {x \in mappings : x.model = m /\ x.active /\ x.provider = p}
  IN  {x \in found : x.owner \in {u, System}}

\* The best of the user's own mappings; for a model of the platform else the platform's.
Best(u, m) ==
  LET own == {x \in OfModel(m, u) : x.active}
      common == IF model[m].owner = System THEN {x \in OfModel(m, System) : x.active} ELSE {}
  IN  IF own # {} THEN {First(own)} ELSE IF common # {} THEN {First(common)} ELSE {}

Resolve(c, u, m) ==
  /\ Begins(c, "chat") /\ Accessible(u, m, TRUE)
  /\ \/ \E x \in Best(u, m) : Goes(c, [at |-> "mapped", user |-> u, x |-> x])
     \/ \E p \in Providers : \E x \in Named(u, m, p) : Goes(c, [at |-> "mapped", user |-> u, x |-> x])
  /\ UNCHANGED documents

\* The provider must be active and of the owner of the mapping; else the turn fails.
ResolveProvider(c) ==
  /\ call[c].at = "mapped"
  /\ LET p == call[c].x.provider
     IN  Goes(c, IF Owned(provider, p, call[c].x.owner) /\ provider[p].active
                   THEN [at |-> "chat", user |-> call[c].user, x |-> call[c].x, owner |-> provider[p].owner]
                   ELSE Idle)
  /\ On /\ UNCHANGED documents

\* increment_usage, one $inc; a provider that is gone counts nothing.
Usage(c) ==
  /\ call[c].at = "chat"
  /\ LET p == call[c].x.provider
     IN  IF Owned(provider, p, call[c].x.owner)
           THEN /\ provider' = [provider EXCEPT ![p].used = @ + 1]
                /\ spent' = [spent EXCEPT ![p] = @ + 1]
           ELSE UNCHANGED <<provider, spent>>
  /\ Goes(c, Idle)
  /\ On /\ UNCHANGED <<model, mappings>>

RoutingNext == \E c \in Callers :
  \/ \E u \in Users : CreateModel(c, u) \/ CreateProvider(c, u) \/ UpdateModelReads(c, u) \/ UpdateProviderReads(c, u)
  \/ \E u \in Users, m \in Models : DeleteReads(c, u, m) \/ Resolve(c, u, m)
  \/ \E u \in Users, p \in Providers : RemoveReads(c, u, p)
  \/ \E u \in Users, m \in Models, p \in Providers : BindReads(c, u, m, p) \/ Unbind(c, u, m, p)
  \/ BindClears(c) \/ BindSaves(c) \/ PromoteReads(c) \/ PromoteSaves(c)
  \/ Deletes(c) \/ Removes(c) \/ UpdateModelSaves(c) \/ UpdateProviderSaves(c) \/ ResolveProvider(c) \/ Usage(c)

RoutingSpec == RoutingInit /\ [][RoutingNext]_routingVars

-----------------------------------------------------------------------------
\* A turn uses a key of its user or of the platform, through a mapping of the same owner:
\* nobody's key pays for another user, whatever is bound, named or deleted meanwhile.
ResolvedIsOwn == \A c \in Callers : call[c].at = "chat" =>
  call[c].owner = call[c].x.owner /\ call[c].owner \in {call[c].user, System}

\* However calls overlap, a model has one active preferred mapping per owner at most, so
\* that a turn without a named provider has one answer.
OnePreferred == \A x, y \in mappings :
  x.preferred /\ y.preferred /\ x.active /\ y.active /\ x.model = y.model /\ x.owner = y.owner => x = y

Orphan(x) == x.owner # System /\ ~(x.model \in DOMAIN model /\ x.provider \in DOMAIN provider)

\* Deleting a model or a provider leaves no mapping behind, unless calls overlap: the
\* mapping of a model that is gone can neither be unbound nor its provider be removed.
NoOrphans == ~overlapped /\ (\A c \in Callers : call[c] = Idle) => \A x \in mappings : ~Orphan(x)

\* updateUserProvider leaves alone what the request does not name (api/endpoints/model.py:219),
\* the tokens used with the provider's key among it, unless calls overlap: the document
\* it read before a turn ended is saved whole after it.
UsageKept == ~overlapped => \A p \in DOMAIN provider : provider[p].used = spent[p]

\* Nobody's key pays for another user, a turn without a named provider has one answer, and
\* calls that do not overlap leave no orphans and lose no usage.
KeysAreOwn == ResolvedIsOwn /\ OnePreferred /\ NoOrphans /\ UsageKept
=============================================================================
