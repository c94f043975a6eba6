----------------------------- MODULE RoutingProofs -----------------------------
(***************************************************************************)
(* Where a turn goes, for every number of users, models, providers, calls   *)
(* and instances: whose key answers it (ModelRouting's KeysAreOwn), which   *)
(* instance its RPCs reach (RpcRouting's RoutesKept), and what the provider *)
(* that is asked streams back (LlmStreams' StepInv).                        *)
(***************************************************************************)
EXTENDS ModelRouting, RpcRouting, LlmStreams, WellFoundedInduction, TLAPS

-----------------------------------------------------------------------------
(* The inductive invariant                                                  *)

ProviderDoc == [owner : Owners, active : BOOLEAN, used : Nat]

\* The documents.
StoredType ==
  /\ model = [m \in DOMAIN model |-> model[m]] /\ DOMAIN model \subseteq Models
  /\ \A m \in DOMAIN model : model[m] \in ModelDoc
  /\ provider = [p \in DOMAIN provider |-> provider[p]] /\ DOMAIN provider \subseteq Providers
  /\ \A p \in DOMAIN provider : provider[p] \in ProviderDoc
  /\ mappings \subseteq MappingType
  /\ spent \in [Providers -> Nat] /\ calls \in Nat

\* What a call has read, wherever it is.  A turn's mapping is its user's or the platform's.
HeldBy(r) ==
  /\ r.at = "bind" =>
       /\ r = [at |-> "bind", clear |-> r.clear, x |-> r.x]
       /\ r.x \in MappingType /\ r.clear \subseteq MappingType
  /\ r.at = "delete" => r = [at |-> "delete", model |-> r.model, clear |-> r.clear]
  /\ r.at = "promoted" => r.x \in MappingType
  /\ r.at = "model" => r.id \in Models /\ r.doc \in ModelDoc
  /\ r.at = "provider" => r.id \in Providers /\ r.doc \in ProviderDoc
  /\ r.at \in {"mapped", "chat"} => r.x.owner \in {r.user, System}
  /\ r.at = "chat" => r.owner = r.x.owner

TypeInv ==
  /\ StoredType
  /\ call = [c \in Callers |-> call[c]]
  /\ \A c \in Callers : HeldBy(call[c])

\* The mapping of a user joins a model that he may use and a provider of his.
Joined(x) == x.owner # System =>
  /\ x.model \in DOMAIN model /\ model[x.model].owner \in {x.owner, System}
  /\ Owned(provider, x.provider, x.owner)

AllJoined == \A x \in mappings : Joined(x)

Agrees(p) == provider[p].used = spent[p]

OneBusy == \A c, d \in Callers : call[c] # Idle /\ call[d] # Idle => c = d

\* What a call has read is still so.
Current(r) ==
  /\ r.at = "bind" => Joined(r.x) /\ \A y \in r.clear : Joined(y)
  /\ r.at = "promoted" => Joined(r.x)
  /\ r.at = "delete" => \A x \in mappings : x.model = r.model /\ x.owner # System => x \in r.clear
  /\ r.at = "remove" => \A x \in mappings : x.provider = r.provider => x.owner = System
  /\ r.at = "model" => r.id \in DOMAIN model /\ r.doc.owner = model[r.id].owner
  /\ r.at = "provider" =>
       r.id \in DOMAIN provider /\ r.doc.owner = provider[r.id].owner /\ r.doc.used = spent[r.id]

SerialInv == ~overlapped =>
  /\ OneBusy /\ AllJoined
  /\ \A p \in DOMAIN provider : Agrees(p)
  /\ \A c \in Callers : Current(call[c])

RoutingInv == TypeInv /\ OnePreferred /\ SerialInv


-----------------------------------------------------------------------------
(* The queries                                                              *)

\* Among some mappings one is the oldest.
LEMMA Oldest ==
  ASSUME NEW set \in SUBSET MappingType, set # {}
  PROVE  \E x \in set : \A y \in set : x.born <= y.born
<1> DEFINE R == OpToRel(<, Nat)
           T == {x.born : x \in set}
<1>1. T \subseteq Nat /\ T # {} BY DEF MappingType
<1>2. IsWellFoundedOn(R, Nat) BY NatLessThanWellFounded
<1> HIDE DEF R, T
<1>3. PICK n \in T : \A k \in T : ~(<<k, n>> \in R) BY <1>1, <1>2, WFMin, Zenon
<1>4. \A k \in T : n <= k
  <2> SUFFICES ASSUME NEW k \in T PROVE n <= k OBVIOUS
  <2>1. k \in Nat /\ n \in Nat BY <1>1, <1>3
  <2>2. ~(k < n)
    <3> SUFFICES ASSUME k < n PROVE FALSE OBVIOUS
    <3>1. <<k, n>> \in R BY <2>1 DEF R, OpToRel
    <3>2. QED BY <1>3, <3>1
  <2>3. QED BY <2>1, <2>2
<1>5. PICK x \in set : x.born = n BY <1>3 DEF T
<1>6. \A y \in set : y.born \in T BY DEF T
<1>7. QED BY <1>4, <1>5, <1>6

\* The query answers with one of them.
LEMMA FirstIn ==
  ASSUME NEW set \in SUBSET MappingType, set # {}
  PROVE  First(set) \in set
<1> DEFINE P(x) == \A y \in set :
             (x.preferred /\ ~y.preferred) \/ (x.preferred = y.preferred /\ x.born <= y.born)
<1>1. \E x \in set : P(x)
  <2> DEFINE some == {x \in set : x.preferred}
  <2>1. CASE some # {}
    <3>1. PICK x \in some : \A y \in some : x.born <= y.born BY <2>1, Oldest
    <3>2. \A y \in set : y.preferred \in BOOLEAN BY DEF MappingType
    <3>3. P(x) BY <3>1, <3>2
    <3>4. QED BY <3>1, <3>3
  <2>2. CASE some = {}
    <3>1. PICK x \in set : \A y \in set : x.born <= y.born BY Oldest
    <3>2. \A y \in set : y.preferred = FALSE BY <2>2 DEF MappingType
    <3>3. P(x) BY <3>1, <3>2
    <3>4. QED BY <3>3
  <2>3. QED BY <2>1, <2>2
<1>2. First(set) = CHOOSE x \in set : P(x) BY DEF First
<1> HIDE DEF P
<1>3. QED BY <1>1, <1>2

\* A turn goes through a mapping of its user or of the platform.
LEMMA BestOwned ==
  ASSUME StoredType, NEW u, NEW m, NEW x \in Best(u, m)
  PROVE  x.owner \in {u, System}
<1> DEFINE own == {y \in OfModel(m, u) : y.active}
           common == IF model[m].owner = System THEN {y \in OfModel(m, System) : y.active} ELSE {}
<1>1. own \in SUBSET MappingType /\ common \in SUBSET MappingType BY DEF StoredType, OfModel
<1>2. \A y \in own : y.owner = u BY DEF OfModel
<1>3. \A y \in common : y.owner = System BY DEF OfModel
<1>4. x \in (IF own # {} THEN {First(own)} ELSE IF common # {} THEN {First(common)} ELSE {})
  BY DEF Best
<1> HIDE DEF own, common
<1>5. own # {} => First(own) \in own BY <1>1, FirstIn
<1>6. common # {} => First(common) \in common BY <1>1, FirstIn
<1>7. QED BY <1>2, <1>3, <1>4, <1>5, <1>6

-----------------------------------------------------------------------------
(* The documents and the calls                                              *)

\* A call goes on, the others stay.
LEMMA CallGoes ==
  ASSUME call = [d \in Callers |-> call[d]], NEW c \in Callers, NEW r, Goes(c, r)
  PROVE  /\ call' = [d \in Callers |-> call'[d]]
         /\ call'[c] = r /\ \A d \in Callers : d # c => call'[d] = call[d]
BY DEF Goes

\* What it holds then is typed when what it holds next is.
LEMMA HoldsOn ==
  ASSUME TypeInv, NEW c \in Callers, NEW r, Goes(c, r), HeldBy(r)
  PROVE  call' = [d \in Callers |-> call'[d]] /\ \A d \in Callers : HeldBy(call'[d])
BY CallGoes DEF TypeInv

\* A call that has ended holds nothing.
LEMMA RestHolds == HeldBy(Idle) /\ Current(Idle) /\ Current(Idle)'
BY DEF HeldBy, Current, Idle

\* A document that is saved is one of the documents.
LEMMA ModelSaved ==
  ASSUME StoredType, NEW m \in Models, NEW v \in ModelDoc, model' = Put(model, m, v),
         UNCHANGED <<provider, mappings, spent>>, calls' \in Nat
  PROVE  /\ StoredType'
         /\ model'[m] = v /\ DOMAIN model' = DOMAIN model \cup {m}
         /\ \A i \in DOMAIN model : i # m => model'[i] = model[i]
BY DEF StoredType, Put

\* A model that is deleted is gone, the others stay.
LEMMA ModelDeleted ==
  ASSUME StoredType, NEW m, model' = Without(model, m),
         UNCHANGED <<provider, mappings, spent>>, calls' \in Nat
  PROVE  /\ StoredType'
         /\ DOMAIN model' = DOMAIN model \ {m}
         /\ \A i \in DOMAIN model' : model'[i] = model[i]
BY DEF StoredType, Without

\* The same of a provider, with what was used with its key.
LEMMA ProviderSaved ==
  ASSUME StoredType, NEW p \in Providers, NEW v \in ProviderDoc, provider' = Put(provider, p, v),
         UNCHANGED <<model, mappings>>, calls' \in Nat, spent' \in [Providers -> Nat]
  PROVE  /\ StoredType'
         /\ provider'[p] = v /\ DOMAIN provider' = DOMAIN provider \cup {p}
         /\ \A i \in DOMAIN provider : i # p => provider'[i] = provider[i]
BY DEF StoredType, Put

\* A provider that is deleted is gone.
LEMMA ProviderDeleted ==
  ASSUME StoredType, NEW p, provider' = Without(provider, p),
         UNCHANGED <<model, mappings, spent>>, calls' \in Nat
  PROVE  /\ StoredType'
         /\ DOMAIN provider' = DOMAIN provider \ {p}
         /\ \A i \in DOMAIN provider' : provider'[i] = provider[i]
BY DEF StoredType, Without

\* A mapping that is saved or changed in one field is a mapping.
LEMMA MappingChanged ==
  ASSUME NEW y \in MappingType, NEW b \in BOOLEAN
  PROVE  LET x == [y EXCEPT !.preferred = b]
         IN  x \in MappingType /\ Key(x) = Key(y) /\ x.born = y.born /\ x.active = y.active
             /\ (Joined(y) => Joined(x))
BY DEF MappingType, Key, Joined

\* The mappings are those that were stored, and the one that is saved.
LEMMA MappingsSaved ==
  ASSUME StoredType, NEW x \in MappingType, mappings' \in {mappings, Saved(x)},
         UNCHANGED <<model, provider, spent>>, calls' \in Nat
  PROVE  StoredType' /\ mappings' \subseteq mappings \cup {x}
BY DEF StoredType, Saved

-----------------------------------------------------------------------------
(* What a step of a call needs to keep the invariant                        *)

\* A call begins, or goes on.
Acts(c) == (\E kind \in Calls : Begins(c, kind)) \/ (On /\ call[c] # Idle)

\* The calls are counted.
LEMMA Counted == ASSUME TypeInv, NEW c, Acts(c) PROVE calls' \in Nat
BY DEF TypeInv, StoredType, Acts, Begins, On

\* While calls do not overlap, the one that acts is the only one.
LEMMA Alone ==
  ASSUME SerialInv, NEW c \in Callers, Acts(c), ~overlapped'
  PROVE  ~overlapped /\ \A d \in Callers : d # c => call[d] = Idle
<1>1. CASE \E kind \in Calls : Begins(c, kind) BY <1>1, Zenon DEF Begins
<1>2. CASE On /\ call[c] # Idle
  <2>1. ~overlapped BY <1>2, Zenon DEF On
  <2>2. OneBusy BY <2>1, Zenon DEF SerialInv
  <2>3. QED BY <1>2, <2>1, <2>2, Zenon DEF OneBusy
<1>3. QED BY <1>1, <1>2 DEF Acts

\* A step that writes keeps the invariant when it keeps the documents in order.
LEMMA WritesKeep ==
  ASSUME RoutingInv, NEW c \in Callers, Acts(c), NEW r, Goes(c, r), HeldBy(r),
         StoredType', OnePreferred',
         ~overlapped => AllJoined' /\ (\A p \in DOMAIN provider' : Agrees(p)') /\ Current(r)'
  PROVE  RoutingInv'
<1>1. TypeInv' BY HoldsOn DEF RoutingInv, TypeInv
<1>2. SerialInv'
  <2> SUFFICES ASSUME ~overlapped'
      PROVE  OneBusy' /\ AllJoined' /\ (\A p \in DOMAIN provider' : Agrees(p)')
             /\ \A d \in Callers : Current(call[d])'
    BY DEF SerialInv
  <2>1. ~overlapped /\ \A d \in Callers : d # c => call[d] = Idle BY Alone DEF RoutingInv
  <2>2. call'[c] = r /\ \A d \in Callers : d # c => call'[d] = call[d]
    BY CallGoes DEF RoutingInv, TypeInv
  <2>3. OneBusy' BY <2>1, <2>2 DEF OneBusy, Idle
  <2>4. \A d \in Callers : Current(call[d])'
    <3> SUFFICES ASSUME NEW d \in Callers PROVE Current(call[d])' OBVIOUS
    <3>1. CASE d = c BY <2>1, <2>2, <3>1 DEF Current
    <3>2. CASE d # c
      <4>1. call'[d].at = "idle" BY <2>1, <2>2, <3>2 DEF Idle
      <4>2. QED BY <4>1 DEF Current
    <3>3. QED BY <3>1, <3>2
  <2>5. QED BY <2>1, <2>3, <2>4
<1>3. QED BY <1>1, <1>2 DEF RoutingInv

\* A step that only reads keeps it when what was read is so.
LEMMA ReadsKeep ==
  ASSUME RoutingInv, NEW c \in Callers, Acts(c), NEW r, Goes(c, r), HeldBy(r),
         UNCHANGED documents, ~overlapped => Current(r)
  PROVE  RoutingInv'
<1>1. UNCHANGED <<model, provider, mappings, spent>> BY DEF documents
<1>2. StoredType'
  <2>1. calls' \in Nat BY Counted DEF RoutingInv
  <2>2. QED BY <1>1, <2>1 DEF RoutingInv, TypeInv, StoredType
<1>3. OnePreferred' BY <1>1 DEF RoutingInv, OnePreferred
<1>4. ~overlapped => AllJoined' /\ (\A p \in DOMAIN provider' : Agrees(p)') /\ Current(r)'
  <2> SUFFICES ASSUME ~overlapped
      PROVE  AllJoined' /\ (\A p \in DOMAIN provider' : Agrees(p)') /\ Current(r)'
    OBVIOUS
  <2>1. AllJoined' BY <1>1 DEF RoutingInv, SerialInv, AllJoined, Joined, Owned
  <2>2. \A p \in DOMAIN provider' : Agrees(p)' BY <1>1 DEF RoutingInv, SerialInv, Agrees
  <2>3. Current(r)' BY <1>1 DEF Current, Joined, Owned
  <2>4. QED BY <2>1, <2>2, <2>3
<1>5. QED BY <1>2, <1>3, <1>4, WritesKeep

\* Saved under the unique indexes, or deleted, mappings have one preferred at most.
LEMMA PreferredKept ==
  ASSUME OnePreferred, NEW x,
         mappings' \subseteq mappings \/ (Unique(x) /\ mappings' = Saved(x))
  PROVE  OnePreferred'
<1>1. CASE mappings' \subseteq mappings BY <1>1 DEF OnePreferred
<1>2. CASE Unique(x) /\ mappings' = Saved(x)
  <2> SUFFICES ASSUME NEW y \in mappings', NEW z \in mappings',
                      y.preferred, z.preferred, y.active, z.active, y.model = z.model,
                      y.owner = z.owner
               PROVE  y = z
    BY DEF OnePreferred
  <2>1. CASE y # x /\ z # x BY <1>2, <2>1 DEF Saved, OnePreferred
  <2>2. CASE y = x /\ z # x
    <3>1. z \in mappings /\ Key(z) # Key(x) BY <1>2, <2>2 DEF Saved
    <3>2. QED BY <1>2, <2>2, <3>1 DEF Unique
  <2>3. CASE y # x /\ z = x
    <3>1. y \in mappings /\ Key(y) # Key(x) BY <1>2, <2>3 DEF Saved
    <3>2. QED BY <1>2, <2>3, <3>1 DEF Unique
  <2>4. QED BY <2>1, <2>2, <2>3
<1>3. QED BY <1>1, <1>2

\* A step that saves a mapping, if the indexes let it, keeps the invariant.
LEMMA SavesKeep ==
  ASSUME RoutingInv, NEW c \in Callers, Acts(c), NEW r, Goes(c, r), HeldBy(r),
         NEW x \in MappingType,
         mappings' = mappings \/ (Unique(x) /\ mappings' = Saved(x)),
         UNCHANGED <<model, provider, spent>>,
         ~overlapped => Joined(x) /\ Current(r)'
  PROVE  RoutingInv'
<1>1. StoredType' /\ mappings' \subseteq mappings \cup {x}
  <2>1. calls' \in Nat BY Counted DEF RoutingInv
  <2>2. QED BY <2>1, MappingsSaved DEF RoutingInv, TypeInv
<1>2. OnePreferred' BY PreferredKept DEF RoutingInv
<1>3. ~overlapped => AllJoined' /\ (\A p \in DOMAIN provider' : Agrees(p)') /\ Current(r)'
  <2> SUFFICES ASSUME ~overlapped PROVE AllJoined' /\ (\A p \in DOMAIN provider' : Agrees(p)')
    OBVIOUS
  <2>1. \A y \in mappings' : Joined(y) BY <1>1 DEF RoutingInv, SerialInv, AllJoined
  <2>2. AllJoined' BY <2>1 DEF AllJoined, Joined, Owned
  <2>3. \A p \in DOMAIN provider' : Agrees(p)' BY DEF RoutingInv, SerialInv, Agrees
  <2>4. QED BY <2>2, <2>3
<1>4. QED BY <1>1, <1>2, <1>3, WritesKeep

-----------------------------------------------------------------------------
(* Creating                                                                 *)

\* A new model, or provider: no mapping joins it yet.
LEMMA CreateModelKeeps ==
  ASSUME RoutingInv, NEW c \in Callers, NEW u \in Users, CreateModel(c, u)
  PROVE  RoutingInv'
<1>1. Acts(c) BY DEF CreateModel, Acts, Calls
<1>2. Goes(c, Idle) BY DEF CreateModel, Begins, Goes, RoutingInv, TypeInv
<1>3. PICK m \in Models \ DOMAIN model : model' = Put(model, m, [owner |-> u, active |-> TRUE])
  BY DEF CreateModel
<1>4. UNCHANGED <<provider, mappings, spent>> BY DEF CreateModel
<1>5. [owner |-> u, active |-> TRUE] \in ModelDoc BY DEF ModelDoc, Owners
<1>6. StoredType' /\ DOMAIN model' = DOMAIN model \cup {m}
      /\ \A i \in DOMAIN model : model'[i] = model[i]
  <2>1. calls' \in Nat BY <1>1, Counted DEF RoutingInv
  <2>2. QED BY <1>3, <1>4, <1>5, <2>1, ModelSaved DEF RoutingInv, TypeInv
<1>7. OnePreferred' BY <1>4, PreferredKept DEF RoutingInv
<1>8. ASSUME ~overlapped PROVE AllJoined' /\ \A p \in DOMAIN provider' : Agrees(p)'
  <2>1. AllJoined' BY <1>4, <1>6, <1>8 DEF RoutingInv, SerialInv, AllJoined, Joined, Owned
  <2>2. \A p \in DOMAIN provider' : Agrees(p)' BY <1>4, <1>8 DEF RoutingInv, SerialInv, Agrees
  <2>3. QED BY <2>1, <2>2
<1>9. QED BY <1>1, <1>2, <1>6, <1>7, <1>8, RestHolds, WritesKeep

\* A new provider, of which nothing was used.
LEMMA CreateProviderKeeps ==
  ASSUME RoutingInv, NEW c \in Callers, NEW u \in Users, CreateProvider(c, u)
  PROVE  RoutingInv'
<1>1. Acts(c) BY DEF CreateProvider, Acts, Calls
<1>2. Goes(c, Idle) BY DEF CreateProvider, Begins, Goes, RoutingInv, TypeInv
<1>3. PICK p \in Providers \ DOMAIN provider, a \in BOOLEAN :
        /\ provider' = Put(provider, p, [owner |-> u, active |-> a, used |-> 0])
        /\ spent' = [spent EXCEPT ![p] = 0]
  BY DEF CreateProvider
<1>4. UNCHANGED <<model, mappings>> BY DEF CreateProvider
<1>5. [owner |-> u, active |-> a, used |-> 0] \in ProviderDoc BY DEF ProviderDoc, Owners
<1>6. spent' \in [Providers -> Nat] /\ spent'[p] = 0
      /\ \A i \in Providers : i # p => spent'[i] = spent[i]
  BY <1>3 DEF RoutingInv, TypeInv, StoredType
<1>7. StoredType' /\ provider'[p].used = 0 /\ DOMAIN provider' = DOMAIN provider \cup {p}
      /\ \A i \in DOMAIN provider : provider'[i] = provider[i]
  <2>1. calls' \in Nat BY <1>1, Counted DEF RoutingInv
  <2>2. StoredType BY DEF RoutingInv, TypeInv
  <2>3. PICK v \in ProviderDoc : v = [owner |-> u, active |-> a, used |-> 0] BY <1>5
  <2>4. provider' = Put(provider, p, v) /\ v.used = 0 BY <1>3, <2>3
  <2>5. QED BY <1>4, <1>6, <2>1, <2>2, <2>4, ProviderSaved
<1>8. OnePreferred' BY <1>4, PreferredKept DEF RoutingInv
<1>9. ASSUME ~overlapped PROVE AllJoined' /\ \A i \in DOMAIN provider' : Agrees(i)'
  <2>1. AllJoined' BY <1>4, <1>7, <1>9 DEF RoutingInv, SerialInv, AllJoined, Joined, Owned
  <2>2. \A i \in DOMAIN provider' : Agrees(i)'
    BY <1>3, <1>6, <1>7, <1>9 DEF RoutingInv, SerialInv, Agrees, TypeInv, StoredType
  <2>3. QED BY <2>1, <2>2
<1>10. QED BY <1>1, <1>2, <1>7, <1>8, <1>9, RestHolds, WritesKeep

-----------------------------------------------------------------------------
(* Binding and unbinding                                                    *)

\* The mapping that a binding will save joins what it read.
LEMMA BindReadsKeeps ==
  ASSUME RoutingInv, NEW c \in Callers, NEW u \in Users, NEW m \in Models, NEW p \in Providers,
         BindReads(c, u, m, p)
  PROVE  RoutingInv'
<1>1. Acts(c) BY DEF BindReads, Acts, Calls
<1>2. PICK preferred \in BOOLEAN, active \in BOOLEAN :
        LET old == {x \in OfModel(m, u) : x.provider = p}
            x == [model |-> m, provider |-> p, owner |-> u, preferred |-> preferred /\ active,
                  active |-> active,
                  born |-> IF old = {} THEN calls + 1 ELSE (CHOOSE y \in old : TRUE).born]
            clear == IF x.preferred /\ \A y \in old : ~y.preferred
                       THEN {y \in OfModel(m, u) : y.preferred} ELSE {}
        IN  Goes(c, [at |-> "bind", clear |-> clear, x |-> x])
  BY DEF BindReads
<1> DEFINE old == {x \in OfModel(m, u) : x.provider = p}
           born == IF old = {} THEN calls + 1 ELSE (CHOOSE y \in old : TRUE).born
           x0 == [model |-> m, provider |-> p, owner |-> u, preferred |-> preferred /\ active,
                 active |-> active, born |-> born]
           clear0 == IF x0.preferred /\ \A y \in old : ~y.preferred
                      THEN {y \in OfModel(m, u) : y.preferred} ELSE {}
<1>3. PICK x, clear : x = x0 /\ clear = clear0 OBVIOUS
<1>4. Goes(c, [at |-> "bind", clear |-> clear, x |-> x]) BY <1>2, <1>3
<1>5. born \in Nat
  <2>1. CASE old = {} BY <2>1 DEF RoutingInv, TypeInv, StoredType
  <2>2. CASE old # {}
    <3>1. (CHOOSE y \in old : TRUE) \in old BY <2>2
    <3>2. old \subseteq MappingType BY DEF RoutingInv, TypeInv, StoredType, OfModel
    <3>3. QED BY <2>2, <3>1, <3>2 DEF MappingType
  <2>3. QED BY <2>1, <2>2
<1>6. clear \subseteq mappings BY <1>3 DEF OfModel
<1> HIDE DEF born, clear0
<1>7. x \in MappingType BY <1>3, <1>5 DEF MappingType, Owners
<1>8. ~overlapped => Joined(x) /\ \A y \in clear : Joined(y)
  <2>1. Joined(x) BY <1>3 DEF Joined, BindReads, Accessible
  <2>2. QED BY <1>6, <2>1 DEF RoutingInv, SerialInv, AllJoined
<1> DEFINE r == [at |-> "bind", clear |-> clear, x |-> x]
<1>9. /\ r.at = "bind" /\ r.x = x /\ r.clear = clear
      /\ r = [at |-> "bind", clear |-> r.clear, x |-> r.x]
  OBVIOUS
<1> HIDE DEF r
<1>10. HeldBy(r) BY <1>6, <1>7, <1>9 DEF HeldBy, RoutingInv, TypeInv, StoredType
<1>11. ~overlapped => Current(r) BY <1>8, <1>9 DEF Current
<1>12. QED
  <2>1. UNCHANGED documents BY DEF BindReads
  <2>2. Goes(c, r) BY <1>4 DEF r
  <2>3. QED BY <1>1, <1>10, <1>11, <2>1, <2>2, ReadsKeep

\* A mapping that loses its place stays what it is.
LEMMA BindClearsKeeps ==
  ASSUME RoutingInv, NEW c \in Callers, BindClears(c)
  PROVE  RoutingInv'
<1>1. Acts(c) BY DEF BindClears, Acts, Idle
<1>2. PICK y \in call[c].clear :
        LET x == [y EXCEPT !.preferred = FALSE]
        IN  IF Unique(x) THEN mappings' = Saved(x) /\ Goes(c, [call[c] EXCEPT !.clear = @ \ {y}])
                         ELSE Goes(c, Idle) /\ UNCHANGED mappings
  BY DEF BindClears
<1>3. PICK x : x = [y EXCEPT !.preferred = FALSE] OBVIOUS
<1>4. y \in MappingType /\ call[c].x \in MappingType /\ call[c].clear \subseteq MappingType
  BY DEF RoutingInv, TypeInv, HeldBy, BindClears
<1>5. x \in MappingType /\ (Joined(y) => Joined(x)) BY <1>3, <1>4, MappingChanged
<1>6. UNCHANGED <<model, provider, spent>> BY DEF BindClears
<1>7. ~overlapped => Joined(call[c].x) /\ \A z \in call[c].clear : Joined(z)
  BY DEF RoutingInv, SerialInv, Current, BindClears
<1>8. CASE Unique(x)
  <2>1. PICK clear : clear = call[c].clear \ {y} OBVIOUS
  <2>2. PICK old, z : old = call[c].clear /\ z = call[c].x OBVIOUS
  <2>3. call[c] = [at |-> "bind", clear |-> old, x |-> z]
    BY <2>2 DEF RoutingInv, TypeInv, HeldBy, BindClears
  <2>4. PICK r : r = [at |-> "bind", clear |-> clear, x |-> z] OBVIOUS
  <2>5. [call[c] EXCEPT !.clear = call[c].clear \ {y}] = r BY <2>1, <2>3, <2>4
  <2>6. Goes(c, r) /\ mappings' = Saved(x) BY <1>2, <1>3, <1>8, <2>5
  <2>7. r.at = "bind" /\ r.x = z /\ r.clear = clear BY <2>4
  <2>8. HeldBy(r) BY <1>4, <2>1, <2>2, <2>4, <2>7 DEF HeldBy
  <2>9. ~overlapped => Joined(x) /\ Current(r)'
    <3>1. SUFFICES ASSUME ~overlapped PROVE Joined(x) /\ Current(r)' OBVIOUS
    <3>2. Joined(x) /\ Joined(z) /\ \A w \in clear : Joined(w)
      BY <1>2, <1>5, <1>7, <2>1, <2>2, <3>1
    <3>3. Joined(z)' /\ \A w \in clear : Joined(w)' BY <1>6, <3>2 DEF Joined, Owned
    <3>4. QED BY <2>7, <3>2, <3>3 DEF Current
  <2>10. QED BY <1>1, <1>5, <1>6, <1>8, <2>6, <2>8, <2>9, SavesKeep
<1>9. CASE ~Unique(x)
  <2>1. Goes(c, Idle) /\ UNCHANGED mappings BY <1>2, <1>3, <1>9
  <2>2. UNCHANGED documents BY <1>6, <2>1 DEF documents
  <2>3. QED BY <1>1, <2>1, <2>2, RestHolds, ReadsKeep
<1>10. QED BY <1>8, <1>9

\* The mapping of a binding is saved, or refused.
LEMMA BindSavesKeeps ==
  ASSUME RoutingInv, NEW c \in Callers, BindSaves(c)
  PROVE  RoutingInv'
<1>1. Acts(c) BY DEF BindSaves, Acts, Idle
<1>2. PICK x : x = call[c].x OBVIOUS
<1>3. Goes(c, Idle) /\ UNCHANGED <<model, provider, spent>> BY DEF BindSaves
<1>4. mappings' = mappings \/ (Unique(x) /\ mappings' = Saved(x)) BY <1>2 DEF BindSaves
<1>5. x \in MappingType BY <1>2 DEF RoutingInv, TypeInv, HeldBy, BindSaves
<1>6. ~overlapped => Joined(x) BY <1>2 DEF RoutingInv, SerialInv, Current, BindSaves
<1>7. QED BY <1>1, <1>3, <1>4, <1>5, <1>6, RestHolds, SavesKeep

\* A mapping is deleted; the others stay.
LEMMA UnbindKeeps ==
  ASSUME RoutingInv, NEW c \in Callers, NEW u \in Users, NEW m \in Models, NEW p \in Providers,
         Unbind(c, u, m, p)
  PROVE  RoutingInv'
<1>1. Acts(c) BY DEF Unbind, Acts, Calls
<1>2. PICK x \in mappings :
        /\ mappings' = mappings \ {x}
        /\ Goes(c, IF x.preferred THEN [at |-> "promote", user |-> u, model |-> m] ELSE Idle)
  BY DEF Unbind, OfModel
<1>3. PICK r : r = IF x.preferred THEN [at |-> "promote", user |-> u, model |-> m] ELSE Idle
  OBVIOUS
<1>4. r.at \in {"promote", "idle"} BY <1>3 DEF Idle
<1>5. HeldBy(r) /\ Current(r)' BY <1>4 DEF HeldBy, Current
<1>6. UNCHANGED <<model, provider, spent>> BY DEF Unbind
<1>7. StoredType'
  <2>1. calls' \in Nat BY <1>1, Counted DEF RoutingInv
  <2>2. QED BY <1>2, <1>6, <2>1 DEF RoutingInv, TypeInv, StoredType
<1>8. OnePreferred' BY <1>2, PreferredKept DEF RoutingInv
<1>9. ASSUME ~overlapped PROVE AllJoined' /\ \A i \in DOMAIN provider' : Agrees(i)'
  <2>1. AllJoined' BY <1>2, <1>6, <1>9 DEF RoutingInv, SerialInv, AllJoined, Joined, Owned
  <2>2. \A i \in DOMAIN provider' : Agrees(i)' BY <1>6, <1>9 DEF RoutingInv, SerialInv, Agrees
  <2>3. QED BY <2>1, <2>2
<1>10. QED BY <1>1, <1>2, <1>3, <1>5, <1>7, <1>8, <1>9, WritesKeep

\* The oldest of the mappings that are left is read, then saved as the preferred one.
LEMMA PromoteReadsKeeps ==
  ASSUME RoutingInv, NEW c \in Callers, PromoteReads(c)
  PROVE  RoutingInv'
<1> DEFINE active == {x \in OfModel(call[c].model, call[c].user) : x.active}
           oldest == CHOOSE x \in active : \A y \in active : x.born <= y.born
<1>1. Acts(c) BY DEF PromoteReads, Acts, Idle
<1>2. Goes(c, IF active = {} THEN Idle ELSE [at |-> "promoted", x |-> oldest]) /\ UNCHANGED documents
  BY DEF PromoteReads
<1>3. active \subseteq mappings BY DEF OfModel
<1> HIDE DEF active
<1>4. CASE active = {} BY <1>1, <1>2, <1>4, RestHolds, ReadsKeep
<1>5. CASE active # {}
  <2>1. active \in SUBSET MappingType BY <1>3 DEF RoutingInv, TypeInv, StoredType
  <2>2. \E x \in active : \A y \in active : x.born <= y.born BY <1>5, <2>1, Oldest
  <2>3. oldest \in active BY <2>2
  <2> HIDE DEF oldest
  <2>4. PICK r : r = [at |-> "promoted", x |-> oldest] OBVIOUS
  <2>5. HeldBy(r) BY <2>1, <2>3, <2>4 DEF HeldBy
  <2>6. ~overlapped => Current(r)
    BY <1>3, <2>3, <2>4 DEF Current, RoutingInv, SerialInv, AllJoined
  <2>7. QED BY <1>1, <1>2, <1>5, <2>4, <2>5, <2>6, ReadsKeep
<1>6. QED BY <1>4, <1>5

\* It is saved as the preferred one.
LEMMA PromoteSavesKeeps ==
  ASSUME RoutingInv, NEW c \in Callers, PromoteSaves(c)
  PROVE  RoutingInv'
<1>1. Acts(c) BY DEF PromoteSaves, Acts, Idle
<1>2. PICK x : x = [call[c].x EXCEPT !.preferred = TRUE] OBVIOUS
<1>3. Goes(c, Idle) /\ UNCHANGED <<model, provider, spent>> BY DEF PromoteSaves
<1>4. mappings' = mappings \/ (Unique(x) /\ mappings' = Saved(x)) BY <1>2 DEF PromoteSaves
<1>5. call[c].x \in MappingType BY DEF RoutingInv, TypeInv, HeldBy, PromoteSaves
<1>6. x \in MappingType /\ (Joined(call[c].x) => Joined(x)) BY <1>2, <1>5, MappingChanged
<1>7. ~overlapped => Joined(x) BY <1>6 DEF RoutingInv, SerialInv, Current, PromoteSaves
<1>8. QED BY <1>1, <1>3, <1>4, <1>6, <1>7, RestHolds, SavesKeep

-----------------------------------------------------------------------------
(* Deleting and removing                                                    *)

\* The mappings of a model that will be deleted are those of its owner.
LEMMA DeleteReadsKeeps ==
  ASSUME System \notin Users, RoutingInv, NEW c \in Callers, NEW u \in Users, NEW m \in Models,
         DeleteReads(c, u, m)
  PROVE  RoutingInv'
<1>1. Acts(c) BY DEF DeleteReads, Acts, Calls
<1>2. PICK r : r = [at |-> "delete", model |-> m, clear |-> OfModel(m, u)] OBVIOUS
<1>3. Goes(c, r) /\ UNCHANGED documents BY <1>2 DEF DeleteReads
<1>4. /\ r.at = "delete" /\ r.model = m /\ r.clear = OfModel(m, u)
      /\ r = [at |-> "delete", model |-> r.model, clear |-> r.clear]
  BY <1>2
<1>5. HeldBy(r) BY <1>4 DEF HeldBy
<1>6. ASSUME ~overlapped PROVE Current(r)
  <2>1. \A x \in mappings : x.model = m /\ x.owner # System => x.owner = u
    BY <1>6 DEF RoutingInv, SerialInv, AllJoined, Joined, DeleteReads, Owned
  <2>2. QED BY <1>4, <2>1 DEF Current, OfModel
<1>7. QED BY <1>1, <1>3, <1>5, <1>6, ReadsKeep

\* The model goes after them.
LEMMA DeletesKeeps ==
  ASSUME RoutingInv, NEW c \in Callers, Deletes(c)
  PROVE  RoutingInv'
<1>1. Acts(c) BY DEF Deletes, Acts, Idle
<1>2. UNCHANGED <<provider, spent>> BY DEF Deletes
<1>3. PICK m, old : m = call[c].model /\ old = call[c].clear OBVIOUS
<1>4. call[c] = [at |-> "delete", model |-> m, clear |-> old]
  BY <1>3 DEF RoutingInv, TypeInv, HeldBy, Deletes
<1>5. ~overlapped => \A x \in mappings : x.model = m /\ x.owner # System => x \in old
  BY <1>3 DEF RoutingInv, SerialInv, Current, Deletes
<1>6. calls' \in Nat BY <1>1, Counted DEF RoutingInv
<1>7. CASE old = {}
  <2>1. model' = Without(model, m) /\ Goes(c, Idle) /\ UNCHANGED mappings
    BY <1>3, <1>7 DEF Deletes
  <2>2. StoredType' /\ DOMAIN model' = DOMAIN model \ {m}
        /\ \A i \in DOMAIN model' : model'[i] = model[i]
    BY <1>2, <1>6, <2>1, ModelDeleted DEF RoutingInv, TypeInv
  <2>3. OnePreferred' BY <2>1, PreferredKept DEF RoutingInv
  <2>4. ASSUME ~overlapped PROVE AllJoined' /\ \A i \in DOMAIN provider' : Agrees(i)'
    <3>1. \A x \in mappings : x.owner # System => x.model # m BY <1>5, <1>7, <2>4
    <3>2. AllJoined'
      BY <1>2, <2>1, <2>2, <2>4, <3>1 DEF RoutingInv, SerialInv, AllJoined, Joined, Owned
    <3>3. \A i \in DOMAIN provider' : Agrees(i)' BY <1>2, <2>4 DEF RoutingInv, SerialInv, Agrees
    <3>4. QED BY <3>2, <3>3
  <2>5. QED BY <1>1, <2>1, <2>2, <2>3, <2>4, RestHolds, WritesKeep
<1>8. CASE old # {}
  <2>1. PICK y \in old :
          /\ mappings' = {x \in mappings : Key(x) # Key(y)}
          /\ Goes(c, [call[c] EXCEPT !.clear = old \ {y}]) /\ UNCHANGED model
    BY <1>3, <1>8 DEF Deletes
  <2>2. PICK clear : clear = old \ {y} OBVIOUS
  <2>3. PICK r : r = [at |-> "delete", model |-> m, clear |-> clear] OBVIOUS
  <2>4. [call[c] EXCEPT !.clear = old \ {y}] = r BY <1>4, <2>2, <2>3
  <2>5. Goes(c, r) BY <2>1, <2>4
  <2>6. /\ r.at = "delete" /\ r.model = m /\ r.clear = clear
        /\ r = [at |-> "delete", model |-> r.model, clear |-> r.clear]
    BY <2>3
  <2>7. HeldBy(r) BY <2>6 DEF HeldBy
  <2>8. StoredType' BY <1>2, <1>6, <2>1 DEF RoutingInv, TypeInv, StoredType
  <2>9. OnePreferred' BY <2>1, PreferredKept DEF RoutingInv
  <2>10. ASSUME ~overlapped
         PROVE  AllJoined' /\ (\A i \in DOMAIN provider' : Agrees(i)') /\ Current(r)'
    <3>1. AllJoined' BY <1>2, <2>1, <2>10 DEF RoutingInv, SerialInv, AllJoined, Joined, Owned
    <3>2. \A i \in DOMAIN provider' : Agrees(i)'
      BY <1>2, <2>10 DEF RoutingInv, SerialInv, Agrees
    <3>3. Current(r)' BY <1>5, <2>1, <2>2, <2>6, <2>10 DEF Current
    <3>4. QED BY <3>1, <3>2, <3>3
  <2>11. QED BY <1>1, <2>5, <2>7, <2>8, <2>9, <2>10, WritesKeep
<1>9. QED BY <1>7, <1>8

\* A provider that is removed is joined by no mapping.
LEMMA RemoveReadsKeeps ==
  ASSUME RoutingInv, NEW c \in Callers, NEW u \in Users, NEW p \in Providers,
         RemoveReads(c, u, p)
  PROVE  RoutingInv'
<1>1. Acts(c) BY DEF RemoveReads, Acts, Calls
<1>2. PICK r : r = [at |-> "remove", provider |-> p] OBVIOUS
<1>3. Goes(c, r) /\ UNCHANGED documents BY <1>2 DEF RemoveReads
<1>4. r.at = "remove" /\ r.provider = p BY <1>2
<1>5. HeldBy(r) BY <1>4 DEF HeldBy
<1>6. ASSUME ~overlapped PROVE Current(r)
  <2>1. \A x \in mappings : x.provider = p => x.owner = System
    BY <1>6 DEF RoutingInv, SerialInv, AllJoined, Joined, RemoveReads, Owned
  <2>2. QED BY <1>4, <2>1 DEF Current
<1>7. QED BY <1>1, <1>3, <1>5, <1>6, ReadsKeep

\* The provider goes.
LEMMA RemovesKeeps ==
  ASSUME RoutingInv, NEW c \in Callers, Removes(c)
  PROVE  RoutingInv'
<1>1. Acts(c) BY DEF Removes, Acts, Idle
<1>2. PICK p : p = call[c].provider OBVIOUS
<1>3. provider' = Without(provider, p) /\ Goes(c, Idle) /\ UNCHANGED <<model, mappings, spent>>
  BY <1>2 DEF Removes
<1>4. StoredType' /\ DOMAIN provider' = DOMAIN provider \ {p}
      /\ \A i \in DOMAIN provider' : provider'[i] = provider[i]
  <2>1. calls' \in Nat BY <1>1, Counted DEF RoutingInv
  <2>2. QED BY <1>3, <2>1, ProviderDeleted DEF RoutingInv, TypeInv
<1>5. OnePreferred' BY <1>3, PreferredKept DEF RoutingInv
<1>6. ASSUME ~overlapped PROVE AllJoined' /\ \A i \in DOMAIN provider' : Agrees(i)'
  <2>1. \A x \in mappings : x.provider = p => x.owner = System
    BY <1>2, <1>6 DEF RoutingInv, SerialInv, Current, Removes
  <2>2. AllJoined'
    BY <1>3, <1>4, <1>6, <2>1 DEF RoutingInv, SerialInv, AllJoined, Joined, Owned
  <2>3. \A i \in DOMAIN provider' : Agrees(i)'
    BY <1>3, <1>4, <1>6 DEF RoutingInv, SerialInv, Agrees
  <2>4. QED BY <2>2, <2>3
<1>7. QED BY <1>1, <1>3, <1>4, <1>5, <1>6, RestHolds, WritesKeep

-----------------------------------------------------------------------------
(* Updating                                                                 *)

\* An update keeps the owner of what it read.
LEMMA UpdateModelReadsKeeps ==
  ASSUME RoutingInv, NEW c \in Callers, NEW u \in Users, UpdateModelReads(c, u)
  PROVE  RoutingInv'
<1>1. Acts(c) BY DEF UpdateModelReads, Acts, Calls
<1>2. PICK m \in Models, a \in BOOLEAN :
        Owned(model, m, u)
        /\ Goes(c, [at |-> "model", id |-> m, doc |-> [model[m] EXCEPT !.active = a]])
  BY DEF UpdateModelReads
<1>3. PICK d : d = [model[m] EXCEPT !.active = a] OBVIOUS
<1>4. m \in DOMAIN model /\ model[m] \in ModelDoc
  BY <1>2 DEF Owned, RoutingInv, TypeInv, StoredType
<1>5. d \in ModelDoc /\ d.owner = model[m].owner BY <1>3, <1>4 DEF ModelDoc
<1>6. PICK r : r = [at |-> "model", id |-> m, doc |-> d] OBVIOUS
<1>7. r.at = "model" /\ r.id = m /\ r.doc = d BY <1>6
<1>8. HeldBy(r) /\ Current(r) BY <1>4, <1>5, <1>7 DEF HeldBy, Current
<1>9. Goes(c, r) /\ UNCHANGED documents BY <1>2, <1>3, <1>6 DEF UpdateModelReads
<1>10. QED BY <1>1, <1>8, <1>9, ReadsKeep

\* What it saves is of the same owner.
LEMMA UpdateModelSavesKeeps ==
  ASSUME RoutingInv, NEW c \in Callers, UpdateModelSaves(c)
  PROVE  RoutingInv'
<1>1. Acts(c) BY DEF UpdateModelSaves, Acts, Idle
<1>2. PICK m, d : m = call[c].id /\ d = call[c].doc OBVIOUS
<1>3. /\ model' = Put(model, m, d) /\ Goes(c, Idle)
      /\ UNCHANGED <<provider, mappings, spent>>
  BY <1>2 DEF UpdateModelSaves
<1>4. m \in Models /\ d \in ModelDoc
  BY <1>2 DEF RoutingInv, TypeInv, HeldBy, UpdateModelSaves
<1>5. /\ StoredType' /\ model'[m] = d /\ DOMAIN model' = DOMAIN model \cup {m}
      /\ \A i \in DOMAIN model : i # m => model'[i] = model[i]
  <2>1. calls' \in Nat BY <1>1, Counted DEF RoutingInv
  <2>2. QED BY <1>3, <1>4, <2>1, ModelSaved DEF RoutingInv, TypeInv
<1>6. OnePreferred' BY <1>3, PreferredKept DEF RoutingInv
<1>7. ASSUME ~overlapped PROVE AllJoined' /\ \A i \in DOMAIN provider' : Agrees(i)'
  <2>1. m \in DOMAIN model /\ d.owner = model[m].owner
    BY <1>2, <1>7 DEF RoutingInv, SerialInv, Current, UpdateModelSaves
  <2>2. \A i \in DOMAIN model : i \in DOMAIN model' /\ model'[i].owner = model[i].owner
    BY <1>5, <2>1
  <2>3. AllJoined' BY <1>3, <1>7, <2>2 DEF RoutingInv, SerialInv, AllJoined, Joined, Owned
  <2>4. \A i \in DOMAIN provider' : Agrees(i)' BY <1>3, <1>7 DEF RoutingInv, SerialInv, Agrees
  <2>5. QED BY <2>3, <2>4
<1>8. QED BY <1>1, <1>3, <1>5, <1>6, <1>7, RestHolds, WritesKeep

\* Alone, it keeps the tokens that were used, too.
LEMMA UpdateProviderReadsKeeps ==
  ASSUME RoutingInv, NEW c \in Callers, NEW u \in Users, UpdateProviderReads(c, u)
  PROVE  RoutingInv'
<1>1. Acts(c) BY DEF UpdateProviderReads, Acts, Calls
<1>2. PICK p \in Providers, a \in BOOLEAN :
        Owned(provider, p, u)
        /\ Goes(c, [at |-> "provider", id |-> p, doc |-> [provider[p] EXCEPT !.active = a]])
  BY DEF UpdateProviderReads
<1>3. PICK d : d = [provider[p] EXCEPT !.active = a] OBVIOUS
<1>4. p \in DOMAIN provider /\ provider[p] \in ProviderDoc
  BY <1>2 DEF Owned, RoutingInv, TypeInv, StoredType
<1>5. d \in ProviderDoc /\ d.owner = provider[p].owner /\ d.used = provider[p].used
  BY <1>3, <1>4 DEF ProviderDoc
<1>6. PICK r : r = [at |-> "provider", id |-> p, doc |-> d] OBVIOUS
<1>7. r.at = "provider" /\ r.id = p /\ r.doc = d BY <1>6
<1>8. HeldBy(r) BY <1>5, <1>7 DEF HeldBy
<1>9. ~overlapped => Current(r)
  BY <1>4, <1>5, <1>7 DEF Current, RoutingInv, SerialInv, Agrees
<1>10. Goes(c, r) /\ UNCHANGED documents BY <1>2, <1>3, <1>6 DEF UpdateProviderReads
<1>11. QED BY <1>1, <1>8, <1>9, <1>10, ReadsKeep

\* And it saves them, if nobody used the key meanwhile.
LEMMA UpdateProviderSavesKeeps ==
  ASSUME RoutingInv, NEW c \in Callers, UpdateProviderSaves(c)
  PROVE  RoutingInv'
<1>1. Acts(c) BY DEF UpdateProviderSaves, Acts, Idle
<1>2. PICK p, d : p = call[c].id /\ d = call[c].doc OBVIOUS
<1>3. /\ provider' = Put(provider, p, d) /\ Goes(c, Idle)
      /\ UNCHANGED <<model, mappings, spent>>
  BY <1>2 DEF UpdateProviderSaves
<1>4. p \in Providers /\ d \in ProviderDoc
  BY <1>2 DEF RoutingInv, TypeInv, HeldBy, UpdateProviderSaves
<1>5. /\ StoredType' /\ provider'[p] = d /\ DOMAIN provider' = DOMAIN provider \cup {p}
      /\ \A i \in DOMAIN provider : i # p => provider'[i] = provider[i]
  <2>1. calls' \in Nat BY <1>1, Counted DEF RoutingInv
  <2>2. spent' \in [Providers -> Nat] BY <1>3 DEF RoutingInv, TypeInv, StoredType
  <2>3. QED BY <1>3, <1>4, <2>1, <2>2, ProviderSaved DEF RoutingInv, TypeInv
<1>6. OnePreferred' BY <1>3, PreferredKept DEF RoutingInv
<1>7. ASSUME ~overlapped PROVE AllJoined' /\ \A i \in DOMAIN provider' : Agrees(i)'
  <2>1. p \in DOMAIN provider /\ d.owner = provider[p].owner /\ d.used = spent[p]
    BY <1>2, <1>7 DEF RoutingInv, SerialInv, Current, UpdateProviderSaves
  <2>2. \A i \in DOMAIN provider : i \in DOMAIN provider' /\ provider'[i].owner = provider[i].owner
    BY <1>5, <2>1
  <2>3. AllJoined' BY <1>3, <1>7, <2>2 DEF RoutingInv, SerialInv, AllJoined, Joined, Owned
  <2>4. \A i \in DOMAIN provider' : Agrees(i)'
    BY <1>3, <1>5, <1>7, <2>1 DEF RoutingInv, SerialInv, Agrees
  <2>5. QED BY <2>3, <2>4
<1>8. QED BY <1>1, <1>3, <1>5, <1>6, <1>7, RestHolds, WritesKeep

-----------------------------------------------------------------------------
(* A turn                                                                   *)

\* It goes through a mapping of its user or of the platform, found or named.
LEMMA ResolveKeeps ==
  ASSUME RoutingInv, NEW c \in Callers, NEW u \in Users, NEW m \in Models, Resolve(c, u, m)
  PROVE  RoutingInv'
<1>1. Acts(c) BY DEF Resolve, Acts, Calls
<1>2. PICK x : /\ x \in Best(u, m) \/ \E p \in Providers : x \in Named(u, m, p)
               /\ Goes(c, [at |-> "mapped", user |-> u, x |-> x])
  BY DEF Resolve
<1>3. x.owner \in {u, System}
  BY <1>2, BestOwned DEF Named, RoutingInv, TypeInv
<1>4. PICK r : r = [at |-> "mapped", user |-> u, x |-> x] OBVIOUS
<1>5. r.at = "mapped" /\ r.user = u /\ r.x = x BY <1>4
<1>6. HeldBy(r) /\ Current(r) BY <1>3, <1>5 DEF HeldBy, Current
<1>7. Goes(c, r) /\ UNCHANGED documents BY <1>2, <1>4 DEF Resolve
<1>8. QED BY <1>1, <1>6, <1>7, ReadsKeep

\* The provider it uses is of the owner of the mapping.
LEMMA ResolveProviderKeeps ==
  ASSUME RoutingInv, NEW c \in Callers, ResolveProvider(c)
  PROVE  RoutingInv'
<1>1. Acts(c) BY DEF ResolveProvider, Acts, Idle
<1>2. PICK x, u : x = call[c].x /\ u = call[c].user OBVIOUS
<1>3. x.owner \in {u, System} BY <1>2 DEF RoutingInv, TypeInv, HeldBy, ResolveProvider
<1>4. UNCHANGED documents BY DEF ResolveProvider
<1>5. CASE Owned(provider, x.provider, x.owner) /\ provider[x.provider].active
  <2>1. PICK r : r = [at |-> "chat", user |-> u, x |-> x, owner |-> provider[x.provider].owner]
    OBVIOUS
  <2>2. Goes(c, r) BY <1>2, <1>5, <2>1 DEF ResolveProvider
  <2>3. r.at = "chat" /\ r.user = u /\ r.x = x /\ r.owner = x.owner BY <1>5, <2>1 DEF Owned
  <2>4. HeldBy(r) /\ Current(r) BY <1>3, <2>3 DEF HeldBy, Current
  <2>5. QED BY <1>1, <1>4, <2>2, <2>4, ReadsKeep
<1>6. CASE ~(Owned(provider, x.provider, x.owner) /\ provider[x.provider].active)
  <2>1. Goes(c, Idle) BY <1>2, <1>6 DEF ResolveProvider
  <2>2. QED BY <1>1, <1>4, <2>1, RestHolds, ReadsKeep
<1>7. QED BY <1>5, <1>6

\* Its tokens are added to what was used with the key.
LEMMA UsageKeeps ==
  ASSUME RoutingInv, NEW c \in Callers, Usage(c)
  PROVE  RoutingInv'
<1>1. Acts(c) BY DEF Usage, Acts, Idle
<1>2. PICK x, p : x = call[c].x /\ p = x.provider OBVIOUS
<1>3. Goes(c, Idle) /\ UNCHANGED <<model, mappings>> BY DEF Usage
<1>4. CASE ~Owned(provider, p, x.owner)
  <2>1. UNCHANGED documents BY <1>2, <1>3, <1>4 DEF Usage, documents
  <2>2. QED BY <1>1, <1>3, <2>1, RestHolds, ReadsKeep
<1>5. CASE Owned(provider, p, x.owner)
  <2>1. p \in DOMAIN provider /\ p \in Providers /\ provider[p] \in ProviderDoc
    BY <1>5 DEF Owned, RoutingInv, TypeInv, StoredType
  <2>2. PICK d : d = [provider[p] EXCEPT !.used = provider[p].used + 1] OBVIOUS
  <2>3. d \in ProviderDoc /\ d.owner = provider[p].owner /\ d.used = provider[p].used + 1
    BY <2>1, <2>2 DEF ProviderDoc
  <2>4. provider' = [provider EXCEPT ![p] = d] /\ spent' = [spent EXCEPT ![p] = spent[p] + 1]
    BY <1>2, <1>5, <2>2 DEF Usage
  <2>5. spent \in [Providers -> Nat] /\ provider = [i \in DOMAIN provider |-> provider[i]]
    BY DEF RoutingInv, TypeInv, StoredType
  <2>6. /\ spent' \in [Providers -> Nat] /\ spent'[p] = spent[p] + 1
        /\ \A i \in Providers : i # p => spent'[i] = spent[i]
    BY <2>1, <2>4, <2>5
  <2>7. /\ provider' = [i \in DOMAIN provider' |-> provider'[i]] /\ provider'[p] = d
        /\ DOMAIN provider' = DOMAIN provider
        /\ \A i \in DOMAIN provider : i # p => provider'[i] = provider[i]
    BY <2>1, <2>4, <2>5
  <2>8. StoredType'
    <3>1. calls' \in Nat BY <1>1, Counted DEF RoutingInv
    <3>2. \A i \in DOMAIN provider' : provider'[i] \in ProviderDoc
      BY <2>3, <2>7 DEF RoutingInv, TypeInv, StoredType
    <3>3. QED BY <1>3, <2>6, <2>7, <3>1, <3>2 DEF RoutingInv, TypeInv, StoredType
  <2>9. OnePreferred' BY <1>3, PreferredKept DEF RoutingInv
  <2>10. ASSUME ~overlapped PROVE AllJoined' /\ \A i \in DOMAIN provider' : Agrees(i)'
    <3>1. \A i \in DOMAIN provider : provider'[i].owner = provider[i].owner BY <2>3, <2>7
    <3>2. AllJoined'
      BY <1>3, <2>7, <2>10, <3>1 DEF RoutingInv, SerialInv, AllJoined, Joined, Owned
    <3>3. \A i \in DOMAIN provider : i \in Providers /\ provider[i].used = spent[i]
      BY <2>10 DEF RoutingInv, SerialInv, Agrees, TypeInv, StoredType
    <3>4. \A i \in DOMAIN provider' : Agrees(i)' BY <2>1, <2>3, <2>6, <2>7, <3>3 DEF Agrees
    <3>5. QED BY <3>2, <3>4
  <2>11. QED BY <1>1, <1>3, <2>8, <2>9, <2>10, RestHolds, WritesKeep
<1>6. QED BY <1>4, <1>5

-----------------------------------------------------------------------------
(* Whose key answers: the theorems                                          *)

\* What may be stored at first is in order, and no call runs.
LEMMA InitInv == RoutingParameters /\ RoutingInit => RoutingInv
<1> SUFFICES ASSUME RoutingParameters, RoutingInit PROVE RoutingInv OBVIOUS
<1>1. PICK c \in Catalogs : model = c.model /\ provider = c.provider /\ mappings = c.mappings
  BY DEF RoutingInit
<1>2. Consistent(c) BY DEF RoutingParameters
<1>3. /\ model = [m \in DOMAIN model |-> model[m]] /\ DOMAIN model \subseteq Models
      /\ \A m \in DOMAIN model : model[m] \in ModelDoc
  <2>1. PICK M \in SUBSET Models : model \in [M -> ModelDoc] BY <1>1, <1>2 DEF Consistent
  <2>2. QED BY <2>1
<1>4. /\ provider = [p \in DOMAIN provider |-> provider[p]] /\ DOMAIN provider \subseteq Providers
      /\ \A p \in DOMAIN provider : provider[p] \in Unspent
  <2>1. PICK P \in SUBSET Providers : provider \in [P -> Unspent] BY <1>1, <1>2 DEF Consistent
  <2>2. QED BY <2>1
<1>5. \A d \in Unspent : d \in ProviderDoc /\ d.used = 0 BY DEF Unspent, ProviderDoc
<1>6. spent \in [Providers -> Nat] /\ \A p \in Providers : spent[p] = 0 BY DEF RoutingInit
<1>7. StoredType
  <2>1. mappings \subseteq MappingType /\ calls \in Nat BY <1>1, <1>2 DEF Consistent, RoutingInit
  <2>2. QED BY <1>3, <1>4, <1>5, <1>6, <2>1 DEF StoredType
<1>8. call = [d \in Callers |-> call[d]] /\ \A d \in Callers : call[d] = Idle BY DEF RoutingInit
<1>9. TypeInv BY <1>7, <1>8, RestHolds DEF TypeInv
<1>10. OnePreferred BY <1>1, <1>2 DEF Consistent, OnePreferred
<1>11. SerialInv
  <2>1. AllJoined BY <1>1, <1>2 DEF Consistent, AllJoined, Joined, Owned
  <2>2. \A p \in DOMAIN provider : Agrees(p) BY <1>4, <1>5, <1>6 DEF Agrees
  <2>3. QED BY <1>8, <2>1, <2>2, RestHolds DEF SerialInv, OneBusy
<1>12. QED BY <1>9, <1>10, <1>11 DEF RoutingInv

\* Every step keeps the invariant.
LEMMA RoutingStays == RoutingParameters /\ RoutingInv /\ [RoutingNext]_routingVars => RoutingInv'
<1> SUFFICES ASSUME RoutingParameters, RoutingInv, [RoutingNext]_routingVars PROVE RoutingInv' OBVIOUS
<1>1. System \notin Users BY DEF RoutingParameters
<1>2. CASE UNCHANGED routingVars
  <2>1. StoredType' /\ TypeInv' /\ OnePreferred'
    BY <1>2 DEF routingVars, RoutingInv, TypeInv, StoredType, OnePreferred
  <2>2. ASSUME ~overlapped' PROVE ~overlapped BY <1>2, <2>2, Zenon DEF routingVars
  <2>3. ASSUME ~overlapped
        PROVE  /\ OneBusy' /\ AllJoined' /\ (\A p \in DOMAIN provider' : Agrees(p)')
               /\ \A d \in Callers : Current(call[d])'
    <3>1. OneBusy' /\ AllJoined' /\ \A p \in DOMAIN provider' : Agrees(p)'
      BY <1>2, <2>3 DEF routingVars, RoutingInv, SerialInv, OneBusy, AllJoined, Joined, Owned, Agrees
    <3>2. \A d \in Callers : Current(call[d])'
      BY <1>2, <2>3 DEF routingVars, RoutingInv, SerialInv, Current, Joined, Owned
    <3>3. QED BY <3>1, <3>2
  <2>4. SerialInv' BY <2>2, <2>3 DEF SerialInv
  <2>5. QED BY <2>1, <2>4 DEF RoutingInv
<1>3. ASSUME NEW c \in Callers, NEW u \in Users,
             \/ CreateModel(c, u) \/ CreateProvider(c, u)
             \/ UpdateModelReads(c, u) \/ UpdateProviderReads(c, u)
      PROVE  RoutingInv'
  BY <1>3, CreateModelKeeps, CreateProviderKeeps, UpdateModelReadsKeeps,
     UpdateProviderReadsKeeps
<1>4. ASSUME NEW c \in Callers, NEW u \in Users, NEW m \in Models,
             DeleteReads(c, u, m) \/ Resolve(c, u, m)
      PROVE  RoutingInv'
  BY <1>1, <1>4, DeleteReadsKeeps, ResolveKeeps
<1>5. ASSUME NEW c \in Callers, NEW u \in Users, NEW p \in Providers, RemoveReads(c, u, p)
      PROVE  RoutingInv'
  BY <1>5, RemoveReadsKeeps
<1>6. ASSUME NEW c \in Callers, NEW u \in Users, NEW m \in Models, NEW p \in Providers,
             BindReads(c, u, m, p) \/ Unbind(c, u, m, p)
      PROVE  RoutingInv'
  BY <1>6, BindReadsKeeps, UnbindKeeps
<1>7. ASSUME NEW c \in Callers,
             \/ BindClears(c) \/ BindSaves(c) \/ PromoteReads(c) \/ PromoteSaves(c)
             \/ Deletes(c) \/ Removes(c) \/ UpdateModelSaves(c) \/ UpdateProviderSaves(c)
             \/ ResolveProvider(c) \/ Usage(c)
      PROVE  RoutingInv'
  BY <1>7, BindClearsKeeps, BindSavesKeeps, PromoteReadsKeeps, PromoteSavesKeeps, DeletesKeeps,
     RemovesKeeps, UpdateModelSavesKeeps, UpdateProviderSavesKeeps, ResolveProviderKeeps,
     UsageKeeps
<1>8. QED BY <1>2, <1>3, <1>4, <1>5, <1>6, <1>7 DEF RoutingNext

\* The invariant of the documents and of the calls.
THEOREM RoutingInvariant == ASSUME RoutingParameters PROVE RoutingSpec => []RoutingInv
BY InitInv, RoutingStays, PTL DEF RoutingSpec

\* Nobody's key pays for another user, a turn without a named provider has one answer, and
\* calls that do not overlap leave no orphans and lose no usage (model_service.py).
THEOREM KeysStayOwn == ASSUME RoutingParameters PROVE RoutingSpec => []KeysAreOwn
<1>1. ASSUME RoutingInv PROVE KeysAreOwn
  <2>1. ResolvedIsOwn BY <1>1 DEF ResolvedIsOwn, RoutingInv, TypeInv, HeldBy
  <2>2. NoOrphans
    BY <1>1 DEF NoOrphans, Orphan, RoutingInv, SerialInv, AllJoined, Joined, Owned
  <2>3. UsageKept BY <1>1 DEF UsageKept, RoutingInv, SerialInv, Agrees
  <2>4. QED BY <1>1, <2>1, <2>2, <2>3 DEF KeysAreOwn, RoutingInv
<1>2. QED BY <1>1, RoutingInvariant, PTL

-----------------------------------------------------------------------------
(* The instance an RPC goes to: RpcRouting                                  *)

RpcRecord(r) == r = [pc |-> r.pc, tried |-> r.tried, listed |-> r.listed, answer |-> r.answer]

\* A call, and the lists of instances.
ListsType ==
  /\ rpc = [c \in Rpcs |-> rpc[c]]
  /\ \A c \in Rpcs : RpcRecord(rpc[c])
  /\ pushes \in Seq(SUBSET Instances) /\ registry \in SUBSET Instances

\* The call that refreshes the list holds the lock.
LockHeld == \A c \in Rpcs : rpc[c].pc \in {"refresh", "subscribe"} => lock = c

\* A call subscribes to what is not known to be subscribed to.
SubscribedOnce ==
  /\ subscribed \in Nat
  /\ \A c \in Rpcs : rpc[c].pc = "subscribe" => ~knows

RpcInv == ListsType /\ LockHeld /\ SubscribedOnce

\* One call moves: to another point, maybe with an instance more or with an answer.
Moves(c, r) ==
  /\ rpc' = [d \in Rpcs |-> rpc'[d]] /\ rpc'[c] = r
  /\ \A d \in Rpcs : d # c => rpc'[d] = rpc[d]

\* A call ends with an answer: two fields of it change.
LEMMA CallEnds ==
  ASSUME NEW r, RpcRecord(r), NEW y
  PROVE  [r EXCEPT !.pc = "done", !.answer = y] =
           [pc |-> "done", tried |-> r.tried, listed |-> r.listed, answer |-> y]
<1>1. PICK a, b, d, e : a = r.pc /\ b = r.tried /\ d = r.listed /\ e = r.answer OBVIOUS
<1>2. r = [pc |-> a, tried |-> b, listed |-> d, answer |-> e] BY <1>1 DEF RpcRecord
<1>3. [r EXCEPT !.pc = "done"] = [pc |-> "done", tried |-> b, listed |-> d, answer |-> e]
  BY <1>2
<1>4. [r EXCEPT !.pc = "done", !.answer = y] = [[r EXCEPT !.pc = "done"] EXCEPT !.answer = y]
  OBVIOUS
<1>5. [[pc |-> "done", tried |-> b, listed |-> d, answer |-> e] EXCEPT !.answer = y]
        = [pc |-> "done", tried |-> b, listed |-> d, answer |-> y]
  OBVIOUS
<1>6. QED BY <1>1, <1>3, <1>4, <1>5, Zenon

\* An instance is tried.
LEMMA CallSends ==
  ASSUME NEW r, RpcRecord(r), NEW y
  PROVE  [r EXCEPT !.pc = "sent", !.tried = y] =
           [pc |-> "sent", tried |-> y, listed |-> r.listed, answer |-> r.answer]
<1>1. PICK a, b, d, e : a = r.pc /\ b = r.tried /\ d = r.listed /\ e = r.answer OBVIOUS
<1>2. r = [pc |-> a, tried |-> b, listed |-> d, answer |-> e] BY <1>1 DEF RpcRecord
<1>3. [r EXCEPT !.pc = "sent"] = [pc |-> "sent", tried |-> b, listed |-> d, answer |-> e]
  BY <1>2
<1>4. [r EXCEPT !.pc = "sent", !.tried = y] = [[r EXCEPT !.pc = "sent"] EXCEPT !.tried = y]
  OBVIOUS
<1>5. [[pc |-> "sent", tried |-> b, listed |-> d, answer |-> e] EXCEPT !.tried = y]
        = [pc |-> "sent", tried |-> y, listed |-> d, answer |-> e]
  OBVIOUS
<1>6. QED BY <1>1, <1>3, <1>4, <1>5, Zenon

\* A call goes on to another point.
LEMMA RpcMoves ==
  ASSUME ListsType, NEW c \in Rpcs, NEW pc, rpc' = [rpc EXCEPT ![c].pc = pc]
  PROVE  Moves(c, [pc |-> pc, tried |-> rpc[c].tried, listed |-> rpc[c].listed,
                   answer |-> rpc[c].answer])
<1>1. rpc[c] = [pc |-> rpc[c].pc, tried |-> rpc[c].tried, listed |-> rpc[c].listed,
                answer |-> rpc[c].answer]
  BY DEF ListsType, RpcRecord
<1>2. [rpc[c] EXCEPT !.pc = pc] = [pc |-> pc, tried |-> rpc[c].tried,
         listed |-> rpc[c].listed, answer |-> rpc[c].answer]
  BY <1>1
<1>3. rpc' = [rpc EXCEPT ![c] = [rpc[c] EXCEPT !.pc = pc]] OBVIOUS
<1>4. QED BY <1>2, <1>3 DEF Moves, ListsType

\* It ends.
LEMMA RpcEnds ==
  ASSUME ListsType, NEW c \in Rpcs, NEW with, rpc' = EndedWith(c, with)
  PROVE  Moves(c, [pc |-> "done", tried |-> rpc[c].tried, listed |-> rpc[c].listed,
                   answer |-> with])
<1> DEFINE r == [pc |-> "done", tried |-> rpc[c].tried, listed |-> rpc[c].listed,
                 answer |-> with]
<1>1. PICK old : old = rpc[c] OBVIOUS
<1>2. RpcRecord(old) BY <1>1 DEF ListsType
<1>3. [old EXCEPT !.pc = "done", !.answer = with]
        = [pc |-> "done", tried |-> old.tried, listed |-> old.listed, answer |-> with]
  BY <1>2, CallEnds, Zenon
<1>4. rpc' = [rpc EXCEPT ![c] = [rpc[c] EXCEPT !.pc = "done", !.answer = with]] BY DEF EndedWith
<1>5. rpc' = [rpc EXCEPT ![c] = r] BY <1>1, <1>3, <1>4
<1> HIDE DEF r
<1>6. Moves(c, r) BY <1>5 DEF Moves, ListsType
<1>7. QED BY <1>6 DEF r

\* An instance that is chosen is of the developer of the call, or of the baseline while the
\* list has none of his.
Fits(c, i) ==
  /\ Owner[i] \in {NoDev, Tag[c]}
  /\ Owner[i] = NoDev /\ Tag[c] # NoDev => \A j \in cache : Owner[j] # Tag[c]

\* A call that picks tries an instance that fits, or ends.
LEMMA RpcChooses ==
  ASSUME ListsType, NEW c \in Rpcs, Chosen(c)
  PROVE  \E r : /\ Moves(c, r) /\ RpcRecord(r) /\ r.pc \in {"sent", "done"}
                /\ \A i \in r.tried \ rpc[c].tried : Fits(c, i)
<1> DEFINE left == IF cache = NoCache THEN {} ELSE Pool(c) \ rpc[c].tried
<1>1. \A i \in left : Fits(c, i) BY DEF Pool, Fits
<1>2. IF left = {} THEN rpc' = EndedWith(c, IF rpc[c].tried = {} THEN "unavailable" ELSE "error")
      ELSE \E i \in left : rpc' = [rpc EXCEPT ![c].pc = "sent", ![c].tried = rpc[c].tried \cup {i}]
  BY DEF Chosen
<1> HIDE DEF left
<1>3. CASE left = {}
  <2>1. PICK with : rpc' = EndedWith(c, with) BY <1>2, <1>3
  <2>2. PICK r : r = [pc |-> "done", tried |-> rpc[c].tried, listed |-> rpc[c].listed,
                      answer |-> with]
    OBVIOUS
  <2>3. Moves(c, r) BY <2>1, <2>2, RpcEnds
  <2>4. RpcRecord(r) /\ r.pc = "done" /\ r.tried = rpc[c].tried BY <2>2 DEF RpcRecord
  <2>5. QED BY <2>3, <2>4
<1>4. CASE left # {}
  <2>1. PICK i \in left :
          rpc' = [rpc EXCEPT ![c].pc = "sent", ![c].tried = rpc[c].tried \cup {i}]
    BY <1>2, <1>4
  <2>2. PICK r : r = [pc |-> "sent", tried |-> rpc[c].tried \cup {i}, listed |-> rpc[c].listed,
                      answer |-> rpc[c].answer]
    OBVIOUS
  <2>3. RpcRecord(rpc[c]) BY DEF ListsType
  <2>4. [rpc[c] EXCEPT !.pc = "sent", !.tried = rpc[c].tried \cup {i}] = r
    BY <2>2, <2>3, CallSends, Zenon
  <2>5. rpc' = [rpc EXCEPT ![c] = [rpc[c] EXCEPT !.pc = "sent", !.tried = rpc[c].tried \cup {i}]]
    BY <2>1
  <2>6. Moves(c, r) BY <2>4, <2>5 DEF Moves, ListsType
  <2>7. RpcRecord(r) /\ r.pc = "sent" /\ r.tried = rpc[c].tried \cup {i} BY <2>2 DEF RpcRecord
  <2>8. QED BY <1>1, <2>6, <2>7
<1>5. QED BY <1>3, <1>4

\* A call asks for the list.
LEMMA CallAsks ==
  ASSUME NEW r, RpcRecord(r), NEW y
  PROVE  [r EXCEPT !.pc = "refresh", !.listed = y] =
           [pc |-> "refresh", tried |-> r.tried, listed |-> y, answer |-> r.answer]
<1>1. PICK a, b, d, e : a = r.pc /\ b = r.tried /\ d = r.listed /\ e = r.answer OBVIOUS
<1>2. r = [pc |-> a, tried |-> b, listed |-> d, answer |-> e] BY <1>1 DEF RpcRecord
<1>3. [r EXCEPT !.pc = "refresh"] = [pc |-> "refresh", tried |-> b, listed |-> d, answer |-> e]
  BY <1>2
<1>4. [r EXCEPT !.pc = "refresh", !.listed = y] = [[r EXCEPT !.pc = "refresh"] EXCEPT !.listed = y]
  OBVIOUS
<1>5. [[pc |-> "refresh", tried |-> b, listed |-> d, answer |-> e] EXCEPT !.listed = y]
        = [pc |-> "refresh", tried |-> b, listed |-> y, answer |-> e]
  OBVIOUS
<1>6. QED BY <1>1, <1>3, <1>4, <1>5, Zenon

\* What every step of a call does: it tries an instance that fits, or none.
StepOf(c, r) ==
  /\ Moves(c, r) /\ RpcRecord(r)
  /\ \A i \in r.tried \ rpc[c].tried : Fits(c, i)
  /\ UNCHANGED <<registry, pushes, closed>>

\* The points between which a call refreshes the list.
Asks == {"refresh", "subscribe"}

\* Every step of a call, with what it does to the list, the lock and the subscription.
LEMMA CallSteps ==
  ASSUME RpcInv, NEW c \in Rpcs, Step(c)
  PROVE  \E r : /\ StepOf(c, r)
                /\ \/ /\ r.pc \notin Asks /\ rpc[c].pc \notin Asks
                      /\ UNCHANGED <<cache, lock, subscribed, knows>>
                   \/ /\ rpc[c].pc = "wait" /\ r.pc = "refresh" /\ lock = NoCall /\ lock' = c
                      /\ UNCHANGED <<cache, subscribed, knows>>
                   \/ /\ rpc[c].pc = "refresh" /\ r.pc = "subscribe" /\ ~knows
                      /\ UNCHANGED <<lock, subscribed, knows>>
                   \/ /\ rpc[c].pc = "refresh" /\ r.pc \notin Asks
                      /\ lock' = NoCall /\ UNCHANGED <<subscribed, knows>>
                   \/ /\ rpc[c].pc = "subscribe" /\ r.pc \notin Asks /\ lock' = NoCall
                      /\ UNCHANGED cache /\ subscribed' \in {subscribed, subscribed + 1}
                   \/ /\ r.pc \notin Asks /\ lock' = (IF lock = c THEN NoCall ELSE lock)
                      /\ UNCHANGED <<cache, knows>> /\ subscribed' \in {subscribed, subscribed + 1}
<1> USE DEF RpcInv
<1>1. RpcRecord(rpc[c]) BY DEF ListsType
<1> DEFINE at(pc) == [pc |-> pc, tried |-> rpc[c].tried, listed |-> rpc[c].listed,
                      answer |-> rpc[c].answer]
           ended(with) == [pc |-> "done", tried |-> rpc[c].tried, listed |-> rpc[c].listed,
                           answer |-> with]
<1>2. ASSUME NEW pc, rpc' = [rpc EXCEPT ![c].pc = pc], UNCHANGED <<registry, pushes, closed>>
      PROVE  \E r : StepOf(c, r) /\ r.pc = pc
  <2>1. Moves(c, at(pc)) BY <1>2, RpcMoves
  <2>2. PICK r : r = at(pc) OBVIOUS
  <2>3. RpcRecord(r) /\ r.pc = pc /\ r.tried = rpc[c].tried BY <2>2 DEF RpcRecord
  <2>4. QED BY <1>2, <2>1, <2>2, <2>3 DEF StepOf
<1>3. ASSUME NEW with, rpc' = EndedWith(c, with), UNCHANGED <<registry, pushes, closed>>
      PROVE  \E r : StepOf(c, r) /\ r.pc = "done"
  <2>1. Moves(c, ended(with)) BY <1>3, RpcEnds
  <2>2. PICK r : r = ended(with) OBVIOUS
  <2>3. RpcRecord(r) /\ r.pc = "done" /\ r.tried = rpc[c].tried BY <2>2 DEF RpcRecord
  <2>4. QED BY <1>3, <2>1, <2>2, <2>3 DEF StepOf
<1>4. ASSUME Chosen(c), UNCHANGED <<registry, pushes, closed>>
      PROVE  \E r : StepOf(c, r) /\ r.pc \in {"sent", "done"}
  BY <1>4, RpcChooses DEF StepOf
<1> HIDE DEF at, ended
<1>5. CASE Pick(c)
  <2>1. UNCHANGED <<registry, pushes, closed, cache, lock, subscribed, knows>> /\ rpc[c].pc = "pick"
    BY <1>5 DEF Pick, net, local
  <2>2. Chosen(c) \/ rpc' = [rpc EXCEPT ![c].pc = "wait"] BY <1>5 DEF Pick
  <2>3. \E r : StepOf(c, r) /\ r.pc \in {"sent", "done", "wait"} BY <1>2, <1>4, <2>1, <2>2
  <2>4. QED BY <2>1, <2>3 DEF Asks
<1>6. CASE Lock(c)
  <2>1. UNCHANGED <<registry, pushes, closed>> /\ rpc[c].pc = "wait" /\ lock = NoCall
    BY <1>6 DEF Lock, net
  <2>2. CASE Usable
    <3>1. Chosen(c) /\ UNCHANGED <<cache, lock, subscribed, knows>>
      BY <1>6, <2>2 DEF Lock, local
    <3>2. \E r : StepOf(c, r) /\ r.pc \in {"sent", "done"} BY <1>4, <2>1, <3>1
    <3>3. QED BY <2>1, <3>1, <3>2 DEF Asks
  <2>3. CASE ~Usable
    <3>1. /\ rpc' = [rpc EXCEPT ![c].pc = "refresh", ![c].listed = registry]
          /\ lock' = c /\ UNCHANGED <<cache, subscribed, knows>>
      BY <1>6, <2>3 DEF Lock
    <3>2. PICK r : r = [pc |-> "refresh", tried |-> rpc[c].tried, listed |-> registry,
                        answer |-> rpc[c].answer]
      OBVIOUS
    <3>3. [rpc[c] EXCEPT !.pc = "refresh", !.listed = registry] = r
      BY <1>1, <3>2, CallAsks, Zenon
    <3>4. rpc' = [rpc EXCEPT ![c] = [rpc[c] EXCEPT !.pc = "refresh", !.listed = registry]]
      BY <3>1
    <3>5. Moves(c, r) BY <3>3, <3>4 DEF Moves, ListsType
    <3>6. RpcRecord(r) /\ r.pc = "refresh" /\ r.tried = rpc[c].tried BY <3>2 DEF RpcRecord
    <3>7. StepOf(c, r) BY <2>1, <3>5, <3>6 DEF StepOf
    <3>8. QED BY <2>1, <3>1, <3>6, <3>7
  <2>4. QED BY <2>2, <2>3
<1>7. CASE Refreshed(c)
  <2>1. /\ UNCHANGED <<registry, pushes, closed, subscribed, knows>> /\ rpc[c].pc = "refresh"
        /\ rpc' = [rpc EXCEPT ![c].pc = IF knows THEN "choose" ELSE "subscribe"]
        /\ lock' = IF knows THEN NoCall ELSE lock
    BY <1>7 DEF Refreshed, net
  <2>2. CASE knows
    <3>1. \E r : StepOf(c, r) /\ r.pc = "choose" BY <1>2, <2>1, <2>2
    <3>2. QED BY <2>1, <2>2, <3>1 DEF Asks
  <2>3. CASE ~knows
    <3>1. \E r : StepOf(c, r) /\ r.pc = "subscribe" BY <1>2, <2>1, <2>3
    <3>2. QED BY <2>1, <2>3, <3>1
  <2>4. QED BY <2>2, <2>3
<1>8. CASE Degraded(c)
  <2>1. /\ UNCHANGED <<registry, pushes, closed, subscribed, knows>> /\ rpc[c].pc = "refresh"
        /\ lock' = NoCall
        /\ \/ rpc' = EndedWith(c, IF rpc[c].tried = {} THEN "unavailable" ELSE "error")
           \/ rpc' = [rpc EXCEPT ![c].pc = "choose"]
    BY <1>8 DEF Degraded, net
  <2>2. \E r : StepOf(c, r) /\ r.pc \in {"done", "choose"} BY <1>2, <1>3, <2>1
  <2>3. QED BY <2>1, <2>2 DEF Asks
<1>9. CASE Subscribe(c)
  <2>1. /\ UNCHANGED <<registry, pushes, closed, cache>> /\ rpc[c].pc = "subscribe"
        /\ lock' = NoCall /\ rpc' = [rpc EXCEPT ![c].pc = "choose"]
        /\ subscribed' \in {subscribed, subscribed + 1}
    BY <1>9 DEF Subscribe, net
  <2>2. \E r : StepOf(c, r) /\ r.pc = "choose" BY <1>2, <2>1
  <2>3. QED BY <2>1, <2>2 DEF Asks
<1>10. CASE Choose(c)
  <2>1. /\ UNCHANGED <<registry, pushes, closed, cache, lock, subscribed, knows>>
        /\ rpc[c].pc = "choose" /\ Chosen(c)
    BY <1>10 DEF Choose, net, local
  <2>2. \E r : StepOf(c, r) /\ r.pc \in {"sent", "done"} BY <1>4, <2>1
  <2>3. QED BY <2>1, <2>2 DEF Asks
<1>11. CASE Answered(c) \/ Failed(c)
  <2>1. /\ UNCHANGED <<registry, pushes, closed, cache, lock, subscribed, knows>>
        /\ rpc[c].pc = "sent"
        /\ (\E with : rpc' = EndedWith(c, with)) \/ rpc' = [rpc EXCEPT ![c].pc = "pick"]
    BY <1>11 DEF Answered, Failed, net, local
  <2>2. \E r : StepOf(c, r) /\ r.pc \in {"done", "pick"} BY <1>2, <1>3, <2>1
  <2>3. QED BY <2>1, <2>2 DEF Asks
<1>12. CASE Cancelled(c)
  <2>1. /\ UNCHANGED <<registry, pushes, closed, cache, knows>>
        /\ subscribed' \in {subscribed, subscribed + 1}
        /\ lock' = (IF lock = c THEN NoCall ELSE lock) /\ rpc' = EndedWith(c, "error")
    BY <1>12 DEF Cancelled, net
  <2>2. \E r : StepOf(c, r) /\ r.pc = "done" BY <1>3, <2>1
  <2>3. QED BY <2>1, <2>2 DEF Asks
<1>13. QED BY <1>5, <1>6, <1>7, <1>8, <1>9, <1>10, <1>11, <1>12 DEF Step

\* A step of a call keeps the lock and the subscription in order.
LEMMA CallKeeps ==
  ASSUME NoCall \notin Rpcs, RpcInv, NEW c \in Rpcs, Step(c)
  PROVE  RpcInv'
<1> USE DEF RpcInv
<1>1. PICK r :
        /\ StepOf(c, r)
        /\ \/ /\ r.pc \notin Asks /\ rpc[c].pc \notin Asks
              /\ UNCHANGED <<cache, lock, subscribed, knows>>
           \/ /\ rpc[c].pc = "wait" /\ r.pc = "refresh" /\ lock = NoCall /\ lock' = c
              /\ UNCHANGED <<cache, subscribed, knows>>
           \/ /\ rpc[c].pc = "refresh" /\ r.pc = "subscribe" /\ ~knows
              /\ UNCHANGED <<lock, subscribed, knows>>
           \/ /\ rpc[c].pc = "refresh" /\ r.pc \notin Asks
              /\ lock' = NoCall /\ UNCHANGED <<subscribed, knows>>
           \/ /\ rpc[c].pc = "subscribe" /\ r.pc \notin Asks /\ lock' = NoCall
              /\ UNCHANGED cache /\ subscribed' \in {subscribed, subscribed + 1}
           \/ /\ r.pc \notin Asks /\ lock' = (IF lock = c THEN NoCall ELSE lock)
              /\ UNCHANGED <<cache, knows>> /\ subscribed' \in {subscribed, subscribed + 1}
  BY CallSteps
<1>2. /\ rpc' = [d \in Rpcs |-> rpc'[d]] /\ rpc'[c] = r /\ RpcRecord(r)
      /\ \A d \in Rpcs : d # c => rpc'[d] = rpc[d]
      /\ UNCHANGED <<registry, pushes, closed>>
  BY <1>1 DEF StepOf, Moves
<1>3. ListsType'
  <2>1. \A d \in Rpcs : RpcRecord(rpc'[d]) BY <1>2 DEF ListsType
  <2>2. QED BY <1>2, <2>1 DEF ListsType
<1>4. LockHeld' BY <1>1, <1>2 DEF LockHeld, Asks
<1>5. SubscribedOnce'
  <2>1. subscribed' \in Nat BY <1>1 DEF SubscribedOnce
  <2>2. \A d \in Rpcs : rpc'[d].pc = "subscribe" => ~knows'
    <3>1. CASE UNCHANGED knows
      BY <1>1, <1>2, <3>1 DEF SubscribedOnce, Asks
    <3>2. CASE rpc[c].pc = "subscribe" /\ r.pc \notin Asks
      BY <1>2, <3>2 DEF LockHeld, Asks
    <3>3. QED BY <1>1, <3>1, <3>2
  <2>3. QED BY <2>1, <2>2 DEF SubscribedOnce
<1>6. QED BY <1>3, <1>4, <1>5

\* So does what Nacos and the end of the process do.
LEMMA RpcStep == ASSUME RpcParameters PROVE RpcInv /\ [RpcNext]_rpcVars => RpcInv'
<1> SUFFICES ASSUME RpcInv, [RpcNext]_rpcVars PROVE RpcInv' OBVIOUS
<1> USE DEF RpcInv
<1>1. NoCall \notin Rpcs /\ Registries \subseteq SUBSET Instances BY DEF RpcParameters
<1>2. ASSUME UNCHANGED <<rpc, lock, subscribed>>, pushes' \in Seq(SUBSET Instances),
             registry' \in SUBSET Instances, ~knows' \/ UNCHANGED knows
      PROVE  RpcInv'
  BY <1>2 DEF ListsType, LockHeld, SubscribedOnce
<1>3. CASE Change
  <2>1. registry' \in SUBSET Instances BY <1>1, <1>3 DEF Change
  <2>2. pushes' \in Seq(SUBSET Instances) BY <1>3, <2>1 DEF Change, ListsType
  <2>3. QED BY <1>2, <1>3, <2>1, <2>2 DEF Change, local
<1>4. CASE Push
  <2>1. pushes' \in Seq(SUBSET Instances) BY <1>4 DEF Push, ListsType
  <2>2. QED BY <1>2, <1>4, <2>1 DEF Push, ListsType
<1>5. CASE ListExpires BY <1>2, <1>5 DEF ListExpires, ListsType
<1>6. CASE Close BY <1>2, <1>6 DEF Close, ListsType
<1>7. CASE UNCHANGED rpcVars BY <1>2, <1>7 DEF rpcVars, ListsType
<1>8. QED BY <1>1, <1>3, <1>4, <1>5, <1>6, <1>7, CallKeeps DEF RpcNext

\* At first nothing is listed or subscribed to.
LEMMA RpcBegins == ASSUME RpcParameters PROVE RpcInit => RpcInv
<1> SUFFICES ASSUME RpcInit PROVE RpcInv OBVIOUS
<1>1. rpc = [c \in Rpcs |-> [pc |-> "pick", tried |-> {}, listed |-> {}, answer |-> "none"]]
  BY DEF RpcInit
<1>2. \A c \in Rpcs : RpcRecord(rpc[c]) /\ rpc[c].pc = "pick" BY <1>1 DEF RpcRecord
<1>3. ListsType BY <1>1, <1>2 DEF ListsType, RpcInit, RpcParameters
<1>4. LockHeld /\ SubscribedOnce BY <1>2 DEF LockHeld, SubscribedOnce, RpcInit
<1>5. QED BY <1>3, <1>4 DEF RpcInv

\* The invariant of the lock and of the subscription.
THEOREM RpcInvariant == ASSUME RpcParameters PROVE RpcSpec => []RpcInv
BY RpcBegins, RpcStep, PTL DEF RpcSpec

\* One call at a time refreshes a list, no call reaches the instance of another developer,
\* and an outage of the registry empties no list (service_discovery.py).
THEOREM RoutesStay == ASSUME RpcParameters PROVE RpcSpec => RoutesKept
<1>1. ASSUME RpcInv PROVE OneRefresher
  BY <1>1 DEF OneRefresher, RpcInv, LockHeld, SubscribedOnce
<1> DEFINE Gray == \A c \in Rpcs : \A i \in rpc'[c].tried \ rpc[c].tried :
             /\ Owner[i] \in {NoDev, Tag[c]}
             /\ Owner[i] = NoDev /\ Tag[c] # NoDev => \A j \in cache : Owner[j] # Tag[c]
           Tolerated == cache \notin {NoCache, {}} /\ cache' \in {NoCache, {}} =>
             closed' # closed \/ \E c \in Rpcs : rpc[c].pc = "refresh" /\ rpc'[c].pc # "refresh"
<1>2. ASSUME RpcInv, [RpcNext]_rpcVars PROVE Gray
  <2>1. CASE UNCHANGED rpc BY <2>1
  <2>2. ASSUME NEW c \in Rpcs, Step(c) PROVE Gray
    <3>1. PICK r : StepOf(c, r) BY <1>2, <2>2, CallSteps
    <3>2. /\ rpc'[c] = r /\ \A d \in Rpcs : d # c => rpc'[d] = rpc[d]
          /\ \A i \in r.tried \ rpc[c].tried : Fits(c, i)
      BY <3>1 DEF StepOf, Moves
    <3>3. QED BY <3>2 DEF Fits
  <2>3. QED
    BY <1>2, <2>1, <2>2 DEF RpcNext, Change, Push, ListExpires, Close, rpcVars
<1>3. ASSUME RpcInv, [RpcNext]_rpcVars PROVE Tolerated
  <2>1. CASE UNCHANGED cache BY <2>1
  <2>2. ASSUME NEW c \in Rpcs, Step(c) PROVE Tolerated
    <3>1. PICK r : StepOf(c, r) /\ (UNCHANGED cache \/ (rpc[c].pc = "refresh" /\ r.pc # "refresh"))
      BY <1>3, <2>2, CallSteps DEF Asks
    <3>2. rpc'[c] = r BY <3>1 DEF StepOf, Moves
    <3>3. QED BY <2>2, <3>1, <3>2
  <2>3. CASE Push
    <3>1. pushes # <<>> /\ Head(pushes) \in SUBSET Instances
      BY <1>3, <2>3 DEF Push, RpcInv, ListsType
    <3>2. UNCHANGED cache \/ (Head(pushes) # {} /\ cache' = Head(pushes)) BY <2>3 DEF Push
    <3>3. \A s \in SUBSET Instances : s # NoCache BY DEF RpcParameters
    <3>4. QED BY <3>1, <3>2, <3>3
  <2>4. CASE Close BY <2>4, Zenon DEF Close
  <2>5. QED
    BY <1>3, <2>1, <2>2, <2>3, <2>4 DEF RpcNext, Change, ListExpires, rpcVars, local
<1>4. RpcSpec => []OneRefresher BY <1>1, RpcInvariant, PTL
<1>5. RpcSpec => GrayKept BY <1>2, RpcInvariant, PTL DEF RpcSpec, GrayKept
<1>6. RpcSpec => OutageTolerated BY <1>3, RpcInvariant, PTL DEF RpcSpec, OutageTolerated
<1>7. QED BY <1>4, <1>5, <1>6 DEF RoutesKept

-----------------------------------------------------------------------------
(* The steps of a turn: what a provider streams, and what the client is shown       *)

Parts == {Text, Reasoning}

\* What a sequence says of open parts before some place it says whatever follows.
LEMMA OpenPast ==
  ASSUME NEW r, NEW s, NEW i \in Int, (\A k \in 1..i : r[k] = s[k]), NEW part
  PROVE  Open(r, part, i) <=> Open(s, part, i)
BY DEF Open

\* One more frame: its effect on what is open.
LEMMA OneMore ==
  ASSUME NEW S, NEW s \in Seq(S), NEW e \in S, InPairs(s),
         \A part \in Parts : /\ e.type \in {part.delta, part.end} => Open(s, part, Len(s))
                             /\ e.type = part.start => ~Open(s, part, Len(s))
  PROVE  /\ InPairs(Append(s, e))
         /\ \A part \in Parts :
              Open(Append(s, e), part, Len(s) + 1)
                <=> e.type = part.start \/ (Open(s, part, Len(s)) /\ e.type # part.end)
<1> DEFINE r == Append(s, e)
           n == Len(s)
<1>1. /\ n \in Nat /\ DOMAIN r = 1..n + 1 /\ DOMAIN s = 1..n /\ r[n + 1] = e
      /\ \A k \in 1..n : r[k] = s[k]
  OBVIOUS
<1> HIDE DEF r, n
<1>2. ASSUME NEW i \in 0..n, NEW part PROVE Open(r, part, i) <=> Open(s, part, i)
  <2>1. i \in Int /\ \A k \in 1..i : r[k] = s[k]
    BY <1>1
  <2> QED
    BY <2>1, OpenPast, Zenon
<1>3. InPairs(r)
  <2> SUFFICES ASSUME NEW part \in Parts, NEW i \in 1..n + 1
               PROVE  /\ r[i].type \in {part.delta, part.end} => Open(r, part, i - 1)
                      /\ r[i].type = part.start => ~Open(r, part, i - 1)
    BY <1>1 DEF InPairs, Parts
  <2>1. i - 1 \in 0..n
    BY <1>1
  <2>2. Open(r, part, i - 1) <=> Open(s, part, i - 1)
    BY <1>2, <2>1
  <2>3. CASE i = n + 1
    <3>1. r[i] = e /\ i - 1 = n
      BY <1>1, <2>3
    <3> QED
      BY <2>2, <3>1 DEF n
  <2>4. CASE i # n + 1
    <3>1. i \in DOMAIN s /\ r[i] = s[i]
      BY <1>1, <2>4
    <3> QED
      BY <2>2, <3>1 DEF InPairs, Parts
  <2> QED
    BY <2>3, <2>4
<1>4. ASSUME NEW part \in Parts
      PROVE  Open(r, part, n + 1) <=> e.type = part.start \/ (Open(r, part, n) /\ e.type # part.end)
  <2>1. part.start # part.end
    BY DEF Parts, Text, Reasoning
  <2>2. CASE e.type = part.start
    <3>1. n + 1 \in 1..n + 1 /\ \A k \in n + 1..n + 1 : k = n + 1
      BY <1>1
    <3> QED
      BY <1>1, <2>1, <2>2, <3>1 DEF Open
  <2>3. CASE e.type # part.start
    <3>1. ASSUME Open(r, part, n + 1) PROVE Open(r, part, n) /\ e.type # part.end
      <4>1. PICK j \in 1..n + 1 : r[j].type = part.start /\ \A k \in j..n + 1 : r[k].type # part.end
        BY <3>1 DEF Open
      <4>2. j \in 1..n
        BY <1>1, <2>3, <4>1
      <4>3. n + 1 \in j..n + 1 /\ \A k \in j..n : k \in j..n + 1
        BY <1>1, <4>2
      <4> QED
        BY <1>1, <4>1, <4>2, <4>3 DEF Open
    <3>2. ASSUME Open(r, part, n), e.type # part.end PROVE Open(r, part, n + 1)
      <4>1. PICK j \in 1..n : r[j].type = part.start /\ \A k \in j..n : r[k].type # part.end
        BY <3>2 DEF Open
      <4>2. j \in 1..n + 1 /\ \A k \in j..n + 1 : k \in j..n \/ k = n + 1
        BY <1>1
      <4> QED
        BY <1>1, <3>2, <4>1, <4>2 DEF Open
    <3> QED
      BY <2>3, <3>1, <3>2
  <2> QED
    BY <2>2, <2>3
<1>5. ASSUME NEW part PROVE Open(r, part, n) <=> Open(s, part, n)
  <2>1. n \in 0..n
    BY <1>1
  <2> QED
    BY <1>2, <2>1
<1> QED
  BY <1>3, <1>4, <1>5 DEF r, n

\* Frames of nothing but tools change nothing.
LEMMA Others ==
  ASSUME NEW S, NEW s \in Seq(S), NEW t \in Seq(S), InPairs(s),
         \A i \in 1..Len(t), part \in Parts : t[i].type \notin {part.start, part.delta, part.end}
  PROVE  /\ InPairs(s \o t)
         /\ \A part \in Parts : Open(s \o t, part, Len(s \o t)) <=> Open(s, part, Len(s))
<1> DEFINE r == s \o t
           n == Len(s)
           m == Len(t)
<1>1. /\ n \in Nat /\ m \in Nat /\ Len(r) = n + m /\ DOMAIN r = 1..n + m /\ DOMAIN s = 1..n
      /\ (\A k \in 1..n : r[k] = s[k]) /\ \A k \in n + 1..n + m : k - n \in 1..m /\ r[k] = t[k - n]
  OBVIOUS
<1>2. \A k \in n + 1..n + m, part \in Parts : r[k].type \notin {part.start, part.delta, part.end}
  BY <1>1
<1> HIDE DEF r, n, m
<1>3. ASSUME NEW i \in 0..n, NEW part PROVE Open(r, part, i) <=> Open(s, part, i)
  <2>1. i \in Int /\ \A k \in 1..i : r[k] = s[k]
    BY <1>1
  <2> QED
    BY <2>1, OpenPast, Zenon
<1>4. InPairs(r)
  <2> SUFFICES ASSUME NEW part \in Parts, NEW i \in 1..n + m
               PROVE  /\ r[i].type \in {part.delta, part.end} => Open(r, part, i - 1)
                      /\ r[i].type = part.start => ~Open(r, part, i - 1)
    BY <1>1 DEF InPairs, Parts
  <2>1. CASE i \in n + 1..n + m
    BY <1>2, <2>1
  <2>2. CASE i \in 1..n
    <3>1. i - 1 \in 0..n /\ i \in DOMAIN s /\ r[i] = s[i]
      BY <1>1, <2>2
    <3>2. Open(r, part, i - 1) <=> Open(s, part, i - 1)
      BY <1>3, <3>1
    <3> QED
      BY <3>1, <3>2 DEF InPairs, Parts
  <2> QED
    BY <1>1, <2>1, <2>2
<1>5. ASSUME NEW part \in Parts
      PROVE  Open(r, part, n + m) <=> Open(r, part, n)
  <2>1. ASSUME Open(r, part, n + m) PROVE Open(r, part, n)
    <3>1. PICK j \in 1..n + m : r[j].type = part.start /\ \A k \in j..n + m : r[k].type # part.end
      BY <2>1 DEF Open
    <3>2. j \notin n + 1..n + m
      BY <1>2, <3>1
    <3>3. j \in 1..n /\ \A k \in j..n : k \in j..n + m
      BY <1>1, <3>2
    <3> QED
      BY <3>1, <3>3 DEF Open
  <2>2. ASSUME Open(r, part, n) PROVE Open(r, part, n + m)
    <3>1. PICK j \in 1..n : r[j].type = part.start /\ \A k \in j..n : r[k].type # part.end
      BY <2>2 DEF Open
    <3>2. j \in 1..n + m /\ \A k \in j..n + m : k \in j..n \/ k \in n + 1..n + m
      BY <1>1
    <3>3. \A k \in n + 1..n + m : r[k].type # part.end
      BY <1>2
    <3> QED
      BY <3>1, <3>2, <3>3 DEF Open
  <2> QED
    BY <2>1, <2>2
<1>6. ASSUME NEW part PROVE Open(r, part, n) <=> Open(s, part, n)
  <2>1. n \in 0..n
    BY <1>1
  <2> QED
    BY <1>3, <2>1
<1> QED
  BY <1>1, <1>4, <1>5, <1>6 DEF r, n, m

\* Frames in pairs, after which the text or the reasoning may be open.
Stands(S, s, text, reasoning) ==
  /\ s \in Seq(S) /\ InPairs(s)
  /\ Open(s, Text, Len(s)) <=> text
  /\ Open(s, Reasoning, Len(s)) <=> reasoning

\* Frames in pairs, one frame more: what each type asks of what is open and leaves open.
LEMMA Adds ==
  ASSUME NEW S, NEW s, NEW x \in BOOLEAN, NEW y \in BOOLEAN, Stands(S, s, x, y), NEW e \in S
  PROVE  /\ e.type = "text-start" /\ ~x => Stands(S, Append(s, e), TRUE, y)
         /\ e.type = "text-delta" /\ x => Stands(S, Append(s, e), TRUE, y)
         /\ e.type = "text-end" /\ x => Stands(S, Append(s, e), FALSE, y)
         /\ e.type = "reasoning-start" /\ ~y => Stands(S, Append(s, e), x, TRUE)
         /\ e.type = "reasoning-delta" /\ y => Stands(S, Append(s, e), x, TRUE)
         /\ e.type = "reasoning-end" /\ y => Stands(S, Append(s, e), x, FALSE)
<1>1. s \in Seq(S) /\ InPairs(s) /\ (Open(s, Text, Len(s)) <=> x) /\ (Open(s, Reasoning, Len(s)) <=> y)
  BY DEF Stands
<1>2. Append(s, e) \in Seq(S) /\ Len(Append(s, e)) = Len(s) + 1
  BY <1>1
<1>3. /\ Parts = {Text, Reasoning}
      /\ Text.start = "text-start" /\ Text.delta = "text-delta" /\ Text.end = "text-end"
      /\ Reasoning.start = "reasoning-start" /\ Reasoning.delta = "reasoning-delta"
      /\ Reasoning.end = "reasoning-end"
  BY DEF Parts, Text, Reasoning
<1> DEFINE fits == \A part \in Parts : /\ e.type \in {part.delta, part.end} => Open(s, part, Len(s))
                                       /\ e.type = part.start => ~Open(s, part, Len(s))
<1>4. ASSUME fits
      PROVE  Stands(S, Append(s, e), e.type = "text-start" \/ (x /\ e.type # "text-end"),
                    e.type = "reasoning-start" \/ (y /\ e.type # "reasoning-end"))
  <2>1. /\ InPairs(Append(s, e))
        /\ \A part \in Parts :
             Open(Append(s, e), part, Len(s) + 1)
               <=> e.type = part.start \/ (Open(s, part, Len(s)) /\ e.type # part.end)
    BY <1>1, <1>4, OneMore
  <2> QED
    BY <1>1, <1>2, <1>3, <2>1 DEF Stands
<1>5. /\ e.type = "text-start" /\ ~x => fits
      /\ e.type \in {"text-delta", "text-end"} /\ x => fits
      /\ e.type = "reasoning-start" /\ ~y => fits
      /\ e.type \in {"reasoning-delta", "reasoning-end"} /\ y => fits
  BY <1>1, <1>3
<1> HIDE DEF fits
<1>6. CASE e.type = "text-start"
  BY <1>4, <1>5, <1>6 DEF Stands
<1>7. CASE e.type = "text-delta"
  BY <1>4, <1>5, <1>7 DEF Stands
<1>8. CASE e.type = "text-end"
  BY <1>4, <1>5, <1>8 DEF Stands
<1>9. CASE e.type = "reasoning-start"
  BY <1>4, <1>5, <1>9 DEF Stands
<1>10. CASE e.type = "reasoning-delta"
  BY <1>4, <1>5, <1>10 DEF Stands
<1>11. CASE e.type = "reasoning-end"
  BY <1>4, <1>5, <1>11 DEF Stands
<1> QED
  BY <1>6, <1>7, <1>8, <1>9, <1>10, <1>11

\* Sequences joined: the end, one element and three parts.
LEMMA Joins ==
  ASSUME NEW S, NEW s \in Seq(S)
  PROVE  /\ s \o << >> = s
         /\ \A a \in S : s \o <<a>> = Append(s, a)
         /\ \A t \in Seq(S), u \in Seq(S) : s \o (t \o u) = (s \o t) \o u /\ s \o t \in Seq(S)
         /\ \A t \in Seq(S), a \in S : s \o Append(t, a) = Append(s \o t, a)
         /\ \A a \in S : <<a>> \in Seq(S)
         /\ << >> \in Seq(S)
<1>1. s \o << >> = s
  OBVIOUS
<1>2. \A a \in S : s \o <<a>> = Append(s, a)
  OBVIOUS
<1>3. \A t \in Seq(S), u \in Seq(S) : s \o (t \o u) = (s \o t) \o u
  OBVIOUS
<1>4. \A t \in Seq(S), a \in S : s \o Append(t, a) = Append(s \o t, a)
  OBVIOUS
<1>5. (\A a \in S : <<a>> \in Seq(S)) /\ << >> \in Seq(S) /\ \A t \in Seq(S) : s \o t \in Seq(S)
  OBVIOUS
<1> QED
  BY <1>1, <1>2, <1>3, <1>4, <1>5

Shape(st) ==
  st = [content |-> st.content, reasoning |-> st.reasoning, calls |-> st.calls, payload |-> st.payload,
        text_started |-> st.text_started, reasoning_started |-> st.reasoning_started, usage |-> st.usage]

Deltas == {"TEXT_DELTA", "REASONING_DELTA"}

\* What is sent for an event keeps the parts in pairs, and the interpreter's flags true.
LEMMA EventFrames ==
  ASSUME NEW S, NEW s, NEW st, NEW e, Shape(st), e.type \in Deltas \cup {"USAGE", "TOOL_CALLS", "STATE"},
         st.text_started \in BOOLEAN, st.reasoning_started \in BOOLEAN,
         Stands(S, s, st.text_started, st.reasoning_started),
         {Event("text-start", 0), Event("reasoning-start", 0), Event("reasoning-end", 0),
          Event("text-delta", e.x), Event("reasoning-delta", e.x)} \subseteq S
  PROVE  Stands(S, s \o FramesOf(st, e), Consumed(st, e).text_started, Consumed(st, e).reasoning_started)
<1> DEFINE x == st.text_started
           y == st.reasoning_started
           start == Event("text-start", 0)
           begin == Event("reasoning-start", 0)
           stop  == Event("reasoning-end", 0)
           token == Event("text-delta", e.x)
           thought == Event("reasoning-delta", e.x)
<1>1. s \in Seq(S)
  BY DEF Stands
<1>2. /\ start \in S /\ begin \in S /\ stop \in S /\ token \in S /\ thought \in S
      /\ start.type = "text-start" /\ begin.type = "reasoning-start" /\ stop.type = "reasoning-end"
      /\ token.type = "text-delta" /\ thought.type = "reasoning-delta"
  BY DEF Event
<1>3. CASE e.type \notin Deltas
  <2>1. FramesOf(st, e) = << >>
    BY <1>3 DEF FramesOf, Deltas
  <2>2. Consumed(st, e).text_started = x /\ Consumed(st, e).reasoning_started = y
    BY <1>3 DEF Consumed, Deltas, Shape
  <2> QED
    BY <1>1, <2>1, <2>2, Joins
<1>4. CASE e.type = "REASONING_DELTA"
  <2>1. Consumed(st, e).text_started = x /\ Consumed(st, e).reasoning_started = TRUE
    BY <1>4 DEF Consumed, Shape
  <2>2. FramesOf(st, e) = Append(IF y THEN << >> ELSE <<begin>>, thought)
    BY <1>4 DEF FramesOf, Begun
  <2> HIDE DEF begin, thought, start, stop, token
  <2>3. CASE y
    <3>1. s \o FramesOf(st, e) = Append(s, thought)
      BY <1>1, <1>2, <2>2, <2>3, Joins
    <3>2. Stands(S, Append(s, thought), x, TRUE)
      BY <1>2, <2>3, Adds
    <3> QED
      BY <2>1, <3>1, <3>2
  <2>4. CASE ~y
    <3>1. s \o FramesOf(st, e) = Append(Append(s, begin), thought)
      BY <1>1, <1>2, <2>2, <2>4, Joins
    <3>2. Stands(S, Append(s, begin), x, TRUE)
      BY <1>2, <2>4, Adds
    <3>3. Stands(S, Append(Append(s, begin), thought), x, TRUE)
      BY <1>2, <3>2, Adds
    <3> QED
      BY <2>1, <3>1, <3>3
  <2> QED
    BY <2>3, <2>4
<1>5. CASE e.type = "TEXT_DELTA"
  <2>1. Consumed(st, e).text_started = TRUE /\ Consumed(st, e).reasoning_started = (y /\ x)
    BY <1>5 DEF Consumed, Shape
  <2>2. FramesOf(st, e)
          = Append(IF x THEN << >> ELSE (IF y THEN <<stop>> ELSE << >>) \o <<start>>, token)
    BY <1>5 DEF FramesOf, Begun
  <2> HIDE DEF begin, thought, start, stop, token
  <2>3. ASSUME NEW r, NEW v \in BOOLEAN, Stands(S, r, TRUE, v)
        PROVE  Stands(S, Append(r, token), TRUE, v)
    BY <1>2, <2>3, Adds
  <2>4. ASSUME NEW r, Stands(S, r, FALSE, FALSE)
        PROVE  Stands(S, Append(r, start), TRUE, FALSE)
    BY <1>2, <2>4, Adds
  <2>5. CASE x
    <3>1. s \o FramesOf(st, e) = Append(s, token)
      BY <1>1, <1>2, <2>2, <2>5, Joins
    <3>2. Stands(S, s, TRUE, y)
      BY <2>5 DEF Stands
    <3>3. Stands(S, Append(s, token), TRUE, y)
      BY <2>3, <3>2
    <3>4. Consumed(st, e).reasoning_started = y
      BY <2>1, <2>5
    <3> QED
      BY <2>1, <3>1, <3>3, <3>4
  <2>6. CASE ~x /\ ~y
    <3>1. s \o FramesOf(st, e) = Append(Append(s, start), token)
      <4>1. FramesOf(st, e) = Append(<< >> \o <<start>>, token)
        BY <2>2, <2>6
      <4>2. << >> \in Seq(S) /\ <<start>> \in Seq(S) /\ << >> \o <<start>> \in Seq(S)
        BY <1>2
      <4> QED
        BY <1>1, <1>2, <4>1, <4>2, Joins
    <3>2. Stands(S, s, FALSE, FALSE)
      BY <2>6 DEF Stands
    <3>3. Stands(S, Append(Append(s, start), token), TRUE, FALSE)
      BY <2>3, <2>4, <3>2
    <3>4. Consumed(st, e).reasoning_started = FALSE
      BY <2>1, <2>6
    <3> QED
      BY <2>1, <3>1, <3>3, <3>4
  <2>7. CASE ~x /\ y
    <3>1. s \o FramesOf(st, e) = Append(Append(Append(s, stop), start), token)
      <4>1. FramesOf(st, e) = Append(<<stop>> \o <<start>>, token)
        BY <2>2, <2>7
      <4>2. <<stop>> \in Seq(S) /\ <<start>> \in Seq(S) /\ <<stop>> \o <<start>> \in Seq(S)
            /\ Append(s, stop) \in Seq(S)
        BY <1>1, <1>2
      <4>3. s \o FramesOf(st, e) = Append(s \o (<<stop>> \o <<start>>), token)
        BY <1>1, <1>2, <4>1, <4>2, Joins
      <4>4. s \o (<<stop>> \o <<start>>) = (s \o <<stop>>) \o <<start>>
        BY <1>1, <4>2, Joins
      <4>5. (s \o <<stop>>) \o <<start>> = Append(Append(s, stop), start)
        BY <1>1, <1>2, <4>2, Joins
      <4> QED
        BY <4>3, <4>4, <4>5
    <3>2. Stands(S, Append(s, stop), x, FALSE)
      BY <1>2, <2>7, Adds
    <3>3. Stands(S, Append(s, stop), FALSE, FALSE)
      BY <2>7, <3>2 DEF Stands
    <3>4. Stands(S, Append(Append(Append(s, stop), start), token), TRUE, FALSE)
      BY <2>3, <2>4, <3>3
    <3>5. Consumed(st, e).reasoning_started = FALSE
      BY <2>1, <2>7
    <3> QED
      BY <2>1, <3>1, <3>4, <3>5
  <2> QED
    BY <2>5, <2>6, <2>7
<1> QED
  BY <1>3, <1>4, <1>5 DEF Deltas

\* Sequences are joined in any order.
LEMMA JoinsTwo ==
  ASSUME NEW S, NEW s \in Seq(S), NEW t \in Seq(S), NEW u \in Seq(S)
  PROVE  s \o (t \o u) = (s \o t) \o u
OBVIOUS

\* Once the interpreter is closed nothing is open.
LEMMA ClosedFrames ==
  ASSUME NEW S, NEW s, NEW st, st.text_started \in BOOLEAN, st.reasoning_started \in BOOLEAN,
         Stands(S, s, st.text_started, st.reasoning_started),
         Event("text-end", 0) \in S, Event("reasoning-end", 0) \in S
  PROVE  LET r == s \o Closed(st) IN
         InPairs(r) /\ ~Open(r, Text, Len(r)) /\ ~Open(r, Reasoning, Len(r))
<1> SUFFICES Stands(S, s \o Closed(st), FALSE, FALSE)
  BY DEF Stands
<1> DEFINE x == st.text_started
           y == st.reasoning_started
           over == Event("text-end", 0)
           stop == Event("reasoning-end", 0)
<1>1. s \in Seq(S)
  BY DEF Stands
<1>2. over \in S /\ stop \in S /\ over.type = "text-end" /\ stop.type = "reasoning-end"
  BY DEF Event
<1>3. Closed(st) = (IF y THEN <<stop>> ELSE << >>) \o (IF x THEN <<over>> ELSE << >>)
  BY DEF Closed
<1> HIDE DEF over, stop
<1>10. s \o Closed(st) = IF y THEN IF x THEN Append(Append(s, stop), over) ELSE Append(s, stop)
                         ELSE IF x THEN Append(s, over) ELSE s
  <2> DEFINE first == IF y THEN <<stop>> ELSE << >>
             then  == IF x THEN <<over>> ELSE << >>
  <2>1. first \in Seq(S) /\ then \in Seq(S)
    BY <1>2
  <2>2. s \o Closed(st) = (s \o first) \o then
    <3>1. Closed(st) = first \o then
      BY <1>3
    <3> HIDE DEF first, then
    <3>2. ASSUME NEW t \in Seq(S), NEW u \in Seq(S) PROVE s \o (t \o u) = (s \o t) \o u
      BY <1>1, JoinsTwo, SMTT(30)
    <3>3. s \o (first \o then) = (s \o first) \o then
      BY <2>1, <3>2, Zenon
    <3> QED
      BY <3>1, <3>3, Zenon
  <2>3. s \o first = IF y THEN Append(s, stop) ELSE s
    BY <1>1, <1>2, Joins
  <2>4. s \o first \in Seq(S)
    BY <1>1, <2>1
  <2>5. (s \o first) \o then = IF x THEN Append(s \o first, over) ELSE s \o first
    <3>1. ASSUME NEW r \in Seq(S) PROVE r \o then = IF x THEN Append(r, over) ELSE r
      <4>1. CASE x
        BY <1>2, <3>1, <4>1, Joins
      <4>2. CASE ~x
        <5>1. r \o << >> = r
          BY <3>1, Joins, Zenon
        <5> QED
          BY <4>2, <5>1
      <4> QED
        BY <4>1, <4>2
    <3> HIDE DEF first, then
    <3> QED
      BY <2>4, <3>1
  <2> QED
    BY <2>2, <2>3, <2>5
<1>4. ASSUME NEW r, Stands(S, r, TRUE, FALSE) PROVE Stands(S, Append(r, over), FALSE, FALSE)
  BY <1>2, <1>4, Adds
<1>5. ASSUME y PROVE Stands(S, Append(s, stop), x, FALSE)
  BY <1>2, <1>5, Adds
<1>6. CASE y /\ x
  <2>1. s \o Closed(st) = Append(Append(s, stop), over)
    BY <1>10, <1>6
  <2>2. Stands(S, Append(s, stop), TRUE, FALSE)
    BY <1>5, <1>6 DEF Stands
  <2> QED
    BY <1>4, <2>1, <2>2
<1>7. CASE y /\ ~x
  <2>1. s \o Closed(st) = Append(s, stop)
    BY <1>10, <1>7
  <2> QED
    BY <1>5, <1>7, <2>1 DEF Stands
<1>8. CASE ~y /\ x
  <2>1. s \o Closed(st) = Append(s, over)
    BY <1>10, <1>8
  <2>2. Stands(S, s, TRUE, FALSE)
    BY <1>8 DEF Stands
  <2> QED
    BY <1>4, <2>1, <2>2
<1>9. CASE ~y /\ ~x
  <2>1. s \o Closed(st) = s
    BY <1>10, <1>9
  <2> QED
    BY <1>9, <2>1 DEF Stands
<1> QED
  BY <1>6, <1>7, <1>8, <1>9

-----------------------------------------------------------------------------
(* What a sequence has at some places.                                      *)

\* A set of numbers has a least one.
LEMMA Least ==
  ASSUME NEW T \in SUBSET Nat, T # {}
  PROVE  \E m \in T : \A n \in T : m <= n
<1> DEFINE R == OpToRel(<, Nat)
<1>1. IsWellFoundedOn(R, Nat)
  BY NatLessThanWellFounded
<1> HIDE DEF R
<1>2. PICK m \in T : \A n \in T : ~(<<n, m>> \in R)
  BY <1>1, WFMin, Zenon
<1>3. \A n \in T : ~(n < m)
  BY <1>2 DEF R, OpToRel
<1> QED
  BY <1>3

\* A value computed in steps.
Stepwise(f, n, T, a, how) ==
  f \in [0..n -> T] /\ f[0] = a /\ \A i \in 1..n : f[i] = how[i][f[i - 1]]

\* A function that is given step by step exists and takes the steps.
LEMMA StepsExist ==
  ASSUME NEW n \in Nat, NEW T, NEW a \in T, NEW how \in [1..n -> [T -> T]]
  PROVE  \E f : Stepwise(f, n, T, a, how)
<1> DEFINE Upto(f, m) == f[0] = a /\ \A i \in 1..m : f[i] = how[i][f[i - 1]]
           Bad == {m \in 0..n : ~\E f \in [0..n -> T] : Upto(f, m)}
<1> SUFFICES ASSUME Bad # {} PROVE FALSE
  <2>1. n \in 0..n
    OBVIOUS
  <2>2. Bad = {} => \E f \in [0..n -> T] : Upto(f, n)
    BY <2>1
  <2> QED
    BY <2>2 DEF Stepwise
<1>1. PICK m \in Bad : \A k \in Bad : m <= k
  <2>1. Bad \in SUBSET Nat
    OBVIOUS
  <2> HIDE DEF Bad
  <2> QED
    BY <2>1, Least
<1>2. m # 0
  <2>1. [i \in 0..n |-> a] \in [0..n -> T] /\ Upto([i \in 0..n |-> a], 0)
    OBVIOUS
  <2> QED
    BY <1>1, <2>1
<1>3. PICK f \in [0..n -> T] : Upto(f, m - 1)
  <2>1. m - 1 \in 0..n /\ ~(m <= m - 1)
    BY <1>1, <1>2
  <2> QED
    BY <1>1, <2>1
<1> DEFINE g == [f EXCEPT ![m] = how[m][f[m - 1]]]
<1>4. m \in 1..n /\ m - 1 \in 0..n
  BY <1>1, <1>2
<1>5. g \in [0..n -> T]
  BY <1>4
<1>6. Upto(g, m)
  <2>1. g[0] = a
    BY <1>3, <1>4
  <2>2. ASSUME NEW i \in 1..m
        PROVE  g[i] = how[i][g[i - 1]]
    <3>1. i \in 0..n /\ i - 1 \in 0..n /\ i - 1 # m /\ (i # m => i \in 1..m - 1)
      BY <1>4
    <3>2. g[i - 1] = f[i - 1]
      BY <3>1
    <3>3. CASE i = m
      BY <1>4, <3>2, <3>3
    <3>4. CASE i # m
      BY <1>3, <3>1, <3>2, <3>4
    <3> QED
      BY <3>3, <3>4
  <2> QED
    BY <2>1, <2>2
<1> QED
  BY <1>1, <1>5, <1>6

\* How Kept comes to its result.
LEMMA KeptSteps ==
  ASSUME NEW S, NEW s \in Seq(S), NEW I
  PROVE  \E f : /\ f[0] = << >>
                /\ \A i \in 1..Len(s) : f[i] = IF i \in I THEN Append(f[i - 1], s[i]) ELSE f[i - 1]
                /\ \A i \in 0..Len(s) : f[i] \in Seq(S)
                /\ Kept(s, I) = f[Len(s)]
<1> DEFINE n == Len(s)
           T == Seq(S)
           Steps(f) == f = [i \in 0..n |->
                              IF i = 0 THEN << >>
                              ELSE IF i \in I THEN Append(f[i - 1], s[i]) ELSE f[i - 1]]
           how == [i \in 1..n |-> [q \in T |-> IF i \in I THEN Append(q, s[i]) ELSE q]]
           kept == CHOOSE f : Steps(f)
<1>1. n \in Nat /\ << >> \in T /\ how \in [1..n -> [T -> T]]
  OBVIOUS
<1>2. PICK f : Stepwise(f, n, T, << >>, how)
  <2> HIDE DEF how, T, n
  <2> QED
    BY <1>1, StepsExist, Zenon
<1>3. ASSUME NEW i \in 1..n PROVE f[i] = IF i \in I THEN Append(f[i - 1], s[i]) ELSE f[i - 1]
  <2>1. i - 1 \in 0..n
    <3> HIDE DEF how, T, n
    <3> QED
      BY <1>1
  <2>2. f[i - 1] \in T /\ f[i] = how[i][f[i - 1]]
    <3> HIDE DEF how, T, n
    <3> QED
      BY <1>2, <2>1 DEF Stepwise
  <2>3. how[i] = [q \in T |-> IF i \in I THEN Append(q, s[i]) ELSE q]
    OBVIOUS
  <2> HIDE DEF T, how
  <2> QED
    BY <2>2, <2>3
<1>4. Steps(f)
  <2>1. \A i \in 0..n : i # 0 => i \in 1..n
    BY <1>1
  <2>2. f = [i \in 0..n |-> f[i]] /\ f[0] = << >>
    BY <1>2 DEF Stepwise
  <2> QED
    BY <1>3, <2>1, <2>2
<1>5. Steps(kept) /\ Kept(s, I) = kept[n]
  <2>1. Steps(kept)
    <3> HIDE DEF Steps
    <3> QED
      BY <1>4
  <2> QED
    BY <2>1 DEF Kept
<1> HIDE DEF kept
<1>6. /\ kept[0] = << >>
      /\ \A i \in 1..n : kept[i] = IF i \in I THEN Append(kept[i - 1], s[i]) ELSE kept[i - 1]
  <2>1. ASSUME NEW i \in 0..n
        PROVE  kept[i] = IF i = 0 THEN << >>
                         ELSE IF i \in I THEN Append(kept[i - 1], s[i]) ELSE kept[i - 1]
    BY <1>5, Zenon
  <2>2. 0 \in 0..n /\ \A i \in 1..n : i \in 0..n /\ i # 0
    BY <1>1
  <2> QED
    BY <2>1, <2>2
<1> DEFINE Bad == {m \in 0..n : kept[m] \notin T}
<1>7. Bad = {}
  <2> SUFFICES ASSUME Bad # {} PROVE FALSE
    OBVIOUS
  <2>1. PICK m \in Bad : \A k \in Bad : m <= k
    <3>1. Bad \in SUBSET Nat
      OBVIOUS
    <3> HIDE DEF Bad
    <3> QED
      BY <3>1, Least
  <2>2. m # 0
    BY <1>1, <1>6, <2>1
  <2>3. m \in 1..n /\ m - 1 \in 0..n /\ m - 1 \in Nat /\ ~(m <= m - 1)
    BY <1>1, <2>1, <2>2
  <2>4. kept[m - 1] \in T
    BY <2>1, <2>3
  <2>5. kept[m] \in T
    <3>1. s[m] \in S
      BY <2>3
    <3>2. kept[m] = IF m \in I THEN Append(kept[m - 1], s[m]) ELSE kept[m - 1]
      BY <1>6, <2>3
    <3> HIDE DEF n
    <3> QED
      BY <2>4, <3>1, <3>2
  <2> QED
    BY <2>1, <2>5
<1> QED
  BY <1>5, <1>6, <1>7

\* Kept takes elements of its sequence.
LEMMA KeptSeq ==
  ASSUME NEW S, NEW s \in Seq(S), NEW I
  PROVE  Kept(s, I) \in Seq(S)
<1>1. Len(s) \in 0..Len(s)
  OBVIOUS
<1> QED
  BY <1>1, KeptSteps

-----------------------------------------------------------------------------
(* Sequences of whatever they hold.                                         *)

Elems(s) == {s[i] : i \in 1..Len(s)}
AnySeq(s) == s \in Seq(Elems(s))

\* A function of 1..n is a sequence of its elements.
LEMMA AnyOf ==
  ASSUME NEW S, NEW s \in Seq(S)
  PROVE  /\ AnySeq(s) /\ Len(s) \in Nat /\ DOMAIN s = 1..Len(s)
         /\ \A U : Elems(s) \subseteq U => s \in Seq(U)
<1>1. Len(s) \in Nat /\ DOMAIN s = 1..Len(s) /\ s = [i \in 1..Len(s) |-> s[i]]
  OBVIOUS
<1>2. ASSUME NEW U, Elems(s) \subseteq U PROVE s \in Seq(U)
  <2>1. \A i \in 1..Len(s) : s[i] \in U
    BY <1>2 DEF Elems
  <2> QED
    BY <1>1, <2>1
<1> QED
  BY <1>1, <1>2 DEF AnySeq

\* A sequence that is written as a function.
LEMMA AnyFunction ==
  ASSUME NEW n \in Nat, NEW f, f = [i \in 1..n |-> f[i]]
  PROVE  AnySeq(f) /\ Len(f) = n
<1>1. f \in Seq({f[i] : i \in 1..n})
  OBVIOUS
<1>2. Len(f) = n
  OBVIOUS
<1> QED
  BY <1>1, <1>2 DEF AnySeq, Elems

\* What two sequences hold together.
LEMMA AnyJoin ==
  ASSUME NEW s, NEW t, AnySeq(s), AnySeq(t)
  PROVE  /\ AnySeq(s \o t) /\ Elems(s \o t) = Elems(s) \cup Elems(t)
         /\ Len(s) \in Nat /\ Len(t) \in Nat /\ Len(s \o t) = Len(s) + Len(t)
<1> DEFINE U == Elems(s) \cup Elems(t)
<1>1. s \in Seq(U) /\ t \in Seq(U)
  BY AnyOf DEF AnySeq
<1> HIDE DEF U
<1>2. /\ s \o t \in Seq(U) /\ Len(s) \in Nat /\ Len(t) \in Nat /\ Len(s \o t) = Len(s) + Len(t)
      /\ \A i \in 1..Len(s) : (s \o t)[i] = s[i]
      /\ \A i \in Len(s) + 1..Len(s) + Len(t) : (s \o t)[i] = t[i - Len(s)]
  BY <1>1
<1>3. AnySeq(s \o t)
  BY <1>2, AnyOf
<1>4. Elems(s \o t) \subseteq U
  BY <1>2 DEF U, Elems
<1>5. ASSUME NEW x \in Elems(s) PROVE x \in Elems(s \o t)
  <2>1. PICK i \in 1..Len(s) : x = s[i]
    BY DEF Elems
  <2>2. i \in 1..Len(s \o t) /\ x = (s \o t)[i]
    BY <1>2, <2>1
  <2> QED
    BY <2>2 DEF Elems
<1>6. ASSUME NEW x \in Elems(t) PROVE x \in Elems(s \o t)
  <2>1. PICK i \in 1..Len(t) : x = t[i]
    BY DEF Elems
  <2>2. Len(s) + i \in Len(s) + 1..Len(s) + Len(t) /\ Len(s) + i - Len(s) = i
        /\ Len(s) + i \in 1..Len(s \o t)
    BY <1>2
  <2>3. x = (s \o t)[Len(s) + i]
    BY <1>2, <2>1, <2>2
  <2> QED
    BY <2>2, <2>3 DEF Elems
<1> QED
  BY <1>2, <1>3, <1>4, <1>5, <1>6 DEF U

\* What a sequence holds after one element more.
LEMMA AnyMore ==
  ASSUME NEW s, AnySeq(s), NEW x
  PROVE  AnySeq(Append(s, x)) /\ Elems(Append(s, x)) = Elems(s) \cup {x}
<1> DEFINE U == Elems(s) \cup {x}
<1>1. s \in Seq(U) /\ x \in U
  BY AnyOf DEF AnySeq
<1> HIDE DEF U
<1>2. /\ Append(s, x) \in Seq(U) /\ Len(s) \in Nat /\ Len(Append(s, x)) = Len(s) + 1
      /\ (\A i \in 1..Len(s) : Append(s, x)[i] = s[i]) /\ Append(s, x)[Len(s) + 1] = x
  BY <1>1
<1>3. AnySeq(Append(s, x))
  BY <1>2, AnyOf
<1> QED
  BY <1>2, <1>3 DEF Elems

\* The sequence of one element.
LEMMA AnyOne ==
  ASSUME NEW x
  PROVE  /\ AnySeq(<< >>) /\ Len(<< >>) = 0 /\ Elems(<< >>) = {}
         /\ AnySeq(<<x>>) /\ Len(<<x>>) = 1 /\ <<x>>[1] = x /\ Elems(<<x>>) = {x}
<1>1. << >> \in Seq({x}) /\ <<x>> \in Seq({x}) /\ Len(<< >>) = 0 /\ Len(<<x>>) = 1 /\ <<x>>[1] = x
  OBVIOUS
<1>2. AnySeq(<< >>) /\ AnySeq(<<x>>)
  BY <1>1, AnyOf
<1> QED
  BY <1>1, <1>2 DEF Elems

\* What is left of a sequence after its first.
LEMMA AnyTail ==
  ASSUME NEW s, AnySeq(s), s # << >>
  PROVE  /\ AnySeq(Tail(s)) /\ Len(s) \in Nat /\ Len(s) > 0 /\ Len(Tail(s)) = Len(s) - 1
         /\ Head(s) = s[1]
         /\ \A i \in 1..Len(s) - 1 : Tail(s)[i] = s[i + 1]
<1>1. s \in Seq(Elems(s))
  BY DEF AnySeq
<1> DEFINE U == Elems(s)
<1> HIDE DEF U
<1>2. /\ Tail(s) \in Seq(U) /\ Len(s) \in Nat /\ Len(s) > 0 /\ Len(Tail(s)) = Len(s) - 1
      /\ Head(s) = s[1] /\ \A i \in 1..Len(s) - 1 : Tail(s)[i] = s[i + 1]
  BY <1>1 DEF U
<1> QED
  BY <1>2, AnyOf

\* What is kept of a sequence is of the sequence.
LEMMA AnyKept ==
  ASSUME NEW s, AnySeq(s), NEW I
  PROVE  AnySeq(Kept(s, I))
BY KeptSeq, AnyOf DEF AnySeq

-----------------------------------------------------------------------------
(* The inductive invariant                                                  *)

Roles == {"user", "assistant", "tool"}

\* Messages of the known roles.
Roled(s) == AnySeq(s) /\ \A x \in Elems(s) : x.role \in Roles

\* A suspended chat has a record, and the calls of its step.
PendingShape(q) == q # NoId => Roled(q.record) /\ q.record # << >> /\ AnySeq(q.calls)

AccShape(a) ==
  /\ a = [parts |-> a.parts, text |-> a.text, thought |-> a.thought, frags |-> a.frags, usage |-> a.usage]
  /\ AnySeq(a.parts) /\ AnySeq(a.frags) /\ AnySeq(a.usage)

StreamShape ==
  /\ Roled(history) /\ Roled(record) /\ PendingShape(pending)
  /\ AnySeq(frames) /\ AnySeq(queue) /\ AccShape(acc)
  /\ Shape(step) /\ AnySeq(step.calls) /\ AnySeq(step.usage)
  /\ step.text_started \in BOOLEAN /\ step.reasoning_started \in BOOLEAN
  /\ phase = "resume" => pending # NoId /\ frames = << >>

\* Events that wait are of a stream that is read, or of its ending; a report of the usage
\* is the first of these.
QueueInv ==
  \A i \in 1..Len(queue) :
    /\ queue[i].type \in Deltas \cup {"USAGE", "TOOL_CALLS", "STATE"}
    /\ phase = "stream" => queue[i].type \in Deltas \cup {"USAGE"}
    /\ queue[i].type = "TOOL_CALLS" => AnySeq(queue[i].x)
    /\ queue[i].type = "USAGE" =>
         i = 1 /\ acc.usage = Append(step.usage, queue[i].x) /\ (phase = "stream" => asked = "openai")

NoReport(q) == \A i \in 1..Len(q) : q[i].type # "USAGE"

\* What waits is all that is not billed yet; a provider that reports again and again is
\* heard at the end of its stream.
UsageInv ==
  /\ (phase = "end" \/ (phase = "stream" /\ asked = "openai")) /\ NoReport(queue) => step.usage = acc.usage
  /\ phase = "stream" /\ asked # "openai" =>
       step.usage = << >> /\ (acc.usage = << >> \/ \E x : acc.usage = <<x>>)

\* The interpreter's flags say which parts are open.
FlagsTrue ==
  phase \in {"stream", "end"} => Stands(Elems(frames), frames, step.text_started, step.reasoning_started)

StreamInv == StepInv /\ StreamShape /\ QueueInv /\ UsageInv /\ FlagsTrue

-----------------------------------------------------------------------------
(* Reading a stream                                                         *)

\* The bound is a number, and a step of the work keeps within it.
LEMMA Limits ==
  ASSUME StreamParameters
  PROVE  /\ MaxWork \in Nat /\ 1 <= MaxWork
         /\ StreamInv => made \in Nat /\ steps \in Nat /\ turns \in Nat
         /\ StreamInv /\ WorkLeft => made + steps + turns + 1 <= MaxWork
<1>1. MaxWork \in Nat /\ 1 <= MaxWork
  <2>1. MaxWork \in Nat \ {0}
    BY Zenon DEF StreamParameters
  <2> QED
    BY <2>1
<1>2. ASSUME StreamInv PROVE made \in Nat /\ steps \in Nat /\ turns \in Nat
  BY <1>2 DEF StreamInv, StepInv, StreamTypeOK
<1>3. ASSUME StreamInv, WorkLeft PROVE made + steps + turns + 1 <= MaxWork
  BY <1>1, <1>2, <1>3 DEF WorkLeft
<1> QED
  BY <1>1, <1>2, <1>3

\* Messages, and their roles one by one.
LEMMA RolesOf == ASSUME NEW s, Roled(s) PROVE \A i \in DOMAIN s : s[i].role \in Roles
BY AnyOf DEF Roled, AnySeq, Elems

\* Messages after messages.
LEMMA RoledJoin == ASSUME NEW s, NEW t, Roled(s), Roled(t) PROVE Roled(s \o t)
BY AnyJoin DEF Roled

\* One message, or none.
LEMMA RoledOne == ASSUME NEW m, m.role \in Roles PROVE Roled(<<m>>) /\ Roled(<< >>)
BY AnyOne DEF Roled

\* The messages without the first.
LEMMA RoledTail == ASSUME NEW s, Roled(s), s # << >> PROVE Roled(Tail(s))
<1>1. /\ AnySeq(Tail(s)) /\ Len(s) \in Nat /\ Len(Tail(s)) = Len(s) - 1
      /\ \A i \in 1..Len(s) - 1 : Tail(s)[i] = s[i + 1]
  BY AnyTail DEF Roled
<1>2. \A i \in 1..Len(Tail(s)) : i + 1 \in 1..Len(s) /\ Tail(s)[i] = s[i + 1]
  BY <1>1
<1> QED
  BY <1>1, <1>2 DEF Roled, Elems

\* A sequence without the element that was added last.
LEMMA FrontOf == ASSUME NEW s, AnySeq(s), NEW x PROVE Front(Append(s, x)) = s /\ Append(s, x) # << >>
<1> DEFINE U == Elems(s) \cup {x}
<1>1. s \in Seq(U) /\ x \in U
  BY AnyOf DEF AnySeq
<1> HIDE DEF U
<1>2. /\ Append(s, x) \in Seq(U) /\ Len(s) \in Nat /\ Len(Append(s, x)) = Len(s) + 1
      /\ \A i \in 1..Len(s) : Append(s, x)[i] = s[i]
  BY <1>1
<1>3. Front(Append(s, x)) = SubSeq(Append(s, x), 1, Len(s))
  BY <1>2 DEF Front
<1>4. SubSeq(Append(s, x), 1, Len(s)) = s
  BY <1>1, <1>2
<1> QED
  BY <1>2, <1>3, <1>4

\* The session as it begins.
LEMMA StreamInitInv == ASSUME StreamParameters, StreamInit PROVE StreamInv
<1>1. Roled(<<User(0)>>) /\ AnySeq(<< >>) /\ Len(<< >>) = 0
  <2>1. User(0).role \in Roles
    BY DEF User, Roles
  <2> QED
    BY <2>1, RoledOne, AnyOne
<1>2. StreamShape
  BY <1>1 DEF StreamInit, StreamShape, AccShape, NoAcc, NoStep, Shape, PendingShape
<1>3. StreamTypeOK
  BY <1>1, Limits, RolesOf DEF StreamInit, StreamTypeOK, Roles
<1>4. LifecycleKept
  <2>1. DOMAIN frames = {} /\ frames = << >>
    BY DEF StreamInit
  <2> QED
    BY <1>1, <2>1 DEF LifecycleKept, InPairs, Open
<1>5. BilledOnce
  BY DEF StreamInit, BilledOnce, NoStep, NoAcc
<1>6. QueueInv /\ UsageInv
  BY <1>1 DEF StreamInit, QueueInv, UsageInv
<1>7. FlagsTrue
  BY DEF StreamInit, FlagsTrue
<1> QED
  BY <1>2, <1>3, <1>4, <1>5, <1>6, <1>7 DEF StreamInv, StepInv

\* What reading a chunk leaves alone.
LEMMA ReadingKeeps ==
  ASSUME StreamParameters, StreamInv, phase = "stream", WorkLeft, Counts, StreamsOn,
         AccShape(acc'), AnySeq(queue')
  PROVE  StreamShape' /\ StreamTypeOK' /\ LifecycleKept' /\ FlagsTrue' /\ phase' = "stream"
<1>1. StreamShape'
  BY DEF StreamInv, StreamShape, StreamsOn, saved
<1>2. StreamTypeOK'
  BY Limits DEF StreamInv, StepInv, StreamTypeOK, StreamsOn, Counts
<1>3. LifecycleKept' /\ FlagsTrue'
  BY DEF StreamInv, StepInv, LifecycleKept, FlagsTrue, StreamsOn
<1> QED
  BY <1>1, <1>2, <1>3 DEF StreamsOn

\* What a chunk of an answer may do: it adds to the accumulators, and yields a delta or
\* nothing.
LEMMA ChunkStep ==
  ASSUME StreamParameters, StreamInv, phase = "stream", queue = << >>, WorkLeft, Counts, StreamsOn,
         AccShape(acc'), acc'.usage = acc.usage, queue' = << >> \/ \E kind : queue' = <<Delta(kind)>>
  PROVE  StreamInv'
<1>1. AnySeq(queue')
  BY AnyOne
<1>2. StreamShape' /\ StreamTypeOK' /\ LifecycleKept' /\ FlagsTrue' /\ phase' = "stream"
  BY <1>1, ReadingKeeps
<1>3. ASSUME NEW i \in 1..Len(queue') PROVE queue'[i].type \in Deltas
  <2>1. PICK kind : queue' = <<Delta(kind)>>
    <3>1. queue' # << >>
      BY <1>3, AnyOne
    <3> QED
      BY <3>1
  <2>2. Len(queue') = 1 /\ queue'[1] = Delta(kind)
    BY <2>1, AnyOne
  <2>3. i = 1
    BY <1>3, <2>2
  <2> QED
    BY <2>2, <2>3 DEF Delta, Event, Deltas
<1>4. QueueInv'
  BY <1>3 DEF QueueInv, Deltas
<1>5. NoReport(queue)
  BY AnyOne DEF NoReport
<1>6. step' = step /\ asked' = asked
  BY DEF StreamsOn
<1>7. UsageInv'
  BY <1>2, <1>5, <1>6 DEF StreamInv, UsageInv
<1>8. BilledOnce'
  BY <1>2, <1>6 DEF StreamInv, StepInv, BilledOnce
<1> QED
  BY <1>2, <1>4, <1>7, <1>8 DEF StreamInv, StepInv

\* A report of the usage: it is yielded at once by OpenAI, at the end by the others.
LEMMA UsageStep == ASSUME StreamParameters, StreamInv, UsageChunk PROVE StreamInv'
<1>1. phase = "stream" /\ queue = << >> /\ WorkLeft /\ Counts /\ StreamsOn
  BY DEF UsageChunk, Reads
<1>2. step' = step /\ asked' = asked /\ made + 1 \in Nat /\ AccShape(acc) /\ NoReport(queue)
  BY <1>1, Limits, AnyOne DEF StreamsOn, StreamInv, StreamShape, NoReport
<1>3. AnySeq(acc.usage) /\ AnySeq(step.usage)
  BY DEF StreamInv, StreamShape, AccShape
<1>4. CASE asked = "openai"
  <2>1. acc' = [acc EXCEPT !.usage = Append(@, made + 1)] /\ queue' = <<Event("USAGE", made + 1)>>
    BY <1>4 DEF UsageChunk
  <2>2. acc'.usage = Append(acc.usage, made + 1) /\ AccShape(acc')
    BY <1>2, <1>3, <2>1, AnyMore DEF AccShape
  <2>3. AnySeq(queue') /\ Len(queue') = 1 /\ queue'[1] = Event("USAGE", made + 1)
    BY <2>1, AnyOne
  <2>4. StreamShape' /\ StreamTypeOK' /\ LifecycleKept' /\ FlagsTrue' /\ phase' = "stream"
    BY <1>1, <2>2, <2>3, ReadingKeeps
  <2>5. step.usage = acc.usage
    BY <1>1, <1>2, <1>4 DEF StreamInv, UsageInv
  <2>6. queue'[1].type = "USAGE" /\ queue'[1].x = made + 1 /\ \A i \in 1..Len(queue') : i = 1
    BY <2>3 DEF Event
  <2>7. QueueInv'
    BY <1>2, <1>4, <2>2, <2>5, <2>6 DEF QueueInv
  <2>8. ~NoReport(queue')
    BY <2>3, <2>6 DEF NoReport
  <2>9. UsageInv'
    BY <1>2, <1>4, <2>4, <2>8 DEF UsageInv
  <2>10. BilledOnce'
    BY <1>2, <1>3, <2>2, <2>4, <2>5, FrontOf DEF BilledOnce
  <2> QED
    BY <2>4, <2>7, <2>9, <2>10 DEF StreamInv, StepInv
<1>5. CASE asked # "openai"
  <2>1. acc' = [acc EXCEPT !.usage = <<made + 1>>] /\ queue' = queue
    BY <1>5 DEF UsageChunk
  <2>2. acc'.usage = <<made + 1>> /\ AccShape(acc')
    BY <1>2, <2>1, AnyOne DEF AccShape
  <2>3. AnySeq(queue') /\ Len(queue') = 0
    BY <1>1, <2>1, AnyOne
  <2>4. StreamShape' /\ StreamTypeOK' /\ LifecycleKept' /\ FlagsTrue' /\ phase' = "stream"
    BY <1>1, <2>2, <2>3, ReadingKeeps
  <2>5. step.usage = << >>
    BY <1>1, <1>5 DEF StreamInv, UsageInv
  <2>6. QueueInv'
    BY <2>3 DEF QueueInv
  <2>7. UsageInv'
    BY <1>2, <1>5, <2>2, <2>4, <2>5 DEF UsageInv
  <2>8. <<made + 1>> # << >>
    BY AnyOne
  <2>9. BilledOnce'
    BY <1>2, <2>2, <2>4, <2>5, <2>8 DEF BilledOnce
  <2> QED
    BY <2>4, <2>6, <2>7, <2>9 DEF StreamInv, StepInv
<1> QED
  BY <1>4, <1>5

\* Blocks that a delta joins or begins stay a sequence.
LEMMA GrownSeq ==
  ASSUME NEW parts, AnySeq(parts), NEW kind
  PROVE  AnySeq(Grown(parts, kind))
<1>1. CASE parts # << >> /\ Last(parts).kind = kind
  <2> DEFINE r == [parts EXCEPT ![Len(parts)].toks = Append(@, made + 1)]
  <2>1. Grown(parts, kind) = r
    BY <1>1 DEF Grown
  <2>2. Len(parts) \in Nat /\ DOMAIN parts = 1..Len(parts)
    BY AnyOf DEF AnySeq
  <2>3. r = [i \in 1..Len(parts) |-> r[i]]
    BY <2>2
  <2> HIDE DEF r
  <2> QED
    BY <2>1, <2>2, <2>3, AnyFunction
<1>2. CASE ~(parts # << >> /\ Last(parts).kind = kind)
  BY <1>2, AnyMore DEF Grown
<1> QED
  BY <1>1, <1>2

\* Fragments of calls that are merged by id stay a sequence.
LEMMA MergedSeq ==
  ASSUME NEW frags, AnySeq(frags), NEW i, NEW id, NEW name
  PROVE  AnySeq(Merged(frags, i, id, name))
<1> DEFINE new == IF i > Len(frags) THEN Append(frags, [id |-> NoId, name |-> << >>, args |-> << >>]) ELSE frags
           r == [new EXCEPT ![i] = [id |-> IF id = NoId THEN @.id ELSE id,
                                    name |-> IF name = "" THEN @.name ELSE Append(@.name, name),
                                    args |-> Append(@.args, made + 1)]]
<1>1. Merged(frags, i, id, name) = r
  BY DEF Merged
<1>2. AnySeq(new)
  BY AnyMore
<1> HIDE DEF new
<1>3. Len(new) \in Nat /\ DOMAIN new = 1..Len(new)
  BY <1>2, AnyOf DEF AnySeq
<1>4. r = [j \in 1..Len(new) |-> r[j]]
  BY <1>3
<1> HIDE DEF r
<1> QED
  BY <1>1, <1>3, <1>4, AnyFunction

\* A call that a provider reports whole.
LEMMA WholeStep ==
  ASSUME StreamParameters, StreamInv, phase = "stream", queue = << >>, WorkLeft, Counts,
         NEW parts, AnySeq(parts), NEW id, NEW kind, NEW name, WholeOr(parts, id, kind, name)
  PROVE  StreamInv'
<1>1. AccShape(acc)
  BY DEF StreamInv, StreamShape
<1> DEFINE more == IF kind = "call" THEN Append(acc.parts, CallPart(id, <<name>>, <<made + 1>>)) ELSE parts
<1>2. AnySeq(more)
  BY <1>1, AnyMore DEF AccShape
<1>3. acc' = [acc EXCEPT !.parts = more]
  BY DEF WholeOr
<1> HIDE DEF more
<1>4. AccShape(acc') /\ acc'.usage = acc.usage
  BY <1>1, <1>2, <1>3 DEF AccShape
<1>5. StreamsOn /\ (queue' = << >> \/ queue' = <<Delta(kind)>>)
  BY DEF WholeOr
<1> QED
  BY <1>4, <1>5, ChunkStep

\* A chunk that adds to what was read.
LEMMA AddedStep ==
  ASSUME StreamParameters, StreamInv, phase = "stream", queue = << >>, WorkLeft, Counts, NEW kind, AddedUp(kind)
  PROVE  StreamInv'
<1>1. AccShape(acc)
  BY DEF StreamInv, StreamShape
<1>2. AccShape(acc') /\ acc'.usage = acc.usage
  BY <1>1 DEF AccShape, AddedUp
<1>3. StreamsOn /\ queue' = <<Delta(kind)>>
  BY DEF AddedUp
<1> QED
  BY <1>2, <1>3, ChunkStep

\* Reading one chunk of any provider.
LEMMA ReadStep ==
  ASSUME StreamParameters, StreamInv, NEW id, NEW kind, NEW name, NEW i,
         \/ OpenAiChunk(id, kind, name) \/ AnthropicChunk(id, kind, name)
         \/ GeminiChunk(id, kind, name) \/ QwenChunk(id, kind, name)
         \/ LiteChunk(id, kind, name, i)
  PROVE  StreamInv'
<1>1. phase = "stream" /\ queue = << >> /\ WorkLeft /\ Counts
  BY DEF OpenAiChunk, AnthropicChunk, GeminiChunk, QwenChunk, LiteChunk, Reads
<1>2. AccShape(acc)
  BY DEF StreamInv, StreamShape
<1>3. CASE OpenAiChunk(id, kind, name) \/ AnthropicChunk(id, kind, name)
  <2>1. WholeOr(Grown(acc.parts, kind), id, kind, name)
    BY <1>3 DEF OpenAiChunk, AnthropicChunk
  <2>2. AnySeq(Grown(acc.parts, kind))
    BY <1>2, GrownSeq DEF AccShape
  <2> QED
    BY <1>1, <2>1, <2>2, WholeStep
<1>4. CASE GeminiChunk(id, kind, name)
  <2>1. WholeOr(Append(acc.parts, Part(kind, <<made + 1>>)), id, kind, name)
    BY <1>4 DEF GeminiChunk
  <2>2. AnySeq(Append(acc.parts, Part(kind, <<made + 1>>)))
    BY <1>2, AnyMore DEF AccShape
  <2> QED
    BY <1>1, <2>1, <2>2, WholeStep
<1>5. CASE QwenChunk(id, kind, name)
  <2>1. WholeOr(acc.parts, id, kind, name) \/ AddedUp(kind)
    BY <1>5 DEF QwenChunk
  <2>2. AnySeq(acc.parts)
    BY <1>2 DEF AccShape
  <2> QED
    BY <1>1, <2>1, <2>2, WholeStep, AddedStep
<1>6. CASE LiteChunk(id, kind, name, i)
  <2>1. CASE kind = "call"
    <3>1. acc' = [acc EXCEPT !.frags = Merged(@, i, id, name)] /\ queue' = << >> /\ StreamsOn
      BY <1>6, <2>1 DEF LiteChunk
    <3>2. AnySeq(Merged(acc.frags, i, id, name))
      BY <1>2, MergedSeq DEF AccShape
    <3>3. AccShape(acc') /\ acc'.usage = acc.usage
      BY <1>2, <3>1, <3>2 DEF AccShape
    <3> QED
      BY <1>1, <3>1, <3>3, ChunkStep
  <2>2. CASE kind # "call"
    <3>1. AddedUp(kind)
      BY <1>6, <2>2 DEF LiteChunk
    <3> QED
      BY <1>1, <3>1, AddedStep
  <2> QED
    BY <2>1, <2>2
<1> QED
  BY <1>3, <1>4, <1>5, <1>6

-----------------------------------------------------------------------------
(* Steps                                                                    *)

\* Frames of tools, results of tools.
LEMMA ToolFrames ==
  ASSUME NEW cs, AnySeq(cs)
  PROVE  /\ AnySeq(Inputs(cs)) /\ AnySeq(Outputs(cs)) /\ AnySeq(Mapped(cs, Result))
         /\ \A x \in Elems(Inputs(cs)) : x.type = "tool-input"
         /\ \A x \in Elems(Outputs(cs)) : x.type = "tool-output"
         /\ \A x \in Elems(Mapped(cs, Result)) : x.role = "tool"
<1>1. Len(cs) \in Nat /\ DOMAIN cs = 1..Len(cs)
  BY AnyOf DEF AnySeq
<1>2. /\ Inputs(cs) = [i \in 1..Len(cs) |-> Event("tool-input", cs[i].id)]
      /\ Outputs(cs) = [i \in 1..Len(cs) |-> Event("tool-output", cs[i].id)]
      /\ Mapped(cs, Result) = [i \in 1..Len(cs) |-> Result(cs[i])]
  BY <1>1 DEF Inputs, Outputs, Mapped
<1>3. ASSUME NEW f, f = [i \in 1..Len(cs) |-> f[i]]
      PROVE  AnySeq(f) /\ Len(f) = Len(cs)
  BY <1>1, <1>3, AnyFunction
<1>4. /\ AnySeq(Inputs(cs)) /\ Len(Inputs(cs)) = Len(cs)
      /\ AnySeq(Outputs(cs)) /\ Len(Outputs(cs)) = Len(cs)
      /\ AnySeq(Mapped(cs, Result)) /\ Len(Mapped(cs, Result)) = Len(cs)
  BY <1>2, <1>3
<1>5. /\ \A i \in 1..Len(cs) : Inputs(cs)[i].type = "tool-input"
      /\ \A i \in 1..Len(cs) : Outputs(cs)[i].type = "tool-output"
      /\ \A i \in 1..Len(cs) : Mapped(cs, Result)[i].role = "tool"
  <2>1. \A i \in 1..Len(cs) : Inputs(cs)[i].type = "tool-input"
    BY <1>2 DEF Event
  <2>2. \A i \in 1..Len(cs) : Outputs(cs)[i].type = "tool-output"
    BY <1>2 DEF Event
  <2>3. \A c : Result(c).role = "tool"
    BY DEF Result
  <2>4. \A i \in 1..Len(cs) : Mapped(cs, Result)[i] = Result(cs[i])
    BY <1>2
  <2> QED
    BY <2>1, <2>2, <2>3, <2>4
<1> QED
  BY <1>4, <1>5 DEF Elems

\* The calls as they are answered are a sequence.
LEMMA OrderSeq == ASSUME NEW cs, AnySeq(cs) PROVE AnySeq(InOrder(cs))
BY AnyKept, AnyJoin DEF InOrder

\* So they are in the other order.
LEMMA ReverseSeq == ASSUME NEW s, AnySeq(s) PROVE AnySeq(Reverse(s))
<1> DEFINE r == Reverse(s)
<1>1. Len(s) \in Nat
  BY AnyOf DEF AnySeq
<1>2. r = [i \in 1..Len(s) |-> r[i]]
  BY DEF Reverse
<1> HIDE DEF r
<1>3. AnySeq(r)
  BY <1>1, <1>2, AnyFunction
<1> QED
  BY <1>3 DEF r

\* The next turn.
LEMMA TurnStep == ASSUME StreamParameters, StreamInv, NEW p \in Adapters, NextTurn(p) PROVE StreamInv'
<1>1. Roled(<<User(0)>>) /\ Roled(<<Interruption>>) /\ Roled(<< >>)
  <2>1. User(0).role \in Roles /\ Interruption.role \in Roles
    BY DEF User, Interruption, Roles
  <2> QED
    BY <2>1, RoledOne
<1>2. Roled(Unfinished)
  <2>1. CASE pending = NoId
    BY <1>1, <2>1 DEF Unfinished
  <2>2. CASE pending # NoId
    <3>1. Roled(pending.record) /\ pending.record # << >> /\ AnySeq(pending.calls)
      BY <2>2 DEF StreamInv, StreamShape, PendingShape
    <3>2. AnySeq(Reverse(InOrder(pending.calls)))
      BY <3>1, OrderSeq, ReverseSeq
    <3>3. Roled(Mapped(Reverse(InOrder(pending.calls)), Result))
      BY <3>2, ToolFrames DEF Roled, Roles
    <3>4. Roled(Tail(pending.record))
      BY <3>1, RoledTail
    <3> QED
      BY <1>1, <2>2, <3>3, <3>4, RoledJoin DEF Unfinished
  <2> QED
    BY <2>1, <2>2
<1>3. Roled(history') /\ Roled(record') /\ pending' = NoId
  <2>1. Roled(history \o Unfinished)
    BY <1>2, RoledJoin DEF StreamInv, StreamShape
  <2> QED
    BY <1>1, <2>1, RoledJoin DEF NextTurn
<1>4. phase = "over" /\ phase' = "idle" /\ WorkLeft /\ turns' = turns + 1
      /\ UNCHANGED <<acc, queue, step, frames, made, steps>> /\ asked' \in Adapters
  BY DEF NextTurn
<1>5. StreamShape'
  BY <1>3, <1>4 DEF StreamInv, StreamShape, PendingShape
<1>6. StreamTypeOK'
  BY <1>3, <1>4, Limits, RolesOf DEF StreamInv, StepInv, StreamTypeOK, Roles
<1>7. LifecycleKept' /\ BilledOnce' /\ FlagsTrue'
  BY <1>4 DEF StreamInv, StepInv, LifecycleKept, BilledOnce, FlagsTrue
<1>8. QueueInv' /\ UsageInv'
  BY <1>4 DEF StreamInv, QueueInv, UsageInv
<1> QED
  BY <1>5, <1>6, <1>7, <1>8 DEF StreamInv, StepInv

\* The next step of a turn.
LEMMA BeginStep == ASSUME StreamParameters, StreamInv, StartStep PROVE StreamInv'
<1>1. AnySeq(frames') /\ Len(frames') = 1 /\ frames'[1].type = "start-step" /\ DOMAIN frames' = 1..1
      /\ AnySeq(<< >>) /\ Len(<< >>) = 0
  BY AnyOne, AnyOf DEF StartStep, Event, AnySeq
<1>2. StreamShape'
  BY <1>1 DEF StreamInv, StreamShape, AccShape, StartStep, NoAcc, NoStep, Shape, saved
<1>3. StreamTypeOK'
  BY Limits DEF StreamInv, StepInv, StreamTypeOK, StartStep
<1>4. \A part \in Parts, i \in 0..1 : ~Open(frames', part, i)
  BY <1>1 DEF Open, Parts, Text, Reasoning
<1>5. InPairs(frames')
  BY <1>1 DEF InPairs, Text, Reasoning
<1>6. LifecycleKept' /\ BilledOnce'
  BY <1>5 DEF LifecycleKept, BilledOnce, StartStep, NoStep, NoAcc
<1>7. FlagsTrue'
  <2>1. ~Open(frames', Text, Len(frames')) /\ ~Open(frames', Reasoning, Len(frames'))
    BY <1>1, <1>4 DEF Parts
  <2>2. step'.text_started = FALSE /\ step'.reasoning_started = FALSE
    BY DEF StartStep, NoStep
  <2> QED
    BY <1>1, <1>5, <2>1, <2>2 DEF FlagsTrue, Stands, AnySeq
<1>8. QueueInv' /\ UsageInv'
  BY <1>1 DEF QueueInv, UsageInv, StartStep, NoStep, NoAcc
<1> QED
  BY <1>2, <1>3, <1>6, <1>7, <1>8 DEF StreamInv, StepInv

\* A stream that breaks off.
LEMMA FailStep == ASSUME StreamParameters, StreamInv, StreamFails PROVE StreamInv'
<1> DEFINE e == Event("error", 0)
<1>1. phase = "stream" /\ phase' = "over" /\ frames' = Append(frames, e) /\ pending' = NoId
  BY DEF StreamFails, TurnOver
<1>2. AnySeq(frames) /\ InPairs(frames) /\ AnySeq(frames')
  BY <1>1, AnyMore DEF StreamInv, StreamShape, StepInv, LifecycleKept
<1>3. e.type = "error"
  BY DEF Event
<1> HIDE DEF e
<1> DEFINE S == Elems(frames) \cup {e}
<1>4. frames \in Seq(S) /\ e \in S
  BY <1>2, AnyOf DEF AnySeq
<1> HIDE DEF S
<1>5. InPairs(frames')
  <2>1. \A part \in Parts : e.type \notin {part.start, part.delta, part.end}
    BY <1>3 DEF Parts, Text, Reasoning
  <2> QED
    BY <1>1, <1>2, <1>4, <2>1, OneMore
<1>6. \E i \in DOMAIN frames' : frames'[i].type = "error"
  <2>1. Len(frames) + 1 \in DOMAIN frames' /\ frames'[Len(frames) + 1] = e
    BY <1>1, <1>4
  <2> QED
    BY <1>3, <2>1
<1>7. LifecycleKept' /\ FlagsTrue'
  BY <1>1, <1>5, <1>6 DEF LifecycleKept, FlagsTrue
<1>8. StreamShape'
  BY <1>1, <1>2 DEF StreamInv, StreamShape, PendingShape, StreamFails
<1>9. StreamTypeOK' /\ BilledOnce'
  BY <1>1 DEF StreamInv, StepInv, StreamTypeOK, BilledOnce, StreamFails
<1>10. QueueInv' /\ UsageInv'
  BY <1>1 DEF StreamInv, QueueInv, UsageInv, StreamFails
<1> QED
  BY <1>7, <1>8, <1>9, <1>10 DEF StreamInv, StepInv

\* The payload and the calls that are made of it are sequences.
LEMMA CallsSeq == ASSUME StreamInv, NEW p PROVE AnySeq(CallsOf(p))
<1>1. AnySeq(PayloadOf(p))
  <2>1. AnySeq(acc.parts) /\ AnySeq(acc.frags)
    BY DEF StreamInv, StreamShape, AccShape
  <2>2. AnySeq(QwenPayload)
    <3> DEFINE two == <<Part("text", acc.text), Part("thought", acc.thought)>>
    <3>1. AnySeq(two)
      <4>1. two \in Seq({Part("text", acc.text), Part("thought", acc.thought)})
        OBVIOUS
      <4> QED
        BY <4>1, AnyOf
    <3> HIDE DEF two
    <3>2. AnySeq(two \o acc.parts)
      BY <2>1, <3>1, AnyJoin
    <3> QED
      BY <3>2 DEF QwenPayload, two
  <2>3. AnySeq(LitePayload)
    <3> DEFINE f == Mapped(acc.frags, LAMBDA x : CallPart(x.id, x.name, x.args))
               one == <<Part("text", acc.text)>>
    <3>1. Len(acc.frags) \in Nat /\ DOMAIN acc.frags = 1..Len(acc.frags)
      BY <2>1, AnyOf DEF AnySeq
    <3>2. f = [i \in 1..Len(acc.frags) |-> f[i]]
      BY <3>1 DEF Mapped
    <3>3. AnySeq(one)
      BY AnyOne
    <3>4. LitePayload = one \o f
      BY DEF LitePayload
    <3> HIDE DEF f, one
    <3>5. AnySeq(f)
      BY <3>1, <3>2, AnyFunction
    <3> QED
      BY <3>3, <3>4, <3>5, AnyJoin
  <2> QED
    BY <2>1, <2>2, <2>3 DEF PayloadOf, OpenAiPayload, AnthropicPayload, GeminiPayload
<1> DEFINE of == OfKind(PayloadOf(p), "call")
<1>2. AnySeq(of)
  BY <1>1, AnyKept DEF OfKind
<1>3. CallsOf(p) = [i \in DOMAIN of |-> [id |-> IdOf(of[i].id, i), name |-> of[i].name,
                                       args |-> json_object(of[i].toks)]]
  BY DEF CallsOf
<1> HIDE DEF of
<1>4. Len(of) \in Nat /\ DOMAIN of = 1..Len(of)
  BY <1>2, AnyOf DEF AnySeq
<1> DEFINE f == CallsOf(p)
<1>5. f = [i \in 1..Len(of) |-> f[i]]
  BY <1>3, <1>4
<1> HIDE DEF f
<1>6. AnySeq(f)
  BY <1>4, <1>5, AnyFunction
<1> QED
  BY <1>6 DEF f

\* The end of a stream, and what it leaves in the queue.
LEMMA EndStep == ASSUME StreamParameters, StreamInv, StreamEnds PROVE StreamInv'
<1> DEFINE usage == IF asked # "openai" /\ acc.usage # << >> THEN <<Event("USAGE", Last(acc.usage))>> ELSE << >>
           asks == IF CallsOf(asked) # << >> THEN <<Event("TOOL_CALLS", CallsOf(asked))>> ELSE << >>
           state == <<Event("STATE", PayloadOf(asked))>>
<1>1. phase = "stream" /\ phase' = "end" /\ queue' = (usage \o asks) \o state /\ queue = << >>
  BY DEF StreamEnds, Ending
<1>2. /\ AnySeq(usage) /\ AnySeq(asks) /\ AnySeq(state)
      /\ Len(usage) <= 1 /\ Elems(usage) \subseteq {Event("USAGE", Last(acc.usage))}
      /\ Elems(usage) # {} => asked # "openai" /\ acc.usage # << >>
      /\ Elems(usage) = {} => asked = "openai" \/ acc.usage = << >>
      /\ Elems(asks) \subseteq {Event("TOOL_CALLS", CallsOf(asked))}
      /\ Elems(state) = {Event("STATE", PayloadOf(asked))}
  BY AnyOne
<1>3. AnySeq(CallsOf(asked))
  BY CallsSeq
<1> HIDE DEF usage, asks, state
<1>4. /\ AnySeq(queue') /\ Elems(queue') = Elems(usage) \cup Elems(asks) \cup Elems(state)
  BY <1>1, <1>2, AnyJoin
<1>5. \A x \in Elems(queue') :
        /\ x.type \in {"USAGE", "TOOL_CALLS", "STATE"}
        /\ x.type = "TOOL_CALLS" => AnySeq(x.x)
        /\ x.type = "USAGE" => x.x = Last(acc.usage) /\ asked # "openai" /\ acc.usage # << >>
  BY <1>2, <1>3, <1>4 DEF Event
<1>6. ASSUME NEW i \in 1..Len(queue'), queue'[i].type = "USAGE" PROVE i = 1
  <2> DEFINE rest == asks \o state
             U == Elems(usage) \cup Elems(asks) \cup Elems(state)
  <2>1. usage \in Seq(U) /\ asks \in Seq(U) /\ state \in Seq(U)
    BY <1>2, AnyOf DEF AnySeq
  <2>2. AnySeq(rest) /\ Elems(rest) = Elems(asks) \cup Elems(state)
    BY <1>2, AnyJoin
  <2> HIDE DEF U
  <2>3. queue' = usage \o rest /\ rest \in Seq(U)
    <3>1. queue' = (usage \o asks) \o state
      BY <1>1
    <3>2. usage \o (asks \o state) = (usage \o asks) \o state
      BY <2>1, JoinsTwo, SMTT(30)
    <3>3. asks \o state \in Seq(U)
      BY <2>1
    <3> QED
      BY <3>1, <3>2, <3>3, Zenon
  <2> HIDE DEF rest
  <2>4. CASE i <= Len(usage)
    BY <1>2, <1>6, <2>1, <2>4
  <2>5. CASE i > Len(usage)
    <3>1. i - Len(usage) \in 1..Len(rest) /\ queue'[i] = rest[i - Len(usage)]
      BY <1>6, <2>1, <2>3, <2>5
    <3>2. rest[i - Len(usage)] \in Elems(asks) \cup Elems(state)
      BY <2>2, <3>1 DEF Elems
    <3> QED
      BY <1>2, <1>6, <3>1, <3>2 DEF Event
  <2>6. i \in Nat /\ Len(usage) \in Nat
    BY <2>1
  <2> QED
    BY <2>4, <2>5, <2>6
<1>7. UNCHANGED <<acc, step, asked>>
  BY DEF StreamEnds
<1>8. asked # "openai" /\ acc.usage # << >> => acc.usage = Append(step.usage, Last(acc.usage))
  <2> SUFFICES ASSUME asked # "openai", acc.usage # << >>
               PROVE  acc.usage = Append(step.usage, Last(acc.usage))
    OBVIOUS
  <2>1. step.usage = << >>
    BY <1>1 DEF StreamInv, UsageInv
  <2>2. PICK x : acc.usage = <<x>>
    BY <1>1 DEF StreamInv, UsageInv
  <2>3. Last(<<x>>) = x
    BY AnyOne DEF Last
  <2> QED
    BY <2>1, <2>2, <2>3
<1>9. QueueInv'
  <2>1. ASSUME NEW i \in 1..Len(queue')
        PROVE  /\ queue'[i].type \in {"USAGE", "TOOL_CALLS", "STATE"}
               /\ queue'[i].type = "TOOL_CALLS" => AnySeq(queue'[i].x)
               /\ queue'[i].type = "USAGE" =>
                    queue'[i].x = Last(acc.usage) /\ asked # "openai" /\ acc.usage # << >>
    BY <1>5 DEF Elems
  <2> QED
    BY <1>1, <1>6, <1>7, <1>8, <2>1 DEF QueueInv
<1>10. UsageInv' /\ BilledOnce'
  <2>1. NoReport(queue') => Elems(usage) = {}
    <3>1. \A x \in Elems(usage) : x \in Elems(queue') /\ x.type = "USAGE"
      BY <1>2, <1>4 DEF Event
    <3> QED
      BY <3>1 DEF NoReport, Elems
  <2>2. asked = "openai" => step.usage = acc.usage
    <3>1. NoReport(queue)
      BY <1>1, AnyOne DEF NoReport
    <3> QED
      BY <1>1, <3>1 DEF StreamInv, UsageInv
  <2>3. asked # "openai" => step.usage = << >>
    BY <1>1 DEF StreamInv, UsageInv
  <2>4. NoReport(queue') => step.usage = acc.usage
    BY <1>2, <2>1, <2>2, <2>3
  <2>5. queue' = << >> => NoReport(queue')
    BY AnyOne DEF NoReport
  <2> QED
    BY <1>1, <1>7, <2>4, <2>5 DEF StreamInv, StepInv, UsageInv, BilledOnce
<1>13. StreamShape'
  BY <1>1, <1>4 DEF StreamInv, StreamShape, StreamEnds, saved
<1>12. StreamTypeOK'
  BY DEF StreamInv, StepInv, StreamTypeOK, StreamEnds
<1>11. LifecycleKept' /\ FlagsTrue'
  BY DEF StreamInv, StepInv, LifecycleKept, FlagsTrue, StreamEnds
<1> QED
  BY <1>9, <1>10, <1>11, <1>12, <1>13 DEF StreamInv, StepInv

\* Frames in pairs are so whichever set the frames are taken from.
LEMMA Widened ==
  ASSUME NEW S, NEW s, NEW x, NEW y, Stands(S, s, x, y), NEW U, Elems(s) \subseteq U
  PROVE  Stands(U, s, x, y)
<1>1. s \in Seq(U)
  BY AnyOf DEF Stands
<1> QED
  BY <1>1 DEF Stands

\* One event of the queue.
LEMMA ConsumeStep == ASSUME StreamParameters, StreamInv, Consume PROVE StreamInv'
<1> DEFINE e == Head(queue)
<1>1. /\ phase \in {"stream", "end"} /\ phase' = phase /\ queue # << >> /\ AnySeq(queue)
      /\ queue' = Tail(queue) /\ step' = Consumed(step, e)
      /\ frames' = frames \o FramesOf(step, e)
  BY DEF Consume, StreamInv, StreamShape
<1>2. /\ AnySeq(queue') /\ Len(queue) \in Nat /\ Len(queue) > 0 /\ Len(queue') = Len(queue) - 1
      /\ e = queue[1] /\ \A i \in 1..Len(queue') : queue'[i] = queue[i + 1]
  BY <1>1, AnyTail
<1> HIDE DEF e
<1>3. /\ e.type \in Deltas \cup {"USAGE", "TOOL_CALLS", "STATE"}
      /\ e.type = "TOOL_CALLS" => AnySeq(e.x)
      /\ e.type = "USAGE" =>
           acc.usage = Append(step.usage, e.x) /\ (phase = "stream" => asked = "openai")
  <2>1. 1 \in 1..Len(queue)
    BY <1>2
  <2> QED
    BY <1>2, <2>1 DEF StreamInv, QueueInv
<1>4. /\ Shape(step) /\ AnySeq(step.calls) /\ AnySeq(step.usage)
      /\ step.text_started \in BOOLEAN /\ step.reasoning_started \in BOOLEAN
  BY DEF StreamInv, StreamShape
<1>5. /\ Shape(step') /\ step'.text_started \in BOOLEAN /\ step'.reasoning_started \in BOOLEAN
      /\ step'.calls = IF e.type = "TOOL_CALLS" THEN step.calls \o e.x ELSE step.calls
      /\ step'.usage = IF e.type = "USAGE" THEN Append(step.usage, e.x) ELSE step.usage
  <2>1. CASE e.type = "STATE"
    BY <1>1, <1>4, <2>1 DEF Consumed, Shape
  <2>2. CASE e.type = "TOOL_CALLS"
    BY <1>1, <1>4, <2>2 DEF Consumed, Shape
  <2>3. CASE e.type = "USAGE"
    BY <1>1, <1>4, <2>3 DEF Consumed, Shape
  <2>4. CASE e.type = "REASONING_DELTA"
    BY <1>1, <1>4, <2>4 DEF Consumed, Shape
  <2>5. CASE e.type = "TEXT_DELTA"
    BY <1>1, <1>4, <2>5 DEF Consumed, Shape
  <2> QED
    BY <1>3, <2>1, <2>2, <2>3, <2>4, <2>5 DEF Deltas
<1>6. AnySeq(step'.calls) /\ AnySeq(step'.usage)
  BY <1>3, <1>4, <1>5, AnyJoin, AnyMore
<1> DEFINE U == Elems(frames) \cup
                {Event("text-start", 0), Event("reasoning-start", 0), Event("reasoning-end", 0),
                 Event("text-delta", e.x), Event("reasoning-delta", e.x)}
<1>7. Stands(U, frames', step'.text_started, step'.reasoning_started)
  <2>1. Stands(U, frames, step.text_started, step.reasoning_started)
    BY <1>1, Widened DEF StreamInv, FlagsTrue
  <2>2. {Event("text-start", 0), Event("reasoning-start", 0), Event("reasoning-end", 0),
         Event("text-delta", e.x), Event("reasoning-delta", e.x)} \subseteq U
    OBVIOUS
  <2> HIDE DEF U
  <2> QED
    BY <1>1, <1>3, <1>4, <2>1, <2>2, EventFrames
<1> HIDE DEF U
<1>8. AnySeq(frames') /\ InPairs(frames')
  BY <1>7, AnyOf DEF Stands
<1>9. FlagsTrue'
  BY <1>7, <1>8, Widened DEF FlagsTrue
<1>10. LifecycleKept'
  BY <1>1, <1>8 DEF LifecycleKept
<1>11. StreamShape'
  BY <1>1, <1>2, <1>5, <1>6, <1>8 DEF StreamInv, StreamShape, Consume, saved
<1>12. StreamTypeOK'
  BY DEF StreamInv, StepInv, StreamTypeOK, Consume
<1>13. acc' = acc /\ asked' = asked
  BY DEF Consume
<1>14. QueueInv' /\ NoReport(queue')
  <2>1. ASSUME NEW i \in 1..Len(queue')
        PROVE  /\ queue'[i].type \in Deltas \cup {"USAGE", "TOOL_CALLS", "STATE"}
               /\ phase = "stream" => queue'[i].type \in Deltas \cup {"USAGE"}
               /\ queue'[i].type = "TOOL_CALLS" => AnySeq(queue'[i].x)
               /\ queue'[i].type # "USAGE"
    <3>1. i + 1 \in 1..Len(queue) /\ i + 1 # 1 /\ queue'[i] = queue[i + 1]
      BY <1>2
    <3> QED
      BY <3>1 DEF StreamInv, QueueInv
  <2> QED
    BY <1>1, <2>1 DEF QueueInv, NoReport
<1>15. UsageInv' /\ BilledOnce'
  <2>1. CASE e.type = "USAGE"
    <3>1. step'.usage = acc.usage /\ (phase = "stream" => asked = "openai")
      BY <1>3, <1>5, <2>1
    <3> QED
      BY <1>1, <1>13, <3>1 DEF UsageInv, BilledOnce
  <2>2. CASE e.type # "USAGE"
    <3>1. step'.usage = step.usage
      BY <1>5, <2>2
    <3>2. NoReport(queue)
      <4>1. ASSUME NEW i \in 1..Len(queue) PROVE queue[i].type # "USAGE"
        BY <1>2, <2>2 DEF StreamInv, QueueInv
      <4> QED
        BY <4>1 DEF NoReport
    <3>3. phase = "end" => step.usage = acc.usage
      BY <3>2 DEF StreamInv, UsageInv
    <3>4. UsageInv'
      BY <1>1, <1>13, <3>1, <3>2 DEF StreamInv, UsageInv
    <3> QED
      BY <1>1, <1>13, <3>1, <3>3, <3>4 DEF StreamInv, StepInv, BilledOnce
  <2> QED
    BY <2>1, <2>2
<1> QED
  BY <1>9, <1>10, <1>11, <1>12, <1>14, <1>15 DEF StreamInv, StepInv

-----------------------------------------------------------------------------
(* The message of a step                                                    *)

\* So it is with the step's own frames.
LEMMA ClosedNow ==
  ASSUME NEW U, step.text_started \in BOOLEAN, step.reasoning_started \in BOOLEAN,
         Stands(U, frames, step.text_started, step.reasoning_started),
         Event("text-end", 0) \in U, Event("reasoning-end", 0) \in U
  PROVE  LET s == frames \o Closed(step) IN
         InPairs(s) /\ ~Open(s, Text, Len(s)) /\ ~Open(s, Reasoning, Len(s))
BY ClosedFrames

\* What is shown and kept as a step ends.
LEMMA KeepsStep ==
  ASSUME StreamParameters, StreamInv, phase \in {"stream", "end"}, phase' \in {"idle", "over"},
         NEW t, AnySeq(t), \A x \in Elems(t) : x.type \in {"tool-input", "tool-output"},
         NEW results, Roled(results), PendingShape(pending'),
         frames' = frames \o (Closed(step) \o t), history' = history \o (<<Assistant>> \o results),
         record' = record \o (<<Assistant>> \o results),
         queue' = << >>, queue = << >> \/ phase' = "over",
         UNCHANGED <<asked, acc, told, step, made, steps, turns>>
  PROVE  StreamInv'
<1> DEFINE over == Event("text-end", 0)
           stop == Event("reasoning-end", 0)
           U == (Elems(frames) \cup Elems(t)) \cup {over, stop}
<1>1. AnySeq(frames) /\ Roled(history) /\ Roled(record)
      /\ step.text_started \in BOOLEAN /\ step.reasoning_started \in BOOLEAN
      /\ Stands(Elems(frames), frames, step.text_started, step.reasoning_started)
  BY DEF StreamInv, StreamShape, FlagsTrue
<1>2. t \in Seq(U) /\ frames \in Seq(U) /\ Stands(U, frames, step.text_started, step.reasoning_started)
  BY <1>1, Widened, AnyOf DEF AnySeq
<1>3. over \in U /\ stop \in U
  OBVIOUS
<1> HIDE DEF U
<1>4. Closed(step) \in Seq(U)
  <2> DEFINE first == IF step.reasoning_started THEN <<stop>> ELSE << >>
             then  == IF step.text_started THEN <<over>> ELSE << >>
  <2>1. first \in Seq(U) /\ then \in Seq(U)
    BY <1>3
  <2>2. Closed(step) = first \o then
    BY DEF Closed
  <2> HIDE DEF first, then
  <2> QED
    BY <2>1, <2>2
<1> DEFINE s == frames \o Closed(step)
<1>8. s \in Seq(U)
  BY <1>2, <1>4
<1>5. InPairs(s) /\ ~Open(s, Text, Len(s)) /\ ~Open(s, Reasoning, Len(s))
  <2>1. Event("text-end", 0) \in U /\ Event("reasoning-end", 0) \in U
    BY <1>3
  <2>2. /\ step.text_started \in BOOLEAN /\ step.reasoning_started \in BOOLEAN
        /\ Stands(U, frames, step.text_started, step.reasoning_started)
    BY <1>1, <1>2
  <2> HIDE DEF over, stop
  <2> QED
    BY <2>1, <2>2, ClosedNow
<1> HIDE DEF over, stop
<1>6. frames' = s \o t
  BY <1>2, <1>4
<1>7. \A i \in 1..Len(t), part \in Parts : t[i].type \notin {part.start, part.delta, part.end}
  <2>1. \A i \in 1..Len(t) : t[i].type \in {"tool-input", "tool-output"}
    BY DEF Elems
  <2>2. \A part \in Parts : {"tool-input", "tool-output"} \cap {part.start, part.delta, part.end} = {}
    BY DEF Parts, Text, Reasoning
  <2> QED
    BY <2>1, <2>2
<1> HIDE DEF s
<1>9. /\ InPairs(frames')
      /\ \A part \in Parts : Open(frames', part, Len(frames')) <=> Open(s, part, Len(s))
  BY <1>2, <1>5, <1>6, <1>7, <1>8, Others
<1>10. AnySeq(frames')
  <2>1. frames' \in Seq(U)
    BY <1>2, <1>6, <1>8
  <2> QED
    BY <2>1, AnyOf
<1>11. LifecycleKept' /\ FlagsTrue'
  BY <1>5, <1>9 DEF LifecycleKept, FlagsTrue, Parts
<1>12. Roled(history') /\ Roled(record')
  <2>1. Assistant.role \in Roles
    BY DEF Assistant, Roles
  <2>2. Roled(<<Assistant>> \o results)
    BY <2>1, RoledOne, RoledJoin
  <2> QED
    BY <1>1, <2>2, RoledJoin
<1>13. StreamTypeOK'
  BY <1>12, RolesOf DEF StreamInv, StepInv, StreamTypeOK, Roles
<1>14. AnySeq(queue') /\ Len(queue') = 0
  BY AnyOne
<1>15. StreamShape'
  BY <1>10, <1>12, <1>14 DEF StreamInv, StreamShape
<1>16. BilledOnce'
  BY DEF StreamInv, StepInv, BilledOnce
<1>17. QueueInv' /\ UsageInv'
  BY <1>14 DEF QueueInv, UsageInv
<1> QED
  BY <1>11, <1>13, <1>15, <1>16, <1>17 DEF StreamInv, StepInv

\* What a recovered turn shows and keeps of its calls.
LEMMA KeepsResumed ==
  ASSUME StreamParameters, StreamInv, phase = "resume", phase' \in {"idle", "over"},
         NEW t, AnySeq(t), \A x \in Elems(t) : x.type \in {"start-step", "tool-output"},
         NEW results, Roled(results), PendingShape(pending'),
         frames' = frames \o t, history' = history \o results, record' = record \o results,
         UNCHANGED <<asked, acc, told, queue, step, made, steps, turns>>
  PROVE  StreamInv'
<1>1. frames = << >> /\ Len(<< >>) = 0 /\ << >> \in Seq(Elems(t)) /\ t \in Seq(Elems(t))
  BY AnyOne DEF StreamInv, StreamShape, AnySeq
<1>2. InPairs(<< >>) /\ \A part \in Parts : ~Open(<< >>, part, Len(<< >>))
  BY <1>1 DEF InPairs, Open
<1>3. \A i \in 1..Len(t), part \in Parts : t[i].type \notin {part.start, part.delta, part.end}
  <2>1. \A i \in 1..Len(t) : t[i].type \in {"start-step", "tool-output"}
    BY DEF Elems
  <2>2. \A part \in Parts : {"start-step", "tool-output"} \cap {part.start, part.delta, part.end} = {}
    BY DEF Parts, Text, Reasoning
  <2> QED
    BY <2>1, <2>2
<1>4. /\ InPairs(<< >> \o t)
      /\ \A part \in Parts : ~Open(<< >> \o t, part, Len(<< >> \o t))
  BY <1>1, <1>2, <1>3, Others
<1>5. AnySeq(frames') /\ frames' = << >> \o t
  BY <1>1, AnyJoin, AnyOne
<1>6. LifecycleKept' /\ FlagsTrue'
  BY <1>4, <1>5 DEF LifecycleKept, FlagsTrue, Parts
<1>7. Roled(history') /\ Roled(record')
  BY RoledJoin DEF StreamInv, StreamShape
<1>8. StreamTypeOK'
  BY <1>7, RolesOf DEF StreamInv, StepInv, StreamTypeOK, Roles
<1>9. StreamShape'
  BY <1>5, <1>7 DEF StreamInv, StreamShape
<1>10. BilledOnce' /\ QueueInv' /\ UsageInv'
  BY DEF StreamInv, StepInv, BilledOnce, QueueInv, UsageInv
<1> QED
  BY <1>6, <1>8, <1>9, <1>10 DEF StreamInv, StepInv

\* The ends of a step, with calls and without.
LEMMA MessageStep ==
  ASSUME StreamParameters, StreamInv,
         StreamCancelled \/ StepAnswers \/ StepRunsTools \/ StepSuspends \/ ToolsCancelled
  PROVE  StreamInv'
<1>1. AnySeq(step.calls) /\ Roled(record) /\ PendingShape(pending)
  BY DEF StreamInv, StreamShape
<1>2. AnySeq(<< >>) /\ Elems(<< >>) = {} /\ Roled(<< >>)
  BY AnyOne DEF Roled
<1>3. AnySeq(Closed(step))
  <2> DEFINE first == IF step.reasoning_started THEN <<Event("reasoning-end", 0)>> ELSE << >>
             then  == IF step.text_started THEN <<Event("text-end", 0)>> ELSE << >>
  <2>1. AnySeq(first) /\ AnySeq(then)
    BY AnyOne
  <2>2. Closed(step) = first \o then
    BY DEF Closed
  <2> HIDE DEF first, then
  <2> QED
    BY <2>1, <2>2, AnyJoin
<1>4. ASSUME NEW s, AnySeq(s) PROVE s \o << >> = s
  BY <1>4, Joins DEF AnySeq
<1> DEFINE in  == Inputs(step.calls)
           out == Outputs(step.calls)
           results == Mapped(step.calls, Result)
<1>5. /\ AnySeq(in) /\ AnySeq(out) /\ Roled(results)
      /\ \A x \in Elems(in) : x.type = "tool-input"
      /\ \A x \in Elems(out) : x.type = "tool-output"
  BY <1>1, ToolFrames DEF Roled, Roles
<1>6. PendingShape(NoId)
  BY DEF PendingShape
<1> HIDE DEF in, out, results
<1>7. CASE StreamCancelled
  <2>1. Closed(step) = Closed(step) \o << >>
    BY <1>3, <1>4
  <2>2. /\ phase \in {"stream", "end"} /\ phase' = "over" /\ pending' = NoId /\ queue' = << >>
        /\ frames' = frames \o Closed(step)
        /\ history' = history \o (<<Assistant>> \o results)
        /\ record' = record \o (<<Assistant>> \o results)
        /\ UNCHANGED <<asked, acc, told, step, made, steps, turns>>
    BY <1>7 DEF StreamCancelled, TurnOver, Keeps, results
  <2>3. frames' = frames \o (Closed(step) \o << >>)
    BY <2>1, <2>2
  <2> QED
    BY <1>2, <1>5, <1>6, <2>2, <2>3, KeepsStep
<1>8. CASE StepAnswers
  <2>1. Closed(step) = Closed(step) \o << >> /\ <<Assistant>> = <<Assistant>> \o << >>
    BY <1>3, <1>4, AnyOne
  <2>2. /\ phase = "end" /\ phase' = "over" /\ pending' = NoId /\ queue = << >> /\ queue' = << >>
        /\ frames' = frames \o Closed(step) /\ history' = history \o <<Assistant>>
        /\ record' = record \o <<Assistant>>
        /\ UNCHANGED <<asked, acc, told, step, made, steps, turns>>
    BY <1>8 DEF StepAnswers, AllConsumed, StepIsOver, TurnOver, Keeps
  <2>3. /\ frames' = frames \o (Closed(step) \o << >>) /\ history' = history \o (<<Assistant>> \o << >>)
        /\ record' = record \o (<<Assistant>> \o << >>)
    BY <2>1, <2>2
  <2> QED
    BY <1>2, <1>6, <2>2, <2>3, KeepsStep
<1>9. CASE StepRunsTools
  <2>1. AnySeq(in \o out) /\ Elems(in \o out) = Elems(in) \cup Elems(out)
    BY <1>5, AnyJoin
  <2>2. Closed(step) \o in \o out = Closed(step) \o (in \o out)
    <3> DEFINE U == (Elems(Closed(step)) \cup Elems(in)) \cup Elems(out)
    <3>1. Closed(step) \in Seq(U) /\ in \in Seq(U) /\ out \in Seq(U)
      BY <1>3, <1>5, AnyOf DEF AnySeq
    <3> HIDE DEF U
    <3> QED
      BY <3>1, Joins
  <2>3. /\ phase = "end" /\ phase' = "idle" /\ pending' = pending /\ queue = << >> /\ queue' = << >>
        /\ frames' = frames \o (Closed(step) \o in \o out)
        /\ history' = history \o (<<Assistant>> \o results)
        /\ record' = record \o (<<Assistant>> \o results)
        /\ UNCHANGED <<asked, acc, told, step, made, steps, turns>>
    BY <1>9 DEF StepRunsTools, AllConsumed, StepIsOver, Keeps, in, out, results
  <2>4. \A x \in Elems(in \o out) : x.type \in {"tool-input", "tool-output"}
    BY <1>5, <2>1
  <2>5. frames' = frames \o (Closed(step) \o (in \o out))
    BY <2>2, <2>3
  <2> QED
    BY <1>1, <1>5, <2>1, <2>3, <2>4, <2>5, KeepsStep
<1>10. CASE StepSuspends
  <2>1. <<Assistant>> = <<Assistant>> \o << >>
    BY <1>4, AnyOne
  <2>2. /\ phase = "end" /\ phase' = "over" /\ queue = << >> /\ queue' = << >>
        /\ pending' = [record |-> record', calls |-> step.calls]
        /\ frames' = frames \o (Closed(step) \o in)
        /\ history' = history \o <<Assistant>> /\ record' = record \o <<Assistant>>
        /\ UNCHANGED <<asked, acc, told, step, made, steps, turns>>
    BY <1>10 DEF StepSuspends, AllConsumed, StepIsOver, Keeps, in
  <2>3. Roled(record') /\ record' # << >>
    <3>1. Assistant.role \in Roles
      BY DEF Assistant, Roles
    <3>2. Roled(<<Assistant>>)
      BY <3>1, RoledOne
    <3>3. Roled(record')
      BY <1>1, <2>2, <3>2, RoledJoin
    <3>4. Len(record') = Len(record) + 1 /\ Len(record) \in Nat
      BY <1>1, <2>2, AnyOne, AnyJoin DEF Roled
    <3> QED
      BY <3>3, <3>4, AnyOne
  <2>4. PendingShape(pending')
    BY <1>1, <2>2, <2>3 DEF PendingShape
  <2>5. \A x \in Elems(in) : x.type \in {"tool-input", "tool-output"}
    BY <1>5
  <2> QED
    BY <1>2, <1>5, <2>1, <2>2, <2>4, <2>5, KeepsStep
<1>11. CASE ToolsCancelled
  <2>1. PICK inputs \in {<< >>, in} : Keeps(Closed(step) \o inputs, <<Assistant>> \o results)
    BY <1>11 DEF ToolsCancelled, in, results
  <2>2. AnySeq(inputs) /\ \A x \in Elems(inputs) : x.type \in {"tool-input", "tool-output"}
    BY <1>2, <1>5, <2>1
  <2>3. /\ phase = "end" /\ phase' = "over" /\ pending' = NoId /\ queue = << >> /\ queue' = << >>
        /\ frames' = frames \o (Closed(step) \o inputs)
        /\ history' = history \o (<<Assistant>> \o results)
        /\ record' = record \o (<<Assistant>> \o results)
        /\ UNCHANGED <<asked, acc, told, step, made, steps, turns>>
    BY <1>11, <2>1 DEF ToolsCancelled, AllConsumed, StepIsOver, TurnOver, Keeps
  <2> QED
    BY <1>5, <1>6, <2>2, <2>3, KeepsStep
<1> QED
  BY <1>7, <1>8, <1>9, <1>10, <1>11

\* A suspended turn is answered: its calls run, are cancelled, or are left.
LEMMA ResumeStep ==
  ASSUME StreamParameters, StreamInv, RecoverChat \/ ResumedRun \/ ResumedCancelled \/ ResumedToNothing
  PROVE  StreamInv'
<1>1. CASE RecoverChat
  <2>1. /\ phase = "over" /\ phase' = "resume" /\ pending # NoId /\ WorkLeft
        /\ record' = << >> /\ frames' = << >> /\ turns' = turns + 1
        /\ UNCHANGED <<history, pending, asked, acc, queue, step, made, steps>>
    BY <1>1 DEF RecoverChat
  <2>2. Roled(<< >>) /\ AnySeq(<< >>) /\ InPairs(<< >>)
    <3>1. AnySeq(<< >>) /\ Len(<< >>) = 0 /\ Elems(<< >>) = {}
      BY AnyOne
    <3> QED
      BY <3>1 DEF Roled, InPairs
  <2>3. StreamShape'
    BY <2>1, <2>2 DEF StreamInv, StreamShape
  <2>4. StreamTypeOK'
    BY <2>1, Limits DEF StreamInv, StepInv, StreamTypeOK
  <2>5. LifecycleKept' /\ FlagsTrue'
    BY <2>1, <2>2 DEF LifecycleKept, FlagsTrue
  <2>6. BilledOnce' /\ UsageInv'
    <3>1. UsageInv'
      BY <2>1 DEF UsageInv
    <3>2. BilledOnce /\ step' = step /\ acc' = acc /\ phase' # "end"
      BY <2>1 DEF StreamInv, StepInv
    <3> QED
      BY <3>1, <3>2 DEF BilledOnce
  <2>7. QueueInv'
    BY <2>1 DEF StreamInv, QueueInv
  <2> QED
    BY <2>3, <2>4, <2>5, <2>6, <2>7 DEF StreamInv, StepInv
<1>2. ASSUME phase = "resume"
      PROVE  pending # NoId /\ AnySeq(pending.calls) /\ PendingShape(pending) /\ PendingShape(NoId)
  BY <1>2 DEF StreamInv, StreamShape, PendingShape
<1>3. LET first == <<Event("start-step", 0)>> IN
      AnySeq(first) /\ \A x \in Elems(first) : x.type = "start-step"
  BY AnyOne DEF Event
<1> DEFINE first == <<Event("start-step", 0)>>
<1>4. AnySeq(first) /\ \A x \in Elems(first) : x.type = "start-step"
  BY <1>3
<1> HIDE DEF first
<1>5. CASE ResumedRun
  <2> DEFINE waiting == InOrder(pending.calls)
             out == Outputs(waiting)
  <2>1. AnySeq(waiting)
    BY <1>2, <1>5, OrderSeq DEF ResumedRun
  <2> HIDE DEF waiting
  <2>2. /\ AnySeq(out) /\ Roled(Mapped(waiting, Result))
        /\ \A x \in Elems(out) : x.type = "tool-output"
    BY <2>1, ToolFrames DEF Roled, Roles
  <2>3. /\ phase = "resume" /\ phase' = "idle" /\ pending' = pending
        /\ frames' = frames \o (first \o out)
        /\ history' = history \o Mapped(waiting, Result) /\ record' = record \o Mapped(waiting, Result)
        /\ UNCHANGED <<asked, acc, told, queue, step, made, steps, turns>>
    BY <1>5 DEF ResumedRun, StepIsOver, Keeps, first, waiting
  <2> HIDE DEF out
  <2>4. AnySeq(first \o out) /\ \A x \in Elems(first \o out) : x.type \in {"start-step", "tool-output"}
    BY <1>4, <2>2, AnyJoin
  <2> QED
    BY <1>2, <2>2, <2>3, <2>4, KeepsResumed
<1>6. CASE ResumedCancelled
  <2>1. phase = "resume" /\ phase' = "over" /\ pending' = NoId
        /\ frames' = frames \o first
        /\ history' = history \o Mapped(pending.calls, Result)
        /\ record' = record \o Mapped(pending.calls, Result)
        /\ UNCHANGED <<asked, acc, told, queue, step, made, steps, turns>>
    BY <1>6 DEF ResumedCancelled, StepIsOver, TurnOver, Keeps, first
  <2>2. Roled(Mapped(pending.calls, Result))
    BY <1>2, <2>1, ToolFrames DEF Roled, Roles
  <2>3. \A x \in Elems(first) : x.type \in {"start-step", "tool-output"}
    BY <1>4
  <2> QED
    BY <1>2, <1>4, <2>1, <2>2, <2>3, KeepsResumed
<1>7. CASE ResumedToNothing
  <2>1. /\ phase = "resume" /\ phase' = "over" /\ pending' \in {pending, NoId}
        /\ UNCHANGED <<history, record, frames, asked, acc, queue, step, made, steps, turns>>
    BY <1>7 DEF ResumedToNothing, StepIsOver
  <2>2. StreamShape' /\ StreamTypeOK'
    BY <1>2, <2>1 DEF StreamInv, StepInv, StreamShape, StreamTypeOK
  <2>3. frames = << >> /\ Len(<< >>) = 0
    BY <2>1, AnyOne DEF StreamInv, StreamShape
  <2>4. \A part : ~Open(frames, part, Len(frames))
    BY <2>3 DEF Open
  <2>5. LifecycleKept'
    BY <2>1, <2>4 DEF StreamInv, StepInv, LifecycleKept
  <2>6. FlagsTrue' /\ BilledOnce' /\ QueueInv' /\ UsageInv'
    BY <2>1 DEF StreamInv, StepInv, FlagsTrue, BilledOnce, QueueInv, UsageInv
  <2> QED
    BY <2>2, <2>5, <2>6 DEF StreamInv, StepInv
<1> QED
  BY <1>1, <1>5, <1>6, <1>7

\* Every step keeps the invariant.
LEMMA StreamStays ==
  ASSUME StreamParameters, StreamInv, [StreamNext]_streamVars
  PROVE  StreamInv'
<1>1. CASE UNCHANGED streamVars
  BY <1>1 DEF streamVars, saved, StreamInv, StepInv, StreamTypeOK, LifecycleKept, BilledOnce,
              StreamShape, QueueInv, UsageInv, FlagsTrue
<1>2. CASE StreamNext
  BY <1>2, TurnStep, BeginStep, FailStep, EndStep, ConsumeStep, MessageStep, ResumeStep, ReadStep, UsageStep
  DEF StreamNext
<1> QED
  BY <1>1, <1>2

\* The invariant of a session of steps (query_loop.py, the provider adapters).
THEOREM StreamInvariant == ASSUME StreamParameters PROVE StreamSpec => []StreamInv
BY StreamInitInv, StreamStays, PTL DEF StreamSpec

\* In every session the parts that the client is shown start and end in pairs, and nothing
\* is left open by a step that did not fail; and a step is billed the reports of its provider,
\* each of them once, and all of them when its answer is consumed (step_event_interpreter.py,
\* token_usage).
THEOREM StepsAreShown == ASSUME StreamParameters PROVE StreamSpec => []StepInv
<1>1. StreamInv => StepInv
  BY DEF StreamInv
<1> QED
  BY <1>1, StreamInvariant, PTL

=============================================================================
