------------------------------ MODULE Inventory ------------------------------
(***************************************************************************)
(* The resource inventory and the operations that change it               *)
(* (resource-application-service.ts, session-application-service.ts), the *)
(* controller's own validation (bird-inventory.ts,                        *)
(* bird-resource-dependencies.ts) and the rendering of a node's           *)
(* configuration (bird-render.ts).                                        *)
(*                                                                         *)
(* A change is one step here: it runs under the deployment lock, and the  *)
(* module Deployment models how it reaches the nodes and the database, or *)
(* neither.  What this module adds is what a change IS: which inventories *)
(* the validation lets through, and which nodes the operation names as    *)
(* the ones to deploy to.  Whether the BIRD of a node would accept the    *)
(* text is left out: every change the controller lets through may happen, *)
(* so what is shown does not rest on the check that the nodes run.        *)
(*                                                                         *)
(* An inventory has one list of resources per kind.  Of a resource the    *)
(* model keeps what the operations tell apart: the BIRD symbols it        *)
(* declares, its node scope (None is the code's null: every node), whether*)
(* it is enabled, the symbols its BIRD source text mentions, the resources*)
(* it refers to by id, and its content.  A managed iBGP domain stands for *)
(* the peers and sessions expandIbgpDomain makes of it.                   *)
(***************************************************************************)
EXTENDS Naturals, FiniteSets, Sequences, SequencesExt

CONSTANTS
    Node,           \* the managed nodes
    Id,             \* the resource ids
    KindOf,         \* [Id -> Kind]: makeId puts the kind in the id
    Name,           \* BIRD symbols
    Content,        \* contents: the prefixes of a Define, the address of a peer
    None,           \* the code's null
    MaxPolicies,    \* bound: Defines, RPKI sources, Functions and Filters at a time
    MaxProtocols    \* bound: protocols at a time

Declaring == {"define", "rpki", "function", "filter"}
Protocols == {"kernel", "source", "pipe", "ospf", "static", "session", "ibgp"}
Kind == Declaring \cup Protocols \cup {"peer"}

\* The lists that hold anything
Lists == {KindOf[id] : id \in Id}

ASSUME KindAssumption == KindOf \in [Id -> Kind]
ASSUME NoneAssumption == None \notin Id \cup Content

Scope == ((SUBSET Node) \ {{}}) \cup {None}

Resource ==
    [id : Id, names : SUBSET Name, scope : Scope,
     enabled : BOOLEAN, uses : SUBSET Name, refs : SUBSET Id,
     content : Content \cup {None}]

VARIABLES
    inventory,  \* a list of resources per kind, the stored inventory
    stale,      \* nodes whose text a change altered without deploying to them
    resolving   \* the Define an AS-SET is being resolved for, with the scope and
                \* the enabled flag it was read with, or None

vars == <<inventory, stale, resolving>>

-----------------------------------------------------------------------------
(* Scopes.                                                                 *)

\* resourceNodeIds
ScopeNodes(r) == IF r.scope = None THEN Node ELSE r.scope

AppliesTo(r, n) == n \in ScopeNodes(r)

\* resourceScopeContains
ScopeContains(provider, consumer) ==
    IF provider.scope = None THEN TRUE
    ELSE consumer.scope # None /\ consumer.scope \subseteq provider.scope

\* `overlaps' of resourceReferencesSymbol
Overlaps(r, s) ==
    r.scope # None /\ s.scope # None => r.scope \cap s.scope # {}

(* Places of an inventory: <<kind, position>>.                            *)
Places(inv) == UNION {{k} \X DOMAIN inv[k] : k \in Lists}
At(inv, p) == inv[p[1]][p[2]]
Holding(inv, id) == {p \in Places(inv) : At(inv, p).id = id}
Has(inv, id) == Holding(inv, id) # {}
Get(inv, id) == At(inv, CHOOSE p \in Holding(inv, id) : TRUE)

-----------------------------------------------------------------------------
(* The order of declarations, and the symbols a resource provides and     *)
(* refers to.                                                              *)

Phase(k) ==
    IF k = "define" THEN 0 ELSE
    IF k = "rpki" THEN 1 ELSE
    IF k = "function" THEN 2 ELSE
    IF k = "filter" THEN 3 ELSE 4

DeclaredBefore(p, q) ==
    \/ Phase(p[1]) < Phase(q[1])
    \/ Phase(p[1]) = Phase(q[1]) /\ p[2] < q[2]

\* providedSymbols: a Filter is only ever referred to by its id
Provides(inv, p) ==
    IF p[1] \in {"define", "rpki", "function"} THEN At(inv, p).names ELSE {}

NamesOf(inv, ids) == UNION {At(inv, p).names : p \in {q \in Places(inv) : At(inv, q).id \in ids}}

\* references of a dependency node: source text as it stands, and for the
\* kinds the graph follows by id the names of what they refer to
References(inv, p) ==
    At(inv, p).uses \cup
    (IF p[1] \in {"pipe", "source"} \/ (p[1] = "ospf" /\ At(inv, p).enabled)
     THEN NamesOf(inv, At(inv, p).refs) ELSE {})

Candidates(inv, x) == {p \in Places(inv) : x \in Provides(inv, p)}

\* The first of them in the order of dependencyNodes
Foremost(places) == CHOOSE p \in places : \A q \in places \ {p} : DeclaredBefore(p, q)

\* resolveProvider
Provider(inv, c, x) ==
    LET candidates == Candidates(inv, x)
        fitting == {p \in candidates : ScopeContains(At(inv, p), At(inv, c))}
    IN  IF fitting # {} THEN Foremost(fitting)
        ELSE IF c \in candidates THEN c
        ELSE Foremost(candidates)

-----------------------------------------------------------------------------
(* validateInventory.                                                      *)

\* Mutant: a provider may be disabled while its consumer is enabled
SatisfiedWhenDisabled(inv, c, p) ==
    ScopeContains(At(inv, p), At(inv, c)) /\ DeclaredBefore(p, c)

\* One dependency of validateDependencyClosure.  The order rules out the
\* cycles assertAcyclic looks for first, to name them.
Satisfied(inv, c, p) ==
    /\ ScopeContains(At(inv, p), At(inv, c))
    /\ At(inv, c).enabled => At(inv, p).enabled
    /\ DeclaredBefore(p, c)

DependenciesHold(inv) ==
    \A c \in Places(inv) : \A x \in References(inv, c) :
        Candidates(inv, x) # {} => Satisfied(inv, c, Provider(inv, c, x))

\* What a resource refers to by id is there, enabled, and applies where the
\* resource does; an enabled OSPF configuration is checked, a disabled one is
\* kept as a draft, and of a source policy's Defines the scope is not checked.
Usable(inv, c, p) ==
    /\ p[1] # "peer" => At(inv, p).enabled
    /\ CASE c[1] = "source" -> TRUE
         [] c[1] = "kernel" -> \A n \in ScopeNodes(At(inv, c)) : AppliesTo(At(inv, p), n)
         [] OTHER -> ScopeContains(At(inv, p), At(inv, c))

ReferencesUsable(inv) ==
    \A c \in Places(inv) :
        (c[1] = "ospf" => At(inv, c).enabled) =>
            \A id \in At(inv, c).refs :
                \E p \in Places(inv) : At(inv, p).id = id /\ Usable(inv, c, p)

\* Every symbol is declared once on a node.  A disabled Define, Function or
\* Filter keeps its symbol, a disabled RPKI source does not.
Symbols(inv, p) ==
    IF p[1] \in Declaring /\ (p[1] = "rpki" => At(inv, p).enabled) THEN At(inv, p).names ELSE {}

SymbolsUnique(inv) ==
    \A n \in Node : \A p, q \in Places(inv) :
        /\ p # q
        /\ AppliesTo(At(inv, p), n)
        /\ AppliesTo(At(inv, q), n)
        => Symbols(inv, p) \cap Symbols(inv, q) = {}

Valid(inv) == ReferencesUsable(inv) /\ SymbolsUnique(inv) /\ DependenciesHold(inv)

-----------------------------------------------------------------------------
(* Rendering: what is enabled and applies to the node, list by list, with *)
(* names in the place of ids.  A peer is written as part of its session.   *)

\* The places of the resources that are written for a node
Rendered(inv, n) ==
    {p \in Places(inv) : p[1] # "peer" /\ At(inv, p).enabled /\ AppliesTo(At(inv, p), n)}

Text(inv, r) ==
    [names |-> r.names, uses |-> r.uses, content |-> r.content,
     refs |-> {[names |-> At(inv, p).names, content |-> At(inv, p).content] :
                  p \in {q \in Places(inv) : At(inv, q).id \in r.refs}}]

\* The text of each resource, and which of its list come before it
Render(inv, n) ==
    {[of |-> At(inv, p).id,
      text |-> Text(inv, At(inv, p)),
      after |-> {At(inv, q).id : q \in {s \in Rendered(inv, n) : s[1] = p[1] /\ s[2] < p[2]}}] :
        p \in Rendered(inv, n)}

\* Mutant: a reference is looked up in the whole inventory
RendersAnyNode(inv, n) ==
    \A c \in Rendered(inv, n) : \A id \in At(inv, c).refs :
        \E p \in Holding(inv, id) : p[1] # "peer" => At(inv, p).enabled

\* renderBirdConfig throws when a resource it writes refers to one that is not
\* among the enabled resources of the node
Renders(inv, n) ==
    \A c \in Rendered(inv, n) : \A id \in At(inv, c).refs :
        \E p \in Holding(inv, id) :
            AppliesTo(At(inv, p), n) /\ (p[1] # "peer" => At(inv, p).enabled)

-----------------------------------------------------------------------------
(* Edits of an inventory.                                                  *)

Add(inv, r) == [inv EXCEPT ![KindOf[r.id]] = Append(@, r)]

Replace(inv, r) ==
    [inv EXCEPT ![KindOf[r.id]] = [i \in DOMAIN @ |-> IF @[i].id = r.id THEN r ELSE @[i]]]

Without(inv, id) ==
    IF Has(inv, id)
    THEN LET p == CHOOSE p \in Holding(inv, id) : TRUE
         IN  [inv EXCEPT ![p[1]] = RemoveAt(@, p[2])]
    ELSE inv

\* Mutant: only what is enabled counts as a reference
ReferencesSymbolEnabled(inv, x, excluded, provider) ==
    \E p \in Places(inv) :
        /\ p[1] \in {"define", "function", "filter", "static"}
        /\ At(inv, p).id # excluded /\ At(inv, p).enabled
        /\ provider # None => Overlaps(provider, At(inv, p))
        /\ x \in At(inv, p).uses

\* resourceReferencesSymbol: a policy or a Static whose source names the symbol,
\* unless its scope is apart from the provider's
ReferencesSymbol(inv, x, excluded, provider) ==
    \E p \in Places(inv) :
        /\ p[1] \in {"define", "function", "filter", "static"}
        /\ At(inv, p).id # excluded
        /\ provider # None => Overlaps(provider, At(inv, p))
        /\ x \in At(inv, p).uses

\* A check is one expression for TLC, not a choice of steps
Passes(check) == check = TRUE

\* A resource saved disabled is checked as if it were enabled, on its nodes
Preflight(inv, r) ==
    LET probe == Replace(inv, [r EXCEPT !.enabled = TRUE])
    IN  Passes(r.enabled \/ (Valid(probe) /\ \A n \in ScopeNodes(r) : Renders(probe, n)))

\* mutateAndApply: the new inventory is valid, the nodes named are given
\* their new text, and both are there or neither (module Deployment)
Deploy(new, nodes) ==
    /\ Passes(Valid(new) /\ \A n \in nodes : Renders(new, n))
    /\ inventory' = new
    /\ stale' = (stale \cup {n \in Node : Render(new, n) # Render(inventory, n)}) \ nodes

\* resourceChangeNodeIds
ChangeNodes(previous, updated) == ScopeNodes(previous) \cup ScopeNodes(updated)

-----------------------------------------------------------------------------
(* Defines, Functions and Filters.                                        *)

Policies == {"define", "function", "filter"}

CreatePolicy(r) ==
    /\ KindOf[r.id] \in Policies
    /\ ~Has(inventory, r.id)
    /\ LET new == Add(inventory, r)
       IN  Preflight(new, r) /\ Deploy(new, ScopeNodes(r))
    /\ UNCHANGED resolving

UpdatePolicy(r) ==
    /\ KindOf[r.id] \in Policies
    /\ Has(inventory, r.id)
    /\ LET previous == Get(inventory, r.id)
           new == Replace(inventory, r)
       IN  /\ \A x \in previous.names \ r.names :
                  ~ReferencesSymbol(inventory, x, r.id, previous)
           /\ Preflight(new, r)
           /\ Deploy(new, ChangeNodes(previous, r))
    /\ UNCHANGED resolving

\* The references deletePolicy looks for by id: an OSPF configuration that is
\* disabled does not count
ReferencedById(inv, id) ==
    \E p \in Places(inv) :
        /\ id \in At(inv, p).refs
        /\ p[1] = "ospf" => At(inv, p).enabled

DeletePolicy(id) ==
    /\ KindOf[id] \in Policies
    /\ Has(inventory, id)
    /\ ~ReferencedById(inventory, id)
    /\ LET target == Get(inventory, id)
       IN  /\ KindOf[id] # "filter" =>
                  \A x \in target.names : ~ReferencesSymbol(inventory, x, id, target)
           /\ Deploy(Without(inventory, id), ScopeNodes(target))
    /\ UNCHANGED resolving

\* The resource changes places with its neighbour; only the nodes of the one
\* that was asked to move are deployed to
MovePolicy(k, i, j) ==
    /\ k \in {"define", "function"}
    /\ i \in DOMAIN inventory[k]
    /\ j \in DOMAIN inventory[k] \cap {i - 1, i + 1}
    /\ LET moved == inventory[k][i]
           new == [inventory EXCEPT ![k] = [@ EXCEPT ![i] = inventory[k][j], ![j] = moved]]
       IN  Preflight(new, moved) /\ Deploy(new, ScopeNodes(moved))
    /\ UNCHANGED resolving

-----------------------------------------------------------------------------
(* syncIrrDefine: the AS-SET is resolved without the lock, and the answer *)
(* is written if the Define is still the one it was asked for.             *)

StartSync(id) ==
    /\ resolving = None
    /\ KindOf[id] = "define"
    /\ Has(inventory, id)
    /\ Get(inventory, id).content # None
    /\ resolving' = [id |-> id, scope |-> Get(inventory, id).scope,
                      enabled |-> Get(inventory, id).enabled]
    /\ UNCHANGED <<inventory, stale>>

\* Mutant: the answer is written whatever became of the Define meanwhile
FinishSyncUnchecked(entries) ==
    /\ resolving # None
    /\ resolving' = None
    /\ Has(inventory, resolving.id)
    /\ LET current == Get(inventory, resolving.id)
           new == Replace(inventory, [current EXCEPT !.content = entries])
       IN  Deploy(new, IF current.content # entries THEN ScopeNodes(resolving) ELSE {})

\* syncSignature of a Define that is still one of AS-SET entries
SameSource(r, signature) ==
    /\ r.content # None
    /\ r.scope = signature.scope
    /\ r.enabled = signature.enabled

FinishSync(entries) ==
    /\ resolving # None
    /\ resolving' = None
    /\ Has(inventory, resolving.id)
    /\ LET current == Get(inventory, resolving.id)
           new == Replace(inventory, [current EXCEPT !.content = entries])
       IN  /\ SameSource(current, resolving)
           /\ Deploy(new, IF current.content # entries THEN ScopeNodes(resolving) ELSE {})

\* The resolution failed, or its answer was refused: only the state of the
\* synchronisation is written, and no node is deployed to
GiveUpSync ==
    /\ resolving # None
    /\ resolving' = None
    /\ UNCHANGED <<inventory, stale>>

-----------------------------------------------------------------------------
(* RPKI sources.                                                           *)

CreateRpki(r) ==
    /\ KindOf[r.id] = "rpki"
    /\ ~Has(inventory, r.id)
    /\ LET new == Add(inventory, r)
       IN  Preflight(new, r) /\ Deploy(new, ScopeNodes(r))
    /\ UNCHANGED resolving

UpdateRpki(r) ==
    /\ KindOf[r.id] = "rpki"
    /\ Has(inventory, r.id)
    /\ LET previous == Get(inventory, r.id)
           new == Replace(inventory, r)
       IN  /\ \A x \in previous.names \ r.names : ~ReferencesSymbol(inventory, x, None, None)
           /\ Preflight(new, r)
           /\ Deploy(new, ChangeNodes(previous, r))
    /\ UNCHANGED resolving

DeleteRpki(id) ==
    /\ KindOf[id] = "rpki"
    /\ Has(inventory, id)
    /\ LET target == Get(inventory, id)
       IN  /\ \A x \in target.names : ~ReferencesSymbol(inventory, x, None, None)
           /\ Deploy(Without(inventory, id), ScopeNodes(target))
    /\ UNCHANGED resolving

-----------------------------------------------------------------------------
(* Protocols.                                                              *)

\* Kernel protocols: a saved one goes to the end of the list
SaveSystem(r) ==
    /\ KindOf[r.id] = "kernel"
    /\ LET new == Add(Without(inventory, r.id), r)
           previous == IF Has(inventory, r.id) THEN Get(inventory, r.id) ELSE r
       IN  /\ ChangeNodes(previous, r) # {}
           /\ Preflight(new, r)
           /\ Deploy(new, ChangeNodes(previous, r))
    /\ UNCHANGED resolving

CreatePipe(r) ==
    /\ KindOf[r.id] = "pipe"
    /\ ~Has(inventory, r.id)
    /\ Deploy(Add(inventory, r), ScopeNodes(r))
    /\ UNCHANGED resolving

UpdatePipe(r) ==
    /\ KindOf[r.id] = "pipe"
    /\ Has(inventory, r.id)
    /\ Deploy(Replace(inventory, r), ChangeNodes(Get(inventory, r.id), r))
    /\ UNCHANGED resolving

CreateStatic(r) ==
    /\ KindOf[r.id] = "static"
    /\ ~Has(inventory, r.id)
    /\ LET new == Add(inventory, r)
       IN  Preflight(new, r) /\ Deploy(new, ScopeNodes(r))
    /\ UNCHANGED resolving

\* A Static does not change its node
UpdateStatic(r) ==
    /\ KindOf[r.id] = "static"
    /\ Has(inventory, r.id)
    /\ r.scope = Get(inventory, r.id).scope
    /\ LET new == Replace(inventory, r)
       IN  Preflight(new, r) /\ Deploy(new, ScopeNodes(r))
    /\ UNCHANGED resolving

CreateSourcePolicy(r) ==
    /\ KindOf[r.id] = "source"
    /\ ~Has(inventory, r.id)
    /\ LET new == Add(inventory, r)
       IN  Preflight(new, r) /\ Deploy(new, ScopeNodes(r))
    /\ UNCHANGED resolving

UpdateSourcePolicy(r) ==
    /\ KindOf[r.id] = "source"
    /\ Has(inventory, r.id)
    /\ LET new == Replace(inventory, r)
       IN  Preflight(new, r) /\ Deploy(new, ChangeNodes(Get(inventory, r.id), r))
    /\ UNCHANGED resolving

SaveOspf(r) ==
    /\ KindOf[r.id] = "ospf"
    /\ IF Has(inventory, r.id)
       THEN Deploy(Replace(inventory, r), ChangeNodes(Get(inventory, r.id), r))
       ELSE Deploy(Add(inventory, r), ScopeNodes(r))
    /\ UNCHANGED resolving

\* The managed peers and sessions of the domain are made anew
SaveIbgp(r) ==
    /\ KindOf[r.id] = "ibgp"
    /\ LET previous == IF Has(inventory, r.id) THEN Get(inventory, r.id) ELSE r
       IN  Deploy(Add(Without(inventory, r.id), r), ChangeNodes(previous, r))
    /\ UNCHANGED resolving

\* deleteSystem, deletePipe, deleteStatic, deleteSourcePolicy,
\* deleteOspfDomain, deleteIbgpDomain, and delete of the session service:
\* nothing refers to a protocol, and its nodes are deployed to
DeleteProtocol(id) ==
    /\ KindOf[id] \in Protocols
    /\ Has(inventory, id)
    /\ Deploy(Without(inventory, id), ScopeNodes(Get(inventory, id)))
    /\ UNCHANGED resolving

\* A session is the one of its node and its peer
ApplySession(r) ==
    /\ KindOf[r.id] = "session"
    /\ IF Has(inventory, r.id)
       THEN LET previous == Get(inventory, r.id)
                peerOf(s) == {id \in s.refs : KindOf[id] = "peer"}
            IN  /\ r.scope = previous.scope
                /\ peerOf(r) = peerOf(previous)
                /\ Deploy(Replace(inventory, r), ScopeNodes(r))
       ELSE Deploy(Add(inventory, r), ScopeNodes(r))
    /\ UNCHANGED resolving

-----------------------------------------------------------------------------
(* Peers.  They are created and deleted without a deployment.             *)

CreatePeer(r) ==
    /\ KindOf[r.id] = "peer"
    /\ ~Has(inventory, r.id)
    /\ Deploy(Add(inventory, r), {})
    /\ UNCHANGED resolving

UpdatePeer(r) ==
    /\ KindOf[r.id] = "peer"
    /\ Has(inventory, r.id)
    /\ r.scope = Get(inventory, r.id).scope
    /\ Deploy(Replace(inventory, r), ScopeNodes(r))
    /\ UNCHANGED resolving

DeletePeer(id) ==
    /\ KindOf[id] = "peer"
    /\ Has(inventory, id)
    /\ \A p \in Places(inventory) : id \notin At(inventory, p).refs
    /\ Deploy(Without(inventory, id), {})
    /\ UNCHANGED resolving

-----------------------------------------------------------------------------
(* What a request may ask for.                                            *)

Alone == {{n} : n \in Node}
AtMostOne(S) == {{}} \cup {{x} : x \in S}
OfKind(kinds) == {id \in Id : KindOf[id] \in kinds}

Refers(k) ==
    CASE k \in {"kernel", "pipe"} -> AtMostOne(OfKind({"function", "filter"}))
      [] k \in {"static", "ospf", "ibgp"} -> AtMostOne(OfKind(Policies))
      [] k = "source" -> {{id} : id \in OfKind({"define"})}
      [] k = "session" -> {{p} \cup s : p \in OfKind({"peer"}), s \in AtMostOne(OfKind(Policies))}
      [] OTHER -> {{}}

Draft(id) ==
    LET k == KindOf[id] IN
    {r \in [id : {id},
            names : IF k \in Declaring
                    THEN {S \in SUBSET Name : Cardinality(S) = 1 \/ (k = "rpki" /\ S # {})}
                    ELSE {{}},
            scope : IF k \in {"static", "ospf", "session", "peer"} THEN Alone ELSE {None} \cup Alone,
            enabled : IF k = "peer" THEN {TRUE} ELSE BOOLEAN,
            uses : IF k \in {"define", "function", "filter", "static"} THEN AtMostOne(Name) ELSE {{}},
            refs : Refers(k),
            content : IF k \in {"define", "peer"} THEN Content \cup {None} ELSE {None}] :
        /\ k = "define" /\ r.content # None => r.uses = {}
        /\ k = "peer" => r.content # None
        /\ k = "static" => r.uses = {} \/ r.refs = {}
        /\ k = "ibgp" => r.scope # None}

\* Room for one more resource of the kind
Room(k) ==
    LET held(kinds) == Cardinality({p \in Places(inventory) : p[1] \in kinds})
    IN  IF k \in Declaring THEN held(Declaring) < MaxPolicies
        ELSE IF k \in Protocols THEN held(Protocols) < MaxProtocols
        ELSE TRUE

-----------------------------------------------------------------------------
Init ==
    /\ inventory = [k \in Lists |-> <<>>]
    /\ stale = {}
    /\ resolving = None

Next ==
    \/ \E id \in Id : \E r \in Draft(id) :
        /\ ~Has(inventory, id) => Room(KindOf[id])
        /\ \/ CreatePolicy(r) \/ UpdatePolicy(r)
           \/ CreateRpki(r) \/ UpdateRpki(r)
           \/ SaveSystem(r)
           \/ CreatePipe(r) \/ UpdatePipe(r)
           \/ CreateStatic(r) \/ UpdateStatic(r)
           \/ CreateSourcePolicy(r) \/ UpdateSourcePolicy(r)
           \/ SaveOspf(r) \/ SaveIbgp(r) \/ ApplySession(r)
           \/ CreatePeer(r) \/ UpdatePeer(r)
    \/ \E id \in Id :
        \/ DeletePolicy(id) \/ DeleteRpki(id) \/ DeleteProtocol(id) \/ DeletePeer(id)
        \/ StartSync(id)
    \/ \E k \in Lists : \E i, j \in DOMAIN inventory[k] : MovePolicy(k, i, j)
    \/ \E entries \in Content : FinishSync(entries)
    \/ GiveUpSync

Spec == Init /\ [][Next]_vars

-----------------------------------------------------------------------------
(* Properties.                                                             *)

TypeOK ==
    /\ inventory \in [Lists -> Seq(Resource)]
    /\ \A k \in Lists : \A i \in DOMAIN inventory[k] : KindOf[inventory[k][i].id] = k
    /\ \A p, q \in Places(inventory) : At(inventory, p).id = At(inventory, q).id => p = q
    /\ resolving \in [id : Id, scope : Scope, enabled : BOOLEAN] \cup {None}

(* What runs on every node is what the inventory says: no operation changes *)
(* the text of a node it does not deploy to.                                *)
InSync == stale = {}

(* The controller's check of the whole inventory, scope against scope, is *)
(* enough for each node alone: where a resource is written, a symbol that *)
(* its source mentions and that the inventory declares at all is declared *)
(* before it, and once.                                                    *)
NamesResolve ==
    \A n \in Node : \A c \in Places(inventory) :
        At(inventory, c).enabled /\ AppliesTo(At(inventory, c), n) =>
            \A x \in At(inventory, c).uses :
                Candidates(inventory, x) # {} =>
                    \E p \in Places(inventory) :
                        /\ At(inventory, p).enabled /\ AppliesTo(At(inventory, p), n)
                        /\ DeclaredBefore(p, c)
                        /\ x \in At(inventory, p).names
                        /\ \A q \in Places(inventory) \ {p} :
                              At(inventory, q).enabled /\ AppliesTo(At(inventory, q), n) =>
                                  x \notin Symbols(inventory, q)

(* What a resource written for a node refers to by id is written there     *)
(* too, and before it.  Otherwise renderBirdConfig would throw for the     *)
(* node, and with it every later change that deploys there.                *)
ReferencesResolve ==
    \A n \in Node : \A c \in Places(inventory) :
        At(inventory, c).enabled /\ AppliesTo(At(inventory, c), n) =>
            \A id \in At(inventory, c).refs :
                \E p \in Holding(inventory, id) :
                    /\ AppliesTo(At(inventory, p), n)
                    /\ p[1] # "peer" => At(inventory, p).enabled /\ DeclaredBefore(p, c)

(* A symbol a source mentions and some resource provides to it stays       *)
(* provided while the source mentions it, also when the resource that      *)
(* mentions it is disabled and no node would notice.                       *)
ProvidedTo(inv, c, x) == \E p \in Candidates(inv, x) : ScopeContains(At(inv, p), c)

ReferencesAreKept ==
    [][\A c \in Places(inventory) : \A x \in At(inventory, c).uses :
        LET r == At(inventory, c)
        IN  /\ ProvidedTo(inventory, r, x)
            /\ Has(inventory', r.id)
            /\ x \in Get(inventory', r.id).uses
            => ProvidedTo(inventory', Get(inventory', r.id), x)]_vars
=============================================================================
