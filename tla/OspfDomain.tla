------------------------------ MODULE OspfDomain ------------------------------
(***************************************************************************)
(* One stored OSPF domain (src/ospf.ts) and what clients make of it.  A    *)
(* domain has a compact shape, node configurations and links, and a        *)
(* topology-first one, members, areas and links.  Responses hold both, with*)
(* the secrets masked; a client sends back either shape, or a part of it,  *)
(* with one thing changed.  Every save and every read normalises.          *)
(*                                                                         *)
(* Of a link's parameters the cost stands for all that both ends share and *)
(* the type for all that belong to one interface; of an area's, the summary*)
(* switch and the networks.  An area's id and its address are one name, and*)
(* settings a client leaves out count as their defaults.                   *)
(***************************************************************************)
EXTENDS Naturals, FiniteSets, FiniteSetsExt

CONSTANTS
    Node,           \* numbers: the nodes, members in their order
    LinkId,         \* numbers: the links, in their order
    Area,
    Backbone,
    Net,            \* prefixes of areas
    Peer,           \* router ids of virtual links
    Interface,
    Secret,         \* passwords a client types
    Mask,           \* SECRET_PLACEHOLDER
    NoSecret,
    Refused,        \* the result of a normalisation that fails
    NewLinks(_),    \* the links a client adds, with the given id
    Starts,         \* compact domains that clients have created
    Versions,       \* the sets of protocol versions a member runs
    MaxSaves        \* bound: how often the domain is saved

ASSUME SecretAssumption == Cardinality({Mask, NoSecret, Refused} \cup Secret) = 3 + Cardinality(Secret)
ASSUME SavesAssumption == MaxSaves \in Nat

Numbers == Node \subseteq Nat /\ LinkId \subseteq Nat
ASSUME NumberAssumption == Numbers

VARIABLES
    domain,         \* the domain in the inventory
    edit,           \* the last save: its shape, the areas it changed
    saves

domainVars == <<domain, edit, saves>>

\* Settings of an area, a virtual link to a router through an area.
Option == [area : Area, type : {"normal", "stub"}, summary : BOOLEAN, nets : SUBSET Net]
Plain(a) == [area |-> a, type |-> "normal", summary |-> FALSE, nets |-> {}]
Virtual == [peer : Peer, area : Area, secret : Secret]

NewConfig(n, v) == [node |-> n, enabled |-> TRUE, versions |-> v, options |-> {}, virtual |-> {}]
NewArea(a) == [area |-> a, type |-> "normal", options |-> Plain(a), nets |-> {}, virtual |-> {}]
NewMember(n, v) == [node |-> n, enabled |-> TRUE, versions |-> v]

\* A domain in both shapes.  `members' and `areas' are empty unless it is
\* `structured'.
Password == Secret \cup {Mask, NoSecret}
Family == {"v2", "v3"}
VirtualLink == [peer : Peer, area : Area, secret : Password]
LinkEnd ==
    [node : Node, interface : Interface, type : {"ptp", "broadcast", "nbma", "ptmp"},
     neighbors : SUBSET [family : Family, at : Node], secret : Password]

NodeConfig ==
    [node : Node, enabled : BOOLEAN, versions : SUBSET Family,
     options : SUBSET Option, virtual : SUBSET VirtualLink]
Link ==
    [id : LinkId, area : Area, cost : Nat, auth : {"none", "simple", "md5"},
     ends : LinkEnd \X LinkEnd]
Member == [node : Node, enabled : BOOLEAN, versions : SUBSET Family]
AreaEntry ==
    [area : Area, type : {"normal", "stub"}, options : Option, nets : SUBSET Net,
     virtual : SUBSET [node : Node, link : VirtualLink]]

DomainRecord ==
    [structured : BOOLEAN, configs : SUBSET NodeConfig, links : SUBSET Link,
     members : SUBSET Member, areas : SUBSET AreaEntry]

\* Nodes, areas and link ids are there once.
Proper(d) ==
    /\ \A x, y \in d.configs : x.node = y.node => x = y
    /\ \A x \in d.configs : \A o, p \in x.options : o.area = p.area => o = p
    /\ \A l, k \in d.links : l.id = k.id => l = k
    /\ \A m, n \in d.members : m.node = n.node => m = n
    /\ \A x, y \in d.areas : x.area = y.area => x = y
    /\ \A x \in d.areas : x.options.area = x.area

\* What clients send has the form the schemas ask for.
Schemas ==
    /\ \A d \in Starts : /\ d \in DomainRecord /\ Proper(d) /\ d # Refused
                         /\ ~d.structured => d.members = {} /\ d.areas = {}
    /\ \A i \in LinkId : NewLinks(i) \subseteq {l \in Link : l.id = i}
    /\ Versions \subseteq SUBSET Family
ASSUME SchemaAssumption == Schemas

Nodes(set) == {x.node : x \in set}
Areas(set) == {x.area : x \in set}
AtNode(set, n) == CHOOSE x \in set : x.node = n
AtArea(set, a) == CHOOSE x \in set : x.area = a
Replace(set, old, new) == (set \ {old}) \cup {new}

Ends(l) == {l.ends[1], l.ends[2]}
EndOf(l, n) == IF l.ends[1].node = n THEN l.ends[1] ELSE l.ends[2]

-----------------------------------------------------------------------------
(* The topology-first projection (toOspfDomainModel).                      *)

Configured(c, a) == {x \in c : a \in Areas(x.options)}

First(c, a) ==
    IF Configured(c, a) = {} THEN Plain(a)
    ELSE AtArea(AtNode(c, Min(Nodes(Configured(c, a)))).options, a)

VirtualIn(c, a) ==
    UNION {{[node |-> x.node, link |-> v] : v \in {w \in x.virtual : w.area = a}} : x \in c}

OwnAreas(x) == Areas(x.options) \cup Areas(x.virtual)
AreaNames(d) == Areas(d.links) \cup (UNION {OwnAreas(x) : x \in d.configs}) \cup Areas(d.areas)

\* What the client supplied stays as it is; its virtual links unless there are
\* none.
AreaModel(d, a) ==
    LET source == First(d.configs, a)
        links  == VirtualIn(d.configs, a)
    IN  IF a \in Areas(d.areas)
        THEN LET supplied == AtArea(d.areas, a) IN
             IF supplied.virtual # {} THEN supplied ELSE [supplied EXCEPT !.virtual = links]
        ELSE [area |-> a, type |-> source.type, options |-> source, nets |-> source.nets,
              virtual |-> links]

Model(d) ==
    [d EXCEPT !.structured = TRUE,
              !.members = {[node |-> x.node, enabled |-> x.enabled, versions |-> x.versions] :
                           x \in d.configs},
              !.areas = {AreaModel(d, a) : a \in AreaNames(d)}]

-----------------------------------------------------------------------------
(* The way back (adaptStructuredDomain).                                   *)

Settings(area) == <<area.type, area.options, area.nets>>

Retained(c, area) ==
    /\ area.area \in UNION {OwnAreas(x) : x \in c}
    /\ LET source == First(c, area.area) IN Settings(area) = <<source.type, source, source.nets>>

\* (Mutant: the previous settings are lost.)
AreaOptionsGiven(c, n, area) == {[area.options EXCEPT !.type = area.type, !.nets = area.nets]}

\* An area as it was before keeps what each node has for it; one that was
\* changed is given to every member.
AreaOptions(c, n, area) ==
    IF n \in Nodes(c) /\ Retained(c, area)
    THEN {o \in AtNode(c, n).options : o.area = area.area}
    ELSE {[area.options EXCEPT !.type = area.type, !.nets = area.nets]}

\* All virtual links, each with the area that lists it.
ListedLinks(areas) == UNION {{[by |-> x.area, node |-> e.node, link |-> e.link] : e \in x.virtual} : x \in areas}

Adapt(d) ==
    IF ~d.structured THEN d
    ELSE [d EXCEPT !.configs =
            {[node |-> m.node, enabled |-> m.enabled, versions |-> m.versions,
              options |-> UNION {AreaOptions(d.configs, m.node, x) : x \in d.areas},
              virtual |-> {e.link : e \in {f \in ListedLinks(d.areas) : f.node = m.node}}] :
             m \in d.members}]

\* A link into an area that is not listed is refused, and so is a virtual link
\* that two areas list for a member.
Adaptable(d) ==
    d.structured =>
        /\ Areas(d.links) \subseteq Areas(d.areas)
        /\ \A e, f \in ListedLinks(d.areas) :
              e # f /\ e.node = f.node /\ e.node \in Nodes(d.members)
              => <<e.link.peer, e.link.area>> # <<f.link.peer, f.link.area>>

-----------------------------------------------------------------------------
(* Normalisation (nodeConfig, normalizeOspfDomain).                        *)

ValidConfig(x) ==
    /\ x.versions # {}
    /\ \A o \in x.options : /\ o.area = Backbone => o.type = "normal"
                            /\ o.summary => o.type = "stub"
    /\ \A v \in x.virtual : v.area # Backbone
    /\ \A v, w \in x.virtual : v # w => <<v.peer, v.area>> # <<w.peer, w.area>>

\* A simple password is not for OSPFv3.  An NBMA interface names neighbours; the
\* neighbours of an NBMA or PtMP interface cover each family the node runs.
ValidEnd(c, l, e) ==
    /\ e.node \in Nodes(c)
    /\ LET runs == IF AtNode(c, e.node).enabled THEN AtNode(c, e.node).versions ELSE {} IN
        /\ l.auth # "none" /\ runs # {} => e.secret # NoSecret
        /\ l.auth = "simple" => "v3" \notin runs
        /\ e.type = "nbma" => e.neighbors # {}
        /\ e.type \in {"nbma", "ptmp"} /\ e.neighbors # {} => runs \subseteq {x.family : x \in e.neighbors}

HasBackbone(d, x) ==
    \/ Backbone \in Areas(x.options)
    \/ \E l \in d.links : l.area = Backbone /\ x.node \in Nodes(Ends(l))

\* (Mutant: the areas may differ.)
AgreeAnywhere(l, k) ==
    /\ Nodes(Ends(l)) = Nodes(Ends(k)) => l.cost = k.cost
    /\ \A e \in Ends(l), f \in Ends(k) : e.node = f.node /\ e.interface = f.interface =>
          e.type = f.type /\ e.type \in {"nbma", "ptmp"} /\ e.secret = f.secret /\ l.cost = k.cost /\ l.auth = k.auth

\* Links of the same two nodes cost the same.  Links that share an interface
\* agree in all but the neighbours.
Agree(l, k) ==
    /\ Nodes(Ends(l)) = Nodes(Ends(k)) => l.cost = k.cost
    /\ \A e \in Ends(l), f \in Ends(k) : e.node = f.node /\ e.interface = f.interface =>
          /\ e.type = f.type /\ e.type \in {"nbma", "ptmp"} /\ e.secret = f.secret
          /\ l.area = k.area /\ l.cost = k.cost /\ l.auth = k.auth

Valid(d) ==
    /\ \A x \in d.configs : ValidConfig(x) /\ (x.virtual # {} => HasBackbone(d, x))
    /\ \A l \in d.links : l.ends[1].node # l.ends[2].node /\ \A e \in Ends(l) : ValidEnd(d.configs, l, e)
    /\ \A l, k \in d.links : l # k => Agree(l, k)

Normalize(d) ==
    LET compact == Adapt(d) IN
    IF ~Adaptable(d) \/ ~Valid(compact) THEN Refused
    ELSE IF d.structured THEN Model(compact) ELSE compact

DomainInit ==
    /\ domain \in {d \in Starts : Normalize(d) = d}
    /\ edit = [shape |-> "compact", areas |-> {}]
    /\ saves = 0

-----------------------------------------------------------------------------
(* Secrets (src/inventory-redaction.ts).                                   *)

Hide(s) == IF s = NoSecret THEN s ELSE Mask
HideEnd(e) == [e EXCEPT !.secret = Hide(@)]

Redact(d) ==
    [d EXCEPT
       !.configs = {[x EXCEPT !.virtual = {[v EXCEPT !.secret = Hide(@)] : v \in @}] : x \in @},
       !.links = {[l EXCEPT !.ends = <<HideEnd(@[1]), HideEnd(@[2])>>] : l \in @},
       !.areas = {[x EXCEPT !.virtual = {[e EXCEPT !.link.secret = Hide(@)] : e \in @}] : x \in @}]

\* An array element finds its former self by its id and area, whatever node it
\* belongs to; one that finds none keeps the placeholder.
Restored(s, old) == IF s = Mask /\ old # NoSecret THEN old ELSE s

RestoreVirtual(v, old) ==
    LET same == {e \in old : e.link.peer = v.peer /\ e.link.area = v.area} IN
    IF same = {} THEN v
    ELSE [v EXCEPT !.secret = Restored(@, AtNode(same, Min(Nodes(same))).link.secret)]

RestoreConfig(x, old) ==
    [x EXCEPT !.virtual = {RestoreVirtual(v, UNION {{[node |-> y.node, link |-> w] : w \in y.virtual} :
                                                    y \in {z \in old : z.node = x.node}}) : v \in @}]

RestoreEnd(e, old) == [e EXCEPT !.secret = Restored(@, old.secret)]

\* (The stored link is taken to have both its ends; one that came in a compact
\* body may have none to restore from.  No property depends on it.)
RestoreLink(l, old) ==
    LET same == {k \in old : k.id = l.id /\ k.area = l.area} IN
    IF same = {} THEN l
    ELSE LET k == CHOOSE k \in same : TRUE IN
         [l EXCEPT !.ends = <<RestoreEnd(@[1], k.ends[1]), RestoreEnd(@[2], k.ends[2])>>]

RestoreArea(x, old) ==
    [x EXCEPT !.virtual = {[e EXCEPT !.link = RestoreVirtual(@,
                               UNION {y.virtual : y \in {z \in old : z.area = x.area}})] : e \in @}]

Restore(d, old) ==
    [d EXCEPT !.configs = {RestoreConfig(x, old.configs) : x \in @},
              !.links   = {RestoreLink(l, old.links) : l \in @},
              !.areas   = {RestoreArea(x, old.areas) : x \in @}]

-----------------------------------------------------------------------------
(* Saves (materializeOspf, saveOspf).                                      *)

Response == Redact(Model(domain))

\* What a client sends back: all of the response, its compact part, its
\* topology or its links.  The rest stays; a compact body replaces the
\* projections.
Shape == {"whole", "compact", "topology", "links"}

Materialize(body, shape, old) ==
    LET new == Restore(body, old) IN
    CASE shape = "whole"    -> new
      [] shape = "compact"  -> [new EXCEPT !.structured = FALSE, !.members = {}, !.areas = {}]
      [] shape = "topology" -> [new EXCEPT !.configs = old.configs]
      [] shape = "links"    -> [old EXCEPT !.links = new.links]

\* (Mutant: it is normalised once.)
SaveOnce(body, shape, areas) ==
    /\ saves < MaxSaves /\ saves' = saves + 1
    /\ domain' = Normalize(Materialize(body, shape, domain))
    /\ domain' # Refused
    /\ edit' = [shape |-> shape, areas |-> areas]

\* The candidate is normalised, and once more with the inventory around it.
Save(body, shape, areas) ==
    /\ saves < MaxSaves /\ saves' = saves + 1
    /\ \E candidate \in {Normalize(Materialize(body, shape, domain))} :
          /\ candidate # Refused
          /\ domain' = Normalize(candidate)
          /\ domain' # Refused
    /\ edit' = [shape |-> shape, areas |-> areas]

\* Clients.
VirtualChoices(set) == {{}} \cup {set \cup {v} : v \in Virtual}

ConfigChoices(x) ==
    {[x EXCEPT !.enabled = ~@]} \cup {[x EXCEPT !.versions = v] : v \in Versions}
    \cup {[x EXCEPT !.virtual = w] : w \in VirtualChoices(x.virtual)}

AreaChoices(x) ==
    {[x EXCEPT !.type = t] : t \in {"normal", "stub"}}
    \cup {[x EXCEPT !.options.summary = ~@]} \cup {[x EXCEPT !.nets = s] : s \in SUBSET Net}

MemberChoices(m) == {[m EXCEPT !.enabled = ~@]} \cup {[m EXCEPT !.versions = v] : v \in Versions}

EditConfig ==
    LET r == Response IN
    \E n \in Node, v \in Versions :
        IF n \notin Nodes(r.configs) THEN Save([r EXCEPT !.configs = @ \cup {NewConfig(n, v)}], "compact", {})
        ELSE LET x == AtNode(r.configs, n) IN
             \/ Save([r EXCEPT !.configs = @ \ {x}], "compact", {})
             \/ \E y \in ConfigChoices(x) : Save([r EXCEPT !.configs = Replace(@, x, y)], "compact", {})

EditOptions ==
    LET r == Response IN
    \E x \in r.configs, a \in Area :
        LET others == {o \in x.options : o.area # a} IN
        \E new \in {{}} \cup {{o} : o \in {p \in Option : p.area = a}} :
            Save([r EXCEPT !.configs = Replace(@, x, [x EXCEPT !.options = others \cup new])], "compact", {a})

EditLink(shape) ==
    LET r == Response IN
    \E i \in LinkId :
        LET now == {l \in r.links : l.id = i}
            new == IF now = {} THEN NewLinks(i) ELSE UNION {{[l EXCEPT !.area = a] : a \in Area} : l \in now}
        IN  \/ Save([r EXCEPT !.links = @ \ now], shape, {})
            \/ \E l \in new : Save([r EXCEPT !.links = (@ \ now) \cup {l}], shape, {})

EditArea(shape) ==
    LET r == Response IN
    \E a \in Area :
        IF a \notin Areas(r.areas) THEN Save([r EXCEPT !.areas = @ \cup {NewArea(a)}], shape, {a})
        ELSE LET x == AtArea(r.areas, a) IN
             \/ Save([r EXCEPT !.areas = @ \ {x}], shape, {a})
             \/ \E y \in AreaChoices(x) : Save([r EXCEPT !.areas = Replace(@, x, y)], shape, {a})

EditVirtual(shape) ==
    LET r == Response IN
    \E x \in r.areas :
        \/ Save([r EXCEPT !.areas = Replace(@, x, [x EXCEPT !.virtual = {}])], shape, {})
        \/ \E n \in Nodes(r.members), v \in Virtual :
              Save([r EXCEPT !.areas = Replace(@, x, [x EXCEPT !.virtual = @ \cup {[node |-> n, link |-> v]}])],
                   shape, {})

EditMember(shape) ==
    LET r == Response IN
    \E n \in Node, v \in Versions :
        IF n \notin Nodes(r.members) THEN Save([r EXCEPT !.members = @ \cup {NewMember(n, v)}], shape, {})
        ELSE LET m == AtNode(r.members, n) IN
             \/ Save([r EXCEPT !.members = @ \ {m}], shape, {})
             \/ \E y \in MemberChoices(m) : Save([r EXCEPT !.members = Replace(@, m, y)], shape, {})

DomainNext ==
    \/ EditConfig \/ EditOptions
    \/ \E shape \in Shape : EditLink(shape)
    \/ \E shape \in {"whole", "topology"} : EditArea(shape) \/ EditVirtual(shape) \/ EditMember(shape)

DomainSpec == DomainInit /\ [][DomainNext]_domainVars

-----------------------------------------------------------------------------
(* What a node gets (renderOspfForNode of src/bird-render.ts).             *)

LinksAt(d, n) == {l \in d.links : n \in Nodes(Ends(l))}

\* The links of an area on one interface share a block, with the parameters of
\* the first.
Block(d, n, v, a, interface) ==
    LET group == {l \in LinksAt(d, n) : l.area = a /\ EndOf(l, n).interface = interface}
        first == CHOOSE l \in group : \A k \in group : l.id <= k.id
    IN  [interface |-> interface, area |-> a, cost |-> first.cost, auth |-> first.auth,
         type |-> EndOf(first, n).type, secret |-> EndOf(first, n).secret,
         neighbors |-> {x \in UNION {EndOf(l, n).neighbors : l \in group} : x.family = v}]

Blocks(d, n, v) == {Block(d, n, v, l.area, EndOf(l, n).interface) : l \in LinksAt(d, n)}

-----------------------------------------------------------------------------
(* Properties.                                                             *)

\* Whatever shapes the domain was saved in, normalising what is stored once more
\* gives the same domain: a restarted process reads the domain it had, and the
\* candidate saveOspf makes of the previewed one keeps its hash
\* (ospfCandidateHash), so that a preview can be applied.
ReadsAreStable == Normalize(domain) = domain

\* A link that a node has appears in one interface block, in its own area and
\* with its own parameters, even when several links share the interface; the
\* block lists its neighbours of the protocol's family, and BIRD can take it.
LinksAsConfigured ==
    \A x \in domain.configs : x.enabled =>
        \A v \in x.versions, l \in LinksAt(domain, x.node) :
            LET e      == EndOf(l, x.node)
                blocks == {b \in Blocks(domain, x.node, v) : b.interface = e.interface}
            IN  \E b \in blocks :
                   /\ blocks = {b} /\ b.area = l.area /\ b.cost = l.cost /\ b.auth = l.auth
                   /\ b.type = e.type /\ b.secret = e.secret
                   /\ {y \in e.neighbors : y.family = v} \subseteq b.neighbors
                   /\ b.type = "nbma" \/ (b.type = "ptmp" /\ e.neighbors # {}) => b.neighbors # {}
                   /\ ~(b.auth = "simple" /\ v = "v3")

Stay == Nodes(domain.configs) \cap Nodes(domain'.configs)
OptionsOf(d, n, a) == {o \in AtNode(d.configs, n).options : o.area = a}

\* An area that some node has settings for keeps what each node has, unless the
\* client changed that very area; who joins, which shape is sent and how often
\* does not matter.  Only a node with settings that leaves through the
\* topology-first shape may pass them on (see UnchangedAreasKept).
SettledAreasKept ==
    [][\A a \in Area \ edit'.areas :
          LET having == Nodes(Configured(domain.configs, a)) IN
          having # {} /\ (having \subseteq Stay \/ edit'.shape \in {"compact", "links"}) =>
              \A n \in Stay : OptionsOf(domain', n, a) = OptionsOf(domain, n, a)]_domainVars

\* Violated.  An area that the client leaves alone keeps what each node has for
\* it (adaptStructuredDomain: "An unchanged Area must retain its node-specific
\* legacy values").
UnchangedAreasKept ==
    [][\A n \in Stay, a \in Area \ edit'.areas : OptionsOf(domain', n, a) = OptionsOf(domain, n, a)]_domainVars
=============================================================================
