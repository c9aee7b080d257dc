-------------------------- MODULE Inventory_proofs --------------------------
(* Proofs about Inventory, for any set of nodes, resource ids of any       *)
(* kinds, names and contents and any bounds: what the controller's own     *)
(* validation promises each node, and that every node is deployed to whose *)
(* text a change alters.                                                   *)
EXTENDS Inventory, SequenceTheorems, FiniteSetTheorems, TLAPS

-----------------------------------------------------------------------------
(* Places.                                                                 *)

\* The kinds whose resources have BIRD source text.
Sourced == {"define", "function", "filter", "static"}

\* Resources a request may ask for: those kinds mention symbols, protocols refer to
\* policies and peers.
Fit ==
    {r \in Resource :
        /\ KindOf[r.id] \notin Sourced => r.uses = {}
        /\ \A id \in r.refs : KindOf[r.id] \in Protocols /\ KindOf[id] \in Policies \cup {"peer"}}

\* An inventory whose resources are in the list of their kind, each once.
Sound(inv) ==
    /\ inv \in [Lists -> Seq(Fit)]
    /\ \A k \in Lists : \A i \in DOMAIN inv[k] : KindOf[inv[k][i].id] = k
    /\ \A p, q \in Places(inv) : At(inv, p).id = At(inv, q).id => p = q

LEMMA ListFacts ==
    /\ Lists \subseteq Kind
    /\ \A id \in Id : KindOf[id] \in Lists /\ KindOf[id] \in Kind
BY KindAssumption DEF Lists

LEMMA PlaceFacts ==
    ASSUME NEW inv
    PROVE  /\ \A k \in Lists : \A i \in DOMAIN inv[k] :
                 <<k, i>> \in Places(inv) /\ At(inv, <<k, i>>) = inv[k][i]
           /\ \A p \in Places(inv) :
                 p = <<p[1], p[2]>> /\ p[1] \in Lists /\ p[2] \in DOMAIN inv[p[1]]
BY DEF Places, At

LEMMA AtFacts ==
    ASSUME NEW inv, Sound(inv), NEW p \in Places(inv)
    PROVE  /\ inv[p[1]] \in Seq(Fit)
           /\ DOMAIN inv[p[1]] = 1 .. Len(inv[p[1]])
           /\ Len(inv[p[1]]) \in Nat
           /\ p[2] \in Nat \ {0}
           /\ At(inv, p) = inv[p[1]][p[2]]
           /\ At(inv, p) \in Fit
           /\ At(inv, p) \in Resource
           /\ At(inv, p).id \in Id
           /\ KindOf[At(inv, p).id] = p[1]
           /\ p[1] \notin Sourced => At(inv, p).uses = {}
           /\ \A id \in At(inv, p).refs : p[1] \in Protocols /\ KindOf[id] \in Policies \cup {"peer"}
<1>1. p[1] \in Lists /\ p[2] \in DOMAIN inv[p[1]]
  BY PlaceFacts
<1>2. inv[p[1]] \in Seq(Fit)
  BY <1>1 DEF Sound
<1>3. DOMAIN inv[p[1]] = 1 .. Len(inv[p[1]]) /\ Len(inv[p[1]]) \in Nat
  BY <1>2
<1>4. inv[p[1]][p[2]] \in Fit
  BY <1>1, <1>2
<1>5. KindOf[inv[p[1]][p[2]].id] = p[1]
  BY <1>1 DEF Sound
<1>. QED
  BY <1>1, <1>2, <1>3, <1>4, <1>5 DEF At, Fit, Resource

LEMMA OnePlace ==
    ASSUME NEW inv, Sound(inv), NEW p \in Places(inv)
    PROVE  Holding(inv, At(inv, p).id) = {p} /\ Get(inv, At(inv, p).id) = At(inv, p)
<1>1. Holding(inv, At(inv, p).id) = {p}
  BY DEF Holding, Sound
<1>. QED
  BY <1>1 DEF Get

LEMMA HeldPlace ==
    ASSUME NEW inv, NEW id, Sound(inv), Has(inv, id)
    PROVE  \E p \in Places(inv) : /\ At(inv, p).id = id /\ Get(inv, id) = At(inv, p)
                                  /\ Holding(inv, id) = {p}
                                  /\ id \in Id /\ p[1] = KindOf[id]
<1>1. PICK p \in Places(inv) : At(inv, p).id = id
  BY DEF Has, Holding
<1>. QED
  BY <1>1, OnePlace, AtFacts

LEMMA ScopeFacts ==
    /\ \A r \in Resource : ScopeNodes(r) \subseteq Node
    /\ \A r, s \in Resource : ScopeContains(r, s) => ScopeNodes(s) \subseteq ScopeNodes(r)
    /\ \A r, s \in Resource : ScopeContains(r, s) => Overlaps(r, s)
<1>1. \A r \in Resource : r.scope = None \/ (r.scope \subseteq Node /\ r.scope # {})
  BY DEF Resource, Scope
<1>. QED
  BY <1>1 DEF ScopeNodes, ScopeContains, Overlaps

-----------------------------------------------------------------------------
(* The provider of a symbol.                                               *)

LEMMA Least ==
    ASSUME NEW S \in SUBSET Nat, S # {}
    PROVE  \E n \in S : \A m \in S : n <= m
<1> PICK N \in S : TRUE
  OBVIOUS
<1> DEFINE Down == {0 .. n : n \in {m \in S : m <= N}}
<1>1. Down \subseteq FiniteSubsetsOf(0 .. N) /\ Down # {}
  <2>1. \A n \in S : n <= N => 0 .. n \subseteq 0 .. N
    OBVIOUS
  <2>2. \A n \in S : IsFiniteSet(0 .. n)
    BY FS_Interval
  <2>3. N \in {m \in S : m <= N}
    OBVIOUS
  <2>. QED
    BY <2>1, <2>2, <2>3 DEF FiniteSubsetsOf
<1>2. IsFiniteSet(0 .. N)
  BY FS_Interval
<1>3. PICK x \in Down : \A y \in Down : <<y, x>> \notin StrictSubsetOrdering(0 .. N)
  BY <1>1, <1>2, FS_StrictSubsetOrderingWellFounded, WFMin
<1>4. PICK n \in S : n <= N /\ x = 0 .. n
  OBVIOUS
<1>5. SUFFICES ASSUME NEW m \in S, m < n PROVE FALSE
  BY <1>4
<1>6. 0 .. m \in Down /\ 0 .. m \subseteq 0 .. n /\ 0 .. m # 0 .. n /\ 0 .. n \subseteq 0 .. N
  BY <1>4, <1>5
<1>. QED
  BY <1>3, <1>4, <1>6 DEF StrictSubsetOrdering

\* One list has a foremost place of any set that has places of it.
LEMMA LeastPlace ==
    ASSUME NEW inv, Sound(inv), NEW S \in SUBSET Places(inv), NEW k, NEW c \in S, c[1] = k
    PROVE  \E p \in S : p[1] = k /\ \A q \in S : q[1] = k => p[2] <= q[2]
<1> DEFINE I == {q[2] : q \in {s \in S : s[1] = k}}
<1>1. I \in SUBSET Nat /\ I # {}
  BY AtFacts
<1>2. PICK n \in I : \A m \in I : n <= m
  <2> HIDE DEF I
  <2>. QED
    BY <1>1, Least
<1>. QED
  BY <1>2

LEMMA ForemostFits ==
    ASSUME NEW inv, Sound(inv), NEW x, NEW S \in SUBSET Candidates(inv, x), S # {}
    PROVE  Foremost(S) \in S
<1>1. \A p \in S : /\ p[1] \in {"define", "rpki", "function"} /\ p[2] \in Nat
                   /\ p = <<p[1], p[2]>> /\ p \in Places(inv)
  BY AtFacts, PlaceFacts DEF Candidates, Provides
<1> DEFINE First(p) == \A q \in S \ {p} : DeclaredBefore(p, q)
<1>2. \A k \in {"define", "rpki", "function"} : \A p \in S :
        /\ p[1] = k
        /\ \A q \in S : q[1] = k => p[2] <= q[2]
        /\ \A q \in S : Phase(k) <= Phase(q[1])
        => First(p)
  <2> SUFFICES ASSUME NEW k \in {"define", "rpki", "function"}, NEW p \in S, p[1] = k,
                      \A q \in S : q[1] = k => p[2] <= q[2],
                      \A q \in S : Phase(k) <= Phase(q[1]),
                      NEW q \in S \ {p}
               PROVE  DeclaredBefore(p, q)
    OBVIOUS
  <2>1. CASE q[1] = k
    <3>1. p[2] # q[2]
      BY <1>1, <2>1
    <3>. QED
      BY <1>1, <2>1, <3>1 DEF DeclaredBefore
  <2>2. CASE q[1] # k
    <3>1. Phase(k) # Phase(q[1]) /\ Phase(k) \in Nat /\ Phase(q[1]) \in Nat
      BY <1>1, <2>2 DEF Phase
    <3>. QED
      BY <3>1 DEF DeclaredBefore
  <2>. QED
    BY <2>1, <2>2
<1>3. \E p \in S : First(p)
  <2>1. CASE \E p \in S : p[1] = "define"
    <3>1. \A q \in S : Phase("define") <= Phase(q[1])
      BY <1>1 DEF Phase
    <3>2. PICK p \in S : p[1] = "define" /\ \A q \in S : q[1] = "define" => p[2] <= q[2]
      BY <1>1, <2>1, LeastPlace
    <3>. QED
      BY <1>2, <3>1, <3>2
  <2>2. CASE (\A p \in S : p[1] # "define") /\ \E p \in S : p[1] = "rpki"
    <3>1. \A q \in S : Phase("rpki") <= Phase(q[1])
      BY <1>1, <2>2 DEF Phase
    <3>2. PICK p \in S : p[1] = "rpki" /\ \A q \in S : q[1] = "rpki" => p[2] <= q[2]
      BY <1>1, <2>2, LeastPlace
    <3>. QED
      BY <1>2, <3>1, <3>2
  <2>3. CASE \A p \in S : p[1] = "function"
    <3>1. \A q \in S : Phase("function") <= Phase(q[1])
      BY <2>3 DEF Phase
    <3>2. PICK p \in S : p[1] = "function" /\ \A q \in S : q[1] = "function" => p[2] <= q[2]
      BY <1>1, <2>3, LeastPlace
    <3>. QED
      BY <1>2, <3>1, <3>2
  <2>. QED
    BY <1>1, <2>1, <2>2, <2>3
<1>. QED
  BY <1>3 DEF Foremost

LEMMA ProviderFits ==
    ASSUME NEW inv, Sound(inv), NEW c, NEW x, Candidates(inv, x) # {}
    PROVE  Provider(inv, c, x) \in Candidates(inv, x)
<1> DEFINE fitting == {p \in Candidates(inv, x) : ScopeContains(At(inv, p), At(inv, c))}
<1>1. fitting # {} => Foremost(fitting) \in fitting
  BY ForemostFits
<1>2. Foremost(Candidates(inv, x)) \in Candidates(inv, x)
  BY ForemostFits
<1>. QED
  BY <1>1, <1>2 DEF Provider

-----------------------------------------------------------------------------
(* Edits.                                                                  *)

\* p comes before q in their list.
Earlier(p, q) == p[1] = q[1] /\ p[2] < q[2]

\* The two inventories differ in the resource of one id only: its own value, and
\* where it stands among the others.
Edited(inv, new, id) ==
    /\ Sound(new)
    /\ \A p \in Places(inv) : At(inv, p).id # id => \E q \in Places(new) : At(new, q) = At(inv, p)
    /\ \A q \in Places(new) : At(new, q).id # id => \E p \in Places(inv) : At(inv, p) = At(new, q)
    /\ \A p1, p2 \in Places(inv) : \A q1, q2 \in Places(new) :
          /\ At(inv, p1) = At(new, q1) /\ At(inv, p1).id # id
          /\ At(inv, p2) = At(new, q2) /\ At(inv, p2).id # id
          => (Earlier(p1, p2) <=> Earlier(q1, q2))

LEMMA EditedTwice ==
    ASSUME NEW a, NEW b, NEW c, NEW id, Sound(a), Edited(a, b, id), Edited(b, c, id)
    PROVE  Edited(a, c, id)
<1> DEFINE Ordered(inv, new) ==
        \A p1, p2 \in Places(inv) : \A q1, q2 \in Places(new) :
          /\ At(inv, p1) = At(new, q1) /\ At(inv, p1).id # id
          /\ At(inv, p2) = At(new, q2) /\ At(inv, p2).id # id
          => (Earlier(p1, p2) <=> Earlier(q1, q2))
<1>0. Ordered(a, b) /\ Ordered(b, c)
  BY DEF Edited
<1>1. \A p \in Places(a) : At(a, p).id # id =>
         \E q \in Places(b), s \in Places(c) : At(b, q) = At(a, p) /\ At(c, s) = At(a, p)
  BY DEF Edited
<1>2. \A s \in Places(c) : At(c, s).id # id =>
         \E q \in Places(b), p \in Places(a) : At(b, q) = At(c, s) /\ At(a, p) = At(c, s)
  BY DEF Edited
<1>3. ASSUME NEW p1 \in Places(a), NEW p2 \in Places(a), NEW s1 \in Places(c), NEW s2 \in Places(c),
             At(a, p1) = At(c, s1), At(a, p1).id # id,
             At(a, p2) = At(c, s2), At(a, p2).id # id
      PROVE  Earlier(p1, p2) <=> Earlier(s1, s2)
  <2>1. PICK q1 \in Places(b) : At(b, q1) = At(a, p1)
    BY <1>1, <1>3
  <2>2. PICK q2 \in Places(b) : At(b, q2) = At(a, p2)
    BY <1>1, <1>3
  <2>3. Earlier(p1, p2) <=> Earlier(q1, q2)
    BY <1>0, <1>3, <2>1, <2>2
  <2>4. Earlier(q1, q2) <=> Earlier(s1, s2)
    BY <1>0, <1>3, <2>1, <2>2
  <2>. QED
    BY <2>3, <2>4
<1>. QED
  BY <1>1, <1>2, <1>3 DEF Edited

\* `to' says where in the new list the elements of the old one went, but for those
\* of one id.
Carries(old, list, id, to) ==
    /\ \A i \in 1 .. Len(old) : old[i].id # id =>
          to[i] \in 1 .. Len(list) /\ list[to[i]] = old[i]
    /\ \A j \in 1 .. Len(list) : list[j].id # id =>
          \E i \in 1 .. Len(old) : to[i] = j /\ old[i].id # id
    /\ \A i, j \in 1 .. Len(old) : old[i].id # id /\ old[j].id # id =>
          (i < j <=> to[i] < to[j])

\* Resources of the kind k, each once.
Distinct(list, k) ==
    /\ list \in Seq(Fit)
    /\ \A i \in 1 .. Len(list) : KindOf[list[i].id] = k
    /\ \A i, j \in 1 .. Len(list) : list[i].id = list[j].id => i = j

Put(inv, k, list) == [inv EXCEPT ![k] = list]

LEMMA SoundList ==
    ASSUME NEW inv, Sound(inv), NEW k \in Lists
    PROVE  Distinct(inv[k], k)
<1>1. inv[k] \in Seq(Fit) /\ DOMAIN inv[k] = 1 .. Len(inv[k])
  BY DEF Sound
<1>2. \A i \in 1 .. Len(inv[k]) : <<k, i>> \in Places(inv) /\ At(inv, <<k, i>>) = inv[k][i]
  BY <1>1, PlaceFacts
<1>3. \A i \in 1 .. Len(inv[k]) : KindOf[inv[k][i].id] = k
  BY <1>1 DEF Sound
<1>4. ASSUME NEW i \in 1 .. Len(inv[k]), NEW j \in 1 .. Len(inv[k]), inv[k][i].id = inv[k][j].id
      PROVE  i = j
  <2>1. <<k, i>> = <<k, j>>
    BY <1>2, <1>4 DEF Sound
  <2>. QED
    BY <2>1
<1>. QED
  BY <1>1, <1>3, <1>4 DEF Distinct

\* The inventory has the new list, edited in the resource of one id.
Relisted(inv, new, id, list) ==
    /\ Edited(inv, new, id)
    /\ \A q \in Places(new) : At(new, q).id = id =>
          q[2] \in 1 .. Len(list) /\ list[q[2]] = At(new, q)
    /\ \A j \in 1 .. Len(list) : \E q \in Places(new) : At(new, q) = list[j]

\* A new list of one kind is an edit if it carries what it does not change.
LEMMA EditedList ==
    ASSUME NEW inv, Sound(inv), NEW id \in Id, NEW list, NEW to,
           Distinct(list, KindOf[id]), Carries(inv[KindOf[id]], list, id, to)
    PROVE  Relisted(inv, Put(inv, KindOf[id], list), id, list)
<1> DEFINE k == KindOf[id]
           new == Put(inv, k, list)
           old == inv[k]
<1>1. k \in Lists
  BY ListFacts
<1>2. DOMAIN inv = Lists /\ old \in Seq(Fit)
  BY <1>1 DEF Sound
<1>3. DOMAIN new = Lists /\ new[k] = list /\ \A l \in Lists : l # k => new[l] = inv[l]
  BY <1>1, <1>2 DEF Put
<1>4. DOMAIN list = 1 .. Len(list) /\ DOMAIN old = 1 .. Len(old)
  BY <1>2 DEF Distinct
<1>0. inv[k] = old /\ Distinct(list, k) /\ Carries(old, list, id, to)
  OBVIOUS
<1> HIDE DEF k, new, old
<1>5. \A q \in Places(new) : /\ q = <<q[1], q[2]>> /\ q[1] \in Lists
                             /\ q[1] = k => q[2] \in 1 .. Len(list) /\ At(new, q) = list[q[2]]
                             /\ q[1] # k => q \in Places(inv) /\ At(new, q) = At(inv, q)
  <2> SUFFICES ASSUME NEW q \in Places(new)
               PROVE  /\ q = <<q[1], q[2]>> /\ q[1] \in Lists
                      /\ q[1] = k => q[2] \in 1 .. Len(list) /\ At(new, q) = list[q[2]]
                      /\ q[1] # k => q \in Places(inv) /\ At(new, q) = At(inv, q)
    OBVIOUS
  <2>1. q = <<q[1], q[2]>> /\ q[1] \in Lists /\ q[2] \in DOMAIN new[q[1]]
    BY PlaceFacts
  <2>2. q[1] = k => q[2] \in 1 .. Len(list) /\ At(new, q) = list[q[2]]
    BY <1>3, <1>4, <2>1 DEF At
  <2>3. q[1] # k => q \in Places(inv) /\ At(new, q) = At(inv, q)
    <3> SUFFICES ASSUME q[1] # k PROVE q \in Places(inv) /\ At(new, q) = At(inv, q)
      OBVIOUS
    <3>1. new[q[1]] = inv[q[1]] /\ q[2] \in DOMAIN inv[q[1]]
      BY <1>3, <2>1
    <3>2. <<q[1], q[2]>> \in Places(inv)
      BY <2>1, <3>1, PlaceFacts
    <3>. QED
      BY <2>1, <3>1, <3>2 DEF At
  <2>. QED
    BY <2>1, <2>2, <2>3
<1>6. \A j \in 1 .. Len(list) : <<k, j>> \in Places(new) /\ At(new, <<k, j>>) = list[j]
  BY <1>1, <1>3, <1>4, PlaceFacts
<1>7. \A p \in Places(inv) : /\ p = <<p[1], p[2]>> /\ p[1] \in Lists
                             /\ p[1] = k => p[2] \in 1 .. Len(old) /\ At(inv, p) = old[p[2]]
                             /\ p[1] # k => p \in Places(new) /\ At(new, p) = At(inv, p)
  <2> SUFFICES ASSUME NEW p \in Places(inv)
               PROVE  /\ p = <<p[1], p[2]>> /\ p[1] \in Lists
                      /\ p[1] = k => p[2] \in 1 .. Len(old) /\ At(inv, p) = old[p[2]]
                      /\ p[1] # k => p \in Places(new) /\ At(new, p) = At(inv, p)
    OBVIOUS
  <2>1. p = <<p[1], p[2]>> /\ p[1] \in Lists /\ p[2] \in DOMAIN inv[p[1]]
    BY PlaceFacts
  <2>2. p[1] = k => p[2] \in 1 .. Len(old) /\ At(inv, p) = old[p[2]]
    BY <1>0, <1>4, <2>1 DEF At
  <2>3. p[1] # k => p \in Places(new) /\ At(new, p) = At(inv, p)
    <3> SUFFICES ASSUME p[1] # k PROVE p \in Places(new) /\ At(new, p) = At(inv, p)
      OBVIOUS
    <3>1. new[p[1]] = inv[p[1]]
      BY <1>3, <2>1
    <3>2. <<p[1], p[2]>> \in Places(new)
      BY <2>1, <3>1, PlaceFacts
    <3>. QED
      BY <2>1, <3>1, <3>2 DEF At
  <2>. QED
    BY <2>1, <2>2, <2>3
<1>8. \A i \in 1 .. Len(old) : <<k, i>> \in Places(inv) /\ At(inv, <<k, i>>) = old[i]
  BY <1>0, <1>1, <1>4, PlaceFacts
<1>9. \A p \in Places(inv) : KindOf[At(inv, p).id] = p[1]
  BY AtFacts
<1>10. \A q \in Places(new) : KindOf[At(new, q).id] = q[1]
  BY <1>0, <1>5, <1>9 DEF Distinct
<1>11. Sound(new)
  <2>1. new \in [Lists -> Seq(Fit)]
    <3>1. new = [l \in Lists |-> new[l]]
      BY <1>1, <1>2 DEF new, Put
    <3>2. \A l \in Lists : new[l] \in Seq(Fit)
      BY <1>0, <1>3 DEF Sound, Distinct
    <3>. QED
      BY <3>1, <3>2
  <2>2. \A l \in Lists : \A i \in DOMAIN new[l] : KindOf[new[l][i].id] = l
    <3>1. \A i \in DOMAIN new[k] : KindOf[new[k][i].id] = k
      BY <1>0, <1>3, <1>4 DEF Distinct
    <3>2. \A l \in Lists : l # k => \A i \in DOMAIN new[l] : KindOf[new[l][i].id] = l
      BY <1>3 DEF Sound
    <3>. QED
      BY <3>1, <3>2
  <2>3. \A p, q \in Places(new) : At(new, p).id = At(new, q).id => p = q
    <3> SUFFICES ASSUME NEW p \in Places(new), NEW q \in Places(new), At(new, p).id = At(new, q).id
                 PROVE  p = q
      OBVIOUS
    <3>1. p[1] = q[1]
      BY <1>10
    <3>2. CASE p[1] = k
      <4>1. /\ p = <<k, p[2]>> /\ p[2] \in 1 .. Len(list) /\ At(new, p) = list[p[2]]
            /\ q = <<k, q[2]>> /\ q[2] \in 1 .. Len(list) /\ At(new, q) = list[q[2]]
        BY <1>5, <3>1, <3>2
      <4>2. p[2] = q[2]
        BY <1>0, <4>1 DEF Distinct
      <4>. QED
        BY <4>1, <4>2
    <3>3. CASE p[1] # k
      <4>1. /\ p \in Places(inv) /\ At(new, p) = At(inv, p)
            /\ q \in Places(inv) /\ At(new, q) = At(inv, q)
        BY <1>5, <3>1, <3>3
      <4>. QED
        BY <4>1 DEF Sound
    <3>. QED
      BY <3>2, <3>3
  <2>. QED
    BY <2>1, <2>2, <2>3 DEF Sound
<1>12. \A p \in Places(inv) : At(inv, p).id # id =>
          \E q \in Places(new) : At(new, q) = At(inv, p)
  <2> SUFFICES ASSUME NEW p \in Places(inv), At(inv, p).id # id
               PROVE  \E q \in Places(new) : At(new, q) = At(inv, p)
    OBVIOUS
  <2>1. CASE p[1] # k
    BY <1>7, <2>1
  <2>2. CASE p[1] = k
    <3>1. p[2] \in 1 .. Len(old) /\ At(inv, p) = old[p[2]]
      BY <1>7, <2>2
    <3>2. to[p[2]] \in 1 .. Len(list) /\ list[to[p[2]]] = old[p[2]]
      BY <1>0, <3>1 DEF Carries
    <3>. QED
      BY <1>6, <3>1, <3>2
  <2>. QED
    BY <2>1, <2>2
<1>13. \A q \in Places(new) : At(new, q).id # id =>
          \E p \in Places(inv) : At(inv, p) = At(new, q)
  <2> SUFFICES ASSUME NEW q \in Places(new), At(new, q).id # id
               PROVE  \E p \in Places(inv) : At(inv, p) = At(new, q)
    OBVIOUS
  <2>1. CASE q[1] # k
    BY <1>5, <2>1
  <2>2. CASE q[1] = k
    <3>1. q[2] \in 1 .. Len(list) /\ At(new, q) = list[q[2]]
      BY <1>5, <2>2
    <3>2. PICK i \in 1 .. Len(old) : to[i] = q[2] /\ old[i].id # id
      BY <1>0, <3>1 DEF Carries
    <3>3. list[q[2]] = old[i]
      BY <1>0, <3>2 DEF Carries
    <3>. QED
      BY <1>8, <3>1, <3>3
  <2>. QED
    BY <2>1, <2>2
<1>14. ASSUME NEW p1 \in Places(inv), NEW p2 \in Places(inv),
              NEW q1 \in Places(new), NEW q2 \in Places(new),
              At(inv, p1) = At(new, q1), At(inv, p1).id # id,
              At(inv, p2) = At(new, q2), At(inv, p2).id # id
       PROVE  Earlier(p1, p2) <=> Earlier(q1, q2)
  <2>1. p1[1] = q1[1] /\ p2[1] = q2[1]
    BY <1>9, <1>10, <1>14
  <2>2. \A p \in Places(inv), q \in Places(new) :
          p[1] = q[1] /\ At(inv, p) = At(new, q) =>
              /\ p[1] # k => p = q
              /\ p[1] = k /\ At(inv, p).id # id =>
                    /\ p[2] \in 1 .. Len(old) /\ old[p[2]].id # id
                    /\ q[2] = to[p[2]]
    <3> SUFFICES ASSUME NEW p \in Places(inv), NEW q \in Places(new),
                        p[1] = q[1], At(inv, p) = At(new, q)
                 PROVE  /\ p[1] # k => p = q
                        /\ p[1] = k /\ At(inv, p).id # id =>
                              /\ p[2] \in 1 .. Len(old) /\ old[p[2]].id # id
                              /\ q[2] = to[p[2]]
      OBVIOUS
    <3>1. p[1] # k => p = q
      <4>1. p[1] # k => q \in Places(inv) /\ At(inv, q) = At(inv, p)
        BY <1>5
      <4>. QED
        BY <4>1 DEF Sound
    <3>2. ASSUME p[1] = k, At(inv, p).id # id
          PROVE  p[2] \in 1 .. Len(old) /\ old[p[2]].id # id /\ q[2] = to[p[2]]
      <4>1. p[2] \in 1 .. Len(old) /\ At(inv, p) = old[p[2]]
        BY <1>7, <3>2
      <4>2. to[p[2]] \in 1 .. Len(list) /\ list[to[p[2]]] = old[p[2]]
        BY <1>0, <3>2, <4>1 DEF Carries
      <4>3. q[2] \in 1 .. Len(list) /\ At(new, q) = list[q[2]]
        BY <1>5, <3>2
      <4>. QED
        BY <1>0, <3>2, <4>1, <4>2, <4>3 DEF Distinct
    <3>. QED
      BY <3>1, <3>2
  <2>3. CASE p1[1] = k /\ p2[1] = k
    <3>1. /\ p1[2] \in 1 .. Len(old) /\ old[p1[2]].id # id /\ q1[2] = to[p1[2]]
          /\ p2[2] \in 1 .. Len(old) /\ old[p2[2]].id # id /\ q2[2] = to[p2[2]]
      BY <1>14, <2>1, <2>2, <2>3
    <3>2. p1[2] < p2[2] <=> q1[2] < q2[2]
      BY <1>0, <3>1 DEF Carries
    <3>. QED
      BY <2>1, <2>3, <3>2 DEF Earlier
  <2>4. CASE p1[1] # k \/ p2[1] # k
    <3>1. p1[1] = p2[1] => p1 = q1 /\ p2 = q2
      BY <1>14, <2>1, <2>2, <2>4
    <3>. QED
      BY <2>1, <3>1 DEF Earlier
  <2>. QED
    BY <2>3, <2>4
<1>15. Edited(inv, new, id)
  BY <1>11, <1>12, <1>13, <1>14 DEF Edited
<1>16. \A q \in Places(new) : At(new, q).id = id =>
          q[2] \in 1 .. Len(list) /\ list[q[2]] = At(new, q)
  BY <1>5, <1>10 DEF k
<1>. QED
  BY <1>6, <1>15, <1>16 DEF new, k, Relisted

\* The resource of its id is r.
Holds(inv, r) ==
    /\ \E q \in Places(inv) : At(inv, q) = r
    /\ \A q \in Places(inv) : At(inv, q).id = r.id => At(inv, q) = r

LEMMA HoldsOne ==
    ASSUME NEW inv, Sound(inv), NEW q \in Places(inv)
    PROVE  Holds(inv, At(inv, q))
BY DEF Holds, Sound

LEMMA Unedited ==
    ASSUME NEW inv, Sound(inv), NEW id
    PROVE  Edited(inv, inv, id)
<1>1. \A p, q \in Places(inv) : At(inv, p) = At(inv, q) => p = q
  BY DEF Sound
<1>. QED
  BY <1>1 DEF Edited

LEMMA AddEdits ==
    ASSUME NEW inv, Sound(inv), NEW r \in Fit, ~Has(inv, r.id)
    PROVE  Edited(inv, Add(inv, r), r.id) /\ Holds(Add(inv, r), r)
<1> DEFINE id == r.id
           k == KindOf[id]
           old == inv[k]
           list == Append(old, r)
           to == [i \in 1 .. Len(old) |-> i]
<1>1. id \in Id /\ k \in Lists
  BY ListFacts DEF Fit, Resource
<1>2. Distinct(old, k)
  BY <1>1, SoundList
<1>3. /\ list \in Seq(Fit) /\ Len(list) = Len(old) + 1 /\ Len(old) \in Nat
      /\ list[Len(old) + 1] = r /\ \A i \in 1 .. Len(old) : list[i] = old[i]
  BY <1>2 DEF Distinct
<1>4. \A i \in 1 .. Len(old) : old[i].id # id
  <2>1. \A i \in 1 .. Len(old) : <<k, i>> \in Places(inv) /\ At(inv, <<k, i>>) = old[i]
    BY <1>1, <1>2, PlaceFacts DEF Distinct
  <2>. QED
    BY <2>1 DEF Has, Holding
<1>0. Add(inv, r) = Put(inv, k, list)
  BY DEF Add, Put
<1> HIDE DEF list, old
<1>5. Distinct(list, k)
  BY <1>2, <1>3, <1>4 DEF Distinct
<1>6. Carries(old, list, id, to)
  BY <1>3, <1>4 DEF Carries
<1>7. Relisted(inv, Put(inv, k, list), id, list)
  <2> HIDE DEF to
  <2>. QED
    BY <1>1, <1>5, <1>6, EditedList DEF old
<1>8. Len(list) \in 1 .. Len(list) /\ list[Len(list)] = r
  BY <1>3
<1>9. \E q \in Places(Put(inv, k, list)) : At(Put(inv, k, list), q) = r
  BY <1>7, <1>8 DEF Relisted
<1>10. Holds(Put(inv, k, list), r)
  BY <1>7, <1>9, HoldsOne DEF Edited, Relisted
<1>. QED
  BY <1>0, <1>7, <1>10 DEF Relisted

LEMMA ReplaceEdits ==
    ASSUME NEW inv, Sound(inv), NEW r \in Fit, Has(inv, r.id)
    PROVE  Edited(inv, Replace(inv, r), r.id) /\ Holds(Replace(inv, r), r)
<1> DEFINE id == r.id
           k == KindOf[id]
           old == inv[k]
           list == [i \in DOMAIN old |-> IF old[i].id = r.id THEN r ELSE old[i]]
           to == [i \in 1 .. Len(old) |-> i]
<1>1. id \in Id /\ k \in Lists
  BY ListFacts DEF Fit, Resource
<1>2. Distinct(old, k) /\ DOMAIN old = 1 .. Len(old) /\ Len(old) \in Nat
  BY <1>1, SoundList DEF Distinct
<1>3. /\ list \in Seq(Fit) /\ Len(list) = Len(old)
      /\ \A i \in 1 .. Len(old) : list[i] = IF old[i].id = id THEN r ELSE old[i]
  BY <1>2 DEF Distinct
<1>4. PICK i \in 1 .. Len(old) : old[i].id = id
  <2>1. PICK p \in Places(inv) : At(inv, p).id = id /\ p[1] = k
    BY HeldPlace
  <2>2. p[2] \in DOMAIN old /\ At(inv, p) = old[p[2]]
    BY <2>1, PlaceFacts DEF At
  <2>. QED
    BY <1>2, <2>1, <2>2
<1>0. Replace(inv, r) = Put(inv, k, list)
  BY DEF Replace, Put
<1> HIDE DEF list, old
<1>5. Distinct(list, k)
  BY <1>2, <1>3 DEF Distinct
<1>6. Carries(old, list, id, to)
  BY <1>2, <1>3 DEF Carries
<1>7. Relisted(inv, Put(inv, k, list), id, list)
  <2> HIDE DEF to
  <2>. QED
    BY <1>1, <1>5, <1>6, EditedList DEF old
<1>8. \E q \in Places(Put(inv, k, list)) : At(Put(inv, k, list), q) = r
  BY <1>3, <1>4, <1>7 DEF Relisted
<1>9. Holds(Put(inv, k, list), r)
  BY <1>7, <1>8, HoldsOne DEF Edited, Relisted
<1>. QED
  BY <1>0, <1>7, <1>9 DEF Relisted

LEMMA RemoveAtFacts ==
    ASSUME NEW X, NEW s \in Seq(X), NEW n \in 1 .. Len(s)
    PROVE  /\ RemoveAt(s, n) \in Seq(X)
           /\ Len(RemoveAt(s, n)) = Len(s) - 1
           /\ \A i \in 1 .. Len(s) - 1 :
                 RemoveAt(s, n)[i] = IF i < n THEN s[i] ELSE s[i + 1]
<1> DEFINE a == SubSeq(s, 1, n - 1)
           b == SubSeq(s, n + 1, Len(s))
<1>1. a \in Seq(X) /\ Len(a) = n - 1 /\ \A i \in 1 .. n - 1 : a[i] = s[i]
  OBVIOUS
<1>2. b \in Seq(X) /\ Len(b) = Len(s) - n /\ \A i \in 1 .. Len(s) - n : b[i] = s[i + n]
  OBVIOUS
<1>3. RemoveAt(s, n) = a \o b
  BY DEF RemoveAt
<1> HIDE DEF a, b
<1>0. Len(a) + Len(b) = Len(s) - 1 /\ Len(a) = n - 1 /\ Len(s) \in Nat
  BY <1>1, <1>2
<1>4. /\ a \o b \in Seq(X)
      /\ Len(a \o b) = Len(a) + Len(b)
      /\ \A i \in 1 .. Len(a) + Len(b) :
            (a \o b)[i] = IF i <= Len(a) THEN a[i] ELSE b[i - Len(a)]
  <2>1. a \in Seq(X) /\ b \in Seq(X)
    BY <1>1, <1>2
  <2>. QED
    BY ONLY <2>1, ConcatProperties
<1>5. \A i \in 1 .. Len(s) - 1 : (a \o b)[i] = IF i < n THEN a[i] ELSE b[i - (n - 1)]
  <2> SUFFICES ASSUME NEW i \in 1 .. Len(s) - 1
               PROVE  (a \o b)[i] = IF i < n THEN a[i] ELSE b[i - (n - 1)]
    OBVIOUS
  <2>1. (a \o b)[i] = IF i <= Len(a) THEN a[i] ELSE b[i - Len(a)]
    BY <1>0, <1>4
  <2>2. i <= Len(a) <=> i < n
    BY <1>0
  <2>. QED
    BY <1>0, <2>1, <2>2
<1>6. \A i \in 1 .. Len(s) - 1 : (a \o b)[i] = IF i < n THEN s[i] ELSE s[i + 1]
  <2> SUFFICES ASSUME NEW i \in 1 .. Len(s) - 1
               PROVE  (a \o b)[i] = IF i < n THEN s[i] ELSE s[i + 1]
    OBVIOUS
  <2>1. CASE i < n
    BY <1>1, <1>5, <2>1
  <2>2. CASE ~(i < n)
    <3>1. i - (n - 1) \in 1 .. Len(s) - n /\ i - (n - 1) + n = i + 1
      BY <2>2
    <3>2. b[i - (n - 1)] = s[i + 1]
      BY <1>2, <3>1
    <3>. QED
      BY <1>5, <2>2, <3>2
  <2>. QED
    BY <2>1, <2>2
<1>. QED
  BY <1>0, <1>3, <1>4, <1>6

LEMMA WithoutEdits ==
    ASSUME NEW inv, Sound(inv), NEW id \in Id
    PROVE  Edited(inv, Without(inv, id), id) /\ ~Has(Without(inv, id), id)
<1>1. CASE ~Has(inv, id)
  BY <1>1, Unedited DEF Without
<1>2. CASE Has(inv, id)
  <2> DEFINE k == KindOf[id]
             old == inv[k]
  <2>1. PICK p \in Places(inv) : At(inv, p).id = id /\ Holding(inv, id) = {p} /\ p[1] = k
    BY <1>2, HeldPlace
  <2> DEFINE n == p[2]
             list == RemoveAt(old, n)
             to == [i \in 1 .. Len(old) |-> IF i < n THEN i ELSE i - 1]
  <2>2. k \in Lists /\ n \in DOMAIN old /\ old[n].id = id
    BY <2>1, PlaceFacts DEF At
  <2>3. Distinct(old, k) /\ DOMAIN old = 1 .. Len(old) /\ Len(old) \in Nat /\ old \in Seq(Fit)
    BY <2>2, SoundList DEF Distinct
  <2>4. /\ list \in Seq(Fit) /\ Len(list) = Len(old) - 1
        /\ \A i \in 1 .. Len(old) - 1 : list[i] = IF i < n THEN old[i] ELSE old[i + 1]
    <3> HIDE DEF old, n
    <3>. QED
      BY <2>2, <2>3, RemoveAtFacts
  <2>5. Without(inv, id) = Put(inv, k, list)
    BY <1>2, <2>1 DEF Without, Put
  <2>6. n \in 1 .. Len(old) /\ old[n].id = id
    BY <2>2, <2>3
  <2> HIDE DEF list, old, n
  <2>7. \A i \in 1 .. Len(old) : old[i].id = id => i = n
    BY <2>3, <2>6 DEF Distinct
  <2>8. \A i \in 1 .. Len(list) : list[i].id # id
    BY <2>3, <2>4, <2>6, <2>7
  <2>9. Distinct(list, k)
    <3>1. \A i \in 1 .. Len(list) : KindOf[list[i].id] = k
      BY <2>3, <2>4, <2>6 DEF Distinct
    <3>2. ASSUME NEW i \in 1 .. Len(list), NEW j \in 1 .. Len(list), list[i].id = list[j].id
          PROVE  i = j
      <4> DEFINE from(x) == IF x < n THEN x ELSE x + 1
      <4>1. /\ from(i) \in 1 .. Len(old) /\ list[i] = old[from(i)]
            /\ from(j) \in 1 .. Len(old) /\ list[j] = old[from(j)]
        BY <2>3, <2>4, <2>6
      <4>2. from(i) = from(j)
        <5> HIDE DEF from
        <5>. QED
          BY <2>3, <3>2, <4>1 DEF Distinct
      <4>. QED
        BY <2>3, <2>4, <2>6, <4>2
    <3>. QED
      BY <2>4, <3>1, <3>2 DEF Distinct
  <2>10. Carries(old, list, id, to)
    <3>1. \A i \in 1 .. Len(old) : old[i].id # id => i # n
      BY <2>6
    <3>2. \A i \in 1 .. Len(old) : i # n => to[i] \in 1 .. Len(list) /\ list[to[i]] = old[i]
      BY <2>3, <2>4, <2>6
    <3>3. \A j \in 1 .. Len(list) : \E i \in 1 .. Len(old) : to[i] = j /\ i # n
      <4> SUFFICES ASSUME NEW j \in 1 .. Len(list)
                   PROVE  \E i \in 1 .. Len(old) : to[i] = j /\ i # n
        OBVIOUS
      <4>1. CASE j < n
        <5>1. j \in 1 .. Len(old) /\ to[j] = j /\ j # n
          BY <2>3, <2>4, <2>6, <4>1
        <5> HIDE DEF to
        <5>. QED
          BY <5>1
      <4>2. CASE ~(j < n)
        <5>1. j + 1 \in 1 .. Len(old) /\ to[j + 1] = j /\ j + 1 # n
          BY <2>3, <2>4, <2>6, <4>2
        <5> HIDE DEF to
        <5>. QED
          BY <5>1
      <4>. QED
        BY <4>1, <4>2
    <3>4. \A i, j \in 1 .. Len(old) : i # n /\ j # n => (i < j <=> to[i] < to[j])
      BY <2>3, <2>6
    <3> HIDE DEF to
    <3>. QED
      BY <2>7, <3>1, <3>2, <3>3, <3>4 DEF Carries
  <2>11. Relisted(inv, Put(inv, k, list), id, list)
    <3> HIDE DEF to
    <3>. QED
      BY <2>9, <2>10, EditedList DEF old
  <2>12. ~Has(Put(inv, k, list), id)
    BY <2>8, <2>11 DEF Has, Holding, Relisted
  <2>. QED
    BY <2>5, <2>11, <2>12 DEF Relisted
<1>. QED
  BY <1>1, <1>2

\* Two neighbours change places.
Swap(inv, k, i, j) ==
    [inv EXCEPT ![k] = [@ EXCEPT ![i] = inv[k][j], ![j] = inv[k][i]]]

LEMMA SwapEdits ==
    ASSUME NEW inv, Sound(inv), NEW k \in Lists,
           NEW i \in DOMAIN inv[k], NEW j \in DOMAIN inv[k] \cap {i - 1, i + 1}
    PROVE  /\ Edited(inv, Swap(inv, k, i, j), inv[k][i].id)
           /\ Holds(Swap(inv, k, i, j), inv[k][i])
<1> DEFINE old == inv[k]
           id == old[i].id
           list == [old EXCEPT ![i] = old[j], ![j] = old[i]]
           to == [x \in 1 .. Len(old) |-> IF x = j THEN i ELSE x]
<1>1. Distinct(old, k) /\ DOMAIN old = 1 .. Len(old) /\ Len(old) \in Nat /\ old \in Seq(Fit)
  BY SoundList DEF Distinct
<1>2. i \in 1 .. Len(old) /\ j \in 1 .. Len(old) /\ (j = i - 1 \/ j = i + 1)
  BY <1>1
<1>3. id \in Id /\ KindOf[id] = k
  BY <1>1, <1>2 DEF Distinct, Fit, Resource
<1>4. Swap(inv, k, i, j) = Put(inv, k, list)
  BY DEF Swap, Put
<1>5. /\ list \in Seq(Fit) /\ Len(list) = Len(old)
      /\ \A x \in 1 .. Len(old) : list[x] = IF x = j THEN old[i] ELSE IF x = i THEN old[j] ELSE old[x]
  <2> HIDE DEF old
  <2>. QED
    BY <1>1, <1>2
<1> HIDE DEF list
<1>6. Distinct(list, k)
  <2> DEFINE from(x) == IF x = j THEN i ELSE IF x = i THEN j ELSE x
  <2>1. \A x \in 1 .. Len(old) : from(x) \in 1 .. Len(old) /\ list[x] = old[from(x)]
    BY <1>2, <1>5
  <2>2. \A x, y \in 1 .. Len(old) : from(x) = from(y) => x = y
    BY <1>2
  <2> HIDE DEF from, old
  <2>. QED
    BY <1>1, <1>5, <2>1, <2>2 DEF Distinct
<1>7. Carries(old, list, id, to)
  <2>0. \A x \in 1 .. Len(old) : old[x].id # id <=> x # i
    <3> HIDE DEF old
    <3>. QED
      BY <1>1, <1>2 DEF Distinct
  <2>1. \A x \in 1 .. Len(old) : x # i => to[x] \in 1 .. Len(list) /\ list[to[x]] = old[x]
    BY <1>2, <1>5
  <2>2. list[j].id = id
    BY <1>2, <1>5
  <2>3. \A y \in 1 .. Len(list) : y # j => \E x \in 1 .. Len(old) : to[x] = y /\ x # i
    <3> SUFFICES ASSUME NEW y \in 1 .. Len(list), y # j
                 PROVE  \E x \in 1 .. Len(old) : to[x] = y /\ x # i
      OBVIOUS
    <3>1. CASE y = i
      BY <1>2, <3>1
    <3>2. CASE y # i
      BY <1>2, <1>5, <3>2
    <3>. QED
      BY <3>1, <3>2
  <2>4. \A x, y \in 1 .. Len(old) : x # i /\ y # i => (x < y <=> to[x] < to[y])
    BY <1>1, <1>2
  <2> HIDE DEF to, old, id
  <2>. QED
    BY <2>0, <2>1, <2>2, <2>3, <2>4 DEF Carries
<1>8. Relisted(inv, Put(inv, k, list), id, list)
  <2>1. Distinct(list, KindOf[id]) /\ Carries(inv[KindOf[id]], list, id, to)
    BY <1>3, <1>6, <1>7
  <2> HIDE DEF to, id, old
  <2>2. Relisted(inv, Put(inv, KindOf[id], list), id, list)
    BY <1>3, <2>1, EditedList
  <2>. QED
    BY <1>3, <2>2
<1>9. \E q \in Places(Put(inv, k, list)) : At(Put(inv, k, list), q) = old[i]
  BY <1>2, <1>5, <1>8 DEF Relisted
<1>10. Holds(Put(inv, k, list), old[i])
  BY <1>8, <1>9, HoldsOne DEF Edited, Relisted
<1>. QED
  BY <1>4, <1>8, <1>10 DEF Relisted

-----------------------------------------------------------------------------
(* A change elsewhere: what a node is given depends on nothing that does   *)
(* not apply to it.                                                        *)

\* What is edited applies only to the nodes that are deployed to, or it is a peer
\* that no resource refers to.
Covered(inv, new, id, nodes) ==
    /\ \A p \in Places(inv) : At(inv, p).id = id =>
          \/ ScopeNodes(At(inv, p)) \subseteq nodes
          \/ p[1] = "peer" /\ \A c \in Places(inv) : id \notin At(inv, c).refs
    /\ \A q \in Places(new) : At(new, q).id = id =>
          ScopeNodes(At(new, q)) \subseteq nodes \/ q[1] = "peer"

LEMMA ElsewhereSame ==
    ASSUME NEW inv, NEW new, NEW id, NEW nodes, NEW n, n \notin nodes,
           Sound(inv), Edited(inv, new, id), Covered(inv, new, id, nodes), Renders(inv, n)
    PROVE  Render(new, n) = Render(inv, n) /\ Renders(new, n)
<1>0. Sound(new)
  BY DEF Edited
<1>1. ASSUME NEW p \in Rendered(inv, n)
      PROVE  /\ p \in Places(inv) /\ At(inv, p).id # id
             /\ \E q \in Rendered(new, n) : At(new, q) = At(inv, p) /\ q[1] = p[1]
  <2>1. p \in Places(inv) /\ p[1] # "peer" /\ At(inv, p).enabled /\ AppliesTo(At(inv, p), n)
    BY DEF Rendered
  <2>2. At(inv, p).id # id
    BY <2>1 DEF Covered, AppliesTo
  <2>3. PICK q \in Places(new) : At(new, q) = At(inv, p)
    BY <2>1, <2>2 DEF Edited
  <2>4. q[1] = p[1]
    BY <1>0, <2>1, <2>3, AtFacts
  <2>. QED
    BY <2>1, <2>2, <2>3, <2>4 DEF Rendered
<1>2. ASSUME NEW q \in Rendered(new, n)
      PROVE  /\ q \in Places(new) /\ At(new, q).id # id
             /\ \E p \in Rendered(inv, n) : At(inv, p) = At(new, q) /\ q[1] = p[1]
  <2>1. q \in Places(new) /\ q[1] # "peer" /\ At(new, q).enabled /\ AppliesTo(At(new, q), n)
    BY DEF Rendered
  <2>2. At(new, q).id # id
    BY <2>1 DEF Covered, AppliesTo
  <2>3. PICK p \in Places(inv) : At(inv, p) = At(new, q)
    BY <2>1, <2>2 DEF Edited
  <2>4. q[1] = p[1]
    BY <1>0, <2>1, <2>3, AtFacts
  <2>. QED
    BY <2>1, <2>2, <2>3, <2>4 DEF Rendered
<1>3. \A p \in Rendered(inv, n) : id \notin At(inv, p).refs
  <2> SUFFICES ASSUME NEW p \in Rendered(inv, n), id \in At(inv, p).refs PROVE FALSE
    OBVIOUS
  <2>1. PICK s \in Holding(inv, id) : AppliesTo(At(inv, s), n)
    BY DEF Renders
  <2>2. s \in Places(inv) /\ At(inv, s).id = id
    BY DEF Holding
  <2>. QED
    BY <1>1, <2>1, <2>2 DEF Covered, AppliesTo
<1>4. ASSUME NEW p \in Rendered(inv, n)
      PROVE  Text(new, At(inv, p)) = Text(inv, At(inv, p))
  <2> DEFINE r == At(inv, p)
             Referred(i) == {[names |-> At(i, s).names, content |-> At(i, s).content] :
                                s \in {q \in Places(i) : At(i, q).id \in r.refs}}
  <2>0. \A ref \in r.refs : ref # id
    BY <1>3
  <2> HIDE DEF r
  <2>1. Referred(inv) \subseteq Referred(new)
    <3> SUFFICES ASSUME NEW s \in Places(inv), At(inv, s).id \in r.refs
                 PROVE  \E q \in Places(new) : At(new, q) = At(inv, s)
      OBVIOUS
    <3>. QED
      BY <2>0 DEF Edited
  <2>2. Referred(new) \subseteq Referred(inv)
    <3> SUFFICES ASSUME NEW s \in Places(new), At(new, s).id \in r.refs
                 PROVE  \E q \in Places(inv) : At(inv, q) = At(new, s)
      OBVIOUS
    <3>. QED
      BY <2>0 DEF Edited
  <2>3. Referred(new) = Referred(inv)
    BY <2>1, <2>2
  <2>4. Text(new, r) = Text(inv, r)
    BY <2>3 DEF Text
  <2>. QED
    BY <2>4 DEF r
<1> DEFINE After(i, p) == {At(i, q).id : q \in {s \in Rendered(i, n) : s[1] = p[1] /\ s[2] < p[2]}}
           Line(i, p) == [of |-> At(i, p).id, text |-> Text(i, At(i, p)), after |-> After(i, p)]
<1>5. ASSUME NEW p \in Rendered(inv, n), NEW q \in Rendered(new, n), At(new, q) = At(inv, p)
      PROVE  Line(new, q) = Line(inv, p)
  <2>1. q[1] = p[1]
    BY <1>0, <1>1, <1>2, <1>5, AtFacts
  <2>2. \A s \in Rendered(inv, n), t \in Rendered(new, n) : At(inv, s) = At(new, t) =>
           (Earlier(s, p) <=> Earlier(t, q))
    BY <1>1, <1>2, <1>5 DEF Edited
  <2>3. After(inv, p) \subseteq After(new, q)
    <3> SUFFICES ASSUME NEW s \in Rendered(inv, n), Earlier(s, p)
                 PROVE  \E t \in Rendered(new, n) : Earlier(t, q) /\ At(new, t).id = At(inv, s).id
      BY DEF Earlier
    <3>. QED
      BY <1>1, <2>2
  <2>4. After(new, q) \subseteq After(inv, p)
    <3> SUFFICES ASSUME NEW t \in Rendered(new, n), Earlier(t, q)
                 PROVE  \E s \in Rendered(inv, n) : Earlier(s, p) /\ At(inv, s).id = At(new, t).id
      BY DEF Earlier
    <3>. QED
      BY <1>2, <2>2
  <2>5. After(new, q) = After(inv, p)
    BY <2>3, <2>4
  <2> HIDE DEF After
  <2>. QED
    BY <1>4, <1>5, <2>5
<1>6. Render(new, n) = Render(inv, n)
  <2>1. /\ Render(inv, n) = {Line(inv, p) : p \in Rendered(inv, n)}
        /\ Render(new, n) = {Line(new, q) : q \in Rendered(new, n)}
    BY DEF Render
  <2> HIDE DEF Line
  <2>2. \A p \in Rendered(inv, n) : \E q \in Rendered(new, n) : Line(new, q) = Line(inv, p)
    BY <1>1, <1>5
  <2>3. \A q \in Rendered(new, n) : \E p \in Rendered(inv, n) : Line(new, q) = Line(inv, p)
    BY <1>2, <1>5
  <2>. QED
    BY <2>1, <2>2, <2>3
<1>7. Renders(new, n)
  <2> SUFFICES ASSUME NEW q \in Rendered(new, n), NEW ref \in At(new, q).refs
               PROVE  \E s \in Holding(new, ref) :
                         AppliesTo(At(new, s), n) /\ (s[1] # "peer" => At(new, s).enabled)
    BY DEF Renders
  <2>1. PICK p \in Rendered(inv, n) : At(inv, p) = At(new, q)
    BY <1>2
  <2>2. PICK s \in Holding(inv, ref) :
            AppliesTo(At(inv, s), n) /\ (s[1] # "peer" => At(inv, s).enabled)
    BY <2>1 DEF Renders
  <2>3. s \in Places(inv) /\ At(inv, s).id = ref /\ ref # id
    BY <1>3, <2>1 DEF Holding
  <2>4. PICK t \in Places(new) : At(new, t) = At(inv, s)
    BY <2>3 DEF Edited
  <2>5. t[1] = s[1]
    BY <1>0, <2>3, <2>4, AtFacts
  <2>. QED
    BY <2>2, <2>3, <2>4, <2>5 DEF Holding
<1>. QED
  BY <1>6, <1>7

-----------------------------------------------------------------------------
(* What the requests do to an inventory.                                   *)

Providing == {"define", "rpki", "function"}

\* A symbol that is given up is not one that another resource mentions.
Spared(inv, new, id) ==
    \A p \in Places(inv) : At(inv, p).id = id => \A x \in Provides(inv, p) :
        \/ \E q \in Places(new) : At(new, q).id = id /\ x \in At(new, q).names
        \/ ~ReferencesSymbol(inv, x, id, At(inv, p))

Edit(inv, new, nodes) ==
    \/ new = inv
    \/ \E id : Edited(inv, new, id) /\ Covered(inv, new, id, nodes) /\ Spared(inv, new, id)

LEMMA AddEdit ==
    ASSUME NEW inv, Sound(inv), NEW r \in Fit, ~Has(inv, r.id), NEW nodes,
           ScopeNodes(r) \subseteq nodes \/ KindOf[r.id] = "peer"
    PROVE  Edit(inv, Add(inv, r), nodes)
<1> DEFINE new == Add(inv, r)
<1>1. Edited(inv, new, r.id) /\ Holds(new, r)
  BY AddEdits
<1> HIDE DEF new
<1>2. \A p \in Places(inv) : At(inv, p).id # r.id
  BY DEF Has, Holding
<1>3. \A q \in Places(new) : At(new, q).id = r.id => At(new, q) = r /\ q[1] = KindOf[r.id]
  BY <1>1, AtFacts DEF Holds, Edited
<1>4. Covered(inv, new, r.id, nodes)
  BY <1>2, <1>3 DEF Covered
<1>5. Spared(inv, new, r.id)
  BY <1>2 DEF Spared
<1>. QED
  BY <1>1, <1>4, <1>5 DEF Edit, new

LEMMA ReplaceEdit ==
    ASSUME NEW inv, Sound(inv), NEW r \in Fit, Has(inv, r.id), NEW nodes,
           ScopeNodes(r) \subseteq nodes, ScopeNodes(Get(inv, r.id)) \subseteq nodes,
           KindOf[r.id] \in Providing =>
              \A x \in Get(inv, r.id).names \ r.names :
                 ~ReferencesSymbol(inv, x, r.id, Get(inv, r.id))
    PROVE  Edit(inv, Replace(inv, r), nodes)
<1> DEFINE new == Replace(inv, r)
<1>1. Edited(inv, new, r.id) /\ Holds(new, r)
  BY ReplaceEdits
<1> HIDE DEF new
<1>2. \A p \in Places(inv) : At(inv, p).id = r.id => At(inv, p) = Get(inv, r.id) /\ p[1] = KindOf[r.id]
  BY OnePlace, AtFacts
<1>3. \A q \in Places(new) : At(new, q).id = r.id => At(new, q) = r
  BY <1>1 DEF Holds
<1>4. Covered(inv, new, r.id, nodes)
  BY <1>2, <1>3 DEF Covered
<1>5. PICK q \in Places(new) : At(new, q) = r
  BY <1>1 DEF Holds
<1>6. Spared(inv, new, r.id)
  <2> SUFFICES ASSUME NEW p \in Places(inv), At(inv, p).id = r.id, NEW x \in Provides(inv, p)
               PROVE  \/ x \in r.names
                      \/ ~ReferencesSymbol(inv, x, r.id, At(inv, p))
    BY <1>5 DEF Spared
  <2>1. At(inv, p) = Get(inv, r.id) /\ p[1] = KindOf[r.id]
    BY <1>2
  <2>2. p[1] \in Providing /\ x \in At(inv, p).names
    BY DEF Provides, Providing
  <2>. QED
    BY <2>1, <2>2
<1>. QED
  BY <1>1, <1>4, <1>6 DEF Edit, new

LEMMA WithoutEdit ==
    ASSUME NEW inv, Sound(inv), NEW id, Has(inv, id), NEW nodes,
           \/ ScopeNodes(Get(inv, id)) \subseteq nodes
           \/ KindOf[id] = "peer" /\ \A c \in Places(inv) : id \notin At(inv, c).refs,
           KindOf[id] \in Providing =>
              \A x \in Get(inv, id).names : ~ReferencesSymbol(inv, x, id, Get(inv, id))
    PROVE  Edit(inv, Without(inv, id), nodes)
<1> DEFINE new == Without(inv, id)
<1>0. id \in Id
  BY HeldPlace
<1>1. Edited(inv, new, id) /\ ~Has(new, id)
  BY <1>0, WithoutEdits
<1> HIDE DEF new
<1>2. \A p \in Places(inv) : At(inv, p).id = id => At(inv, p) = Get(inv, id) /\ p[1] = KindOf[id]
  BY OnePlace, AtFacts
<1>3. \A q \in Places(new) : At(new, q).id # id
  BY <1>1 DEF Has, Holding
<1>4. Covered(inv, new, id, nodes)
  BY <1>2, <1>3 DEF Covered
<1>5. Spared(inv, new, id)
  <2> SUFFICES ASSUME NEW p \in Places(inv), At(inv, p).id = id, NEW x \in Provides(inv, p)
               PROVE  ~ReferencesSymbol(inv, x, id, At(inv, p))
    BY DEF Spared
  <2>1. p[1] \in Providing /\ x \in At(inv, p).names
    BY DEF Provides, Providing
  <2>. QED
    BY <1>2, <2>1
<1>. QED
  BY <1>1, <1>4, <1>5 DEF Edit, new

\* A protocol that is saved anew goes to the end of its list.
LEMMA SaveEdit ==
    ASSUME NEW inv, Sound(inv), NEW r \in Fit, KindOf[r.id] \notin Providing, NEW nodes,
           ScopeNodes(r) \subseteq nodes,
           Has(inv, r.id) => ScopeNodes(Get(inv, r.id)) \subseteq nodes
    PROVE  Edit(inv, Add(Without(inv, r.id), r), nodes)
<1> DEFINE less == Without(inv, r.id)
           new == Add(less, r)
<1>0. r.id \in Id
  BY DEF Fit, Resource
<1>1. Edited(inv, less, r.id) /\ ~Has(less, r.id)
  BY <1>0, WithoutEdits
<1> HIDE DEF less
<1>2. Edited(less, new, r.id) /\ Holds(new, r)
  BY <1>1, AddEdits DEF Edited
<1> HIDE DEF new
<1>3. Edited(inv, new, r.id)
  BY <1>1, <1>2, EditedTwice
<1>4. \A p \in Places(inv) : At(inv, p).id = r.id =>
         Has(inv, r.id) /\ At(inv, p) = Get(inv, r.id) /\ p[1] = KindOf[r.id]
  <2>1. \A p \in Places(inv) : At(inv, p).id = r.id => Has(inv, r.id)
    BY DEF Has, Holding
  <2>. QED
    BY <2>1, OnePlace, AtFacts
<1>5. Covered(inv, new, r.id, nodes)
  BY <1>2, <1>4 DEF Covered, Holds
<1>6. Spared(inv, new, r.id)
  BY <1>4 DEF Spared, Provides, Providing
<1>. QED
  BY <1>3, <1>5, <1>6 DEF Edit, new, less

LEMMA SwapEdit ==
    ASSUME NEW inv, Sound(inv), NEW k \in Lists, NEW nodes,
           NEW i \in DOMAIN inv[k], NEW j \in DOMAIN inv[k] \cap {i - 1, i + 1},
           ScopeNodes(inv[k][i]) \subseteq nodes
    PROVE  Edit(inv, Swap(inv, k, i, j), nodes)
<1> DEFINE new == Swap(inv, k, i, j)
           r == inv[k][i]
<1>1. Edited(inv, new, r.id) /\ Holds(new, r)
  BY SwapEdits
<1>2. <<k, i>> \in Places(inv) /\ At(inv, <<k, i>>) = r
  BY PlaceFacts
<1> HIDE DEF new, r
<1>3. \A p \in Places(inv) : At(inv, p).id = r.id => At(inv, p) = r
  BY <1>2 DEF Sound
<1>4. Covered(inv, new, r.id, nodes)
  BY <1>1, <1>3 DEF Covered, Holds, r
<1>5. Spared(inv, new, r.id)
  BY <1>1, <1>3 DEF Spared, Holds, Provides
<1>. QED
  BY <1>1, <1>4, <1>5 DEF Edit, new

LEMMA DraftFacts ==
    ASSUME NEW id \in Id, NEW r \in Draft(id)
    PROVE  r \in Fit /\ r.id = id
<1> DEFINE k == KindOf[id]
<1>1. k \in Kind
  BY ListFacts
<1>2. Refers(k) \subseteq SUBSET Id
  <2>1. \A kinds : OfKind(kinds) \subseteq Id
    BY DEF OfKind
  <2>2. \A S : AtMostOne(S) \subseteq SUBSET S
    BY DEF AtMostOne
  <2>3. \A kinds : AtMostOne(OfKind(kinds)) \subseteq SUBSET Id
    BY <2>1, <2>2
  <2> HIDE DEF k
  <2>4. CASE k \in {"kernel", "pipe", "static", "ospf", "ibgp"}
    BY <2>3, <2>4 DEF Refers
  <2>5. CASE k = "source"
    BY <2>1, <2>5 DEF Refers
  <2>6. CASE k = "session"
    <3>1. Refers(k) = {{p} \cup s : p \in OfKind({"peer"}), s \in AtMostOne(OfKind(Policies))}
      BY <2>6 DEF Refers
    <3>. QED
      BY <2>1, <2>3, <3>1
  <2>7. CASE k \notin {"kernel", "pipe", "static", "ospf", "ibgp", "source", "session"}
    BY <2>7 DEF Refers
  <2>. QED
    BY <2>4, <2>5, <2>6, <2>7
<1>3. r.id = id /\ r.refs \in Refers(k) /\ r.enabled \in BOOLEAN
  BY DEF Draft
<1>4. r.scope \in {None} \cup Alone
  BY DEF Draft
<1>5. Alone \subseteq (SUBSET Node) \ {{}}
  BY DEF Alone
<1>6. r.uses \in IF k \in Sourced THEN AtMostOne(Name) ELSE {{}}
  BY DEF Draft, Sourced
<1>7. r.names \in SUBSET Name
  BY DEF Draft
<1>8. r.content \in Content \cup {None}
  BY DEF Draft
<1>9. r = [id |-> r.id, names |-> r.names, scope |-> r.scope, enabled |-> r.enabled,
           uses |-> r.uses, refs |-> r.refs, content |-> r.content]
  BY DEF Draft
<1>10. r.uses \in SUBSET Name /\ (k \notin Sourced => r.uses = {})
  BY <1>6 DEF AtMostOne
<1> HIDE DEF k
<1>11. r.refs \in SUBSET Id /\ r.scope \in Scope
  BY <1>2, <1>3, <1>4, <1>5 DEF Scope
<1>12. r \in Resource
  BY <1>3, <1>7, <1>8, <1>9, <1>10, <1>11 DEF Resource
<1>13. \A ref \in r.refs : k \in Protocols /\ KindOf[ref] \in Policies \cup {"peer"}
  <2>1. \A kinds : \A ref \in OfKind(kinds) : KindOf[ref] \in kinds
    BY DEF OfKind
  <2>2. \A kinds : \A S \in AtMostOne(OfKind(kinds)) : \A ref \in S : KindOf[ref] \in kinds
    BY <2>1 DEF AtMostOne
  <2>3. CASE k \in {"kernel", "pipe", "static", "ospf", "ibgp"}
    <3>1. Refers(k) = AtMostOne(OfKind({"function", "filter"})) \/ Refers(k) = AtMostOne(OfKind(Policies))
      BY <2>3 DEF Refers
    <3>2. \A ref \in r.refs : KindOf[ref] \in {"function", "filter"} \/ KindOf[ref] \in Policies
      BY <1>3, <2>2, <3>1
    <3>. QED
      BY <2>3, <3>2 DEF Protocols, Policies
  <2>4. CASE k = "source"
    <3>1. Refers(k) = {{id2} : id2 \in OfKind({"define"})}
      BY <2>4 DEF Refers
    <3>2. \A ref \in r.refs : KindOf[ref] \in {"define"}
      BY <1>3, <2>1, <3>1
    <3>. QED
      BY <2>4, <3>2 DEF Protocols, Policies
  <2>5. CASE k = "session"
    <3>1. Refers(k) = {{p} \cup s : p \in OfKind({"peer"}), s \in AtMostOne(OfKind(Policies))}
      BY <2>5 DEF Refers
    <3>2. \A ref \in r.refs : KindOf[ref] \in {"peer"} \/ KindOf[ref] \in Policies
      BY <1>3, <2>1, <2>2, <3>1
    <3>. QED
      BY <2>5, <3>2 DEF Protocols, Policies
  <2>6. CASE k \notin {"kernel", "pipe", "static", "ospf", "ibgp", "source", "session"}
    BY <1>3, <2>6 DEF Refers
  <2>. QED
    BY <2>3, <2>4, <2>5, <2>6
<1>. QED
  BY <1>3, <1>10, <1>12, <1>13 DEF Fit, k

-----------------------------------------------------------------------------
(* The inductive invariant.                                                *)

ConfInv ==
    /\ Sound(inventory)
    /\ Valid(inventory)
    /\ \A n \in Node : Renders(inventory, n)
    /\ stale = {}

ResolvingInv == resolving \in [id : Id, scope : Scope, enabled : BOOLEAN] \cup {None}

\* Mentioned nowhere: nowhere but in the provider itself, and not in its scope.
LEMMA NowhereMentioned ==
    ASSUME NEW inv, Sound(inv), NEW x, NEW id, NEW r, ~ReferencesSymbol(inv, x, None, None)
    PROVE  ~ReferencesSymbol(inv, x, id, r)
<1>1. \A p \in Places(inv) : At(inv, p).id # None
  BY AtFacts, NoneAssumption
<1>. QED
  BY <1>1 DEF ReferencesSymbol

Changes == \E new, nodes : Edit(inventory, new, nodes) /\ Deploy(new, nodes)

LEMMA GetFacts ==
    ASSUME NEW inv, Sound(inv), NEW id, Has(inv, id)
    PROVE  Get(inv, id) \in Fit /\ Get(inv, id) \in Resource /\ Get(inv, id).id = id /\ id \in Id
<1>1. PICK p \in Places(inv) : At(inv, p).id = id /\ Get(inv, id) = At(inv, p)
  BY HeldPlace
<1>. QED
  BY <1>1, AtFacts

\* Creations add a resource and deploy to its nodes; peers go nowhere yet.
LEMMA CreationsEdit ==
    ASSUME Sound(inventory), NEW r \in Fit,
           \/ CreatePolicy(r) \/ CreateRpki(r) \/ CreatePipe(r) \/ CreateStatic(r)
           \/ CreateSourcePolicy(r) \/ CreatePeer(r)
           \/ ~Has(inventory, r.id) /\ (SaveOspf(r) \/ ApplySession(r))
    PROVE  Changes /\ UNCHANGED resolving
<1>1. /\ ~Has(inventory, r.id)
      /\ \/ Deploy(Add(inventory, r), ScopeNodes(r))
         \/ Deploy(Add(inventory, r), {}) /\ KindOf[r.id] = "peer"
      /\ UNCHANGED resolving
  BY DEF CreatePolicy, CreateRpki, CreatePipe, CreateStatic, CreateSourcePolicy, CreatePeer,
         SaveOspf, ApplySession
<1>2. Edit(inventory, Add(inventory, r), ScopeNodes(r))
  BY <1>1, AddEdit
<1>3. KindOf[r.id] = "peer" => Edit(inventory, Add(inventory, r), {})
  BY <1>1, AddEdit
<1>. QED
  BY <1>1, <1>2, <1>3 DEF Changes

\* Updates replace a resource and deploy to the nodes it had and to those it gets.
LEMMA UpdatesEdit ==
    ASSUME Sound(inventory), NEW r \in Fit,
           \/ UpdatePolicy(r) \/ UpdateRpki(r) \/ UpdatePipe(r) \/ UpdateStatic(r)
           \/ UpdateSourcePolicy(r) \/ UpdatePeer(r)
           \/ Has(inventory, r.id) /\ (SaveOspf(r) \/ ApplySession(r))
    PROVE  Changes /\ UNCHANGED resolving
<1> DEFINE previous == Get(inventory, r.id)
           new == Replace(inventory, r)
           Safe == KindOf[r.id] \in Providing =>
                      \A x \in previous.names \ r.names : ~ReferencesSymbol(inventory, x, r.id, previous)
<1>1. \E nodes : /\ Has(inventory, r.id)
                 /\ ScopeNodes(r) \subseteq nodes /\ ScopeNodes(previous) \subseteq nodes
                 /\ Safe /\ Deploy(new, nodes) /\ UNCHANGED resolving
  <2> DEFINE nodes == ChangeNodes(previous, r)
  <2>0. /\ ScopeNodes(r) \subseteq nodes /\ ScopeNodes(previous) \subseteq nodes
        /\ r.scope = previous.scope => ScopeNodes(previous) = ScopeNodes(r)
    BY DEF ChangeNodes, ScopeNodes
  <2>1. CASE UpdatePolicy(r)
    <3>1. Has(inventory, r.id) /\ Safe /\ Deploy(new, nodes) /\ UNCHANGED resolving
      BY <2>1 DEF UpdatePolicy
    <3>. QED
      BY <2>0, <3>1
  <2>2. CASE UpdateRpki(r)
    <3>1. /\ Has(inventory, r.id) /\ Deploy(new, nodes) /\ UNCHANGED resolving
          /\ \A x \in previous.names \ r.names : ~ReferencesSymbol(inventory, x, None, None)
      BY <2>2 DEF UpdateRpki
    <3>2. Safe
      BY <3>1, NowhereMentioned
    <3>. QED
      BY <2>0, <3>1, <3>2
  <2>3. CASE UpdatePipe(r) \/ UpdateSourcePolicy(r)
    <3>1. Has(inventory, r.id) /\ Safe /\ Deploy(new, nodes) /\ UNCHANGED resolving
      BY <2>3 DEF UpdatePipe, UpdateSourcePolicy, Providing
    <3>. QED
      BY <2>0, <3>1
  <2>4. CASE Has(inventory, r.id) /\ SaveOspf(r)
    <3>1. Has(inventory, r.id) /\ Safe /\ Deploy(new, nodes) /\ UNCHANGED resolving
      BY <2>4 DEF SaveOspf, Providing
    <3>. QED
      BY <2>0, <3>1
  <2>5. CASE UpdateStatic(r) \/ UpdatePeer(r) \/ (Has(inventory, r.id) /\ ApplySession(r))
    <3>1. /\ Has(inventory, r.id) /\ Safe /\ Deploy(new, ScopeNodes(r)) /\ UNCHANGED resolving
          /\ r.scope = previous.scope
      BY <2>5 DEF UpdateStatic, UpdatePeer, ApplySession, Providing
    <3>. QED
      BY <2>0, <3>1
  <2>. QED
    BY <2>1, <2>2, <2>3, <2>4, <2>5
<1>2. PICK nodes : /\ Has(inventory, r.id)
                   /\ ScopeNodes(r) \subseteq nodes /\ ScopeNodes(previous) \subseteq nodes
                   /\ Safe /\ Deploy(new, nodes) /\ UNCHANGED resolving
  BY <1>1
<1>3. Edit(inventory, new, nodes)
  BY <1>2, ReplaceEdit
<1>. QED
  BY <1>2, <1>3 DEF Changes

\* Protocols that are saved anew, deletions and moves.
LEMMA SavesEdit ==
    ASSUME Sound(inventory), NEW r \in Fit, SaveSystem(r) \/ SaveIbgp(r)
    PROVE  Changes /\ UNCHANGED resolving
<1> DEFINE previous == IF Has(inventory, r.id) THEN Get(inventory, r.id) ELSE r
           nodes == ChangeNodes(previous, r)
           new == Add(Without(inventory, r.id), r)
<1>1. Deploy(new, nodes) /\ UNCHANGED resolving /\ KindOf[r.id] \notin Providing
  BY DEF SaveSystem, SaveIbgp, Providing
<1>2. /\ ScopeNodes(r) \subseteq nodes
      /\ Has(inventory, r.id) => ScopeNodes(Get(inventory, r.id)) \subseteq nodes
  BY DEF ChangeNodes
<1> HIDE DEF nodes
<1>3. Edit(inventory, new, nodes)
  BY <1>1, <1>2, SaveEdit
<1>. QED
  BY <1>1, <1>3 DEF Changes

LEMMA DeletionsEdit ==
    ASSUME Sound(inventory), NEW id \in Id,
           DeletePolicy(id) \/ DeleteRpki(id) \/ DeleteProtocol(id) \/ DeletePeer(id)
    PROVE  Changes /\ UNCHANGED resolving
<1> DEFINE target == Get(inventory, id)
           new == Without(inventory, id)
           Safe == KindOf[id] \in Providing =>
                      \A x \in target.names : ~ReferencesSymbol(inventory, x, id, target)
           Near(nodes) == \/ ScopeNodes(target) \subseteq nodes
                          \/ KindOf[id] = "peer" /\ \A c \in Places(inventory) : id \notin At(inventory, c).refs
<1>1. \E nodes : Has(inventory, id) /\ Near(nodes) /\ Safe /\ Deploy(new, nodes) /\ UNCHANGED resolving
  <2>1. CASE DeletePolicy(id)
    BY <2>1 DEF DeletePolicy, Providing
  <2>2. CASE DeleteRpki(id)
    <3>1. /\ Has(inventory, id) /\ Deploy(new, ScopeNodes(target)) /\ UNCHANGED resolving
          /\ \A x \in target.names : ~ReferencesSymbol(inventory, x, None, None)
      BY <2>2 DEF DeleteRpki
    <3>2. Safe
      BY <3>1, NowhereMentioned
    <3>. QED
      BY <3>1, <3>2
  <2>3. CASE DeleteProtocol(id)
    BY <2>3 DEF DeleteProtocol, Providing, Protocols
  <2>4. CASE DeletePeer(id)
    BY <2>4 DEF DeletePeer, Providing
  <2>. QED
    BY <2>1, <2>2, <2>3, <2>4
<1>2. PICK nodes : Has(inventory, id) /\ Near(nodes) /\ Safe /\ Deploy(new, nodes) /\ UNCHANGED resolving
  BY <1>1
<1>3. Edit(inventory, new, nodes)
  BY <1>2, WithoutEdit
<1>. QED
  BY <1>2, <1>3 DEF Changes

LEMMA MovesEdit ==
    ASSUME Sound(inventory), NEW k \in Lists, NEW i \in DOMAIN inventory[k], NEW j \in DOMAIN inventory[k],
           MovePolicy(k, i, j)
    PROVE  Changes /\ UNCHANGED resolving
<1>1. /\ j \in DOMAIN inventory[k] \cap {i - 1, i + 1} /\ UNCHANGED resolving
      /\ Deploy(Swap(inventory, k, i, j), ScopeNodes(inventory[k][i]))
  BY DEF MovePolicy, Swap
<1>2. Edit(inventory, Swap(inventory, k, i, j), ScopeNodes(inventory[k][i]))
  BY <1>1, SwapEdit
<1>. QED
  BY <1>1, <1>2 DEF Changes

\* An answer is written only for the Define it was asked for, whose nodes are the
\* ones that were read then.
LEMMA AnswersEdit ==
    ASSUME Sound(inventory), ResolvingInv, NEW entries \in Content, FinishSync(entries)
    PROVE  Changes /\ resolving' = None
<1> DEFINE id == resolving.id
           current == Get(inventory, id)
           r == [current EXCEPT !.content = entries]
           new == Replace(inventory, r)
<1>1. /\ Has(inventory, id) /\ resolving' = None /\ resolving.scope = current.scope
      /\ Deploy(new, IF current.content # entries THEN ScopeNodes(resolving) ELSE {})
  BY DEF FinishSync, SameSource
<1>2. current \in Fit /\ current \in Resource /\ current.id = id
  BY <1>1, GetFacts
<1>3. r \in Fit /\ r.id = id /\ r.names = current.names /\ r.scope = current.scope
  <2> HIDE DEF current, id
  <2>. QED
    BY <1>2 DEF Fit, Resource
<1>4. ScopeNodes(r) = ScopeNodes(resolving) /\ ScopeNodes(current) = ScopeNodes(resolving)
  BY <1>1, <1>3 DEF ScopeNodes
<1>5. CASE current.content # entries
  <2>1. Has(inventory, r.id) /\ Get(inventory, r.id) = current /\ current.names \ r.names = {}
    BY <1>1, <1>3
  <2> HIDE DEF r, current, id
  <2>2. Edit(inventory, new, ScopeNodes(resolving))
    BY <1>3, <1>4, <2>1, ReplaceEdit
  <2>. QED
    BY <1>1, <1>5, <2>2 DEF Changes
<1>6. CASE current.content = entries
  <2>1. r = current
    <3> HIDE DEF current
    <3>. QED
      BY <1>2, <1>6 DEF Resource
  <2>2. PICK p \in Places(inventory) : At(inventory, p) = current /\ p[1] = KindOf[id]
    BY <1>1, HeldPlace
  <2>3. KindOf[id] \in Lists /\ id \in Id
    BY <1>1, HeldPlace, ListFacts
  <2> DEFINE k == KindOf[id]
             old == inventory[k]
  <2>4. Distinct(old, k) /\ DOMAIN old = 1 .. Len(old)
    BY <2>3, SoundList DEF Distinct
  <2>5. \A i \in DOMAIN old : old[i].id = id => old[i] = current
    <3>1. \A i \in DOMAIN old : <<k, i>> \in Places(inventory) /\ At(inventory, <<k, i>>) = old[i]
      BY <2>3, PlaceFacts
    <3>2. \A i \in DOMAIN old : Get(inventory, old[i].id) = old[i]
      <4> HIDE DEF old
      <4>. QED
        BY <3>1, OnePlace
    <3>. QED
      BY <3>2
  <2>6. [i \in DOMAIN old |-> IF old[i].id = r.id THEN r ELSE old[i]] = old
    <3>1. old = [i \in DOMAIN old |-> old[i]]
      BY <2>3 DEF Sound
    <3> HIDE DEF r, current, old
    <3>. QED
      BY <1>3, <2>1, <2>5, <3>1
  <2>7. inventory = [inventory EXCEPT ![k] = old]
    BY <2>3 DEF Sound
  <2>8. new = inventory
    BY <1>3, <2>6, <2>7 DEF Replace
  <2>. QED
    BY <1>1, <1>6, <2>8 DEF Changes, Edit
<1>. QED
  BY <1>5, <1>6

\* Each step leaves inventory and nodes alone, or is an edit that is deployed.
LEMMA StepsEdit ==
    ASSUME Sound(inventory), ResolvingInv, [Next]_vars
    PROVE  (Changes \/ UNCHANGED <<inventory, stale>>) /\ ResolvingInv'
<1>1. ASSUME NEW id \in Id, NEW r \in Draft(id),
             \/ CreatePolicy(r) \/ UpdatePolicy(r) \/ CreateRpki(r) \/ UpdateRpki(r)
             \/ SaveSystem(r) \/ CreatePipe(r) \/ UpdatePipe(r) \/ CreateStatic(r) \/ UpdateStatic(r)
             \/ CreateSourcePolicy(r) \/ UpdateSourcePolicy(r)
             \/ SaveOspf(r) \/ SaveIbgp(r) \/ ApplySession(r) \/ CreatePeer(r) \/ UpdatePeer(r)
      PROVE  Changes /\ UNCHANGED resolving
  <2>0. r \in Fit
    BY DraftFacts
  <2>1. CASE \/ CreatePolicy(r) \/ CreateRpki(r) \/ CreatePipe(r) \/ CreateStatic(r)
             \/ CreateSourcePolicy(r) \/ CreatePeer(r)
             \/ ~Has(inventory, r.id) /\ (SaveOspf(r) \/ ApplySession(r))
    BY <2>0, <2>1, CreationsEdit
  <2>2. CASE \/ UpdatePolicy(r) \/ UpdateRpki(r) \/ UpdatePipe(r) \/ UpdateStatic(r)
             \/ UpdateSourcePolicy(r) \/ UpdatePeer(r)
             \/ Has(inventory, r.id) /\ (SaveOspf(r) \/ ApplySession(r))
    BY <2>0, <2>2, UpdatesEdit
  <2>3. CASE SaveSystem(r) \/ SaveIbgp(r)
    BY <2>0, <2>3, SavesEdit
  <2>. QED
    BY <1>1, <2>1, <2>2, <2>3
<1>2. ASSUME NEW id \in Id, DeletePolicy(id) \/ DeleteRpki(id) \/ DeleteProtocol(id) \/ DeletePeer(id)
      PROVE  Changes /\ UNCHANGED resolving
  BY <1>2, DeletionsEdit
<1>3. ASSUME NEW id \in Id, StartSync(id)
      PROVE  UNCHANGED <<inventory, stale>> /\ ResolvingInv'
  <2>1. Has(inventory, id) /\ UNCHANGED <<inventory, stale>>
        /\ resolving' = [id |-> id, scope |-> Get(inventory, id).scope,
                         enabled |-> Get(inventory, id).enabled]
    BY <1>3 DEF StartSync
  <2>2. Get(inventory, id).scope \in Scope /\ Get(inventory, id).enabled \in BOOLEAN
    BY <2>1, GetFacts DEF Resource
  <2>. QED
    BY <2>1, <2>2 DEF ResolvingInv
<1>4. ASSUME NEW k \in Lists, NEW i \in DOMAIN inventory[k], NEW j \in DOMAIN inventory[k],
             MovePolicy(k, i, j)
      PROVE  Changes /\ UNCHANGED resolving
  BY <1>4, MovesEdit
<1>5. ASSUME NEW entries \in Content, FinishSync(entries)
      PROVE  Changes /\ ResolvingInv'
  BY <1>5, AnswersEdit DEF ResolvingInv
<1>6. CASE GiveUpSync
  BY <1>6 DEF GiveUpSync, ResolvingInv
<1>7. CASE UNCHANGED vars
  BY <1>7 DEF vars, ResolvingInv
<1>8. UNCHANGED resolving => ResolvingInv'
  BY DEF ResolvingInv
<1>. QED
  BY <1>1, <1>2, <1>3, <1>4, <1>5, <1>6, <1>7, <1>8 DEF Next

LEMMA InitConf == Init => ConfInv /\ ResolvingInv
<1> SUFFICES ASSUME Init PROVE ConfInv /\ ResolvingInv
  OBVIOUS
<1>1. inventory = [k \in Lists |-> << >>] /\ stale = {} /\ resolving = None
  BY DEF Init
<1>2. \A k \in Lists : inventory[k] = << >>
  BY <1>1
<1>3. \A k \in Lists : DOMAIN inventory[k] = {}
  BY <1>2
<1>4. Places(inventory) = {}
  BY <1>3, PlaceFacts
<1>5. Sound(inventory)
  <2>1. inventory \in [Lists -> Seq(Fit)]
    BY <1>1
  <2>. QED
    BY <1>3, <1>4, <2>1 DEF Sound
<1>6. Valid(inventory)
  BY <1>4 DEF Valid, ReferencesUsable, SymbolsUnique, DependenciesHold
<1>7. \A n \in Node : Renders(inventory, n)
  BY <1>4 DEF Renders, Rendered
<1>. QED
  BY <1>1, <1>5, <1>6, <1>7 DEF ConfInv, ResolvingInv

\* An edit that is deployed keeps every node in step with the inventory, and every
\* node's configuration one that can be rendered.
LEMMA ChangeKeeps ==
    ASSUME ConfInv, NEW new, NEW nodes, Edit(inventory, new, nodes), Deploy(new, nodes)
    PROVE  ConfInv'
<1>1. /\ Valid(new) /\ \A n \in nodes : Renders(new, n)
      /\ inventory' = new
      /\ stale' = (stale \cup {n \in Node : Render(new, n) # Render(inventory, n)}) \ nodes
  BY DEF Deploy, Passes
<1>2. Sound(new)
  BY DEF Edit, Edited, ConfInv
<1>3. ASSUME NEW n \in Node, n \notin nodes
      PROVE  Render(new, n) = Render(inventory, n) /\ Renders(new, n)
  <2>1. CASE new = inventory
    BY <2>1 DEF ConfInv
  <2>2. ASSUME NEW id, Edited(inventory, new, id), Covered(inventory, new, id, nodes)
        PROVE  Render(new, n) = Render(inventory, n) /\ Renders(new, n)
    BY <1>3, <2>2, ElsewhereSame DEF ConfInv
  <2>. QED
    BY <2>1, <2>2 DEF Edit
<1>4. stale' = {}
  BY <1>1, <1>3 DEF ConfInv
<1>5. \A n \in Node : Renders(new, n)
  BY <1>1, <1>3
<1>. QED
  BY <1>1, <1>2, <1>4, <1>5 DEF ConfInv

LEMMA StepConf == ConfInv /\ ResolvingInv /\ [Next]_vars => (ConfInv /\ ResolvingInv)'
<1> SUFFICES ASSUME ConfInv, ResolvingInv, [Next]_vars PROVE (ConfInv /\ ResolvingInv)'
  OBVIOUS
<1>1. (Changes \/ UNCHANGED <<inventory, stale>>) /\ ResolvingInv'
  BY StepsEdit DEF ConfInv
<1>2. CASE Changes
  BY <1>1, <1>2, ChangeKeeps DEF Changes
<1>3. CASE UNCHANGED <<inventory, stale>>
  BY <1>1, <1>3 DEF ConfInv
<1>. QED
  BY <1>1, <1>2, <1>3

LEMMA ConfHolds == Spec => [](ConfInv /\ ResolvingInv)
BY InitConf, StepConf, PTL DEF Spec

-----------------------------------------------------------------------------
(* The theorems.                                                           *)

\* Every resource is in the list of its kind, once, and has the type of its kind.
THEOREM TypeCorrect == Spec => []TypeOK
<1>1. ConfInv /\ ResolvingInv => TypeOK
  <2> SUFFICES ASSUME Sound(inventory), ResolvingInv PROVE TypeOK
    BY DEF ConfInv
  <2>1. inventory \in [Lists -> Seq(Resource)]
    <3>1. \A k \in Lists : inventory[k] \in Seq(Resource)
      <4> SUFFICES ASSUME NEW k \in Lists PROVE inventory[k] \in Seq(Resource)
        OBVIOUS
      <4>1. inventory[k] \in Seq(Fit)
        BY DEF Sound
      <4>2. \A r \in Fit : r \in Resource
        BY DEF Fit
      <4>. QED
        BY <4>1, <4>2
    <3>. QED
      BY <3>1 DEF Sound
  <2>. QED
    BY <2>1 DEF TypeOK, Sound, ResolvingInv
<1>. QED
  BY <1>1, ConfHolds, PTL

\* No node is left with text that a change has altered.
THEOREM NodesInSync == Spec => []InSync
<1>1. ConfInv => InSync
  BY DEF ConfInv, InSync
<1>. QED
  BY <1>1, ConfHolds, PTL

\* A valid inventory declares what each node's sources mention, before and once.
LEMMA ValidResolves ==
    ASSUME Sound(inventory), Valid(inventory)
    PROVE  NamesResolve
<1> SUFFICES ASSUME NEW n \in Node, NEW c \in Places(inventory),
                    At(inventory, c).enabled, AppliesTo(At(inventory, c), n),
                    NEW x \in At(inventory, c).uses, Candidates(inventory, x) # {}
             PROVE  \E p \in Places(inventory) :
                        /\ At(inventory, p).enabled /\ AppliesTo(At(inventory, p), n)
                        /\ DeclaredBefore(p, c)
                        /\ x \in At(inventory, p).names
                        /\ \A q \in Places(inventory) \ {p} :
                              At(inventory, q).enabled /\ AppliesTo(At(inventory, q), n) =>
                                  x \notin Symbols(inventory, q)
  BY DEF NamesResolve
<1> DEFINE p == Provider(inventory, c, x)
<1>1. p \in Candidates(inventory, x)
  BY ProviderFits
<1> HIDE DEF p
<1>2. p \in Places(inventory) /\ p[1] \in Providing /\ x \in At(inventory, p).names
  BY <1>1 DEF Candidates, Provides, Providing
<1>3. Satisfied(inventory, c, p)
  <2>1. x \in References(inventory, c)
    BY DEF References
  <2>. QED
    BY <2>1 DEF Valid, DependenciesHold, p
<1>4. At(inventory, p).enabled /\ DeclaredBefore(p, c)
  BY <1>3 DEF Satisfied
<1>5. AppliesTo(At(inventory, p), n)
  BY <1>2, <1>3, AtFacts, ScopeFacts DEF Satisfied, AppliesTo
<1>6. x \in Symbols(inventory, p)
  BY <1>2, <1>4 DEF Symbols, Declaring, Providing
<1>7. \A q \in Places(inventory) \ {p} : AppliesTo(At(inventory, q), n) => x \notin Symbols(inventory, q)
  BY <1>2, <1>5, <1>6 DEF Valid, SymbolsUnique
<1>. QED
  BY <1>2, <1>4, <1>5, <1>7

\* The check scope against scope is enough for each node alone.
THEOREM NamesAlwaysResolve == Spec => []NamesResolve
<1>1. ConfInv => NamesResolve
  BY ValidResolves DEF ConfInv
<1>. QED
  BY <1>1, ConfHolds, PTL

\* Rendering does not fail for a node where it did not fail before: what a resource
\* written there refers to is written there too, and before it.
THEOREM ReferencesAlwaysResolve == Spec => []ReferencesResolve
<1>1. ConfInv => ReferencesResolve
  <2> SUFFICES ASSUME ConfInv, NEW n \in Node, NEW c \in Places(inventory),
                      At(inventory, c).enabled, AppliesTo(At(inventory, c), n),
                      NEW id \in At(inventory, c).refs
               PROVE  \E p \in Holding(inventory, id) :
                          /\ AppliesTo(At(inventory, p), n)
                          /\ p[1] # "peer" => At(inventory, p).enabled /\ DeclaredBefore(p, c)
    BY DEF ReferencesResolve
  <2>0. Sound(inventory)
    BY DEF ConfInv
  <2>1. c[1] \in Protocols /\ KindOf[id] \in Policies \cup {"peer"}
    BY <2>0, AtFacts
  <2>2. c \in Rendered(inventory, n)
    BY <2>1 DEF Rendered, Protocols
  <2>3. PICK p \in Holding(inventory, id) :
            AppliesTo(At(inventory, p), n) /\ (p[1] # "peer" => At(inventory, p).enabled)
    BY <2>2 DEF ConfInv, Renders
  <2>4. p \in Places(inventory) /\ p[1] = KindOf[id]
    BY <2>0, AtFacts DEF Holding
  <2>5. p[1] \in Policies => DeclaredBefore(p, c)
    BY <2>1 DEF DeclaredBefore, Phase, Policies, Protocols
  <2>. QED
    BY <2>1, <2>3, <2>4, <2>5
<1>. QED
  BY <1>1, ConfHolds, PTL

\* What is provided to a resource is provided to it still if anything in the new
\* inventory provides it at all.
LEMMA KeptIfDeclared ==
    ASSUME NEW new, Sound(new), Valid(new), NEW c \in Places(new), NEW x \in At(new, c).uses,
           Candidates(new, x) # {}
    PROVE  ProvidedTo(new, At(new, c), x)
<1> DEFINE p == Provider(new, c, x)
<1>1. p \in Candidates(new, x)
  BY ProviderFits
<1>2. x \in References(new, c)
  BY DEF References
<1>3. Satisfied(new, c, p)
  BY <1>2 DEF Valid, DependenciesHold
<1> HIDE DEF p
<1>. QED
  BY <1>1, <1>3 DEF ProvidedTo, Satisfied

LEMMA EditKeeps ==
    ASSUME NEW inv, Sound(inv), Valid(inv), NEW new, Sound(new), Valid(new), NEW id,
           Edited(inv, new, id), Spared(inv, new, id),
           NEW c \in Places(inv), NEW x \in At(inv, c).uses, ProvidedTo(inv, At(inv, c), x)
    PROVE  Candidates(new, x) # {}
<1> DEFINE r == At(inv, c)
<1>1. PICK p \in Candidates(inv, x) : ScopeContains(At(inv, p), r)
  BY DEF ProvidedTo
<1>2. p \in Places(inv) /\ x \in Provides(inv, p) /\ p[1] \in Providing /\ x \in At(inv, p).names
  BY DEF Candidates, Provides, Providing
\* A provider that was not edited is there still.
<1>3. ASSUME NEW s \in Candidates(inv, x), At(inv, s).id # id
      PROVE  Candidates(new, x) # {}
  <2>1. s \in Places(inv) /\ s[1] \in Providing /\ x \in At(inv, s).names
    BY DEF Candidates, Provides, Providing
  <2>2. PICK q \in Places(new) : At(new, q) = At(inv, s)
    BY <1>3, <2>1 DEF Edited
  <2>3. q[1] = s[1]
    BY <2>1, <2>2, AtFacts
  <2>. QED
    BY <2>1, <2>2, <2>3 DEF Candidates, Provides, Providing
<1>4. CASE At(inv, p).id # id
  BY <1>3, <1>4
<1>5. ASSUME At(inv, p).id = id, NEW q \in Places(new), At(new, q).id = id, x \in At(new, q).names
      PROVE  Candidates(new, x) # {}
  <2>1. q[1] = p[1]
    BY <1>2, <1>5, AtFacts
  <2>. QED
    BY <1>2, <1>5, <2>1 DEF Candidates, Provides, Providing
<1>6. CASE At(inv, p).id = id /\ ~ReferencesSymbol(inv, x, id, At(inv, p))
  <2>1. c[1] \in Sourced
    BY AtFacts
  <2>2. At(inv, p) \in Resource /\ r \in Resource
    BY <1>2, AtFacts
  <2>3. Overlaps(At(inv, p), r)
    BY <1>1, <2>2, ScopeFacts
  <2>4. r.id = id
    BY <1>6, <2>1, <2>3 DEF ReferencesSymbol, Sourced
  <2>5. c = p
    BY <1>2, <1>6, <2>4 DEF Sound
  <2> DEFINE s == Provider(inv, c, x)
  <2>6. s \in Candidates(inv, x)
    BY ProviderFits
  <2>7. x \in References(inv, c)
    BY DEF References
  <2>8. DeclaredBefore(s, c)
    BY <2>6, <2>7 DEF Valid, DependenciesHold, Satisfied
  <2> HIDE DEF s
  <2>9. s \in Places(inv)
    BY <2>6 DEF Candidates
  <2>10. s # c
    <3>1. c[2] \in Nat /\ c[1] \in Kind
      BY AtFacts, PlaceFacts, ListFacts
    <3>2. Phase(c[1]) \in Nat
      BY DEF Phase
    <3>. QED
      BY <2>8, <3>1, <3>2 DEF DeclaredBefore
  <2>11. At(inv, s).id # id
    BY <2>4, <2>9, <2>10 DEF Sound
  <2>. QED
    BY <1>3, <2>6, <2>11
<1>. QED
  BY <1>2, <1>4, <1>5, <1>6 DEF Spared

\* No step takes from a resource a symbol its source mentions and had provided,
\* also where the resource is disabled and no node would notice.
THEOREM ReferencesKept == Spec => ReferencesAreKept
<1> DEFINE Kept(new) ==
        \A c \in Places(inventory) : \A x \in At(inventory, c).uses :
            LET r == At(inventory, c)
            IN  /\ ProvidedTo(inventory, r, x)
                /\ Has(new, r.id)
                /\ x \in Get(new, r.id).uses
                => ProvidedTo(new, Get(new, r.id), x)
<1>1. ASSUME Sound(inventory), Valid(inventory), NEW new, Sound(new), Valid(new),
             NEW nodes, Edit(inventory, new, nodes)
      PROVE  Kept(new)
  <2> SUFFICES ASSUME NEW c \in Places(inventory), NEW x \in At(inventory, c).uses,
                      ProvidedTo(inventory, At(inventory, c), x),
                      Has(new, At(inventory, c).id), x \in Get(new, At(inventory, c).id).uses
               PROVE  ProvidedTo(new, Get(new, At(inventory, c).id), x)
    OBVIOUS
  <2>1. PICK d \in Places(new) : Get(new, At(inventory, c).id) = At(new, d)
    BY <1>1, HeldPlace
  <2>2. Candidates(new, x) # {}
    <3>1. CASE new = inventory
      BY <3>1 DEF ProvidedTo
    <3>2. ASSUME NEW id, Edited(inventory, new, id), Spared(inventory, new, id)
          PROVE  Candidates(new, x) # {}
      BY <1>1, <3>2, EditKeeps
    <3>. QED
      BY <1>1, <3>1, <3>2 DEF Edit
  <2>. QED
    BY <1>1, <2>1, <2>2, KeptIfDeclared
<1>2. ConfInv /\ ResolvingInv /\ [Next]_vars => Kept(inventory') \/ UNCHANGED inventory
  <2> SUFFICES ASSUME ConfInv, ResolvingInv, [Next]_vars PROVE Kept(inventory') \/ UNCHANGED inventory
    OBVIOUS
  <2>1. Changes \/ UNCHANGED inventory
    BY StepsEdit DEF ConfInv
  <2>2. ASSUME NEW new, NEW nodes, Edit(inventory, new, nodes), Deploy(new, nodes)
        PROVE  Kept(inventory')
    <3>1. inventory' = new /\ Valid(new)
      BY <2>2 DEF Deploy, Passes
    <3>2. Sound(new)
      BY <2>2 DEF Edit, Edited, ConfInv
    <3>3. Kept(new)
      BY <1>1, <2>2, <3>1, <3>2 DEF ConfInv
    <3>. QED
      BY <3>1, <3>3
  <2>. QED
    BY <2>1, <2>2 DEF Changes
<1>3. ConfInv /\ UNCHANGED inventory => Kept(inventory')
  <2> SUFFICES ASSUME ConfInv, UNCHANGED inventory PROVE Kept(inventory')
    OBVIOUS
  <2>1. Kept(inventory)
    BY <1>1 DEF ConfInv, Edit
  <2>. QED
    BY <2>1
<1>4. ConfInv /\ ResolvingInv /\ [Next]_vars => Kept(inventory')
  BY <1>2, <1>3
<1>. QED
  BY <1>4, ConfHolds, PTL DEF Spec, ReferencesAreKept

=============================================================================
