----------------------------- MODULE MCInventory -----------------------------
(* Instances of Inventory: policies among themselves, and policies with    *)
(* every kind of protocol.                                                 *)
EXTENDS Inventory, TLC

CONSTANTS n1, n2, x, y, c1, c2, d1, d2, r1, f1, l1, t1, k1, g1, p1, o1, s1, e1, i1

PolicyKinds ==
    d1 :> "define" @@ d2 :> "define" @@ r1 :> "rpki" @@ f1 :> "function" @@ g1 :> "source"

ProtocolKinds ==
    d1 :> "define" @@ f1 :> "function" @@ l1 :> "filter" @@ k1 :> "kernel"
    @@ g1 :> "source" @@ p1 :> "pipe" @@ o1 :> "ospf" @@ s1 :> "session" @@ e1 :> "peer"
    @@ i1 :> "ibgp" @@ t1 :> "static"

Symmetry == Permutations(Node) \cup Permutations(Name) \cup Permutations(Content)
DefineSymmetry == Symmetry \cup Permutations({d1, d2})
==============================================================================
