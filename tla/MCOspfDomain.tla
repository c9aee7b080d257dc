----------------------------- MODULE MCOspfDomain -----------------------------
(* A small instance of OspfDomain for TLC.  NBMA or PtMP neighbours on a     *)
(* shared interface, point-to-point links with and without a password; an   *)
(* area that two nodes summarise differently and the third is not in, and a *)
(* virtual link through it.                                                 *)
EXTENDS OspfDomain

AllVersions == {{"v2"}, {"v2", "v3"}}
Transit == CHOOSE a \in Area : a # Backbone

End(n, interface, type, families, secret) ==
    [node |-> n, interface |-> interface, type |-> type,
     neighbors |-> {[family |-> v, at |-> n] : v \in families}, secret |-> secret]

Shared(i, n, m, type, families) ==
    [id |-> i, area |-> Backbone, cost |-> 1, auth |-> "none",
     ends |-> <<End(n, "e0", type, families, NoSecret), End(m, "e0", type, families, NoSecret)>>]
Nbma(i, n, m, families) == Shared(i, n, m, "nbma", families)

Ptp(i, auth, secret) ==
    [id |-> i, area |-> Transit, cost |-> 1, auth |-> auth,
     ends |-> <<End(1, "e1", "ptp", {}, secret), End(2, "e1", "ptp", {}, secret)>>]

TypedLinks(i) ==
    {Nbma(i, 1, 2, {"v2"}), Nbma(i, 3, 2, {"v2", "v3"}), Shared(i, 3, 2, "ptmp", {"v2"}), Ptp(i, "none", NoSecret)}
    \cup {Ptp(i, a, s) : a \in {"simple", "md5"}, s \in Secret}

Stub(summary) == [area |-> Transit, type |-> "stub", summary |-> summary, nets |-> {}]
Domain(c, l) == [structured |-> FALSE, configs |-> c, links |-> l, members |-> {}, areas |-> {}]
Bare == {NewConfig(n, {"v2"}) : n \in Node}
Differing ==
    {[NewConfig(n, {"v2"}) EXCEPT !.options = IF n = 3 THEN {} ELSE {Stub(n = 1)}] : n \in Node}
Linked ==
    {[NewConfig(n, {"v2"}) EXCEPT !.options = IF n = 1 THEN {Plain(Transit)} ELSE {},
                                  !.virtual = IF n = 2 THEN Virtual \cap [peer : Peer, area : {Transit}, secret : Secret]
                                              ELSE {}] : n \in Node}

ExampleDomains ==
    {Domain({}, {}), Domain(Differing, {}), Domain(Bare, {Nbma(1, 1, 2, {"v2"})}),
     Domain(Bare, {Shared(1, 1, 2, "ptmp", {})}), Domain(Bare, {Ptp(1, "none", NoSecret)})}
    \cup {Domain(Linked, {Nbma(1, 1, 2, {"v2"}), Ptp(2, "md5", s)}) : s \in Secret}
=============================================================================
