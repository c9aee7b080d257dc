SPECIFICATION Spec
CONSTANTS
    n1 = n1
    n2 = n2
    x = x
    y = y
    c1 = c1
    c2 = c2
    d1 = d1
    d2 = d2
    r1 = r1
    f1 = f1
    l1 = l1
    t1 = t1
    k1 = k1
    g1 = g1
    p1 = p1
    o1 = o1
    s1 = s1
    e1 = e1
    i1 = i1
    None = None
    Node = {n1, n2}
    Name = {x, y}
    Id = {d1, d2, r1, f1, g1}
    KindOf <- PolicyKinds
    Content = {}
    MaxPolicies = 3
    MaxProtocols = 1
SYMMETRY DefineSymmetry
INVARIANTS NamesResolve ReferencesResolve
PROPERTIES ReferencesAreKept
CHECK_DEADLOCK FALSE
