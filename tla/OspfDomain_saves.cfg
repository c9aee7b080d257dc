\* Three nodes, two links, two saves.
SPECIFICATION DomainSpec
CONSTANTS
    Refused = Refused
    NoSecret = NoSecret
    Mask = Mask
    Node = {1, 2, 3}
    LinkId = {1, 2}
    Backbone = A0
    Area = {A0, A1}
    Net = {net}
    Peer = {p}
    Interface = {"e0", "e1"}
    Secret = {s1}
    NewLinks <- TypedLinks
    Versions <- AllVersions
    Starts <- ExampleDomains
    MaxSaves = 2
INVARIANTS
    ReadsAreStable
    LinksAsConfigured
PROPERTIES
    SettledAreasKept
CHECK_DEADLOCK FALSE
