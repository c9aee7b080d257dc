\* Two domains, two contents, six steps of the user and of the faults.
SPECIFICATION Spec
CONSTANTS
    Domain = {a, b}
    Content = {Empty, changed}
    Empty = Empty
    Absent = Absent
    None = None
    Patience = 6
    MaxRevision = 3
    MaxRequests = 1
INVARIANTS
    PreviewIsCurrent
    ClosedOnlyWhileBusy
PROPERTIES
    NoBlindOverwrite
CHECK_DEADLOCK FALSE
