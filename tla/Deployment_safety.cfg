SPECIFICATION Spec
CONSTANTS
    Node = {n1, n2}
    Config = {c1, c2}
    Layout = {l1, l2}
    None = None
    MaxAttempts = 2
    MaxRevision = 3
    MaxRestarts = 2
    Faults = {"commit_reply_lost", "journal_write", "layout_edit"}
SYMMETRY Symmetry
INVARIANTS OwnJournal OwnCandidate WriteAhead CommittedIsNotRolledBack
PROPERTIES LayoutIsKept ChangesAreAtomic
CHECK_DEADLOCK FALSE
