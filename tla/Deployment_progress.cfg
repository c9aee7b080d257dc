SPECIFICATION FairSpec
CONSTANTS
    Node = {n1}
    Config = {c1, c2}
    Layout = {l1, l2}
    None = None
    MaxAttempts = 2
    MaxRevision = 3
    MaxRestarts = 2
    Faults = {"apply_refused", "commit_reply_lost", "confirm_missed", "layout_edit"}
INVARIANTS TypeOK
PROPERTIES ChangeEnds RecoveryCompletesOrRefuses FailedChangeStaysFailed
CHECK_DEADLOCK FALSE
