\* Three requests of every kind and a token map that keeps one token.
SPECIFICATION FairSpec
CONSTANTS
    Request = {r1, r2, r3}
    Previews = {r1, r2}
    Changes = {r1}
    Removals = {r2, r3}
    Syncs = {r3}
    Family = {"policy", "system", "session"}
    None = None
    MaxPreviews = 1
    MaxAttempts = 2
    MaxTokens = 2
    MaxRevision = 3
INVARIANTS
    ExitSparesActive
PROPERTIES
    AppliedAsPreviewed
    RemovalGetsLock
    ShutdownEnds
CHECK_DEADLOCK FALSE
