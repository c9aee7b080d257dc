\* Four calls, two passwords, two sessions at most, one restart.
SPECIFICATION Spec
CONSTANTS
    Call = {c1, c2, c3, c4}
    Password = {p, q}
    None = None
    File = File
    Kept = Kept
    MaxSessions = 2
    Limit = 2
    MaxRestarts = 1
SYMMETRY Symmetry
INVARIANTS
    SessionsOfPassword
PROPERTIES
    EndedStaysEnded
    ImportedOnce
    RightPasswordGetsIn
CHECK_DEADLOCK FALSE
