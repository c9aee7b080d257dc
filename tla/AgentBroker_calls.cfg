SPECIFICATION Spec
CONSTANTS
    Task = {b1, c1, c2}
    Background = {b1}
    Poll = {p1, p2}
    None = None
    MaxTasks = 2
    MaxBackground = 1
    MaxTokens = 1
    CredentialOps = {}
    b1 = b1
    c1 = c1
    c2 = c2
    p1 = p1
    p2 = p2
SYMMETRY Symmetry
INVARIANTS NothingLost NoLateWork
PROPERTIES IsRemoteCall
