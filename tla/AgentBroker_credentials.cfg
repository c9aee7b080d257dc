SPECIFICATION FairSpec
CONSTANTS
    Task = {b1, c1}
    Background = {b1}
    Poll = {p1}
    None = None
    MaxTasks = 1
    MaxBackground = 1
    MaxTokens = 3
    CredentialOps = {"add", "reset", "revoke"}
    b1 = b1
    c1 = c1
    p1 = p1
INVARIANTS OldPollsGetNothing
PROPERTIES ControlHasPriority Answered
