\* Four requests about one node, one restart.
SPECIFICATION Spec
CONSTANTS
    None = None
    Request = {r1, r2, r3, r4}
    Node = {n1}
    MaxRestarts = 1
SYMMETRY Symmetric
INVARIANTS
    RecoveryCanReach
    RemovedStaysOut
PROPERTIES
    ReinstallKeepsAgent
CHECK_DEADLOCK FALSE
