\* Two changes on three configurations, every fault; only the link of the main text
\* may be lost in a restore.
SPECIFICATION Spec
CONSTANTS
    r = r
    s = s
    t1 = t1
    t2 = t2
    t3 = t3
    Resource = {r, s}
    Text = {t1, t2, t3}
    None = None
    Bundle <- MCBundle
    Faults = {"file", "crash", "unstarted"}
    Losable = {"generated"}
    MaxChanges = 2
INVARIANTS
    NothingDangles
    SettledInSync
PROPERTIES
    CallsAreAtomic
CHECK_DEADLOCK FALSE
