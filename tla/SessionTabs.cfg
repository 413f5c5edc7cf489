SPECIFICATION Spec
CONSTANTS
    Tabs = {t1, t2}
    Ids = {i1, i2, i3, i4}
    Old = {i1}
    None = None
    OpensTwice = FALSE
    Closers = {k1}
    MaxTurns = 2
    MaxFaults = 1
    MaxPending = 2
    MaxCommands = 4
    RecentLimit = 1
SYMMETRY TabSymmetry
CHECK_DEADLOCK FALSE
INVARIANTS
    NoTurnStrays
    EveryTurnIsSaved
