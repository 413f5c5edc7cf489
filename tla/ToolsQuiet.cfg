SPECIFICATION ToolsFairSpec
CONSTANTS
    o1 = o1
    o2 = o2
    o3 = o3
    o4 = o4
    s1 = s1
    s2 = s2
    Ops = {o1, o2, o3}
    Books = {b0, b1}
    None = None
    Sessions = {s1, s2}
    SessionOf <- TwoTabs
    Kind <- WritesAndRestore
    Unknown = b0
    MayRename = FALSE
    MaxToggles = 0
    MaxReplaced = 0
CHECK_DEADLOCK FALSE
INVARIANTS
    OneWriteAtATime
    RevisionsIdentifyWrites
    LockNeverStuck
PROPERTIES
    ImplementsSerialWrites
    NoStartAfterAbort
    EveryCallReturns
