SPECIFICATION ToolsSpec
CONSTANTS
    o1 = o1
    o2 = o2
    o3 = o3
    o4 = o4
    s1 = s1
    s2 = s2
    Ops = {o1, o2, o3, o4}
    Books = {b0, b1}
    None = None
    Sessions = {s1}
    SessionOf <- OneTab
    Kind <- EveryKind
    Unknown = b0
    MayRename = TRUE
    MaxToggles = 1
    MaxReplaced = 1
CHECK_DEADLOCK FALSE
INVARIANTS
    SerializedMutation
    ObserverHearsCommits
PROPERTIES
    AskedInConfirmMode
    UsesCoordinator
