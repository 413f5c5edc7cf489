SPECIFICATION Spec
CONSTANTS
    Books = {b0, b1}
    Unknown = b0
    None = None
    Sessions = {s1, s2}
    Writes = {w1, w2}
    MaxContexts = 2
    MaxSilent = 1
    MaxReplaced = 1
    MaxRenames = 1
SYMMETRY StructureSymmetry
CHECK_DEADLOCK FALSE
INVARIANT ContextSeesAnnounced
