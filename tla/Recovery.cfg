SPECIFICATION BoundarySpec
CONSTANTS
    p1 = p1
    p2 = p2
    s1 = s1
    a1 = a1
    a2 = a2
    a3 = a3
    b1 = b1
    r1 = r1
    d1 = d1
    c1 = c1
    l1 = l1
    l2 = l2
    Panes = {p1, p2}
    Ops = {r1, d1, c1, b1, l1}
    Old = {s1}
    KindOf <- KindByName
    PaneOf <- PaneByName
    MaxEntries = 2
    MaxRestarts = 1
    Polls = {c1}
CHECK_DEADLOCK FALSE
INVARIANTS
    RecoveryTypeOK
    Kept
    Acknowledged
    NoResurrection

PROPERTY
    ClearsOnlySaved
