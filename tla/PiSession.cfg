SPECIFICATION SessionSpec
CONSTANTS
    p1 = p1
    p2 = p2
    c1 = c1
    c2 = c2
    c3 = c3
    k1 = k1
    k2 = k2
    NoConn = NoConn
    Panes = {p1, p2}
    Conns = {c1, c2}
    Calls = {k1, k2}
    HostOf <- WordToo
    Advertised <- NewAndUnknown
    PaneOf <- WordBetween
    OpOf <- WordAndRead
    Catalog <- AllCatalog
    V1Ops <- FirstOps
    OpHost <- HostOfOp
    Terminal = Terminal
    Nobody = Nobody
    MaxPrompts = 3
CHECK_DEADLOCK FALSE
INVARIANTS
    NoStaleTarget
    ShutdownSettles
