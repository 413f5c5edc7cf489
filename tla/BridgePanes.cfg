SPECIFICATION FairSpec
CONSTANTS
    p1 = p1
    p2 = p2
    c1 = c1
    c2 = c2
    c3 = c3
    k1 = k1
    k2 = k2
    NoConn = NoConn
    Panes = {p1, p2}
    Conns = {c1, c2, c3}
    Calls = {k1}
    HostOf <- AllExcel
    Advertised <- FullAndLegacy
    PaneOf <- Reconnecting
    OpOf <- FormatAndRead
    Catalog <- AllCatalog
    V1Ops <- FirstOps
    OpHost <- HostOfOp
CHECK_DEADLOCK FALSE
INVARIANTS
    UnsettledIsPending
    ResolvedAsAnswered
    OnePanePerId
    NoDeadRecord
PROPERTIES
    StartsOnce
    CallSettles
