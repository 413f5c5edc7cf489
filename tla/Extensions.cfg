SPECIFICATION Spec
CONSTANTS
    e1 = e1
    e2 = e2
    t1 = t1
    boot = boot
    off = off
    on = on
    again = again
    permit = permit
    gone = gone
    gone2 = gone2
    install = install
    Exts = {e1, e2}
    Tools = {t1}
    ToolOf <- OneName
    Commanders = {e1}
    Stored <- OneStored
    OnAtStart = {e1}
    Calls = {boot, off, permit, gone, install}
    KindOf <- KindByName
    ExtOf <- ExtByName
    None = None
CHECK_DEADLOCK FALSE
INVARIANTS
    SettledAsListed
    AgentsRunCurrentTools
