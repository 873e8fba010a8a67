CONSTANTS
    w1 = w1
    w2 = w2
    c1 = c1
    c2 = c2
    c3 = c3
    Workers = {w1, w2}
    Cells = {c1, c2, c3}
    SpinLimit = 1
    NoCell = NoCell
SPECIFICATION Spec
INVARIANTS
    TypeOK
    NoLostWakeup
    HooksBracketSleep
PROPERTIES
    InjectedIsHandled
    ShutdownEndsWorkers
CHECK_DEADLOCK FALSE
