CONSTANTS
    t1 = t1
    t2 = t2
    t3 = t3
    p1 = p1
    p2 = p2
    w1 = w1
    w2 = w2
    Tasks = {t1, t2, t3}
    Pools = {p1, p2}
    Workers = {w1, w2}
    PoolOf <- TwoPoolsPoolOf
    TaskPool <- TwoPoolsTaskPool
    RepollLimit = 1
    NeedPreempt = {TRUE, FALSE}
    MaxPolls = 3
    NoPool = NoPool
    NoTask = NoTask
SPECIFICATION Spec
INVARIANTS
    TaskStaysInPool
PROPERTIES
    ImplementsTaskLifecycle
CHECK_DEADLOCK FALSE
