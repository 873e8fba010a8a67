CONSTANTS
    t1 = t1
    t2 = t2
    t3 = t3
    p1 = p1
    p2 = p2
    w1 = w1
    w2 = w2
    Tasks = {t1, t2}
    Pools = {p1}
    Workers = {w1}
    PoolOf <- OnePoolPoolOf
    TaskPool <- OnePoolTaskPool
    RepollLimit = 1
    NeedPreempt = {TRUE}
    MaxPolls = 3
    NoPool = NoPool
    NoTask = NoTask
SPECIFICATION Spec
INVARIANTS
    RepollBounded
CHECK_DEADLOCK FALSE
