CONSTANTS
    c1 = c1
    c2 = c2
    drop = drop
    Callers = {c1, c2}
    DropCall = drop
    CPUs = 2
    MaxCount = 2
    MaxSpawns = 1
SPECIFICATION Spec
INVARIANTS
    TypeOK
PROPERTIES
    ShutdownTerminates
CHECK_DEADLOCK FALSE
