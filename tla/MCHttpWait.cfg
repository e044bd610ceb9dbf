SPECIFICATION Spec
CONSTANTS
    Conns = {c1, c2}
    Threads = {t1, t2}
    max_workers = 2
    max_connections = 2
    U32 = 4
    MaxAccepts = 3
    None = None
PROPERTY WorkerWaitEnds
CHECK_DEADLOCK FALSE
