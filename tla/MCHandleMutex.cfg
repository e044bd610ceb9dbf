CONSTANTS
    t1 = t1
    t2 = t2
    t3 = t3
    None = None
    Threads <- MCThreads
    HCountMod = 4
    MaxDepth = 3
SPECIFICATION Spec
INVARIANT MutualExclusion
PROPERTY ImplementsReentrantLock
