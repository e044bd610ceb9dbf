SPECIFICATION Spec
CONSTANTS
    Threads = {t1, t2}
    Small = {small}
    Large = {large}
    Entries = 2
    PerPage = 2
    NPages = 7
    MaxObjects = 3
    Nil = Nil
INVARIANT AssertHolds
CHECK_DEADLOCK FALSE
