SPECIFICATION Spec
CONSTANTS
    Threads = {t1, t2}
    Small = {small}
    Large = {large}
    Entries = 2
    PerPage = 2
    NPages = 5
    MaxObjects = 3
    Nil = Nil
INVARIANT NoOverlap
INVARIANT Accounting
INVARIANT FreeSucceeds
INVARIANT PagesAccounted
SYMMETRY Symmetry
CHECK_DEADLOCK FALSE
