SPECIFICATION Spec
CONSTANTS
    Objects = {o1}
    Procs = {p1}
    MaxRecords = 2
    None = None
INVARIANT OneThreadPerJob
INVARIANT StopIsForItsJob
PROPERTY StartedRuns
PROPERTY StopReturns
PROPERTY UninitEnds
CHECK_DEADLOCK FALSE
