SPECIFICATION Spec
CONSTANTS
    Others = {"net"}
    Configs <- MCConfigs
    Edited = {"net", "ht"}
    MaxCmds = 4
    MaxEdits = 2
    MaxTime = 2
INVARIANT UsesLive
PROPERTY StopEnds
PROPERTY UpdatesReach
CHECK_DEADLOCK FALSE
