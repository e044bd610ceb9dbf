SPECIFICATION Spec
CONSTANTS
    Nil = Nil
    Order <- MCOrder
    Array <- MCArray
    Info <- MCInfo
    Links <- MCLinks
    Fallible = {"host", "get"}
    Asked = {"iMap", "iCmdHost", "cGet"}
    MaxApp = 1
    MaxRef = 2
INVARIANT LinksLive
INVARIANT RefsCover
INVARIANT PendingLoaded
CHECK_DEADLOCK FALSE
