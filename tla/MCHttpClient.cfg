SPECIFICATION Spec
CONSTANTS
    c1 = c1
    c2 = c2
    Conns = {c1, c2}
    Scenes <- MCScenes
    BSize = 5
    MaxBufs = 4
    VarCells = 2
    Cap = 5
    Malformed = {"b"}
    KeepAlive = {"a", "p"}
    Answers <- MCAnswers
    Client = c1
    Sends <- MCSends
    BArray = 1
    MaxGot = 11
INVARIANT RequestIsReceived
INVARIANT BuffersOwned
INVARIANT ResponseFramed
INVARIANT AnswerMatches
PROPERTY PeerGoneCloses
CHECK_DEADLOCK FALSE
