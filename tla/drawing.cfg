SPECIFICATION FairSpec
CONSTANTS
    Ids = {1, 2}
    Projects = {"p"}
    ProjectOf <- OneProject
    Windows = {"w"}
    Streams = {1, 2}
    ReadChunk = 2
    Scrollback = 1
    StreamBuffer = 2
    MaxJoined = 2
    Budgets <- Each
CHECK_DEADLOCK FALSE
INVARIANTS
    ScreenIsTrue
    QueriesAnsweredOnce
PROPERTIES
    CatchesUp
