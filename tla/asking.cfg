SPECIFICATION FairSpec
CONSTANTS
    Sessions = {"a"}
    Tools = {"Shell", "Question"}
    Prefixes = {"git", "ls"}
    Requests <- Asked
    Choices <- EachWay
    Budgets <- Each
CHECK_DEADLOCK FALSE
INVARIANTS
    AnnouncedExactlyOnce
    WaitingIsShown
    GrantStaysInTask
    NeverForTheUser
PROPERTIES
    CountdownEnds
    TurnsEnd
