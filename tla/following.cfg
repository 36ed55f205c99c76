SPECIFICATION FairEventsSpec
CONSTANTS
    Sessions = {"a", "b"}
    Project = "p"
    None = None
    Streams = {1, 2}
    Buffer = 3
    Allowances <- Each
CHECK_DEADLOCK FALSE
INVARIANTS
    StreamsLeaveNothing
PROPERTIES
    CatchesUp
