SPECIFICATION FairSpec
CONSTANTS
    Sessions = {1, 2}
    Prompts = {1, 2}
    RowIds = {1, 2, 3}
    MaxWakes = 1
    Budgets <- Ends
CHECK_DEADLOCK FALSE
PROPERTIES
    QueueDrains
    CallsReturn
    ShutdownEnds
