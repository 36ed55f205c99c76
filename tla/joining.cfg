SPECIFICATION FairSpec
CONSTANTS
    Prompts = {1, 2, 3}
    MsgIds = {1, 2, 3, 4, 5, 6, 7, 8, 9}
    RowIds = {1, 2, 3, 4}
    MaxTurns = 2
    Budgets <- Each
CHECK_DEADLOCK FALSE
INVARIANTS
    RightPromptJoins
    OrderlyEndTakesAll
    StartedOnce
PROPERTIES
    KeepsPromise
    HeldEnds
