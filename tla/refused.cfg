SPECIFICATION Spec
CONSTANTS
    Sessions = {1, 2}
    Prompts = {1, 2}
    RowIds = {1, 2, 3}
    MaxWakes = 1
    Budgets <- Refused
CHECK_DEADLOCK FALSE
INVARIANTS
    NothingLost
