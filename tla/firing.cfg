SPECIFICATION Spec
CONSTANTS
    Jobs = {1, 2}
    Tasks = {1, 2, 3}
    Granted <- Twice
    Amounts = {0, 3}
    Recurrences <- EveryHour
    MaxNow = 3
    Budgets <- Each
CHECK_DEADLOCK FALSE
INVARIANTS
    OneAutomaticRun
    CounterIsExact
    BusyHasCause
PROPERTIES
    OncePerSlot
