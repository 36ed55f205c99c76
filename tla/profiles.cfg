SPECIFICATION Spec
CONSTANTS
    Default = Default
    Nobody = Nobody
    r1 = r1
    r2 = r2
    work = work
    ordinary = ordinary
    orchestrator = orchestrator
    Orchestrator = orchestrator
    Added <- TheAdded
    Projects <- BothProjects
    Requests <- Two
    Budgets <- Each
CHECK_DEADLOCK FALSE
SYMMETRY Alike
INVARIANTS
    TurnHasItsProject
    NoOtherCircle
