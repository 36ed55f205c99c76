SPECIFICATION FairSpec
CONSTANTS
    Pictures = {1, 2}
    Viewers = {1, 2}
    Window = 2
    Budgets <- Each
CHECK_DEADLOCK FALSE
INVARIANTS
    OffMeansOff
    NothingStaysPressed
PROPERTIES
    PictureReturns
