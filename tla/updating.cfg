SPECIFICATION FairUpdatesSpec
CONSTANTS
    Attempts = {1, 2}
    MaxVersion = 3
    Allowances <- Each
CHECK_DEADLOCK FALSE
INVARIANTS
    ACopySurvives
    FailedNeverInstalls
PROPERTIES
    NoGoingBack
    ReadyInstalls
