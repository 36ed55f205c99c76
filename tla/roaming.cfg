SPECIFICATION FairSpec
CONSTANTS
    m1 = m1
    m2 = m2
    a1 = a1
    a2 = a2
    c1 = c1
    c2 = c2
    Machines = {m1, m2}
    Addresses = {a1, a2}
    Home <- TwoHomes
    Saved = {m1, m2}
    Calls = {c1, c2}
    MaxAddresses = 2
    Budgets <- Each
CHECK_DEADLOCK FALSE
INVARIANTS
    SessionIsTheirs
PROPERTIES
    RemovedStaysRemoved
    NoNeedlessSignIn
    DotIsRight
