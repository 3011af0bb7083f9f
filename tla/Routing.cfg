SPECIFICATION FairSpec
CONSTANTS
    hq = hq
    legal = legal
    district = district
    store = store
    w1 = w1
    w2 = w2
    k1 = k1
    Role = {hq, legal, district, store}
    RolesOf <- MCRolesOf
    Router = {w1}
    Sweeper = {k1}
    Arising = {"low", "high"}
    MaxAnalyses = 2
    MaxCopies = 1
    FaultBudget = 1
INVARIANTS
    TypeOK
    CaseMeetsItsRisk
PROPERTIES
    ReplayNeverReopens
    CurrentIsRouted
    OverdueIsReminded
CHECK_DEADLOCK FALSE
