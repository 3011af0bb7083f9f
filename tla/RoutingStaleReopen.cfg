SPECIFICATION Spec
CONSTANTS
    hq = hq
    legal = legal
    district = district
    store = store
    w1 = w1
    w2 = w2
    k1 = k1
    Role = {hq, legal, district, store}
    RolesOf <- MCRolesOf
    Router = {w1, w2}
    Sweeper = {k1}
    Arising = {"low", "medium", "high"}
    MaxAnalyses = 2
    MaxCopies = 2
    FaultBudget = 0
SYMMETRY Symmetry
PROPERTIES
    ReopenMeansNewer
CHECK_DEADLOCK FALSE
