SPECIFICATION Spec
SYMMETRY MCSymmetry
CONSTANTS
    c1 = c1
    c2 = c2
    RoleId = {"hq", "pr"}
    Case = {c1}
    CaseRisk <- MCCaseRisk
    NorthOne = {c1}
    Noticed = {c1}
    StartStatus <- MCStartStatus
    Mutation = {m1, m2}
    MaxActs = 2
    MaxFaults = 1
    None = None
INVARIANTS TypeOK CacheComesToServer
CHECK_DEADLOCK FALSE
