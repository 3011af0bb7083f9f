SPECIFICATION Spec
CONSTANTS
    j1 = j1
    j2 = j2
    w1 = w1
    w2 = w2
    s1 = s1
    s2 = s2
    r1 = r1
    r2 = r2
    r3 = r3
    Job = {j1, j2}
    Worker = {w1, w2}
    Scheduler = {s1}
    Review = {r1}
    MaxDeliver = 2
    MaxPages = 2
    MaxTime = 2
    FaultBudget = 0
    SlowCrawl = FALSE
SYMMETRY Symmetry
INVARIANTS
    LastRowIsNewest
