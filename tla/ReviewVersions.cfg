SPECIFICATION FairSpec
CONSTANTS
    a1 = a1
    a2 = a2
    b1 = b1
    x1 = x1
    cA = cA
    cB = cB
    w1 = w1
    w2 = w2
    k1 = k1
    n1 = n1
    n2 = n2
    Payload = {b1, x1}
    Content = {cA, cB}
    ContentOf <- MCContentOf
    BadPayload = BadPayload
    NoPayload = NoPayload
    NoContent = NoContent
    MaxRaws = 3
    MaxCopies = 1
    Ingester = {w1}
    Sweeper = {k1}
    Analyst = {}
    FaultBudget = 1
INVARIANTS
    TypeOK
PROPERTIES
    LatestIsReflected
