SPECIFICATION Spec
CONSTANTS
    a1 = a1
    a2 = a2
    b1 = b1
    x1 = x1
    cA = cA
    cB = cB
    w1 = w1
    w2 = w2
    k1 = k1
    n1 = n1
    n2 = n2
    Payload = {a1, a2, b1, x1}
    Content = {cA, cB}
    ContentOf <- MCContentOf
    BadPayload = BadPayload
    NoPayload = NoPayload
    NoContent = NoContent
    MaxRaws = 2
    MaxCopies = 1
    Ingester = {w1}
    Sweeper = {k1}
    Analyst = {n1, n2}
    FaultBudget = 0
SYMMETRY Symmetry
PROPERTIES
    FlipMeansAnalyzed
