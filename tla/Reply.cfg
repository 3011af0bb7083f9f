SPECIFICATION FairSpec
CONSTANTS
    r1 = r1
    m1 = m1
    m2 = m2
    w1 = w1
    w2 = w2
    k1 = k1
    Reply = {r1}
    Msg = {m1, m2}
    ReplyOf <- TwoCopies
    Worker = {w1, w2}
    Reconciler = {k1}
    MaxDeliver = 2
    RetryCap = 2
    FaultBudget = 1
    SlowDispatch = FALSE
INVARIANTS
    TypeOK
    ExclusiveSender
    PostedIsAccountedFor
    UnapprovedStaysHome
PROPERTIES
    SettledIsFinal
    ReclaimOnlyTheDead
    ImplementsLifecycle
    ApprovedIsClaimed
    SendingEnds
