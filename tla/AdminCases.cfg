SPECIFICATION Spec
CONSTANTS
    t1 = t1
    t2 = t2
    s1 = s1
    s3 = s3
    c1 = c1
    c2 = c2
    c3 = c3
    n1 = n1
    n2 = n2
    n3 = n3
    Tab = {t1, t2}
    TabRole = {"hq", "pr"}
    Filtering = {t1}
    Fields = {"risk", "cat", "overdue"}
    MaxEdits = 4
    Account = {}
    BackendRole <- MCBackendRole
    Store = {s1}
    FirstStore = s1
    StoreBrand <- MCStoreBrand
    StoreRegion <- MCStoreRegion
    Case = {c1, c2}
    CaseStore <- MCCaseStore
    CaseRisk <- MCCaseRisk
    Seed <- MCSeed
    CaseSentiment <- MCSentiment
    CaseCats <- MCCats
    CaseWords <- MCWords
    Note = {n1, n2}
    NoteCase <- MCNoteCase
    NotSaved = NotSaved
    NoCase = NoCase
INVARIANTS
    TypeOK
    LastWriterIsSaved
    ReadWasInView
PROPERTIES
    FigureOpensItsCases
CHECK_DEADLOCK FALSE
