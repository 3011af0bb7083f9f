SPECIFICATION Spec
CONSTANTS
    t1 = t1
    t2 = t2
    admin = admin
    tsannkuen = tsannkuen
    s1 = s1
    s2 = s2
    s3 = s3
    c1 = c1
    c2 = c2
    c3 = c3
    Tab = {t1, t2}
    Account = {admin, tsannkuen}
    BackendRole <- MCBackendRole
    Store = {s1, s3}
    FirstStore = s1
    StoreBrand <- MCStoreBrand
    StoreRegion <- MCStoreRegion
    Case = {c1, c3}
    CaseStore <- MCCaseStore
    CaseRisk <- MCCaseRisk
    Views = {"dashboard", "store", "reviews", "cases", "ai", "pipeline"}
    NoAccount = NoAccount
    NoDrawer = NoDrawer
SYMMETRY Symmetry
INVARIANTS
    TypeOK
    PagesStayInTenant
    PageFitsRole
    SavedRoleFitsLogin
