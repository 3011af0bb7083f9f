SPECIFICATION FairSpec
CONSTANTS
    c1 = c1
    c2 = c2
    google = google
    web = web
    Case = {c1, c2}
    Source = {google, web}
    SourceOf <- MCSourceOf
    RatingOf <- MCRatingOf
    Google = google
    IsHigh <- MCIsHigh
    Reply = {r1}
    Token = {k1, k2}
    Slots = 2
    MaxActs = 3
    MaxEvents = 1
    None = None
INVARIANT TypeOK
PROPERTIES ListIsForFilters RefusedMeansStale PagesConverge ExpiredLeadsToLogin
CHECK_DEADLOCK FALSE
