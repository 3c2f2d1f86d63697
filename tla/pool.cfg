SPECIFICATION FairSpec
CONSTANTS
    Indexes = {rarbg, zamunda}
    Workers = {w1, w2}
    StartPage = 1
    PageCount = 3
    Limit = 2
    StopOnStale = TRUE
    Ranges <- PhoneAndZipRanges
    PageItems = 1
    PullBound = 4
INVARIANTS
    FreshSearch
    SearchesAsAsked
    BatchesAccounted
    LateSearchesBounded
    OvershootBounded
    FeederNotAbandoned
PROPERTY
    SearchEnds
CHECK_DEADLOCK FALSE
