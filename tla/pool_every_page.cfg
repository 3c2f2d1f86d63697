SPECIFICATION Spec
CONSTANTS
    Indexes = {rarbg}
    Workers = {w1}
    StartPage = 1
    PageCount = 2
    Limit = 0
    StopOnStale = TRUE
    Ranges <- NoRanges
    PageItems = 1
    PullBound = 2
INVARIANT
    EveryPageSearched
CHECK_DEADLOCK FALSE
