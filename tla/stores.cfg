SPECIFICATION Spec
CONSTANTS
    s1 = s1
    s2 = s2
    r1 = r1
    c1 = c1
    Searcher = {s1, s2}
    Reporter = {r1}
    Command = {c1}
    LocalID <- LocalIDs
    NoKey <- NoLocalID
    Data = {d}
    LatestSize = 0
    Namespace = {"a", "B"}
    Facade <- Facades
    IndexKey = {"a", "b"}
    Nobody = Nobody
    CallBound = 3
    MaxRecords = 3
INVARIANTS
    SearchesUseOpenStorage
    RecordsIndexedOnce
    IndexAnswersAsAsked
PROPERTIES
    WaitsOnlyForSearches
CHECK_DEADLOCK FALSE
