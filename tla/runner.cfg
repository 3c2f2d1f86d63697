SPECIFICATION Spec
CONSTANTS
    Links = {"a", "b"}
    Unparsable = "bad"
    SessionCount = 2
    RefreshBound = 1
    ErrorCap = 2
    Callers = {c1, c2}
    Definitions <- AllDefinitions
    PageItems = 1
    Changing = {"a"}
    CallBound = 2
    ChangeBound = 1
INVARIANTS
    TestedLoginsAreReal
    FetchesWithSession
    AloneReadsOwnPage
    LinksFollowThePage
    ErrorsAreShown
SYMMETRY CallerSymmetry
CHECK_DEADLOCK FALSE
