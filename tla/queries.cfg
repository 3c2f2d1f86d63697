SPECIFICATION QuerySpec
CONSTANTS
    UintSize = 256
    ApiKey <- Key
    Requests <- MCRequests
    Definitions <- MCDefinitions
INVARIANTS
    ReadsAsAsked
    KeyReadsBack
    CategoriesFollowTheRequest
    OfferedModesAreSearched
CHECK_DEADLOCK FALSE
