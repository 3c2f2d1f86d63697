SPECIFICATION ItemSpec
CONSTANTS
    Reference <- MCReference
    Now = 20000
    FilterKilo = 9
    Definitions <- MCDefinitions
    CategoryOffset = 100000
    Kilo = 8
    Uint32Size = 32
    Reads = 2
INVARIANTS
    FieldsInAnyOrder
    NilSaysMissing
    FoundAgain
    CategoryTellsWanted
CHECK_DEADLOCK FALSE
