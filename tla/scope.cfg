SPECIFICATION Spec
CONSTANTS
    Names <- MCNames
    FileSystems <- MCFileSystems
    Assets <- MCAssets
    Now = 5
    Padded <- MCPadded
    Configured = {"a"}
    Process = {h1, h2, main}
    Main = main
    Readers = {h1, h2, p1}
    Parsers = {p1}
    Startups <- MCStartups
    Earlier <- MCEarlier
    Ids <- MCIds
    RequestBound = 2
INVARIANTS
    CollectionsComplete
    PanicsOnNothingSelected
    LastIndexChecked

    
CHECK_DEADLOCK FALSE
