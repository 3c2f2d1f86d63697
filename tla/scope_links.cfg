SPECIFICATION Spec
CONSTANTS
    Names <- MCNames
    FileSystems <- MCFileSystems
    Assets <- MCAssets
    Now = 5
    Padded <- MCPadded
    Configured = {"a"}
    Process = {h1, h2, main}
    Main = main
    Readers = {h1, h2}
    Parsers = {}
    Startups <- MCStartups
    Earlier = {}
    Ids <- MCIds
    RequestBound = 2
INVARIANTS
    LinksCanBeDownloaded
CHECK_DEADLOCK FALSE
