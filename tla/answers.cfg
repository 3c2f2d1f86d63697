SPECIFICATION ServerSpec
CONSTANTS
    Key = {status, dune}
    Size = 2
    TTL = 1
    Disposer = {}
    StatusHandler = {h1, h2}
    SearchHandler = {h3, h4}
    StatusKey = status
INVARIANT
    PanicsBounded
SYMMETRY HandlerSymmetry
