SPECIFICATION Spec
CONSTANTS
    Key = {k1, k2, k3}
    Size = 2
    TTL = 1
    Disposer = {d1}
INVARIANT
    QuietSweepKeepsOrder
PROPERTIES
    StaleEventuallyGone
    DisposeReturns
