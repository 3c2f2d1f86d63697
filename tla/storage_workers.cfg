SPECIFICATION Spec
CONSTANTS
    Worker = {w1, w2}
    LocalID = {a, b}
    Data = {d1, d2}
    Comparable = {d1}
    NoKey = none
    LatestSize = 1
    MaxRecords = 4
INVARIANTS
    IndexMatchesRecords
    LatestAreNewest
PROPERTY
    ImplementsItemStore
