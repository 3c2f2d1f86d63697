SPECIFICATION Spec
CONSTANTS
    Key = {k1, k2, k3, k4}
    Value = {v1, v2}
    Sizes = {0, 1, 2, 3}
INVARIANTS
    ListAndMapAgree
    OrderOfUse
PROPERTY
    EvictsLeastRecentlyUsed
