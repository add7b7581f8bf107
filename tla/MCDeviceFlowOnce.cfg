CONSTANTS
    Handlers = {g1, g2, g3}
    KeyRows = {k1}
    PairRows = {p1}
    Upgrades = {}
    None = None
SYMMETRY HandlerSymmetry
SPECIFICATION Spec
INVARIANT KeyReturnedOnce
CHECK_DEADLOCK FALSE
