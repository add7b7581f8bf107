CONSTANTS
    Handlers = {g1, g2, g3, g4}
    KeyRows = {k1}
    PairRows = {p1}
    Upgrades = {}
    None = None
SYMMETRY HandlerSymmetry
SPECIFICATION Spec
INVARIANT SharedOnlyByOverlapOrFailure
PROPERTY DecisionsStand
CHECK_DEADLOCK FALSE
