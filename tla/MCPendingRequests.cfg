CONSTANTS
    h1 = h1
    h2 = h2
    s1 = s1
    s2 = s2
    r1 = r1
    HTTPCallers = {h1, h2}
    WSCallers = {s1, s2}
    RemoteCallers = {r1}
    Binary = {h1, h2, s1}
    Slots = 1
    MaxClock = 2
    None = None
CONSTRAINT OneGroup
SPECIFICATION FairSpec
INVARIANTS
    TableFollowsCallers
    SlotsAreHeld
PROPERTIES
    ImplementsRequestReply
    EveryRequestEnds
CHECK_DEADLOCK FALSE
