CONSTANTS
    a = a
    b = b
    v = v
    Sessions = {a, b}
    Viewers = {v}
    ViewerOf <- MCViewerOf
    MaxPerKey = 1
    MaxConnects = 2
    MaxInputs = 1
SPECIFICATION FairSpec
INVARIANTS
    ViewersAreTold
    NothingStreamsUnwatched
PROPERTY PendingIsSettled
CONSTRAINT FewWrites
CHECK_DEADLOCK FALSE
