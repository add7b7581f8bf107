CONSTANTS
    e1 = e1
    e2 = e2
    e3 = e3
    Tokens = {1, 2, 3}
    Attempts = {1, 2, 3}
    Threshold = 2
    None = 0
    Jobs = {1, 2, 3}
    Keys = {k1}
    Calls = {1, 2, 3}
    Loads <- MCLoads
    Events = {e1, e2, e3}
    EventOf <- MCEventOf
    Limit = 1
    Runs = {1, 2}
    Watchers = {w1}
    Buffer = 2
    Savers = {p1, p2}
    Versions = {v12, v13}
SPECIFICATION DashboardSpec
INVARIANTS
    LogoutHolds
    DecisionsOutlast
    CacheIsCurrent
    PanicButtonHolds
    CallsAreAccounted
    EventsApplyOnce
    OperationsOverlapByCancel
    WatchersMissNothing
    SavesAreKept
CONSTRAINT FewOdd
CHECK_DEADLOCK FALSE
