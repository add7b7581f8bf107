CONSTANTS
    s1 = s1
    s2 = s2
    s3 = s3
    f1 = f1
    k1 = k1
    k2 = k2
    Streams = {s1, s2, s3, f1}
    Sockets = {k1, k2}
    Foreign = {f1}
    Anything = "any"
    Lenient = {"chat-events"}
    Limit = 2
    MaxConnects = 2
    MaxFaults = 1
    Channels <- MCChannels
    ChannelOf <- MCChannelOf
    FilterOf <- MCFilterOf
    Events <- MCEvents
    Loads <- MCLoads
SYMMETRY AlikeStreams
SPECIFICATION SubsSpec
INVARIANTS
    CountsReachTheModule
    StreamsAreCut
    SteadyAreServedOnce
CHECK_DEADLOCK FALSE
