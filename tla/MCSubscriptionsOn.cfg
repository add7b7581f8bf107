CONSTANTS
    s1 = s1
    s2 = s2
    s3 = s3
    f1 = f1
    k1 = k1
    k2 = k2
    Streams = {s1, s2, s3, f1}
    Sockets = {k1, k2}
    Foreign = {f1}
    Anything = "any"
    Lenient = {"chat-events"}
    Limit = 2
    MaxConnects = 1
    MaxFaults = 0
    Channels <- MCChannels
    ChannelOf <- MCChannelOf
    FilterOf <- MCFilterOf
    Events <- MCEvents
    Loads <- TwoStreams
SPECIFICATION SubsSpec
INVARIANT ListenedChannelIsOn
CHECK_DEADLOCK FALSE
