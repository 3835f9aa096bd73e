SPECIFICATION MCSpec
CONSTANTS
    a1 = a1  a2 = a2  a3 = a3  a4 = a4
    b1 = b1  b2 = b2  b3 = b3  b4 = b4
    None = None
    NoError = NoError
    NoSession = NoSession
    NoConfig = NoConfig
    NoActor = NoActor
    Conns = {c1, c2, c3}
    Addrs <- MCAddrs
    Region1 <- MCRegion1
    IPv6 <- MCIPv6
    V6First = {1, 2}
    Resolutions <- MCResolutions
    Overrides = {"auto", "6"}
    Calls = {r1, r2}
    Ids = {i1}
    Limit = 2
    Updates = {u1, u2, u3}
    Sessions = {s1, s2}
    Actors = {"alice", "bob"}
    Boot = Boot
    MaxRequests = 2
    MaxVersion = 2
    MaxEvents = 2
    MaxStarts = 2
    MaxReceived = 3
    DemuxCap = 1
    IcmpCap = 1
    WriteCap = 1
\* Sessions end, calls are answered, the process stops.
CHECK_DEADLOCK FALSE
INVARIANTS OneAddressEach
PROPERTIES
    ServeEndsRightly SessionsAreReleased LossEndsAll OriginsFollowTheProxy
    StreamsEndWithTheirActor ProcessEndsWhole RegionsAndFamilies
