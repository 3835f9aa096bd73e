SPECIFICATION MCSpec
CONSTANTS
    c0 = c0 c1 = c1
    Requested = 3
    Available = 2
    IsStaticEdge = FALSE
    Conns <- MCConns
    Surroundings <- MCSurroundings
    MaxRetries = 2
    MaxEdgeAddrRetries = 1
    EventBuffer = 1
\* Tunnels end after the shutdown.
CHECK_DEADLOCK FALSE
INVARIANTS ActiveCountsGoroutines
PROPERTIES SignalsAreFollowed RunGoesOn QuicKeptWhileItWorks BlockedQuicFallsBack
