SPECIFICATION MCSpec
CONSTANTS
    c1 = c1 c2 = c2 k1 = k1 k2 = k2 l1 = l1 l2 = l2 g1 = g1 g2 = g2 h1 = h1
    h2 = h2 h3 = h3 v0 = v0 v1 = v1 ip1 = ip1 ip2 = ip2 ns1 = ns1 ns2 = ns2
    None = None NoEcho = NoEcho Nil = Nil Absent = Absent NotGiven = NotGiven
    Nothing = Nothing NoValue = NoValue Nobody = Nobody Default = Default
    Conns = {c1, c2}
    Muxers = {m1, m2}
    Keys = {k1}
    EchoConns = {c1, c2}
    EchoKeys = {k1, k2}
    Ports = {1, 2}
    Reqs = {q1, q2}
    Limit = 1
    Values = {v0, v1}
    Delays = {d1}
    Dials = {d1}
    Hosts = {h1, h2, h3}
    Suffixed = {h2}
    Encoded = h3
    Paths <- MCPaths
    OptionValues = {v0, v1}
    DefaultValue = v0
    BadOptions = {v1}
    Addrs = {l1, l2}
    Hashes = {g1, g2}
    HAConns = {c1}
    Percentages = {1, 2}
    IPs = {ip1, ip2}
    TargetPorts = {1, 2}
    Policies <- MCPolicies
    Data <- MCData
    NameServers <- MCServers
    Statics = {ns3}
    MaxFlows = 2
    MaxUint16 = 2
    MaxWrites = 2
    MaxServices = 2
    MaxRules = 2
    Ids <- MCIds
    Hints = {0, 1, 65536}
    Words <- MCWords
    MaxHeaders = 2
    MaxLen = 15
    Mtu = 7
    FrameSize = 11
    IdLen = 2
    TraceLen = 3
    Threshold = 1
    MaxRefreshes = 2
    Answers = 1
    MaxUpdates = 2
    MaxLookups = 2
\* Requests end, commands end, the bounds are reached.
CHECK_DEADLOCK FALSE
INVARIANTS
    OpenFlowIsTheNewest IdsAreUnique EndIsHonest RulesKeepTheirMeaning NoForwarderLeaks
    CallsAreTruthful ReadAsWritten ConfigurationHolds ProxyHolds DialsReachTheirService
