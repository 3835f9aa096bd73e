SPECIFICATION MCSpec
CONSTANTS
    p1 = p1 p2 = p2 n1 = n1 n2 = n2 t1 = t1 t2 = t2 c1 = c1 c2 = c2 r1 = r1
    r2 = r2 r3 = r3 org = org app = app
    Logins = {p1, p2} App <- MCApp Org = org NoLock = NoLock
    TunnelAdmins = {p1, p2} TunnelNames = {n1, n2} PerPage = 1 MaxTunnels = 2
    Chosen = Chosen Missing = Missing
    NetworkAdmins = {p1, p2} VnetNames = {n1, n2} Networks <- MCNetworks
    MaxVnets = 2 MaxRoutes = 1 NotGiven = NotGiven
    Tokens = {t1, t2} Nothing = Nothing
    MaxRetries = 1 NoResult = NoResult
    Reporters = {p1, p2} Bypasses <- MCBypasses Seconds = {1, 2}
    Lines <- MCLines MaxLines = 2 MaxStarts = 3 Window = 1 Unset = Unset
    Chats = {c1, c2} Requests = {r1, r2, r3} Null = Null
\* Requests end, commands end, the bounds are reached.
CHECK_DEADLOCK FALSE
INVARIANTS
    OneHolderUnlessReclaimed TunnelsAreUsable EffectsAreAsAsked ReportIsTrue ReportIsHonest
    ArchiveIsHonest PrintsWhatWasAsked OrphansWereRaced
PROPERTIES HistoriesStand
