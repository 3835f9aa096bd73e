SPECIFICATION Spec
CONSTANTS
    h1 = h1 h2 = h2 h3 = h3 h4 = h4 a = a b = b c1 = c1 c2 = c2 again = again
    None = None
    Ids <- MCIds
    IdOf <- MCIdOf
    IndexOf <- MCIndexOf
    Handlers <- TwoSessions
    Conns <- TwoConns
    ConnOf <- TwoSessionsConnOf
    Limits <- OneLimit
PROPERTIES RateLimitedOnlyWhenFull
