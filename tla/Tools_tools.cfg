SPECIFICATION ToolsLiveSpec

CONSTANTS
    a = a
    b = b
    None = None
    Threads = {a, b}
    MaxConsents = 2
    MaxTokens = 3
    MaxMishaps = 1

INVARIANTS
    GrantIsCurrent
    OneProfileAtATime

PROPERTIES
    HonouredIsKept
    ConnectingEnds
