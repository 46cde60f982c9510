SPECIFICATION MCSpec
CONSTANTS
    Nil = Nil
    Callers = {g1, g2, g3}
    Clients = {c1, c2}
    MaxToken = 1
    BadTokens <- MCFirstTokenBad
    MaxAttempt = 40
    MaxTicks = 5
    BatchSize = 2
    ChunkHalves = 3
    MaxDials = 3
    MaxBreaks = 2
    Browsers = {w1}
    MaxMessages = 3
    QueueCap = 1
INVARIANTS
    OneClientPerCompany
    BackoffIsSafe
    
    CleanBroadcasts
PROPERTIES
    
    BroadcastsEnd
CHECK_DEADLOCK FALSE
