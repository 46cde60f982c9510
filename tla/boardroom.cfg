SPECIFICATION MCSpec
CONSTANTS
    Employees = {e1}
    Company = co
    Fields = {"allocated_balance_usd"}
    Lowest = 1
    Highest = 2
    Combos = {x1, x2}
    NoCombo = nx
    ToolCalls = {d1, d2}
    Blank = Blank
    Staff = {e1}
    MaxQueries = 2
    Filers = 2
    Loop = loop
    Tasks = {k1, k2}
    MaxTroubles = 1
    MaxMoves = 1
    Nobody = Nobody
    Threads = {t1, t2}
    MaxSessions = 3
    Rounds = 2
    NoThread = NoThread
    Searches = {s1, s2}
    Quotas = {1, 2}
    Caps = {0, 1}
    HasTavily = TRUE
INVARIANTS
    TypesOK
    
    
    
    SpendBounded
PROPERTIES
    RequestsGetReviewed
CHECK_DEADLOCK FALSE
