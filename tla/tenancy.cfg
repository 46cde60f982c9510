SPECIFICATION MCSpec
CONSTANTS
    c1 = c1
    c2 = c2
    i1 = i1
    i2 = i2
    i3 = i3
    People = {i1, i2, i3}
    Tokens = {k1}
    Calls = {c1, c2}
    SeatCaps = {1, 2}
    None = None
    Checkouts = {c1, c2}
    Customers = {i1, i2, i3, i4}
    Prices = {"pro", "addon"}
    Sold = {"pro"}
    MaxEvents = 4
    MaxFailures = 1
    Unset = Unset
    Registrations = {r1}
    Assertions = {x1, x2}
    Posts = {c1, c2}
    NoCeremony = NoCeremony
    Agents = {i1, i2, i3, i4}
    Seeded = {i4}
    Requests = {c1, c2}
    TierNames = {"free", "starter"}
    MaxEmployees <- MCMaxEmployees
    Allowed <- MCAllowed
    Providers = {"A", "B"}
    Models = {"m1", "m2"}
    Registry <- MCRegistry
    NoAgent = NoAgent
INVARIANTS
    TypesOK
    
    
    
    
SYMMETRY MCSymmetry
CHECK_DEADLOCK FALSE
