SPECIFICATION MCSpec
CONSTANTS
    h1 = h1
    h2 = h2
    i1 = i1
    i2 = i2
    i3 = i3
    x1 = x1
    x2 = x2
    Nil = Nil
    Handlers = {h1, h2}
    Intents = {i1, i2, i3}
    Assets = {x1, x2}
    Stakes <- MCLargeStakes
    MinStake = 3
    MaxStake = 3
    MaxPosition = 4
    Allocations <- MCTightAllocations
    DailyCap = 1
    Days <- MCDays
    a1 = a1
    a2 = a2
    Agents = {a1, a2}
    Grants <- MCGrants
    Profits <- MCProfits
    MinSweep = 1
    MaxEdits = 2
SYMMETRY Symmetry
INVARIANTS
    LimitsHold
    ReserveIsAudited
    AllocationsAccounted
    OverdraftBounded
CHECK_DEADLOCK FALSE
