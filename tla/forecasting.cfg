SPECIFICATION MCSpec
CONSTANTS
    MaxWindow = 4
    Context = 2
    MaxBars = 4
    WarmupCount = 3
    MaxTroubles = 1
    NoWindow = NoWindow
    NoCandle = NoCandle
    Ranks = {1, 2, 3, 4}
    MaxPairs = 5
    MaxFits = 2
    MaxSettled = 1
    MinSamples = 1
    MinIsotonic = 1
    TTL = 1
    MaxClock = 2
    NoEntry = NoEntry
    Failed = Failed
    Agents = {a, b}
    Star = a
    Assets = {x}
    Whitelists = {{}}
    Floors = {1}
    Interval = 2
    MaxLag = 1
    Target = 1
    MaxProfit = 1
    MaxOpen = 1
    MaxEdits = 1
    NoOne = NoOne
    NoSignal = NoSignal
    Runs = {r1}
    Applies = {c1, c2}
    MaxCrashes = 2
    NoRun = NoRun
INVARIANTS
    TypesOK
    TimeRunsForward
    FitIsIsotonic
    StalenessBounded
    LateIntentsBounded
    ChangesAreAudited
PROPERTIES
    EvaluationsContinue
    
CHECK_DEADLOCK FALSE
