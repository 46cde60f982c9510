SPECIFICATION CalibrationSpec
CONSTANTS
    MaxFits = 2
    MaxSettled = 2
    MinSamples = 1
    MinIsotonic = 3
    TTL = 1
    MaxClock = 2
    NoEntry = NoEntry
    Failed = Failed
INVARIANT FitsOnRaw
CHECK_DEADLOCK FALSE
