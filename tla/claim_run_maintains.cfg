SPECIFICATION ReconnectSpec
CONSTANTS
    MaxAttempt = 40
INVARIANTS
    RunMaintainsTheConnection
CHECK_DEADLOCK FALSE
