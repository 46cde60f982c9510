SPECIFICATION MCSpec
CONSTANTS
    a1 = a1
    t1 = t1
    t2 = t2
    t3 = t3
    Nil = Nil
    Agents = {a1}
    Trades = {t1, t2, t3}
    AgentOf <- MCOneAgentsTrades
    Results <- MCWinOrLoss
    Limits <- MCOneLimit
    Drawdown = 1
    LossStreakLimit = 2
    MaxFailures = 1
INVARIANTS
    TypeOK
    CoolingOffMatchesLosses
PROPERTIES
    LossesStopTrading
CHECK_DEADLOCK FALSE
