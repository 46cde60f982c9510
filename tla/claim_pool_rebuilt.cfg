SPECIFICATION FairSpec
CONSTANTS
    Nil = Nil
    Callers = {g1, g2}
    Clients = {c1, c2}
    MaxToken = 1
    BadTokens <- MCNoBadTokens
PROPERTIES
    PoolFollowsCredentials
CHECK_DEADLOCK FALSE
