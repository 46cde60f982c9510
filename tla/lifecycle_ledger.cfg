SPECIFICATION MCFairSpec
CONSTANTS
  Intents = {i1}
  Orders = {o1, o2}
  Requests = {u1, u2}
  Nil = Nil
  MaxRollbacks = 0
  MaxLosses = 2
  MaxRestarts = 1
  Buys = {b1}
  Sells = {}
  Tracks = {}
  MaxConns = 1
  Auth = Auth
  Nobody = Nobody
PROPERTIES
  ImplementsLedger
  SettlementsArrive
CHECK_DEADLOCK FALSE
