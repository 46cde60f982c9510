SPECIFICATION MCSpec
CONSTANTS
  Intents = {i1}
  Orders = {o1, o2}
  Requests = {u1, u2}
  Nil = Nil
  MaxRollbacks = 1
  MaxLosses = 2
  MaxRestarts = 1
  Buys = {b1}
  Sells = {s1}
  Tracks = {t1}
  MaxConns = 3
  Auth = Auth
  Nobody = Nobody
INVARIANTS
  OneOrderPerSanction
  RowsMatchBroker
  OnePostmortemPerClose
  AnswersAreSafe
  
PROPERTIES
  NothingIsTakenBack
CHECK_DEADLOCK FALSE
