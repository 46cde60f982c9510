SPECIFICATION FairSpec
CONSTANTS
  Intents = {i1}
  Orders = {o1}
  Requests = {u1}
  Nil = Nil
  MaxRollbacks = 0
  MaxLosses = 1
  MaxRestarts = 1
PROPERTIES
  ReconcileClosesTheGap
CHECK_DEADLOCK FALSE
