CONSTANTS
  w1 = w1
  w2 = w2
  t1 = t1
  o1 = o1
  o2 = o2
  Workers = {w1, w2}
  Orders <- TwoOrders
  Twins = {t1}
  TwinOf <- OneTwin
  Edits = {o2}
  MaxAttempts = 2
  Budget <- Interrupted
SPECIFICATION FairSpec
INVARIANTS TwinIsGuarded DeadIsEarned
PROPERTIES ConcludedIsFinal EveryOrderConcludes
CHECK_DEADLOCK FALSE
