CONSTANTS
  a = a
  b = b
  Twins = {a, b}
  Counterparts <- Both
  Readers = {r}
  Drainers = {d1, d2}
  PageLimit = 2
  Batch = 1
  MaxAttempts = 2
  Policies <- PolicySet
  Budgets <- Pairs
SPECIFICATION FairSpec
INVARIANTS TypeOK OneCopy StatusIsHonest
PROPERTIES EveryCommentArrives
CHECK_DEADLOCK FALSE
