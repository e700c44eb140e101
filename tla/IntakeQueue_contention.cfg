CONSTANTS
  Pollers = {p1, p2}
  Kinds = {"sync"}
  Records = {r1, r2}
  MaxChanges = 2
  Grain = 1
  MaxAttempts = 2
  Budget <- Overtaken
  Weight <- Each
SPECIFICATION Spec
INVARIANTS TypeOK NoChangeLost OneAtATime PauseIsExplained
PROPERTIES NothingGoesBack
SYMMETRY Interchangeable
CHECK_DEADLOCK FALSE
