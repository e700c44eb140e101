CONSTANTS
  Pollers = {p1}
  Kinds = {"sync"}
  Records = {r1}
  MaxChanges = 1
  Grain = 1
  MaxAttempts = 1
  Budget <- OneReinjection
  Weight <- Heavy
SPECIFICATION Spec
INVARIANTS PauseIsExplained
CHECK_DEADLOCK FALSE
