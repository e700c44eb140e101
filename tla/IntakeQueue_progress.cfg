CONSTANTS
  Pollers = {p1, p2}
  Kinds = {"sync"}
  Records = {r1}
  MaxChanges = 2
  Grain = 1
  MaxAttempts = 1
  Budget <- Interrupted
  Weight <- Heavy
SPECIFICATION FairSpec
PROPERTIES MirrorFollows
CHECK_DEADLOCK FALSE
