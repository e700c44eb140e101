CONSTANTS
  e1 = e1
  e2 = e2
  c1 = c1
  c2 = c2
  Replicas = {r1, r2}
  Publishers = {p1}
  Operators = {}
  Events = {e1}
  Consumers <- OneConsumer
  MaxAttempts = 2
  RecoveryPasses = 2
  RecoveryLimit = 2
  MaxCrashes = 0
  MaxFaults = 0
  MaxReplays = 0
  MaxTrouble = 0
SPECIFICATION Spec
INVARIANTS OneCallerWins
CHECK_DEADLOCK FALSE
