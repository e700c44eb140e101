CONSTANTS
  e1 = e1
  e2 = e2
  c1 = c1
  c2 = c2
  Replicas = {r1}
  Publishers = {p1}
  Operators = {q1}
  Events = {e1, e2}
  Consumers <- OneConsumer
  MaxAttempts = 2
  RecoveryPasses = 2
  RecoveryLimit = 2
  MaxCrashes = 1
  MaxFaults = 1
  MaxReplays = 1
  MaxTrouble = 1
SPECIFICATION FairSpec
INVARIANTS TypeOK EffectOnce OneCallerWins LossIsIsolated
PROPERTIES EveryEventConcludes
CHECK_DEADLOCK FALSE
