CONSTANTS
  p1 = p1
  p2 = p2
  c1 = c1
  c2 = c2
  c3 = c3
  a = a
  b = b
  x = x
  r1 = r1
  r2 = r2
  d1 = d1
  d2 = d2
  i1 = i1
  i2 = i2
  u1 = u1
  u2 = u2
  Operations = {o1, o2}
  Foreign = {}
  Agents = {g1, g2}
  Budgets = {{"crash", "lost"}, {"network", "stall"}, {"disk", "rotate"}, {"stall", "crash"}}
  Processes = {p1, p2}
  Calls = {c1, c2, c3}
  Home <- HomeOf
  Limit = 1
  Quota <- QuotaOf
  Registered = 2
  Pressures = 2
  Strains <- SomeStrains
  Workers = {w1, w2}
  Jobs = {j1}
  Times = {0, 1, 5}
  Ranges <- TwoRanges
  Minute = 2
  MaxChunks = 2
  MaxConcurrency = 2
  MaxAttempts = 2
  Successes = 2
  Misfortunes <- SomeMisfortunes
  Users = {u1, u2}
  Runners = {t1, t2}
  Texts = {a, b, x}
  Bounded = {a, b}
  Matches <- MatchesOf
  Records = {r1, r2}
  MaxChanges = 2
  Visits <- SomeVisits
  Fields <- ThreeFields
  MaxLeaves = 2
  MaxTerms = 3
  Deliveries = {d1, d2}
  Operators = {y1}
  Stories = {i1, i2}
  Mentions <- MentionsOf
  Retries = 2
  Crises <- SomeCrises
  Connectors = {k1, k2}
  Callers = {u1, u2}
  Hosts = {p1, p2}
  Host <- HostOf
  Limits = {1, 2, 3}
  Default = 2
  MaxCalls = 3
SPECIFICATION TransportSpec
INVARIANTS MemoryIsTyped GateIsFair CalledOnce NothingIsLost ReadsAreBounded
PROPERTIES SettledStays
CHECK_DEADLOCK FALSE
