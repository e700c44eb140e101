CONSTANTS
  o1 = o1
  o2 = o2
  e1 = e1
  e2 = e2
  e3 = e3
  Events <- MCEvents
  Orgs <- MCOrgs
  OrgOf <- MCOrgOf
  Txns = {t1, t2}
  Loaders = {l1}
  Legacy <- MCLegacy
  MaxAppendAttempts = 2
SPECIFICATION FairSpec
INVARIANTS TypeOK ChainVerifies OneEntryPerEvent
PROPERTIES AppendOnly EveryAppendEnds ImplementsLog
CHECK_DEADLOCK FALSE
