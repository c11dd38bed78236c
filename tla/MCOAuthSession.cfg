CONSTANTS
  t1 = t1
  t2 = t2
  cloud = cloud
  enterprise = enterprise
  Undefined = Undefined
  Tab = {t1, t2}
  Server = {cloud, enterprise}
  Pair = {1, 2, 3, 4}
  StateKey = {1, 2, 3}
  MaxVisits = 2
  MaxFaults = 1
SPECIFICATION FairSessionSpec
INVARIANTS
  StatesFollowLogins
  RenewalKeepsSession
PROPERTY
  EveryVisitEnds
CHECK_DEADLOCK FALSE
CONSTRAINT UntilOverlap
