CONSTANTS
  w1 = w1
  w2 = w2
  Statuses <- TwoDeployments
  Worker = {w1, w2}
  MAX_RECEIVE = 2
  MaxWebhooks = 2
  MaxMsgs = 2
  MaxFaults = 1
SPECIFICATION FairSpec
INVARIANTS
  NothingVanishes
  JiraShowsNewest
  CommitsSinceLastSuccess
PROPERTIES
  EveryMessageSettles
CHECK_DEADLOCK FALSE
