CONSTANTS
  w1 = w1
  w2 = w2
  m1 = m1
  m2 = m2
  m3 = m3
  m4 = m4
  m5 = m5
  None = None
  Worker = {w1, w2}
  Msg = {m1, m2, m3, m4, m5}
  Repo = {1}
  PAGES = 1
  AllTaskTypes <- OneTask
  SecurityTaskTypes = {}
  POOL_COEF = 10
  TargetChoices <- AllTasks
  SyncTypes = {"full"}
  MaxSubtasks = 1
  MAX_RECEIVE = 2
  DELETE_WHEN_OTHERS_WORK = FALSE
  FLAG_RACES = FALSE
  FaultKinds = {"crash", "infrastructure", "permission", "unknown"}
  MaxFaults = 2
  MaxSyncs = 1
  MaxRows = 3
SPECIFICATION FairSpec
PROPERTY
  EverySyncEnds
CHECK_DEADLOCK FALSE
