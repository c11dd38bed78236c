CONSTANTS
  w1 = w1
  w2 = w2
  m1 = m1
  m2 = m2
  m3 = m3
  None = None
  Worker = {w1, w2}
  Msg = {m1, m2, m3}
  Repo = {1}
  PAGES = 2
  AllTaskTypes <- OneTask
  SecurityTaskTypes = {}
  POOL_COEF = 10
  TargetChoices <- PullTargets
  SyncTypes = {"partial"}
  MaxSubtasks = 0
  MAX_RECEIVE = 2
  DELETE_WHEN_OTHERS_WORK = TRUE
  FLAG_RACES = TRUE
  FaultKinds = {"crash"}
  MaxFaults = 1
  MaxSyncs = 2
  MaxRows = 2
SYMMETRY Symmetric
SPECIFICATION Spec
INVARIANT
  CompleteMeansIngested
PROPERTY
  KeepsTheSyncPromise
CHECK_DEADLOCK FALSE
