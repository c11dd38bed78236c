CONSTANTS
  w1 = w1
  w2 = w2
  m1 = m1
  m2 = m2
  m3 = m3
  None = None
  Worker = {w1, w2}
  Msg = {m1, m2, m3}
  Repo = {1, 2}
  PAGES = 1
  AllTaskTypes <- OneTask
  SecurityTaskTypes = {}
  POOL_COEF = 10
  TargetChoices <- AllTasks
  SyncTypes = {"full", "partial"}
  MaxSubtasks = 1
  MAX_RECEIVE = 2
  DELETE_WHEN_OTHERS_WORK = FALSE
  FLAG_RACES = FALSE
  FaultKinds = {"lapse", "delete", "timeout", "crash", "infrastructure", "permission", "rateLimit", "notFound", "unknown", "startLost"}
  MaxFaults = 1
  MaxSyncs = 2
  MaxRows = 3
SYMMETRY Symmetric
SPECIFICATION Spec
INVARIANT
  CompleteMeansIngested
PROPERTIES
  ProgressIsKept
  KeepsTheSyncPromise
CHECK_DEADLOCK FALSE
