CONSTANTS
  p1 = p1
  p2 = p2
  p3 = p3
  None = None
  Pid = {p1, p2, p3}
  WORKERS = 2
  THRESHOLD = 1
  KEEP_ALIVE = 1
  POLL = 2
  STARTUP = 2
  UNRESPONSIVE = 3
SPECIFICATION FairHealthSpec
PROPERTIES
  ShutdownOnlyWhenFew
  NodeIsReplaced
