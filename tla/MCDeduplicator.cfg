CONSTANTS
  r1 = r1
  r2 = r2
  Runner = {r1, r2}
  NoRunner = NoRunner
  UPDATE = 2
  MAX_SLEEP = 5
SPECIFICATION FairSpec
INVARIANTS
  ExclusiveUnlessRacedOrLate
  NoOrphanFlag
  NeverReportsAStoppedRunner
PROPERTY
  EveryCallIsAnswered
