CONSTANTS
  q1 = q1
  q2 = q2
  Queue = {q1, q2}
  MaxEvents = 5
  MaxCrashes = 1
SPECIFICATION FairSpec
INVARIANTS
  OneListens
  FlagTellsTheTruth
PROPERTIES
  QuietOnceStopped
  LastEventWins
CHECK_DEADLOCK FALSE
