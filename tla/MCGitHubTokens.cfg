CONSTANTS
  j1 = j1
  j2 = j2
  o1 = o1
  o2 = o2
  None = None
  Job = {j1, j2}
  Org = {o1}
  MARGIN = 1
  JWT_LIFE = 2
  TOKEN_LIFE = 3
  MaxChanges = 1
SPECIFICATION FairSpec
INVARIANTS
  ExpiredOnlyIfHeld
  OldCredentialsDieOut
PROPERTY
  RefusalsEnd
