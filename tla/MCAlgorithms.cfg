CONSTANTS
  AllTaskTypes <- MCAllTaskTypes
  SecurityTaskTypes = {"alert"}
  POOL_COEF = 1
  RepoOf <- TwoRowsForOne
  MaxSubtasks = 2
  ISSUE_KEY_API_LIMIT = 2
  COMMITS_PER_REQUEST = 2
  MAX_COMMIT_HISTORY = 2
  MAX_ASSOCIATIONS_PER_ENTITY = 3
  IssueKey = {1, 2, 3, 4, 5}
  EntityId = {1, 2, 3}
  BranchPages <- MCBranchPages
  CommitLists <- MCCommitLists
  AssociationCounts <- MCAssociationCounts
  LEGACY_PAGE_SIZE = 2
  MaxItem = 5
  FirstItems = {{1, 2, 3}, {1, 3}, {}}
  Success = {1, 3}
  FromDates = {1, 2}
  Sizes = {1, 2, 3}
  Attempts = 2
  MaxErrors = 3
  MaxChanges = 2
  BRANCH_ATTEMPTS = 2
  MaxEvents = 3
  Pushed <- TwoPushes
  PUSH_ATTEMPTS = 2
  MAX_PUSHED = 2
  MaxGone = 1
SPECIFICATION AlgorithmsSpec
INVARIANTS
  QuotaIsUsed
  LimitsLoseNothing
  WalksAreWhole
  GivesUpForAReason
  JiraEndsLikeGitHub
  CommitsArrive
PROPERTY
  SameMainTaskOnRetry
CHECK_DEADLOCK FALSE
