SPECIFICATION FairSpec
CONSTANTS
  k1 = k1
  k2 = k2
  a1 = a1
  a2 = a2
  None = None
  Open = Open
  Error = Error
  Loops = {l1, l2}
  Plan <- MCPlan
  Keys = {k1, k2}
  Tier <- MCTier
  GRACE_DAYS = 3
  MAX_RESTART_ATTEMPTS = 1
  Ids = {1, 2, 3}
  Settings <- MCSettings
INVARIANTS TypeOK AnswersAreOwn GraceEnds
PROPERTIES RunsEnd TierFollowsLicence DeactivationHolds
CHECK_DEADLOCK FALSE
