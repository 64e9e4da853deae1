SPECIFICATION FairDispatchSpec
CONSTANTS
  i1 = i1
  i2 = i2
  p1 = p1
  p2 = p2
  None = None
  Identities = {i1}
  Procs = {p1}
  Times <- MCTimes
  MaxTime = 2
  Slots = {0, 1}
  TradingDays = {0, 1}
  Sequences <- MCSequences
  Expiries <- MCExpiries
  Contents <- MCContents
  JobNos <- MCJobNos
  BundleTTL = 2
  DayLength = 2
  MaxLateness = 1
  MaxAttempts = 2
  Cooldown = 1
  MaxRetries = 1
  MaxFaults = 1
  MayRollBack = TRUE
  MaxDeploys = 0
INVARIANT
  GenerationsInSlotOrder
PROPERTY
  DispatchSettles
