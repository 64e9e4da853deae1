SPECIFICATION PublishSpec
CONSTANTS
  None = None
  p1 = p1
  p2 = p2
  c1 = c1
  c2 = c2
  Procs = {p1, p2}
  Slots = {1}
  Eod = 0
  Planned <- MailPlanned
  Ticks = 2
  MailDays = 1
  Ttl = 2
  MaxAttempts = 2
  MaxItems = 9
  PruneAge = 9
  PruneBatch = 1
  SendBudget = 1
  MaxOther = 2
  MaxRuns = 2
  MaxSettled = 1
  Instants <- RowInstants
  OpenDays = {0, 1, 2}
  MaxDay = 2
  Cfgs = {c1, c2}
  MinHistory = 2
SYMMETRY PublishSymmetry
INVARIANT
  DecisionReturns
CHECK_DEADLOCK FALSE
