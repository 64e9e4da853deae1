SPECIFICATION ProgressSpec
CONSTANTS
  None = None
  i1 = i1
  w1 = w1
  p1 = p1
  Timeout = 3
  JoinTicks = 1
  Scheduler = Scheduler
  Worker = Worker
INVARIANT CallsOwned
PROPERTIES
  WorkSettles
  NothingLingers
CHECK_DEADLOCK FALSE
