SPECIFICATION QueuesSpec
CONSTANTS
  d1 = d1
  d2 = d2
  w1 = w1
  w2 = w2
  NJobs = 2
  Devices = {d1, d2}
  NoDevice = NoDevice
  Manual = Manual
  MaxDevices = 5
  MaxActive = 1
  MaxAttempts = 2
  LeaseLen = 1
  TTL = 2
  MaxClaims = 2
  MaxFaults = 1
  Horizon = 2
  NDataJobs = 2
  Kinds = {"steps", "direct", "api"}
  Workers = {w1, w2}
  NoJob = NoJob
  MaxQueue = 2
  Steps = 2
  Deadline = 1
  Lease = 2
  MaxRev = 2
  MaxKills = 2
  LastTick = 4
  NRuns = 4
  Scheduler = Scheduler
  Worker = Worker
  NoRun = NoRun
  NSlots = 2
  MaxFails = 2
  MaxCrashes = 1
SYMMETRY QueueSymmetry
INVARIANTS
  LeasesHonoured
  JobsRunOnce
  SlotsServedOnce
PROPERTIES
  ResultsFinal
  OutcomeFinal
CHECK_DEADLOCK FALSE
