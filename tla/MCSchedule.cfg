SPECIFICATION ScheduleSpec
CONSTANTS
  None = None
  Bad = Bad
  c1 = c1
  Workers = {w1, w2}
  Readers = {r1}
  Cfgs = {c1, c2}
  PerDay = 2
  OpenDays = {0, 1}
  KeepDates = 1
  MaxTime = 3
  MaxBoards = 2
  NDays = 1
  MaxFails = 1
  MaxManual = 1
  MaxUniverse = 1
  MaxBootstraps = 0
INVARIANTS
  SettledSound
  BoardsReadable
PROPERTIES
  PolicyKept
CHECK_DEADLOCK FALSE
