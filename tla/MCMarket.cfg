SPECIFICATION MarketSpec
CONSTANTS
  c1 = c1
  c2 = c2
  w1 = w1
  w2 = w2
  none = none
  Workers = {w1}
  Codes = {c1}
  Intervals = {"D"}
  Keys = {"k1"}
  Shapes = {"s1", "s2"}
  ExDates = {}
  Locks = TRUE
  MaxDay = 2
  MaxStores = 2
  MaxJobs = 3
  MaxFaults = 0
  MaxSession = 4
  Overlap = 1
  MaxTradeDay = 4
  Worth = {10, 12}
  N = 3
  Requested = {c1, c2}
  MaxRows = 2
INVARIANTS
  ChainRanked
  FeedTrusted
  ChanSound
PROPERTIES
  HistoryKept
  AsOfSettled
CHECK_DEADLOCK FALSE
