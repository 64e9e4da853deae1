SPECIFICATION PortalSpec
CONSTANTS
  None = None
  i1 = i1
  i2 = i2
  w1 = w1
  w2 = w2
  c1 = c1
  c2 = c2
  c3 = c3
  b1 = b1
  b2 = b2
  b3 = b3
  u1 = u1
  u2 = u2
  u3 = u3
  r1 = r1
  r2 = r2
  t1 = t1
  t2 = t2
  nobody = nobody
  Codes = {c1}
  Batches = {b1, b2, b3}
  Vals = {1, 2}
  Scale = 1
  MaxManual = 0
  MaxPreviews = 2
  Users = {u1, u2}
  Requests = {r1, r2}
  MaxSessions = 1
  MaxOps = 4
  Imports = {i1}
  Confirmers = {w1, w2}
  NoImport = NoImport
  MaxVal = 2
  MaxFaults = 2
  Cards = {c1, c2}
  MaxUploads = 2
  MaxEdits = 3
  MaxTurns = 2
  NKeys = 1
  Texts = {"a", "b"}
  LongTexts = {}
  Models = {"m1", "m2"}
  KeepsZone = FALSE
  Candidates = {}
  Reviewers = {}
  MaxRuns = 3
  MaxConfigs = 2
  MaxAsks = 0
SYMMETRY PortalSymmetry
INVARIANTS
  EditorSound
  ImportSafe
  AccountsSafe
  PortalSafe
  AnalysisTruthful
PROPERTIES
  UndoTakesOwn
CHECK_DEADLOCK FALSE
