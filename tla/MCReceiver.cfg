SPECIFICATION ReceiverSpec
CONSTANTS
  i1 = i1
  i2 = i2
  None = None
  Idents = {i1, i2}
  Bundles <- MCBundles
  MaxGenerations = 2
  Capacity = 5
  HistoryLimit = 3
  MaxFaults = 2
  Nonces = {n1, n2, n3}
  Window = 1
  Retention = 3
  MaxNonces = 2
  MaxTime = 6
  MaxSetback = 2
  Empty = Empty
  NoRequest = NoRequest
  Uploads <- MCUploads
  Total = 2
  TTL = 1
  NoUpload = NoUpload
  SweepMayDie = TRUE
  MaxLosses = 2
INVARIANTS
  StoreSafe
  NoReplay
  ReceiptBacked
  StagedUntilTaken
PROPERTIES
  ImplementsAcceptedGenerations
CHECK_DEADLOCK FALSE
