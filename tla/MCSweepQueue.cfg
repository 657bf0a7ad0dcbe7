SPECIFICATION Spec
CONSTANTS
  x1 = x1
  x2 = x2
  NoTx = NoTx
  Outpoints = {1, 2}
  Txids <- MCTxids
  Spends <- MCSpendsFirst
  Creates <- MCCreatesSecond
  Commits <- MCCommits
  Bindings = {1}
  Addressable = {1, 2}
  MaxBtcHeight = 1
  MaxUnwinds = 0
  Drainers = {"drain"}
  Callers = {"api"}
  Sweepers = {}
  MaxPerRequest = 1
  QueueBatch = 2
  MaxAttempts = 2
  MaxRequests = 2
  MaxFaults = 1
  SweepBatch = 2
  Grace = 2
  Allowed = 0
  PendingLimit = 2
INVARIANT TypeOK
INVARIANT SpendsReal
PROPERTY OnlyRecordedLeave
