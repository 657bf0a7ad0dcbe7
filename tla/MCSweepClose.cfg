SPECIFICATION FairSpec
CONSTANTS
  x1 = x1
  x2 = x2
  NoTx = NoTx
  Outpoints = {1, 2}
  Txids <- MCTxids
  Spends <- MCSpendsFirst
  Creates <- MCCreates
  Commits <- MCCommits
  Bindings = {1, 2}
  Addressable = {}
  MaxBtcHeight = 2
  MaxUnwinds = 0
  Drainers = {}
  Callers = {}
  Sweepers = {"sweep"}
  MaxPerRequest = 2
  QueueBatch = 1
  MaxAttempts = 2
  MaxRequests = 0
  MaxFaults = 0
  SweepBatch = 2
  Grace = 2
  Allowed = 0
  PendingLimit = 2
PROPERTY FindingsClose
