SPECIFICATION FairSpec
CONSTANTS
  x1 = x1
  x2 = x2
  NoTx = NoTx
  Outpoints = {1, 2}
  Txids <- MCWallet
  Spends <- MCWalletSpends
  Creates <- MCWalletCreates
  Commits = {}
  Bindings = {1, 2}
  Addressable = {}
  MaxBtcHeight = 1
  MaxUnwinds = 1
  Drainers = {"drain"}
  Callers = {}
  Sweepers = {"sweep"}
  MaxPerRequest = 1
  QueueBatch = 1
  MaxAttempts = 2
  MaxRequests = 0
  MaxFaults = 1
  SweepBatch = 2
  Grace = 3
  Allowed = 0
  PendingLimit = 2
PROPERTY QueueDrains
PROPERTY EventuallyAccurate
