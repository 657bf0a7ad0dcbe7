SPECIFICATION Spec
CONSTANTS
  t1 = t1
  t2 = t2
  t3 = t3
  t4 = t4
  t5 = t5
  a = a
  b = b
  l = l
  m = m
  x1 = x1
  x2 = x2
  x3 = x3
  NoTxid = NoTxid
  Txs <- MCTxs
  Cells <- MCCells
  Inputs <- MCInputs
  Outputs <- MCOutputs
  LockOf <- MCLockOf
  BoundTxid <- MCBoundTxid
  Malformed <- MCMalformed
  Bodies <- MCBodies
  Genesis <- MCNoTxs
  MaxHeight = 4
  MaxForks = 0
  MaxReorgDepth = 1
  IndexerStartsEmpty = FALSE
  Scanners = {1, 2}
  StartBlock = 2
  ReorgLag = 1
  BatchBlocks = 1
  HeaderRetention = 1
  MaxFaults = 0
INVARIANT IInv
