SPECIFICATION Spec
CONSTANTS
  t1 = t1
  t2 = t2
  t3 = t3
  c1 = c1
  c2 = c2
  c3 = c3
  c4 = c4
  c5 = c5
  c6 = c6
  c7 = c7
  s1 = s1
  s2 = s2
  s3 = s3
  s4 = s4
  alice = alice
  bob = bob
  b0 = b0
  b1 = b1
  b2 = b2
  NoTx = NoTx
  NoSeal = NoSeal
  NoAsset = NoAsset
  Txs = {t1, t2, t3}
  Pos <- MCPos
  Cells = {c1, c2, c3, c4, c5, c6, c7}
  CreatedBy <- MCCreatedBy
  ConsumedBy <- MCConsumedBy
  Seals = {s1, s2, s3, s4}
  SealOf <- MCSealOf
  OwnerOf <- MCOwnerOf
  Assets = {1, 2, 3}
  AssetOf <- MCAssetOf
  KindOf <- MCKindOf
  Amount <- MCAmount
  Txids = {b0, b1, b2}
  NoTxid = NoTxid
  BoundTo <- MCBoundTo
  VoutOf <- MCVoutOf
  BtcTxidOf <- MCBtcTxidOf
  OutCount <- MCOutCount
  MaxLookup = 2
  MaxTip = 2
  Limits = {0, 3}
  MaxPageSize = 2
  MaxBatch = 3
INVARIANT TypeOK
INVARIANT HistoryComplete
INVARIANT HistoryMatchesBalance
INVARIANT WholeStory
INVARIANT ListingComplete
INVARIANT HoldersBounded
INVARIANT BatchAligned
INVARIANT PollsConsistent
INVARIANT AwaitingExplained
PROPERTY NoRepeat
