SPECIFICATION FairSpec
CONSTANTS
  good = good
  other = other
  b2 = b2
  b3 = b3
  NoTxid = NoTxid
  NoCommitment = NoCommitment
  Transitions = {1, 2, 3, 4}
  BlockOf <- MCBlockOf
  TxidOf <- MCTxidOf
  Issuances = {2}
  Expected <- MCExpected
  Txids = {1, 2, 3}
  Payloads <- MCPayloads
  Bindings = {b2, b3}
  FundedBy <- MCFundedBy
  BoundBy <- MCBoundBy
  Addressed = {b2, b3}
  Early = {2}
  Hidden = {3}
  Broken = {3}
  MaxFaults = 1
  VerifyBatch = 2
  BackfillBatch = 1
  Flags = {"reconcile", "address_backfill", "commitments"}
INVARIANT TypeOK
INVARIANT LossesBounded
PROPERTY ImplementsVerdicts
PROPERTY DrainBounded
PROPERTY ShutdownCompletes
PROPERTY EveryTransitionChecked
PROPERTY EveryBindingLabelled
