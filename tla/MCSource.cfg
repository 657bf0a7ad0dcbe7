SPECIFICATION FairSpec
CONSTANTS
  x1 = x1
  x2 = x2
  x3 = x3
  x4 = x4
  NoAddress = NoAddress
  Groups = {1, 2}
  Vouts <- MCVouts
  Outs <- MCOuts
  Unlisted = {2}
  Addresses = {1}
  OwnerOf <- MCOwnerOf
  Spenders <- MCSpenders
  Olders <- MCOlders
  SpentOutput <- MCSpentOutput
  Touched <- MCTouched
  Backends = {"esplora", "blockbook"}
  Concurrency = 2
  MaxInFlight = 1
  MinInterval = 0
  PageSize = 1
  MaxAddressPages = 3
  MaxDrops = 1
  MaxFaults = 1
INVARIANT TypeOK
INVARIANT NoResurrection
INVARIANT UnknownExplained
PROPERTY AllAnswered
