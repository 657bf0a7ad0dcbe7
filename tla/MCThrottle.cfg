SPECIFICATION Spec
CONSTANTS
  x1 = x1
  x2 = x2
  x3 = x3
  x4 = x4
  NoAddress = NoAddress
  Groups = {1, 2, 3}
  Vouts <- MCOne
  Outs <- MCOne
  Unlisted = {3}
  Addresses = {1}
  OwnerOf <- MCOwned
  Spenders = {}
  Olders <- MCOlder
  SpentOutput <- MCNoChain
  Touched <- MCNoChain
  Backends = {"esplora", "blockbook"}
  Concurrency = 3
  MaxInFlight = 2
  MinInterval = 2
  PageSize = 1
  MaxAddressPages = 1
  MaxDrops = 0
  MaxFaults = 1
INVARIANT InFlightBounded
PROPERTY StartsSpaced
