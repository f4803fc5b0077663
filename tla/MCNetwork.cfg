SPECIFICATION Spec
CONSTANTS
  ChainIds = {1, 2}
  CallKeys = {1, 2}
  Subscriptions = {"balance", "symbol"}
  keyOf <- MCkeyOf
  blocksPerFetch <- MCblocksPerFetch
  Infinity = 100
  ChunkSize = 1
  MaxBlock <- MCMaxBlock
  MaxFetches = 3
  MaxMoves = 3
  TxChains = {1, 2}
  Hashes = {"tx1"}
  chainOf <- MCchainOf
  Interval <- MCInterval
  MaxTip <- MCMaxTip
  LastMined = 2
  MaxEvents = 2
  null = null
  ListUrls = {"97", "56"}
  DefaultList = "97"
  majorOf <- MCmajorOf
  Breaking = {3}
  MaxListRequests = 2
  MaxListMoves = 4
  PoolRuns = {1, 2}
  Scheduled = 1
  none = none
  stamped = stamped
  MaxMirrorMoves = 1
  MaxPoolFaults = 1
  contractSymbol = "S"
  symbolOfList = "S"
  logoOfList = "L"
  absent = absent
  PriceRuns = {"price", "later price"}
  ScheduledPrice = "price"
  MaxAlongside = 2
  MaxPrices = 2
  MaxTokenFaults = 1
INVARIANTS
  PopupsOfFinal
  UpdatesAreNewer
PROPERTIES
  ResultsAdvance
  Refreshed
  BlockNumberFollowsChain
  MinedFinalized
  PoolsMirrored
  PricesMirrored
CHECK_DEADLOCK FALSE
