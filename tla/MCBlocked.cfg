SPECIFICATION Spec
CONSTANTS
  Tokens = {"WBNB", "CAKE"}
  ETHER = "BNB"
  WETH = "WBNB"
  none = none
  Amounts = {3}
  Rates = {1, 2}
  severityOf <- MCseverityOf
  Slippage = 1
  Balance = 5
  Url <- MCUrl
  MaxSwapMoves = 3
  MaxSwaps = 2
  Typable = {1}
  Prices = {0, 1}
  Holds = 2
  MaxAddMoves = 1
  MaxSupplies = 1
  LpPairs = {1, 2}
  Percents = {50}
  LpTyped = {1}
  LpBalances = {2, 4}
  Worths <- MCWorths
  MaxRemoveMoves = 1
  MaxSignatures = 1
  MaxRemovals = 1
  DexChains = {1, 2}
  DexTokens = {1, 2, 12, 13}
  chainOfToken <- MCchainOfToken
  wethOf <- MCwethOf
  trackedBases <- MCtrackedBases
  PINNED_PAIRS <- MCPinned
  Listed = {1, 2, 12}
  Deployed <- MCDeployed
  coin = coin
  noCurrency = noCurrency
  MaxDexMoves = 1
  SearchChains = {1, 2}
  Addresses = {"0xcake", "0xfake"}
  TokensOn <- MCTokensOn
  Releases <- MCReleases
  nothing = nothing
  undefined = undefined
  null = null
  native = native
  MaxSearchMoves = 1
  NotANumber = NotANumber
  BIP = 8
  Tolerances <- MCTolerances
  timesHundred <- MCtimesHundred
  overHundred <- MCoverHundred
  TypedMinutes = {5}
  INITIAL_ALLOWED_SLIPPAGE = 80
  DEFAULT_DEADLINE_FROM_NOW = 1200
  MAX_SLIPPAGE = 5000
  RISKY_SLIPPAGE_LOW = 50
  RISKY_SLIPPAGE_HIGH = 500
INVARIANTS
  BlockedForNonExperts
CHECK_DEADLOCK FALSE
