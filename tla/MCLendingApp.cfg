SPECIFICATION Spec
CONSTANTS
  bsc = bsc  testnet = testnet
  undefined = undefined
  Chains = {bsc, testnet}
  MainNet = bsc
  InitialChains = {undefined, bsc}
  Typed = {3}
  maxSupply = 2
  Funds = 2
  LoanPerPledge = 1
  MaxCalls = 2
  MaxSwitches = 1
  Connections <- MCConnections
  MaxRowMoves <- MCRowMoves
  Networks = {bsc, testnet}
  Mainnet = bsc
  Nothing = undefined
  PoolKeys = {1}
  stateOf <- MCstateOf
  MaxMoves = 2
  Nets = {bsc, testnet}
  NoChain = undefined
  RowKeys = {1}
  Staked <- MCStaked
  Coins = {"BTCB", "BUSD"}
  MaxVisits = 3
  MaxLate = 2
  MaxFaucets = 1
INVARIANTS
  StepsFollowApproval
  SpinnersExplained
  PagesShowChain
  OrdersShown
PROPERTIES
  SpinnerStops
  HomeShownChain
  LocksAfterPayment
CHECK_DEADLOCK FALSE
