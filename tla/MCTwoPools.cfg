SPECIFICATION FairSpec
CONSTANTS
  u1 = u1  u2 = u2  usd = usd  btc = btc
  sp1 = sp1  jp1 = jp1  sp2 = sp2  jp2 = jp2
  NoToken = NoToken
  Tokens = {usd, btc}
  Users = {u1}
  DebtTokens = {sp1, jp1, sp2, jp2}
  SECONDS_PER_YEAR = 2
  MaxPools = 2
  MaxTime = 4
  PoolTerms <- MCTwoPools
  BareTerms <- MCNone
  LendAmounts = {2}
  PledgeAmounts = {2, 4}
  MaxPledge = 4
  MaxRedeem = 3
  PriceFeeds <- MCParity
  RouterQuotes <- MCPar
  InitialConfigs <- MCFree
  AdminCalls = {}
  FeeRates = {}
  MinAmounts = {}
INVARIANTS
  Solvent
PROPERTIES
  EverythingPaidOut
CHECK_DEADLOCK FALSE
