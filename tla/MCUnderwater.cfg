SPECIFICATION FairSpec
CONSTANTS
  u1 = u1  u2 = u2  usd = usd  btc = btc
  sp1 = sp1  jp1 = jp1  sp2 = sp2  jp2 = jp2
  NoToken = NoToken
  Tokens = {usd, btc}
  Users = {u1}
  DebtTokens = {sp1, jp1}
  SECONDS_PER_YEAR = 2
  MaxPools = 1
  MaxTime = 4
  PoolTerms <- MCTerms
  BareTerms <- MCNone
  LendAmounts = {2}
  PledgeAmounts = {3}
  MaxPledge = 3
  MaxRedeem = 3
  PriceFeeds <- MCParity
  RouterQuotes <- MCFallen
  InitialConfigs <- MCFree
  AdminCalls = {}
  FeeRates = {}
  MinAmounts = {}
PROPERTIES
  EveryLoanCloses
CHECK_DEADLOCK FALSE
