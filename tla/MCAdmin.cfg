SPECIFICATION Spec
CONSTANTS
  u1 = u1  u2 = u2  usd = usd  btc = btc
  sp1 = sp1  jp1 = jp1  sp2 = sp2  jp2 = jp2
  NoToken = NoToken
  Tokens = {usd, btc}
  Users = {u1}
  DebtTokens = {sp1, jp1}
  SECONDS_PER_YEAR = 2
  MaxPools = 1
  MaxTime = 3
  PoolTerms <- MCTerms
  BareTerms <- MCTerms
  LendAmounts = {2}
  PledgeAmounts = {5}
  MaxPledge = 5
  MaxRedeem = 2
  PriceFeeds <- MCParity
  RouterQuotes <- MCPar
  InitialConfigs <- MCConstructed
  AdminCalls <- MCSetters
  FeeRates = {1000}
  MinAmounts = {3}
INVARIANTS
  BooksKept
PROPERTIES
  PauseFreezesBorrowers
CHECK_DEADLOCK FALSE
