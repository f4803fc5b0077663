SPECIFICATION Spec
CONSTANTS
  u1 = u1  u2 = u2  usd = usd  btc = btc
  sp1 = sp1  jp1 = jp1  sp2 = sp2  jp2 = jp2
  NoToken = NoToken
  Tokens = {usd, btc}
  Users = {u1, u2}
  DebtTokens = {sp1, jp1}
  SECONDS_PER_YEAR = 2
  MaxPools = 1
  MaxTime = 4
  PoolTerms <- MCTerms
  BareTerms <- MCNone
  LendAmounts = {1, 2}
  PledgeAmounts = {4, 12}
  MaxPledge = 16
  MaxRedeem = 4
  PriceFeeds <- MCPrices
  RouterQuotes <- MCQuotes
  InitialConfigs <- MCConfigs
  AdminCalls = {}
  FeeRates = {}
  MinAmounts = {}
SYMMETRY MCSymmetry
INVARIANTS
  TypeOK
  Solvent
  ClaimsBacked
  PositionsAccounted
  SettlementBounded
  LendersMadeWhole
PROPERTIES
  SettlementFinal
  SettlementCollateralised
CHECK_DEADLOCK FALSE
