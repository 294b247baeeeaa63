CONSTANTS
  u = u
  p = p
  q = q
  x = x
  amm = amm
  none = none
  Accounts <- MCAccounts
  AmmOwned <- MCAmmOwned
  AmmId <- amm
  NoIx <- none
  MaxU64 = 7
  InitialLedgers <- EdgeLedgers
  Instructions <- EdgeInstructions
  Swaps <- MCSwaps
SPECIFICATION MarketSpec
INVARIANTS
  TypeOK
PROPERTIES
  SettlesExactly
  MatchesExpectedHops
  EveryRouteReturns
