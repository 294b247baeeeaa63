CONSTANTS
  u = u
  p = p
  q = q
  x = x
  amm = amm
  none = none
  Accounts <- MCAccounts
  AmmOwned <- MCAmmOwned
  AmmId <- amm
  NoIx <- none
  MaxU64 = 19
  InitialLedgers <- RoutesLedgers
  Instructions <- RoutesInstructions
SPECIFICATION Spec
INVARIANTS
  MeasureNeverWraps
PROPERTIES
  ForeignFundsSafe
  FundedRouteSucceeds
  ImplementsAtomicRoute
