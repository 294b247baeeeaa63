CONSTANTS
  u = u
  p = p
  q = q
  x = x
  amm = amm
  none = none
  Accounts <- MCAccounts
  AmmOwned <- MCAmmOwned
  AmmId <- amm
  NoIx <- none
  MaxU64 = 9
  InitialLedgers <- RoutesLedgers
  Instructions <- DeclaredUserInstructions
SPECIFICATION Spec
INVARIANTS
  SameAnswer
