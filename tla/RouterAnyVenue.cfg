CONSTANTS
  u = u
  p = p
  q = q
  x = x
  amm = amm
  none = none
  Accounts <- MCAccounts
  AmmOwned <- MCAmmOwned
  AmmId <- amm
  NoIx <- none
  MaxU64 = 4
  InitialLedgers <- VenueLedgers
  Instructions <- VenueInstructions
SPECIFICATION SpecAnyVenue
INVARIANTS
  RouteInv
PROPERTIES
  MinOutHonoured
