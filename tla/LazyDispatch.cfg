CONSTANTS
  u = u
  v = v
  w = w
  f = f
  none = none
  Accounts <- MCAccounts
  Sized <- MCSized
  MaxU64 = 2
  InitialCounters <- MCCounters
  Instructions <- MCInstructions
  NoIx <- none
SPECIFICATION Spec
INVARIANTS
  LazyInv
  ResolvesOnlyWhatItTouches
PROPERTIES
  ImplementsEager
  BenchCasesPass
