CONSTANTS
  alice = alice
  bob = bob
  carol = carol
  va = va
  vb = vb
  vc = vc
  sys = sys
  none = none
  Accounts <- MCAccounts
  MaxU64 = 3
  Users <- MCUsers
  Pda <- MCPda
  Owned <- MCOwned
  Sized <- MCOwned
  SystemId <- sys
  InitialStates <- MCInitialStates
  Instructions <- VaultInstructions
  NoIx <- none
SPECIFICATION ParitySpec
INVARIANTS
  ParityInv
  SavingsArePaidOut
PROPERTIES
  ImplementsVaultBook
  AnswerTells
  BenchCasesPass
  AgreeUnlessNothingIsWithdrawn
