CONSTANTS
  v = v
  w = w
  x = x
  None = None
  Keys <- MCKeys
  MaxU64 = 3
  Deployed <- Source
  InitialBanks <- MCBanks
  ClientInstructions <- MCInstructions
  VAULT_ADDRESS = v
  PROC_VAULT_ADDRESS = w
  BENCH_VAULT_LEN = 5
  PROC_VAULT_LEN = 3
  Artifacts <- MCArtifacts
  Rebuilt <- MCRebuilt
  Budget = 20
  LogCost = 1
  MaxRuns = 2
SPECIFICATION MCSpec
INVARIANTS
  BenchInv
PROPERTIES
  ReportIsTheProgram
  SoundProgramIsReported
  WritesOnlyItsOwn
  BalancesOnlyGrow
