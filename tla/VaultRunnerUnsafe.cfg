CONSTANTS
  hopper = hopper
  pinocchio = pinocchio
  quasar = quasar
  mock_amm = mock_amm
  vault = vault
  router = router
  failed = failed
  none = none
  Frameworks <- MCFrameworks
  Baseline <- hopper
  Benches <- JustVault
  WorkloadsOf <- MCWorkloads
  ComparedOf <- MCCompared
  SupportsOf <- MCSupports
  SharedOf <- MCShared
  BuildsOf <- MCBuilds
  Seeds = 2
  MaxU64 = 20
  MaxRuns = 1
  Failed <- failed
  None <- none
SPECIFICATION Spec
INVARIANTS
  UnsafeRowsHaveNoDelta
