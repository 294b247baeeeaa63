CONSTANTS
  hopper = hopper
  pinocchio = pinocchio
  quasar = quasar
  mock_amm = mock_amm
  vault = vault
  router = router
  failed = failed
  none = none
  Frameworks <- MCFrameworks
  Baseline <- hopper
  Benches <- MCBenches
  WorkloadsOf <- MCWorkloads
  ComparedOf <- MCCompared
  SupportsOf <- MCSupports
  SharedOf <- MCShared
  BuildsOf <- MCBuilds
  Seeds = 2
  MaxU64 = 20
  MaxRuns = 2
  Failed <- failed
  None <- none
SPECIFICATION Spec
INVARIANTS
  RunnerInv
PROPERTIES
  SuccessIsTheReport
  EveryRunEnds
