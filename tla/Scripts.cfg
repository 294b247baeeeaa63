CONSTANTS
  Sessions = {b, p}
  BashSessions = {b}
  VALIDATOR_READY_TIMEOUT = 3
  ProbeTimeout = 2
  EarlierBuilds <- MCEarlierBuilds
  Options <- MCOptions
  MaxSessions = 3
  Missing = Missing
  Torn = Torn
SPECIFICATION MCSpec
CHECK_DEADLOCK FALSE
INVARIANTS
  DockerInv
  StoppedOnExit
  ZeroMeansStopped
  AnchorRunsUnderItsId
  ComparisonInv
PROPERTIES
  KeyPairIsKept
  EverySessionEnds
  ReportIsOfItsSession
  ManifestIsDeployed
