SPECIFICATION CollectSpec
CONSTANTS
  Node = {1, 2, 3}
  Coordinator = 1
  Strengths = {0, 1}
  MasterStrength = 2
  InitStrengths <- NothingMeasured
  InRange <- DeafRoot
  Lossy = TRUE
  SeqModulus = 8
  HistoryModulus = 8
  QueueSize = 1
  MaxRounds = 1
  DeploymentCount = 3
  MaxSends = 2
  MaxRepeats = 2
  MaxRoute = 4
INVARIANTS CollectTypeOK NeverForwardedNowhere CollectedFromAll ParentHasParent
CHECK_DEADLOCK FALSE
