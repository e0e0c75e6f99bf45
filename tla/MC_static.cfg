SPECIFICATION FairStaticCollectSpec
CONSTANTS
  Node = {1, 2, 3, 4}
  Coordinator = 1
  Strengths = {0, 1, 2}
  MasterStrength = 3
  InitStrengths <- WeakDirect
  InRange <- Kite
  Lossy = FALSE
  SeqModulus = 8
  HistoryModulus = 8
  QueueSize = 5
  MaxRounds = 2
  DeploymentCount = 4
  MaxSends = 1
  MaxRepeats = 0
  MaxRoute = 8
INVARIANTS LoopFree StrengthIsRealisable RoundReachesAll FindsWidestPath
PROPERTIES NeverWeaker EveryPacketArrives
CHECK_DEADLOCK FALSE
