SPECIFICATION FairStaticSpec
CONSTANTS
  Node = {1, 2, 3}
  Coordinator = 1
  Strengths = {0, 1}
  MasterStrength = 2
  InitStrengths <- SymmetricHeard
  InRange <- Triangle
  Lossy = FALSE
  SeqModulus = 8
  HistoryModulus = 2
  QueueSize = 3
  MaxRounds = 2
PROPERTIES FloodTerminates
CHECK_DEADLOCK FALSE
