SPECIFICATION Spec
CONSTANTS
  Node = {1, 2, 3, 4, 5}
  Parents <- Neighbours
  Generated <- Shipped
  Available <- Matrix
  MaxFrame = 2
  ScheduleLength = 40
  DiscoveryLength = 40
  EbPeriod = 11
  MaxLinks = 8
  ByteModulus = 256
  MaxChoices = 2
INVARIANTS PoolMatchesLists BestLinkLeadsToParent DiscoveryKept QueueKept CellsAgree LinkMeetsParent
CHECK_DEADLOCK FALSE
