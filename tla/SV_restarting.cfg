SPECIFICATION Spec
CONSTANTS
  Neighbour = {1, 3, 4}
  OwnId = 2
  SeqModulus = 16
  MaxBeacons = 6
  MaxRestarts = 2
INVARIANTS IsReceptionRatio SharesAreComparable
CHECK_DEADLOCK FALSE
