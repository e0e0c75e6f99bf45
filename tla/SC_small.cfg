SPECIFICATION Spec
CONSTANTS
  Inputs <- Requests
  NoDeadline = NoDeadline
INVARIANTS ConflictFree RouteInOrder NothingDropped AvailableAreFree ShippedScheduleIsGenerated
CHECK_DEADLOCK FALSE
