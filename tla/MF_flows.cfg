SPECIFICATION Spec
CONSTANTS
  Node = {2, 3, 4, 5}
  Coordinator = 2
  Parent <- Parents
  Flow = {1, 2}
  SenderOf <- Senders
  ReceiverOf <- Receivers
  ForwardTo <- Routes
  SfSize = 8
  Cell <- Cells
  FirstTx <- FirstSlots
  LastTx <- LastSlots
  SlotModulus = 36
  NumberModulus = 8
  ByteModulus = 256
  QueueSize = 4
  RingSize = 2
  StartAsn = 32
  StartNumber = 6
  LastWindow <- WindowsBefore
  LastFlow <- FlowsBefore
  MaxAsn = 48
  MaxPackets = 2
  MaxVectors = 1
  MaxAdverts = 1
INVARIANTS FlowTypeOK DeliveredInOrder WindowsApart KeptWhileInTime
PROPERTIES SentInWindow FlowNotBlocked
CHECK_DEADLOCK FALSE
