SPECIFICATION Spec
CONSTANTS
  p1 = p1
  None = None
  Page = {p1}
  Dials = 2
  Conn <- Conns
  Index <- Indices
  SendBuffer = 2
  BroadcastBuffer = 1
  SlotLimit = 1
  DropThreshold = 1
  SocketBuffer = 1
  ReadLimit = 1
  FeedLimit = 2
  MaxPitches = 1
  MaxEvents = 2
  FaultKinds = {"redelivery", "leave", "read", "refocus"}
  MaxFaults = 1
INVARIANTS
  TypeOK
  SlotsAreExact
  GapsAreReconciled
CHECK_DEADLOCK FALSE
