SPECIFICATION FairSpec
CONSTANTS
  p1 = p1
  None = None
  Page = {p1}
  Dials = 1
  Conn <- Conns
  Index <- Indices
  SendBuffer = 2
  BroadcastBuffer = 1
  SlotLimit = 1
  DropThreshold = 1
  SocketBuffer = 1
  ReadLimit = 1
  FeedLimit = 2
  MaxPitches = 1
  MaxEvents = 2
  FaultKinds = {"shutdown", "pong", "network", "handshake", "expiry"}
  MaxFaults = 2
INVARIANTS
  QueueClosedOnce
PROPERTIES
  AlarmEndsConnection
  ShutdownEndsEveryone
CHECK_DEADLOCK FALSE
