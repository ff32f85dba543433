SPECIFICATION FairSpec
CONSTANTS
  p1 = p1
  p2 = p2
  a = a
  b = b
  c = c
  s1 = s1
  s2 = s2
  w1 = w1
  w2 = w2
  None = None
  Worker = {w1, w2}
  Partition = {p1}
  LogLen <- OneLen
  Pitch = {a, b}
  Session = {s1}
  PitchAt <- OnePitchAt
  SessionOf <- OneSessionOf
  Garbled <- SecondMsg
  Invalid = {}
  HasDLQ = TRUE
  MaxAttempts = 2
  FaultKinds = {"rebalance", "crash", "commit", "shutdown", "db"}
  MaxFaults = 2
  MaxOutages = 1
INVARIANTS
  GarbledIsLettered
  OnlyAbandonedIsUnrecorded
PROPERTIES
  EventuallyRecorded
  ShutdownCompletes
CHECK_DEADLOCK FALSE
