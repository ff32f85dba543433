SPECIFICATION Spec
CONSTANTS
  p1 = p1
  p2 = p2
  a = a
  b = b
  c = c
  s1 = s1
  s2 = s2
  w1 = w1
  w2 = w2
  None = None
  Worker = {w1, w2}
  Partition = {p1}
  LogLen <- OneLen
  Pitch = {a, b}
  Session = {s1}
  PitchAt <- OnePitchAt
  SessionOf <- OneSessionOf
  Garbled = {}
  Invalid = {}
  HasDLQ = TRUE
  MaxAttempts = 2
  FaultKinds = {"broker"}
  MaxFaults = 0
  MaxOutages = 1
INVARIANT StoredIsAnnounced
CHECK_DEADLOCK FALSE
