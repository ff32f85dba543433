SPECIFICATION Spec
CONSTANTS
  p1 = p1
  p2 = p2
  a = a
  b = b
  c = c
  s1 = s1
  s2 = s2
  w1 = w1
  w2 = w2
  None = None
  Worker = {w1, w2}
  Partition = {p1, p2}
  LogLen <- TwoLen
  Pitch = {a, b, c}
  Session = {s1, s2}
  PitchAt <- TwoPitchAt
  SessionOf <- TwoSessionOf
  Garbled = {}
  Invalid <- FirstOfP2
  HasDLQ = TRUE
  MaxAttempts = 2
  FaultKinds = {"crash", "commit", "db", "redis"}
  MaxFaults = 1
  MaxOutages = 2
INVARIANTS
  AnnouncedOnce
  AnalyzedInOrder
CHECK_DEADLOCK FALSE
