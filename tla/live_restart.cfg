SPECIFICATION ProgressSpec
CONSTANTS
  Machines = {"outing"}
  ff = ff
  p1 = p1
  p2 = p2
  s1 = s1
  w1 = w1
  w2 = w2
  q1 = q1
  q2 = q2
  Gone = Gone
  Proc = {p1, p2}
  Session = {s1}
  PitchType = {ff}
  Metrics = 2
  TypeOf <- TwoFastballs
  Departs <- Departures
  MinPitches = 1
  MaxPitches = 2
  WriteAttempts = 2
  MishapKinds = {}
  MaxMishaps = 0
  None = None
  Worker = {w1, w2}
  Partition = {q1, q2}
  LogLen <- SmallLen
  Garbled <- FirstOfTwo
  HasDLQ = TRUE
  MaxAttempts = 2
  FaultKinds = {"rebalance", "crash", "commit", "shutdown", "dlq"}
  MaxFaults = 2
INVARIANTS
  LiveIsWhole
CHECK_DEADLOCK FALSE
