SPECIFICATION ServicesSpec
CONSTANTS
  Machines = {"registry"}
  r1 = r1
  r2 = r2
  c1 = c1
  c2 = c2
  c3 = c3
  d1 = d1
  d2 = d2
  w1 = w1
  v1 = v1
  v2 = v2
  stuff = stuff
  m1 = m1
  m2 = m2
  u1 = u1
  a1 = a1
  l1 = l1
  l2 = l2
  p1 = p1
  t1 = t1
  t2 = t2
  t3 = t3
  t4 = t4
  ace = ace
  star = star
  bat = bat
  camera = camera
  o1 = o1
  o2 = o2
  Request = {r1, r2}
  SummaryTTL = 1
  GenerationTTL = 3
  MaxRows = 2
  MaxTime = 3
  MaxMisses = 1
  Absent = Absent
  Caller = {c1, c2, c3}
  FailureThreshold = 2
  OpenDuration = 2
  HalfOpenSuccesses = 2
  CallTimeout = 1
  MaxClock = 7
  Row = {1, 2, 3, 4}
  SortKey = {1, 2}
  Limit = 1
  Version = {v1, v2}
  Variant = {stuff}
  VariantOf <- BothStuff
  Deployer = {d1, d2}
  Scorer = {w1}
  NoVersion = NoVersion
  Nobody = Nobody
  Message = {m1, m2}
  Queue = 2
  FirstLetters <- OneLetterEach
  QueueOf <- HomeQueue
  Selected = {m1, m2}
  MaxReplays = 1
  Limits = {0, 1}
  MaxLetters = 3
  MaxDrains = 2
  MaxUnsent = 1
  Process = {p1}
  Login = {l1, l2}
  Account = {u1}
  Address = {a1}
  AccountLimit = 1
  AddressLimit = 2
  Window = 2
  MaxRefusals = 2
  Tx = {t1, t2, t3, t4}
  Person = {ace, star, bat}
  Device = {camera}
  PitcherOf <- Pitchers
  BatterOf <- Batters
  DeviceOf <- Cameras
  StandOf <- Stands
  MaxRedeliveries = 2
  NoTx = NoTx
  NoRow = NoRow
  Unknown = Unknown
  Unnamed = Unnamed
  OutingValue = {0, 1, 9}
  OutingPitches = {4, 5}
  Observed <- ReadDistances
  WindowSessions = 3
  MinWindowSessions = 2
  MinPitchesPerSession = 5
  TwiceHigh = 6
  TwiceMedium = 5
  SigmaFloor = 2
  MaxOutings = 4
  ReportedAs <- Reports
  NoValue = NoValue
  Outing = {o1, o2}
  Tape <- ShuffledTape
  DateOf <- Dates
  Draws <- Jitter
  Undated = Undated
  MaxRuns = 2
  LastDay = 1
INVARIANTS
  FiledUnderItsModel
CHECK_DEADLOCK FALSE
