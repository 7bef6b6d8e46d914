SPECIFICATION Spec
CONSTANTS
  p = p
  q = q
  t1 = t1
  t2 = t2
  t3 = t3
  u = u
  v = v
  g = g
  d = d
  c = c
  Procs = {p, q}
  Tasks = {t1, t2, t3, u, v, g, d, c}
  Home <- MCHome
  Kind <- MCKind
  Workloads <- MCWorkloads
  Faults = {"write", "remove", "read"}
  StartTimes = TRUE
  NoTask = NoTask
  NoEntry = NoEntry
  NoSession = NoSession
  NoBusy = NoBusy
  MaxCrashes <- MCCrashes
INVARIANTS
  SoleOwner
  CommitsKept
  DeletedStaysDeleted
  TurnsCommit
  SentinelNotLeaked
CHECK_DEADLOCK FALSE
