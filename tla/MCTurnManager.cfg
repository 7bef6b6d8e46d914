SPECIFICATION FairSpec
CONSTANTS
  s1 = s1
  s2 = s2
  t1 = t1
  t2 = t2
  t3 = t3
  Sessions = {s1, s2}
  Turns = {t1, t2, t3}
  Callers = {c1}
  Target <- MCTarget
  NoTurn = NoTurn
INVARIANTS
  SoleCancellableWork
  EntryHasGuard
  WaitedTurnsLeft
PROPERTIES
  CancellingEndsCancelled
  SessionReleased
CHECK_DEADLOCK FALSE
