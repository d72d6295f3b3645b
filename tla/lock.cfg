CONSTANTS
  p = p
  q = q
  t1 = t1
  t2 = t2
  t3 = t3
  u1 = u1
  None = None
  Threads = {t1, t2, t3}
  Procs = {p, q}
  Proc <- MCProc
  MaxChannels = 3
  Killable = {p}
  Littered = TRUE
SPECIFICATION LockFairSpec
INVARIANT OneTurn
PROPERTY TurnComes
CHECK_DEADLOCK FALSE
