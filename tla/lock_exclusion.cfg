CONSTANTS
  p = p
  q = q
  t1 = t1
  t2 = t2
  t3 = t3
  u1 = u1
  None = None
  Threads = {t1, u1}
  Procs = {p, q}
  Proc <- MCProc
  MaxChannels = 1
  Killable = {}
  Littered = FALSE
SPECIFICATION LockSpec
INVARIANTS MutualExclusion
