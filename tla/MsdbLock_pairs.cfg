SPECIFICATION Spec
CONSTANTS
  p1 = p1  p2 = p2  p3 = p3
  a = a  b = b  c = c  d = d
  msdb = msdb  tz = tz
  NoProc = NoProc
  Proc = {p1, p2}
  Thread = {a, b, c, d}
  Path = {msdb, tz}
  ProcOf <- PairProcOf
  OpenMayFail = TRUE
  LockfMayFail = TRUE
INVARIANTS TypeOK SiblingExclusion NoLockLeak
PROPERTY LostOnlyToSibling
SYMMETRY PairSymmetry
