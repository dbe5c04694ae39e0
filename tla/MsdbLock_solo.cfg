SPECIFICATION Spec
CONSTANTS
  p1 = p1  p2 = p2  p3 = p3
  a = a  b = b  c = c  d = d
  msdb = msdb  tz = tz
  NoProc = NoProc
  Proc = {p1, p2, p3}
  Thread = {a, b, c}
  Path = {msdb, tz}
  ProcOf <- SoloProcOf
  OpenMayFail = FALSE
  LockfMayFail = FALSE
INVARIANT CrossExclusion
PROPERTY SectionLockSpec
