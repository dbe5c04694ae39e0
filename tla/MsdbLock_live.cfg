SPECIFICATION FairSpec
CONSTANTS
  p1 = p1  p2 = p2  p3 = p3
  a = a  b = b  c = c  d = d
  msdb = msdb  tz = tz
  NoProc = NoProc
  Proc = {p1, p2}
  Thread = {a, b, c}
  Path = {msdb}
  ProcOf <- LiveProcOf
  OpenMayFail = FALSE
  LockfMayFail = TRUE
PROPERTIES PreferredEnter NobodyStuck
