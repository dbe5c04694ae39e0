SPECIFICATION CallSpec
CONSTANTS
  p1 = p1  p2 = p2  a = a  b = b
  NoProc = NoProc
  Proc = {p1}
  Thread = {a, b}
  Path = {"msdb", "tz"}
  ProcOf <- SiblingProcOf
  OpenMayFail = TRUE
  LockfMayFail = TRUE
  Jobs <- AllPairs
PROPERTY SiblingsIsolated
