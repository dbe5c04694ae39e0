SPECIFICATION CallSpec
CONSTANTS
  p1 = p1  p2 = p2  a = a  b = b
  NoProc = NoProc
  Proc = {p1, p2}
  Thread = {a, b}
  Path = {"msdb", "tz"}
  ProcOf <- SoloProcOf
  OpenMayFail = TRUE
  LockfMayFail = FALSE
  Jobs <- AllPairs
INVARIANTS CallTypeOK ErrorsChangeNothing OkCounts ConnectionsClosed
PROPERTY CallsIsolated
