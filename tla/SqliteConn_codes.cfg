SPECIFICATION Spec
CONSTANTS
  c1 = c1  c2 = c2  NoClient = NoClient
  Client = {c1, c2}
  SQLITE_OPT_CNT = 3
  MaxRows = 2
  MaxCalls = 1
INVARIANT CodesAsDocumented
CHECK_DEADLOCK FALSE
