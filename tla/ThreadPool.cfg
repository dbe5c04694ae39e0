SPECIFICATION FairSpec
CONSTANTS
  w1 = w1  w2 = w2  a1 = a1  a2 = a2  t1 = t1  t2 = t2  t3 = t3
  Worker = {w1, w2}
  Adder = {a1, a2}
  Closer = Closer
  Nobody = Nobody
  Task = {t1, t2, t3}
  NoTask = NoTask
  MAX_THREAD_POOL_TASK = 0
INVARIANTS TypeOK QueueBounded TaskInOnePlace WorkersGoneFirst
PROPERTIES NothingDropped TasksTaken UninitReturns
CHECK_DEADLOCK FALSE
