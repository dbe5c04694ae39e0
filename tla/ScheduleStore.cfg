SPECIFICATION Spec
CONSTANTS
  w1 = w1  w2 = w2
  Writer = {w1, w2}
  MAX_DAY_NUM = 2
  MAX_PLAN_NUM_PER_DAY = 1
  MAX_WND_NUM = 2
  Schedules <- SmallSchedules
INVARIANTS TypeOK ReadsWhatWasWritten WholeDayKept RowsOfOneCall
SYMMETRY WriterSymmetry
