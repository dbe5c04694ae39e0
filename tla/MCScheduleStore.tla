--------------------------- MODULE MCScheduleStore ---------------------------
EXTENDS ScheduleStore, TLC

CONSTANTS w1, w2

WriterSymmetry == Permutations(Writer)

SchedulesOf(items, flags) == [Day -> [items : [Slot -> items], whole : flags]]

\* Of a record schedule day 0 is any day of three kinds of items; the others
\* are empty, with or without the flag, or full.  Overlapping writers of
\* alarm_out have fewer kinds.
SmallSchedules ==
  "record" :> {s \in SchedulesOf({"void", "quiet", "a"}, BOOLEAN) :
                 \A d \in Day \ {0} :
                   \/ \A p \in Slot : s[d].items[p] = "void"
                   \/ ~s[d].whole /\ \A p \in Slot : s[d].items[p] = "a"}
  @@ "motion"    :> SchedulesOf({"void", "quiet", "a"}, {FALSE})
  @@ "alarm_out" :> SchedulesOf({"void", "a"}, {FALSE})
=============================================================================
