--------------------------- MODULE ScheduleStore ---------------------------
(***************************************************************************)
(* The weekly schedules of msdb.c (record, motion, alarm out and the       *)
(* twelve families written like motion).  A schedule is written by a       *)
(* DELETE of the rows of its channel and one INSERT for each item, without *)
(* a transaction and without a look at the results, and read by one SELECT *)
(* that puts every row where its day and plan numbers say.                 *)
(*                                                                         *)
(* One channel is modelled.  Times and actions are reduced to whether an   *)
(* item is written: "void" has start_time = end_time, "quiet" has          *)
(* action_type NONE, "a" is any other item.  The lock of a writer is       *)
(* the section of MsdbLock, taken by write_alarm_out_schedule in the mode  *)
(* that lets its siblings in.                                              *)
(***************************************************************************)
EXTENDS Integers, FiniteSets, Sequences, SequencesExt

CONSTANTS Writer,                \* threads of one process
          MAX_DAY_NUM,
          MAX_PLAN_NUM_PER_DAY,
          MAX_WND_NUM,
          Schedules              \* the schedules that are written, by family

Day  == 0 .. MAX_DAY_NUM - 1
Slot == 0 .. MAX_PLAN_NUM_PER_DAY * MAX_WND_NUM - 1
Item == {"void", "quiet", "a"}

ASSUME ScheduleConstantsOK ==
  /\ MAX_DAY_NUM \in Nat \ {0} /\ MAX_PLAN_NUM_PER_DAY \in Nat \ {0}
  /\ MAX_WND_NUM \in Nat \ {0}
  /\ DOMAIN Schedules \subseteq {"record", "motion", "alarm_out"}
  /\ \A f \in DOMAIN Schedules :
       Schedules[f] \subseteq [Day -> [items : [Slot -> Item], whole : BOOLEAN]]

VARIABLES Family,   \* of the table: "record", "motion" or "alarm_out"
          table,    \* the rows, in the order they were inserted
          pc,       \* of each writer
          todo,     \* rows it has still to insert
          last,     \* the schedule of the call that got to its DELETE last
          intact,   \* has that call run alone, and without a failure?
          dirty     \* did its DELETE fail?

vars == <<Family, table, pc, todo, last, intact, dirty>>

\* No item at all.
Nothing == [d \in Day |-> [items |-> [p \in Slot |-> "void"], whole |-> FALSE]]

\* A row of the table.
Row(w, d, p, x) == [whole |-> w, day |-> d, plan |-> p, item |-> x]

\* The members of a set of numbers in the order of a loop over them.
Ascending(S) ==
  CHOOSE s \in [1 .. Cardinality(S) -> S] : \A i, j \in DOMAIN s : i < j => s[i] < s[j]

-----------------------------------------------------------------------------
(* Mistakes the properties must notice, used by no specification: a row does *)
(* not carry the flag of its day, items without an action are left out of    *)
(* every family.                                                             *)

RowsWithoutFlag(s, d) ==
  LET kept == Ascending({j \in Slot : s[d].items[j] \notin {"void", "quiet"}}) IN
  [i \in DOMAIN kept |-> Row(FALSE, d, i - 1, s[d].items[kept[i]])]

LeavesOutQuiet(x) == x \in {"void", "quiet"}

-----------------------------------------------------------------------------
(* The rows of a schedule. *)

\* write_record_schedule walks the items of all windows and leaves out those
\* without an action, the others walk one window and look at the times only.
Walked == IF Family = "record" THEN Slot ELSE 0 .. MAX_PLAN_NUM_PER_DAY - 1

LeftOut(x) ==
  \/ x = "void"
  \/ Family = "record" /\ x = "quiet"

Kept(s, d) == {j \in Walked : ~LeftOut(s[d].items[j])}

\* A row for each item kept.  For record the plans are numbered anew (t); when
\* exactly MAX_PLAN_NUM_PER_DAY items were left out of a whole day, one more
\* row carries the flag.  The other families have no such flag.
RecordRows(s, d) ==
  LET kept == Ascending(Kept(s, d)) IN
  [i \in DOMAIN kept |->
     Row(s[d].whole, d, i - 1, s[d].items[kept[i]])]
  \o IF s[d].whole /\ Cardinality(Walked) - Len(kept) = MAX_PLAN_NUM_PER_DAY
     THEN <<Row(TRUE, d, 0, "void")>>
     ELSE <<>>

MotionRows(s, d) ==
  LET kept == Ascending(Kept(s, d)) IN
  [i \in DOMAIN kept |->
     Row(FALSE, d, kept[i], s[d].items[kept[i]])]

Rows(s) ==
  FlattenSeq([i \in 1 .. MAX_DAY_NUM |->
                IF Family = "record" THEN RecordRows(s, i - 1) ELSE MotionRows(s, i - 1)])

\* What a reader finds in a table that is not empty (from an empty one it gets
\* -1), in a structure that was cleared: rows are put down in turn, a later one
\* over an earlier one, and no more rows are fetched than the loop allows.
Fetched(t) == {i \in DOMAIN t : i <= MAX_DAY_NUM * Cardinality(Walked) + 1}

LastOf(hits) == CHOOSE i \in hits : \A k \in hits : k <= i

Read(t) ==
  [d \in Day |->
     [items |-> [p \in Slot |->
                   LET hits == {i \in Fetched(t) : t[i].day = d /\ t[i].plan = p}
                   IN IF hits = {} THEN "void" ELSE t[LastOf(hits)].item],
      whole |-> LET hits == {i \in Fetched(t) : t[i].day = d}
                IN hits # {} /\ t[LastOf(hits)].whole]]

-----------------------------------------------------------------------------
Init ==
  /\ Family \in DOMAIN Schedules
  /\ table  = <<>>
  /\ pc     = [w \in Writer |-> "idle"]
  /\ todo   = [w \in Writer |-> <<>>]
  /\ last   = Nothing
  /\ intact = FALSE
  /\ dirty  = FALSE

Alone(w) == \A v \in Writer \ {w} : pc[v] = "idle"

\* The call is in its section; only under 'r' others may be there too.
Enter(w) ==
  /\ pc[w] = "idle"
  /\ Family # "alarm_out" => Alone(w)
  /\ pc'     = [pc EXCEPT ![w] = "delete"]
  /\ intact' = (intact /\ Alone(w))
  /\ UNCHANGED <<table, todo, last, dirty>>

\* The call, which writes s, is past its DELETE.
Started(w, s) ==
  /\ pc[w] = "delete"
  /\ pc'   = [pc EXCEPT ![w] = "insert"]
  /\ todo' = [todo EXCEPT ![w] = Rows(s)]
  /\ last' = s

\* Mistakes: no DELETE at all; a call that returns before its last row.
NoDelete(w, s) ==
  /\ Len(table) <= MAX_DAY_NUM * Cardinality(Slot)
  /\ Started(w, s)
  /\ dirty'  = FALSE
  /\ intact' = Alone(w)
  /\ UNCHANGED table

ReturnEarly(w) ==
  /\ pc[w] = "insert"
  /\ pc' = [pc EXCEPT ![w] = "idle"]
  /\ UNCHANGED <<table, todo, last, intact, dirty>>

Delete(w, s) ==
  /\ Started(w, s)
  /\ table'  = <<>>
  /\ dirty'  = FALSE
  /\ intact' = Alone(w)

\* sqlite_execute returned -1, which nobody looks at.  The bound on the table:
\* a DELETE does not fail before an earlier failure is cleaned up.
DeleteFails(w, s) ==
  /\ ~dirty
  /\ Started(w, s)
  /\ dirty'  = TRUE
  /\ intact' = FALSE
  /\ UNCHANGED table

\* The argument of the call, named when it is first used.
WriteSchedule(w) == \E s \in Schedules[Family] : Delete(w, s) \/ DeleteFails(w, s)

\* reset_record_schedule, delete_motion_schedule: no row follows.
ResetSchedule(w) ==
  /\ Family # "alarm_out"
  /\ Delete(w, Nothing) \/ DeleteFails(w, Nothing)

Insert(w) ==
  /\ pc[w] = "insert" /\ todo[w] # <<>>
  /\ table' = Append(table, Head(todo[w]))
  /\ todo'  = [todo EXCEPT ![w] = Tail(@)]
  /\ UNCHANGED <<pc, last, intact, dirty>>

InsertFails(w) ==
  /\ pc[w] = "insert" /\ todo[w] # <<>>
  /\ todo'   = [todo EXCEPT ![w] = Tail(@)]
  /\ intact' = FALSE
  /\ UNCHANGED <<table, pc, last, dirty>>

Return(w) ==
  /\ pc[w] = "insert" /\ todo[w] = <<>>
  /\ pc' = [pc EXCEPT ![w] = "idle"]
  /\ UNCHANGED <<table, todo, last, intact, dirty>>

\* The process dies between two statements.
Crash ==
  /\ \E w \in Writer : pc[w] # "idle"
  /\ pc'     = [w \in Writer |-> "idle"]
  /\ todo'   = [w \in Writer |-> <<>>]
  /\ intact' = (intact /\ \A w \in Writer : pc[w] # "insert")
  /\ UNCHANGED <<table, last, dirty>>

Next ==
  /\ \/ \E w \in Writer :
          \/ Enter(w)
          \/ WriteSchedule(w) \/ ResetSchedule(w)
          \/ Insert(w) \/ InsertFails(w)
          \/ Return(w)
     \/ Crash
  /\ UNCHANGED Family

Spec == Init /\ [][Next]_vars

-----------------------------------------------------------------------------
(* The properties. *)

\* The variables stay in their sets.
TypeOK ==
  /\ \A i \in DOMAIN table : table[i].day \in Day /\ table[i].plan \in Slot
  /\ pc \in [Writer -> {"idle", "delete", "insert"}]
  /\ \A w \in Writer : todo[w] # <<>> => pc[w] # "idle"
  /\ last \in Schedules[Family] \cup {Nothing}
  /\ intact \in BOOLEAN /\ dirty \in BOOLEAN

Quiet == \A w \in Writer : pc[w] = "idle"

\* The items of a day as the reader should get them: for record moved to the
\* front, otherwise in place.
Wanted(s, d) ==
  {p \in Slot : s[d].items[p] \in IF Family = "record" THEN {"a"} ELSE {"quiet", "a"}}

Meant(s, d) ==
  LET kept == Ascending(Wanted(s, d)) IN
  [p \in Slot |->
     IF Family = "record"
     THEN IF p < Len(kept) THEN s[d].items[kept[p + 1]] ELSE "void"
     ELSE IF p \in Wanted(s, d) THEN s[d].items[p] ELSE "void"]

\* The extra row of a whole day has plan 0: it hides the first item when there
\* are items, because the number left out is compared with the plans of one
\* window and not of all of them (msdb.c:1730).
HidesFirst(s, d) ==
  /\ Family = "record" /\ s[d].whole /\ Kept(s, d) # {}
  /\ Cardinality(Walked) - Cardinality(Kept(s, d)) = MAX_PLAN_NUM_PER_DAY

\* For the same reason a whole day without any item gets no row at all.
LosesWhole(s, d) ==
  /\ Family = "record" /\ s[d].whole /\ Kept(s, d) = {}
  /\ MAX_WND_NUM > 1

\* Only record writes the windows after the first, although every family has
\* room for them.
BeyondFirstWindow(p) == Family # "record" /\ p >= MAX_PLAN_NUM_PER_DAY

(* When the last write ran alone and nothing failed, a reader gets the items
   that were written, whatever crashed or failed or overlapped before; of a
   record schedule it misses the first item of the days of HidesFirst, of the
   others every item beyond the first window (msdb.c:1690-1739, 504-533). *)
ReadsWhatWasWritten ==
  (Quiet /\ intact) =>
    \A d \in Day : \A p \in Slot :
      \/ Read(table)[d].items[p] = Meant(last, d)[p]
      \/ /\ (p = 0 /\ HidesFirst(last, d)) \/ BeyondFirstWindow(p)
         /\ Read(table)[d].items[p] = "void"

(* And it gets the whole-day flag of every day of a record schedule, except
   that of the days of LosesWhole (msdb.c:1711-1735). *)
WholeDayKept ==
  (Quiet /\ intact /\ Family = "record") =>
    \A d \in Day :
      Read(table)[d].whole = (last[d].whole /\ ~LosesWhole(last, d))

(* Under the write lock the rows are those of one schedule: unless its DELETE
   failed, the table holds rows of the last call that got to its DELETE and
   none of an earlier one, also after a crash or a failed INSERT. *)
RowsOfOneCall ==
  (Family # "alarm_out" /\ ~dirty) =>
    /\ ToSet(table) \subseteq ToSet(Rows(last))
    /\ Len(table) = Cardinality(ToSet(table))
=============================================================================
