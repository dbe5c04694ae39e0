--------------------------- MODULE MsdbCall_proofs ---------------------------
(***************************************************************************)
(* The calls of msdb.c for every set of processes and threads, and every   *)
(* assignment of calls of the catalogue to them.                           *)
(***************************************************************************)
EXTENDS MsdbCallProps, MsdbLock_proofs

-----------------------------------------------------------------------------
(* What the calls of MsdbCatalog have in common, by the way they are built;  *)
(* one call is named where the properties of MsdbCallProps name it.          *)

\* The fields of a call.
Fielded(c) ==
  /\ c.lock \in {"r", "w"} /\ c.file \in {"msdb", "tz"} /\ c.tested \in BOOLEAN
  /\ c.failed \in {"return", "next", "retry", "default", "stop"}
  /\ c.count \in {"never", "success", "both", "always"}
  /\ c.closes \subseteq {"open", "failed"}
Shaped(c) ==
  /\ Fielded(c) /\ Len(c.stmts) \in Nat \ {0} /\ DOMAIN c.stmts = 1 .. Len(c.stmts)
  /\ \A i \in DOMAIN c.stmts : c.stmts[i].op \in {"sel", "chg"}

At(c) == 1 .. Len(c.stmts)

\* A call that reports a failed statement has changed nothing before it.
ReportsFirst(c) ==
  /\ c.failed = "return" =>
       \A i, j \in At(c) : i < j => c.stmts[i].op # "chg"
  /\ c.failed = "retry" =>
       \A i, j \in At(c) : c.stmts[i].op = "chg" => c.stmts[j].op = "chg"

\* A call that fills an array gives up at the first statement that fails.
CountsOrFails(c) ==
  c.count # "never" => c.failed = "return" \/ c.name = "read_alarm_pids"

\* Connections are closed, with one exception; three readers close the handle of
\* a failed sqlite3_open too.
Disconnects(c) ==
  /\ "open" \in c.closes \/ c.name = "insert_disk"
  /\ c.name \in BreakToDisconn => "failed" \in c.closes

\* Changes are made under 'w', with one exception, and nobody looks twice at
\* the table of the exception under 'r'.
Exception(c) == c.name = "write_alarm_out_schedule"
LocksToChange(c) ==
  /\ c.lock = "r" /\ ~Exception(c) =>
       \A i \in At(c) :
         /\ c.stmts[i].op = "sel"
         /\ c.stmts[i].table = "alarm_out_schedule" => Len(c.stmts) = 1
  /\ Exception(c) => \A i \in At(c) : c.stmts[i].table = "alarm_out_schedule"

\* The tables under the second lock file are no others'.
FileOfTable(c) == \A i \in At(c) : c.file = "tz" <=> c.stmts[i].table = "zonemap"

WellMade(c) ==
  /\ Shaped(c) /\ ReportsFirst(c) /\ CountsOrFails(c) /\ Disconnects(c)
  /\ LocksToChange(c) /\ FileOfTable(c)

\* The calls that the properties do not name.
Plain(n) == n # "write_alarm_out_schedule" /\ n \notin BreakToDisconn

-----------------------------------------------------------------------------
(* Calls of one statement and of two *)

LEMMA Statement ==
  ASSUME NEW T
  PROVE  /\ Sel(T).op = "sel" /\ Sel(T).table = T
         /\ Chg(T).op = "chg" /\ Chg(T).table = T
  BY DEF Sel, Chg

LEMMA OneStmt ==
  ASSUME NEW x
  PROVE  DOMAIN <<x>> = 1 .. 1 /\ Len(<<x>>) = 1 /\ <<x>>[1] = x
  OBVIOUS

LEMMA TwoStmts ==
  ASSUME NEW x, NEW y
  PROVE  DOMAIN <<x, y>> = 1 .. 2 /\ Len(<<x, y>>) = 2 /\ <<x, y>>[1] = x /\ <<x, y>>[2] = y
  OBVIOUS

LEMMA ThreeStmts ==
  ASSUME NEW x, NEW y, NEW z
  PROVE  /\ DOMAIN <<x, y, z>> = 1 .. 3 /\ Len(<<x, y, z>>) = 3
         /\ <<x, y, z>>[1] = x /\ <<x, y, z>>[2] = y /\ <<x, y, z>>[3] = z
  OBVIOUS

LEMMA FourStmts ==
  ASSUME NEW x, NEW y, NEW z, NEW w
  PROVE  /\ DOMAIN <<x, y, z, w>> = 1 .. 4 /\ Len(<<x, y, z, w>>) = 4
         /\ <<x, y, z, w>>[1] = x /\ <<x, y, z, w>>[2] = y
         /\ <<x, y, z, w>>[3] = z /\ <<x, y, z, w>>[4] = w
  OBVIOUS

LEMMA OneMade ==
  ASSUME NEW c, NEW x, x.op \in {"sel", "chg"}, Fielded(c), c.stmts = <<x>>,
         CountsOrFails(c), Disconnects(c), ~Exception(c),
         c.lock = "r" => x.op = "sel", c.file = "tz" <=> x.table = "zonemap"
  PROVE  WellMade(c)
<1>1. DOMAIN c.stmts = 1 .. Len(c.stmts) /\ Len(c.stmts) = 1 /\ c.stmts[1] = x
  BY OneStmt
<1>2. At(c) = {1}
  BY <1>1 DEF At
<1>3. Shaped(c)
  BY <1>1 DEF Shaped
<1>4. ReportsFirst(c)
  BY <1>2 DEF ReportsFirst
<1>5. LocksToChange(c)
  BY <1>1, <1>2 DEF LocksToChange
<1>6. FileOfTable(c)
  BY <1>1, <1>2 DEF FileOfTable
<1> QED
  BY <1>3, <1>4, <1>5, <1>6 DEF WellMade

LEMMA TwoMade ==
  ASSUME NEW c, NEW x, NEW y, Fielded(c), c.stmts = <<x, y>>,
         x.op \in {"sel", "chg"}, y.op \in {"sel", "chg"},
         CountsOrFails(c), Disconnects(c), ~Exception(c), c.file = "msdb",
         c.failed = "return" => x.op # "chg", c.failed = "retry" => x.op = y.op,
         c.lock = "r" => /\ x.op = "sel" /\ x.table # "alarm_out_schedule"
                         /\ y.op = "sel" /\ y.table # "alarm_out_schedule",
         x.table # "zonemap", y.table # "zonemap"
  PROVE  WellMade(c)
<1>1. /\ DOMAIN c.stmts = 1 .. Len(c.stmts) /\ Len(c.stmts) = 2
      /\ c.stmts[1] = x /\ c.stmts[2] = y
  BY TwoStmts
<1>2. At(c) = {1, 2}
  BY <1>1 DEF At
<1>3. Shaped(c)
  BY <1>1 DEF Shaped
<1>4. ReportsFirst(c)
  BY <1>1, <1>2 DEF ReportsFirst
<1>5. LocksToChange(c)
  BY <1>1, <1>2 DEF LocksToChange
<1>6. FileOfTable(c)
  BY <1>1, <1>2 DEF FileOfTable
<1> QED
  BY <1>3, <1>4, <1>5, <1>6 DEF WellMade

\* Updates and inserts without a look at their results.
LEMMA ChangesMade ==
  ASSUME NEW c, Shaped(c), c.failed = "next", c.count = "never",
         c.closes = {"open"}, c.name \notin BreakToDisconn, ~Exception(c),
         c.lock = "w", c.file = "msdb",
         \A i \in At(c) : c.stmts[i].table # "zonemap"
  PROVE  WellMade(c)
  BY DEF WellMade, ReportsFirst, CountsOrFails, Disconnects, LocksToChange, FileOfTable

-----------------------------------------------------------------------------
(* The ways calls are built *)

LEMMA GetMade ==
  ASSUME NEW n, Plain(n), NEW T, T # "zonemap"
  PROVE  WellMade(Get(n, T))
<1> DEFINE c == Get(n, T)
<1>1. /\ c.name = n /\ c.lock = "r" /\ c.file = "msdb" /\ c.count = "never"
      /\ c.tested \in BOOLEAN /\ c.closes = {"open"}
      /\ c.stmts = <<Sel(T)>>
      /\ c.failed = IF <<Sel(T)>>[1].op = "sel" THEN "return" ELSE "next"
  BY DEF Get, Call
<1> HIDE DEF c
<1>2. Sel(T).op = "sel" /\ Sel(T).table = T /\ <<Sel(T)>>[1] = Sel(T)
  BY Statement, OneStmt
<1>3. c.failed = "return"
  BY <1>1, <1>2
<1>4. Fielded(c) /\ CountsOrFails(c) /\ Disconnects(c) /\ ~Exception(c)
  BY <1>1, <1>3 DEF Fielded, CountsOrFails, Disconnects, Exception, Plain
<1>5. WellMade(c)
  BY <1>1, <1>2, <1>3, <1>4, OneMade
<1> QED
  BY <1>5 DEF c

LEMMA ListMade ==
  ASSUME NEW n, Plain(n), NEW T, T # "zonemap"
  PROVE  WellMade(List(n, T))
<1> DEFINE c == List(n, T)
<1>1. /\ c.name = n /\ c.lock = "r" /\ c.file = "msdb" /\ c.count = "both"
      /\ c.tested \in BOOLEAN /\ c.closes = {"open"}
      /\ c.stmts = <<Sel(T)>>
      /\ c.failed = IF <<Sel(T)>>[1].op = "sel" THEN "return" ELSE "next"
  BY DEF List, Get, Call
<1> HIDE DEF c
<1>2. Sel(T).op = "sel" /\ Sel(T).table = T /\ <<Sel(T)>>[1] = Sel(T)
  BY Statement, OneStmt
<1>3. c.failed = "return"
  BY <1>1, <1>2
<1>4. Fielded(c) /\ CountsOrFails(c) /\ Disconnects(c) /\ ~Exception(c)
  BY <1>1, <1>3 DEF Fielded, CountsOrFails, Disconnects, Exception, Plain
<1>5. WellMade(c)
  BY <1>1, <1>2, <1>3, <1>4, OneMade
<1> QED
  BY <1>5 DEF c

LEMMA PutMade ==
  ASSUME NEW n, Plain(n), NEW T, T # "zonemap"
  PROVE  WellMade(Put(n, T))
<1> DEFINE c == Put(n, T)
<1>1. /\ c.name = n /\ c.lock = "w" /\ c.file = "msdb" /\ c.count = "never"
      /\ c.tested \in BOOLEAN /\ c.closes = {"open"}
      /\ c.stmts = <<Chg(T)>>
      /\ c.failed = IF <<Chg(T)>>[1].op = "sel" THEN "return" ELSE "next"
  BY DEF Put, Call
<1> HIDE DEF c
<1>2. Chg(T).op = "chg" /\ Chg(T).table = T /\ <<Chg(T)>>[1] = Chg(T)
  BY Statement, OneStmt
<1>3. c.failed = "next"
  BY <1>1, <1>2
<1>4. Fielded(c) /\ CountsOrFails(c) /\ Disconnects(c) /\ ~Exception(c)
  BY <1>1, <1>3 DEF Fielded, CountsOrFails, Disconnects, Exception, Plain
<1>5. WellMade(c)
  BY <1>1, <1>2, <1>3, <1>4, OneMade
<1> QED
  BY <1>5 DEF c

LEMMA RewriteMade ==
  ASSUME NEW n, Plain(n), NEW T, T # "zonemap"
  PROVE  WellMade(Rewrite(n, T))
<1> DEFINE c == Rewrite(n, T)
<1>1. /\ c.name = n /\ c.lock = "w" /\ c.file = "msdb" /\ c.count = "never"
      /\ c.tested \in BOOLEAN /\ c.closes = {"open"}
      /\ c.stmts = <<Chg(T), Chg(T)>>
      /\ c.failed = IF <<Chg(T), Chg(T)>>[1].op = "sel" THEN "return" ELSE "next"
  BY DEF Rewrite, Call
<1> HIDE DEF c
<1>2. Chg(T).op = "chg" /\ Chg(T).table = T /\ <<Chg(T), Chg(T)>>[1] = Chg(T)
  BY Statement, TwoStmts
<1>3. c.failed = "next"
  BY <1>1, <1>2
<1>4. Fielded(c) /\ CountsOrFails(c) /\ Disconnects(c) /\ ~Exception(c)
  BY <1>1, <1>3 DEF Fielded, CountsOrFails, Disconnects, Exception, Plain
<1>5. WellMade(c)
  BY <1>1, <1>2, <1>3, <1>4, TwoMade
<1> QED
  BY <1>5 DEF c

LEMMA SkipGetMade ==
  ASSUME NEW n, Plain(n), NEW T, T # "zonemap",
         T # "alarm_out_schedule"
  PROVE  WellMade(SkipGet(n, T))
<1> DEFINE c == SkipGet(n, T)
<1>1. /\ c.name = n /\ c.lock = "r" /\ c.file = "msdb" /\ c.count = "never"
      /\ c.tested \in BOOLEAN /\ c.closes = {"open"}
      /\ c.stmts = <<Sel(T), Sel(T)>>
      /\ c.failed = "next"
  BY DEF SkipGet, Call
<1> HIDE DEF c
<1>2. Sel(T).op = "sel" /\ Sel(T).table = T /\ <<Sel(T), Sel(T)>>[1] = Sel(T)
  BY Statement, TwoStmts
<1>3. c.failed = "next"
  BY <1>1, <1>2
<1>4. Fielded(c) /\ CountsOrFails(c) /\ Disconnects(c) /\ ~Exception(c)
  BY <1>1, <1>3 DEF Fielded, CountsOrFails, Disconnects, Exception, Plain
<1>5. WellMade(c)
  BY <1>1, <1>2, <1>3, <1>4, TwoMade
<1> QED
  BY <1>5 DEF c

LEMMA CountGetMade ==
  ASSUME NEW n, Plain(n), NEW T, T # "zonemap",
         T # "alarm_out_schedule"
  PROVE  WellMade(CountGet(n, T))
<1> DEFINE c == CountGet(n, T)
<1>1. /\ c.name = n /\ c.lock = "r" /\ c.file = "msdb" /\ c.count = "success"
      /\ c.tested \in BOOLEAN /\ c.closes = {"open"}
      /\ c.stmts = <<Sel(T), Sel(T)>>
      /\ c.failed = IF <<Sel(T), Sel(T)>>[1].op = "sel" THEN "return" ELSE "next"
  BY DEF CountGet, Call
<1> HIDE DEF c
<1>2. Sel(T).op = "sel" /\ Sel(T).table = T /\ <<Sel(T), Sel(T)>>[1] = Sel(T)
  BY Statement, TwoStmts
<1>3. c.failed = "return"
  BY <1>1, <1>2
<1>4. Fielded(c) /\ CountsOrFails(c) /\ Disconnects(c) /\ ~Exception(c)
  BY <1>1, <1>3 DEF Fielded, CountsOrFails, Disconnects, Exception, Plain
<1>5. WellMade(c)
  BY <1>1, <1>2, <1>3, <1>4, TwoMade
<1> QED
  BY <1>5 DEF c

LEMMA TestedGetMade ==
  ASSUME NEW n, Plain(n), NEW T, T # "zonemap"
  PROVE  WellMade(Tested(Get(n, T)))
<1> DEFINE c == Tested(Get(n, T))
<1>1. /\ c.name = n /\ c.lock = "r" /\ c.file = "msdb" /\ c.count = "never"
      /\ c.tested \in BOOLEAN /\ c.closes = {"open"}
      /\ c.stmts = <<Sel(T)>>
      /\ c.failed = IF <<Sel(T)>>[1].op = "sel" THEN "return" ELSE "next"
  BY DEF Tested, Get, Call
<1> HIDE DEF c
<1>2. Sel(T).op = "sel" /\ Sel(T).table = T /\ <<Sel(T)>>[1] = Sel(T)
  BY Statement, OneStmt
<1>3. c.failed = "return"
  BY <1>1, <1>2
<1>4. Fielded(c) /\ CountsOrFails(c) /\ Disconnects(c) /\ ~Exception(c)
  BY <1>1, <1>3 DEF Fielded, CountsOrFails, Disconnects, Exception, Plain
<1>5. WellMade(c)
  BY <1>1, <1>2, <1>3, <1>4, OneMade
<1> QED
  BY <1>5 DEF c

LEMMA FreesCountMade ==
  ASSUME NEW n, n # "write_alarm_out_schedule", NEW T, T # "zonemap",
         T # "alarm_out_schedule"
  PROVE  WellMade(Frees(Tested(CountGet(n, T))))
<1> DEFINE c == Frees(Tested(CountGet(n, T)))
<1>1. /\ c.name = n /\ c.lock = "r" /\ c.file = "msdb" /\ c.count = "success"
      /\ c.tested \in BOOLEAN /\ c.closes = {"open", "failed"}
      /\ c.stmts = <<Sel(T), Sel(T)>>
      /\ c.failed = IF <<Sel(T), Sel(T)>>[1].op = "sel" THEN "return" ELSE "next"
  BY DEF Frees, Tested, CountGet, Call
<1> HIDE DEF c
<1>2. Sel(T).op = "sel" /\ Sel(T).table = T /\ <<Sel(T), Sel(T)>>[1] = Sel(T)
  BY Statement, TwoStmts
<1>3. c.failed = "return"
  BY <1>1, <1>2
<1>4. Fielded(c) /\ CountsOrFails(c) /\ Disconnects(c) /\ ~Exception(c)
  BY <1>1, <1>3 DEF Fielded, CountsOrFails, Disconnects, Exception
<1>5. WellMade(c)
  BY <1>1, <1>2, <1>3, <1>4, TwoMade
<1> QED
  BY <1>5 DEF c

LEMMA TestedFillMade ==
  ASSUME NEW n, Plain(n), NEW T, T # "zonemap"
  PROVE  WellMade(Tested([Get(n, T) EXCEPT !.count = "success"]))
<1> DEFINE c == Tested([Get(n, T) EXCEPT !.count = "success"])
<1>1. /\ c.name = n /\ c.lock = "r" /\ c.file = "msdb" /\ c.count = "success"
      /\ c.tested \in BOOLEAN /\ c.closes = {"open"}
      /\ c.stmts = <<Sel(T)>>
      /\ c.failed = IF <<Sel(T)>>[1].op = "sel" THEN "return" ELSE "next"
  BY DEF Tested, Get, Call
<1> HIDE DEF c
<1>2. Sel(T).op = "sel" /\ Sel(T).table = T /\ <<Sel(T)>>[1] = Sel(T)
  BY Statement, OneStmt
<1>3. c.failed = "return"
  BY <1>1, <1>2
<1>4. Fielded(c) /\ CountsOrFails(c) /\ Disconnects(c) /\ ~Exception(c)
  BY <1>1, <1>3 DEF Fielded, CountsOrFails, Disconnects, Exception, Plain
<1>5. WellMade(c)
  BY <1>1, <1>2, <1>3, <1>4, OneMade
<1> QED
  BY <1>5 DEF c

LEMMA TestedPutMade ==
  ASSUME NEW n, Plain(n), NEW T, T # "zonemap"
  PROVE  WellMade(Tested([Put(n, T) EXCEPT !.failed = "return"]))
<1> DEFINE c == Tested([Put(n, T) EXCEPT !.failed = "return"])
<1>1. /\ c.name = n /\ c.lock = "w" /\ c.file = "msdb" /\ c.count = "never"
      /\ c.tested \in BOOLEAN /\ c.closes = {"open"}
      /\ c.stmts = <<Chg(T)>>
      /\ c.failed = "return"
  BY DEF Tested, Put, Call
<1> HIDE DEF c
<1>2. Chg(T).op = "chg" /\ Chg(T).table = T /\ <<Chg(T)>>[1] = Chg(T)
  BY Statement, OneStmt
<1>3. c.failed = "return"
  BY <1>1, <1>2
<1>4. Fielded(c) /\ CountsOrFails(c) /\ Disconnects(c) /\ ~Exception(c)
  BY <1>1, <1>3 DEF Fielded, CountsOrFails, Disconnects, Exception, Plain
<1>5. WellMade(c)
  BY <1>1, <1>2, <1>3, <1>4, OneMade
<1> QED
  BY <1>5 DEF c

LEMMA DefaultMade ==
  ASSUME NEW n, Plain(n), NEW T, T # "zonemap"
  PROVE  WellMade([Get(n, T) EXCEPT !.failed = "default"])
<1> DEFINE c == [Get(n, T) EXCEPT !.failed = "default"]
<1>1. /\ c.name = n /\ c.lock = "r" /\ c.file = "msdb" /\ c.count = "never"
      /\ c.tested \in BOOLEAN /\ c.closes = {"open"}
      /\ c.stmts = <<Sel(T)>>
      /\ c.failed = "default"
  BY DEF Get, Call
<1> HIDE DEF c
<1>2. Sel(T).op = "sel" /\ Sel(T).table = T /\ <<Sel(T)>>[1] = Sel(T)
  BY Statement, OneStmt
<1>3. c.failed = "default"
  BY <1>1, <1>2
<1>4. Fielded(c) /\ CountsOrFails(c) /\ Disconnects(c) /\ ~Exception(c)
  BY <1>1, <1>3 DEF Fielded, CountsOrFails, Disconnects, Exception, Plain
<1>5. WellMade(c)
  BY <1>1, <1>2, <1>3, <1>4, OneMade
<1> QED
  BY <1>5 DEF c

LEMMA AlwaysMade ==
  ASSUME NEW n, Plain(n), NEW T, T # "zonemap"
  PROVE  WellMade([List(n, T) EXCEPT !.count = "always"])
<1> DEFINE c == [List(n, T) EXCEPT !.count = "always"]
<1>1. /\ c.name = n /\ c.lock = "r" /\ c.file = "msdb" /\ c.count = "always"
      /\ c.tested \in BOOLEAN /\ c.closes = {"open"}
      /\ c.stmts = <<Sel(T)>>
      /\ c.failed = IF <<Sel(T)>>[1].op = "sel" THEN "return" ELSE "next"
  BY DEF List, Get, Call
<1> HIDE DEF c
<1>2. Sel(T).op = "sel" /\ Sel(T).table = T /\ <<Sel(T)>>[1] = Sel(T)
  BY Statement, OneStmt
<1>3. c.failed = "return"
  BY <1>1, <1>2
<1>4. Fielded(c) /\ CountsOrFails(c) /\ Disconnects(c) /\ ~Exception(c)
  BY <1>1, <1>3 DEF Fielded, CountsOrFails, Disconnects, Exception, Plain
<1>5. WellMade(c)
  BY <1>1, <1>2, <1>3, <1>4, OneMade
<1> QED
  BY <1>5 DEF c

LEMMA LookThenChangeMade ==
  ASSUME NEW n, Plain(n), NEW T, T # "zonemap"
  PROVE  WellMade([Call(n, "w", <<Sel(T), Chg(T)>>) EXCEPT !.failed = "return"])
<1> DEFINE c == [Call(n, "w", <<Sel(T), Chg(T)>>) EXCEPT !.failed = "return"]
<1>1. /\ c.name = n /\ c.lock = "w" /\ c.file = "msdb" /\ c.count = "never"
      /\ c.tested \in BOOLEAN /\ c.closes = {"open"}
      /\ c.stmts = <<Sel(T), Chg(T)>>
      /\ c.failed = "return"
  BY DEF Call
<1> HIDE DEF c
<1>2. /\ Sel(T).op = "sel" /\ Sel(T).table = T
      /\ Chg(T).op = "chg" /\ Chg(T).table = T
      /\ <<Sel(T), Chg(T)>>[1] = Sel(T)
  BY Statement, TwoStmts
<1>3. c.failed = "return"
  BY <1>1, <1>2
<1>4. Fielded(c) /\ CountsOrFails(c) /\ Disconnects(c) /\ ~Exception(c)
  BY <1>1, <1>3 DEF Fielded, CountsOrFails, Disconnects, Exception, Plain
<1>5. WellMade(c)
  BY <1>1, <1>2, <1>3, <1>4, TwoMade
<1> QED
  BY <1>5 DEF c

LEMMA LookAgainMade ==
  ASSUME NEW n, Plain(n), NEW T, T # "zonemap",
         T # "alarm_out_schedule"
  PROVE  WellMade([Call(n, "r", <<Sel(T), Sel(T)>>) EXCEPT !.failed = "retry"])
<1> DEFINE c == [Call(n, "r", <<Sel(T), Sel(T)>>) EXCEPT !.failed = "retry"]
<1>1. /\ c.name = n /\ c.lock = "r" /\ c.file = "msdb" /\ c.count = "never"
      /\ c.tested \in BOOLEAN /\ c.closes = {"open"}
      /\ c.stmts = <<Sel(T), Sel(T)>>
      /\ c.failed = "retry"
  BY DEF Call
<1> HIDE DEF c
<1>2. Sel(T).op = "sel" /\ Sel(T).table = T /\ <<Sel(T), Sel(T)>>[1] = Sel(T)
  BY Statement, TwoStmts
<1>3. c.failed = "retry"
  BY <1>1, <1>2
<1>4. Fielded(c) /\ CountsOrFails(c) /\ Disconnects(c) /\ ~Exception(c)
  BY <1>1, <1>3 DEF Fielded, CountsOrFails, Disconnects, Exception, Plain
<1>5. WellMade(c)
  BY <1>1, <1>2, <1>3, <1>4, TwoMade
<1> QED
  BY <1>5 DEF c

LEMMA ChangeAgainMade ==
  ASSUME NEW n, Plain(n), NEW T, T # "zonemap"
  PROVE  WellMade([Call(n, "w", <<Chg(T), Chg(T)>>) EXCEPT !.failed = "retry"])
<1> DEFINE c == [Call(n, "w", <<Chg(T), Chg(T)>>) EXCEPT !.failed = "retry"]
<1>1. /\ c.name = n /\ c.lock = "w" /\ c.file = "msdb" /\ c.count = "never"
      /\ c.tested \in BOOLEAN /\ c.closes = {"open"}
      /\ c.stmts = <<Chg(T), Chg(T)>>
      /\ c.failed = "retry"
  BY DEF Call
<1> HIDE DEF c
<1>2. Chg(T).op = "chg" /\ Chg(T).table = T /\ <<Chg(T), Chg(T)>>[1] = Chg(T)
  BY Statement, TwoStmts
<1>3. c.failed = "retry"
  BY <1>1, <1>2
<1>4. Fielded(c) /\ CountsOrFails(c) /\ Disconnects(c) /\ ~Exception(c)
  BY <1>1, <1>3 DEF Fielded, CountsOrFails, Disconnects, Exception, Plain
<1>5. WellMade(c)
  BY <1>1, <1>2, <1>3, <1>4, TwoMade
<1> QED
  BY <1>5 DEF c

LEMMA PidsMade ==
  WellMade([CountGet("read_alarm_pids", "token") EXCEPT !.failed = "stop"])
<1> DEFINE c == [CountGet("read_alarm_pids", "token") EXCEPT !.failed = "stop"]
<1>1. /\ c.name = "read_alarm_pids" /\ c.lock = "r"
      /\ c.file = "msdb" /\ c.count = "success"
      /\ c.tested \in BOOLEAN /\ c.closes = {"open"}
      /\ c.stmts = <<Sel("token"), Sel("token")>>
      /\ c.failed = "stop"
  BY DEF CountGet, Call
<1> HIDE DEF c
<1>2. /\ Sel("token").op = "sel" /\ Sel("token").table = "token"
      /\ <<Sel("token"), Sel("token")>>[1] = Sel("token")
  BY Statement, TwoStmts
<1>3. c.failed = "stop"
  BY <1>1, <1>2
<1>4. Fielded(c) /\ CountsOrFails(c) /\ Disconnects(c) /\ ~Exception(c)
  BY <1>1, <1>3 DEF Fielded, CountsOrFails, Disconnects, Exception, BreakToDisconn
<1>5. WellMade(c)
  BY <1>1, <1>2, <1>3, <1>4, TwoMade
<1> QED
  BY <1>5 DEF c

LEMMA TzMade ==
  WellMade([Get("db_get_tz_filename", "zonemap") EXCEPT !.file = "tz"])
<1> DEFINE c == [Get("db_get_tz_filename", "zonemap") EXCEPT !.file = "tz"]
<1>1. /\ c.name = "db_get_tz_filename" /\ c.lock = "r"
      /\ c.file = "tz" /\ c.count = "never"
      /\ c.tested \in BOOLEAN /\ c.closes = {"open"}
      /\ c.stmts = <<Sel("zonemap")>>
      /\ c.failed = IF <<Sel("zonemap")>>[1].op = "sel" THEN "return" ELSE "next"
  BY DEF Get, Call
<1> HIDE DEF c
<1>2. /\ Sel("zonemap").op = "sel" /\ Sel("zonemap").table = "zonemap"
      /\ <<Sel("zonemap")>>[1] = Sel("zonemap")
  BY Statement, OneStmt
<1>3. c.failed = "return"
  BY <1>1, <1>2
<1>4. Fielded(c) /\ CountsOrFails(c) /\ Disconnects(c) /\ ~Exception(c)
  BY <1>1, <1>3 DEF Fielded, CountsOrFails, Disconnects, Exception, BreakToDisconn
<1>5. WellMade(c)
  BY <1>1, <1>2, <1>3, <1>4, OneMade
<1> QED
  BY <1>5 DEF c

LEMMA InsertDiskMade ==
  WellMade([Put("insert_disk", "disk") EXCEPT !.closes = {}])
<1> DEFINE c == [Put("insert_disk", "disk") EXCEPT !.closes = {}]
<1>1. /\ c.name = "insert_disk" /\ c.lock = "w"
      /\ c.file = "msdb" /\ c.count = "never"
      /\ c.tested \in BOOLEAN /\ c.closes = {} /\ c.stmts = <<Chg("disk")>>
      /\ c.failed = IF <<Chg("disk")>>[1].op = "sel" THEN "return" ELSE "next"
  BY DEF Put, Call
<1> HIDE DEF c
<1>2. /\ Chg("disk").op = "chg" /\ Chg("disk").table = "disk"
      /\ <<Chg("disk")>>[1] = Chg("disk")
  BY Statement, OneStmt
<1>3. c.failed = "next"
  BY <1>1, <1>2
<1>4. Fielded(c) /\ CountsOrFails(c) /\ Disconnects(c) /\ ~Exception(c)
  BY <1>1, <1>3 DEF Fielded, CountsOrFails, Disconnects, Exception, BreakToDisconn
<1>5. WellMade(c)
  BY <1>1, <1>2, <1>3, <1>4, OneMade
<1> QED
  BY <1>5 DEF c

LEMMA ReadEmailMade ==
  WellMade(Call("read_email", "r", <<Sel("email"), Sel("email_receiver")>>))
<1> DEFINE c == Call("read_email", "r", <<Sel("email"), Sel("email_receiver")>>)
<1>1. /\ c.name = "read_email" /\ c.lock = "r"
      /\ c.file = "msdb" /\ c.count = "never"
      /\ c.tested \in BOOLEAN /\ c.closes = {"open"}
      /\ c.stmts = <<Sel("email"), Sel("email_receiver")>>
      /\ c.failed = IF <<Sel("email"), Sel("email_receiver")>>[1].op = "sel"
                    THEN "return" ELSE "next"
  BY DEF Call
<1> HIDE DEF c
<1>2. /\ Sel("email").op = "sel" /\ Sel("email").table = "email"
      /\ Sel("email_receiver").op = "sel" /\ Sel("email_receiver").table = "email_receiver"
      /\ <<Sel("email"), Sel("email_receiver")>>[1] = Sel("email")
  BY Statement, TwoStmts
<1>3. c.failed = "return"
  BY <1>1, <1>2
<1>4. Fielded(c) /\ CountsOrFails(c) /\ Disconnects(c) /\ ~Exception(c)
  BY <1>1, <1>3 DEF Fielded, CountsOrFails, Disconnects, Exception, BreakToDisconn
<1>5. WellMade(c)
  BY <1>1, <1>2, <1>3, <1>4, TwoMade
<1> QED
  BY <1>5 DEF c

LEMMA WriteEmailMade ==
  WellMade(Call("write_email", "w",
                <<Chg("email"), Chg("email_receiver"), Chg("email_receiver")>>))
<1> DEFINE s == <<Chg("email"), Chg("email_receiver"), Chg("email_receiver")>>
           c == Call("write_email", "w", s)
<1>1. DOMAIN s = 1 .. Len(s) /\ Len(s) = 3 /\ s[1].op = "chg"
      /\ \A i \in DOMAIN s : s[i].op = "chg"
  BY Statement, ThreeStmts
<1>2. \A i \in 1 .. 3 : s[i].table # "zonemap"
  BY Statement, ThreeStmts
<1> HIDE DEF s
<1>3. /\ c.name = "write_email" /\ c.lock = "w" /\ c.file = "msdb" /\ c.count = "never"
      /\ c.tested \in BOOLEAN /\ c.closes = {"open"}
      /\ c.stmts = s
      /\ c.failed = IF s[1].op = "sel" THEN "return" ELSE "next"
  BY DEF Call
<1> HIDE DEF c
<1>4. c.failed = "next" /\ ~Exception(c) /\ c.name \notin BreakToDisconn
  BY <1>1, <1>3 DEF Exception, BreakToDisconn
<1>5. Fielded(c)
  BY <1>3, <1>4 DEF Fielded
<1>6. Shaped(c)
  <2>1. DOMAIN c.stmts = 1 .. Len(c.stmts) /\ Len(c.stmts) = 3
    BY <1>1, <1>3, Zenon
  <2>2. \A i \in DOMAIN c.stmts : c.stmts[i].op \in {"sel", "chg"}
    BY <1>1, <1>3
  <2> QED
    BY <1>5, <2>1, <2>2 DEF Shaped
<1>7. WellMade(c)
  BY <1>1, <1>2, <1>3, <1>4, <1>6, ChangesMade DEF At
<1> QED
  BY <1>7 DEF c, s

LEMMA DefaultScheduleMade ==
  WellMade(Call("write_smart_event_effective_schedule_default", "w",
                <<Chg("vca_effective_schedule"), Chg("vca_effective_schedule"),
                  Chg("motion_effective_schedule"), Chg("motion_effective_schedule")>>))
<1> DEFINE n == "write_smart_event_effective_schedule_default"
           s == <<Chg("vca_effective_schedule"), Chg("vca_effective_schedule"),
                  Chg("motion_effective_schedule"), Chg("motion_effective_schedule")>>
           c == Call(n, "w", s)
<1>1. DOMAIN s = 1 .. Len(s) /\ Len(s) = 4 /\ s[1].op = "chg"
      /\ \A i \in DOMAIN s : s[i].op = "chg"
  BY Statement, FourStmts
<1>2. \A i \in 1 .. 4 : s[i].table # "zonemap"
  BY Statement, FourStmts
<1> HIDE DEF s
<1>3. /\ c.name = n /\ c.lock = "w" /\ c.file = "msdb" /\ c.count = "never"
      /\ c.tested \in BOOLEAN /\ c.closes = {"open"}
      /\ c.stmts = s
      /\ c.failed = IF s[1].op = "sel" THEN "return" ELSE "next"
  BY DEF Call
<1> HIDE DEF c
<1>4. c.failed = "next" /\ ~Exception(c) /\ c.name \notin BreakToDisconn
  BY <1>1, <1>3 DEF Exception, BreakToDisconn
<1>5. Fielded(c)
  BY <1>3, <1>4 DEF Fielded
<1>6. Shaped(c)
  <2>1. DOMAIN c.stmts = 1 .. Len(c.stmts) /\ Len(c.stmts) = 4
    BY <1>1, <1>3, Zenon
  <2>2. \A i \in DOMAIN c.stmts : c.stmts[i].op \in {"sel", "chg"}
    BY <1>1, <1>3
  <2> QED
    BY <1>5, <2>1, <2>2 DEF Shaped
<1>7. WellMade(c)
  BY <1>1, <1>2, <1>3, <1>4, <1>6, ChangesMade DEF At
<1> QED
  BY <1>7 DEF c, s

\* The exception: a table rewritten under 'r'.
LEMMA RewriteUnderRMade ==
  WellMade([Rewrite("write_alarm_out_schedule", "alarm_out_schedule") EXCEPT !.lock = "r"])
<1> DEFINE T == "alarm_out_schedule"
           s == <<Chg(T), Chg(T)>>
           c == [Rewrite("write_alarm_out_schedule", T) EXCEPT !.lock = "r"]
<1>1. /\ c.name = "write_alarm_out_schedule" /\ c.lock = "r" /\ c.file = "msdb"
      /\ c.count = "never" /\ c.tested \in BOOLEAN /\ c.closes = {"open"}
      /\ c.stmts = s /\ c.failed = IF s[1].op = "sel" THEN "return" ELSE "next"
  BY DEF Rewrite, Call
<1>2. /\ DOMAIN s = 1 .. Len(s) /\ Len(s) = 2 /\ s[1].op = "chg" /\ s[2].op = "chg"
      /\ s[1].table = "alarm_out_schedule" /\ s[2].table = "alarm_out_schedule"
  BY Statement, TwoStmts
<1> HIDE DEF c, s, T
<1>3. At(c) = {1, 2} /\ c.failed = "next"
  BY <1>1, <1>2 DEF At
<1>4. Shaped(c) /\ Exception(c)
  BY <1>1, <1>2, <1>3 DEF Shaped, Fielded, Exception
<1>5. ReportsFirst(c) /\ CountsOrFails(c) /\ Disconnects(c)
  BY <1>1, <1>3 DEF ReportsFirst, CountsOrFails, Disconnects, BreakToDisconn
<1>6. LocksToChange(c) /\ FileOfTable(c)
  BY <1>1, <1>2, <1>3, <1>4 DEF LocksToChange, FileOfTable
<1> QED
  BY <1>4, <1>5, <1>6 DEF WellMade, c, T

-----------------------------------------------------------------------------
(* The catalogue *)

\* Every call of msdb.c, by the section of the file it is in, is well made.
THEOREM CatalogMade == \A c \in Catalog : WellMade(c)
<1> USE DEF Plain, BreakToDisconn
<1>1. \A c \in SqlCalls : WellMade(c)
  BY GetMade, PutMade DEF SqlCalls
<1>2. \A c \in OsdCalls : WellMade(c)
  BY GetMade, PutMade DEF OsdCalls
<1>3. \A c \in MotionCalls : WellMade(c)
  BY GetMade, ListMade, PutMade DEF MotionCalls
<1>4. \A c \in MotionScheduleCalls : WellMade(c)
  BY GetMade, PutMade, RewriteMade DEF MotionScheduleCalls
<1>5. \A c \in AlarmOutCalls : WellMade(c)
  BY GetMade, ListMade, PutMade, RewriteMade DEF AlarmOutCalls
<1>6. \A c \in AlarmOutScheduleCalls : WellMade(c)
  BY GetMade, RewriteUnderRMade DEF AlarmOutScheduleCalls
<1>7. \A c \in VideoLossCalls : WellMade(c)
  BY GetMade, ListMade, PutMade DEF VideoLossCalls
<1>8. \A c \in VideoLossScheduleCalls : WellMade(c)
  BY GetMade, RewriteMade DEF VideoLossScheduleCalls
<1>9. \A c \in CameraReadCalls : WellMade(c)
  BY GetMade, PutMade DEF CameraReadCalls
<1>10. \A c \in CameraListCalls : WellMade(c)
  BY ListMade DEF CameraListCalls
<1>11. \A c \in CameraWriteCalls : WellMade(c)
  BY PutMade, RewriteMade DEF CameraWriteCalls
<1>12. \A c \in RecordReadCalls : WellMade(c)
  BY GetMade, ListMade, SkipGetMade DEF RecordReadCalls
<1>13. \A c \in RecordWriteCalls : WellMade(c)
  BY PutMade, RewriteMade DEF RecordWriteCalls
<1>14. \A c \in RecordScheduleCalls : WellMade(c)
  BY GetMade, PutMade, RewriteMade DEF RecordScheduleCalls
<1>15. \A c \in HolidayCalls : WellMade(c)
  BY ListMade, PutMade DEF HolidayCalls
<1>16. \A c \in PtzPortCalls : WellMade(c)
  BY GetMade, ListMade, PutMade DEF PtzPortCalls
<1>17. \A c \in AlarmInCalls : WellMade(c)
  BY GetMade, ListMade, PutMade, RewriteMade DEF AlarmInCalls
<1>18. \A c \in AlarmInScheduleCalls : WellMade(c)
  BY GetMade, RewriteMade DEF AlarmInScheduleCalls
<1>19. \A c \in UserReadCalls : WellMade(c)
  BY GetMade, ListMade DEF UserReadCalls
<1>20. \A c \in UserWriteCalls : WellMade(c)
  <2>1. WellMade([Call("add_user", "w", <<Sel("user"), Chg("user")>>)
                 EXCEPT !.failed = "return"])
    BY LookThenChangeMade
  <2>2. WellMade(Put("write_user", "user"))
    BY PutMade
  <2>3. WellMade(Get("read_user_count", "user"))
    BY GetMade
  <2> QED
    BY <2>1, <2>2, <2>3 DEF UserWriteCalls
<1>21. \A c \in DisplayCalls : WellMade(c)
  BY GetMade, PutMade DEF DisplayCalls
<1>22. \A c \in SpotCalls : WellMade(c)
  BY AlwaysMade, PutMade, GetMade DEF SpotCalls
<1>23. \A c \in DdnsCalls : WellMade(c)
  BY GetMade, PutMade DEF DdnsCalls
<1>24. \A c \in EmailCalls : WellMade(c)
  BY ReadEmailMade, WriteEmailMade DEF EmailCalls
<1>25. \A c \in NetworkCalls : WellMade(c)
  <2>1. WellMade([Call("read_network", "r", <<Sel("network"), Sel("network")>>)
                 EXCEPT !.failed = "retry"])
    BY LookAgainMade
  <2>2. WellMade([Call("write_network", "w", <<Chg("network"), Chg("network")>>)
                 EXCEPT !.failed = "retry"])
    BY ChangeAgainMade
  <2>3. WellMade(Get("read_network_mode", "network"))
    BY GetMade
  <2> QED
    BY <2>1, <2>2, <2>3 DEF NetworkCalls
<1>26. \A c \in BondCalls : WellMade(c)
  BY GetMade, PutMade DEF BondCalls
<1>27. \A c \in PortCalls : WellMade(c)
  BY GetMade, PutMade DEF PortCalls
<1>28. \A c \in AudioLayoutCalls : WellMade(c)
  BY GetMade, ListMade, PutMade DEF AudioLayoutCalls
<1>29. \A c \in PtzSpeedCalls : WellMade(c)
  BY GetMade, ListMade, PutMade DEF PtzSpeedCalls
<1>30. \A c \in StorageTourCalls : WellMade(c)
  BY GetMade, PutMade, RewriteMade DEF StorageTourCalls
<1>31. \A c \in ParamCalls : WellMade(c)
  BY GetMade, DefaultMade, PutMade DEF ParamCalls
<1>32. \A c \in ParamOemCalls : WellMade(c)
  BY GetMade, DefaultMade, PutMade DEF ParamOemCalls
<1>33. \A c \in AddParamOemCalls : WellMade(c)
  BY GetMade, PutMade DEF AddParamOemCalls
<1>34. \A c \in ProtocolCalls : WellMade(c)
  BY FreesCountMade, TestedGetMade, PutMade DEF ProtocolCalls
<1>35. \A c \in ModelReadCalls : WellMade(c)
  BY PutMade, FreesCountMade DEF ModelReadCalls
<1>36. \A c \in ModelCalls : WellMade(c)
  BY TestedGetMade, PutMade DEF ModelCalls
<1>37. \A c \in MosaicCalls : WellMade(c)
  BY TestedGetMade, TestedFillMade, TestedPutMade DEF MosaicCalls
<1>38. \A c \in MaintainCalls : WellMade(c)
  BY GetMade, PutMade DEF MaintainCalls
<1>39. \A c \in PrivacyMaskCalls : WellMade(c)
  BY ListMade, RewriteMade DEF PrivacyMaskCalls
<1>40. \A c \in AlarmPidCalls : WellMade(c)
  BY PidsMade, GetMade, PutMade DEF AlarmPidCalls
<1>41. \A c \in CameraIoCalls : WellMade(c)
  BY GetMade, ListMade, PutMade DEF CameraIoCalls
<1>42. \A c \in VolumeCalls : WellMade(c)
  BY GetMade, ListMade, PutMade DEF VolumeCalls
<1>43. \A c \in SetDeviceCalls : WellMade(c)
  BY RewriteMade DEF SetDeviceCalls
<1>44. \A c \in GetDeviceCalls : WellMade(c)
  BY SkipGetMade DEF GetDeviceCalls
<1>45. \A c \in TzCalls : WellMade(c)
  BY TzMade DEF TzCalls
<1>46. \A c \in OemUserCalls : WellMade(c)
  BY GetMade, ListMade, PutMade DEF OemUserCalls
<1>47. \A c \in MaskAreaCalls : WellMade(c)
  BY GetMade, PutMade, RewriteMade DEF MaskAreaCalls
<1>48. \A c \in PopupScheduleCalls : WellMade(c)
  BY GetMade, RewriteMade DEF PopupScheduleCalls
<1>49. \A c \in AlarmInExCalls : WellMade(c)
  BY GetMade, RewriteMade DEF AlarmInExCalls
<1>50. \A c \in AlarmInsExCalls : WellMade(c)
  BY GetMade, ListMade, PutMade DEF AlarmInsExCalls
<1>51. \A c \in EncryptedListCalls : WellMade(c)
  BY GetMade, PutMade DEF EncryptedListCalls
<1>52. \A c \in DiskCalls : WellMade(c)
  BY ListMade, GetMade, PutMade, InsertDiskMade DEF DiskCalls
<1>53. \A c \in GroupCalls : WellMade(c)
  BY ListMade, PutMade DEF GroupCalls
<1>54. \A c \in EffectiveCalls : WellMade(c)
  BY GetMade DEF EffectiveCalls
<1>55. \A c \in EffectiveWrite : WellMade(c)
  BY RewriteMade DEF EffectiveWrite
<1>56. \A c \in AudibleCalls : WellMade(c)
  BY GetMade DEF AudibleCalls
<1>57. \A c \in AudibleWrite : WellMade(c)
  BY RewriteMade DEF AudibleWrite
<1>58. \A c \in MailCalls : WellMade(c)
  BY GetMade DEF MailCalls
<1>59. \A c \in MailWrite : WellMade(c)
  BY RewriteMade DEF MailWrite
<1>60. \A c \in PopupCalls : WellMade(c)
  BY GetMade DEF PopupCalls
<1>61. \A c \in PopupWrite : WellMade(c)
  BY RewriteMade DEF PopupWrite
<1>62. \A c \in SmartEventCalls : WellMade(c)
  BY GetMade, PutMade DEF SmartEventCalls
<1>63. \A c \in MotionEffectiveCalls : WellMade(c)
  BY GetMade, RewriteMade DEF MotionEffectiveCalls
<1>64. \A c \in SmartEventsOfChannel : WellMade(c)
  BY SkipGetMade DEF SmartEventsOfChannel
<1>65. \A c \in SchedulesOfChannel : WellMade(c)
  BY SkipGetMade DEF SchedulesOfChannel
<1>66. \A c \in SmartEventsOfAll : WellMade(c)
  BY SkipGetMade DEF SmartEventsOfAll
<1>67. \A c \in SchedulesOfAll : WellMade(c)
  BY SkipGetMade DEF SchedulesOfAll
<1>68. \A c \in MailPopupOfAll : WellMade(c)
  BY SkipGetMade DEF MailPopupOfAll
<1>69. \A c \in DefaultScheduleCalls : WellMade(c)
  BY DefaultScheduleMade DEF DefaultScheduleCalls
<1>70. \A c \in FailoverCalls : WellMade(c)
  BY GetMade, ListMade, PutMade DEF FailoverCalls
<1> QED
  BY <1>1, <1>2, <1>3, <1>4, <1>5, <1>6, <1>7, <1>8, <1>9, <1>10, <1>11,
     <1>12, <1>13, <1>14, <1>15, <1>16, <1>17, <1>18, <1>19, <1>20, <1>21,
     <1>22, <1>23, <1>24, <1>25, <1>26, <1>27, <1>28, <1>29, <1>30, <1>31,
     <1>32, <1>33, <1>34, <1>35, <1>36, <1>37, <1>38, <1>39, <1>40, <1>41,
     <1>42, <1>43, <1>44, <1>45, <1>46, <1>47, <1>48, <1>49, <1>50, <1>51,
     <1>52, <1>53, <1>54, <1>55, <1>56, <1>57, <1>58, <1>59, <1>60, <1>61,
     <1>62, <1>63, <1>64, <1>65, <1>66, <1>67, <1>68, <1>69, <1>70
     DEF Catalog

-----------------------------------------------------------------------------
(* The inductive invariant *)

\* Only the thread between FileLock and FileUnlock is part of the way through
\* its statements, it has nothing to say before the first of them, and it has
\* closed what it closes when it leaves.
PlaceInv(t) ==
  /\ pc[t] # "idle" => mode[t] = job[t].lock /\ path[t] = job[t].file
  /\ pc[t] \in {"open", "rwlock", "lockf", "blocked"} => at[t] = 0
  /\ at[t] \in 1 .. Last(t) => pc[t] = "section" /\ ret[t] = "none"
  /\ at[t] = 0 => conn[t] = "none" /\ ~count[t] /\ ~changed[t] /\ ~lacking[t] /\ ret[t] # "ok"
  /\ at[t] = 0 /\ pc[t] # "idle" => ret[t] = "none"
  /\ pc[t] # "section" => conn[t] \notin job[t].closes

\* What has changed the database is one of the statements behind it.
ErrInv(t) ==
  /\ ret[t] = "err" => ~changed[t]
  /\ at[t] \in 1 .. Last(t) /\ changed[t] =>
       \E k \in 1 .. at[t] - 1 : job[t].stmts[k].op = "chg"

CountInv(t) ==
  /\ at[t] \in 1 .. Last(t) /\ lacking[t] => job[t].failed \notin {"return", "stop", "default"}
  /\ ret[t] = "ok" /\ job[t].count # "never" => count[t] \/ job[t].name = "read_alarm_pids"

ThreadInv(t) == PlaceInv(t) /\ ErrInv(t) /\ CountInv(t)

CallInv ==
  /\ job \in [Thread -> Catalog] /\ at \in [Thread -> Nat]
  /\ CallTypeOK /\ \A t \in Thread : ThreadInv(t)

-----------------------------------------------------------------------------
\* What is known of the call of a thread.
LEMMA JobMade ==
  ASSUME CallInv, NEW t \in Thread
  PROVE  WellMade(job[t]) /\ Last(t) \in Nat \ {0} /\ Past(t) = Last(t) + 1
<1>1. WellMade(job[t])
  BY CatalogMade DEF CallInv
<1> QED
  BY <1>1 DEF WellMade, Shaped, Last, Past

\* A step of a call is a step of the lock, or leaves the lock alone.
LEMMA CallIsLock ==
  ASSUME CallInv, [CallNext]_vars
  PROVE  [Next]_lockVars
<1>1. ASSUME NEW t \in Thread, Step(t)
      PROVE  [Next]_lockVars
  <2>1. job[t].lock \in {"r", "w"} /\ job[t].file \in Path
    BY JobMade, JobsOK DEF WellMade, Shaped, Fielded
  <2>2. CASE Start(t)
    BY <2>1, <2>2 DEF Start, Next
  <2>3. CASE LockFails(t)
    <3>1. job[t].tested \in BOOLEAN
      BY JobMade DEF WellMade, Shaped, Fielded
    <3> QED
      BY <2>3, <3>1 DEF LockFails, Next, FileLockStep
  <2>4. CASE Locking(t) \/ Unlocking(t) \/ Leave(t)
    BY <2>4 DEF Locking, Unlocking, Leave, Next, FileLockStep, FileUnlockStep
  <2>5. CASE Connect(t) \/ ConnectFails(t) \/ Works(t) \/ Fails(t) \/ Disconnect(t)
    BY <2>5 DEF Connect, ConnectFails, Works, Fails, Disconnect
  <2> QED
    BY <1>1, <2>2, <2>3, <2>4, <2>5 DEF Step
<1>2. ASSUME NEW p \in Proc, Die(p)
      PROVE  [Next]_lockVars
  BY <1>2 DEF Die, Next
<1>3. CASE UNCHANGED vars
  BY <1>3 DEF vars
<1> QED
  BY <1>1, <1>2, <1>3 DEF CallNext

-----------------------------------------------------------------------------
(* What holds of one thread, from what changes of it *)

Same(u) ==
  /\ pc'[u] = pc[u] /\ mode'[u] = mode[u] /\ path'[u] = path[u] /\ job'[u] = job[u]
  /\ at'[u] = at[u] /\ conn'[u] = conn[u] /\ ret'[u] = ret[u] /\ count'[u] = count[u]
  /\ changed'[u] = changed[u] /\ lacking'[u] = lacking[u]

\* The other threads.
LEMMA OthersKeep ==
  ASSUME NEW u, ThreadInv(u), Same(u)
  PROVE  ThreadInv(u)'
  BY DEF ThreadInv, PlaceInv, ErrInv, CountInv, Same, Last

\* A thread that begins, or starts again.
LEMMA FreshKeeps ==
  ASSUME NEW u, job'[u].stmts = job[u].stmts, at'[u] = 0, conn'[u] = "none",
         "none" \notin job'[u].closes, ~count'[u], ~changed'[u],
         ~lacking'[u], ret'[u] = "none",
         pc'[u] # "idle" => mode'[u] = job'[u].lock /\ path'[u] = job'[u].file
  PROVE  ThreadInv(u)'
  BY DEF ThreadInv, PlaceInv, ErrInv, CountInv, Last

-----------------------------------------------------------------------------
LEMMA StartKeeps ==
  ASSUME TypeOK, CallInv, NEW t \in Thread, Start(t)
  PROVE  ThreadInv(t)'
<1>1. "none" \notin job[t].closes
  BY JobMade DEF WellMade, Shaped, Fielded
<1> QED
  BY <1>1, FreshKeeps DEF TypeOK, CallInv, CallTypeOK, Start, Begin

LEMMA LockKeeps ==
  ASSUME TypeOK, CallInv, NEW t \in Thread,
         LockFails(t) \/ Locking(t) \/ Unlocking(t) \/ Leave(t)
  PROVE  ThreadInv(t)'
<1> USE DEF TypeOK, CallInv, CallTypeOK
<1>1. ThreadInv(t)
  OBVIOUS
<1>2. Last(t)' = Last(t) /\ Last(t) \in Nat \ {0} /\ Past(t) = Last(t) + 1
  BY JobMade DEF Last, LockFails, Locking, Unlocking, Leave, callVars
<1>3. CASE LockFails(t)
  BY <1>1, <1>2, <1>3 DEF LockFails, OpenFail, ThreadInv, PlaceInv, ErrInv, CountInv
<1>4. CASE Locking(t)
  BY <1>1, <1>2, <1>4 DEF Locking, callVars, OpenOk, RdLock, WrLock, LockfGrant, LockfBlock,
     LockfDeadlk, LockfFails, ThreadInv, PlaceInv, ErrInv, CountInv
<1>5. CASE Unlocking(t)
  BY <1>1, <1>2, <1>5 DEF Unlocking, callVars, RwUnlock, ULock, Close,
     ThreadInv, PlaceInv, ErrInv, CountInv
<1>6. CASE Leave(t)
  BY <1>1, <1>2, <1>6 DEF Leave, callVars, EndSection, ThreadInv, PlaceInv, ErrInv, CountInv
<1> QED
  BY <1>3, <1>4, <1>5, <1>6

LEMMA ConnectKeeps ==
  ASSUME TypeOK, CallInv, NEW t \in Thread, Connect(t) \/ ConnectFails(t) \/ Disconnect(t)
  PROVE  ThreadInv(t)'
<1> USE DEF TypeOK, CallInv, CallTypeOK
<1>1. ThreadInv(t)
  OBVIOUS
<1>2. Last(t)' = Last(t) /\ Last(t) \in Nat \ {0} /\ Past(t) = Last(t) + 1
  BY JobMade DEF Last, Connect, ConnectFails, Disconnect
<1>3. CASE Connect(t)
  BY <1>1, <1>2, <1>3 DEF Connect, lockVars, ThreadInv, PlaceInv, ErrInv, CountInv
<1>4. CASE ConnectFails(t)
  BY <1>1, <1>2, <1>4 DEF ConnectFails, lockVars, ThreadInv, PlaceInv, ErrInv, CountInv
<1>5. CASE Disconnect(t)
  BY <1>1, <1>2, <1>5 DEF Disconnect, lockVars, ThreadInv, PlaceInv, ErrInv, CountInv
<1> QED
  BY <1>3, <1>4, <1>5

\* A statement that works: a call that succeeds in the end has found all that
\* its count needs.
LEMMA WorksKeeps ==
  ASSUME TypeOK, CallInv, NEW t \in Thread, Works(t)
  PROVE  ThreadInv(t)'
<1> DEFINE end == at[t] = Last(t) \/ job[t].failed = "retry"
<1> USE DEF TypeOK, CallInv, CallTypeOK
<1>1. ThreadInv(t) /\ at[t] \in 1 .. Last(t) /\ pc[t] = "section" /\ ret[t] = "none"
  BY DEF Works, Running, ThreadInv, PlaceInv
<1>2. /\ job' = job /\ pc' = pc /\ mode' = mode /\ path' = path /\ conn' = conn
      /\ lacking' = lacking
      /\ at'[t] = IF end THEN Past(t) ELSE at[t] + 1
      /\ ret'[t] = IF end THEN "ok" ELSE ret[t]
      /\ count'[t] = (count[t] \/ (end /\ ~lacking[t] /\ job[t].count # "never"))
      /\ changed'[t] = (changed[t] \/ Stmt(t).op = "chg")
  BY DEF Works, lockVars
<1>3. Last(t)' = Last(t) /\ Last(t) \in Nat \ {0} /\ Past(t) = Last(t) + 1
  BY <1>2, JobMade DEF Last
<1>4. CountsOrFails(job[t])
  BY JobMade DEF WellMade
<1> HIDE DEF end
<1>5. PlaceInv(t)'
  BY <1>1, <1>2, <1>3 DEF ThreadInv, PlaceInv, end
<1>6. ErrInv(t)'
  <2>1. ret'[t] # "err"
    BY <1>1, <1>2
  <2>2. ASSUME at'[t] \in 1 .. Last(t), changed'[t]
        PROVE  \E k \in 1 .. at'[t] - 1 : job[t].stmts[k].op = "chg"
    <3>1. at'[t] = at[t] + 1
      BY <1>2, <1>3, <2>2
    <3>2. CASE changed[t]
      BY <1>1, <3>1, <3>2 DEF ThreadInv, ErrInv
    <3>3. CASE Stmt(t).op = "chg"
      BY <1>1, <3>1, <3>3 DEF Stmt
    <3> QED
      BY <1>2, <2>2, <3>2, <3>3
  <2> QED
    BY <1>2, <1>3, <2>1, <2>2 DEF ErrInv
<1>7. CountInv(t)'
  BY <1>1, <1>2, <1>3, <1>4 DEF ThreadInv, CountInv, CountsOrFails, end
<1> QED
  BY <1>5, <1>6, <1>7 DEF ThreadInv

\* A statement that fails: the call gives up before its first change, or does
\* not tell its caller.
LEMMA FailsKeeps ==
  ASSUME TypeOK, CallInv, NEW t \in Thread, Fails(t)
  PROVE  ThreadInv(t)'
<1> DEFINE end == at[t] = Last(t) \/ job[t].failed \in {"return", "stop", "default"}
<1> USE DEF TypeOK, CallInv, CallTypeOK
<1>1. ThreadInv(t) /\ at[t] \in 1 .. Last(t) /\ pc[t] = "section" /\ ret[t] = "none"
  BY DEF Fails, Running, ThreadInv, PlaceInv
<1>2. /\ job' = job /\ pc' = pc /\ mode' = mode /\ path' = path /\ conn' = conn
      /\ changed' = changed /\ lacking'[t]
      /\ at'[t] = IF end THEN Past(t) ELSE at[t] + 1
      /\ ret'[t] = IF end THEN FinalOutcome(t) ELSE ret[t]
      /\ count'[t] = (count[t] \/ (end /\ job[t].count \in {"both", "always"}))
  BY DEF Fails, lockVars
<1>3. Last(t)' = Last(t) /\ Last(t) \in Nat \ {0} /\ Past(t) = Last(t) + 1
  BY <1>2, JobMade DEF Last
<1>4. /\ CountsOrFails(job[t]) /\ ReportsFirst(job[t]) /\ At(job[t]) = 1 .. Last(t)
      /\ job[t].failed \in {"return", "next", "retry", "default", "stop"}
  BY JobMade DEF WellMade, Shaped, Fielded, At, Last
<1>5. /\ FinalOutcome(t) \in {"ok", "default", "err"}
      /\ FinalOutcome(t) = "err" => \/ job[t].failed = "return"
                                    \/ job[t].failed = "retry" /\ Stmt(t).op # "chg"
      /\ job[t].failed = "return" => FinalOutcome(t) = "err"
  BY <1>4 DEF FinalOutcome, Outcome
<1> HIDE DEF end
<1>6. PlaceInv(t)'
  BY <1>1, <1>2, <1>3, <1>5 DEF ThreadInv, PlaceInv, end
<1>7. ErrInv(t)'
  <2>1. ASSUME ret'[t] = "err", changed[t]
        PROVE  FALSE
    <3>1. FinalOutcome(t) = "err"
      BY <1>1, <1>2, <2>1
    <3>2. PICK k \in 1 .. at[t] - 1 : job[t].stmts[k].op = "chg"
      BY <1>1, <2>1 DEF ThreadInv, ErrInv
    <3>3. k \in At(job[t]) /\ at[t] \in At(job[t]) /\ k < at[t]
      BY <1>1, <1>3, <1>4
    <3> QED
      BY <1>4, <1>5, <3>1, <3>2, <3>3 DEF ReportsFirst, Stmt
  <2>2. ASSUME at'[t] \in 1 .. Last(t), changed[t]
        PROVE  \E k \in 1 .. at'[t] - 1 : job[t].stmts[k].op = "chg"
    <3>1. at'[t] = at[t] + 1
      BY <1>2, <1>3, <2>2
    <3> QED
      BY <1>1, <2>2, <3>1 DEF ThreadInv, ErrInv
  <2> QED
    BY <1>2, <1>3, <2>1, <2>2 DEF ErrInv
<1>8. CountInv(t)'
  BY <1>1, <1>2, <1>3, <1>4, <1>5 DEF ThreadInv, CountInv, CountsOrFails, end
<1> QED
  BY <1>6, <1>7, <1>8 DEF ThreadInv

-----------------------------------------------------------------------------
LEMMA DieKeeps ==
  ASSUME TypeOK, CallInv, NEW p \in Proc, Die(p), NEW t \in Thread
  PROVE  ThreadInv(t)'
<1>0. "none" \notin job[t].closes
  BY JobMade DEF WellMade, Shaped, Fielded
<1> USE ConstantsOK DEF TypeOK, CallInv, CallTypeOK
<1>1. CASE ProcOf[t] = p
  <2>1. /\ at'[t] = 0 /\ conn'[t] = "none" /\ ret'[t] = "none"
        /\ ~count'[t] /\ ~changed'[t] /\ ~lacking'[t]
    BY <1>1 DEF Die
  <2>2. pc'[t] = "idle" /\ job' = job
    BY <1>1 DEF Die, Crash
  <2> QED
    BY <1>0, <2>1, <2>2, FreshKeeps
<1>2. CASE ProcOf[t] # p
  <2>1. ThreadInv(t)
    OBVIOUS
  <2>2. Same(t)
    BY <1>2 DEF Die, Crash, Same
  <2> QED
    BY <2>1, <2>2, OthersKeep
<1> QED
  BY <1>1, <1>2

\* A step of a thread is no step of another thread's call.
LEMMA StepIsOwn ==
  ASSUME TypeOK, CallInv, NEW t \in Thread, Step(t), NEW u \in Thread, u # t
  PROVE  Same(u)
<1> USE DEF TypeOK, CallInv, CallTypeOK, Same
<1>1. CASE Start(t) \/ LockFails(t)
  BY <1>1 DEF Start, Begin, LockFails, OpenFail
<1>2. CASE Locking(t)
  BY <1>2 DEF Locking, callVars, OpenOk, RdLock, WrLock, LockfGrant, LockfBlock,
              LockfDeadlk, LockfFails
<1>3. CASE Leave(t) \/ Unlocking(t)
  BY <1>3 DEF Leave, EndSection, Unlocking, callVars, RwUnlock, ULock, Close
<1>4. CASE Connect(t) \/ ConnectFails(t) \/ Disconnect(t)
  BY <1>4 DEF Connect, ConnectFails, Disconnect, lockVars
<1>5. CASE Works(t)
  BY <1>5 DEF Works, lockVars
<1>6. CASE Fails(t)
  BY <1>6 DEF Fails, lockVars
<1> QED
  BY <1>1, <1>2, <1>3, <1>4, <1>5, <1>6 DEF Step

\* The variables stay in their sets.
LEMMA CallTypeStep ==
  ASSUME TypeOK, CallInv, [CallNext]_vars
  PROVE  CallTypeOK' /\ job' \in [Thread -> Catalog] /\ at' \in [Thread -> Nat]
<1> USE DEF CallInv, CallTypeOK
<1>1. \A t \in Thread : Last(t) \in Nat \ {0} /\ Past(t) = Last(t) + 1
  BY JobMade
<1>2. job' = job /\ \A t \in Thread : Last(t)' = Last(t) /\ Past(t)' = Past(t)
  BY DEF CallNext, Step, Start, LockFails, Locking, Connect, ConnectFails, Works, Fails,
         Disconnect, Leave, Unlocking, Die, vars, callVars, Last, Past
<1>3. ASSUME NEW t \in Thread, Step(t)
      PROVE  CallTypeOK' /\ at' \in [Thread -> Nat]
  <2>1. CASE Start(t)
    BY <1>1, <1>2, <2>1 DEF Start
  <2>2. CASE Locking(t) \/ Leave(t) \/ Unlocking(t)
    BY <1>2, <2>2 DEF Locking, Leave, Unlocking, callVars
  <2>3. CASE Works(t)
    BY <1>1, <1>2, <2>3 DEF Works, Running
  <2>4. CASE Fails(t)
    <3>1. FinalOutcome(t) \in {"ok", "default", "err"}
      BY DEF FinalOutcome, Outcome
    <3> QED
      BY <1>1, <1>2, <2>4, <3>1 DEF Fails, Running
  <2>5. CASE Disconnect(t)
    BY <1>2, <2>5 DEF Disconnect
  <2>6. CASE ConnectFails(t)
    <3>1. count' \in [Thread -> BOOLEAN]
      BY <2>6, (job[t].count = "always") \in BOOLEAN DEF ConnectFails
    <3> QED
      BY <1>1, <1>2, <2>6, <3>1 DEF ConnectFails
  <2>7. CASE LockFails(t)
    BY <1>2, <2>7 DEF LockFails
  <2>8. CASE Connect(t)
    BY <1>1, <1>2, <2>8 DEF Connect
  <2> QED
    BY <1>3, <2>1, <2>2, <2>3, <2>4, <2>5, <2>6, <2>7, <2>8 DEF Step
<1>4. ASSUME NEW p \in Proc, Die(p)
      PROVE  CallTypeOK' /\ at' \in [Thread -> Nat]
  BY <1>1, <1>2, <1>4 DEF Die
<1>5. CASE UNCHANGED vars
  BY <1>2, <1>5 DEF vars, callVars
<1> QED
  BY <1>2, <1>3, <1>4, <1>5 DEF CallNext

LEMMA CallStep ==
  ASSUME TypeOK, CallInv, [CallNext]_vars
  PROVE  CallInv'
<1>1. ASSUME NEW u \in Thread PROVE ThreadInv(u)'
  <2>1. ThreadInv(u)
    BY DEF CallInv
  <2>2. ASSUME NEW t \in Thread, Step(t)
        PROVE  ThreadInv(u)'
    <3>1. CASE u = t
      BY <2>2, <3>1, StartKeeps, LockKeeps, ConnectKeeps, WorksKeeps, FailsKeeps DEF Step
    <3>2. CASE u # t
      BY <2>1, <2>2, <3>2, StepIsOwn, OthersKeep
    <3> QED
      BY <3>1, <3>2
  <2>3. CASE UNCHANGED vars
    BY <2>1, <2>3, OthersKeep DEF vars, lockVars, callVars, Same
  <2> QED
    BY <2>2, <2>3, DieKeeps DEF CallNext
<1> QED
  BY <1>1, CallTypeStep DEF CallInv

LEMMA InitCallInv == InitCall => CallInv
<1> SUFFICES ASSUME InitCall PROVE CallInv
  OBVIOUS
<1>1. job \in [Thread -> Catalog] /\ at \in [Thread -> Nat]
  BY JobsOK DEF InitCall
<1>2. \A t \in Thread : /\ Last(t) \in Nat \ {0} /\ Past(t) = Last(t) + 1
                         /\ "none" \notin job[t].closes
  BY <1>1, CatalogMade DEF WellMade, Shaped, Fielded, Last, Past
<1>3. CallTypeOK
  BY <1>1, <1>2, ConstantsOK DEF InitCall, CallTypeOK
<1>4. \A t \in Thread : ThreadInv(t)
  BY <1>1, <1>2 DEF InitCall, Init, ThreadInv, PlaceInv, ErrInv, CountInv
<1> QED
  BY <1>1, <1>3, <1>4 DEF CallInv

\* The inductive invariant: that of the lock, which goes on as if the calls
\* were not there, and that of the calls.
THEOREM CallsInductive == CallSpec => [](IInv /\ CallInv)
<1>1. InitCall => IInv /\ CallInv
  BY InitIInv, InitCallInv DEF InitCall
<1>2. IInv /\ CallInv /\ [CallNext]_vars => (IInv /\ CallInv)'
  BY CallIsLock, CallStep, TypeStep, HoldStep, OwnerStep, SingleStep DEF IInv
<1> QED
  BY <1>1, <1>2, PTL DEF CallSpec

-----------------------------------------------------------------------------
(* What the callers rely on *)

\* The calls keep their state within its ranges.
THEOREM CallsTypeCorrect == CallSpec => []CallTypeOK
<1>1. CallInv => CallTypeOK
  BY DEF CallInv
<1> QED
  BY <1>1, CallsInductive, PTL

\* A call that returns an error has changed nothing.
THEOREM NothingChanged == CallSpec => []ErrorsChangeNothing
<1>1. CallInv => ErrorsChangeNothing
  BY DEF CallInv, ThreadInv, ErrInv, ErrorsChangeNothing
<1> QED
  BY <1>1, CallsInductive, PTL

\* A call that fills an array and returns 0 has written its count.
THEOREM CountsAreThere == CallSpec => []OkCounts
<1>1. CallInv => OkCounts
  BY DEF CallInv, ThreadInv, CountInv, OkCounts
<1> QED
  BY <1>1, CallsInductive, PTL

\* Of the calls that got a connection insert_disk alone leaves it open; those
\* that break to their sqlite_disconn leave nothing of a failed one either.
THEOREM NoneLeftOpen == CallSpec => []ConnectionsClosed
<1>1. CallInv => ConnectionsClosed
  <2> SUFFICES ASSUME CallInv, NEW t \in Thread, pc[t] # "section"
               PROVE  /\ conn[t] = "open" => job[t].name = "insert_disk"
                      /\ conn[t] = "failed" => job[t].name \notin BreakToDisconn
    BY DEF ConnectionsClosed
  <2>1. conn[t] \notin job[t].closes
    BY DEF CallInv, ThreadInv, PlaceInv
  <2> QED
    BY <2>1, JobMade DEF WellMade, Disconnects
<1> QED
  BY <1>1, CallsInductive, PTL

\* Both calls are running: what they are about to do is one of their statements.
LEMMA BothRun ==
  ASSUME CallInv, NEW t \in Thread, NEW s \in Thread, Interferes(t, s)
  PROVE  \E k \in At(job[t]) : \E i, j \in At(job[s]) :
           /\ Stmt(t) = job[t].stmts[k]
           /\ i < j
           /\ job[s].stmts[i].table = Stmt(t).table /\ job[s].stmts[j].table = Stmt(t).table
<1>1. /\ at[t] \in 1 .. Last(t) /\ at[s] \in 1 .. Last(s)
      /\ Last(t) = Len(job[t].stmts) /\ Last(s) = Len(job[s].stmts)
      /\ Last(s) \in Nat /\ Last(t) \in Nat
  BY JobMade DEF Interferes, Midway, Running, Last
<1>2. PICK i \in 1 .. at[s] - 1 : job[s].stmts[i].table = Stmt(t).table
  BY DEF Interferes, Midway
<1>3. PICK j \in at[s] .. Last(s) : job[s].stmts[j].table = Stmt(t).table
  BY DEF Interferes, Midway
<1>4. i \in At(job[s]) /\ j \in At(job[s]) /\ i < j /\ at[t] \in At(job[t])
  BY <1>1, <1>2, <1>3 DEF At
<1> QED
  BY <1>2, <1>3, <1>4 DEF Stmt

\* No statement lands in the middle of a call of another process, between two
\* threads that are alone in theirs, where lockf fails for deadlocks only.
THEOREM CallsStayWhole == CallSpec => CallsIsolated
<1>1. ASSUME IInv, CallInv, NEW t \in Thread, NEW s \in Thread, s # t,
             ~LockfMayFail, Single(ProcOf[t]), Single(ProcOf[s]), Intrudes(t, s)
      PROVE  FALSE
  <2>1. /\ fd[t] /\ fd[s] /\ pc[t] = "section" /\ pc[s] = "section" /\ Interferes(t, s)
    BY <1>1 DEF Intrudes, Interferes, Midway, Running
  <2>2. path[t] = job[t].file /\ path[s] = job[s].file
    BY <1>1, <2>1 DEF CallInv, ThreadInv, PlaceInv
  <2>3. owner[path[t]] = ProcOf[t] /\ owner[path[s]] = ProcOf[s] /\ ProcOf[s] # ProcOf[t]
    BY <1>1, <2>1 DEF IInv, SingleInv, Single
  <2>4. /\ job[t].file \in {"msdb", "tz"} /\ FileOfTable(job[t])
        /\ job[s].file \in {"msdb", "tz"} /\ FileOfTable(job[s])
    BY <1>1, JobMade DEF WellMade, Shaped, Fielded
  <2>5. job[t].file = job[s].file
    BY <1>1, <2>1, <2>4, BothRun DEF FileOfTable
  <2> QED
    BY <2>2, <2>3, <2>5
<1> DEFINE Whole == \A t, s \in Thread :
              s # t /\ ~LockfMayFail /\ Single(ProcOf[t]) /\ Single(ProcOf[s])
                => ~Intrudes(t, s)
<1>2. IInv /\ CallInv /\ [CallNext]_vars => [Whole]_vars
  BY <1>1
<1> QED
  BY <1>2, CallsInductive, PTL DEF CallSpec, CallsIsolated

\* Of two calls under 'r', the one with two statements on a table changes
\* nothing, and the other does not change that table.
LEMMA ReadersApart ==
  ASSUME NEW c, NEW d, WellMade(c), WellMade(d), c.lock = "r", d.lock = "r", ~Exception(d),
         NEW k \in At(c), NEW i \in At(d), NEW j \in At(d), i < j,
         d.stmts[i].table = c.stmts[k].table
  PROVE  c.stmts[k].op = "sel" /\ Changed(d) = {}
<1>1. LocksToChange(c) /\ LocksToChange(d)
  BY DEF WellMade
<1>2. \A x \in At(d) : /\ d.stmts[x].op = "sel"
                       /\ d.stmts[x].table = "alarm_out_schedule" => Len(d.stmts) = 1
  BY <1>1 DEF LocksToChange
<1>3. DOMAIN d.stmts = At(d) /\ Len(d.stmts) \in Nat
  BY DEF WellMade, Shaped, At
<1>4. Len(d.stmts) # 1
  <2>1. ASSUME Len(d.stmts) = 1 PROVE At(d) = {1}
    BY <2>1 DEF At
  <2> QED
    BY <2>1
<1>5. c.stmts[k].table # "alarm_out_schedule"
  BY <1>2, <1>4
<1>6. ~Exception(c)
  BY <1>1, <1>5 DEF LocksToChange
<1>7. c.stmts[k].op = "sel"
  BY <1>1, <1>6 DEF LocksToChange
<1>8. Changed(d) = {}
  BY <1>2, <1>3 DEF Changed
<1> QED
  BY <1>7, <1>8

\* Within a process the rwlock does the same, but for write_alarm_out_schedule.
THEOREM SiblingsStayWhole == CallSpec => SiblingsIsolated
<1>1. ASSUME IInv, CallInv, NEW t \in Thread, NEW s \in Siblings(t), Intrudes(t, s)
      PROVE  job[s].name = "write_alarm_out_schedule"
  <2>1. /\ fd[t] /\ fd[s] /\ pc[t] = "section" /\ pc[s] = "section" /\ Interferes(t, s)
        /\ s \in Thread /\ s # t /\ ProcOf[s] = ProcOf[t]
    BY <1>1 DEF Intrudes, Interferes, Midway, Running, Siblings
  <2>2. held[t] = job[t].lock /\ held[s] = job[s].lock
    BY <1>1, <2>1 DEF CallInv, ThreadInv, PlaceInv, IInv, HeldInv, InSection
  <2>3. job[t].lock \in {"r", "w"} /\ job[s].lock \in {"r", "w"}
    BY <1>1, <2>1, JobMade DEF WellMade, Shaped, Fielded
  <2>4. job[t].lock = "r" /\ job[s].lock = "r"
    BY <1>1, <2>1, <2>2, <2>3 DEF IInv, RwInv
  <2>5. WellMade(job[t]) /\ WellMade(job[s])
    BY <1>1, <2>1, JobMade
  <2>6. PICK k \in At(job[t]), i \in At(job[s]), j \in At(job[s]) :
          /\ Stmt(t) = job[t].stmts[k] /\ i < j
          /\ job[s].stmts[i].table = Stmt(t).table /\ job[s].stmts[j].table = Stmt(t).table
    BY <1>1, <2>1, BothRun
  <2>7. SUFFICES ASSUME ~Exception(job[s]) PROVE FALSE
    BY DEF Exception
  <2>8. Stmt(t).op = "sel" /\ Changed(job[s]) = {}
    BY <1>1, <2>1, <2>4, <2>5, <2>6, <2>7, ReadersApart
  <2> QED
    BY <2>1, <2>8 DEF Interferes
<1> DEFINE Whole == \A t \in Thread : \A s \in Siblings(t) :
              Intrudes(t, s) => job[s].name = "write_alarm_out_schedule"
<1>2. IInv /\ CallInv /\ [CallNext]_vars => [Whole]_vars
  BY <1>1
<1> QED
  BY <1>2, CallsInductive, PTL DEF CallSpec, SiblingsIsolated
=============================================================================
