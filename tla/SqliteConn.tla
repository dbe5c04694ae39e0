----------------------------- MODULE SqliteConn -----------------------------
(***************************************************************************)
(* libs/msdb/ccsqlite.c: the calls msdb.c and emaildb.c reach SQLite       *)
(* through, and what they make of a database that is locked.  SQLite       *)
(* itself is external: many connections may read, a statement that         *)
(* changes the database needs it alone, and the busy handler is switched   *)
(* off, so that every call that meets a lock returns SQLITE_BUSY at once.  *)
(*                                                                         *)
(* The clients here hold no file lock of msdb.c (its FileLock may fail, a  *)
(* sibling may have dropped it, a shell may run sqlite3 on the file), each *)
(* makes a bounded number of calls and has one statement per connection.   *)
(***************************************************************************)
EXTENDS Integers

CONSTANTS Client,
          SQLITE_OPT_CNT,  \* attempts before a call gives up (200)
          MaxRows,         \* most rows a query finds
          MaxCalls,        \* calls each client makes
          NoClient

ASSUME ConnConstantsOK ==
  /\ SQLITE_OPT_CNT \in Nat \ {0}
  /\ MaxRows \in Nat /\ MaxCalls \in Nat
  /\ NoClient \notin Client

SQLITE_ERROR == 1
SQLITE_BUSY  == 5

Kinds == {"execute", "query", "blobquery", "blobexec"}

VARIABLES pc,       \* where each client is
          kind,     \* the call it makes
          bad,      \* is its SQL refused by the engine (no such column)?
          locked,   \* did its last attempt find the "database is locked"?
          tries,    \* count: failed attempts, counted up to SQLITE_OPT_CNT
          ret,      \* what the last call returned
          rows,     \* rows its query has still to deliver
          stmt,     \* has it a statement to finalize?
          made,     \* calls made so far
          writer,   \* the client whose statement has the database alone
          outside   \* does a program outside have the database locked?

vars == <<pc, kind, bad, locked, tries, ret, rows, stmt, made, writer, outside>>

Init ==
  /\ pc      = [c \in Client |-> "closed"]
  /\ kind    = [c \in Client |-> "query"]
  /\ bad     = [c \in Client |-> FALSE]
  /\ locked  = [c \in Client |-> FALSE]
  /\ tries   = [c \in Client |-> 0]
  /\ ret     = [c \in Client |-> 0]
  /\ rows    = [c \in Client |-> 0]
  /\ stmt    = [c \in Client |-> FALSE]
  /\ made    = [c \in Client |-> 0]
  /\ writer  = NoClient
  /\ outside = FALSE

-----------------------------------------------------------------------------
(* The locks of the engine. *)

Reading(c)   == pc[c] = "rows"                \* a SELECT stands on a row
NoReading(c) == outside \/ writer \notin {NoClient, c}
NoWriting(c) == NoReading(c) \/ \E d \in Client \ {c} : Reading(d)

OutsideLocks ==
  /\ ~outside /\ writer = NoClient /\ \A c \in Client : ~Reading(c)
  /\ outside' = TRUE
  /\ UNCHANGED <<pc, kind, bad, locked, tries, ret, rows, stmt, made, writer>>

OutsideUnlocks ==
  /\ outside /\ outside' = FALSE
  /\ UNCHANGED <<pc, kind, bad, locked, tries, ret, rows, stmt, made, writer>>

-----------------------------------------------------------------------------
(* sqlite_conn, sqlite_disconn, sqlite_clear_stmt *)

Goto(c, where) == pc' = [pc EXCEPT ![c] = where]

Return(c, value) == Goto(c, "returned") /\ ret' = [ret EXCEPT ![c] = value]

\* The last sqlite_query_next of a loop.
EndRows(c) == Goto(c, "ended") /\ ret' = [ret EXCEPT ![c] = 1]

\* sqlite_conn and the call the connection is opened for.
Conn(c) ==
  /\ pc[c] = "closed" /\ made[c] < MaxCalls
  /\ \E k \in Kinds, b \in BOOLEAN, n \in 0 .. MaxRows :
       /\ kind' = [kind EXCEPT ![c] = k]
       /\ bad'  = [bad EXCEPT ![c] = b]
       /\ rows' = [rows EXCEPT ![c] = IF k \in {"query", "blobquery"} THEN n ELSE 0]
       /\ Goto(c, IF k = "execute" THEN "exec" ELSE "prepare")
  /\ locked' = [locked EXCEPT ![c] = FALSE]
  /\ tries' = [tries EXCEPT ![c] = 0]
  /\ made'  = [made EXCEPT ![c] = @ + 1]
  /\ UNCHANGED <<ret, stmt, writer, outside>>

\* Callers finalize what a query left, on error too, before they disconnect.
ClearStmt(c) ==
  /\ pc[c] \in {"returned", "rows", "ended"} /\ stmt[c]
  /\ stmt' = [stmt EXCEPT ![c] = FALSE]
  /\ Goto(c, "returned")
  /\ UNCHANGED <<kind, bad, locked, tries, ret, rows, made, writer, outside>>

Disconn(c) ==
  /\ pc[c] = "returned" /\ ~stmt[c]
  /\ Goto(c, "closed")
  /\ UNCHANGED <<kind, bad, locked, tries, ret, rows, stmt, made, writer, outside>>

-----------------------------------------------------------------------------
(* Mistakes the properties must notice, used by no specification. *)

ExecBusyGivesUp(c) ==            \* no special case for "database is locked"
  /\ pc[c] = "exec" /\ NoWriting(c)
  /\ IF tries[c] + 1 < SQLITE_OPT_CNT
     THEN tries' = [tries EXCEPT ![c] = @ + 1] /\ UNCHANGED <<pc, ret>>
     ELSE Return(c, -1) /\ UNCHANGED tries
  /\ locked' = [locked EXCEPT ![c] = TRUE]
  /\ UNCHANGED <<kind, bad, rows, stmt, made, writer, outside>>

StepFailsNegated(c, code) ==     \* the code of the engine as -code
  /\ pc[c] = "step"
  /\ code = SQLITE_BUSY => NoReading(c)
  /\ Return(c, -code)
  /\ UNCHANGED <<tries, kind, bad, locked, rows, stmt, made, writer, outside>>

StepFailsForEver(c, code) ==     \* no limit on the attempts of sqlite3_step
  /\ pc[c] = "step"
  /\ code = SQLITE_BUSY => NoReading(c)
  /\ UNCHANGED <<pc, ret, tries, kind, bad, locked, rows, stmt, made, writer, outside>>

ExecErrorForEver(c) ==           \* the limit applied to the locked case only
  /\ pc[c] = "exec" /\ bad[c]
  /\ UNCHANGED <<pc, ret, tries, kind, bad, locked, rows, stmt, made, writer, outside>>

-----------------------------------------------------------------------------
(* sqlite_execute *)

ExecRuns(c) ==
  /\ pc[c] = "exec" /\ ~bad[c] /\ ~NoWriting(c)
  /\ writer' = c
  /\ Goto(c, "writing")
  /\ UNCHANGED <<kind, bad, locked, tries, ret, rows, stmt, made, outside>>

ExecOk(c) ==
  /\ pc[c] = "writing"
  /\ writer' = NoClient
  /\ Return(c, 0)
  /\ UNCHANGED <<kind, bad, locked, tries, rows, stmt, made, outside>>

Counted(c) == IF tries[c] < SQLITE_OPT_CNT THEN tries[c] + 1 ELSE tries[c]

\* "database is locked": the attempts are counted, but without any limit.
ExecBusy(c) ==
  /\ pc[c] = "exec" /\ NoWriting(c)
  /\ tries' = [tries EXCEPT ![c] = Counted(c)]
  /\ locked' = [locked EXCEPT ![c] = TRUE]
  /\ UNCHANGED <<pc, kind, bad, ret, rows, stmt, made, writer, outside>>

\* Any other error ends the call when the attempts, the locked ones included,
\* have reached the limit.
ErrorCounts(c) ==
  /\ locked' = [locked EXCEPT ![c] = FALSE]
  /\ IF tries[c] + 1 < SQLITE_OPT_CNT
     THEN tries' = [tries EXCEPT ![c] = @ + 1] /\ UNCHANGED <<pc, ret>>
     ELSE Return(c, -1) /\ UNCHANGED tries
  /\ UNCHANGED <<kind, bad, rows, stmt, made, writer, outside>>

\* The engine refuses the statement.
ExecError(c) == pc[c] = "exec" /\ bad[c] /\ ErrorCounts(c)

\* An attempt at a good statement fails, for want of memory or of the disk.
ExecTransient(c) == pc[c] = "exec" /\ ~bad[c] /\ ErrorCounts(c)

-----------------------------------------------------------------------------
(* sqlite_query_record, sqlite_prepare_blob *)

\* The step loop counts anew; sqlite_prepare_blob steps only a query.
PrepareOk(c) ==
  /\ pc[c] = "prepare" /\ ~bad[c] /\ ~NoReading(c)
  /\ stmt'  = [stmt EXCEPT ![c] = TRUE]
  /\ tries' = [tries EXCEPT ![c] = 0]
  /\ Goto(c, IF kind[c] = "blobexec" THEN "bind" ELSE "step")
  /\ UNCHANGED <<kind, bad, locked, ret, rows, made, writer, outside>>

\* Bad SQL, a lock that keeps the schema from being read, no memory.
PrepareFails(c) ==
  /\ pc[c] = "prepare"
  /\ IF tries[c] + 1 < SQLITE_OPT_CNT
     THEN tries' = [tries EXCEPT ![c] = @ + 1] /\ UNCHANGED <<pc, ret>>
     ELSE Return(c, -1) /\ UNCHANGED tries
  /\ UNCHANGED <<kind, bad, locked, rows, stmt, made, writer, outside>>

StepRow(c) ==
  /\ pc[c] = "step" /\ ~NoReading(c) /\ rows[c] > 0
  /\ ret' = [ret EXCEPT ![c] = 0]
  /\ Goto(c, "rows")
  /\ UNCHANGED <<kind, bad, locked, tries, rows, stmt, made, writer, outside>>

StepDone(c) ==
  /\ pc[c] = "step" /\ ~NoReading(c) /\ rows[c] = 0
  /\ Return(c, 1)
  /\ UNCHANGED <<kind, bad, locked, tries, rows, stmt, made, writer, outside>>

\* SQLITE_BUSY under a lock, SQLITE_ERROR at any time.  sqlite_query_record
\* hands the code of the engine to its caller, sqlite_prepare_blob says 1.
StepFails(c, code) ==
  /\ pc[c] = "step"
  /\ code = SQLITE_BUSY => NoReading(c)
  /\ IF tries[c] + 1 < SQLITE_OPT_CNT
     THEN tries' = [tries EXCEPT ![c] = @ + 1] /\ UNCHANGED <<pc, ret>>
     ELSE Return(c, IF kind[c] = "query" THEN code ELSE 1) /\ UNCHANGED tries
  /\ UNCHANGED <<kind, bad, locked, rows, stmt, made, writer, outside>>

-----------------------------------------------------------------------------
(* sqlite_query_next: whatever is not another row is 1 *)

NextRow(c) ==
  /\ pc[c] = "rows" /\ rows[c] > 1
  /\ rows' = [rows EXCEPT ![c] = @ - 1]
  /\ ret'  = [ret EXCEPT ![c] = 0]
  /\ UNCHANGED <<pc, kind, bad, locked, tries, stmt, made, writer, outside>>

NextDone(c) ==
  /\ pc[c] = "rows" /\ rows[c] = 1
  /\ rows' = [rows EXCEPT ![c] = 0]
  /\ EndRows(c)
  /\ UNCHANGED <<kind, bad, locked, tries, stmt, made, writer, outside>>

NextFails(c) ==
  /\ pc[c] = "rows" /\ rows[c] > 1
  /\ rows' = [rows EXCEPT ![c] = @ - 1]
  /\ EndRows(c)
  /\ UNCHANGED <<kind, bad, locked, tries, stmt, made, writer, outside>>

-----------------------------------------------------------------------------
(* sqlite_exec_blob: one attempt *)

ExecBlobOk(c) ==
  /\ pc[c] = "bind" /\ ~NoWriting(c)
  /\ Return(c, 0)
  /\ UNCHANGED <<kind, bad, locked, tries, rows, stmt, made, writer, outside>>

ExecBlobFails(c) ==
  /\ pc[c] = "bind"
  /\ Return(c, -1)
  /\ UNCHANGED <<kind, bad, locked, tries, rows, stmt, made, writer, outside>>

-----------------------------------------------------------------------------
Execute(c) ==
  ExecRuns(c) \/ ExecOk(c) \/ ExecBusy(c) \/ ExecError(c) \/ ExecTransient(c)

Query(c) ==
  \/ PrepareOk(c) \/ PrepareFails(c) \/ StepRow(c) \/ StepDone(c)
  \/ \E code \in {SQLITE_ERROR, SQLITE_BUSY} : StepFails(c, code)

Fetch(c) == NextRow(c) \/ NextDone(c) \/ NextFails(c)

Blob(c) == ExecBlobOk(c) \/ ExecBlobFails(c)

Next ==
  \/ \E c \in Client :
       \/ Conn(c) \/ Execute(c) \/ Query(c) \/ Fetch(c) \/ Blob(c)
       \/ ClearStmt(c) \/ Disconn(c)
  \/ OutsideLocks \/ OutsideUnlocks

Spec == Init /\ [][Next]_vars

(***************************************************************************)
(* A client that is in a call keeps running; the sleep between attempts    *)
(* ends.  A call that finds the database free takes it before the others   *)
(* can lock it for ever: the clients make finitely many calls, and the     *)
(* program outside, when it is fair, locks the database finitely often     *)
(* while a given call waits, which SF on ExecRuns expresses.               *)
(***************************************************************************)
ClientFairness ==
  \A c \in Client :
    WF_vars(Execute(c) \/ Query(c) \/ Fetch(c) \/ Blob(c) \/ ClearStmt(c) \/ Disconn(c))

FairSpec == Spec /\ ClientFairness

LockFairness ==
  WF_vars(OutsideUnlocks) /\ \A c \in Client : SF_vars(ExecRuns(c)) /\ WF_vars(ExecError(c))

-----------------------------------------------------------------------------
(* The properties. *)

\* The variables stay in their sets.
TypeOK ==
  /\ pc \in [Client -> {"closed", "exec", "writing", "prepare", "step", "rows",
                        "bind", "returned", "ended"}]
  /\ kind \in [Client -> Kinds]
  /\ bad \in [Client -> BOOLEAN]
  /\ locked \in [Client -> BOOLEAN]
  /\ tries \in [Client -> 0 .. SQLITE_OPT_CNT]
  /\ ret \in [Client -> {-1, 0, 1, SQLITE_BUSY}]
  /\ rows \in [Client -> 0 .. MaxRows]
  /\ stmt \in [Client -> BOOLEAN]
  /\ made \in [Client -> 0 .. MaxCalls]
  /\ writer \in Client \cup {NoClient}
  /\ outside \in BOOLEAN

Returned(c) == pc[c] = "returned"

(* sqlite_execute fails after SQLITE_OPT_CNT failed attempts, the last of which
   failed for another reason than a lock: it never fails because the database
   was locked, however long that was (ccsqlite.c:71-77).  The attempts before
   may all have met a lock, and then one error of another kind is enough. *)
LockNeverFailsExecute ==
  \A c \in Client :
    Returned(c) /\ kind[c] = "execute" /\ ret[c] = -1
      => ~locked[c] /\ tries[c] + 1 >= SQLITE_OPT_CNT

(* sqlite_query_record and sqlite_query_next: "-1:error  0:has record  1:no
   record" (ccsqlite.h:21 and 26): no other code comes back, and a loop that
   ends on 1 has read every row. *)
CodesAsDocumented ==
  \A c \in Client :
    /\ Returned(c) /\ kind[c] = "query" => ret[c] \in {-1, 0, 1}
    /\ pc[c] = "ended" => rows[c] = 0

Asking(c) == pc[c] \in {"prepare", "step", "rows", "bind"}

(* Every query and every blob call returns, even if the lock on the database
   is never given back: the attempts are limited (ccsqlite.c:112, 126, 244, 259). *)
QueryReturns == \A c \in Client : Asking(c) ~> ~Asking(c)

(* sqlite_execute returns provided that the others let go of the database: its loop
   has no limit of its own while the database is locked (ccsqlite.c:71-77). *)
ExecuteReturns ==
  LockFairness => \A c \in Client : pc[c] = "exec" ~> Returned(c)
=============================================================================
