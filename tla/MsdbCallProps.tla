--------------------------- MODULE MsdbCallProps ---------------------------
(***************************************************************************)
(* What a caller of msdb.c relies on: that the statements of one call are  *)
(* not mixed with those of another, that an error means nothing happened,  *)
(* that a counter is there when the call says 0, and that connections do   *)
(* not pile up.                                                            *)
(***************************************************************************)
EXTENDS MsdbCall

\* The variables stay in their sets.
CallTypeOK ==
  /\ \A t \in Thread : job[t] \in Catalog /\ at[t] \in 0 .. Past(t)
  /\ conn \in [Thread -> {"none", "open", "failed"}]
  /\ ret \in [Thread -> {"none", "ok", "err", "default"}]
  /\ count \in [Thread -> BOOLEAN]
  /\ changed \in [Thread -> BOOLEAN]
  /\ lacking \in [Thread -> BOOLEAN]

-----------------------------------------------------------------------------
\* s has statements on T behind it and others still to come.
Midway(s, T) ==
  /\ Running(s)
  /\ \E i \in 1 .. at[s] - 1 : job[s].stmts[i].table = T
  /\ \E i \in at[s] .. Last(s) : job[s].stmts[i].table = T

\* The next statement of t reads what s is changing, or changes what s reads.
Interferes(t, s) ==
  /\ Running(t)
  /\ Midway(s, Stmt(t).table)
  /\ Stmt(t).op = "chg" \/ Stmt(t).table \in Changed(job[s])

\* t runs its next statement while s, locked too, is in the middle of its own.
Intrudes(t, s) ==
  /\ fd[t] /\ fd[s]
  /\ Interferes(t, s)
  /\ pc'[t] = "section" /\ at'[t] # at[t]

(* Between two threads that are alone in their processes and whose lock file
   opened, unless lockf fails for another reason than a deadlock, no statement
   lands in the middle of a delete-and-insert, a series of updates or a
   count-then-read of the other (msdb.c:504, 1690, 2409, 4884). *)
CallsIsolated ==
  [][\A t, s \in Thread :
       s # t /\ ~LockfMayFail /\ Single(ProcOf[t]) /\ Single(ProcOf[s])
         => ~Intrudes(t, s)]_vars

(* Between two threads of one process the rwlock does the same, except for
   write_alarm_out_schedule, which rewrites its table under the read lock
   (msdb.c:764): a reader sees the schedule half deleted and two writers
   interleave their rows. *)
SiblingsIsolated ==
  [][\A t \in Thread : \A s \in Siblings(t) :
       Intrudes(t, s) => job[s].name = "write_alarm_out_schedule"]_vars

(* A call that returns an error has changed nothing in the database: no call
   fails after its first change (write_mosaic, add_user, msdb.c:2425, 4632). *)
ErrorsChangeNothing == \A t \in Thread : ret[t] = "err" => ~changed[t]

(* When a call that fills an array returns 0 it has said how many elements it
   filled; only read_alarm_pids may leave both untouched (msdb.c:4934). *)
OkCounts ==
  \A t \in Thread :
    (pc[t] = "idle" /\ ret[t] = "ok" /\ job[t].count # "never")
      => count[t] \/ job[t].name = "read_alarm_pids"

(* A call that got a connection has closed it when it leaves its section,
   insert_disk excepted, which has no sqlite_disconn (msdb.c:6695).  The handle
   of a sqlite3_open that FAILED, which has to be closed too (sqlite3.h:1930),
   stays behind: sqlite_conn returns without closing it (ccsqlite.c:31), and of
   the calls only the three readers that break to their sqlite_disconn close it
   (msdb.c:4145, 4297, 4352). *)
BreakToDisconn ==
  {"read_ipc_protocols", "read_ipc_models", "read_ipc_models_by_protocol"}
ConnectionsClosed ==
  \A t \in Thread : pc[t] # "section" =>
    /\ conn[t] = "open" => job[t].name = "insert_disk"
    /\ conn[t] = "failed" => job[t].name \notin BreakToDisconn
=============================================================================
