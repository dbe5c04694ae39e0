------------------------------ MODULE MsdbCall ------------------------------
(***************************************************************************)
(* The calls of MsdbCatalog run by the threads of several processes, each  *)
(* inside the FileLock / FileUnlock of MsdbLock.  A thread goes through    *)
(* FileLock, sqlite_conn, the statements of its call, sqlite_disconn and   *)
(* FileUnlock, whatever the other threads do in between, and starts again. *)
(* Any statement may fail or find nothing, sqlite_conn may fail, with or   *)
(* without a handle left to close, the lock file may not open, its record  *)
(* lock may be refused and a process may die at any step.                  *)
(***************************************************************************)
EXTENDS MsdbLock, MsdbCatalog

CONSTANT Jobs     \* the assignments of calls to threads that are tried

ASSUME JobsOK == Jobs \subseteq [Thread -> Catalog] /\ {"msdb", "tz"} \subseteq Path

VARIABLES job,      \* the call each thread makes
          at,       \* 0: not connected, i: next statement, then past the end
          conn,     \* its hConn: "none" (0), an "open" connection, or what a
                    \* "failed" sqlite3_open left; lost when the call ends
          ret,      \* return value: "none" yet, "ok" (0), "err", "default"
          count,    \* has the caller's counter been written?
          changed,  \* has a statement of the call changed the database?
          lacking   \* has one failed or found nothing?

callVars == <<job, at, conn, ret, count, changed, lacking>>
vars == <<lockVars, callVars>>

Last(t) == Len(job[t].stmts)
Past(t) == Last(t) + 1
Running(t) == pc[t] = "section" /\ at[t] \in 1 .. Last(t)
Stmt(t) == job[t].stmts[at[t]]

InitCall ==
  /\ Init
  /\ \A t \in Thread : path[t] = "msdb"
  /\ job \in Jobs
  /\ at      = [t \in Thread |-> 0]
  /\ conn    = [t \in Thread |-> "none"]
  /\ ret     = [t \in Thread |-> "none"]
  /\ count   = [t \in Thread |-> FALSE]
  /\ changed = [t \in Thread |-> FALSE]
  /\ lacking = [t \in Thread |-> FALSE]

-----------------------------------------------------------------------------
\* The call begins with FileLock.
Start(t) ==
  /\ Begin(t, job[t].lock, job[t].file)
  /\ at'      = [at EXCEPT ![t] = 0]
  /\ conn'    = [conn EXCEPT ![t] = "none"]
  /\ ret'     = [ret EXCEPT ![t] = "none"]
  /\ count'   = [count EXCEPT ![t] = FALSE]
  /\ changed' = [changed EXCEPT ![t] = FALSE]
  /\ lacking' = [lacking EXCEPT ![t] = FALSE]
  /\ UNCHANGED job

\* Without a lock: return -1 if the result is tested, else carry on.
LockFails(t) ==
  /\ OpenFail(t, job[t].tested)
  /\ ret' = [ret EXCEPT ![t] = IF job[t].tested THEN "err" ELSE @]
  /\ UNCHANGED <<job, at, conn, count, changed, lacking>>

Locking(t) ==
  /\ \/ OpenOk(t) \/ RdLock(t) \/ WrLock(t)
     \/ LockfGrant(t) \/ LockfBlock(t) \/ LockfDeadlk(t) \/ LockfFails(t)
  /\ UNCHANGED callVars

Connect(t) ==
  /\ pc[t] = "section" /\ at[t] = 0
  /\ at'   = [at EXCEPT ![t] = 1]
  /\ conn' = [conn EXCEPT ![t] = "open"]
  /\ UNCHANGED <<lockVars, job, ret, count, changed, lacking>>

\* A fault CallTypeOK must notice, used by no specification.
ConnectFailsRaw(t) ==            \* a value no caller expects
  /\ pc[t] = "section" /\ at[t] = 0
  /\ at'    = [at EXCEPT ![t] = Past(t)]
  /\ \E left \in {"none", "failed"} : conn' = [conn EXCEPT ![t] = left]
  /\ ret'   = [ret EXCEPT ![t] = job[t].failed]
  /\ count' = [count EXCEPT ![t] = job[t].count = "always"]
  /\ UNCHANGED <<lockVars, job, changed, lacking>>

\* sqlite_conn returns -1 without sqlite3_close: hConn is the handle that
\* sqlite3_open made all the same, unless there was no memory for it.
ConnectFails(t) ==
  /\ pc[t] = "section" /\ at[t] = 0
  /\ at'    = [at EXCEPT ![t] = Past(t)]
  /\ \E left \in {"none", "failed"} : conn' = [conn EXCEPT ![t] = left]
  /\ ret'   = [ret EXCEPT ![t] = IF job[t].failed = "default" THEN "default" ELSE "err"]
  /\ count' = [count EXCEPT ![t] = job[t].count = "always"]
  /\ UNCHANGED <<lockVars, job, changed, lacking>>

\* The statement finds a record or changes the table.
Works(t) ==
  LET end == at[t] = Last(t) \/ job[t].failed = "retry"
      all == end /\ ~lacking[t] IN
  /\ Running(t)
  /\ at'      = [at EXCEPT ![t] = IF end THEN Past(t) ELSE @ + 1]
  /\ ret'     = [ret EXCEPT ![t] = IF end THEN "ok" ELSE @]
  /\ count'   = [count EXCEPT ![t] = @ \/ (all /\ job[t].count # "never")]
  /\ changed' = [changed EXCEPT ![t] = @ \/ Stmt(t).op = "chg"]
  /\ UNCHANGED <<lockVars, job, conn, lacking>>

Outcome(c) == CASE c.failed \in {"next", "stop"} -> "ok"
                [] c.failed = "default"          -> "default"
                [] OTHER                         -> "err"

\* A write_network that has to fall back ignores what its second update says.
FinalOutcome(t) ==
  IF job[t].failed = "retry" /\ Stmt(t).op = "chg" THEN "ok" ELSE Outcome(job[t])

\* The statement finds no record or fails.
Fails(t) ==
  LET end == at[t] = Last(t) \/ job[t].failed \in {"return", "stop", "default"} IN
  /\ Running(t)
  /\ at'      = [at EXCEPT ![t] = IF end THEN Past(t) ELSE @ + 1]
  /\ ret'     = [ret EXCEPT ![t] = IF end THEN FinalOutcome(t) ELSE @]
  /\ count'   = [count EXCEPT ![t] = @ \/ (end /\ job[t].count \in {"both", "always"})]
  /\ lacking' = [lacking EXCEPT ![t] = TRUE]
  /\ UNCHANGED <<lockVars, job, conn, changed>>

\* sqlite_disconn, where the call has one on its way out; it ignores a handle 0.
Disconnect(t) ==
  /\ pc[t] = "section" /\ at[t] = Past(t) /\ conn[t] \in job[t].closes
  /\ conn' = [conn EXCEPT ![t] = "none"]
  /\ UNCHANGED <<lockVars, job, at, ret, count, changed, lacking>>

Leave(t) ==
  /\ pc[t] = "section" /\ at[t] = Past(t) /\ conn[t] \notin job[t].closes
  /\ EndSection(t)
  /\ UNCHANGED callVars

Unlocking(t) == (RwUnlock(t) \/ ULock(t) \/ Close(t)) /\ UNCHANGED callVars

\* The process is killed and started again; SQLite rolls back a statement
\* that was not finished, those before it stay.
Die(p) ==
  /\ Crash(p)
  /\ LET Gone(t) == ProcOf[t] = p IN
     /\ at'      = [t \in Thread |-> IF Gone(t) THEN 0 ELSE at[t]]
     /\ conn'    = [t \in Thread |-> IF Gone(t) THEN "none" ELSE conn[t]]
     /\ ret'     = [t \in Thread |-> IF Gone(t) THEN "none" ELSE ret[t]]
     /\ count'   = [t \in Thread |-> count[t] /\ ~Gone(t)]
     /\ changed' = [t \in Thread |-> changed[t] /\ ~Gone(t)]
     /\ lacking' = [t \in Thread |-> lacking[t] /\ ~Gone(t)]
  /\ UNCHANGED job

Step(t) ==
  \/ Start(t) \/ LockFails(t) \/ Locking(t)
  \/ Connect(t) \/ ConnectFails(t)
  \/ Works(t) \/ Fails(t)
  \/ Disconnect(t) \/ Leave(t) \/ Unlocking(t)

CallNext == (\E t \in Thread : Step(t)) \/ (\E p \in Proc : Die(p))

CallSpec == InitCall /\ [][CallNext]_vars
=============================================================================
