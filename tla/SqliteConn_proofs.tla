-------------------------- MODULE SqliteConn_proofs --------------------------
(***************************************************************************)
(* ccsqlite.c for any number of clients, calls, rows and attempts: its     *)
(* variables stay in their sets, and contention alone never makes          *)
(* sqlite_execute fail.                                                    *)
(***************************************************************************)
EXTENDS SqliteConn, TLAPS

-----------------------------------------------------------------------------
(* Type correctness, by the groups of Next *)

LEMMA ExecuteTyped ==
  ASSUME TypeOK, NEW c \in Client, Execute(c)
  PROVE  TypeOK'
<1> USE ConnConstantsOK DEF TypeOK
<1>1. CASE ExecRuns(c) \/ ExecOk(c)
  BY <1>1 DEF ExecRuns, ExecOk, Return, Goto
<1>2. CASE ExecBusy(c)
  BY <1>2 DEF ExecBusy, Counted
<1>3. CASE ExecError(c) \/ ExecTransient(c)
  <2>1. ErrorCounts(c)
    BY <1>3 DEF ExecError, ExecTransient
  <2>2. CASE tries[c] + 1 < SQLITE_OPT_CNT
    BY <2>1, <2>2 DEF ErrorCounts
  <2>3. CASE ~(tries[c] + 1 < SQLITE_OPT_CNT)
    BY <2>1, <2>3 DEF ErrorCounts, Return, Goto
  <2> QED
    BY <2>2, <2>3
<1> QED
  BY <1>1, <1>2, <1>3 DEF Execute

LEMMA QueryTyped ==
  ASSUME TypeOK, NEW c \in Client, Query(c)
  PROVE  TypeOK'
<1> USE ConnConstantsOK DEF TypeOK
<1>1. CASE PrepareOk(c)
  BY <1>1 DEF PrepareOk, Goto
<1>2. CASE PrepareFails(c)
  BY <1>2 DEF PrepareFails, Return, Goto
<1>3. CASE StepRow(c) \/ StepDone(c)
  BY <1>3 DEF StepRow, StepDone, Return, Goto
<1>4. ASSUME NEW code \in {SQLITE_ERROR, SQLITE_BUSY}, StepFails(c, code)
      PROVE  TypeOK'
  BY <1>4 DEF StepFails, Return, Goto, SQLITE_ERROR
<1> QED
  BY <1>1, <1>2, <1>3, <1>4 DEF Query

LEMMA FetchTyped ==
  ASSUME TypeOK, NEW c \in Client, Fetch(c) \/ Blob(c) \/ ClearStmt(c) \/ Disconn(c)
  PROVE  TypeOK'
<1> USE ConnConstantsOK DEF TypeOK
<1>1. CASE Fetch(c)
  BY <1>1 DEF Fetch, NextRow, NextDone, NextFails, EndRows, Goto
<1>2. CASE Blob(c)
  BY <1>2 DEF Blob, ExecBlobOk, ExecBlobFails, Return, Goto
<1>3. CASE ClearStmt(c) \/ Disconn(c)
  BY <1>3 DEF ClearStmt, Disconn, Goto
<1> QED
  BY <1>1, <1>2, <1>3

LEMMA ConnTyped ==
  ASSUME TypeOK, NEW c \in Client, Conn(c)
  PROVE  TypeOK'
<1> USE ConnConstantsOK DEF TypeOK
<1>1. PICK k \in Kinds, b \in BOOLEAN, n \in 0 .. MaxRows :
        /\ kind' = [kind EXCEPT ![c] = k]
        /\ bad'  = [bad EXCEPT ![c] = b]
        /\ rows' = [rows EXCEPT ![c] = IF k \in {"query", "blobquery"} THEN n ELSE 0]
        /\ Goto(c, IF k = "execute" THEN "exec" ELSE "prepare")
  BY DEF Conn
<1>2. /\ kind' \in [Client -> Kinds] /\ bad' \in [Client -> BOOLEAN]
      /\ rows' \in [Client -> 0 .. MaxRows]
  BY <1>1
<1>3. pc' \in [Client -> {"closed", "exec", "writing", "prepare", "step", "rows",
                          "bind", "returned", "ended"}]
  BY <1>1 DEF Goto
<1>4. tries' \in [Client -> 0 .. SQLITE_OPT_CNT] /\ made' \in [Client -> 0 .. MaxCalls]
      /\ locked' \in [Client -> BOOLEAN]
  BY DEF Conn
<1>5. UNCHANGED <<ret, stmt, writer, outside>>
  BY DEF Conn
<1> QED
  BY <1>2, <1>3, <1>4, <1>5

LEMMA TypeStep == TypeOK /\ [Next]_vars => TypeOK'
<1> SUFFICES ASSUME TypeOK, [Next]_vars PROVE TypeOK'
  OBVIOUS
<1>1. CASE OutsideLocks \/ OutsideUnlocks \/ UNCHANGED vars
  BY <1>1 DEF OutsideLocks, OutsideUnlocks, vars, TypeOK
<1> QED
  BY <1>1, ConnTyped, ExecuteTyped, QueryTyped, FetchTyped DEF Next

LEMMA InitTyped == Init => TypeOK
<1> SUFFICES ASSUME Init PROVE TypeOK
  OBVIOUS
<1>1. "query" \in Kinds
  BY DEF Kinds
<1>2. 0 \in 0 .. SQLITE_OPT_CNT /\ 0 \in 0 .. MaxRows /\ 0 \in 0 .. MaxCalls
  BY ConnConstantsOK
<1> QED
  BY <1>1, <1>2 DEF Init, TypeOK

\* The calls of ccsqlite.c are type correct.
THEOREM ConnTypeCorrect == Spec => []TypeOK
  BY InitTyped, TypeStep, PTL DEF Spec

-----------------------------------------------------------------------------
(* Why contention is not a failure of sqlite_execute: -1 comes from an       *)
(* attempt that failed for another reason, or from another kind of call.     *)

\* A client is where its kind of call can be, and it has a statement to
\* finalize after a query or a blob call only.
KindInv(c) ==
  /\ pc[c] \in {"exec", "writing"} => kind[c] = "execute"
  /\ pc[c] \in {"prepare", "step", "rows", "bind", "ended"} => kind[c] # "execute"
  /\ stmt[c] => kind[c] # "execute" /\ pc[c] # "closed"

ErrorInv(c) ==
  Returned(c) /\ kind[c] = "execute" /\ ret[c] = -1
    => ~locked[c] /\ tries[c] + 1 >= SQLITE_OPT_CNT

ExecInv == \A c \in Client : KindInv(c) /\ ErrorInv(c)

LEMMA ConnKept ==
  ASSUME TypeOK, ExecInv, NEW c \in Client, Conn(c)
  PROVE  ExecInv'
<1> USE DEF TypeOK
<1>1. PICK k \in Kinds : /\ kind' = [kind EXCEPT ![c] = k]
                         /\ Goto(c, IF k = "execute" THEN "exec" ELSE "prepare")
  BY DEF Conn
<1>2. /\ kind'[c] = k /\ pc'[c] = (IF k = "execute" THEN "exec" ELSE "prepare")
      /\ \A d \in Client \ {c} : kind'[d] = kind[d] /\ pc'[d] = pc[d]
  BY <1>1 DEF Goto
<1>3. /\ ret' = ret /\ stmt' = stmt /\ pc[c] = "closed"
      /\ \A d \in Client \ {c} : locked'[d] = locked[d] /\ tries'[d] = tries[d]
  BY DEF Conn
<1>4. ~stmt[c]
  BY <1>3 DEF ExecInv, KindInv
<1> QED
  BY <1>2, <1>3, <1>4 DEF ExecInv, KindInv, ErrorInv, Returned

LEMMA ExecuteKept ==
  ASSUME TypeOK, ExecInv, NEW c \in Client, Execute(c)
  PROVE  ExecInv'
<1> USE DEF TypeOK, ExecInv, KindInv, ErrorInv, Returned
<1>1. CASE ExecRuns(c)
  BY <1>1 DEF ExecRuns, Goto
<1>2. CASE ExecOk(c)
  BY <1>2 DEF ExecOk, Return, Goto
<1>3. CASE ExecBusy(c)
  BY <1>3 DEF ExecBusy
<1>4. CASE ExecError(c) \/ ExecTransient(c)
  BY <1>4, ConnConstantsOK DEF ExecError, ExecTransient, ErrorCounts, Return, Goto
<1> QED
  BY <1>1, <1>2, <1>3, <1>4 DEF Execute

LEMMA QueryKept ==
  ASSUME TypeOK, ExecInv, NEW c \in Client, Query(c)
  PROVE  ExecInv'
<1> USE DEF TypeOK, ExecInv, KindInv, ErrorInv, Returned
<1>1. CASE PrepareOk(c)
  BY <1>1 DEF PrepareOk, Goto
<1>2. CASE PrepareFails(c)
  BY <1>2 DEF PrepareFails, Return, Goto
<1>3. CASE StepRow(c) \/ StepDone(c)
  BY <1>3 DEF StepRow, StepDone, Return, Goto
<1>4. ASSUME NEW code \in {SQLITE_ERROR, SQLITE_BUSY}, StepFails(c, code)
      PROVE  ExecInv'
  BY <1>4 DEF StepFails, Return, Goto
<1> QED
  BY <1>1, <1>2, <1>3, <1>4 DEF Query

LEMMA FetchKept ==
  ASSUME TypeOK, ExecInv, NEW c \in Client, Fetch(c) \/ Blob(c) \/ ClearStmt(c) \/ Disconn(c)
  PROVE  ExecInv'
<1> USE DEF TypeOK, ExecInv, KindInv, ErrorInv, Returned
<1>1. CASE Fetch(c)
  BY <1>1 DEF Fetch, NextRow, NextDone, NextFails, EndRows, Goto
<1>2. CASE Blob(c)
  BY <1>2 DEF Blob, ExecBlobOk, ExecBlobFails, Return, Goto
<1>3. CASE ClearStmt(c)
  BY <1>3 DEF ClearStmt, Goto
<1>4. CASE Disconn(c)
  BY <1>4 DEF Disconn, Goto
<1> QED
  BY <1>1, <1>2, <1>3, <1>4

LEMMA ExecStep ==
  ASSUME TypeOK, ExecInv, [Next]_vars
  PROVE  ExecInv'
<1>1. CASE OutsideLocks \/ OutsideUnlocks \/ UNCHANGED vars
  BY <1>1 DEF OutsideLocks, OutsideUnlocks, vars, ExecInv, KindInv, ErrorInv, Returned
<1> QED
  BY <1>1, ConnKept, ExecuteKept, QueryKept, FetchKept DEF Next

\* However long the database is locked, sqlite_execute fails only after all its
\* attempts, with one that failed for another reason.
THEOREM OnlyErrorsFail == Spec => []LockNeverFailsExecute
<1>1. Init => TypeOK /\ ExecInv
  BY InitTyped DEF Init, ExecInv, KindInv, ErrorInv, Returned
<1>2. TypeOK /\ ExecInv /\ [Next]_vars => (TypeOK /\ ExecInv)'
  BY TypeStep, ExecStep
<1>3. ExecInv => LockNeverFailsExecute
  BY DEF ExecInv, ErrorInv, LockNeverFailsExecute
<1> QED
  BY <1>1, <1>2, <1>3, PTL DEF Spec
=============================================================================
