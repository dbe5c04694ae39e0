------------------------------ MODULE MsdbLock ------------------------------
(***************************************************************************)
(* FileLock and FileUnlock of libs/msdb/msdb.c, the two calls every        *)
(* configuration read and write is bracketed with.  FileLock opens the     *)
(* lock file, takes the process-wide global_rwlock in the requested mode   *)
(* and then a POSIX record lock on the whole file; FileUnlock gives the    *)
(* three back, the rwlock FIRST.                                           *)
(*                                                                         *)
(* A record lock belongs to the PROCESS: lockf by a second thread of the   *)
(* owner succeeds at once, and F_ULOCK or close by any thread of the owner *)
(* drops the lock for all of them.  The kernel looks for deadlocks among   *)
(* processes and fails a lockf that would close a cycle; a signal or a full*)
(* lock table fails it too.  FileLock ignores the result.                  *)
(***************************************************************************)
EXTENDS Naturals, FiniteSets

CONSTANTS Proc,         \* processes that link libmsdb
          Thread,       \* all their threads
          ProcOf,       \* the process of each thread
          Path,         \* lock files: FILE_LOCK_NAME and FILE_TZ_NAME
          NoProc,       \* owner of a file nobody has locked
          OpenMayFail,  \* can open() of the lock file fail?
          LockfMayFail  \* can lockf fail for another reason than a deadlock?

ASSUME ConstantsOK ==
  /\ ProcOf \in [Thread -> Proc]
  /\ NoProc \notin Proc
  /\ OpenMayFail \in BOOLEAN /\ LockfMayFail \in BOOLEAN

VARIABLES pc,      \* where each thread is in FileLock / section / FileUnlock
          mode,    \* the mode argument of its FileLock: "r" or "w"
          path,    \* the file argument
          fd,      \* does it hold an open descriptor (nFd > -1)?
          held,    \* its hold on the global_rwlock of its process
          owner    \* the process that owns the record lock of each file

lockVars == <<pc, mode, path, fd, held, owner>>

Siblings(t) == {s \in Thread : s # t /\ ProcOf[s] = ProcOf[t]}
Single(p)   == \A s, t \in Thread : ProcOf[s] = p /\ ProcOf[t] = p => s = t
InSection(t) == pc[t] = "section"

Init ==
  /\ pc    = [t \in Thread |-> "idle"]
  /\ mode  = [t \in Thread |-> "r"]
  /\ path  \in [Thread -> Path]
  /\ fd    = [t \in Thread |-> FALSE]
  /\ held  = [t \in Thread |-> "none"]
  /\ owner = [f \in Path |-> NoProc]

-----------------------------------------------------------------------------
(* Mistakes that the properties of MsdbLockProps must notice: variants of the
   definitions below with the same parameters, used by no specification. *)

BeginSwapped(t, m, f) ==         \* arguments in the wrong order
  /\ pc[t] = "idle"
  /\ pc'   = [pc EXCEPT ![t] = "open"]
  /\ mode' = [mode EXCEPT ![t] = f]
  /\ path' = [path EXCEPT ![t] = m]
  /\ UNCHANGED <<fd, held, owner>>

WrLockShared(t) ==               \* rdlock for both modes
  /\ pc[t] = "rwlock" /\ mode[t] = "w"
  /\ \A s \in Siblings(t) : held[s] # "w"
  /\ held' = [held EXCEPT ![t] = "w"]
  /\ pc'   = [pc EXCEPT ![t] = "lockf"]
  /\ UNCHANGED <<mode, path, fd, owner>>

LockfNoWait(t) ==                \* in the section without waiting for the lock
  /\ pc[t] \in {"lockf", "blocked"}
  /\ owner' = [owner EXCEPT ![path[t]] = ProcOf[t]]
  /\ pc'    = [pc EXCEPT ![t] = "section"]
  /\ UNCHANGED <<mode, path, fd, held>>

EndNoUnlock(t) ==                \* a return without FileUnlock
  /\ pc[t] = "section"
  /\ pc' = [pc EXCEPT ![t] = "idle"]
  /\ UNCHANGED <<mode, path, fd, held, owner>>

RwUnlockForgotten(t) ==          \* pthread_rwlock_unlock left out
  /\ pc[t] = "rwunlock"
  /\ pc' = [pc EXCEPT ![t] = "ulock"]
  /\ UNCHANGED <<mode, path, fd, held, owner>>

-----------------------------------------------------------------------------
(* FileLock *)

\* A handler of msdb.c calls FileLock.
Begin(t, m, f) ==
  /\ pc[t] = "idle"
  /\ pc'   = [pc EXCEPT ![t] = "open"]
  /\ mode' = [mode EXCEPT ![t] = m]
  /\ path' = [path EXCEPT ![t] = f]
  /\ UNCHANGED <<fd, held, owner>>

OpenOk(t) ==
  /\ pc[t] = "open"
  /\ pc' = [pc EXCEPT ![t] = "rwlock"]
  /\ fd' = [fd EXCEPT ![t] = TRUE]
  /\ UNCHANGED <<mode, path, held, owner>>

\* open() failed: FileLock returns -1 with nothing locked.  The few callers
\* that test the result give up, the others go on into their section.
OpenFail(t, tested) ==
  /\ OpenMayFail
  /\ pc[t] = "open"
  /\ pc' = [pc EXCEPT ![t] = IF tested THEN "idle" ELSE "section"]
  /\ UNCHANGED <<mode, path, fd, held, owner>>

RdLock(t) ==
  /\ pc[t] = "rwlock" /\ mode[t] = "r"
  /\ \A s \in Siblings(t) : held[s] # "w"
  /\ held' = [held EXCEPT ![t] = "r"]
  /\ pc'   = [pc EXCEPT ![t] = "lockf"]
  /\ UNCHANGED <<mode, path, fd, owner>>

WrLock(t) ==
  /\ pc[t] = "rwlock" /\ mode[t] = "w"
  /\ \A s \in Siblings(t) : held[s] = "none"
  /\ held' = [held EXCEPT ![t] = "w"]
  /\ pc'   = [pc EXCEPT ![t] = "lockf"]
  /\ UNCHANGED <<mode, path, fd, owner>>

\* Another process has the record lock t asks for.
Conflict(t) == owner[path[t]] \notin {NoProc, ProcOf[t]}

\* That process has a thread asleep in lockf for a file t's process owns.
\* With two lock files no longer cycle of waiting processes exists.
ClosesCycle(t) ==
  \E s \in Thread : /\ pc[s] = "blocked"
                    /\ ProcOf[s] = owner[path[t]]
                    /\ owner[path[s]] = ProcOf[t]

LockfGrant(t) ==
  /\ pc[t] \in {"lockf", "blocked"}
  /\ ~Conflict(t)
  /\ owner' = [owner EXCEPT ![path[t]] = ProcOf[t]]
  /\ pc'    = [pc EXCEPT ![t] = "section"]
  /\ UNCHANGED <<mode, path, fd, held>>

LockfBlock(t) ==
  /\ pc[t] = "lockf"
  /\ Conflict(t) /\ ~ClosesCycle(t)
  /\ pc' = [pc EXCEPT ![t] = "blocked"]
  /\ UNCHANGED <<mode, path, fd, held, owner>>

\* EDEADLK: FileLock does not look at the result and returns the descriptor.
LockfDeadlk(t) ==
  /\ pc[t] \in {"lockf", "blocked"}
  /\ Conflict(t) /\ ClosesCycle(t)
  /\ pc' = [pc EXCEPT ![t] = "section"]
  /\ UNCHANGED <<mode, path, fd, held, owner>>

\* EINTR, ENOLCK, EIO: the same, whoever has the record lock.
LockfFails(t) ==
  /\ LockfMayFail
  /\ pc[t] \in {"lockf", "blocked"}
  /\ pc' = [pc EXCEPT ![t] = "section"]
  /\ UNCHANGED <<mode, path, fd, held, owner>>

-----------------------------------------------------------------------------
(* FileUnlock *)

\* F_ULOCK and close drop the lock of the process, whoever took it.
DropLock(p, f) ==
  owner' = [owner EXCEPT ![f] = IF @ = p THEN NoProc ELSE @]

\* FileUnlock(-1) returns at once, else the rwlock is released first.
EndSection(t) ==
  /\ pc[t] = "section"
  /\ pc' = [pc EXCEPT ![t] = IF fd[t] THEN "rwunlock" ELSE "idle"]
  /\ UNCHANGED <<mode, path, fd, held, owner>>

RwUnlock(t) ==
  /\ pc[t] = "rwunlock"
  /\ held' = [held EXCEPT ![t] = "none"]
  /\ pc'   = [pc EXCEPT ![t] = "ulock"]
  /\ UNCHANGED <<mode, path, fd, owner>>

ULock(t) ==
  /\ pc[t] = "ulock"
  /\ DropLock(ProcOf[t], path[t])
  /\ pc' = [pc EXCEPT ![t] = "close"]
  /\ UNCHANGED <<mode, path, fd, held>>

Close(t) ==
  /\ pc[t] = "close"
  /\ DropLock(ProcOf[t], path[t])
  /\ fd' = [fd EXCEPT ![t] = FALSE]
  /\ pc' = [pc EXCEPT ![t] = "idle"]
  /\ UNCHANGED <<mode, path, held>>

\* A process dies and is started again: the kernel drops its record locks and
\* closes its files, its rwlock is gone with its memory.
Crash(p) ==
  /\ pc'    = [t \in Thread |-> IF ProcOf[t] = p THEN "idle" ELSE pc[t]]
  /\ fd'    = [t \in Thread |-> IF ProcOf[t] = p THEN FALSE ELSE fd[t]]
  /\ held'  = [t \in Thread |-> IF ProcOf[t] = p THEN "none" ELSE held[t]]
  /\ owner' = [f \in Path |-> IF owner[f] = p THEN NoProc ELSE owner[f]]
  /\ UNCHANGED <<mode, path>>

-----------------------------------------------------------------------------
FileLockStep(t) ==
  \/ OpenOk(t) \/ (\E tested \in BOOLEAN : OpenFail(t, tested))
  \/ RdLock(t) \/ WrLock(t)
  \/ LockfGrant(t) \/ LockfBlock(t) \/ LockfDeadlk(t) \/ LockfFails(t)

FileUnlockStep(t) == EndSection(t) \/ RwUnlock(t) \/ ULock(t) \/ Close(t)

Next ==
  \/ \E t \in Thread :
       \/ \E m \in {"r", "w"}, f \in Path : Begin(t, m, f)
       \/ FileLockStep(t)
       \/ FileUnlockStep(t)
  \/ \E p \in Proc : Crash(p)

Spec == Init /\ [][Next]_lockVars

(***************************************************************************)
(* Every thread keeps running.  A default rwlock prefers readers, so a     *)
(* reader that waits is let in when a writer leaves (SF); no such promise  *)
(* is made to a writer.  The kernel wakes the sleepers of a record lock    *)
(* when it is dropped and serves them in order (SF).                       *)
(***************************************************************************)
Fairness ==
  \A t \in Thread :
    /\ WF_lockVars(OpenOk(t))
    /\ SF_lockVars(RdLock(t))
    /\ WF_lockVars(WrLock(t))
    /\ SF_lockVars(LockfGrant(t))
    /\ WF_lockVars(LockfBlock(t))
    /\ WF_lockVars(LockfDeadlk(t))
    /\ WF_lockVars(FileUnlockStep(t))

FairSpec == Spec /\ Fairness
=============================================================================
