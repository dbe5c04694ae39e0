--------------------------- MODULE MsdbLockProps ---------------------------
(***************************************************************************)
(* What FileLock and FileUnlock guarantee their callers, and how little of *)
(* it is left when a process has more than one thread.                     *)
(***************************************************************************)
EXTENDS MsdbLock

\* The two lock calls of msdb.c keep their state within its ranges.
TypeOK ==
  /\ pc \in [Thread -> {"idle", "open", "rwlock", "lockf", "blocked",
                        "section", "rwunlock", "ulock", "close"}]
  /\ mode \in [Thread -> {"r", "w"}]
  /\ path \in [Thread -> Path]
  /\ fd \in [Thread -> BOOLEAN]
  /\ held \in [Thread -> {"none", "r", "w"}]
  /\ owner \in [Path -> Proc \cup {NoProc}]

\* Threads of one process: a section entered with mode 'w' excludes every
\* other section of the process, on either file, unless the open of one of
\* the two failed and its caller went on regardless.
SiblingExclusion ==
  \A s, t \in Thread :
    /\ s # t /\ ProcOf[s] = ProcOf[t]
    /\ InSection(s) /\ InSection(t)
    /\ mode[s] = "w"
    => ~fd[s] \/ ~fd[t]

\* Threads of two processes: sections on the same lock file exclude each
\* other when both processes are single-threaded, both opens succeeded and
\* lockf fails for no other reason than a deadlock (msdb.c:55 ignores all).
CrossExclusion ==
  \A s, t \in Thread :
    /\ ~LockfMayFail
    /\ ProcOf[s] # ProcOf[t]
    /\ InSection(s) /\ InSection(t)
    /\ path[s] = path[t]
    /\ fd[s] /\ fd[t]
    => ~Single(ProcOf[s]) \/ ~Single(ProcOf[t])

\* A running section that has its record lock loses it only when another
\* thread of its own process is in the second half of FileUnlock on the same
\* file: no other process, and no failed lockf, takes it away.
Loses(t) == /\ InSection(t) /\ owner[path[t]] = ProcOf[t]
            /\ InSection(t)' /\ owner'[path[t]] # ProcOf[t]
SiblingUnlocks(t) == \E s \in Siblings(t) : /\ pc[s] \in {"ulock", "close"}
                                            /\ path[s] = path[t]
                                            /\ pc'[s] # pc[s]
LossStep == \A t \in Thread : Loses(t) => SiblingUnlocks(t)
LostOnlyToSibling == [][LossStep]_lockVars

\* FileUnlock leaves nothing behind: once no thread of a process is between
\* FileLock and the end of FileUnlock, no lock file is owned by it.
NoLockLeak ==
  \A f \in Path : owner[f] # NoProc =>
    \E t \in Thread : ProcOf[t] = owner[f] /\ pc[t] # "idle"

\* A reader that waits in FileLock gets into its section, or its process dies;
\* so does a writer of a single-threaded process, which waits for other
\* processes only.  A writer with siblings may wait for ever behind readers.
Preferred(t) == mode[t] = "r" \/ Single(ProcOf[t])
PreferredEnter ==
  \A t \in Thread :
    (pc[t] = "rwlock" /\ Preferred(t)) ~> (InSection(t) \/ pc[t] = "idle")

\* However the threads wait for the rwlock and the record lock, somebody is
\* let in, unless processes crash for ever: two locks that are always taken in
\* the same order, the first per process and the second across processes,
\* never leave everybody waiting.
SomebodyWaits == \E t \in Thread : pc[t] \in {"rwlock", "lockf", "blocked"}
NobodyStuck ==
  \/ []<><<\E p \in Proc : Crash(p)>>_lockVars
  \/ SomebodyWaits ~> (~SomebodyWaits \/ \E t \in Thread : InSection(t))

-----------------------------------------------------------------------------
(* The lock as an implementation of mutual exclusion. *)

Inside == [f \in Path |-> {t \in Thread : InSection(t) /\ path[t] = f}]
SL == INSTANCE SectionLock WITH inside <- Inside

\* When every process has one thread, the lock files can be opened and lockf
\* fails for deadlocks only, the two calls implement a mutual exclusion lock
\* per lock file, crashes included.
SectionLockSpec == SL!Spec
=============================================================================
