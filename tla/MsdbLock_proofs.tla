--------------------------- MODULE MsdbLock_proofs ---------------------------
(***************************************************************************)
(* The safety of FileLock and FileUnlock for every set of processes,       *)
(* threads and lock files.                                                 *)
(***************************************************************************)
EXTENDS MsdbLockProps, TLAPS

-----------------------------------------------------------------------------
(* The inductive invariant *)

\* where a thread is tells whether it has a descriptor and the rwlock
FdInv ==
  \A t \in Thread :
    /\ pc[t] \in {"idle", "open"} => ~fd[t]
    /\ pc[t] \in {"rwlock", "lockf", "blocked", "rwunlock", "ulock", "close"} => fd[t]

HeldInv ==
  \A t \in Thread :
    held[t] = IF pc[t] \in {"lockf", "blocked", "rwunlock"} \/ (InSection(t) /\ fd[t])
              THEN mode[t] ELSE "none"

\* the global_rwlock of a process
RwInv ==
  \A s, t \in Thread :
    s # t /\ ProcOf[s] = ProcOf[t] /\ held[s] = "w" => held[t] = "none"

\* who owns a lock file has a thread that will give it back
OwnerInv ==
  \A f \in Path : owner[f] # NoProc =>
    \E t \in Thread : /\ ProcOf[t] = owner[f]
                      /\ path[t] = f
                      /\ fd[t]
                      /\ pc[t] \in {"section", "rwunlock", "ulock", "close"}

\* a single-threaded process owns the file of its section until it unlocks it,
\* as long as lockf does what it says
SingleInv ==
  \A t \in Thread :
    ~LockfMayFail /\ Single(ProcOf[t]) /\ fd[t] /\ pc[t] \in {"section", "rwunlock", "ulock"}
      => owner[path[t]] = ProcOf[t]

IInv == TypeOK /\ FdInv /\ HeldInv /\ RwInv /\ OwnerInv /\ SingleInv

-----------------------------------------------------------------------------
\* The steps of FileLock and FileUnlock keep every variable within its range.
LEMMA TypeStep == TypeOK /\ [Next]_lockVars => TypeOK'
<1> SUFFICES ASSUME TypeOK, [Next]_lockVars PROVE TypeOK'
  OBVIOUS
<1> USE ConstantsOK DEF TypeOK
<1>1. ASSUME NEW t \in Thread, NEW m \in {"r", "w"}, NEW f \in Path, Begin(t, m, f)
      PROVE  TypeOK'
  BY <1>1 DEF Begin
<1>2. ASSUME NEW t \in Thread, FileLockStep(t)
      PROVE  TypeOK'
  BY <1>2 DEF FileLockStep, OpenOk, OpenFail, RdLock, WrLock, LockfGrant,
              LockfBlock, LockfDeadlk, LockfFails
<1>3. ASSUME NEW t \in Thread, FileUnlockStep(t)
      PROVE  TypeOK'
  BY <1>3 DEF FileUnlockStep, EndSection, RwUnlock, ULock, Close, DropLock
<1>4. ASSUME NEW p \in Proc, Crash(p)
      PROVE  TypeOK'
  BY <1>4 DEF Crash
<1>5. CASE UNCHANGED lockVars
  BY <1>5 DEF lockVars
<1>6. QED
  BY <1>1, <1>2, <1>3, <1>4, <1>5 DEF Next

\* The lock calls are type correct: TypeOK holds in every reachable state.
THEOREM TypeCorrect == Spec => []TypeOK
<1>1. Init => TypeOK
  BY ConstantsOK DEF Init, TypeOK
<1>2. QED
  BY <1>1, TypeStep, PTL DEF Spec

-----------------------------------------------------------------------------
LEMMA InitIInv == Init => IInv
  BY ConstantsOK DEF Init, IInv, TypeOK, FdInv, HeldInv, RwInv, OwnerInv, SingleInv, InSection

\* A step keeps the descriptor and the rwlock hold in line with the place of
\* the thread, and the rwlock of a process exclusive.
LEMMA HoldStep ==
  ASSUME IInv, [Next]_lockVars
  PROVE  FdInv' /\ HeldInv' /\ RwInv'
<1> USE ConstantsOK DEF IInv, TypeOK, FdInv, HeldInv, RwInv, InSection
<1>1. ASSUME NEW t \in Thread, NEW m \in {"r", "w"}, NEW f \in Path, Begin(t, m, f)
      PROVE  FdInv' /\ HeldInv' /\ RwInv'
  BY <1>1 DEF Begin
<1>2. ASSUME NEW t \in Thread, FileLockStep(t)
      PROVE  FdInv' /\ HeldInv' /\ RwInv'
  <2>1. CASE OpenOk(t)
    BY <2>1 DEF OpenOk
  <2>2. ASSUME NEW tested \in BOOLEAN, OpenFail(t, tested)
        PROVE  FdInv' /\ HeldInv' /\ RwInv'
    BY <2>2 DEF OpenFail
  <2>3. CASE RdLock(t)
    BY <2>3 DEF RdLock, Siblings
  <2>4. CASE WrLock(t)
    BY <2>4 DEF WrLock, Siblings
  <2>5. CASE LockfGrant(t) \/ LockfBlock(t) \/ LockfDeadlk(t) \/ LockfFails(t)
    BY <2>5 DEF LockfGrant, LockfBlock, LockfDeadlk, LockfFails
  <2>6. QED
    BY <1>2, <2>1, <2>2, <2>3, <2>4, <2>5 DEF FileLockStep
<1>3. ASSUME NEW t \in Thread, FileUnlockStep(t)
      PROVE  FdInv' /\ HeldInv' /\ RwInv'
  BY <1>3 DEF FileUnlockStep, EndSection, RwUnlock, ULock, Close
<1>4. ASSUME NEW p \in Proc, Crash(p)
      PROVE  FdInv' /\ HeldInv' /\ RwInv'
  BY <1>4 DEF Crash
<1>5. CASE UNCHANGED lockVars
  BY <1>5 DEF lockVars
<1>6. QED
  BY <1>1, <1>2, <1>3, <1>4, <1>5 DEF Next

\* A step leaves no lock file with an owner that has no thread to free it.
LEMMA OwnerStep ==
  ASSUME IInv, [Next]_lockVars
  PROVE  OwnerInv'
<1> USE ConstantsOK DEF IInv, TypeOK, OwnerInv, InSection
<1>1. ASSUME NEW t \in Thread, NEW m \in {"r", "w"}, NEW f \in Path, Begin(t, m, f)
      PROVE  OwnerInv'
  BY <1>1 DEF Begin, FdInv
<1>2. ASSUME NEW t \in Thread, FileLockStep(t)
      PROVE  OwnerInv'
  <2>1. CASE OpenOk(t) \/ (\E tested \in BOOLEAN : OpenFail(t, tested))
    BY <2>1 DEF OpenOk, OpenFail
  <2>2. CASE RdLock(t) \/ WrLock(t)
    BY <2>2 DEF RdLock, WrLock
  <2>3. CASE LockfBlock(t) \/ LockfDeadlk(t) \/ LockfFails(t)
    BY <2>3 DEF LockfBlock, LockfDeadlk, LockfFails
  <2>4. CASE LockfGrant(t)
    BY <2>4 DEF LockfGrant, FdInv
  <2>5. QED
    BY <1>2, <2>1, <2>2, <2>3, <2>4 DEF FileLockStep
<1>3. ASSUME NEW t \in Thread, FileUnlockStep(t)
      PROVE  OwnerInv'
  <2>1. CASE EndSection(t)
    BY <2>1 DEF EndSection
  <2>2. CASE RwUnlock(t)
    BY <2>2 DEF RwUnlock
  <2>3. CASE ULock(t)
    BY <2>3 DEF ULock, DropLock
  <2>4. CASE Close(t)
    BY <2>4 DEF Close, DropLock
  <2>5. QED
    BY <1>3, <2>1, <2>2, <2>3, <2>4 DEF FileUnlockStep
<1>4. ASSUME NEW p \in Proc, Crash(p)
      PROVE  OwnerInv'
  BY <1>4 DEF Crash
<1>5. CASE UNCHANGED lockVars
  BY <1>5 DEF lockVars
<1>6. QED
  BY <1>1, <1>2, <1>3, <1>4, <1>5 DEF Next

\* The one thread of a process that waits for a record lock, or has yet to
\* ask for one, finds its process the owner of no file at all.
LEMMA SingleOwnsNothing ==
  ASSUME IInv, NEW t \in Thread, Single(ProcOf[t]),
         ~fd[t] \/ pc[t] \notin {"section", "rwunlock", "ulock", "close"}
  PROVE  \A f \in Path : owner[f] # ProcOf[t]
  BY ConstantsOK DEF IInv, OwnerInv, TypeOK, Single

\* A step takes no record lock from the section of a single-threaded process.
LEMMA SingleStep ==
  ASSUME IInv, [Next]_lockVars
  PROVE  SingleInv'
<1> SUFFICES ASSUME ~LockfMayFail PROVE SingleInv'
  BY DEF SingleInv
<1> USE ConstantsOK DEF IInv, TypeOK, SingleInv, InSection
<1>1. ASSUME NEW t \in Thread, NEW m \in {"r", "w"}, NEW f \in Path, Begin(t, m, f)
      PROVE  SingleInv'
  BY <1>1 DEF Begin
<1>2. ASSUME NEW t \in Thread, FileLockStep(t)
      PROVE  SingleInv'
  <2>1. CASE OpenOk(t)
    BY <2>1 DEF OpenOk
  <2>2. CASE \E tested \in BOOLEAN : OpenFail(t, tested)
    BY <2>2 DEF OpenFail, FdInv
  <2>3. CASE RdLock(t) \/ WrLock(t)
    BY <2>3 DEF RdLock, WrLock
  <2>4. CASE LockfBlock(t)
    BY <2>4 DEF LockfBlock
  <2>5. CASE LockfDeadlk(t)
    <3>1. ~Single(ProcOf[t])
      BY <2>5, SingleOwnsNothing DEF LockfDeadlk, ClosesCycle
    <3>2. QED
      BY <2>5, <3>1 DEF LockfDeadlk
  <2>6. CASE LockfGrant(t)
    <3> SUFFICES ASSUME NEW u \in Thread, Single(ProcOf[u]), fd[u],
                        pc'[u] \in {"section", "rwunlock", "ulock"}
                 PROVE  owner'[path[u]] = ProcOf[u]
      BY <2>6 DEF LockfGrant
    <3>1. CASE u = t
      BY <2>6, <3>1 DEF LockfGrant
    <3>2. CASE u # t
      <4>1. owner[path[u]] = ProcOf[u] /\ ProcOf[u] # ProcOf[t]
        BY <2>6, <3>2 DEF LockfGrant, Single
      <4>2. path[u] # path[t]
        BY <2>6, <4>1 DEF LockfGrant, Conflict
      <4>3. QED
        BY <2>6, <4>1, <4>2 DEF LockfGrant
    <3>3. QED
      BY <3>1, <3>2
  <2>7. QED
    BY <1>2, <2>1, <2>2, <2>3, <2>4, <2>5, <2>6 DEF FileLockStep, LockfFails
<1>3. ASSUME NEW t \in Thread, FileUnlockStep(t)
      PROVE  SingleInv'
  <2>1. CASE EndSection(t) \/ RwUnlock(t)
    BY <2>1 DEF EndSection, RwUnlock
  <2>2. CASE ULock(t)
    BY <2>2 DEF ULock, DropLock, Single
  <2>3. CASE Close(t)
    BY <2>3 DEF Close, DropLock, Single
  <2>4. QED
    BY <1>3, <2>1, <2>2, <2>3 DEF FileUnlockStep
<1>4. ASSUME NEW p \in Proc, Crash(p)
      PROVE  SingleInv'
  BY <1>4 DEF Crash
<1>5. CASE UNCHANGED lockVars
  BY <1>5 DEF lockVars
<1>6. QED
  BY <1>1, <1>2, <1>3, <1>4, <1>5 DEF Next, Single

\* The inductive invariant of FileLock and FileUnlock.
THEOREM Inductive == Spec => []IInv
<1>1. IInv /\ [Next]_lockVars => IInv'
  BY TypeStep, HoldStep, OwnerStep, SingleStep DEF IInv
<1>2. QED
  BY InitIInv, <1>1, PTL DEF Spec

-----------------------------------------------------------------------------
\* Within a process a write section excludes every other section, unless the
\* lock file of one of them could not be opened.
THEOREM SiblingsExclude == Spec => []SiblingExclusion
<1>1. IInv => SiblingExclusion
  BY DEF IInv, TypeOK, HeldInv, RwInv, SiblingExclusion, InSection
<1>2. QED
  BY <1>1, Inductive, PTL

\* Single-threaded processes exclude each other, whatever the others do, where
\* lockf fails for deadlocks only.
THEOREM ProcessesExclude == Spec => []CrossExclusion
<1>1. IInv => CrossExclusion
  BY DEF IInv, TypeOK, SingleInv, CrossExclusion, InSection
<1>2. QED
  BY <1>1, Inductive, PTL

\* A lock file that is owned will be given back: its owner still runs a thread
\* that is on its way to the end of FileUnlock.
THEOREM NothingLeaks == Spec => []NoLockLeak
<1>1. IInv => NoLockLeak
  BY DEF IInv, OwnerInv, NoLockLeak
<1>2. QED
  BY <1>1, Inductive, PTL

\* A running section loses its record lock to a sibling thread in FileUnlock
\* on the same file, and to nothing else.
THEOREM OnlySiblingsTake == Spec => LostOnlyToSibling
<1>1. ASSUME IInv, [Next]_lockVars, NEW t \in Thread, Loses(t)
      PROVE  SiblingUnlocks(t)
  <2> USE ConstantsOK, <1>1 DEF Loses, IInv, TypeOK, InSection
  <2>1. ~UNCHANGED owner
    OBVIOUS
  <2>2. ASSUME NEW u \in Thread, LockfGrant(u)
        PROVE  FALSE
    BY <2>2 DEF LockfGrant, Conflict
  <2>3. ASSUME NEW u \in Thread, ULock(u) \/ Close(u)
        PROVE  SiblingUnlocks(t)
    BY <2>3 DEF ULock, Close, DropLock, Siblings, SiblingUnlocks
  <2>4. ASSUME NEW p \in Proc, Crash(p)
        PROVE  FALSE
    BY <2>4 DEF Crash
  <2>5. QED
    BY <2>1, <2>2, <2>3, <2>4
       DEF Next, lockVars, FileLockStep, FileUnlockStep, Begin, OpenOk, OpenFail,
           RdLock, WrLock, LockfBlock, LockfDeadlk, LockfFails, EndSection, RwUnlock
<1>2. IInv /\ [Next]_lockVars => [LossStep]_lockVars
  BY <1>1 DEF LossStep
<1>3. QED
  BY <1>2, Inductive, PTL DEF Spec, LostOnlyToSibling

-----------------------------------------------------------------------------
\* A thread that leaves the sections altogether leaves the one section it was in.
LEMMA OneSectionLeft ==
  ASSUME NEW t \in Thread, path[t] \in Path,
         Inside'[path[t]] = Inside[path[t]] \ {t},
         \A f \in Path \ {path[t]} : Inside'[f] = Inside[f]
  PROVE  Inside' = [Inside EXCEPT ![path[t]] = Inside[path[t]] \ {t}]
<1>1. /\ Inside = [f \in Path |-> Inside[f]]
      /\ Inside' = [f \in Path |-> Inside'[f]]
  BY DEF Inside
<1>2. [Inside EXCEPT ![path[t]] = Inside[path[t]] \ {t}]
        = [f \in Path |-> IF f = path[t] THEN Inside[path[t]] \ {t} ELSE Inside[f]]
  BY <1>1
<1>3. \A f \in Path :
        Inside'[f] = IF f = path[t] THEN Inside[path[t]] \ {t} ELSE Inside[f]
  OBVIOUS
<1>4. Inside' = [f \in Path |-> IF f = path[t] THEN Inside[path[t]] \ {t} ELSE Inside[f]]
  BY <1>1, <1>3
<1>5. QED
  BY <1>2, <1>4

\* With single-threaded processes, lock files that open and a lockf that fails
\* for deadlocks only, a step of the two calls is a step of the mutual exclusion
\* lock, or changes nothing of it.
LEMMA SectionStep ==
  ASSUME IInv, [Next]_lockVars, ~OpenMayFail, ~LockfMayFail, \A p \in Proc : Single(p),
         \A t \in Thread : InSection(t) => fd[t]
  PROVE  [SL!Next]_Inside
<1> USE ConstantsOK DEF IInv, TypeOK, InSection
<1>0. Inside = [f \in Path |-> {t \in Thread : pc[t] = "section" /\ path[t] = f}]
  BY DEF Inside
<1>1. ASSUME NEW t \in Thread, NEW m \in {"r", "w"}, NEW f \in Path, Begin(t, m, f)
      PROVE  UNCHANGED Inside
  BY <1>1 DEF Begin, Inside
<1>2. ASSUME NEW t \in Thread, OpenOk(t) \/ RdLock(t) \/ WrLock(t) \/ LockfBlock(t)
                                \/ RwUnlock(t) \/ ULock(t) \/ Close(t)
      PROVE  UNCHANGED Inside
  BY <1>2 DEF OpenOk, RdLock, WrLock, LockfBlock, RwUnlock, ULock, Close, Inside
<1>3. ASSUME NEW t \in Thread, LockfDeadlk(t)
      PROVE  FALSE
  BY <1>3, SingleOwnsNothing DEF LockfDeadlk, ClosesCycle
<1>4. ASSUME NEW t \in Thread, LockfGrant(t)
      PROVE  SL!Next
  <2>1. Inside[path[t]] = {}
    <3>1. ASSUME NEW u \in Thread, pc[u] = "section", path[u] = path[t]
          PROVE  FALSE
      BY <3>1, <1>4 DEF SingleInv, LockfGrant, Conflict, Single
    <3>2. QED
      BY <3>1 DEF Inside
  <2>2. Inside' = [Inside EXCEPT ![path[t]] = {t}]
    <3>1. \A u \in Thread : pc'[u] = "section" <=> u = t \/ pc[u] = "section"
      BY <1>4 DEF LockfGrant
    <3>2. \A f \in Path \ {path[t]} : Inside'[f] = Inside[f]
      BY <1>4, <3>1 DEF Inside, LockfGrant
    <3>3. Inside'[path[t]] = {t}
      <4>1. path[t] \in Path /\ path' = path
        BY <1>4 DEF LockfGrant
      <4>2. \A u \in Thread : pc[u] = "section" => path[u] # path[t]
        BY <2>1, <4>1 DEF Inside
      <4>3. Inside'[path[t]] = {u \in Thread : pc'[u] = "section" /\ path[u] = path[t]}
        BY <4>1 DEF Inside
      <4>4. QED
        BY ONLY <3>1, <4>2, <4>3, t \in Thread
    <3>4. QED
      BY <3>2, <3>3 DEF Inside
  <2>3. \A g \in Path : t \notin Inside[g]
    BY <1>4 DEF Inside, LockfGrant
  <2>4. QED
    BY <2>1, <2>2, <2>3 DEF SL!Next, SL!Enter
<1>5. ASSUME NEW t \in Thread, EndSection(t)
      PROVE  SL!Next
  <2>1. t \in Inside[path[t]]
    BY <1>5 DEF Inside, EndSection
  <2>2. Inside' = [Inside EXCEPT ![path[t]] = @ \ {t}]
    <3>1. \A u \in Thread : pc'[u] = "section" <=> u # t /\ pc[u] = "section"
      BY <1>5 DEF EndSection
    <3>2. \A f \in Path : Inside'[f] = Inside[f] \ {t}
      BY <1>5, <3>1 DEF Inside, EndSection
    <3>3. \A f \in Path \ {path[t]} : Inside'[f] = Inside[f]
      BY <3>2 DEF Inside
    <3>4. QED
      BY <3>2, <3>3, OneSectionLeft
  <2>3. QED
    BY <2>1, <2>2 DEF SL!Next, SL!Leave
<1>6. ASSUME NEW p \in Proc, Crash(p)
      PROVE  [SL!Next]_Inside
  <2>1. CASE \E t \in Thread : ProcOf[t] = p /\ pc[t] = "section"
    <3>1. PICK t \in Thread : ProcOf[t] = p /\ pc[t] = "section"
      BY <2>1
    <3>2. t \in Inside[path[t]]
      BY <3>1 DEF Inside
    <3>3. \A u \in Thread : ProcOf[u] = p => u = t
      BY <3>1 DEF Single
    <3>4. Inside' = [Inside EXCEPT ![path[t]] = @ \ {t}]
      <4>1. \A u \in Thread : pc'[u] = "section" <=> u # t /\ pc[u] = "section"
        BY <1>6, <3>1, <3>3 DEF Crash
      <4>2. \A f \in Path : Inside'[f] = Inside[f] \ {t}
        BY <1>6, <4>1 DEF Inside, Crash
      <4>3. \A f \in Path \ {path[t]} : Inside'[f] = Inside[f]
        BY <4>2 DEF Inside
      <4>4. QED
        BY <4>2, <4>3, OneSectionLeft
    <3>5. QED
      BY <3>2, <3>4 DEF SL!Next, SL!Leave
  <2>2. CASE \A t \in Thread : ProcOf[t] = p => pc[t] # "section"
    BY <1>6, <2>2 DEF Inside, Crash
  <2>3. QED
    BY <2>1, <2>2
<1>7. CASE UNCHANGED lockVars
  BY <1>7 DEF lockVars, Inside
<1>8. QED
  BY <1>1, <1>2, <1>3, <1>4, <1>5, <1>6, <1>7
     DEF Next, FileLockStep, FileUnlockStep, OpenFail, LockfFails

\* FileLock and FileUnlock implement a mutual exclusion lock when every process
\* has one thread, the lock files can always be opened and lockf fails for
\* deadlocks only.
THEOREM Implements ==
  ASSUME ~OpenMayFail, ~LockfMayFail, \A p \in Proc : Single(p)
  PROVE  Spec => SectionLockSpec
<1> DEFINE Opened == \A t \in Thread : InSection(t) => fd[t]
<1>1. Init => SL!Init /\ Opened
  BY DEF Init, SL!Init, Inside, InSection
<1>2. IInv /\ Opened /\ [Next]_lockVars => Opened'
  <2> SUFFICES ASSUME IInv, Opened, [Next]_lockVars PROVE Opened'
    OBVIOUS
  <2> USE DEF IInv, TypeOK, FdInv, InSection
  <2>1. ASSUME NEW t \in Thread, NEW m \in {"r", "w"}, NEW f \in Path, Begin(t, m, f)
        PROVE  Opened'
    BY <2>1 DEF Begin
  <2>2. ASSUME NEW t \in Thread, FileLockStep(t)
        PROVE  Opened'
    BY <2>2 DEF FileLockStep, OpenOk, OpenFail, RdLock, WrLock, LockfGrant,
                LockfBlock, LockfDeadlk, LockfFails
  <2>3. ASSUME NEW t \in Thread, FileUnlockStep(t)
        PROVE  Opened'
    BY <2>3 DEF FileUnlockStep, EndSection, RwUnlock, ULock, Close
  <2>4. ASSUME NEW p \in Proc, Crash(p)
        PROVE  Opened'
    BY <2>4 DEF Crash
  <2>5. CASE UNCHANGED lockVars
    BY <2>5 DEF lockVars
  <2>6. QED
    BY <2>1, <2>2, <2>3, <2>4, <2>5 DEF Next
<1>3. IInv /\ Opened /\ [Next]_lockVars => [SL!Next]_Inside
  BY SectionStep
<1>4. QED
  BY <1>1, <1>2, <1>3, Inductive, PTL DEF Spec, SectionLockSpec, SL!Spec
=============================================================================
