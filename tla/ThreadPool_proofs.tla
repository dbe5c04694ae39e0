------------------------- MODULE ThreadPool_proofs -------------------------
(***************************************************************************)
(* The safety of the thread pool for every number of callers, workers and  *)
(* tasks and every limit.                                                  *)
(***************************************************************************)
EXTENDS ThreadPool, FiniteSetTheorems, TLAPS

-----------------------------------------------------------------------------
(* The inductive invariant *)

\* who is between lock and unlock has the mutex
MutexInv ==
  /\ \A a \in Adder : pc[a] \in {"walk", "link", "unlock"} => mutex = a
  /\ \A w \in Worker : pc[w] \in {"test", "wait", "take", "leave"} => mutex = w

\* a caller on its way to the queue has a task, a worker that runs one too
TaskInv ==
  /\ \A a \in Adder : pc[a] \in {"limit", "lock", "walk", "link"} => task[a] \in Task
  /\ \A w \in Worker : pc[w] = "run" => task[w] \in Task

\* a task is in one place
PlaceInv ==
  /\ \A i, j \in DOMAIN queue : queue[i] = queue[j] => i = j
  /\ \A s, t \in Adder \cup Worker : task[s] = task[t] /\ task[s] # NoTask => s = t
  /\ \A t \in Adder \cup Worker : task[t] # NoTask =>
        task[t] \notin ToSet(queue) \cup done \cup released
  /\ ToSet(queue) \cap (done \cup released) = {}
  /\ done \cap released = {}

\* the walk has ended at the last node, unless uninit has freed them all since
MemberInv ==
  \A a \in Adder : pc[a] = "link" =>
    IF member[a] = NoTask THEN queue = <<>>
    ELSE queue # <<>> => queue[Len(queue)] = member[a]

Open == pc[Closer] \in {"idle", "broadcast", "join"}

\* the counter counts the nodes, and a worker that takes one finds one
SizeInv ==
  /\ Open => size = Len(queue)
  /\ \A w \in Worker : pc[w] = "take" => queue # <<>>

\* the workers are gone before the queue is freed, the pool after it
GoneInv ==
  /\ ~Open => \A w \in Worker : pc[w] = "gone"
  /\ freed => pc[Closer] = "returned"

\* callers past the look at the limit and not yet through
Pending == {a \in Adder : pc[a] \in {"lock", "walk", "link"}}

BoundInv == size + Cardinality(Pending) <= MAX_THREAD_POOL_TASK + Cardinality(Adder)

IInv == /\ TypeOK /\ MutexInv /\ TaskInv /\ PlaceInv /\ MemberInv
        /\ SizeInv /\ GoneInv /\ BoundInv

-----------------------------------------------------------------------------
(* Small facts *)

LEMMA Distinct ==
  /\ \A a \in Adder : a \in Thread /\ a \notin Worker /\ a # Closer
  /\ \A w \in Worker : w \in Thread /\ w \notin Adder /\ w # Closer
  /\ Closer \in Thread
  /\ Nobody \notin Thread
BY PoolConstantsOK DEF Thread

\* The last node of the walk is where the new one goes.
LEMMA LinkAppends ==
  ASSUME IInv, NEW a \in Adder, pc[a] = "link", Linked(a)
  PROVE  queue' = Append(queue, task[a])
<1>1. queue \in Seq(Task) /\ NoTask \notin Task
  BY PoolConstantsOK DEF IInv, TypeOK
<1>2. CASE member[a] = NoTask
  <2>1. queue = <<>> /\ queue' = <<task[a]>>
    BY <1>2 DEF IInv, MemberInv, Linked
  <2> QED
    BY <2>1
<1>3. CASE member[a] # NoTask
  <2>1. /\ member[a] \in ToSet(queue)
        /\ queue' = Append(SubSeq(queue, 1, Index(member[a])), task[a])
    BY <1>3 DEF Linked
  <2>2. queue # <<>>
    BY <2>1, <1>1 DEF ToSet
  <2>3. queue[Len(queue)] = member[a]
    BY <2>2, <1>3 DEF IInv, MemberInv
  <2>4. /\ Len(queue) \in DOMAIN queue
        /\ \A i \in DOMAIN queue : queue[i] = member[a] => i = Len(queue)
    BY <1>1, <2>2, <2>3 DEF IInv, PlaceInv
  <2>5. Index(member[a]) = Len(queue)
    BY <2>3, <2>4 DEF Index
  <2>6. SubSeq(queue, 1, Len(queue)) = queue
    BY <1>1
  <2> QED
    BY <2>1, <2>5, <2>6
<1> QED
  BY <1>2, <1>3

-----------------------------------------------------------------------------
\* Every variable stays in its range.
LEMMA TypeStep == IInv /\ [Next]_vars => TypeOK'
<1> SUFFICES ASSUME IInv, [Next]_vars PROVE TypeOK'
  OBVIOUS
<1> USE PoolConstantsOK, Distinct
<1>0. TypeOK /\ TaskInv /\ SizeInv /\ GoneInv
  BY DEF IInv
<1> USE DEF TypeOK, Go, AdderPlace, WorkerPlace, CloserPlace
<1>1. ASSUME NEW a \in Adder, NEW t \in Task, AddTask(a, t) PROVE TypeOK'
  BY <1>0, <1>1 DEF AddTask
<1>2. ASSUME NEW a \in Adder, AddStep(a) PROVE TypeOK'
  <2>1. CASE Limit(a)
    BY <1>0, <2>1 DEF Limit
  <2>2. CASE AddLock(a)
    BY <1>0, <2>2 DEF AddLock
  <2>3. CASE Walk(a)
    <3>1. (IF queue = <<>> THEN NoTask ELSE Last(queue)) \in Task \cup {NoTask}
      BY <1>0 DEF Last
    <3> QED
      BY <1>0, <2>3, <3>1 DEF Walk
  <2>4. CASE Link(a)
    <3>1. queue' = Append(queue, task[a]) /\ task[a] \in Task
      BY <1>0, <2>4, LinkAppends DEF Link, TaskInv
    <3> QED
      BY <1>0, <2>4, <3>1 DEF Link
  <2>5. CASE AddUnlock(a)
    BY <1>0, <2>5 DEF AddUnlock
  <2>6. CASE Signal(a)
    BY <1>0, <2>6 DEF Signal
  <2>7. CASE RunsWild(a)
    BY <1>0, <2>7 DEF RunsWild
  <2> QED
    BY <1>2, <2>1, <2>2, <2>3, <2>4, <2>5, <2>6, <2>7 DEF AddStep
<1>3. ASSUME NEW w \in Worker, WorkerStep(w) PROVE TypeOK'
  <2>1. CASE WorkerLock(w)
    BY <1>0, <2>1 DEF WorkerLock
  <2>2. CASE Test(w)
    BY <1>0, <2>2 DEF Test
  <2>3. CASE Wait(w)
    BY <1>0, <2>3 DEF Wait
  <2>4. CASE Take(w)
    <3>1. queue # <<>> /\ size = Len(queue)
      BY <1>0, <2>4 DEF Take, SizeInv, GoneInv
    <3>2. Head(queue) \in Task /\ Tail(queue) \in Seq(Task) /\ size - 1 \in Nat
      BY <1>0, <3>1
    <3> QED
      BY <1>0, <2>4, <3>2 DEF Take
  <2>5. CASE Run(w)
    BY <1>0, <2>5 DEF Run, TaskInv
  <2>6. CASE Leave(w)
    BY <1>0, <2>6 DEF Leave
  <2> QED
    BY <1>3, <2>1, <2>2, <2>3, <2>4, <2>5, <2>6 DEF WorkerStep
<1>4. ASSUME Shutdown PROVE TypeOK'
  BY <1>0, <1>4 DEF Shutdown
<1>5. ASSUME CloseStep PROVE TypeOK'
  <2>1. CASE Broadcast
    BY <1>0, <2>1 DEF Broadcast
  <2>2. CASE Join
    BY <1>0, <2>2 DEF Join
  <2>3. CASE Drain
    <3>1. Head(queue) \in Task /\ Tail(queue) \in Seq(Task)
      BY <1>0, <2>3 DEF Drain
    <3> QED
      BY <1>0, <2>3, <3>1 DEF Drain
  <2>4. CASE Drained
    BY <1>0, <2>4 DEF Drained
  <2>5. CASE FreePool
    BY <1>0, <2>5 DEF FreePool
  <2> QED
    BY <1>5, <2>1, <2>2, <2>3, <2>4, <2>5 DEF CloseStep
<1>6. ASSUME UNCHANGED vars PROVE TypeOK'
  BY <1>0, <1>6 DEF vars
<1> QED
  BY <1>1, <1>2, <1>3, <1>4, <1>5, <1>6 DEF Next

\* The mutex keeps callers and workers apart.
LEMMA MutexStep == IInv /\ [Next]_vars => MutexInv'
<1> SUFFICES ASSUME IInv, [Next]_vars PROVE MutexInv'
  OBVIOUS
<1> USE Distinct
<1>0. TypeOK /\ MutexInv
  BY DEF IInv
<1> USE DEF TypeOK, MutexInv, Go
<1>1. ASSUME NEW a \in Adder, NEW t \in Task, AddTask(a, t) PROVE MutexInv'
  BY <1>0, <1>1 DEF AddTask
<1>2. ASSUME NEW a \in Adder, AddStep(a) PROVE MutexInv'
  BY <1>0, <1>2 DEF AddStep, Limit, AddLock, Walk, Link, AddUnlock, Signal, RunsWild
<1>3. ASSUME NEW w \in Worker, WorkerStep(w) PROVE MutexInv'
  BY <1>0, <1>3 DEF WorkerStep, WorkerLock, Test, Wait, Take, Run, Leave
<1>4. ASSUME Shutdown \/ CloseStep PROVE MutexInv'
  BY <1>0, <1>4 DEF Shutdown, CloseStep, Broadcast, Join, Drain, Drained, FreePool
<1>5. ASSUME UNCHANGED vars PROVE MutexInv'
  BY <1>0, <1>5 DEF vars
<1> QED
  BY <1>1, <1>2, <1>3, <1>4, <1>5 DEF Next

\* Callers keep their task until they have linked it, workers until they ran it.
LEMMA TaskStep == IInv /\ [Next]_vars => TaskInv'
<1> SUFFICES ASSUME IInv, [Next]_vars PROVE TaskInv'
  OBVIOUS
<1> USE Distinct
<1>0. TypeOK /\ TaskInv /\ SizeInv
  BY DEF IInv
<1> USE DEF TypeOK, TaskInv, Go
<1>1. ASSUME NEW a \in Adder, NEW t \in Task, AddTask(a, t) PROVE TaskInv'
  BY <1>0, <1>1 DEF AddTask
<1>2. ASSUME NEW a \in Adder, AddStep(a) PROVE TaskInv'
  BY <1>0, <1>2 DEF AddStep, Limit, AddLock, Walk, Link, AddUnlock, Signal, RunsWild
<1>3. ASSUME NEW w \in Worker, WorkerStep(w) PROVE TaskInv'
  <2>1. CASE Take(w)
    <3>1. Head(queue) \in Task
      BY <1>0, <2>1 DEF Take, SizeInv
    <3> QED
      BY <1>0, <2>1, <3>1 DEF Take
  <2>2. CASE ~Take(w)
    BY <1>0, <1>3, <2>2 DEF WorkerStep, WorkerLock, Test, Wait, Run, Leave
  <2> QED
    BY <2>1, <2>2
<1>4. ASSUME Shutdown \/ CloseStep PROVE TaskInv'
  BY <1>0, <1>4 DEF Shutdown, CloseStep, Broadcast, Join, Drain, Drained, FreePool
<1>5. ASSUME UNCHANGED vars PROVE TaskInv'
  BY <1>0, <1>5 DEF vars
<1> QED
  BY <1>1, <1>2, <1>3, <1>4, <1>5 DEF Next

\* Uninit begins to free when the workers are gone.
LEMMA GoneStep == IInv /\ [Next]_vars => GoneInv'
<1> SUFFICES ASSUME IInv, [Next]_vars PROVE GoneInv'
  OBVIOUS
<1> USE Distinct
<1>0. TypeOK /\ GoneInv
  BY DEF IInv
<1> USE DEF TypeOK, GoneInv, Open, Go, CloserPlace
<1>1. ASSUME NEW a \in Adder, NEW t \in Task, AddTask(a, t) PROVE GoneInv'
  BY <1>0, <1>1 DEF AddTask
<1>2. ASSUME NEW a \in Adder, AddStep(a) PROVE GoneInv'
  BY <1>0, <1>2 DEF AddStep, Limit, AddLock, Walk, Link, AddUnlock, Signal, RunsWild
<1>3. ASSUME NEW w \in Worker, WorkerStep(w) PROVE GoneInv'
  BY <1>0, <1>3 DEF WorkerStep, WorkerLock, Test, Wait, Take, Run, Leave
<1>4. ASSUME Shutdown \/ CloseStep PROVE GoneInv'
  BY <1>0, <1>4 DEF Shutdown, CloseStep, Broadcast, Join, Drain, Drained, FreePool
<1>5. ASSUME UNCHANGED vars PROVE GoneInv'
  BY <1>0, <1>5 DEF vars
<1> QED
  BY <1>1, <1>2, <1>3, <1>4, <1>5 DEF Next

\* The last node stays the last while the walker holds the mutex.
LEMMA MemberStep == IInv /\ [Next]_vars => MemberInv'
<1> SUFFICES ASSUME IInv, [Next]_vars PROVE MemberInv'
  OBVIOUS
<1> USE PoolConstantsOK, Distinct
<1>0. TypeOK /\ MutexInv /\ MemberInv /\ GoneInv
  BY DEF IInv
<1> USE DEF TypeOK, MemberInv, Go
<1>1. ASSUME NEW a \in Adder, NEW t \in Task, AddTask(a, t) PROVE MemberInv'
  BY <1>0, <1>1 DEF AddTask
<1>2. ASSUME NEW a \in Adder, AddStep(a) PROVE MemberInv'
  <2>1. CASE Walk(a)
    BY <1>0, <2>1 DEF Walk, MutexInv, Last
  <2>2. CASE Link(a)
    BY <1>0, <2>2 DEF Link, MutexInv
  <2>3. CASE ~Walk(a) /\ ~Link(a)
    BY <1>0, <1>2, <2>3 DEF AddStep, Limit, AddLock, AddUnlock, Signal, RunsWild
  <2> QED
    BY <2>1, <2>2, <2>3
<1>3. ASSUME NEW w \in Worker, WorkerStep(w) PROVE MemberInv'
  <2>1. CASE Take(w)
    BY <1>0, <2>1 DEF Take, MutexInv
  <2>2. CASE ~Take(w)
    BY <1>0, <1>3, <2>2 DEF WorkerStep, WorkerLock, Test, Wait, Run, Leave
  <2> QED
    BY <2>1, <2>2
<1>4. ASSUME Drain PROVE MemberInv'
  <2>1. /\ queue # <<>> /\ queue' = Tail(queue) /\ queue \in Seq(Task)
        /\ UNCHANGED <<pc, member>>
    BY <1>0, <1>4 DEF Drain
  <2>2. queue' # <<>> => queue'[Len(queue')] = queue[Len(queue)]
    BY <2>1
  <2> QED
    BY <1>0, <2>1, <2>2
<1>5. ASSUME Shutdown \/ CloseStep, ~Drain PROVE MemberInv'
  BY <1>0, <1>5 DEF Shutdown, CloseStep, Broadcast, Join, Drained, FreePool
<1>6. ASSUME UNCHANGED vars PROVE MemberInv'
  BY <1>0, <1>6 DEF vars
<1> QED
  BY <1>1, <1>2, <1>3, <1>4, <1>5, <1>6 DEF Next

\* The counter follows the nodes.
LEMMA SizeStep == IInv /\ [Next]_vars => SizeInv'
<1> SUFFICES ASSUME IInv, [Next]_vars PROVE SizeInv'
  OBVIOUS
<1> USE Distinct
<1>0. TypeOK /\ MutexInv /\ TaskInv /\ SizeInv /\ GoneInv
  BY DEF IInv
<1> USE DEF TypeOK, SizeInv, Open, Go, CloserPlace
<1>1. ASSUME NEW a \in Adder, NEW t \in Task, AddTask(a, t) PROVE SizeInv'
  BY <1>0, <1>1 DEF AddTask
<1>2. ASSUME NEW a \in Adder, AddStep(a) PROVE SizeInv'
  <2>1. CASE Link(a)
    <3>1. queue' = Append(queue, task[a]) /\ task[a] \in Task /\ size' = size + 1
      BY <1>0, <2>1, LinkAppends DEF Link, TaskInv
    <3>2. Len(queue') = Len(queue) + 1 /\ queue' # <<>>
      BY <1>0, <3>1
    <3>3. /\ pc'[Closer] = pc[Closer]
          /\ \A w \in Worker : pc'[w] = pc[w]
      BY <1>0, <2>1 DEF Link
    <3> QED
      BY <1>0, <3>1, <3>2, <3>3
  <2>2. CASE ~Link(a)
    BY <1>0, <1>2, <2>2 DEF AddStep, Limit, AddLock, Walk, AddUnlock, Signal, RunsWild
  <2> QED
    BY <2>1, <2>2
<1>3. ASSUME NEW w \in Worker, WorkerStep(w) PROVE SizeInv'
  <2>1. CASE Take(w)
    <3>1. queue # <<>> /\ size = Len(queue) /\ Open
      BY <1>0, <2>1 DEF Take, GoneInv
    <3>2. Len(queue') = Len(queue) - 1 /\ size' = size - 1
      BY <1>0, <2>1, <3>1 DEF Take
    <3>3. \A v \in Worker : pc'[v] # "take"
      BY <1>0, <2>1 DEF Take, MutexInv
    <3> QED
      BY <3>1, <3>2, <3>3
  <2>2. CASE Test(w)
    <3>1. size = Len(queue)
      BY <1>0, <2>2 DEF Test, GoneInv
    <3>2. pc'[w] = "take" => queue # <<>>
      BY <1>0, <2>2, <3>1 DEF Test
    <3> QED
      BY <1>0, <2>2, <3>2 DEF Test
  <2>3. CASE ~Take(w) /\ ~Test(w)
    BY <1>0, <1>3, <2>3 DEF WorkerStep, WorkerLock, Wait, Run, Leave
  <2> QED
    BY <2>1, <2>2, <2>3
<1>4. ASSUME Shutdown \/ CloseStep PROVE SizeInv'
  BY <1>0, <1>4 DEF Shutdown, CloseStep, Broadcast, Join, Drain, Drained, FreePool, GoneInv
<1>5. ASSUME UNCHANGED vars PROVE SizeInv'
  BY <1>0, <1>5 DEF vars
<1> QED
  BY <1>1, <1>2, <1>3, <1>4, <1>5 DEF Next

\* A task goes from its caller to the queue, from there to a worker or to
\* uninit, and it is nowhere twice.
LEMMA PlaceStep == IInv /\ [Next]_vars => PlaceInv'
<1> SUFFICES ASSUME IInv, [Next]_vars PROVE PlaceInv'
  OBVIOUS
<1> USE PoolConstantsOK, Distinct
<1>0. TypeOK /\ TaskInv /\ PlaceInv /\ SizeInv
  BY DEF IInv
<1> USE DEF TypeOK, PlaceInv, ToSet
<1>1. ASSUME NEW a \in Adder, NEW t \in Task, AddTask(a, t) PROVE PlaceInv'
  <2>1. /\ t \notin ToSet(queue) \cup done \cup released
        /\ \A s \in Adder \cup Worker : task[s] # t
    BY <1>0, <1>1 DEF AddTask, Fresh
  <2> QED
    BY <1>0, <1>1, <2>1 DEF AddTask
<1>2. ASSUME NEW a \in Adder, AddStep(a) PROVE PlaceInv'
  <2>1. CASE Link(a)
    <3>1. queue' = Append(queue, task[a]) /\ task[a] \in Task /\ task[a] # NoTask
      BY <1>0, <2>1, LinkAppends DEF Link, TaskInv
    <3>2. /\ DOMAIN queue' = 1 .. Len(queue) + 1
          /\ \A i \in DOMAIN queue' :
               queue'[i] = IF i = Len(queue) + 1 THEN task[a] ELSE queue[i]
          /\ DOMAIN queue = 1 .. Len(queue) /\ Len(queue) \in Nat
      BY <1>0, <3>1
    <3>3. task' = [task EXCEPT ![a] = NoTask] /\ UNCHANGED <<done, released>>
      BY <2>1 DEF Link
    <3>4. ToSet(queue') = ToSet(queue) \cup {task[a]}
      BY <3>2
    <3>5. \A i, j \in DOMAIN queue' : queue'[i] = queue'[j] => i = j
      BY <1>0, <3>1, <3>2
    <3> HIDE DEF ToSet
    <3>6. \A s \in Adder \cup Worker : task'[s] # NoTask =>
            s # a /\ task'[s] = task[s] /\ task[s] # task[a]
      BY <1>0, <3>1, <3>3
    <3> QED
      BY <1>0, <3>1, <3>3, <3>4, <3>5, <3>6
  <2>2. CASE ~Link(a)
    BY <1>0, <1>2, <2>2 DEF AddStep, Limit, AddLock, Walk, AddUnlock, Signal, RunsWild
  <2> QED
    BY <2>1, <2>2
<1>T. ASSUME queue # <<>>, queue' = Tail(queue)
      PROVE  /\ \A i, j \in DOMAIN queue' : queue'[i] = queue'[j] => i = j
             /\ ToSet(queue') = ToSet(queue) \ {Head(queue)}
             /\ Head(queue) \in ToSet(queue)
             /\ Head(queue) \in Task
  <2>1. /\ DOMAIN queue = 1 .. Len(queue) /\ Len(queue) \in Nat \ {0}
        /\ DOMAIN queue' = 1 .. Len(queue) - 1
        /\ \A i \in DOMAIN queue' : queue'[i] = queue[i + 1]
        /\ Head(queue) = queue[1]
    BY <1>0, <1>T
  <2>2. \A i \in DOMAIN queue : i # 1 => i - 1 \in DOMAIN queue' /\ queue'[i - 1] = queue[i]
    BY <2>1
  <2>3. \A i \in DOMAIN queue' : i + 1 \in DOMAIN queue /\ i + 1 # 1
    BY <2>1
  <2>4. \A i, j \in DOMAIN queue' : queue'[i] = queue'[j] => i = j
    BY <1>0, <2>1, <2>3
  <2>5. 1 \in DOMAIN queue /\ \A i \in DOMAIN queue : queue[i] = queue[1] => i = 1
    BY <1>0, <2>1
  <2>6. Head(queue) \in ToSet(queue) /\ Head(queue) \in Task
    BY <1>0, <2>1, <2>5
  <2>7. ASSUME NEW t \in ToSet(queue') PROVE t \in ToSet(queue) \ {Head(queue)}
    <3>1. PICK i \in DOMAIN queue' : t = queue'[i]
      BY <2>7
    <3>2. i + 1 \in DOMAIN queue /\ i + 1 # 1 /\ t = queue[i + 1]
      BY <2>1, <2>3, <3>1
    <3> QED
      BY <2>1, <2>5, <3>2
  <2>8. ASSUME NEW t \in ToSet(queue), t # Head(queue) PROVE t \in ToSet(queue')
    <3>1. PICK i \in DOMAIN queue : t = queue[i]
      BY <2>8
    <3>2. i # 1
      BY <2>1, <2>8, <3>1
    <3> QED
      BY <2>2, <3>1, <3>2
  <2>9. ToSet(queue') = ToSet(queue) \ {Head(queue)}
    <3> HIDE DEF ToSet
    <3> QED
      BY <2>7, <2>8
  <2> QED
    BY <2>4, <2>6, <2>9
<1>3. ASSUME NEW w \in Worker, WorkerStep(w) PROVE PlaceInv'
  <2>1. CASE Take(w)
    <3>1. queue # <<>> /\ queue' = Tail(queue)
      BY <1>0, <2>1 DEF Take, SizeInv
    <3>2. task' = [task EXCEPT ![w] = Head(queue)] /\ UNCHANGED <<done, released>>
      BY <2>1 DEF Take
    <3> HIDE DEF ToSet
    <3> QED
      BY <1>0, <1>T, <3>1, <3>2
  <2>2. CASE Run(w)
    BY <1>0, <2>2 DEF Run, TaskInv
  <2>3. CASE ~Take(w) /\ ~Run(w)
    BY <1>0, <1>3, <2>3 DEF WorkerStep, WorkerLock, Test, Wait, Leave
  <2> QED
    BY <2>1, <2>2, <2>3
<1>4. ASSUME Drain PROVE PlaceInv'
  <2>1. /\ queue # <<>> /\ queue' = Tail(queue)
        /\ released' = released \cup {Head(queue)} /\ UNCHANGED <<done, task>>
    BY <1>4 DEF Drain
  <2> HIDE DEF ToSet
  <2> QED
    BY <1>0, <1>T, <2>1
<1>5. ASSUME Shutdown \/ CloseStep, ~Drain PROVE PlaceInv'
  BY <1>0, <1>5 DEF Shutdown, CloseStep, Broadcast, Join, Drained, FreePool
<1>6. ASSUME UNCHANGED vars PROVE PlaceInv'
  BY <1>0, <1>6 DEF vars
<1> QED
  BY <1>1, <1>2, <1>3, <1>4, <1>5, <1>6 DEF Next

\* Of the callers past the look at the limit each adds at most one task.
LEMMA BoundStep == IInv /\ [Next]_vars => BoundInv'
<1> SUFFICES ASSUME IInv, [Next]_vars PROVE BoundInv'
  OBVIOUS
<1> USE PoolConstantsOK, Distinct
<1>0. TypeOK /\ BoundInv /\ SizeInv /\ GoneInv
  BY DEF IInv
<1>f. /\ Pending \subseteq Adder /\ IsFiniteSet(Pending) /\ Cardinality(Pending) \in Nat
      /\ Pending' \subseteq Adder /\ IsFiniteSet(Pending') /\ Cardinality(Pending') \in Nat
      /\ Cardinality(Adder) \in Nat
      /\ Cardinality(Pending') <= Cardinality(Adder)
  BY FS_Subset, FS_CardinalityType DEF Pending
<1>s. ASSUME size' \in Int, size' <= size, Pending' \subseteq Pending PROVE BoundInv'
  <2>1. Cardinality(Pending') <= Cardinality(Pending)
    BY <1>f, <1>s, FS_Subset
  <2> QED
    BY <1>0, <1>f, <1>s, <2>1 DEF BoundInv, TypeOK
<1>1. ASSUME NEW a \in Adder, NEW t \in Task, AddTask(a, t) PROVE BoundInv'
  <2>1. size' = size /\ Pending' \subseteq Pending
    BY <1>0, <1>1 DEF AddTask, Go, Pending, TypeOK
  <2> QED
    BY <1>0, <1>s, <2>1 DEF TypeOK
<1>2. ASSUME NEW a \in Adder, AddStep(a) PROVE BoundInv'
  <2>1. CASE Limit(a)
    <3>1. size' = size
      BY <2>1 DEF Limit
    <3>2. CASE size > MAX_THREAD_POOL_TASK
      <4>1. Pending' \subseteq Pending
        BY <1>0, <2>1, <3>2 DEF Limit, Go, Pending, TypeOK
      <4> QED
        BY <1>0, <1>s, <3>1, <4>1 DEF TypeOK
    <3>3. CASE ~(size > MAX_THREAD_POOL_TASK)
      BY <1>0, <1>f, <3>1, <3>3 DEF BoundInv, TypeOK
    <3> QED
      BY <3>2, <3>3
  <2>2. CASE Link(a)
    <3>1. size' = size + 1
      BY <2>2 DEF Link
    <3>2. a \in Pending /\ Pending' = Pending \ {a}
      BY <1>0, <2>2 DEF Link, Go, Pending, TypeOK
    <3>3. Cardinality(Pending') = Cardinality(Pending) - 1
      BY <1>f, <3>2, FS_RemoveElement
    <3> QED
      BY <1>0, <1>f, <3>1, <3>3 DEF BoundInv, TypeOK
  <2>3. CASE ~Limit(a) /\ ~Link(a)
    <3>1. size' = size /\ Pending' \subseteq Pending
      BY <1>0, <1>2, <2>3 DEF AddStep, AddLock, Walk, AddUnlock, Signal, RunsWild, Go,
                              Pending, TypeOK
    <3> QED
      BY <1>0, <1>s, <3>1 DEF TypeOK
  <2> QED
    BY <2>1, <2>2, <2>3
<1>3. ASSUME NEW w \in Worker, WorkerStep(w) PROVE BoundInv'
  <2>1. size' \in Int /\ size' <= size
    BY <1>0, <1>3 DEF WorkerStep, WorkerLock, Test, Wait, Take, Run, Leave, TypeOK
  <2>2. Pending' \subseteq Pending
    BY <1>0, <1>3 DEF WorkerStep, WorkerLock, Test, Wait, Take, Run, Leave, Go, Pending, TypeOK
  <2> QED
    BY <1>s, <2>1, <2>2
<1>4. ASSUME Shutdown \/ CloseStep \/ UNCHANGED vars PROVE BoundInv'
  <2>1. size' = size /\ Pending' \subseteq Pending
    BY <1>0, <1>4 DEF Shutdown, CloseStep, Broadcast, Join, Drain, Drained, FreePool, Go,
                      Pending, TypeOK, vars
  <2> QED
    BY <1>0, <1>s, <2>1 DEF TypeOK
<1> QED
  BY <1>1, <1>2, <1>3, <1>4 DEF Next

-----------------------------------------------------------------------------
(* The theorems *)

\* The invariant holds at the start: no task has moved, no worker is gone.
LEMMA InitOK == Init => IInv
<1> SUFFICES ASSUME Init PROVE IInv
  OBVIOUS
<1> USE PoolConstantsOK, Distinct DEF Init
<1>1. TypeOK
  <2>1. /\ pc \in [Thread -> AdderPlace \cup WorkerPlace \cup CloserPlace]
        /\ \A a \in Adder : pc[a] \in AdderPlace
        /\ \A w \in Worker : pc[w] \in WorkerPlace
        /\ pc[Closer] \in CloserPlace
    BY DEF AdderPlace, WorkerPlace, CloserPlace
  <2>2. queue \in Seq(Task) /\ size \in Nat
    OBVIOUS
  <2> QED
    BY <2>1, <2>2 DEF TypeOK
<1>2. MutexInv /\ TaskInv /\ MemberInv /\ GoneInv
  BY DEF MutexInv, TaskInv, MemberInv, GoneInv, Open, Thread
<1>3. SizeInv
  BY DEF SizeInv, Thread
<1>4. PlaceInv
  BY DEF PlaceInv, ToSet
<1>5. BoundInv
  <2>1. Pending = {}
    BY DEF Pending, Thread
  <2>2. Cardinality(Pending) = 0 /\ Cardinality(Adder) \in Nat
    BY <2>1, FS_EmptySet, FS_CardinalityType
  <2> QED
    BY <2>2 DEF BoundInv
<1> QED
  BY <1>1, <1>2, <1>3, <1>4, <1>5 DEF IInv

\* The invariant is inductive: it holds of every reachable state of the pool,
\* for every number of callers, workers and tasks.
THEOREM Inductive == Spec => []IInv
<1>1. IInv /\ [Next]_vars => IInv'
  BY TypeStep, MutexStep, TaskStep, PlaceStep, MemberStep, SizeStep, GoneStep, BoundStep
     DEF IInv
<1> QED
  BY InitOK, <1>1, PTL DEF Spec

\* Every variable stays in its set: no worker takes a task from an empty queue,
\* and cur_queue_size is never negative (thread_ex.c:645-731).
THEOREM TypeCorrect == Spec => []TypeOK
<1>1. IInv => TypeOK
  BY DEF IInv
<1> QED
  BY Inductive, <1>1, PTL

\* The queue holds at most the limit and one task for each caller
\* (thread_ex.c:676-693).
THEOREM Bounded == Spec => []QueueBounded
<1>1. IInv => QueueBounded
  <2> SUFFICES ASSUME IInv PROVE QueueBounded
    OBVIOUS
  <2>1. Cardinality(Pending) \in Nat /\ Cardinality(Adder) \in Nat
    <3>1. IsFiniteSet(Pending)
      BY PoolConstantsOK, FS_Subset DEF Pending
    <3> QED
      BY <3>1, PoolConstantsOK, FS_CardinalityType
  <2> QED
    BY <2>1, PoolConstantsOK DEF IInv, BoundInv, TypeOK, QueueBounded
<1> QED
  BY Inductive, <1>1, PTL

\* cur_queue_size counts the nodes until uninit frees them (thread_ex.c:680-695).
THEOREM Counts == Spec => []SizeCounts
<1>1. IInv => SizeCounts
  BY DEF IInv, SizeInv, Open, SizeCounts
<1> QED
  BY Inductive, <1>1, PTL

\* No worker is left when the pool is freed (thread_ex.c:711-727).
THEOREM FreedLast == Spec => []WorkersGoneFirst
<1>1. IInv => WorkersGoneFirst
  BY DEF IInv, GoneInv, Open, WorkersGoneFirst
<1> QED
  BY Inductive, <1>1, PTL

\* A task leaves the queue only to be run or freed: what concurrent callers
\* link and what workers take never unlinks another task (thread_ex.c:680-695).
THEOREM NoneDropped == Spec => NothingDropped
<1> DEFINE Kept ==
      \A t \in ToSet(queue) :
        \/ t \in ToSet(queue')
        \/ \E w \in Worker : task'[w] = t
        \/ t \in released'
<1>1. IInv /\ [Next]_vars => [Kept]_vars
  <2> SUFFICES ASSUME IInv, Next, NEW t \in ToSet(queue),
                      t \notin ToSet(queue'), t \notin released'
               PROVE  \E w \in Worker : task'[w] = t
    OBVIOUS
  <2> USE Distinct
  <2>0. TypeOK /\ TaskInv /\ SizeInv
    BY DEF IInv
  <2>1. queue' # queue
    OBVIOUS
  <2>t. ASSUME queue # <<>>, queue' = Tail(queue) PROVE t = Head(queue)
    <3>1. /\ DOMAIN queue = 1 .. Len(queue) /\ Len(queue) \in Nat \ {0}
          /\ \A i \in DOMAIN queue : i # 1 => /\ i - 1 \in DOMAIN queue'
                                              /\ queue'[i - 1] = queue[i]
          /\ Head(queue) = queue[1]
      BY <2>0, <2>t DEF TypeOK
    <3>2. PICK i \in DOMAIN queue : queue[i] = t
      BY DEF ToSet
    <3>3. i = 1
      BY <3>1, <3>2 DEF ToSet
    <3> QED
      BY <3>1, <3>2, <3>3
  <2>2. ASSUME NEW a \in Adder, AddStep(a) PROVE FALSE
    <3>1. Link(a)
      BY <2>1, <2>2 DEF AddStep, Limit, AddLock, Walk, AddUnlock, Signal, RunsWild
    <3>2. queue' = Append(queue, task[a]) /\ queue \in Seq(Task) /\ task[a] \in Task
      BY <2>0, <3>1, LinkAppends DEF Link, TypeOK, TaskInv
    <3>3. \A i \in DOMAIN queue : i \in DOMAIN queue' /\ queue'[i] = queue[i]
      BY <3>2
    <3> QED
      BY <3>3 DEF ToSet
  <2>3. ASSUME NEW w \in Worker, WorkerStep(w) PROVE \E v \in Worker : task'[v] = t
    <3>1. Take(w)
      BY <2>1, <2>3 DEF WorkerStep, WorkerLock, Test, Wait, Run, Leave
    <3>2. queue # <<>> /\ queue' = Tail(queue)
      BY <2>0, <3>1 DEF Take, SizeInv
    <3>3. task'[w] = Head(queue)
      BY <2>0, <3>1 DEF Take, TypeOK
    <3> QED
      BY <2>t, <3>2, <3>3
  <2>4. ASSUME CloseStep \/ Shutdown PROVE FALSE
    <3>1. Drain
      BY <2>1, <2>4 DEF CloseStep, Shutdown, Broadcast, Join, Drained, FreePool
    <3>2. t = Head(queue) /\ t \in released'
      BY <2>t, <3>1 DEF Drain
    <3> QED
      BY <3>2
  <2>5. ASSUME NEW a \in Adder, NEW s \in Task, AddTask(a, s) PROVE FALSE
    BY <2>1, <2>5 DEF AddTask
  <2> QED
    BY <2>2, <2>3, <2>4, <2>5 DEF Next
<1>2. []IInv /\ [][Next]_vars => [][Kept]_vars
  BY <1>1, PTL
<1> QED
  BY Inductive, <1>2, PTL DEF Spec, NothingDropped

\* A set without two elements has at most one.
LEMMA AtMostOne ==
  ASSUME NEW S, \A x, y \in S : x = y
  PROVE  /\ Cardinality(S) \in {0, 1}
         /\ Cardinality(S) = 1 => S # {}
<1>1. CASE S = {}
  BY <1>1, FS_EmptySet
<1>2. CASE S # {}
  <2>1. PICK x \in S : TRUE
    BY <1>2
  <2>2. S = {x}
    BY <2>1
  <2> QED
    BY <1>2, <2>2, FS_Singleton
<1> QED
  BY <1>1, <1>2

\* No task is linked twice, run twice, or run and freed (thread_ex.c:683-693,
\* 717-722).
THEOREM OnePlace == Spec => []TaskInOnePlace
<1>1. IInv => TaskInOnePlace
  <2> SUFFICES ASSUME IInv, NEW t \in Task
               PROVE  Cardinality({i \in DOMAIN queue : queue[i] = t})
                        + Cardinality({w \in DOMAIN task : task[w] = t})
                        + Cardinality({s \in {done, released} : t \in s}) <= 1
    BY DEF TaskInOnePlace
  <2> DEFINE Q == {i \in DOMAIN queue : queue[i] = t}
             W == {w \in DOMAIN task : task[w] = t}
             D == {s \in {done, released} : t \in s}
  <2>0. PlaceInv /\ DOMAIN task = Adder \cup Worker /\ t # NoTask
    BY PoolConstantsOK DEF IInv, TypeOK
  <2>1. \A x, y \in Q : x = y
    BY <2>0 DEF PlaceInv
  <2>2. \A x, y \in W : x = y
    BY <2>0 DEF PlaceInv
  <2>3. \A x, y \in D : x = y
    BY <2>0 DEF PlaceInv
  <2>4. Q # {} => W = {} /\ D = {}
    BY <2>0 DEF PlaceInv, ToSet
  <2>5. W # {} => D = {}
    BY <2>0 DEF PlaceInv
  <2>6. /\ Cardinality(Q) \in {0, 1} /\ (Cardinality(Q) = 1 => Q # {})
        /\ Cardinality(W) \in {0, 1} /\ (Cardinality(W) = 1 => W # {})
        /\ Cardinality(D) \in {0, 1} /\ (Cardinality(D) = 1 => D # {})
    <3> HIDE DEF Q, W, D
    <3> QED
      BY <2>1, <2>2, <2>3, AtMostOne
  <2> HIDE DEF Q, W, D
  <2>7. Cardinality(Q) + Cardinality(W) + Cardinality(D) <= 1
    BY <2>4, <2>5, <2>6
  <2> QED
    BY <2>7 DEF Q, W, D
<1> QED
  BY Inductive, <1>1, PTL
=============================================================================
