----------------------------- MODULE ThreadPool -----------------------------
(***************************************************************************)
(* The thread pool of thread_ex.c: a queue of tasks, a mutex, a condition  *)
(* variable, and a flag that ends the workers.  ms_pool_add_task looks at  *)
(* the limit before it takes the mutex and signals after it let go of it;  *)
(* ms_pool_thread_uninit sets the flag and broadcasts without the mutex,   *)
(* joins the workers and frees everything.                                 *)
(*                                                                         *)
(* The worker's main function is the caller's.  It is modelled as the      *)
(* fields of the pool ask for: wait under the mutex while there is neither *)
(* a task nor the flag, leave when the flag is set, else take the first    *)
(* task.  Callers may add while the pool is taken down, which the code     *)
(* does not forbid; what touches the pool after it was freed is undefined  *)
(* and shown as the place "wild", where a caller stays.                    *)
(***************************************************************************)
EXTENDS Integers, FiniteSets, Sequences, SequencesExt

CONSTANTS Worker, Adder, Closer, Nobody,  \* threads, and none of them
          Task, NoTask,                   \* tasks, each added once
          MAX_THREAD_POOL_TASK

ASSUME PoolConstantsOK ==
  /\ Worker \cap Adder = {}
  /\ Closer \notin Worker \cup Adder
  /\ Nobody \notin Worker \cup Adder \cup {Closer}
  /\ NoTask \notin Task
  /\ IsFiniteSet(Adder)
  /\ MAX_THREAD_POOL_TASK \in Nat

Thread == Worker \cup Adder \cup {Closer}

VARIABLES pc,
          mutex,      \* queue_lock: its holder or Nobody
          queue,      \* queue_head and the nodes behind it
          size,       \* cur_queue_size
          shutdown,
          waiting,    \* the workers on queue_ready
          late,       \* those that went there after the broadcast
          task,       \* of an adder the task it adds, of a worker the one it runs
          member,     \* of an adder: the last node, or NoTask
          done,       \* tasks a worker has run
          released,   \* tasks that uninit has freed
          freed       \* has the pool itself been freed?

vars == <<pc, mutex, queue, size, shutdown, waiting, late, task, member, done,
          released, freed>>

AdderPlace  == {"idle", "limit", "lock", "walk", "link", "unlock", "signal", "wild"}
WorkerPlace == {"lock", "test", "wait", "asleep", "take", "run", "leave", "gone"}
CloserPlace == {"idle", "broadcast", "join", "drain", "destroy", "returned"}

Go(t, there) == pc' = [pc EXCEPT ![t] = there]

-----------------------------------------------------------------------------
(* ms_pool_thread_init: every worker has been created. *)
Init ==
  /\ pc       = [t \in Thread |-> IF t \in Worker THEN "lock" ELSE "idle"]
  /\ mutex    = Nobody
  /\ queue    = <<>>
  /\ size     = 0
  /\ shutdown = FALSE
  /\ waiting  = {}
  /\ late     = {}
  /\ task     = [t \in Adder \cup Worker |-> NoTask]
  /\ member   = [a \in Adder |-> NoTask]
  /\ done     = {}
  /\ released = {}
  /\ freed    = FALSE

\* Tasks that are still with the callers.
Fresh == Task \ ({task[t] : t \in DOMAIN task} \cup ToSet(queue) \cup done \cup released)

-----------------------------------------------------------------------------
(* ms_pool_add_task *)

AddTask(a, t) ==
  /\ pc[a] = "idle" /\ ~freed
  /\ t \in Fresh
  /\ Go(a, "limit")
  /\ task' = [task EXCEPT ![a] = t]
  /\ UNCHANGED <<mutex, queue, size, shutdown, waiting, late, member, done, released, freed>>

Index(t) == CHOOSE i \in DOMAIN queue : queue[i] = t

\* A caller is in the pool when it is freed, or when uninit has freed the node
\* it is about to link to.
RunsWild(a) ==
  /\ \/ freed /\ pc[a] \in {"limit", "lock", "walk", "link", "unlock", "signal"}
     \/ pc[a] = "link" /\ member[a] \notin ToSet(queue) \cup {NoTask}
  /\ Go(a, "wild")
  /\ UNCHANGED <<mutex, queue, size, shutdown, waiting, late, task, member, done, released,
                 freed>>

\* Mistakes: the limit is not looked at; the mutex is not taken.
NoLimit(a) ==
  /\ pc[a] = "limit" /\ ~freed
  /\ Go(a, "lock")
  /\ UNCHANGED <<mutex, queue, size, shutdown, waiting, late, task, member, done, released,
                 freed>>

AddWithoutLock(a) ==
  /\ pc[a] = "lock" /\ ~freed
  /\ Go(a, "walk")
  /\ UNCHANGED <<mutex, queue, size, shutdown, waiting, late, task, member, done, released,
                 freed>>

\* The queue is looked at without the mutex.
Limit(a) ==
  /\ pc[a] = "limit" /\ ~freed
  /\ IF size > MAX_THREAD_POOL_TASK
     THEN Go(a, "idle") /\ task' = [task EXCEPT ![a] = NoTask]
     ELSE Go(a, "lock") /\ UNCHANGED task
  /\ UNCHANGED <<mutex, queue, size, shutdown, waiting, late, member, done, released, freed>>

AddLock(a) ==
  /\ pc[a] = "lock" /\ ~freed
  /\ mutex = Nobody
  /\ mutex' = a
  /\ Go(a, "walk")
  /\ UNCHANGED <<queue, size, shutdown, waiting, late, task, member, done, released, freed>>

Walk(a) ==
  /\ pc[a] = "walk" /\ ~freed
  /\ member' = [member EXCEPT ![a] = IF queue = <<>> THEN NoTask ELSE Last(queue)]
  /\ Go(a, "link")
  /\ UNCHANGED <<mutex, queue, size, shutdown, waiting, late, task, done, released, freed>>

\* The node goes behind the one the walk ended at, or becomes the head.
Linked(a) ==
  /\ member[a] \in ToSet(queue) \cup {NoTask}
  /\ queue' = IF member[a] = NoTask THEN <<task[a]>>
              ELSE Append(SubSeq(queue, 1, Index(member[a])), task[a])

\* Mistake: the counter runs the wrong way.
LinkCountsDown(a) ==
  /\ pc[a] = "link" /\ ~freed
  /\ Linked(a)
  /\ size'   = size - 1
  /\ task'   = [task EXCEPT ![a] = NoTask]
  /\ member' = [member EXCEPT ![a] = NoTask]
  /\ Go(a, "unlock")
  /\ UNCHANGED <<mutex, shutdown, waiting, late, done, released, freed>>

Link(a) ==
  /\ pc[a] = "link" /\ ~freed
  /\ Linked(a)
  /\ size'   = size + 1
  /\ task'   = [task EXCEPT ![a] = NoTask]
  /\ member' = [member EXCEPT ![a] = NoTask]
  /\ Go(a, "unlock")
  /\ UNCHANGED <<mutex, shutdown, waiting, late, done, released, freed>>

AddUnlock(a) ==
  /\ pc[a] = "unlock" /\ ~freed
  /\ mutex' = Nobody
  /\ Go(a, "signal")
  /\ UNCHANGED <<queue, size, shutdown, waiting, late, task, member, done, released, freed>>

\* Mistake: nobody is told.
NoSignal(a) ==
  /\ pc[a] = "signal" /\ ~freed
  /\ Go(a, "idle")
  /\ UNCHANGED <<mutex, queue, size, shutdown, waiting, late, task, member, done, released,
                 freed>>

Signal(a) ==
  /\ pc[a] = "signal" /\ ~freed
  /\ Go(a, "idle")
  /\ IF waiting = {} THEN UNCHANGED waiting
     ELSE \E w \in waiting : waiting' = waiting \ {w}
  /\ UNCHANGED <<mutex, queue, size, shutdown, late, task, member, done, released, freed>>

AddStep(a) ==
  \/ Limit(a) \/ AddLock(a) \/ Walk(a) \/ Link(a) \/ AddUnlock(a) \/ Signal(a)
  \/ RunsWild(a)

-----------------------------------------------------------------------------
(* The worker (external). *)

\* At the start, after a task and when it is woken.
WorkerLock(w) ==
  /\ pc[w] \in {"lock", "asleep"} /\ w \notin waiting
  /\ mutex = Nobody
  /\ mutex' = w
  /\ Go(w, "test")
  /\ UNCHANGED <<queue, size, shutdown, waiting, late, task, member, done, released, freed>>

Test(w) ==
  /\ pc[w] = "test"
  /\ Go(w, IF shutdown THEN "leave" ELSE IF size = 0 THEN "wait" ELSE "take")
  /\ UNCHANGED <<mutex, queue, size, shutdown, waiting, late, task, member, done, released,
                 freed>>

\* pthread_cond_wait: the mutex is released and the worker sleeps in one step,
\* which the broadcast, made without the mutex, may have preceded.
Wait(w) ==
  /\ pc[w] = "wait"
  /\ mutex'   = Nobody
  /\ waiting' = waiting \cup {w}
  /\ late'    = IF pc[Closer] \in {"idle", "broadcast"} THEN late ELSE late \cup {w}
  /\ Go(w, "asleep")
  /\ UNCHANGED <<queue, size, shutdown, task, member, done, released, freed>>

Take(w) ==
  /\ pc[w] = "take"
  /\ mutex' = Nobody
  /\ task'  = [task EXCEPT ![w] = Head(queue)]
  /\ queue' = Tail(queue)
  /\ size'  = size - 1
  /\ Go(w, "run")
  /\ UNCHANGED <<shutdown, waiting, late, member, done, released, freed>>

Run(w) ==
  /\ pc[w] = "run"
  /\ done' = done \cup {task[w]}
  /\ task' = [task EXCEPT ![w] = NoTask]
  /\ Go(w, "lock")
  /\ UNCHANGED <<mutex, queue, size, shutdown, waiting, late, member, released, freed>>

Leave(w) ==
  /\ pc[w] = "leave"
  /\ mutex' = Nobody
  /\ Go(w, "gone")
  /\ UNCHANGED <<queue, size, shutdown, waiting, late, task, member, done, released, freed>>

WorkerStep(w) ==
  WorkerLock(w) \/ Test(w) \/ Wait(w) \/ Take(w) \/ Run(w) \/ Leave(w)

-----------------------------------------------------------------------------
(* ms_pool_thread_uninit, by one thread *)

Shutdown ==
  /\ pc[Closer] = "idle"
  /\ shutdown' = TRUE
  /\ Go(Closer, "broadcast")
  /\ UNCHANGED <<mutex, queue, size, waiting, late, task, member, done, released, freed>>

\* Mistakes: one worker is woken instead of all; the pool is freed at once.
SignalOne ==
  /\ pc[Closer] = "broadcast"
  /\ IF waiting = {} THEN UNCHANGED waiting
     ELSE \E w \in waiting : waiting' = waiting \ {w}
  /\ Go(Closer, "join")
  /\ UNCHANGED <<mutex, queue, size, shutdown, late, task, member, done, released, freed>>

NoJoin ==
  /\ pc[Closer] = "join"
  /\ Go(Closer, "drain")
  /\ UNCHANGED <<mutex, queue, size, shutdown, waiting, late, task, member, done, released,
                 freed>>

Broadcast ==
  /\ pc[Closer] = "broadcast"
  /\ waiting' = {}
  /\ Go(Closer, "join")
  /\ UNCHANGED <<mutex, queue, size, shutdown, late, task, member, done, released, freed>>

Join ==
  /\ pc[Closer] = "join"
  /\ \A w \in Worker : pc[w] = "gone"
  /\ Go(Closer, "drain")
  /\ UNCHANGED <<mutex, queue, size, shutdown, waiting, late, task, member, done, released,
                 freed>>

\* Mistake: a node is freed and stays in the queue.
DrainKeeps ==
  /\ pc[Closer] = "drain" /\ queue # <<>>
  /\ released' = released \cup {Head(queue)}
  /\ UNCHANGED <<pc, mutex, queue, size, shutdown, waiting, late, task, member, done, freed>>

\* The nodes that are left are freed one after the other, without the mutex.
Drain ==
  /\ pc[Closer] = "drain" /\ queue # <<>>
  /\ released' = released \cup {Head(queue)}
  /\ queue'    = Tail(queue)
  /\ UNCHANGED <<pc, mutex, size, shutdown, waiting, late, task, member, done, freed>>

Drained ==
  /\ pc[Closer] = "drain" /\ queue = <<>>
  /\ Go(Closer, "destroy")
  /\ UNCHANGED <<mutex, queue, size, shutdown, waiting, late, task, member, done, released,
                 freed>>

FreePool ==
  /\ pc[Closer] = "destroy"
  /\ freed' = TRUE
  /\ Go(Closer, "returned")
  /\ UNCHANGED <<mutex, queue, size, shutdown, waiting, late, task, member, done, released>>

CloseStep == Broadcast \/ Join \/ Drain \/ Drained \/ FreePool

Next ==
  \/ \E a \in Adder : AddStep(a) \/ \E t \in Task : AddTask(a, t)
  \/ \E w \in Worker : WorkerStep(w)
  \/ Shutdown \/ CloseStep

Spec == Init /\ [][Next]_vars

\* Threads in a call or a loop go on when they can; nobody has to add a task
\* or to take the pool down.
FairSpec ==
  /\ Spec
  /\ \A a \in Adder : WF_vars(AddStep(a))
  /\ \A w \in Worker : WF_vars(WorkerStep(w))
  /\ WF_vars(CloseStep)

-----------------------------------------------------------------------------
(* The properties. *)

\* The variables stay in their sets.
TypeOK ==
  /\ pc \in [Thread -> AdderPlace \cup WorkerPlace \cup CloserPlace]
  /\ \A a \in Adder : pc[a] \in AdderPlace
  /\ \A w \in Worker : pc[w] \in WorkerPlace
  /\ pc[Closer] \in CloserPlace
  /\ mutex \in Thread \cup {Nobody}
  /\ queue \in Seq(Task) /\ size \in Nat
  /\ shutdown \in BOOLEAN /\ freed \in BOOLEAN
  /\ waiting \subseteq Worker /\ late \subseteq Worker
  /\ task \in [Adder \cup Worker -> Task \cup {NoTask}]
  /\ member \in [Adder -> Task \cup {NoTask}]
  /\ done \subseteq Task /\ released \subseteq Task

(* The limit holds up to one task for each caller: it is looked at before the
   mutex is taken, and it lets one through when the queue has reached it
   (thread_ex.c:676-680). *)
QueueBounded == size <= MAX_THREAD_POOL_TASK + Cardinality(Adder)

(* Between critical sections cur_queue_size counts the nodes, as long as uninit
   has not begun to free them (thread_ex.c:680-695). *)
SizeCounts ==
  mutex = Nobody /\ pc[Closer] \in {"idle", "broadcast", "join"} => size = Len(queue)

(* No task is linked twice, run twice, run and freed, or linked again after it
   was taken (thread_ex.c:683-693, 717-722). *)
TaskInOnePlace ==
  \A t \in Task :
    Cardinality({i \in DOMAIN queue : queue[i] = t})
      + Cardinality({w \in DOMAIN task : task[w] = t})
      + Cardinality({s \in {done, released} : t \in s}) <= 1

(* An accepted task is never dropped by the calls of others: once it is in the
   queue it leaves it to be run or to be freed (thread_ex.c:680-695). *)
NothingDropped ==
  [][\A t \in ToSet(queue) :
       \/ t \in ToSet(queue')
       \/ \E w \in Worker : task'[w] = t
       \/ t \in released']_vars

(* When the pool is freed no worker can touch it any more (thread_ex.c:711-727). *)
WorkersGoneFirst == freed => \A w \in Worker : pc[w] = "gone"

(* A task that was added is taken, unless the pool is taken down: the signal,
   though given after the mutex was released, is not lost (thread_ex.c:693-696). *)
TasksTaken ==
  \A t \in Task : t \in ToSet(queue) ~> (t \notin ToSet(queue) \/ shutdown)

(* ms_pool_thread_uninit returns, unless a worker went to sleep after the
   broadcast: the flag is set without the mutex, so a worker may have tested it
   before and wait afterwards (thread_ex.c:705-713). *)
UninitReturns ==
  pc[Closer] = "join" ~> (pc[Closer] = "returned" \/ late # {})
=============================================================================
