# Formal model of the Milesight NVR configuration library

The repository (`project/`) builds two C libraries and a demo. `libs/msdb` keeps
the whole configuration of a network video recorder in SQLite files that many
processes and threads read and write; `libs/msstd` holds the helpers those
processes are made of (threads, a thread pool, lists, pipes, a leak tracker,
codecs, network settings). This directory is the verification project for them:
TLA+ modules, TLC configurations and TLAPS proofs. Paths below are relative to
`project/src/`.

## 1. Inventory

| part | code | state | operations | what is hard |
|---|---|---|---|---|
| lock bracket | `libs/msdb/msdb.c` 13-66 | `global_rwlock` per process, POSIX record locks on `/tmp/msdb.fl` and `/tmp/tzdb.fl` | `FileLock`, `FileUnlock` | threads x processes, record locks are per process, failed `open`, ignored `lockf` result, crashes |
| SQLite access | `libs/msdb/ccsqlite.c` | connection, statement | `sqlite_conn`, `sqlite_disconn`, `sqlite_execute`, `sqlite_query_record`, `sqlite_query_next`, `sqlite_clear_stmt`, column and blob access | retry loops against a busy database, return codes, statements left open |
| configuration calls | `libs/msdb/msdb.c` 68-8549 (about 220 functions) | the tables of the database | `read_*`, `write_*`, `insert_*`, `delete_*` | several SQL statements under one lock and no transaction, torn reads, leaked connections, crash in the middle |
| schedules | `libs/msdb/msdb.c` `*_schedule` | plan rows per channel, day and plan number | delete + insert writers, readers | compaction of plan numbers, whole-day marker rows |
| parameters | `libs/msdb/msdb.c` 3778-4128, 5281-5759, 5852-5869 | table `params(name, value)` without a unique key | check / add / set / get, `write_layout1_chn`, `ms_set_device` | check-then-act over three separately locked calls |
| users | `libs/msdb/msdb.c` 2264-2502 | ten fixed rows | `add_user`, `write_user`, `read_users` | slot choice |
| privacy masks | `libs/msdb/msdb.c` 4742-4882 | areas per channel | `read_privacy_masks`, writers | cursor arithmetic, restart of a finished statement |
| mail queue | `libs/msdb/emaildb.c` | tables of pending mails and SMTP settings, a second lock file | add / read / update / remove / count | lock without rwlock, read-send-update of two senders |
| threads, processes | `libs/msstd/thread_ex.c` | child table, thread wrappers | `ms_task_*`, `ms_vsystem`, `ms_vpopen`, `ms_vpclose` | fd reuse against the child table, inherited pipe ends |
| list | `libs/msstd/thread_ex.c` | chain and element count | `ms_list_*`, iterators | stale iterators |
| thread pool | `libs/msstd/thread_ex.c` 645-731 | task queue, mutex, condition variable, shutdown flag | `ms_pool_thread_init`, `ms_pool_add_task`, `ms_pool_thread_uninit` | lost wake-up, unlocked checks |
| leak tracker | `libs/msstd/memory.c` | list of live blocks | `__ms_malloc` ... `mem_leak_report` | record and block change at different times |
| codecs, bits | `libs/msstd/string.c`, `bit_ex.c` | none | base64, hex, URL, bit fields | boundaries |
| files, fifo, time | `libs/msstd/file.c`, `fifo.c`, `time.c` | file system | `ms_create_dir`, fifo open / read / write | check-then-create |
| network settings | `libs/msstd/net_config.c`, `sys_config.c` | `/proc`, interface files | readers and converters | prefix arithmetic |
| demo | `demo/main.c`, `profile/profile.c` | none | prints the auto-reboot settings | none |

The parts interact in one way only: every call of `msdb.c` runs
`FileLock`, `sqlite_conn`, one or more SQL statements through `ccsqlite.c`,
`sqlite_disconn`, `FileUnlock`. Processes share the database file and the lock
files; threads of a process also share the rwlock. `emaildb.c` has its own pair
of lock functions on its own file. The `msstd` parts do not call each other,
except that allocation goes through `memory.c` when leak detection is built in.

What makes each part correct:

- *Lock bracket*: a write section excludes every other section of its process
  and, between single-threaded processes, every other section on the same lock
  file; what is locked is unlocked; waiting ends.
- *SQLite access*: the return code says what happened to the statement, under
  contention too; every call returns.
- *Calls*: the statements of one call are not mixed with those of another; an
  error means that nothing changed; a count that is returned was written; every
  connection is closed.
- *Schedules*: what was written is what is read; the rows are those of one write.
- *Thread pool*: no task is lost or run twice, the limit holds, a signal is not
  lost, taking the pool down ends and frees nothing that a worker still uses.
- *Parameters*: one value for each key, whatever rows stand behind it, and no more
  rows than callers that found none.
- *Mail queue*: a mail goes out once, unless for a reason that can be named; a row
  that says so is right; none waits for ever.
- *List*: a sequence; the iterator names one of its elements.
- *Child processes*: a stream that is closed has had its child waited for.
- *Leak tracker*: the records are the live blocks.
- *Users, masks*: an enabled user is not overwritten; no row is skipped (not
  modelled, section 8).

## 2. Modules

| module | models | code |
|---|---|---|
| `SectionLock` | abstract: a mutual exclusion lock per lock file | |
| `MsdbLock` | `FileLock` and `FileUnlock`, step by step | `msdb.c` 13-66 |
| `MsdbLockProps` | their properties and the refinement of `SectionLock` | |
| `MsdbCatalog` | one record for every configuration call | `msdb.c` 68-8548 |
| `MsdbCall` | the calls run inside `MsdbLock` (extends it and the catalogue) | `msdb.c` |
| `MsdbCallProps` | what callers rely on | |
| `SqliteConn` | the SQLite wrapper against a contended database | `ccsqlite.c` 24-286 |
| `ScheduleStore` | the rows of a schedule: write, reset, read | `msdb.c` 445-533, 761-790, 1645-1758 |
| `ParamRegister` | abstract: a register for each key | |
| `ParamStore` | the tables of parameters, their callers, the refinement of `ParamRegister` | `msdb.c` 3778-4128, 5281-5759 |
| `MailQueue` | the table of mails and its senders | `emaildb.c` |
| `ThreadPool` | the thread pool | `thread_ex.c` 645-731 |
| `ListSpec` | abstract: a sequence with a position | |
| `MsList` | the linked list and its iterator, pointer by pointer, the refinement of `ListSpec` | `thread_ex.c` 376-643 |
| `Vpopen` | child processes behind streams | `thread_ex.c` 287-374 |
| `LeakTracker` | the chain of records of live blocks | `memory.c` 28-229 |
| `..._proofs` | the proofs about the module of that name; `MsdbCall_proofs` also holds those about `MsdbCatalog`, `Helpers_proofs` those about `MsList`, `LeakTracker` and `Vpopen` | |
| `MC...` | constants for TLC; `MCStores` and `MCHelpers` put components side by side that share nothing, one of which moves in each behaviour | |

Operators under a comment that begins with "A mistake" or "Mistakes" belong to no
specification. Each is a plausible bug in one action or definition; with it in the
place of that one TLC reports the property that guards against it.

### The lock bracket (`MsdbLock`)

There is one `pc` per thread with a value for every point at which another
thread can run between the first line of `FileLock` and the last of `FileUnlock`.
`held` is the thread's hold on the `global_rwlock` of its process, `owner` the
process that has the record lock of a file, `fd` whether `open` gave a
descriptor. `Begin`, `OpenOk`, `OpenFail`, `RdLock`, `WrLock`, `LockfGrant`,
`LockfBlock`, `LockfDeadlk`, `LockfFails` are the lines of `FileLock`; `EndSection`,
`RwUnlock`, `ULock`, `Close` those of `FileUnlock`. Three facts of the kernel are
modelled as external: a POSIX record lock belongs to the process and not to the
thread, `F_ULOCK` and *any* `close` of the file by the process drop it, and
`lockf` returns `EDEADLK` when the processes wait in a cycle. `FileLock` ignores
every result of `lockf`, so `LockfFails` (`EINTR`, `ENOLCK`, `EIO`) enters the section
without the record lock too; the constant `LockfMayFail` says whether it is
possible. `Crash` ends a process anywhere.

### The calls (`MsdbCatalog`, `MsdbCall`)

The 220-odd calls have the same frame, so a call is a record of what differs:
the lock mode and file, whether the result of `FileLock` is tested, the SQL
statements in order with their tables, what a failing or empty statement leads
to, when the caller's counter is written, and which handles the call passes to
`sqlite_disconn` (`closes`): that of the connection it got, the one a failed
`sqlite3_open` left, both or none. `MsdbCall` is the frame: `Start`, the lock steps,
`Connect` and `ConnectFails`, `Works` and `Fails` for each statement, `Disconnect`,
`Leave`, `Die`. `ConnectFails` leaves a handle ("failed") unless there was no memory
for one, since `sqlite_conn` does not close what `sqlite3_open` made. Columns,
WHERE clauses and the copying of fields are left out; two statements on a table
stand for the two or more a call makes on it.

### The SQLite wrapper (`SqliteConn`)

Each client has a connection and goes through `sqlite_conn`, one of the kinds of
calls (`execute`, `query` and `query_next`, the two blob calls),
`sqlite_clear_stmt` and `sqlite_disconn`. The engine is external: many readers or
one writer, `SQLITE_BUSY` at once to whoever meets a lock (the busy handler is
switched off), `SQLITE_ERROR` for refused SQL, other errors that come and go
(`ExecTransient`: no memory, an I/O error) at any attempt, and a program outside
that may lock the database for as long as it likes. `locked` says whether the last
attempt of a client met a lock, which the code reads from the message. The column
accessors have no state and are left out.

### Schedules (`ScheduleStore`)

The table of one channel is a sequence of rows. `Rows(s)` are the rows a writer
inserts, by family (record with renumbered plans over four windows and the extra
row of a whole day; motion and the others as they stand, first window only).
`Read` is the reader's walk over the rows. `Enter`, `Delete`, `DeleteFails`,
`Insert`, `InsertFails`, `Return` are the steps of a write, and `Crash` may come
between any two. `last`, `intact`, `dirty` record whose write the table should
show; the code does not have them.

### The thread pool (`ThreadPool`)

One action for each line that another thread can come between: `Limit` (the
unlocked test of the size), `AddLock`, `Walk`, `Link`, `AddUnlock`, `Signal`;
`Shutdown`, `Broadcast`, `Join`, `Drain`, `Drained`, `FreePool`. The worker's main
function is the caller's and not in the repository; it is modelled as the usual
loop the fields of the pool ask for, and marked external. Adding to a pool that
is being taken down is allowed by the code and modelled; a caller that touches
freed memory goes to the place `wild` and stays there.

### The parameters (`ParamStore`)

`rows` holds the values under each key in the order of the table, which has no
unique key. A step is one call, that is one SQL statement under the file lock
(`MsdbCall` shows that calls do not mix). `WriteLayout` is `write_layout1_chn` and
`write_sub_layout1_chn`: `CheckFinds` or `CheckMisses`, `Add`, `Set`, with other
callers in between. `SetParam` and `AddParam` are the calls made by themselves.
`CheckFails` is the error that is taken for a missing key, `AddFails` and
`SetFails` those that nobody reports. `sure` (this write meets no error) and
`blind` (rows added without looking) are not in the code. A key is a table and a
name; values are numbers, as the layouts are.

### The mail queue (`MailQueue`)

`mails` are the rows by id, with status and count of attempts. The calls of
`emaildb.c` are steps: `AddMail` with the id SQLite chooses (after the highest row
or after the highest ever, depending on how the table was declared, which the
repository does not say), `RemoveMails` by id, status, retry or all, `ReadMails`
with a batch of waiting rows in any order, `UpdateMail` by id. The program that
sends is not in the repository; `SendMail`, what it writes back and when it gives
up are modelled as the fields of a mail ask for, and marked external. Calls fail
(`AddMailFails`, `UpdateMailFails`) and senders die between any two steps. The
lock of `emaildb.c` is not a variable: every call is one statement, which the
engine makes atomic with or without it.

### The list (`MsList`), children (`Vpopen`) and leak records (`LeakTracker`)

`MsList` keeps the pointers: `next` of the root and of each node, `elem`, `nb_elt`,
and the three fields of an iterator, where `prev` (a pointer to a pointer) is the
place whose `next` it is. Each call is a step, since one thread uses a list.
Callers step an iterator while it has an element and get a new one after they
changed the list behind its back; `RemoveDisplaced` says whether they also remove
right after an addition at the iterator's own place (section 7).

`Vpopen` has one action for each point between two system calls. A child inherits
every descriptor its parent has, and `writers` says who holds the writing end of
each pipe; a child that reads can end when nobody does. `childpid` is the table
that all threads share without a mutex. A stream gets the lowest free descriptors
of the process; `Fd` leaves the choice open.

`LeakTracker` is `memory.c` as built with `MS_LEAK_DETECT`. The heap (external) and
the chain of records change in two steps, only the second of them under the
mutex, so an address may be given to another thread before its record has moved
on. `missed` says whether a block was ever left without a record (no memory for
it, or a report that threw the chain away while blocks were alive).

## 3. Runs

| run | instance | what it shows |
|---|---|---|
| `lock_pairs` | two processes of two threads, both files, `open` and `lockf` may fail, crashes | siblings exclude each other also where `lockf` reports deadlocks that do not exist; a running section loses its record lock to a sibling in `FileUnlock` only; nothing stays locked |
| `lock_solo` | three single-threaded processes, both files, `lockf` fails for deadlocks only | they exclude each other; the two calls implement `SectionLock` |
| `lock_live` | processes of 2 and 1 threads, one file, `lockf` may fail | readers and lone writers get in, never does everybody wait |
| `call_solo` | all 706 pairs of calls that collide on a table, two processes, `lockf` fails for deadlocks only | isolation between processes, errors, counts, connections |
| `call_siblings` | the same pairs, two threads of one process, `lockf` may fail | isolation by the rwlock; `write_alarm_out_schedule` is the one exception |
| `sqlite` | two clients of one call, 3 attempts, 2 rows, no file lock | `sqlite_execute` never fails for a lock; queries return whatever the lock does, `sqlite_execute` if it is given back |
| `sqlite_codes` | the same | violated: section 7 |
| `schedule` | two writers; two days, one plan, two windows; three families | what is read is what was written, the rows are those of one call |
| `thread_pool` | two callers, two workers, one closer, three tasks, limit 0 | bounds, places of tasks, wake-ups, shutdown |
| `stores` | two callers, one key, three values, one blind row; two senders, two mails, batches of two, two attempts, three ids, one fault | a parameter is a register with few rows behind it; who may send a mail again, whose mark may be wrong, that no mail waits for ever |
| `helpers` | three nodes, two elements, positions -2 to 3; two threads, three addresses, three records; two threads, two streams, two descriptors | the list is a sequence; the records are the live blocks; children are waited for |
| `list_count` | three nodes, one element | violated: section 7 |

Why the bounds are enough. The lock: every hazard needs two threads of one
process and one of another, or two files and two processes of two threads; both
instances are there, and the safety properties are proved for every size. The
calls: interference is between two calls, and all pairs that share a table are
tried. SQLite: three attempts, as 200, leave room for none, some and all of them
to meet a lock. Schedules: one plan in two windows gives no, some and all items
left out and the number that triggers the extra row; a day before and after it
shows that days do not mix; a second DELETE is only allowed to fail when the
first was cleaned up (`~dirty`), which bounds the table. The pool: with limit 0
both callers can pass the test together, which is what the limit is about;
two workers are what distinguishes a broadcast from a signal. Parameters: two
callers can miss a key together, and a blind row makes three, so that the first
and the others differ; 0 is the default and two more values tell writers apart.
Mails: two senders and two mails in a batch of two are what it takes to read
together, and the third id what it takes to give one out again; one fault
suffices for each of the exceptions. The list: three nodes give a first, a middle
and a last one, and positions lie before, in and after it. Leak records: with
three addresses two threads can trade addresses while one is moved. Children:
two streams are what it takes for one child to hold the other's pipe. The safety
properties of the pool, the parameters, the mails and the records are proved for
every size.

`CHECK_DEADLOCK FALSE` is set for `SqliteConn` (its clients make finitely many
calls and stop), `ThreadPool` (the pool is taken down and everyone stops; a pool
that hangs is the subject of `UninitReturns`), `MCStores` (mails and ids run
out) and `MCHelpers` and `MCMsList` (nodes, addresses and streams run out, and
overlapping calls of `ms_vpopen` may lose a child and hang, section 7).

## 4. Fairness

- `MsdbLock`: weak fairness of the steps of a thread, since the scheduler runs
  every thread that can run, and strong fairness of being granted the record lock
  and the rwlock as a reader. glibc prefers readers, so a reader is only ever
  blocked by a writer that leaves; a writer of a process with several threads
  may starve, and no property says otherwise (`PreferredEnter` is about readers
  and about writers of processes of one thread, `NobodyStuck` about all together).
  Nobody has to start a call or to crash.
- `SqliteConn`: weak fairness of each client. `ExecuteReturns` has the further
  assumption in the property itself (`LockFairness`): the program outside lets
  go, and an attempt that is possible again and again happens.
- `ThreadPool`: weak fairness of callers inside a call, of workers and of the
  closer after it set the flag. The tasks are finite, so nobody can be kept from
  the mutex for ever.
- `MailQueue`: `MailFairness` is the premise of `NoMailWaitsForEver`: each sender
  goes on reading, sending and writing back. Nothing makes a mail go out, be added
  or removed.
- `Vpopen`: `PopenFairness` is the premise of `ChildrenReaped`: a thread that has
  begun a call or has a stream goes on, and a child ends when it can. The property
  supposes that threads at some time stop opening, and that no `ms_vpopen`
  overlapped another call, without which it is false (section 7).

## 5. What is proved

The theorems hold for every value of the constants under the named assumptions of
the modules (`ConstantsOK`, `JobsOK`, `ConnConstantsOK`, `ParamConstantsOK`,
`MailConstantsOK`, `PoolConstantsOK`, `ScheduleConstantsOK`, `ListConstantsOK`,
`LeakConstantsOK`), which TLC evaluates in the runs. None of the invariants is
inductive by itself; each module states the strengthening it needs and proves
that the first state has it, every step keeps it, and it implies the property.

`MsdbLock_proofs`: type correctness, `SiblingExclusion`, `CrossExclusion`,
`NoLockLeak`, `LostOnlyToSibling`, and that single-threaded processes whose lock
files open implement `SectionLock`. Exclusion across processes has the premise that
`lockf` fails for deadlocks only (`~LockfMayFail`): after any other failure two
processes may be in their sections, as section 7 says. What is said within a
process, who takes a lock that is owned, and that nothing stays locked, holds in any
case. Exclusion across processes needs `SingleInv`: a single-threaded process owns
the file of its section until its own `F_ULOCK`, which needs in turn that `fd` and
`held` follow the program counter (`FdInv`, `HeldInv`), that the rwlock holds of
siblings are compatible (`RwInv`), and that an owner always has a thread on its way
out (`OwnerInv`). The refinement adds that a
section is left before the record lock is.

`MsdbCall_proofs`: type correctness, `ErrorsChangeNothing`,
`OkCounts`, `ConnectionsClosed`, `CallsIsolated` and `SiblingsIsolated`, for every set
of processes and threads and every assignment of calls of the catalogue to them,
where the runs have pairs. `CatalogMade` says what every record of the catalogue
is like, family by family: its fields are in their sets, a changing statement is
never before one whose failure is reported, the lock mode is "w" where a table
is written (`LocksToChange`), the counter is always written except by
`read_alarm_pids`. A step of a call is a step of the lock or leaves the lock alone,
so the lock's invariant holds of the calls without further proof; isolation
between processes then follows from `SingleInv` and from each table having one lock
file, isolation between siblings from `RwInv`, `HeldInv` and `LocksToChange`. `ErrInv`
and `CountInv` say what a call has done up to its next statement, `PlaceInv` where
it stands and that outside its section it has no handle of a kind it closes:
`ConnectionsClosed` follows from this and from `Disconnects`, what the records of the
catalogue close.

`SqliteConn_proofs`: type correctness and `LockNeverFailsExecute`, for any number of
attempts, rows, calls and clients. The kind of a call decides where its client can
be (`KindInv`), and `sqlite_execute` only gives up after `SQLITE_OPT_CNT` attempts
the last of which met something else than a lock (`ErrorInv`).

`ParamStore_proofs`: type correctness, `RowsBounded`, and that the separate calls
implement `ParamRegister`. For the bound, the rows of a key and the callers about to
add one are together at most the blind rows and the callers (`RowsInv`); for the
refinement, a sure write that is past its `Add` finds a row to set (`SureInv`).

`MailQueue_proofs`: type correctness, `MarkedWasSent` and `SentAgainForAReason`. The
mark is right because whoever holds an id that was not given out again holds it
for the mail of its row (`HeldRight`) and a mail that went out was counted
(`WentCounted`). For the last one, as long as no reason applies to a mail there is
one row or one held copy through which it can still go out: the invariant says
so of each mail that is new, in a row, held, being sent, sent but not written
back, or waiting, and that it went out once at most (`SendsInv`).

`ThreadPool_proofs`: type correctness, `QueueBounded`, `WorkersGoneFirst`,
`TaskInOnePlace`, `NothingDropped`, and that `size` is the length of the queue
(`Counts`). The invariant says who has the mutex by program counter (`MutexInv`),
where a task is (`TaskInv`, `PlaceInv`), that a walk ended at the last node
(`MemberInv`: without it a new node could be linked in the middle and cut off the
rest, and it holds while uninit frees nodes without the mutex), that the counter
is the length (`SizeInv`), that the workers are gone before anything is freed
(`GoneInv`), and for the limit that `size` plus the callers between the test and
the link never exceed the limit plus the callers (`BoundInv`).

`ScheduleStore_proofs`: type correctness, `RowsOfOneCall`, `ReadsWhatWasWritten` and
`WholeDayKept`, for any number of writers, days, plans and windows. First the data:
the rows of a schedule are those of its days one after the other (`RowsJoined`),
no two are equal and they fit into the loop of the reader (`RowsFacts`); the
reader takes of each plan the last row that has it (`ReadDay`); from this follows
what it makes of them (`RecordItems`, `MotionItems`, `RecordWhole`). Then the state: while
calls exclude each other there is one in its section (`AloneInv`), what it has still to
insert is the end of its rows (`TodoInv`), the table has some of the others, each
once (`OnceInv`), and the beginning in order as long as nothing failed (`PrefixInv`).

`Helpers_proofs`, of `MsList`: `ListIntact`, `NbEltCounts`, and that the list with its
iterator implements `ListSpec`, for any number of nodes and for callers that do not
remove at an iterator right after they added there (`RemoveDisplaced` is FALSE; the
run `list_count` shows that the code keeps neither otherwise). The invariant names
the chain: some sequence of the allocated nodes, each once, that the pointers follow
to `NULL` (`Held`), in which the iterator's `prev` and `actual` are neighbours at its
position (`IteratorOn`). That the walk of `Chain` is this sequence (`ChainIs`) is an
induction along it; linking and unlinking a node put it into and take it out of the
sequence (`LinkChain`, `UnlinkChain`), which is what `ListSpec` does to its elements.

Both need induction over numbers: what holds of the first and of each successor
holds of an interval (`IntervalInduction`). It is proved from the least
counterexample, for the members of a set and not for an operator.

`Helpers_proofs`, of `LeakTracker`: `RecordsExact`. Every block is with one thread,
which owns it or is busy with it (`HeapInv`); `ptr_next` is the last record unless
the chain is empty (`PtrInv`); and of each address there are as many records as
threads it is due to, or fewer if a block was missed (`CountInv`). A thread is due
a record of the address it owns, and of the one its `realloc` left while the record
is not yet changed: this is what two records of one address come to in between, and
why they are gone when no call is under way.

`Helpers_proofs`, of `Vpopen`: `ChildrenKnown`. No stream is free before its child has
ended, whatever overlaps (`EndedInv`), and as long as no `ms_vpopen` overlapped
another call the table knows the child of every open stream, so `ms_vpclose` finds
it. A stream in use is with one thread (`StreamInv`), who opens one is alone
(`LoneInv`), and streams in use have different descriptors (`KnownInv`): a closed
stream keeps its descriptor's entry until its child was waited for, so no `pipe` may
come in between. That every open stream is closed in the end needs fairness and
stays with the run (`ChildrenReaped`).

## 6. Only model-checked

- Liveness (`PreferredEnter`, `NobodyStuck`, `QueryReturns`, `ExecuteReturns`,
  `TasksTaken`, `UninitReturns`, `NoMailWaitsForEver`, `ChildrenReaped`): the proof
  system has no rules for fairness that its provers can use.
- That a violation is there (`sqlite_codes`, `list_count`): a run shows a behaviour.

## 7. What the models show about the code

Two headers disagree with the code, and a run shows each:

- `ccsqlite.h`: `sqlite_query_next` is documented to return -1 on an error (line 26)
  and returns 1, "no record": a list that was cut short looks complete
  (`ccsqlite.c` 146). `sqlite_query_record` is documented to return -1, 0 or 1 (line
  21) and returns the engine's own code, 5 for a locked database (129).
- `msstd.h` 251 says that `nb_elt` is the number of elements in the list.
  `ms_list_iterator_add` at the iterator's own place leaves `prev` at the pointer to
  the new node (`thread_ex.c` 640); a removal at the iterator then unlinks both
  nodes and `nb_elt` counts one that is not in the chain.

Elsewhere no document promises the contrary, and the property names the
exception. Such a property does not exclude the hazard it names; it shows that
the exception is the only one:

- `write_alarm_out_schedule` rewrites its table under the read lock
  (`msdb.c` 764): a sibling reader sees it half written, two writers mix.
- The record lock of a section can be dropped by a sibling that leaves
  (`msdb.c` 63-65): multi-threaded processes do not exclude each other.
- When the lock file does not open, nearly all calls go on without any lock; when
  `lockf` fails, with `EINTR` or `ENOLCK` as with `EDEADLK`, all go on without the
  record lock (55).
- `insert_disk` never closes its connection (6695). When `sqlite3_open` fails it
  usually has made a handle that is to be closed all the same (`sqlite3.h` 1930);
  `sqlite_conn` does not (`ccsqlite.c` 31-36), and of the calls only
  `read_ipc_protocols`, `read_ipc_models` and `read_ipc_models_by_protocol` do, which
  break to their `sqlite_disconn` (4145, 4297, 4352): every other call loses it.
- `read_alarm_pids` may return 0 with nothing written (4934).
- `sqlite_execute` waits for a lock as long as it takes, but counts these attempts:
  after 200 of them a single error of another kind fails the call (`ccsqlite.c` 66-82),
  where it would have been tried again before.
- A record schedule: the number of items left out of 48 is compared with 12
  (1730), so a whole day without items loses its flag, and one with exactly 12
  left out (36 kept) reads back without its first item. The other families drop
  every item beyond the first window (520). A failed DELETE or INSERT is not
  noticed.
- Two callers of `write_layout1_chn` may both add a key that is missing (5744), and a
  failed look-up adds one that is there; no reader can tell, since the first row
  is read and every row is set. A failed set is reported as 0.
- A mail goes out twice when two senders read it before either writes back
  (`emaildb.c` 84), when it cannot be written back (123), or when its id was given out
  again while a sender held it (122), which also marks the wrong mail as sent. A
  mail whose statement is longer than 2048 bytes is lost with result 0. The
  comment of the second way to remove mails says "by sendtime" (149); the code
  executes an empty statement.
- `ms_pool_thread_uninit` may wait for ever: the flag is set and broadcast without
  the mutex (705-708), so a worker can test it before and wait after. The limit
  of the queue can be exceeded by one task per caller (676). A caller that is in
  `ms_pool_add_task` while the pool is taken down touches freed memory.
- `ms_vpopen` and `ms_vpclose` of two threads may lose a child: the table is
  allocated twice (299), or an entry is cleared after its descriptor has got
  a new stream (367), whose `ms_vpclose` then returns -1 without closing it. Closing
  an earlier stream first may wait for a child that cannot end (308).

## 8. What is left out, and why

- Users (`msdb.c` 2264-2502): the row that `add_user` takes is one SQL statement, and
  what an eleventh user should get is not documented. As calls they are in the
  catalogue.
- Privacy masks (4742-4882): the walk over the rows is sequential and has no state
  of its own; what it returns depends on what SQLite does with a finished
  statement that is stepped again, and the formats with one and with four areas
  disagree with each other. Kept as a hazard.
- What the calls of `msdb.c` do to columns and fields; the SQL engine beyond its
  locks and the order of its rows.
- `sqlite_exec_blob` makes one attempt: it is modelled, and a busy database is an
  error of `write_mosaic` by design.
- `count_mailtosend` and the SMTP settings: one statement that changes no mail, or
  touches another table.
- Sizes, files, lines and times of leak records, and the texts of the reports.
- A negative position other than -1: the header does not say where it leads, and
  `ListSpec` allows any place for `ms_list_add`. With `ms_list_iterator_add` it is left
  out.
- `ms_system` and `ms_vsystem`: one `vfork` and one wait without shared state.
  `fdopen` is taken to succeed.
- An argument the pool's workers may read through the address of a loop variable
  (664), two calls of `ms_pool_thread_uninit` at once (703) and a task that still has
  successors when it is added (688): the callers are not in the repository.
- The wrappers of `thread_ex.c` that are one `pthread` call; `fifo.c`, `time.c`,
  `sys_config.c` (system calls without state); `ms_create_dir` (a loop of `mkdir`);
  codecs, bit fields and network settings (conversions without state); string
  formatting; the vendored SQLite headers; the demo.
