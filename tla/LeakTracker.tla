---------------------------- MODULE LeakTracker ----------------------------
(***************************************************************************)
(* libs/msstd/memory.c as it is built with MS_LEAK_DETECT: a chain of      *)
(* records, one for each block, with a pointer to its last one.  The heap  *)
(* and the chain change one after the other, and only the chain is under   *)
(* global_mutex: between the two other threads may be given an address     *)
(* whose record has not moved on.  Size, file and line of a record are     *)
(* left out.                                                               *)
(***************************************************************************)
EXTENDS Integers, Sequences, SequencesExt, FiniteSets

CONSTANTS User,   \* threads
          Addr,   \* addresses of blocks (bound: as many as there are)
          Leak,   \* addresses of records (bound: as many as there are)
          NoLeak

ASSUME LeakConstantsOK == IsFiniteSet(User) /\ Addr # {}

VARIABLES heap,    \* the blocks that are allocated
          owned,   \* those that each thread may hand back
          chain,   \* the records from ptr_start on
          ptr_next,
          call,    \* where each thread is: "idle", "add", "free" or "replace"
          old, new,  \* the addresses that it is at
          missed   \* not in the code: was a block ever left without record?

leakVars == <<heap, owned, chain, ptr_next, call, old, new, missed>>

Record(n, a) == [node |-> n, address |-> a]

LeakInit ==
  /\ heap = {} /\ chain = <<>> /\ ptr_next = NoLeak
  /\ owned = [u \in User |-> {}]
  /\ call  = [u \in User |-> "idle"]
  /\ old   = [u \in User |-> CHOOSE a \in Addr : TRUE] /\ new = old
  /\ missed = FALSE

Idle(u) == call[u] = "idle"
Become(u, where) == call' = [call EXCEPT ![u] = where]

\* Position of the first record with address a, 0 without one.
Find(a) == SelectInSeq(chain, LAMBDA r : r.address = a)

-----------------------------------------------------------------------------
(* The heap. *)

\* malloc, calloc, valloc.  Without memory the program ends in assert.
Allocate(u) ==
  /\ Idle(u) /\ Become(u, "add")
  /\ \E a \in Addr \ heap : heap' = heap \cup {a} /\ new' = [new EXCEPT ![u] = a]
  /\ UNCHANGED <<owned, chain, ptr_next, old, missed>>

\* realloc that moves a block; one that does not move it changes nothing.
Reallocate(u, a) ==
  /\ Idle(u) /\ a \in owned[u] /\ Become(u, "replace")
  /\ \E b \in Addr \ heap :
       heap' = (heap \ {a}) \cup {b} /\ new' = [new EXCEPT ![u] = b]
  /\ old' = [old EXCEPT ![u] = a]
  /\ owned' = [owned EXCEPT ![u] = @ \ {a}]
  /\ UNCHANGED <<chain, ptr_next, missed>>

Release(u) ==
  /\ call[u] = "free" /\ Become(u, "idle")
  /\ heap' = heap \ {old[u]}
  /\ UNCHANGED <<owned, chain, ptr_next, old, new, missed>>

-----------------------------------------------------------------------------
(* The chain. *)

\* What is hung behind a record that is not the last, or not there, is lost.
AppendRecord(u) ==
  /\ call[u] = "add" /\ Become(u, "idle")
  /\ \E n \in Leak \ {r.node : r \in ToSet(chain)} :
       /\ ptr_next' = n
       /\ chain' = IF chain = <<>> \/ Last(chain).node = ptr_next
                   THEN Append(chain, Record(n, new[u])) ELSE chain
  /\ owned' = [owned EXCEPT ![u] = @ \cup {new[u]}]
  /\ UNCHANGED <<heap, old, new, missed>>

\* malloc of the record returns 0; ms_realloc(0) is a malloc without record.
AppendFails(u) ==
  /\ call[u] = "add" /\ Become(u, "idle")
  /\ owned' = [owned EXCEPT ![u] = @ \cup {new[u]}]
  /\ missed' = TRUE
  /\ UNCHANGED <<heap, chain, ptr_next, old, new>>

\* A mistake, used by no specification: ptr_next stays on an erased record.
EraseKeepsLast(n) == chain' = RemoveAt(chain, n) /\ UNCHANGED ptr_next

Erase(n) ==
  /\ chain' = RemoveAt(chain, n)
  /\ ptr_next' = IF n > 1 /\ n = Len(chain) THEN chain[n - 1].node ELSE ptr_next

\* ms_free up to free itself.
RemoveRecord(u, a) ==
  /\ Idle(u) /\ a \in owned[u] /\ Become(u, "free")
  /\ IF Find(a) > 0 THEN Erase(Find(a)) ELSE UNCHANGED <<chain, ptr_next>>
  /\ old'   = [old EXCEPT ![u] = a]
  /\ owned' = [owned EXCEPT ![u] = @ \ {a}]
  /\ UNCHANGED <<heap, new, missed>>

ReplaceRecord(u) ==
  /\ call[u] = "replace" /\ Become(u, "idle")
  /\ chain' = IF Find(old[u]) > 0 THEN [chain EXCEPT ![Find(old[u])].address = new[u]] ELSE chain
  /\ owned' = [owned EXCEPT ![u] = @ \cup {new[u]}]
  /\ UNCHANGED <<heap, ptr_next, old, new, missed>>

\* mem_leak_report, which the program calls when its threads are done, and a
\* new mem_leak_init: ptr_next stays where it was.
Report ==
  /\ \A u \in User : Idle(u)
  /\ chain' = <<>> /\ missed' = (missed \/ heap # {})
  /\ UNCHANGED <<heap, owned, ptr_next, call, old, new>>

-----------------------------------------------------------------------------
UserStep(u) ==
  \/ Allocate(u) \/ AppendRecord(u) \/ AppendFails(u)
  \/ \E a \in Addr : RemoveRecord(u, a) \/ Reallocate(u, a)
  \/ Release(u) \/ ReplaceRecord(u)

LeakNext == Report \/ \E u \in User : UserStep(u)

LeakSpec == LeakInit /\ [][LeakNext]_leakVars

-----------------------------------------------------------------------------
(* What mem_leak_report is called for: when no call is under way, each record
   is of an allocated block that has no other record, and if no block was left
   without one, of every block, whoever moved or reused its address meanwhile
   (memory.c:143-162, 185-193). *)
RecordsExact ==
  (\A u \in User : Idle(u)) =>
    LET recorded == {r.address : r \in ToSet(chain)}
    IN  /\ Cardinality(recorded) = Len(chain)
        /\ recorded \subseteq heap
        /\ ~missed => recorded = heap
=============================================================================
