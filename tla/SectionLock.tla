----------------------------- MODULE SectionLock -----------------------------
(***************************************************************************)
(* What the callers of FileLock and FileUnlock count on: a lock file is a  *)
(* mutual exclusion lock, at most one thread of the whole system is inside *)
(* the section that a lock file guards.                                    *)
(***************************************************************************)
CONSTANTS Thread,   \* every thread of every process
          Path      \* the lock files

VARIABLE inside     \* inside[f] is the set of threads in the section of f

Init == inside = [f \in Path |-> {}]

Enter(t, f) ==
  /\ \A g \in Path : t \notin inside[g]
  /\ inside[f] = {}
  /\ inside' = [inside EXCEPT ![f] = {t}]

Leave(t, f) ==
  /\ t \in inside[f]
  /\ inside' = [inside EXCEPT ![f] = @ \ {t}]

Next == \E t \in Thread, f \in Path : Enter(t, f) \/ Leave(t, f)

Spec == Init /\ [][Next]_inside
=============================================================================
