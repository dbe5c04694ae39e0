----------------------------- MODULE MCHelpers -----------------------------
(* Three helpers that share nothing, each on its own: part says which one moves. *)
EXTENDS MsList, LeakTracker, Vpopen

CONSTANTS n1, n2, n3, e1, e2, u1, u2, a1, a2, a3, l1, l2, l3, c1, c2, s1, s2

VARIABLE part

Nodes == {n1, n2, n3}
Elems == {e1, e2}
Indices == -2 .. 3
Users == {u1, u2}
Addrs == {a1, a2, a3}
Leaks == {l1, l2, l3}
Clients == {c1, c2}
Streams == {s1, s2}

Init == /\ part \in {"list", "leak", "popen"}
        /\ ListInit /\ LeakInit /\ PopenInit

Next ==
  \/ part = "list" /\ ListNext /\ UNCHANGED <<part, leakVars, popenVars>>
  \/ part = "leak" /\ LeakNext /\ UNCHANGED <<part, listVars, popenVars>>
  \/ part = "popen" /\ PopenNext /\ UNCHANGED <<part, listVars, leakVars>>

Spec == Init /\ [][Next]_<<part, listVars, leakVars, popenVars>>
=============================================================================
