------------------------------ MODULE ListSpec ------------------------------
(***************************************************************************)
(* What the list of msstd promises: a sequence of elements with indices    *)
(* from 0, in which one iterator stands before an element or past the end. *)
(* An addition may fail and then changes nothing.                          *)
(***************************************************************************)
EXTENDS Integers, Sequences, SequencesExt

CONSTANTS Elem, NULL, Positions  \* positions that callers ask for

VARIABLES seq,   \* the elements
          cur,   \* index of the iterator's element from 1 on, 0 without one
          res    \* what the last call returned

Init == seq = <<>> /\ cur = 0 /\ res = 0

At(i) == IF i \in DOMAIN seq THEN seq[i] ELSE NULL

\* -1 and what is past the end mean the end; where another negative position
\* leads is not said.
Places(p) == IF p = -1 \/ p >= Len(seq) THEN {Len(seq)}
             ELSE IF p >= 0 THEN {p} ELSE 0 .. Len(seq)

AddAt(i, e) == res' = Len(seq) + 1 /\ seq' = InsertAt(seq, i + 1, e)

Add(e, p)    == cur' = 0 /\ \E i \in Places(p) : AddAt(i, e)
AddFails     == res' = -1 /\ cur' \in {0, cur} /\ UNCHANGED seq
Get(p)       == res' = At(p + 1) /\ UNCHANGED <<seq, cur>>
Delete(p)    == /\ p + 1 \in DOMAIN seq
                /\ cur' = 0 /\ res' = Len(seq) - 1 /\ seq' = RemoveAt(seq, p + 1)
DeleteNone   == res' = -1 /\ cur' = 0 /\ UNCHANGED seq
Free         == seq' = <<>> /\ cur' = 0 /\ res' = 0

IterFirst    == /\ cur' = IF seq = <<>> THEN 0 ELSE 1
                /\ res' = At(1) /\ UNCHANGED seq
IterNext     == /\ cur \in DOMAIN seq /\ cur' = cur + 1
                /\ res' = At(cur + 1) /\ UNCHANGED seq
IterRemove   == /\ cur > 0 /\ UNCHANGED cur
                /\ seq' = IF cur \in DOMAIN seq THEN RemoveAt(seq, cur) ELSE seq
                /\ res' = At(cur)'
\* What is added before the iterator or at its place moves it on.
IterAdd(e, p) == /\ cur > 0
                 /\ \E i \in Places(p) :
                      cur' = (IF i < cur THEN cur + 1 ELSE cur) /\ AddAt(i, e)

Next ==
  \/ \E e \in Elem, p \in Positions : Add(e, p) \/ IterAdd(e, p)
  \/ \E p \in Positions : Get(p) \/ Delete(p)
  \/ AddFails \/ DeleteNone \/ Free \/ IterFirst \/ IterNext \/ IterRemove

vars == <<seq, cur, res>>
Spec == Init /\ [][Next]_vars
=============================================================================
