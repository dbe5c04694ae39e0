--------------------------- MODULE ParamRegister ---------------------------
(***************************************************************************)
(* What a caller expects of a parameter of msdb.c: one value for each key, *)
(* changed by a write at one moment between its call and its return.  A    *)
(* write is sure when it creates the key if need be and nothing has failed *)
(* so far; the others may end without having changed anything, since the   *)
(* calls say 0 all the same.                                               *)
(***************************************************************************)
CONSTANTS Caller, Key, Value, Default

VARIABLES val,    \* the value of each key
          phase,  \* each caller: "idle", "open" or "over"
          key, value, sure,  \* the write it makes, and whether it is sure
          got     \* what its last read returned

Init ==
  /\ val   = [k \in Key |-> Default]
  /\ phase = [c \in Caller |-> "idle"]
  /\ key \in [Caller -> Key] /\ value \in [Caller -> Value]
  /\ sure  = [c \in Caller |-> FALSE]
  /\ got   = [c \in Caller |-> Default]

Begin(c, k, v, s) ==
  /\ phase[c] = "idle" /\ phase' = [phase EXCEPT ![c] = "open"]
  /\ key'   = [key EXCEPT ![c] = k]
  /\ value' = [value EXCEPT ![c] = v]
  /\ sure'  = [sure EXCEPT ![c] = s]
  /\ UNCHANGED <<val, got>>

\* The one moment at which the value changes.
Take(c) ==
  /\ phase[c] = "open" /\ phase' = [phase EXCEPT ![c] = "over"]
  /\ val' = [val EXCEPT ![key[c]] = value[c]]
  /\ UNCHANGED <<key, value, sure, got>>

Fault(c) ==
  /\ phase[c] = "open"
  /\ sure' = [sure EXCEPT ![c] = FALSE]
  /\ UNCHANGED <<val, phase, key, value, got>>

\* A write that comes to nothing is no longer sure.
Miss(c) ==
  /\ phase[c] = "open" /\ phase' = [phase EXCEPT ![c] = "over"]
  /\ sure' = [sure EXCEPT ![c] = FALSE]
  /\ UNCHANGED <<val, key, value, got>>

\* The return of the call, or the end of its process.
End(c) ==
  /\ phase[c] # "idle" /\ phase' = [phase EXCEPT ![c] = "idle"]
  /\ UNCHANGED <<val, key, value, sure, got>>

\* A read that fails is not told from a read of the default.
Read(c, k) ==
  /\ phase[c] = "idle"
  /\ \E v \in {val[k], Default} : got' = [got EXCEPT ![c] = v]
  /\ UNCHANGED <<val, phase, key, value, sure>>

CallerStep(c) ==
  \/ \E k \in Key, v \in Value, s \in BOOLEAN : Begin(c, k, v, s)
  \/ Take(c) \/ Fault(c) \/ Miss(c) \/ End(c)
  \/ \E k \in Key : Read(c, k)

Next == \E c \in Caller : CallerStep(c)

vars == <<val, phase, key, value, sure, got>>
Spec == Init /\ [][Next]_vars
=============================================================================
