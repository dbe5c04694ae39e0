----------------------------- MODULE ParamStore -----------------------------
(***************************************************************************)
(* The tables params and params_oem of msdb.c.  They have no unique key: a *)
(* row is added whether or not there is one of its name, and a name may    *)
(* have several.  write_layout1_chn and write_sub_layout1_chn look for the *)
(* key, add it when it is not found, and set it, in calls that are locked  *)
(* one by one; between them other callers run.  Each call is one SQL       *)
(* statement under the file lock and is one step here.  Its connection or  *)
(* its statement may fail, which check_param_key reports as "not there"    *)
(* and the writers do not report at all.                                   *)
(***************************************************************************)
EXTENDS Integers, Sequences, FiniteSets

CONSTANTS Caller,
          Key,       \* table and name of a parameter
          Value,
          Default,   \* what layouts are read as when missing, and added as
          MaxBlind   \* bound: rows added without looking, for each key

ASSUME ParamConstantsOK ==
  IsFiniteSet(Caller) /\ Default \in Value /\ MaxBlind \in Nat

VARIABLES rows,        \* the values under each key, in the order of the table
          step,        \* where each caller is
          key, value,  \* what it writes
          got,         \* what it read last
          sure,  \* not in the code: its write must come out, nothing failed yet
          blind  \* not in the code: rows added by callers that had not seen
                 \* the key missing

paramVars == <<rows, step, key, value, got, sure, blind>>

ParamInit ==
  /\ rows  = [k \in Key |-> <<>>]
  /\ step  = [c \in Caller |-> "idle"]
  /\ key \in [Caller -> Key]
  /\ value = [c \in Caller |-> Default]
  /\ got   = [c \in Caller |-> Default]
  /\ sure  = [c \in Caller |-> FALSE]
  /\ blind = [k \in Key |-> 0]

ParamGo(c, where) == step' = [step EXCEPT ![c] = where]

Enter(c, k, v, where, s) ==
  /\ step[c] = "idle" /\ ParamGo(c, where)
  /\ key'   = [key EXCEPT ![c] = k]
  /\ value' = [value EXCEPT ![c] = v]
  /\ sure'  = [sure EXCEPT ![c] = s]
  /\ UNCHANGED <<rows, got>>

-----------------------------------------------------------------------------
(* The calls. *)

WriteLayout(c, k, v) == Enter(c, k, v, "check", TRUE) /\ UNCHANGED blind

\* set_param_value, set_param_int by themselves change nothing without a row.
SetParam(c, k, v) == Enter(c, k, v, "set", FALSE) /\ UNCHANGED blind

\* add_param_value, add_param_int by themselves look for no row.
AddParam(c, k, v) ==
  /\ blind[k] < MaxBlind /\ blind' = [blind EXCEPT ![k] = @ + 1]
  /\ Enter(c, k, v, "add only", FALSE)

Insert(c, v) == rows' = [rows EXCEPT ![key[c]] = Append(@, v)]

\* Mistakes, used by no specification: the key is added although it was found;
\* the value itself is added and then set again; what a missing row holds is
\* returned.
CheckFindsAdds(c) ==
  /\ step[c] = "check" /\ rows[key[c]] # <<>>
  /\ ParamGo(c, "add")
  /\ UNCHANGED <<rows, key, value, got, sure, blind>>
AddValue(c) ==
  /\ step[c] = "add" /\ Insert(c, value[c])
  /\ ParamGo(c, "set")
  /\ UNCHANGED <<key, value, got, sure, blind>>
GetNothing(c, k) ==
  /\ step[c] = "idle"
  /\ got' = [got EXCEPT ![c] = IF rows[k] = <<>> THEN -1 ELSE Head(rows[k])]
  /\ UNCHANGED <<rows, step, key, value, sure, blind>>

CheckFinds(c) ==
  /\ step[c] = "check" /\ rows[key[c]] # <<>>
  /\ ParamGo(c, "set")
  /\ UNCHANGED <<rows, key, value, got, sure, blind>>

CheckMisses(c) ==
  /\ step[c] = "check" /\ rows[key[c]] = <<>>
  /\ ParamGo(c, "add")
  /\ UNCHANGED <<rows, key, value, got, sure, blind>>

\* -1 of an error is taken for -1 of a missing key.
CheckFails(c) ==
  /\ step[c] = "check" /\ rows[key[c]] # <<>>
  /\ blind[key[c]] < MaxBlind /\ blind' = [blind EXCEPT ![key[c]] = @ + 1]
  /\ ParamGo(c, "add")
  /\ UNCHANGED <<rows, key, value, got, sure>>

Add(c) ==
  /\ step[c] = "add" /\ Insert(c, Default)
  /\ ParamGo(c, "set")
  /\ UNCHANGED <<key, value, got, sure, blind>>

AddFails(c) ==
  /\ step[c] = "add" /\ ParamGo(c, "set")
  /\ sure' = [sure EXCEPT ![c] = FALSE]
  /\ UNCHANGED <<rows, key, value, got, blind>>

AddOnly(c) ==
  /\ step[c] = "add only" /\ Insert(c, value[c])
  /\ ParamGo(c, "return")
  /\ UNCHANGED <<key, value, got, sure, blind>>

AddOnlyFails(c) ==
  /\ step[c] = "add only" /\ ParamGo(c, "return")
  /\ UNCHANGED <<rows, key, value, got, sure, blind>>

\* UPDATE reaches every row of the name, and none when there is none.
Set(c) ==
  /\ step[c] = "set"
  /\ rows' = [rows EXCEPT ![key[c]] = [i \in DOMAIN @ |-> value[c]]]
  /\ ParamGo(c, "return")
  /\ UNCHANGED <<key, value, got, sure, blind>>

SetFails(c) ==
  /\ step[c] = "set" /\ ParamGo(c, "return")
  /\ sure' = [sure EXCEPT ![c] = FALSE]
  /\ UNCHANGED <<rows, key, value, got, blind>>

Return(c) ==
  /\ step[c] = "return" /\ ParamGo(c, "idle")
  /\ UNCHANGED <<rows, key, value, got, sure, blind>>

\* get_param_int, get_param_value: the first row, or the default.
Get(c, k) ==
  /\ step[c] = "idle"
  /\ got' = [got EXCEPT ![c] = IF rows[k] = <<>> THEN Default ELSE Head(rows[k])]
  /\ UNCHANGED <<rows, step, key, value, sure, blind>>

GetFails(c) ==
  /\ step[c] = "idle"
  /\ got' = [got EXCEPT ![c] = Default]
  /\ UNCHANGED <<rows, step, key, value, sure, blind>>

\* The caller's process dies between two calls.
ParamCrash(c) ==
  /\ step[c] # "idle" /\ ParamGo(c, "idle")
  /\ UNCHANGED <<rows, key, value, got, sure, blind>>

-----------------------------------------------------------------------------
CallerStep(c) ==
  \/ \E k \in Key, v \in Value : WriteLayout(c, k, v) \/ SetParam(c, k, v) \/ AddParam(c, k, v)
  \/ CheckFinds(c) \/ CheckMisses(c) \/ CheckFails(c)
  \/ Add(c) \/ AddFails(c) \/ AddOnly(c) \/ AddOnlyFails(c)
  \/ Set(c) \/ SetFails(c) \/ Return(c)
  \/ (\E k \in Key : Get(c, k)) \/ GetFails(c)
  \/ ParamCrash(c)

ParamNext == \E c \in Caller : CallerStep(c)

ParamSpec == ParamInit /\ [][ParamNext]_paramVars

-----------------------------------------------------------------------------
(* The properties. *)

\* The variables stay in their sets.
ParamTypeOK ==
  /\ rows \in [Key -> Seq(Value)]
  /\ step \in [Caller -> {"idle", "check", "add", "add only", "set", "return"}]
  /\ key \in [Caller -> Key] /\ value \in [Caller -> Value]
  /\ got \in [Caller -> Value]
  /\ sure \in [Caller -> BOOLEAN]
  /\ blind \in [Key -> Nat]

(* A key gets one row for each caller at most, besides the rows that were added
   without looking or after a look that failed: several callers may find it
   missing together, but not again once a row is there (msdb.c:3945, 5744). *)
RowsBounded ==
  \A k \in Key : Len(rows[k]) <= blind[k] + Cardinality(Caller)

Shown == [k \in Key |-> IF rows[k] = <<>> THEN Default ELSE Head(rows[k])]
Phase == [c \in Caller |->
            CASE step[c] = "idle"   -> "idle"
              [] step[c] = "return" -> "over"
              [] OTHER              -> "open"]

Register == INSTANCE ParamRegister WITH val <- Shown, phase <- Phase

(* In spite of the rows in excess, of the added 0 and of the separate calls,
   readers see one value per key that a write changes once, and a write of the
   layouts that met no error has changed it (msdb.c:3801, 3852, 5741-5759). *)
RegisterSpec == Register!Spec
=============================================================================
