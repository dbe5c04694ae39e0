------------------------- MODULE ParamStore_proofs -------------------------
(***************************************************************************)
(* ParamStore for any number of callers, keys and values: its types, the   *)
(* bound on the rows of a key, and that it implements ParamRegister.       *)
(***************************************************************************)
EXTENDS ParamStore, FiniteSetTheorems, SequenceTheorems, TLAPS

USE DEF ParamGo

Overwritten(s, v) == [i \in DOMAIN s |-> v]

-----------------------------------------------------------------------------
(* The rows of a key *)

\* A row behind others does not change the first one.
LEMMA AppendRow ==
  ASSUME NEW s \in Seq(Value), NEW v \in Value
  PROVE  /\ Append(s, v) \in Seq(Value)
         /\ Append(s, v) # <<>>
         /\ Len(Append(s, v)) = Len(s) + 1
         /\ s # <<>> => Head(Append(s, v)) = Head(s)
         /\ s = <<>> => Head(Append(s, v)) = v
  OBVIOUS

\* UPDATE keeps the rows and gives them one value.
LEMMA OverwriteRows ==
  ASSUME NEW s \in Seq(Value), NEW v \in Value
  PROVE  /\ Overwritten(s, v) \in Seq(Value)
         /\ Len(Overwritten(s, v)) = Len(s)
         /\ s # <<>> => Overwritten(s, v) # <<>> /\ Head(Overwritten(s, v)) = v
         /\ s = <<>> => Overwritten(s, v) = <<>>
<1>1. DOMAIN s = 1 .. Len(s) /\ Len(s) \in Nat
  OBVIOUS
<1>2. Overwritten(s, v) \in [1 .. Len(s) -> Value]
  BY <1>1 DEF Overwritten
<1>3. Overwritten(s, v) \in Seq(Value) /\ Len(Overwritten(s, v)) = Len(s)
  BY <1>1, <1>2, SeqDef
<1>4. s # <<>> => Len(s) > 0
  OBVIOUS
<1>5. s # <<>> => Overwritten(s, v)[1] = v
  BY <1>1, <1>4 DEF Overwritten
<1> QED
  BY <1>3, <1>4, <1>5, EmptySeq

\* The types of what a key has.
LEMMA KeyTypes ==
  ASSUME ParamTypeOK, NEW k \in Key
  PROVE  /\ rows[k] \in Seq(Value) /\ Len(rows[k]) \in Nat /\ blind[k] \in Nat
         /\ rows[k] = <<>> => Len(rows[k]) = 0
<1>1. rows[k] \in Seq(Value)
  BY DEF ParamTypeOK
<1>2. blind[k] \in Nat
  BY DEF ParamTypeOK
<1> QED
  BY <1>1, <1>2, LenProperties, EmptySeq

LEMMA KeyTypesNext ==
  ASSUME ParamTypeOK', NEW k \in Key
  PROVE  blind[k]' \in Nat
  BY DEF ParamTypeOK

-----------------------------------------------------------------------------
(* Types *)

LEMMA ParamTypeInit == ParamConstantsOK /\ ParamInit => ParamTypeOK
  BY DEF ParamConstantsOK, ParamInit, ParamTypeOK

LEMMA InsertType ==
  ASSUME ParamTypeOK, NEW c \in Caller, NEW v \in Value, Insert(c, v)
  PROVE  rows' \in [Key -> Seq(Value)]
<1>1. key[c] \in Key /\ rows[key[c]] \in Seq(Value)
  BY DEF ParamTypeOK
<1>2. Append(rows[key[c]], v) \in Seq(Value)
  BY <1>1, AppendRow
<1> QED
  BY <1>1, <1>2 DEF Insert, ParamTypeOK

LEMMA ParamTypeStep ==
  ASSUME ParamConstantsOK, ParamTypeOK, [ParamNext]_paramVars
  PROVE  ParamTypeOK'
<1>1. CASE UNCHANGED paramVars
  BY <1>1 DEF paramVars, ParamTypeOK
<1>2. ASSUME NEW c \in Caller, NEW k \in Key, NEW v \in Value,
             WriteLayout(c, k, v) \/ SetParam(c, k, v)
      PROVE  ParamTypeOK'
  BY <1>2 DEF WriteLayout, SetParam, Enter, ParamTypeOK
<1>3. ASSUME NEW c \in Caller, NEW k \in Key, NEW v \in Value, AddParam(c, k, v)
      PROVE  ParamTypeOK'
  <2>1. blind' \in [Key -> Nat]
    <3>1. blind[k] + 1 \in Nat
      BY KeyTypes
    <3> QED
      BY <1>3, <3>1 DEF AddParam, ParamTypeOK
  <2> QED
    BY <1>3, <2>1 DEF AddParam, Enter, ParamTypeOK
<1>4. ASSUME NEW c \in Caller, CheckFinds(c) \/ CheckMisses(c) PROVE ParamTypeOK'
  BY <1>4 DEF CheckFinds, CheckMisses, ParamTypeOK
<1>5. ASSUME NEW c \in Caller, CheckFails(c) PROVE ParamTypeOK'
  <2>1. blind' \in [Key -> Nat]
    <3>1. key[c] \in Key
      BY DEF ParamTypeOK
    <3>2. blind[key[c]] + 1 \in Nat
      BY <3>1, KeyTypes
    <3> QED
      BY <1>5, <3>1, <3>2 DEF CheckFails, ParamTypeOK
  <2> QED
    BY <1>5, <2>1 DEF CheckFails, ParamTypeOK
<1>6. ASSUME NEW c \in Caller, Add(c) PROVE ParamTypeOK'
  <2>1. rows' \in [Key -> Seq(Value)]
    BY <1>6, InsertType DEF Add, ParamConstantsOK
  <2> QED
    BY <1>6, <2>1 DEF Add, ParamTypeOK
<1>7. ASSUME NEW c \in Caller, AddOnly(c) PROVE ParamTypeOK'
  <2>1. value[c] \in Value
    BY DEF ParamTypeOK
  <2>2. rows' \in [Key -> Seq(Value)]
    BY <1>7, <2>1, InsertType DEF AddOnly
  <2> QED
    BY <1>7, <2>2 DEF AddOnly, ParamTypeOK
<1>8. ASSUME NEW c \in Caller, AddFails(c) \/ AddOnlyFails(c) \/ SetFails(c)
      PROVE  ParamTypeOK'
  BY <1>8 DEF AddFails, AddOnlyFails, SetFails, ParamTypeOK
<1>9. ASSUME NEW c \in Caller, Set(c) PROVE ParamTypeOK'
  <2>1. key[c] \in Key /\ value[c] \in Value /\ rows[key[c]] \in Seq(Value)
    BY DEF ParamTypeOK
  <2>2. Overwritten(rows[key[c]], value[c]) \in Seq(Value)
    BY <2>1, OverwriteRows
  <2>3. rows' = [rows EXCEPT ![key[c]] = Overwritten(rows[key[c]], value[c])]
    BY <1>9 DEF Set, Overwritten
  <2>4. rows' \in [Key -> Seq(Value)]
    BY <2>1, <2>2, <2>3 DEF ParamTypeOK
  <2> QED
    BY <1>9, <2>4 DEF Set, ParamTypeOK
<1>10. ASSUME NEW c \in Caller, Return(c) \/ ParamCrash(c) PROVE ParamTypeOK'
  BY <1>10 DEF Return, ParamCrash, ParamTypeOK
<1>11. ASSUME NEW c \in Caller, NEW k \in Key, Get(c, k) PROVE ParamTypeOK'
  <2>1. rows[k] \in Seq(Value)
    BY DEF ParamTypeOK
  <2>2. rows[k] # <<>> => Head(rows[k]) \in Value
    BY <2>1
  <2> QED
    BY <1>11, <2>2 DEF Get, ParamTypeOK, ParamConstantsOK
<1>12. ASSUME NEW c \in Caller, GetFails(c) PROVE ParamTypeOK'
  BY <1>12 DEF GetFails, ParamTypeOK, ParamConstantsOK
<1> QED
  BY <1>1, <1>2, <1>3, <1>4, <1>5, <1>6, <1>7, <1>8, <1>9, <1>10, <1>11, <1>12
     DEF ParamNext, CallerStep

\* The variables of ParamStore stay in their sets (msdb.c:3778-3955).
THEOREM ParamTypeCorrect == ParamSpec => []ParamTypeOK
<1>1. ParamInit => ParamTypeOK
  BY ParamConstantsOK, ParamTypeInit
<1>2. ParamTypeOK /\ [ParamNext]_paramVars => ParamTypeOK'
  BY ParamConstantsOK, ParamTypeStep
<1> QED
  BY <1>1, <1>2, PTL DEF ParamSpec

-----------------------------------------------------------------------------
(* The bound on the rows *)

\* Who is about to add a row to a key.
Adding(k) == {c \in Caller : step[c] \in {"add", "add only"} /\ key[c] = k}

\* What is there and what is under way stays within the bound.
KeyBound(k) == Len(rows[k]) + Cardinality(Adding(k)) <= blind[k] + Cardinality(Caller)
RowsInv == \A k \in Key : KeyBound(k)

LEMMA AddingFinite ==
  ASSUME ParamConstantsOK, NEW k \in Key
  PROVE  /\ IsFiniteSet(Adding(k)) /\ Cardinality(Adding(k)) \in Nat
         /\ Cardinality(Caller) \in Nat
         /\ Cardinality(Adding(k)) <= Cardinality(Caller)
<1>1. IsFiniteSet(Caller) /\ Adding(k) \subseteq Caller
  BY DEF ParamConstantsOK, Adding
<1> QED
  BY <1>1, FS_Subset, FS_CardinalityType

LEMMA AddingFiniteNext ==
  ASSUME ParamConstantsOK, NEW k \in Key
  PROVE  /\ IsFiniteSet(Adding(k)') /\ Cardinality(Adding(k)') \in Nat
         /\ Cardinality(Adding(k)') <= Cardinality(Caller)
<1>1. IsFiniteSet(Caller) /\ Adding(k)' \subseteq Caller
  BY DEF ParamConstantsOK, Adding
<1> QED
  BY <1>1, FS_Subset, FS_CardinalityType

\* A caller that was not about to add.
LEMMA Joins ==
  ASSUME ParamConstantsOK, NEW k \in Key, NEW c \in Caller, c \notin Adding(k),
         Adding(k)' \subseteq Adding(k) \cup {c}
  PROVE  Cardinality(Adding(k)') <= Cardinality(Adding(k)) + 1
<1>1. IsFiniteSet(Adding(k)) /\ Cardinality(Adding(k)) \in Nat
  BY AddingFinite
<1>2. /\ IsFiniteSet(Adding(k) \cup {c})
      /\ Cardinality(Adding(k) \cup {c}) = Cardinality(Adding(k)) + 1
  BY <1>1, FS_AddElement
<1>3. Cardinality(Adding(k)') <= Cardinality(Adding(k) \cup {c})
  BY <1>2, FS_Subset
<1> QED
  BY <1>2, <1>3

\* A caller that was.
LEMMA Leaves ==
  ASSUME ParamConstantsOK, NEW k \in Key, NEW c \in Caller, c \in Adding(k),
         Adding(k)' \subseteq Adding(k) \ {c}
  PROVE  Cardinality(Adding(k)') <= Cardinality(Adding(k)) - 1
<1>1. IsFiniteSet(Adding(k)) /\ Cardinality(Adding(k)) \in Nat
  BY AddingFinite
<1>2. /\ IsFiniteSet(Adding(k) \ {c})
      /\ Cardinality(Adding(k) \ {c}) = Cardinality(Adding(k)) - 1
  BY <1>1, FS_RemoveElement
<1>3. Cardinality(Adding(k)') <= Cardinality(Adding(k) \ {c})
  BY <1>2, FS_Subset
<1> QED
  BY <1>2, <1>3

LEMMA Stays ==
  ASSUME ParamConstantsOK, NEW k \in Key, Adding(k)' \subseteq Adding(k)
  PROVE  Cardinality(Adding(k)') <= Cardinality(Adding(k))
<1>1. IsFiniteSet(Adding(k))
  BY AddingFinite
<1> QED
  BY <1>1, FS_Subset

\* Steps that add no row and bring nobody closer to adding one.
LEMMA QuietStep ==
  ASSUME ParamConstantsOK, ParamTypeOK, ParamTypeOK', NEW k \in Key, KeyBound(k),
         Len(rows[k])' = Len(rows[k]), blind[k]' = blind[k],
         Adding(k)' \subseteq Adding(k)
  PROVE  KeyBound(k)'
<1>1. Len(rows[k]) \in Nat /\ blind[k] \in Nat /\ blind[k]' \in Nat
  BY KeyTypes, KeyTypesNext
<1>2. /\ Cardinality(Adding(k)') \in Nat /\ Cardinality(Adding(k)) \in Nat
      /\ Cardinality(Caller) \in Nat
  BY AddingFinite, AddingFiniteNext
<1>3. Cardinality(Adding(k)') <= Cardinality(Adding(k))
  BY Stays
<1> QED
  BY <1>1, <1>2, <1>3 DEF KeyBound

\* A caller sets out to add where no row is, or with the bound raised.
LEMMA JoinStep ==
  ASSUME ParamConstantsOK, ParamTypeOK, ParamTypeOK', NEW k \in Key, KeyBound(k),
         NEW c \in Caller, c \notin Adding(k), Adding(k)' \subseteq Adding(k) \cup {c},
         Len(rows[k])' = Len(rows[k]),
         \/ rows[k] = <<>> /\ blind[k]' = blind[k]
         \/ blind[k]' = blind[k] + 1
  PROVE  KeyBound(k)'
<1>1. Len(rows[k]) \in Nat /\ blind[k] \in Nat /\ (rows[k] = <<>> => Len(rows[k]) = 0)
  BY KeyTypes
<1>2. /\ Cardinality(Adding(k)') \in Nat /\ Cardinality(Adding(k)) \in Nat
      /\ Cardinality(Caller) \in Nat /\ Cardinality(Adding(k)') <= Cardinality(Caller)
  BY AddingFinite, AddingFiniteNext
<1>3. Cardinality(Adding(k)') <= Cardinality(Adding(k)) + 1
  BY Joins
<1> QED
  BY <1>1, <1>2, <1>3 DEF KeyBound

\* A caller has added its row.
LEMMA LeaveStep ==
  ASSUME ParamConstantsOK, ParamTypeOK, ParamTypeOK', NEW k \in Key, KeyBound(k),
         NEW c \in Caller, c \in Adding(k), Adding(k)' \subseteq Adding(k) \ {c},
         Len(rows[k])' = Len(rows[k]) + 1, blind[k]' = blind[k]
  PROVE  KeyBound(k)'
<1>1. Len(rows[k]) \in Nat /\ blind[k] \in Nat
  BY KeyTypes
<1>2. /\ Cardinality(Adding(k)') \in Nat /\ Cardinality(Adding(k)) \in Nat
      /\ Cardinality(Caller) \in Nat
  BY AddingFinite, AddingFiniteNext
<1>3. Cardinality(Adding(k)') <= Cardinality(Adding(k)) - 1
  BY Leaves
<1> QED
  BY <1>1, <1>2, <1>3 DEF KeyBound

LEMMA RowsInvStep ==
  ASSUME ParamConstantsOK, ParamTypeOK, RowsInv, [ParamNext]_paramVars
  PROVE  RowsInv'
<1>0. ParamTypeOK'
  BY ParamTypeStep
<1> SUFFICES ASSUME NEW q \in Key PROVE KeyBound(q)'
  BY DEF RowsInv
<1>b. KeyBound(q) /\ rows[q] \in Seq(Value) /\ blind[q] \in Nat
  BY KeyTypes DEF RowsInv
<1>1. CASE UNCHANGED paramVars
  <2>1. Len(rows[q])' = Len(rows[q]) /\ blind[q]' = blind[q]
    BY <1>1, <1>b DEF paramVars
  <2>2. Adding(q)' \subseteq Adding(q)
    BY <1>1 DEF paramVars, Adding
  <2> QED
    BY <1>0, <1>b, <2>1, <2>2, QuietStep
<1>2. ASSUME NEW c \in Caller, NEW k \in Key, NEW v \in Value,
             WriteLayout(c, k, v) \/ SetParam(c, k, v)
      PROVE  KeyBound(q)'
  <2>1. Len(rows[q])' = Len(rows[q]) /\ blind[q]' = blind[q]
    BY <1>2, <1>b DEF WriteLayout, SetParam, Enter
  <2>2. Adding(q)' \subseteq Adding(q)
    BY <1>2 DEF WriteLayout, SetParam, Enter, Adding, ParamTypeOK
  <2> QED
    BY <1>0, <1>b, <2>1, <2>2, QuietStep
<1>3. ASSUME NEW c \in Caller, NEW k \in Key, NEW v \in Value, AddParam(c, k, v)
      PROVE  KeyBound(q)'
  <2>1. Len(rows[q])' = Len(rows[q]) /\ rows[q]' = rows[q]
    BY <1>3 DEF AddParam, Enter
  <2>2. c \notin Adding(q)
    BY <1>3 DEF AddParam, Enter, Adding
  <2>3. CASE k = q
    <3>1. Adding(q)' \subseteq Adding(q) \cup {c}
      BY <1>3 DEF AddParam, Enter, Adding, ParamTypeOK
    <3>2. blind[q]' = blind[q] + 1
      BY <1>3, <2>3 DEF AddParam, ParamTypeOK
    <3> QED
      BY <1>0, <1>b, <2>1, <2>2, <3>1, <3>2, JoinStep
  <2>4. CASE k # q
    <3>1. Adding(q)' \subseteq Adding(q)
      BY <1>3, <2>4 DEF AddParam, Enter, Adding, ParamTypeOK
    <3>2. blind[q]' = blind[q]
      BY <1>3, <2>4, <1>b DEF AddParam, ParamTypeOK
    <3> QED
      BY <1>0, <1>b, <2>1, <3>1, <3>2, QuietStep
  <2> QED
    BY <2>3, <2>4
<1>4. ASSUME NEW c \in Caller,
             CheckFinds(c) \/ AddFails(c) \/ AddOnlyFails(c) \/ SetFails(c)
               \/ Return(c) \/ ParamCrash(c)
      PROVE  KeyBound(q)'
  <2>1. Len(rows[q])' = Len(rows[q]) /\ blind[q]' = blind[q]
    BY <1>4, <1>b DEF CheckFinds, AddFails, AddOnlyFails, SetFails, Return, ParamCrash
  <2>2. Adding(q)' \subseteq Adding(q)
    BY <1>4 DEF CheckFinds, AddFails, AddOnlyFails, SetFails, Return, ParamCrash,
                Adding, ParamTypeOK
  <2> QED
    BY <1>0, <1>b, <2>1, <2>2, QuietStep
<1>5. ASSUME NEW c \in Caller, CheckMisses(c) \/ CheckFails(c)
      PROVE  KeyBound(q)'
  <2>1. Len(rows[q])' = Len(rows[q]) /\ rows[q]' = rows[q]
    BY <1>5 DEF CheckMisses, CheckFails
  <2>2. c \notin Adding(q)
    BY <1>5 DEF CheckMisses, CheckFails, Adding
  <2>3. CASE key[c] = q
    <3>1. Adding(q)' \subseteq Adding(q) \cup {c}
      BY <1>5 DEF CheckMisses, CheckFails, Adding, ParamTypeOK
    <3>2. \/ rows[q] = <<>> /\ blind[q]' = blind[q]
          \/ blind[q]' = blind[q] + 1
      BY <1>5, <2>3 DEF CheckMisses, CheckFails, ParamTypeOK
    <3> QED
      BY <1>0, <1>b, <2>1, <2>2, <3>1, <3>2, JoinStep
  <2>4. CASE key[c] # q
    <3>1. Adding(q)' \subseteq Adding(q)
      BY <1>5, <2>4 DEF CheckMisses, CheckFails, Adding, ParamTypeOK
    <3>2. blind[q]' = blind[q]
      BY <1>5, <2>4, <1>b DEF CheckMisses, CheckFails, ParamTypeOK
    <3> QED
      BY <1>0, <1>b, <2>1, <3>1, <3>2, QuietStep
  <2> QED
    BY <2>3, <2>4
<1>6. ASSUME NEW c \in Caller, Add(c) \/ AddOnly(c)
      PROVE  KeyBound(q)'
  <2> PICK v \in Value : rows' = [rows EXCEPT ![key[c]] = Append(@, v)]
    BY <1>6 DEF Add, AddOnly, Insert, ParamConstantsOK, ParamTypeOK
  <2>1. blind[q]' = blind[q]
    BY <1>6 DEF Add, AddOnly
  <2>2. CASE key[c] = q
    <3>1. c \in Adding(q) /\ Adding(q)' \subseteq Adding(q) \ {c}
      BY <1>6, <2>2 DEF Add, AddOnly, Adding, ParamTypeOK
    <3>2. Len(rows[q])' = Len(rows[q]) + 1
      BY <1>b, <2>2, AppendRow DEF ParamTypeOK
    <3> QED
      BY <1>0, <1>b, <2>1, <3>1, <3>2, LeaveStep
  <2>3. CASE key[c] # q
    <3>1. Adding(q)' \subseteq Adding(q)
      BY <1>6, <2>3 DEF Add, AddOnly, Adding, ParamTypeOK
    <3>2. Len(rows[q])' = Len(rows[q])
      BY <2>3 DEF ParamTypeOK
    <3> QED
      BY <1>0, <1>b, <2>1, <3>1, <3>2, QuietStep
  <2> QED
    BY <2>2, <2>3
<1>7. ASSUME NEW c \in Caller, Set(c) PROVE KeyBound(q)'
  <2>1. rows' = [rows EXCEPT ![key[c]] = Overwritten(rows[key[c]], value[c])]
    BY <1>7 DEF Set, Overwritten
  <2>2. Len(Overwritten(rows[q], value[c])) = Len(rows[q])
    BY <1>b, OverwriteRows DEF ParamTypeOK
  <2>3. Len(rows[q])' = Len(rows[q]) /\ blind[q]' = blind[q]
    BY <1>7, <1>b, <2>1, <2>2 DEF Set, ParamTypeOK
  <2>4. Adding(q)' \subseteq Adding(q)
    BY <1>7 DEF Set, Adding, ParamTypeOK
  <2> QED
    BY <1>0, <1>b, <2>3, <2>4, QuietStep
<1>8. ASSUME NEW c \in Caller, (\E k \in Key : Get(c, k)) \/ GetFails(c)
      PROVE  KeyBound(q)'
  <2>1. Len(rows[q])' = Len(rows[q]) /\ blind[q]' = blind[q]
    BY <1>8, <1>b DEF Get, GetFails
  <2>2. Adding(q)' \subseteq Adding(q)
    BY <1>8 DEF Get, GetFails, Adding
  <2> QED
    BY <1>0, <1>b, <2>1, <2>2, QuietStep
<1> QED
  BY <1>1, <1>2, <1>3, <1>4, <1>5, <1>6, <1>7, <1>8 DEF ParamNext, CallerStep

LEMMA RowsInvInit == ParamConstantsOK /\ ParamInit => RowsInv
<1> SUFFICES ASSUME ParamConstantsOK, ParamInit, NEW k \in Key PROVE KeyBound(k)
  BY DEF RowsInv
<1>1. Adding(k) = {} /\ rows[k] = <<>> /\ blind[k] = 0
  BY DEF ParamInit, Adding
<1>2. Cardinality(Adding(k)) = 0 /\ Len(rows[k]) = 0
  BY <1>1, FS_EmptySet
<1> QED
  BY <1>1, <1>2, AddingFinite DEF KeyBound

\* A key has one row for each caller at most, besides those added blindly
\* (msdb.c:3945, 5744).
THEOREM RowsAreBounded == ParamSpec => []RowsBounded
<1>1. ParamInit => ParamTypeOK /\ RowsInv
  BY ParamConstantsOK, ParamTypeInit, RowsInvInit
<1>2. (ParamTypeOK /\ RowsInv) /\ [ParamNext]_paramVars => (ParamTypeOK /\ RowsInv)'
  BY ParamConstantsOK, ParamTypeStep, RowsInvStep
<1>3. ParamTypeOK /\ RowsInv => RowsBounded
  <2> SUFFICES ASSUME ParamTypeOK, RowsInv, NEW k \in Key
               PROVE  Len(rows[k]) <= blind[k] + Cardinality(Caller)
    BY DEF RowsBounded
  <2>1. Len(rows[k]) \in Nat /\ blind[k] \in Nat /\ KeyBound(k)
    BY KeyTypes DEF RowsInv
  <2>2. Cardinality(Adding(k)) \in Nat /\ Cardinality(Caller) \in Nat
    BY ParamConstantsOK, AddingFinite
  <2> QED
    BY <2>1, <2>2 DEF KeyBound
<1> QED
  BY <1>1, <1>2, <1>3, PTL DEF ParamSpec

-----------------------------------------------------------------------------
(* The register *)

\* A write that is still sure finds a row, and a bare addition never is sure.
SureInv ==
  \A c \in Caller :
    /\ step[c] = "set" /\ sure[c] => rows[key[c]] # <<>>
    /\ step[c] = "add only" => ~sure[c]

PhaseOf(w) == CASE w = "idle"   -> "idle"
                [] w = "return" -> "over"
                [] OTHER        -> "open"

LEMMA PhaseChanges ==
  ASSUME ParamTypeOK, NEW c \in Caller, NEW w, step' = [step EXCEPT ![c] = w]
  PROVE  Phase' = [Phase EXCEPT ![c] = PhaseOf(w)]
<1>1. \A d \in Caller : Phase[d]' = [Phase EXCEPT ![c] = PhaseOf(w)][d]
  BY DEF ParamTypeOK, Phase, PhaseOf
<1>2. Phase' = [d \in Caller |-> Phase[d]']
  BY DEF Phase
<1>3. [Phase EXCEPT ![c] = PhaseOf(w)] = [d \in Caller |-> [Phase EXCEPT ![c] = PhaseOf(w)][d]]
  BY DEF Phase
<1> QED
  BY <1>1, <1>2, <1>3

LEMMA PhaseKept ==
  ASSUME ParamTypeOK, NEW c \in Caller, NEW w, step' = [step EXCEPT ![c] = w],
         PhaseOf(w) = Phase[c]
  PROVE  Phase' = Phase
<1>1. Phase' = [Phase EXCEPT ![c] = Phase[c]]
  BY PhaseChanges
<1>2. [Phase EXCEPT ![c] = Phase[c]] = Phase
  BY DEF Phase
<1> QED
  BY <1>1, <1>2

\* What readers see after the rows of a key have become s.
LEMMA ShownChanges ==
  ASSUME ParamTypeOK, NEW k \in Key, NEW s, rows' = [rows EXCEPT ![k] = s]
  PROVE  /\ s # <<>> => Shown' = [Shown EXCEPT ![k] = Head(s)]
         /\ s # <<>> /\ Head(s) = Shown[k] => Shown' = Shown
         /\ s = <<>> /\ rows[k] = <<>> => Shown' = Shown
<1>1. Shown' = [q \in Key |-> Shown[q]'] /\ Shown = [q \in Key |-> Shown[q]]
  BY DEF Shown
<1>2. \A q \in Key : rows[q]' = IF q = k THEN s ELSE rows[q]
  BY DEF ParamTypeOK
<1>3. \A q \in Key : q # k => Shown[q]' = Shown[q]
  BY <1>2 DEF Shown
<1>4. s # <<>> => Shown[k]' = Head(s)
  BY <1>2 DEF Shown
<1>5. s = <<>> /\ rows[k] = <<>> => Shown[k]' = Shown[k]
  BY <1>2 DEF Shown
<1>6. [Shown EXCEPT ![k] = Head(s)] = [q \in Key |-> IF q = k THEN Head(s) ELSE Shown[q]]
  BY DEF Shown
<1> QED
  BY <1>1, <1>3, <1>4, <1>5, <1>6

\* A row added behind others is not seen; one added to an empty key is.
LEMMA ShownInsert ==
  ASSUME ParamTypeOK, NEW k \in Key, NEW v \in Value,
         rows' = [rows EXCEPT ![k] = Append(rows[k], v)]
  PROVE  /\ rows[k] # <<>> => Shown' = Shown
         /\ rows[k] = <<>> => Shown' = [Shown EXCEPT ![k] = v]
         /\ rows[k] = <<>> /\ v = Default => Shown' = Shown
<1>1. rows[k] \in Seq(Value)
  BY KeyTypes
<1>2. /\ Append(rows[k], v) # <<>>
      /\ rows[k] # <<>> => Head(Append(rows[k], v)) = Head(rows[k])
      /\ rows[k] = <<>> => Head(Append(rows[k], v)) = v
  BY <1>1, AppendRow
<1>3. Shown[k] = IF rows[k] = <<>> THEN Default ELSE Head(rows[k])
  BY DEF Shown
<1>4. CASE rows[k] # <<>>
  BY <1>2, <1>3, <1>4, ShownChanges
<1>5. CASE rows[k] = <<>>
  <2>1. Head(Append(rows[k], v)) = v /\ Shown[k] = Default
    BY <1>2, <1>3, <1>5
  <2>2. Shown' = [Shown EXCEPT ![k] = v]
    <3>1. \A s : s # <<>> /\ rows' = [rows EXCEPT ![k] = s]
                 => Shown' = [Shown EXCEPT ![k] = Head(s)]
      BY ShownChanges
    <3>2. Shown' = [Shown EXCEPT ![k] = Head(Append(rows[k], v))]
      BY <1>2, <3>1
    <3> QED
      BY <2>1, <3>2
  <2>3. ASSUME v = Default PROVE Shown' = Shown
    <3>1. Append(rows[k], v) # <<>> /\ Head(Append(rows[k], v)) = Shown[k]
      BY <1>2, <2>1, <2>3
    <3>2. \A s : s # <<>> /\ Head(s) = Shown[k] /\ rows' = [rows EXCEPT ![k] = s]
                 => Shown' = Shown
      BY ShownChanges
    <3> QED
      BY <3>1, <3>2
  <2> QED
    BY <1>5, <2>2, <2>3
<1> QED
  BY <1>4, <1>5

LEMMA ShownOverwrite ==
  ASSUME ParamTypeOK, NEW k \in Key, NEW v \in Value,
         rows' = [rows EXCEPT ![k] = Overwritten(rows[k], v)]
  PROVE  /\ rows[k] # <<>> => Shown' = [Shown EXCEPT ![k] = v]
         /\ rows[k] = <<>> => Shown' = Shown
<1>1. rows[k] \in Seq(Value)
  BY KeyTypes
<1>2. /\ rows[k] # <<>> => /\ Overwritten(rows[k], v) # <<>>
                           /\ Head(Overwritten(rows[k], v)) = v
      /\ rows[k] = <<>> => Overwritten(rows[k], v) = <<>>
  BY <1>1, OverwriteRows
<1>3. CASE rows[k] # <<>>
  BY <1>2, <1>3, ShownChanges
<1>4. CASE rows[k] = <<>>
  BY <1>2, <1>4, ShownChanges
<1> QED
  BY <1>3, <1>4

LEMMA ShownKept ==
  ASSUME rows' = rows
  PROVE  Shown' = Shown
  BY DEF Shown

\* The rows of a key never become none again.
LEMMA RowsStay ==
  ASSUME ParamConstantsOK, ParamTypeOK, [ParamNext]_paramVars, NEW k \in Key,
         rows[k] # <<>>
  PROVE  rows'[k] # <<>>
<1>0. rows[k] \in Seq(Value)
  BY KeyTypes
<1>1. CASE rows' = rows
  BY <1>1
<1>2. ASSUME NEW c \in Caller, NEW v \in Value,
             rows' = [rows EXCEPT ![key[c]] = Append(@, v)]
      PROVE  rows'[k] # <<>>
  <2>1. Append(rows[k], v) # <<>>
    BY <1>0, AppendRow
  <2> QED
    BY <1>2, <2>1 DEF ParamTypeOK
<1>3. ASSUME NEW c \in Caller, Set(c) PROVE rows'[k] # <<>>
  <2>1. value[c] \in Value /\ rows' = [rows EXCEPT ![key[c]] = Overwritten(@, value[c])]
    BY <1>3 DEF Set, Overwritten, ParamTypeOK
  <2>2. Overwritten(rows[k], value[c]) # <<>>
    BY <1>0, <2>1, OverwriteRows
  <2> QED
    BY <2>1, <2>2 DEF ParamTypeOK
<1>4. CASE UNCHANGED paramVars
  BY <1>4, <1>1 DEF paramVars
<1>5. ASSUME NEW c \in Caller, CallerStep(c) PROVE rows'[k] # <<>>
  <2>1. CASE rows' = rows
    BY <1>1, <2>1
  <2>2. CASE Add(c)
    BY <2>2, <1>2 DEF Add, Insert, ParamConstantsOK
  <2>3. CASE AddOnly(c)
    <3>1. value[c] \in Value
      BY DEF ParamTypeOK
    <3> QED
      BY <2>3, <3>1, <1>2 DEF AddOnly, Insert
  <2>4. CASE Set(c)
    BY <2>4, <1>3
  <2> QED
    BY <1>5, <2>1, <2>2, <2>3, <2>4
       DEF CallerStep, WriteLayout, SetParam, AddParam, Enter, CheckFinds, CheckMisses,
           CheckFails, AddFails, AddOnlyFails, SetFails, Return, Get, GetFails, ParamCrash
<1> QED
  BY <1>4, <1>5 DEF ParamNext

\* What a step does to the place, key and sureness of a caller.
LEMMA SureInvStep ==
  ASSUME ParamConstantsOK, ParamTypeOK, SureInv, [ParamNext]_paramVars
  PROVE  SureInv'
<1> SUFFICES ASSUME NEW d \in Caller
             PROVE  /\ step'[d] = "set" /\ sure'[d] => rows'[key'[d]] # <<>>
                    /\ step'[d] = "add only" => ~sure'[d]
  BY DEF SureInv
<1>0. /\ step[d] = "set" /\ sure[d] => rows[key[d]] # <<>>
      /\ step[d] = "add only" => ~sure[d]
      /\ key[d] \in Key
  BY DEF SureInv, ParamTypeOK
<1>1. rows[key[d]] # <<>> => rows'[key[d]] # <<>>
  BY <1>0, RowsStay
<1>2. CASE step'[d] = step[d] /\ sure'[d] = sure[d] /\ key'[d] = key[d]
  BY <1>0, <1>1, <1>2
<1>3. CASE UNCHANGED paramVars
  BY <1>2, <1>3 DEF paramVars
<1>4. ASSUME NEW c \in Caller, CallerStep(c)
      PROVE  /\ step'[d] = "set" /\ sure'[d] => rows'[key'[d]] # <<>>
             /\ step'[d] = "add only" => ~sure'[d]
  <2>1. CASE c # d
    <3>1. step'[d] = step[d] /\ sure'[d] = sure[d] /\ key'[d] = key[d]
      BY <1>4, <2>1
         DEF CallerStep, WriteLayout, SetParam, AddParam, Enter, CheckFinds, CheckMisses,
             CheckFails, Add, AddFails, AddOnly, AddOnlyFails, Set, SetFails, Return,
             Get, GetFails, ParamCrash, ParamTypeOK
    <3> QED
      BY <1>2, <3>1
  <2>2. CASE c = d /\ Add(c)
    <3>1. rows'[key[d]] = Append(rows[key[d]], Default) /\ key' = key
      BY <2>2, <1>0 DEF Add, Insert, ParamTypeOK
    <3>2. rows[key[d]] \in Seq(Value)
      BY <1>0, KeyTypes
    <3>3. rows'[key'[d]] # <<>>
      BY <3>1, <3>2, AppendRow DEF ParamConstantsOK
    <3>4. step'[d] = "set"
      BY <2>2 DEF Add, ParamTypeOK
    <3> QED
      BY <3>3, <3>4
  <2>3. CASE c = d /\ CheckFinds(c)
    BY <2>3, <1>0, <1>1 DEF CheckFinds, ParamTypeOK
  <2>4. CASE c = d /\ (AddFails(c) \/ SetFails(c) \/ AddOnlyFails(c) \/ AddOnly(c) \/ Set(c)
                        \/ Return(c) \/ ParamCrash(c) \/ CheckMisses(c) \/ CheckFails(c))
    BY <2>4 DEF AddFails, SetFails, AddOnlyFails, AddOnly, Set, Return, ParamCrash,
                CheckMisses, CheckFails, ParamTypeOK
  <2>5. CASE c = d /\ \E k \in Key, v \in Value :
                        WriteLayout(c, k, v) \/ SetParam(c, k, v) \/ AddParam(c, k, v)
    BY <2>5 DEF WriteLayout, SetParam, AddParam, Enter, ParamTypeOK
  <2>6. CASE c = d /\ ((\E k \in Key : Get(c, k)) \/ GetFails(c))
    BY <2>6, <1>2 DEF Get, GetFails
  <2> QED
    BY <1>4, <2>1, <2>2, <2>3, <2>4, <2>5, <2>6 DEF CallerStep
<1> QED
  BY <1>3, <1>4 DEF ParamNext

LEMMA RegisterInit == ParamConstantsOK /\ ParamInit => Register!Init
<1> SUFFICES ASSUME ParamConstantsOK, ParamInit PROVE Register!Init
  OBVIOUS
<1>1. Shown = [k \in Key |-> Default]
  BY DEF ParamInit, Shown
<1>2. Phase = [c \in Caller |-> "idle"]
  BY DEF ParamInit, Phase
<1>3. key \in [Caller -> Key] /\ value \in [Caller -> Value]
  BY DEF ParamInit, ParamConstantsOK
<1> QED
  BY <1>1, <1>2, <1>3 DEF ParamInit, Register!Init

LEMMA RegisterStep ==
  ASSUME ParamConstantsOK, ParamTypeOK, SureInv, [ParamNext]_paramVars
  PROVE  [Register!Next]_Register!vars
<1>1. CASE UNCHANGED paramVars
  <2>1. Shown' = Shown /\ Phase' = Phase
    BY <1>1 DEF paramVars, Shown, Phase
  <2> QED
    BY <1>1, <2>1 DEF paramVars, Register!vars
<1> SUFFICES ASSUME NEW c \in Caller, CallerStep(c)
             PROVE  Register!CallerStep(c) \/ UNCHANGED Register!vars
  BY <1>1 DEF ParamNext, Register!Next
<1>0. /\ key[c] \in Key /\ value[c] \in Value /\ Default \in Value
      /\ sure \in [Caller -> BOOLEAN]
  BY DEF ParamTypeOK, ParamConstantsOK
<1>2. ASSUME NEW k \in Key, NEW v \in Value, NEW s \in BOOLEAN, NEW w \in {"check", "set", "add only"},
             Enter(c, k, v, w, s)
      PROVE  Register!CallerStep(c)
  <2>1. Phase[c] = "idle" /\ Phase' = [Phase EXCEPT ![c] = "open"]
    <3>1. PhaseOf(w) = "open"
      BY <1>2 DEF PhaseOf
    <3>2. step[c] = "idle" /\ step' = [step EXCEPT ![c] = w]
      BY <1>2 DEF Enter
    <3>3. Phase' = [Phase EXCEPT ![c] = "open"]
      BY <3>1, <3>2, PhaseChanges
    <3> QED
      BY <3>2, <3>3 DEF Phase
  <2>2. Shown' = Shown
    BY <1>2, ShownKept DEF Enter
  <2>3. Register!Begin(c, k, v, s)
    BY <1>2, <2>1, <2>2 DEF Enter, Register!Begin
  <2> QED
    BY <2>3 DEF Register!CallerStep
<1>3. CASE CheckFinds(c) \/ CheckMisses(c) \/ CheckFails(c)
  <2>1. Phase' = Phase
    <3>1. Phase[c] = "open" /\ PhaseOf("set") = "open" /\ PhaseOf("add") = "open"
      BY <1>3 DEF CheckFinds, CheckMisses, CheckFails, Phase, PhaseOf
    <3> QED
      BY <1>3, <3>1, PhaseKept DEF CheckFinds, CheckMisses, CheckFails
  <2>2. Shown' = Shown
    BY <1>3, ShownKept DEF CheckFinds, CheckMisses, CheckFails
  <2> QED
    BY <1>3, <2>1, <2>2 DEF CheckFinds, CheckMisses, CheckFails, Register!vars
<1>4. CASE Add(c)
  <2>1. Phase' = Phase
    <3>1. Phase[c] = "open" /\ PhaseOf("set") = "open"
      BY <1>4 DEF Add, Phase, PhaseOf
    <3> QED
      BY <1>4, <3>1, PhaseKept DEF Add
  <2>2. Shown' = Shown
    BY <1>0, <1>4, ShownInsert DEF Add, Insert
  <2> QED
    BY <1>4, <2>1, <2>2 DEF Add, Register!vars
<1>5. CASE AddFails(c)
  <2>1. Phase' = Phase /\ Phase[c] = "open"
    <3>1. Phase[c] = "open" /\ PhaseOf("set") = "open"
      BY <1>5 DEF AddFails, Phase, PhaseOf
    <3> QED
      BY <1>5, <3>1, PhaseKept DEF AddFails
  <2>2. Shown' = Shown
    BY <1>5, ShownKept DEF AddFails
  <2>3. Register!Fault(c)
    BY <1>5, <2>1, <2>2 DEF AddFails, Register!Fault
  <2> QED
    BY <2>3 DEF Register!CallerStep
<1>6. ASSUME step[c] \in {"add only", "set"}, step' = [step EXCEPT ![c] = "return"]
      PROVE  Phase[c] = "open" /\ Phase' = [Phase EXCEPT ![c] = "over"]
  <2>1. Phase[c] = "open" /\ PhaseOf("return") = "over"
    BY <1>6 DEF Phase, PhaseOf
  <2> QED
    BY <1>6, <2>1, PhaseChanges
<1>7. ASSUME step[c] \in {"add only", "set"}, step' = [step EXCEPT ![c] = "return"],
             Shown' = Shown, sure' = [sure EXCEPT ![c] = FALSE],
             UNCHANGED <<key, value, got>>
      PROVE  Register!CallerStep(c)
  <2>1. Register!Miss(c)
    BY <1>6, <1>7 DEF Register!Miss
  <2> QED
    BY <2>1 DEF Register!CallerStep
<1>8. ASSUME step[c] \in {"add only", "set"}, step' = [step EXCEPT ![c] = "return"],
             Shown' = [Shown EXCEPT ![key[c]] = value[c]],
             UNCHANGED <<key, value, sure, got>>
      PROVE  Register!CallerStep(c)
  <2>1. Register!Take(c)
    BY <1>6, <1>8 DEF Register!Take
  <2> QED
    BY <2>1 DEF Register!CallerStep
<1>9. ~sure[c] => [sure EXCEPT ![c] = FALSE] = sure
  BY <1>0
<1>10. CASE AddOnly(c)
  <2>1. ~sure[c]
    BY <1>10 DEF AddOnly, SureInv
  <2>2. rows' = [rows EXCEPT ![key[c]] = Append(rows[key[c]], value[c])]
    BY <1>10 DEF AddOnly, Insert
  <2>3. CASE rows[key[c]] = <<>>
    <3>1. Shown' = [Shown EXCEPT ![key[c]] = value[c]]
      BY <1>0, <2>2, <2>3, ShownInsert
    <3> QED
      BY <1>10, <1>8, <3>1 DEF AddOnly
  <2>4. CASE rows[key[c]] # <<>>
    <3>1. Shown' = Shown
      BY <1>0, <2>2, <2>4, ShownInsert
    <3>2. sure' = [sure EXCEPT ![c] = FALSE]
      BY <1>10, <1>9, <2>1 DEF AddOnly
    <3>3. /\ step[c] = "add only" /\ step' = [step EXCEPT ![c] = "return"]
          /\ UNCHANGED <<key, value, got>>
      BY <1>10 DEF AddOnly
    <3> QED
      BY <1>7, <3>1, <3>2, <3>3
  <2> QED
    BY <2>3, <2>4
<1>11. CASE AddOnlyFails(c)
  <2>1. sure' = [sure EXCEPT ![c] = FALSE]
    BY <1>11, <1>9 DEF AddOnlyFails, SureInv
  <2>2. Shown' = Shown
    BY <1>11, ShownKept DEF AddOnlyFails
  <2> QED
    BY <1>11, <1>7, <2>1, <2>2 DEF AddOnlyFails
<1>12. CASE SetFails(c)
  <2>1. Shown' = Shown
    BY <1>12, ShownKept DEF SetFails
  <2> QED
    BY <1>12, <1>7, <2>1 DEF SetFails
<1>13. CASE Set(c)
  <2>1. rows' = [rows EXCEPT ![key[c]] = Overwritten(rows[key[c]], value[c])]
    BY <1>13 DEF Set, Overwritten
  <2>2. CASE rows[key[c]] # <<>>
    <3>1. Shown' = [Shown EXCEPT ![key[c]] = value[c]]
      BY <1>0, <2>1, <2>2, ShownOverwrite
    <3> QED
      BY <1>13, <1>8, <3>1 DEF Set
  <2>3. CASE rows[key[c]] = <<>>
    <3>1. Shown' = Shown
      BY <1>0, <2>1, <2>3, ShownOverwrite
    <3>2. ~sure[c]
      BY <1>13, <2>3 DEF Set, SureInv
    <3>3. sure' = [sure EXCEPT ![c] = FALSE]
      BY <1>13, <1>9, <3>2 DEF Set
    <3> QED
      BY <1>13, <1>7, <3>1, <3>3 DEF Set
  <2> QED
    BY <2>2, <2>3
<1>14. CASE Return(c) \/ ParamCrash(c)
  <2>1. Phase[c] # "idle" /\ Phase' = [Phase EXCEPT ![c] = "idle"]
    <3>1. PhaseOf("idle") = "idle" /\ Phase[c] # "idle"
      BY <1>14 DEF Return, ParamCrash, PhaseOf, Phase
    <3> QED
      BY <1>14, <3>1, PhaseChanges DEF Return, ParamCrash
  <2>2. Shown' = Shown
    BY <1>14, ShownKept DEF Return, ParamCrash
  <2>3. Register!End(c)
    BY <1>14, <2>1, <2>2 DEF Return, ParamCrash, Register!End
  <2> QED
    BY <2>3 DEF Register!CallerStep
<1>15. ASSUME NEW k \in Key, NEW v \in {Shown[k], Default}, step[c] = "idle",
              got' = [got EXCEPT ![c] = v],
              UNCHANGED <<rows, step, key, value, sure>>
       PROVE  Register!CallerStep(c)
  <2>1. Shown' = Shown /\ Phase' = Phase /\ Phase[c] = "idle"
    BY <1>15 DEF Shown, Phase
  <2>2. Register!Read(c, k)
    BY <1>15, <2>1 DEF Register!Read
  <2> QED
    BY <2>2 DEF Register!CallerStep
<1>16. ASSUME NEW k \in Key, Get(c, k) PROVE Register!CallerStep(c)
  <2>1. got' = [got EXCEPT ![c] = Shown[k]]
    BY <1>16 DEF Get, Shown
  <2> QED
    BY <1>16, <1>15, <2>1 DEF Get
<1>17. CASE GetFails(c)
  BY <1>0, <1>15, <1>17 DEF GetFails
<1>18. ASSUME NEW k \in Key, NEW v \in Value,
              WriteLayout(c, k, v) \/ SetParam(c, k, v) \/ AddParam(c, k, v)
       PROVE  Register!CallerStep(c)
  BY <1>2, <1>18 DEF WriteLayout, SetParam, AddParam
<1> QED
  BY <1>3, <1>4, <1>5, <1>10, <1>11, <1>12, <1>13, <1>14, <1>16, <1>17, <1>18 DEF CallerStep

\* Readers see one value per key that a write changes once, in spite of rows in
\* excess and of calls that are locked one by one (msdb.c:3801, 3852, 5741-5759).
THEOREM ParamImplements == ParamSpec => RegisterSpec
<1>1. ParamInit => ParamTypeOK /\ SureInv /\ Register!Init
  BY ParamConstantsOK, ParamTypeInit, RegisterInit DEF ParamInit, SureInv
<1>2. (ParamTypeOK /\ SureInv) /\ [ParamNext]_paramVars => (ParamTypeOK /\ SureInv)'
  BY ParamConstantsOK, ParamTypeStep, SureInvStep
<1>3. (ParamTypeOK /\ SureInv) /\ [ParamNext]_paramVars => [Register!Next]_Register!vars
  BY ParamConstantsOK, RegisterStep
<1> QED
  BY <1>1, <1>2, <1>3, PTL DEF ParamSpec, RegisterSpec, Register!Spec
=============================================================================
