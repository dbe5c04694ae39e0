------------------------ MODULE ScheduleStore_proofs ------------------------
(***************************************************************************)
(* The schedules of msdb.c for any number of writers, days, plans and      *)
(* windows: the rows that a call writes, what a reader makes of them, and  *)
(* what is in the table while calls overlap, fail and crash.               *)
(***************************************************************************)
EXTENDS ScheduleStore, FiniteSetTheorems, SequenceTheorems, WellFoundedInduction, TLAPS

-----------------------------------------------------------------------------
(* Induction over numbers, as the search for a least counterexample *)

\* A nonempty set of naturals has a least element.
LEMMA LeastElement ==
  ASSUME NEW S, S \subseteq Nat, S # {}
  PROVE  \E x \in S : \A y \in S : x <= y
<1> DEFINE R == {ss \in Nat \X Nat : ss[1] < ss[2]}
<1>1. IsWellFoundedOn(R, Nat)
  BY NatLessThanWellFounded DEF OpToRel
<1>2. \E x \in S : \A y \in S : <<y, x>> \notin R
  <2> HIDE DEF R
  <2> QED
    BY <1>1, WFMin
<1>3. PICK x \in S : \A y \in S : <<y, x>> \notin R
  BY <1>2
<1>4. \A y \in S : y \in Nat /\ x \in Nat /\ (y < x => <<y, x>> \in R)
  OBVIOUS
<1> HIDE DEF R
<1>5. ASSUME NEW y \in S PROVE x <= y
  <2>1. ~(y < x) /\ x \in Nat /\ y \in Nat
    BY <1>3, <1>4
  <2> QED
    BY <2>1
<1> QED
  BY <1>5

\* Induction over an interval, for the members of a set.
LEMMA IntervalInduction ==
  ASSUME NEW a \in Nat, NEW b \in Nat, NEW S,
         \A n \in a .. b : (n > a => n - 1 \in S) => n \in S
  PROVE  a .. b \subseteq S
<1>1. SUFFICES ASSUME (a .. b) \ S # {} PROVE FALSE
  OBVIOUS
<1>2. (a .. b) \ S \subseteq Nat
  OBVIOUS
<1>3. PICK m \in (a .. b) \ S : \A n \in (a .. b) \ S : m <= n
  BY <1>1, <1>2, LeastElement
<1>4. m > a => m - 1 \in a .. b /\ ~(m <= m - 1)
  OBVIOUS
<1>5. m > a => m - 1 \in S
  BY <1>3, <1>4
<1> QED
  BY <1>3, <1>5

-----------------------------------------------------------------------------
(* Ascending and FlattenSeq *)

IsAscending(s, S) ==
  /\ s \in [1 .. Cardinality(S) -> S]
  /\ \A i, j \in 1 .. Cardinality(S) : i < j => s[i] < s[j]

LEMMA AscendingExists ==
  ASSUME NEW K \in Nat, NEW S, S \subseteq 0 .. K - 1
  PROVE  \E s : IsAscending(s, S)
<1> DEFINE Good == {k \in 0 .. K : \A A \in SUBSET (0 .. k - 1) : \E s : IsAscending(s, A)}
<1>1. ASSUME NEW k \in 0 .. K, k > 0 => k - 1 \in Good
      PROVE  k \in Good
  <2>1. SUFFICES ASSUME NEW A \in SUBSET (0 .. k - 1) PROVE \E s : IsAscending(s, A)
    OBVIOUS
  <2>2. CASE k = 0 \/ (k > 0 /\ k - 1 \notin A)
    <3>1. CASE k = 0
      <4>1. A = {} /\ Cardinality(A) = 0
        <5>1. A = {}
          BY <3>1
        <5> QED
          BY <5>1, FS_EmptySet
      <4>2. IsAscending(<<>>, A)
        BY <4>1 DEF IsAscending
      <4> QED
        BY <4>2
    <3>2. CASE k > 0 /\ k - 1 \notin A
      <4>1. A \in SUBSET (0 .. (k - 1) - 1)
        BY <3>2
      <4> QED
        BY <1>1, <3>2, <4>1
    <3> QED
      BY <2>2, <3>1, <3>2
  <2>3. CASE k > 0 /\ k - 1 \in A
    <3> DEFINE B == A \ {k - 1}
               n == Cardinality(B)
    <3>1. B \in SUBSET (0 .. (k - 1) - 1)
      BY <2>3
    <3>2. PICK s : IsAscending(s, B)
      BY <1>1, <2>3, <3>1
    <3>3. IsFiniteSet(B) /\ n \in Nat /\ Cardinality(A) = n + 1
      <4>1. IsFiniteSet(0 .. k - 1)
        BY FS_Interval
      <4>2. IsFiniteSet(A) /\ IsFiniteSet(B)
        BY <4>1, FS_Subset
      <4>3. A = B \cup {k - 1} /\ k - 1 \notin B
        BY <2>3
      <4>4. Cardinality(B \cup {k - 1}) = Cardinality(B) + 1 /\ Cardinality(B) \in Nat
        BY <4>2, <4>3, FS_AddElement, FS_CardinalityType
      <4> QED
        BY <4>2, <4>3, <4>4
    <3> DEFINE t == [i \in 1 .. n + 1 |-> IF i = n + 1 THEN k - 1 ELSE s[i]]
    <3>4. s \in [1 .. n -> B] /\ \A i, j \in 1 .. n : i < j => s[i] < s[j]
      BY <3>2 DEF IsAscending
    <3>5. \A i \in 1 .. n : s[i] \in A /\ s[i] < k - 1 /\ s[i] \in Nat
      <4>1. \A x \in B : x \in A /\ x < k - 1 /\ x \in Nat
        BY <2>3, <3>1
      <4> HIDE DEF B
      <4> QED
        BY <3>4, <4>1
    <3> HIDE DEF n
    <3>6. t \in [1 .. n + 1 -> A]
      <4>1. \A i \in 1 .. n + 1 : i # n + 1 => i \in 1 .. n
        BY <3>3
      <4> QED
        BY <2>3, <3>5, <4>1
    <3>7. ASSUME NEW i \in 1 .. n + 1, NEW j \in 1 .. n + 1, i < j PROVE t[i] < t[j]
      <4>1. i \in 1 .. n /\ i # n + 1 /\ (j # n + 1 => j \in 1 .. n)
        BY <3>3, <3>7
      <4> QED
        BY <3>4, <3>5, <3>7, <4>1
    <3>8. IsAscending(t, A)
      BY <3>3, <3>6, <3>7 DEF IsAscending
    <3> QED
      BY <3>8
  <2> QED
    BY <2>2, <2>3
<1>2. 0 .. K \subseteq Good
  <2> HIDE DEF Good
  <2> QED
    BY <1>1, IntervalInduction
<1>3. K \in Good
  BY <1>2
<1> QED
  BY <1>3

LEMMA AscendingIs ==
  ASSUME NEW K \in Nat, NEW S, S \subseteq 0 .. K - 1
  PROVE  /\ IsFiniteSet(S) /\ Cardinality(S) \in Nat
         /\ Ascending(S) \in [1 .. Cardinality(S) -> S]
         /\ DOMAIN Ascending(S) = 1 .. Cardinality(S)
         /\ Ascending(S) \in Seq(S) /\ Len(Ascending(S)) = Cardinality(S)
         /\ \A i, j \in 1 .. Cardinality(S) : i < j => Ascending(S)[i] < Ascending(S)[j]
         /\ \A i, j \in 1 .. Cardinality(S) : Ascending(S)[i] = Ascending(S)[j] => i = j
         /\ \A x \in S : \E i \in 1 .. Cardinality(S) : Ascending(S)[i] = x
<1> DEFINE N == Cardinality(S)
           s == Ascending(S)
<1>1. IsFiniteSet(S) /\ N \in Nat
  <2>1. IsFiniteSet(0 .. K - 1)
    BY FS_Interval
  <2> QED
    BY <2>1, FS_Subset, FS_CardinalityType
<1>2. s \in [1 .. N -> S] /\ \A i, j \in 1 .. N : i < j => s[i] < s[j]
  <2>1. \E a \in [1 .. N -> S] : \A i, j \in DOMAIN a : i < j => a[i] < a[j]
    <3>1. PICK a : IsAscending(a, S)
      BY AscendingExists
    <3>2. a \in [1 .. N -> S] /\ DOMAIN a = 1 .. N
      BY <3>1 DEF IsAscending
    <3> QED
      BY <3>1, <3>2 DEF IsAscending
  <2>2. s \in [1 .. N -> S] /\ \A i, j \in DOMAIN s : i < j => s[i] < s[j]
    BY <2>1 DEF Ascending
  <2> QED
    BY <2>2
<1> HIDE DEF s
<1>3. ASSUME NEW i \in 1 .. N, NEW j \in 1 .. N, s[i] = s[j] PROVE i = j
  <2>1. s[i] \in S /\ s[j] \in S /\ S \subseteq Nat
    BY <1>2
  <2>2. ~(s[i] < s[j]) /\ ~(s[j] < s[i])
    <3>1. \A x \in Nat : ~(x < x)
      OBVIOUS
    <3> QED
      BY <1>3, <2>1, <3>1
  <2>3. ~(i < j) /\ ~(j < i)
    BY <1>2, <2>2
  <2> QED
    BY <1>1, <2>3
<1>4. s \in Injection(1 .. N, S)
  BY <1>2, <1>3 DEF Injection, IsInjective
<1>5. Cardinality(1 .. N) = N
  <2>1. \A m \in Nat : Cardinality(1 .. m) = IF 1 > m THEN 0 ELSE m - 1 + 1
    BY FS_Interval
  <2>2. \A m \in Nat : m = IF 1 > m THEN 0 ELSE m - 1 + 1
    OBVIOUS
  <2> HIDE DEF N
  <2> QED
    BY <1>1, <2>1, <2>2
<1>6. s \in Surjection(1 .. N, S)
  BY <1>1, <1>4, <1>5, FS_Injection
<1>7. \A x \in S : \E i \in 1 .. N : s[i] = x
  BY <1>6 DEF Surjection
<1>8. s \in Seq(S) /\ Len(s) = N /\ DOMAIN s = 1 .. N
  <2> HIDE DEF N
  <2> QED
    BY <1>1, <1>2
<1> QED
  BY <1>1, <1>2, <1>3, <1>7, <1>8 DEF s

\* The prefixes that FlattenSeq joins, as its recursive function.
IsFlatten(f, q, n) ==
  f = [i \in 1 .. n |-> IF i = 1 THEN q[i] ELSE f[i - 1] \o q[i]]

LEMMA FlattenExists ==
  ASSUME NEW n \in Nat, NEW q
  PROVE  \E f : IsFlatten(f, q, n)
<1> DEFINE Good == {m \in 0 .. n : \E f : IsFlatten(f, q, m)}
<1>1. ASSUME NEW m \in 0 .. n, m > 0 => m - 1 \in Good PROVE m \in Good
  <2>1. CASE m = 0
    <3>1. IsFlatten(<<>>, q, m)
      BY <2>1 DEF IsFlatten
    <3> QED
      BY <3>1
  <2>2. CASE m > 0
    <3>1. PICK f : IsFlatten(f, q, m - 1)
      BY <1>1, <2>2
    <3> DEFINE g == [i \in 1 .. m |-> IF i < m THEN f[i] ELSE IF i = 1 THEN q[i] ELSE f[i - 1] \o q[i]]
    <3>2. \A i \in 1 .. m - 1 : f[i] = IF i = 1 THEN q[i] ELSE f[i - 1] \o q[i]
      BY <3>1 DEF IsFlatten
    <3>3. ASSUME NEW i \in 1 .. m PROVE g[i] = IF i = 1 THEN q[i] ELSE g[i - 1] \o q[i]
      <4>1. i # 1 => i - 1 \in 1 .. m /\ i - 1 < m
        OBVIOUS
      <4>2. i # 1 => g[i - 1] = f[i - 1]
        BY <4>1
      <4>3. CASE i < m
        <5>1. i \in 1 .. m - 1
          BY <4>3
        <5> QED
          BY <3>2, <4>2, <4>3, <5>1
      <4>4. CASE ~(i < m)
        BY <4>2, <4>4
      <4> QED
        BY <4>3, <4>4
    <3>4. g = [i \in 1 .. m |-> g[i]]
      OBVIOUS
    <3> HIDE DEF g
    <3>5. IsFlatten(g, q, m)
      BY <3>3, <3>4 DEF IsFlatten
    <3> QED
      BY <3>5
  <2> QED
    BY <2>1, <2>2
<1>2. 0 .. n \subseteq Good
  <2> HIDE DEF Good
  <2> QED
    BY <1>1, IntervalInduction
<1>3. n \in Good
  BY <1>2
<1> QED
  BY <1>3

LEMMA FlattenIs ==
  ASSUME NEW n \in Nat, n > 0, NEW q, Len(q) = n
  PROVE  \E f : IsFlatten(f, q, n) /\ FlattenSeq(q) = f[n]
<1> DEFINE f == CHOOSE f : f = [i \in 1 .. Len(q) |-> IF i = 1 THEN q[i] ELSE f[i - 1] \o q[i]]
<1>1. \E g : g = [i \in 1 .. Len(q) |-> IF i = 1 THEN q[i] ELSE g[i - 1] \o q[i]]
  BY FlattenExists DEF IsFlatten
<1>2. f = [i \in 1 .. Len(q) |-> IF i = 1 THEN q[i] ELSE f[i - 1] \o q[i]]
  BY <1>1
<1>3. FlattenSeq(q) = f[n]
  BY DEF FlattenSeq
<1> HIDE DEF f
<1> QED
  BY <1>2, <1>3 DEF IsFlatten

\* R is the sequences q[1] to q[m] one after the other, where q[i] begins
\* behind off[i - 1].
IsJoined(R, q, m, off) ==
  /\ Len(R) = off[m]
  /\ \A i \in 1 .. m : \A j \in 1 .. Len(q[i]) : \A k \in Nat :
       k = off[i - 1] + j => k \in 1 .. off[m] /\ R[k] = q[i][j]
  /\ \A k \in 1 .. off[m] : \E i \in 1 .. m : \E j \in 1 .. Len(q[i]) : k = off[i - 1] + j

LEMMA JoinOneMore ==
  ASSUME NEW T, NEW R \in Seq(T), NEW n \in Nat, NEW q \in [1 .. n -> Seq(T)],
         NEW m \in 1 .. n, NEW off \in [0 .. n -> Nat],
         off[m] = off[m - 1] + Len(q[m]), IsJoined(R, q, m - 1, off)
  PROVE  R \o q[m] \in Seq(T) /\ IsJoined(R \o q[m], q, m, off)
<1> DEFINE r == q[m]
           U == R \o r
           a == off[m - 1]
           b == off[m]
<1>1. r \in Seq(T) /\ Len(r) \in Nat /\ Len(R) = a /\ a \in Nat /\ b = a + Len(r) /\ b \in Nat
  BY DEF IsJoined
<1>2. /\ U \in Seq(T) /\ Len(U) = b
      /\ \A i \in 1 .. b : U[i] = IF i <= a THEN R[i] ELSE r[i - a]
  <2> HIDE DEF r
  <2>1. /\ R \o r \in Seq(T) /\ Len(R \o r) = Len(R) + Len(r)
        /\ \A i \in 1 .. Len(R) + Len(r) : (R \o r)[i] = IF i <= Len(R) THEN R[i] ELSE r[i - Len(R)]
    BY <1>1, ConcatProperties
  <2>2. Len(R) = a /\ Len(R) + Len(r) = b
    BY <1>1
  <2> HIDE DEF U, a, b
  <2> QED
    BY <2>1, <2>2 DEF U
<1>3. ASSUME NEW i \in 1 .. m, NEW j \in 1 .. Len(q[i]), NEW k \in Nat, k = off[i - 1] + j
      PROVE  k \in 1 .. b /\ U[k] = q[i][j]
  <2> HIDE DEF U
  <2>1. CASE i = m
    <3>1. k = a + j /\ j \in 1 .. Len(r) /\ q[i] = r
      BY <1>3, <2>1
    <3> HIDE DEF a, b, r
    <3>2. k \in 1 .. b /\ ~(k <= a) /\ k - a = j
      BY <1>1, <3>1
    <3>3. U[k] = r[k - a]
      BY <1>2, <3>2
    <3> QED
      BY <3>1, <3>2, <3>3
  <2>2. CASE i # m
    <3>1. i \in 1 .. m - 1
      BY <2>2
    <3>2. k \in 1 .. a /\ R[k] = q[i][j]
      BY <1>3, <3>1 DEF IsJoined
    <3> HIDE DEF a, b
    <3>3. k \in 1 .. b /\ k <= a
      BY <1>1, <3>2
    <3>4. U[k] = R[k]
      BY <1>2, <3>3
    <3> QED
      BY <3>2, <3>3, <3>4
  <2> QED
    BY <2>1, <2>2
<1>4. ASSUME NEW k \in 1 .. b
      PROVE  \E i \in 1 .. m : \E j \in 1 .. Len(q[i]) : k = off[i - 1] + j
  <2>1. CASE k <= a
    <3>1. k \in 1 .. a
      BY <1>1, <2>1
    <3>2. PICK i \in 1 .. m - 1 : \E j \in 1 .. Len(q[i]) : k = off[i - 1] + j
      BY <3>1 DEF IsJoined
    <3>3. i \in 1 .. m
      OBVIOUS
    <3> QED
      BY <3>2, <3>3
  <2>2. CASE ~(k <= a)
    <3>1. m \in 1 .. m /\ k = off[m - 1] + (k - a)
      BY <1>1
    <3>2. k - a \in 1 .. Len(q[m])
      <4> HIDE DEF a, b
      <4>1. k - a \in 1 .. Len(r)
        BY <1>1, <2>2
      <4> QED
        BY <4>1
    <3> QED
      BY <3>1, <3>2
  <2> QED
    BY <2>1, <2>2
<1> QED
  BY <1>2, <1>3, <1>4 DEF IsJoined

LEMMA FlattenJoins ==
  ASSUME NEW T, NEW n \in Nat, n > 0, NEW q \in [1 .. n -> Seq(T)]
  PROVE  /\ FlattenSeq(q) \in Seq(T)
         /\ \E off \in [0 .. n -> Nat] :
              /\ off[0] = 0 /\ \A i \in 1 .. n : off[i] = off[i - 1] + Len(q[i])
              /\ IsJoined(FlattenSeq(q), q, n, off)
<1>1. Len(q) = n
  OBVIOUS
<1>2. PICK f : IsFlatten(f, q, n) /\ FlattenSeq(q) = f[n]
  BY <1>1, FlattenIs
<1>3. /\ f[1] = q[1]
      /\ \A i \in 1 .. n : i # 1 => f[i] = f[i - 1] \o q[i] /\ i - 1 \in 1 .. n /\ i > 1
  <2>1. \A i \in 1 .. n : f[i] = IF i = 1 THEN q[i] ELSE f[i - 1] \o q[i]
    BY <1>2 DEF IsFlatten
  <2>2. 1 \in 1 .. n
    OBVIOUS
  <2>3. f[1] = q[1]
    BY <2>1, <2>2
  <2>4. ASSUME NEW i \in 1 .. n, i # 1
        PROVE  f[i] = f[i - 1] \o q[i] /\ i - 1 \in 1 .. n /\ i > 1
    <3>1. i - 1 \in 1 .. n /\ i > 1
      BY <2>4
    <3>2. f[i] = f[i - 1] \o q[i]
      BY <2>1, <2>4
    <3> QED
      BY <3>1, <3>2
  <2> QED
    BY <2>3, <2>4
<1> DEFINE off == [i \in 0 .. n |-> IF i = 0 THEN 0 ELSE Len(f[i])]
           Typed == {m \in 1 .. n : f[m] \in Seq(T)}
           Good == {m \in 1 .. n : IsJoined(f[m], q, m, off)}
<1>4. 1 .. n \subseteq Typed
  <2>1. ASSUME NEW m \in 1 .. n, m > 1 => m - 1 \in Typed PROVE f[m] \in Seq(T)
    <3>1. CASE m = 1
      BY <1>3, <3>1
    <3>2. CASE m # 1
      <4>1. f[m] = f[m - 1] \o q[m]
        BY <1>3, <3>2
      <4>2. f[m - 1] \in Seq(T)
        BY <1>3, <2>1, <3>2
      <4>3. q[m] \in Seq(T)
        OBVIOUS
      <4> QED
        BY ONLY <4>1, <4>2, <4>3, ConcatProperties
    <3> QED
      BY <3>1, <3>2
  <2>2. \A m \in 1 .. n : (m > 1 => m - 1 \in Typed) => m \in Typed
    BY <2>1
  <2> HIDE DEF Typed
  <2> QED
    BY <2>2, IntervalInduction
<1>5. \A m \in 1 .. n : f[m] \in Seq(T) /\ Len(f[m]) \in Nat
  BY <1>4
<1>6. off \in [0 .. n -> Nat] /\ off[0] = 0 /\ \A m \in 1 .. n : off[m] = Len(f[m])
  BY <1>5
<1> HIDE DEF off
<1>7. ASSUME NEW i \in 1 .. n PROVE off[i] = off[i - 1] + Len(q[i])
  <2>1. CASE i = 1
    <3>1. off[0] = 0 /\ off[1] = Len(f[1]) /\ Len(f[1]) \in Nat
      BY <1>5, <1>6, <2>1
    <3>2. off[1] = off[0] + Len(f[1])
      BY <3>1
    <3>3. i - 1 = 0 /\ f[1] = q[1]
      BY <1>3, <2>1
    <3> QED
      BY <2>1, <3>2, <3>3
  <2>2. CASE i # 1
    <3>1. f[i] = f[i - 1] \o q[i] /\ i - 1 \in 1 .. n
      BY <1>3, <2>2
    <3>2. f[i - 1] \in Seq(T)
      BY <1>5, <3>1
    <3>3. q[i] \in Seq(T)
      OBVIOUS
    <3>4. Len(f[i - 1] \o q[i]) = Len(f[i - 1]) + Len(q[i])
      BY ONLY <3>2, <3>3, ConcatProperties
    <3>5. off[i] = Len(f[i]) /\ off[i - 1] = Len(f[i - 1])
      BY <1>6, <3>1
    <3> QED
      BY <3>1, <3>4, <3>5
  <2> QED
    BY <2>1, <2>2
<1>8. ASSUME NEW m \in 1 .. n, m > 1 => m - 1 \in Good PROVE m \in Good
  <2>1. CASE m = 1
    <3>1. f[1] = q[1] /\ 1 \in 1 .. n /\ Len(q[1]) \in Nat /\ off[1] = Len(q[1]) /\ off[0] = 0
      BY <1>3, <1>6, <2>1
    <3>2. \A j \in 1 .. Len(q[1]) : j = 0 + j
      BY <3>1
    <3>3. IsJoined(f[1], q, 1, off)
      BY <3>1, <3>2 DEF IsJoined
    <3> QED
      BY <2>1, <3>3
  <2>2. CASE m # 1
    <3>0. f[m] = f[m - 1] \o q[m] /\ m - 1 \in 1 .. n /\ m > 1
      BY <1>3, <2>2
    <3>1. f[m - 1] \in Seq(T) /\ m - 1 \in Good
      BY <1>5, <1>8, <3>0
    <3>2. IsJoined(f[m - 1], q, m - 1, off)
      BY <3>1
    <3>3. off[m] = off[m - 1] + Len(q[m])
      BY <1>7
    <3> HIDE DEF Good
    <3>4. IsJoined(f[m - 1] \o q[m], q, m, off)
      BY <1>6, <3>1, <3>2, <3>3, JoinOneMore
    <3> QED
      BY <3>0, <3>4 DEF Good
  <2> QED
    BY <2>1, <2>2
<1>9. 1 .. n \subseteq Good
  <2> HIDE DEF Good
  <2> QED
    BY <1>8, IntervalInduction
<1>10. n \in 1 .. n
  OBVIOUS
<1> QED
  BY <1>2, <1>5, <1>6, <1>7, <1>9, <1>10

-----------------------------------------------------------------------------
(* The rows of a day *)

Schedule == [Day -> [items : [Slot -> Item], whole : BOOLEAN]]
RowSet == [whole : BOOLEAN, day : Day, plan : Slot, item : Item]

DayRows(s, d) == IF Family = "record" THEN RecordRows(s, d) ELSE MotionRows(s, d)

\* Does a day of a record schedule get the extra row?
Extra(s, d) ==
  /\ s[d].whole
  /\ Cardinality(Walked) - Cardinality(Kept(s, d)) = MAX_PLAN_NUM_PER_DAY

\* How many items there may be.
Width == MAX_PLAN_NUM_PER_DAY * MAX_WND_NUM

LEMMA WidthFacts ==
  /\ Width \in Nat /\ MAX_PLAN_NUM_PER_DAY <= Width
  /\ Width = MAX_PLAN_NUM_PER_DAY <=> ~(MAX_WND_NUM > 1)
<1> DEFINE p == MAX_PLAN_NUM_PER_DAY
           v == MAX_WND_NUM - 1
<1>1. p \in Nat /\ p > 0 /\ v \in Nat /\ MAX_WND_NUM = v + 1 /\ MAX_PLAN_NUM_PER_DAY = p
  BY ScheduleConstantsOK
<1> HIDE DEF p, v
<1>2. p * (v + 1) = p * v + p /\ p * v \in Nat
  BY <1>1
<1>3. p * v = 0 <=> v = 0
  BY <1>1
<1> QED
  BY <1>1, <1>2, <1>3 DEF Width

LEMMA WalkedFacts ==
  /\ Walked \subseteq Slot /\ Slot = 0 .. Width - 1
  /\ 0 \in Slot
  /\ Cardinality(Walked) = (IF Family = "record" THEN Width ELSE MAX_PLAN_NUM_PER_DAY)
  /\ Cardinality(Walked) \in Nat
  /\ Family # "record" => \A p \in Slot : p \in Walked <=> p < MAX_PLAN_NUM_PER_DAY
<1>1. /\ Width \in Nat /\ MAX_PLAN_NUM_PER_DAY \in Nat /\ MAX_PLAN_NUM_PER_DAY > 0
      /\ MAX_PLAN_NUM_PER_DAY <= Width
  BY WidthFacts, ScheduleConstantsOK
<1>2. Slot = 0 .. Width - 1
  BY DEF Slot, Width
<1>3. \A m \in Nat : Cardinality(0 .. m - 1) = m
  <2>1. \A m \in Nat : Cardinality(0 .. m - 1) = IF 0 > m - 1 THEN 0 ELSE m - 1 - 0 + 1
    BY FS_Interval
  <2>2. \A m \in Nat : m = IF 0 > m - 1 THEN 0 ELSE m - 1 - 0 + 1
    OBVIOUS
  <2> QED
    BY <2>1, <2>2
<1>4. CASE Family = "record"
  BY <1>1, <1>2, <1>3, <1>4 DEF Walked
<1>5. CASE Family # "record"
  <2>1. Walked = 0 .. MAX_PLAN_NUM_PER_DAY - 1
    BY <1>5 DEF Walked
  <2>2. Cardinality(Walked) = MAX_PLAN_NUM_PER_DAY
    BY <1>1, <1>3, <2>1
  <2>3. Walked \subseteq Slot /\ 0 \in Slot
    BY <1>1, <1>2, <2>1
  <2>4. \A p \in Slot : p \in Walked <=> p < MAX_PLAN_NUM_PER_DAY
    BY <1>1, <1>2, <2>1
  <2> QED
    BY <1>1, <1>2, <1>5, <2>2, <2>3, <2>4
<1> QED
  BY <1>4, <1>5

LEMMA KeptFacts ==
  ASSUME NEW s \in Schedule, NEW d \in Day
  PROVE  LET a == Ascending(Kept(s, d))
             n == Cardinality(Kept(s, d))
         IN  /\ Kept(s, d) \subseteq Slot /\ n \in Nat /\ n <= Cardinality(Walked)
             /\ a \in [1 .. n -> Slot] /\ DOMAIN a = 1 .. n /\ Len(a) = n /\ a \in Seq(Slot)
             /\ \A i \in 1 .. n : a[i] \in Kept(s, d) /\ s[d].items[a[i]] \in Item \ {"void"}
             /\ \A i, j \in 1 .. n : a[i] = a[j] => i = j
             /\ \A x \in Kept(s, d) : \E i \in 1 .. n : a[i] = x
             /\ n = 0 <=> Kept(s, d) = {}
<1> DEFINE K == Kept(s, d)
           a == Ascending(K)
           n == Cardinality(K)
<1>1. K \subseteq Walked /\ K \subseteq Slot
  BY WalkedFacts DEF Kept
<1>2. Width \in Nat /\ K \subseteq 0 .. Width - 1
  BY <1>1, WidthFacts, WalkedFacts
<1>3. \A x \in K : s[d].items[x] \in Item \ {"void"}
  <2>1. ASSUME NEW x \in K PROVE s[d].items[x] \in Item /\ s[d].items[x] # "void"
    <3>1. x \in Slot /\ ~LeftOut(s[d].items[x])
      BY <1>1 DEF Kept
    <3>2. s[d] \in [items : [Slot -> Item], whole : BOOLEAN]
      BY DEF Schedule
    <3>3. s[d].items \in [Slot -> Item]
      BY <3>2
    <3> QED
      BY <3>1, <3>3 DEF LeftOut
  <2> QED
    BY <2>1
<1> HIDE DEF K
<1>4. /\ IsFiniteSet(K) /\ n \in Nat
      /\ a \in [1 .. n -> K] /\ DOMAIN a = 1 .. n /\ a \in Seq(K) /\ Len(a) = n
      /\ \A i, j \in 1 .. n : a[i] = a[j] => i = j
      /\ \A x \in K : \E i \in 1 .. n : a[i] = x
  BY <1>2, AscendingIs
<1>5. n <= Cardinality(Walked)
  <2>1. IsFiniteSet(Walked)
    <3>1. IsFiniteSet(0 .. Width - 1)
      BY <1>2, FS_Interval
    <3> QED
      BY <3>1, WalkedFacts, FS_Subset
  <2> QED
    BY <1>1, <2>1, FS_Subset
<1>6. n = 0 <=> K = {}
  BY <1>4, FS_EmptySet
<1> HIDE DEF n, a
<1>7. a \in [1 .. n -> Slot] /\ a \in Seq(Slot)
  BY <1>1, <1>4
<1>8. \A i \in 1 .. n : a[i] \in K /\ s[d].items[a[i]] \in Item \ {"void"}
  BY <1>3, <1>4
<1> QED
  BY <1>1, <1>4, <1>5, <1>6, <1>7, <1>8 DEF K, n, a

\* The rows of a day: one for each item kept, in order, and for record perhaps
\* the extra one.
LEMMA DayRowsAre ==
  ASSUME NEW s \in Schedule, NEW d \in Day
  PROVE  LET D == DayRows(s, d)
             a == Ascending(Kept(s, d))
             n == Cardinality(Kept(s, d))
         IN  /\ D \in Seq(RowSet) /\ Len(D) \in Nat
             /\ Len(D) = IF Family = "record" /\ Extra(s, d) THEN n + 1 ELSE n
             /\ \A j \in 1 .. n :
                  D[j] = IF Family = "record" THEN Row(s[d].whole, d, j - 1, s[d].items[a[j]])
                         ELSE Row(FALSE, d, a[j], s[d].items[a[j]])
             /\ Family = "record" /\ Extra(s, d) => D[n + 1] = Row(TRUE, d, 0, "void")
<1> DEFINE K == Kept(s, d)
           a == Ascending(K)
           n == Cardinality(K)
           D == DayRows(s, d)
<1>1. /\ n \in Nat /\ n <= Cardinality(Walked) /\ Cardinality(Walked) \in Nat
      /\ DOMAIN a = 1 .. n /\ Len(a) = n /\ a \in [1 .. n -> Slot]
      /\ \A i \in 1 .. n : s[d].items[a[i]] \in Item
  BY KeptFacts, WalkedFacts
<1>2. s[d].whole \in BOOLEAN
  <2>1. s[d] \in [items : [Slot -> Item], whole : BOOLEAN]
    BY DEF Schedule
  <2> QED
    BY <2>1
<1>3. CASE Family = "record"
  <2> DEFINE r(j) == Row(s[d].whole, d, j - 1, s[d].items[a[j]])
             u == [j \in DOMAIN a |-> r(j)]
             x == Row(TRUE, d, 0, "void")
             v == IF s[d].whole /\ Cardinality(Walked) - Len(a) = MAX_PLAN_NUM_PER_DAY THEN <<x>> ELSE <<>>
  <2>1. D = u \o v
    BY <1>3 DEF DayRows, RecordRows
  <2>2. Cardinality(Walked) = Width /\ Slot = 0 .. Width - 1 /\ Width \in Nat
    BY <1>3, WalkedFacts, WidthFacts
  <2>3. \A j \in 1 .. n : r(j) \in RowSet
    <3>1. \A j \in 1 .. n : j - 1 \in Slot
      BY <1>1, <2>2
    <3> QED
      BY <1>1, <1>2, <3>1 DEF Row, RowSet
  <2>4. u \in Seq(RowSet) /\ Len(u) = n /\ \A j \in 1 .. n : u[j] = r(j)
    <3>1. u = [j \in 1 .. n |-> r(j)]
      BY <1>1
    <3> HIDE DEF r, n
    <3> QED
      BY <1>1, <2>3, <3>1
  <2>5. x \in RowSet /\ <<x>> \in Seq(RowSet) /\ <<>> \in Seq(RowSet) /\ Len(<<x>>) = 1 /\ <<x>>[1] = x
    <3>1. x \in RowSet
      BY WalkedFacts DEF Row, RowSet, Item
    <3> HIDE DEF x
    <3> QED
      BY <3>1
  <2>6. v = IF Extra(s, d) THEN <<x>> ELSE <<>>
    BY <1>1 DEF Extra
  <2> HIDE DEF u, v, x, n, r, D
  <2>7. CASE Extra(s, d)
    <3>1. v = <<x>> /\ v \in Seq(RowSet) /\ Len(v) = 1 /\ v[1] = x
      BY <2>5, <2>6, <2>7
    <3>2. /\ u \o v \in Seq(RowSet) /\ Len(u \o v) = Len(u) + Len(v)
          /\ \A j \in 1 .. Len(u) + Len(v) : (u \o v)[j] = IF j <= Len(u) THEN u[j] ELSE v[j - Len(u)]
      BY ONLY <2>4, <3>1, ConcatProperties
    <3>3. Len(D) = n + 1
      BY <2>1, <2>4, <3>1, <3>2
    <3>4. \A j \in 1 .. n : D[j] = r(j)
      <4>1. \A j \in 1 .. n : j \in 1 .. n + 1 /\ j <= n
        BY <1>1
      <4> QED
        BY <2>1, <2>4, <3>1, <3>2, <4>1
    <3>5. D[n + 1] = x
      <4>1. n + 1 \in 1 .. n + 1 /\ ~(n + 1 <= n) /\ (n + 1) - n = 1
        BY <1>1
      <4> QED
        BY <2>1, <2>4, <3>1, <3>2, <4>1
    <3> QED
      BY <1>1, <1>3, <2>1, <2>7, <3>2, <3>3, <3>4, <3>5 DEF D, n, r, x
  <2>8. CASE ~Extra(s, d)
    <3>1. D = u
      BY <2>1, <2>4, <2>6, <2>8, ConcatEmptySeq
    <3> QED
      BY <1>1, <1>3, <2>4, <2>8, <3>1 DEF D, n, r
  <2> QED
    BY <2>7, <2>8
<1>4. CASE Family # "record"
  <2> DEFINE r(j) == Row(FALSE, d, a[j], s[d].items[a[j]])
  <2>1. D = [j \in 1 .. n |-> r(j)]
    BY <1>1, <1>4 DEF DayRows, MotionRows
  <2>2. \A j \in 1 .. n : r(j) \in RowSet
    BY <1>1, <1>2 DEF Row, RowSet
  <2> HIDE DEF r, n, D
  <2>3. D \in Seq(RowSet) /\ Len(D) = n /\ \A j \in 1 .. n : D[j] = r(j)
    BY <1>1, <2>1, <2>2
  <2> QED
    BY <1>1, <1>4, <2>3 DEF D, n, r
<1> QED
  BY <1>3, <1>4

\* The same, field by field.
LEMMA DayRowsHold ==
  ASSUME NEW s \in Schedule, NEW d \in Day
  PROVE  LET D == DayRows(s, d)
             a == Ascending(Kept(s, d))
             n == Cardinality(Kept(s, d))
         IN  /\ \A j \in 1 .. n :
                  /\ D[j].day = d /\ D[j].item = s[d].items[a[j]] /\ D[j].item \in Item \ {"void"}
                  /\ Family = "record" => D[j].plan = j - 1 /\ D[j].whole = s[d].whole
                  /\ Family # "record" => D[j].plan = a[j] /\ ~D[j].whole
             /\ \A j \in 1 .. Len(D) \ 1 .. n : j = n + 1 /\ Family = "record" /\ Extra(s, d)
             /\ Family = "record" /\ Extra(s, d) =>
                  /\ D[n + 1].day = d /\ D[n + 1].plan = 0
                  /\ D[n + 1].item = "void" /\ D[n + 1].whole
<1> DEFINE a == Ascending(Kept(s, d))
           n == Cardinality(Kept(s, d))
           D == DayRows(s, d)
           x == Family = "record" /\ Extra(s, d)
<1>1. n \in Nat /\ \A j \in 1 .. n : s[d].items[a[j]] \in Item \ {"void"}
  BY KeptFacts
<1>2. /\ Len(D) \in Nat /\ Len(D) = IF x THEN n + 1 ELSE n
      /\ \A j \in 1 .. n :
           D[j] = IF Family = "record" THEN Row(s[d].whole, d, j - 1, s[d].items[a[j]])
                  ELSE Row(FALSE, d, a[j], s[d].items[a[j]])
      /\ x => D[n + 1] = Row(TRUE, d, 0, "void")
  BY DayRowsAre
<1> HIDE DEF D, n, a, x
<1>3. ASSUME NEW j \in 1 .. n
      PROVE  /\ D[j].day = d /\ D[j].item = s[d].items[a[j]]
             /\ Family = "record" => D[j].plan = j - 1 /\ D[j].whole = s[d].whole
             /\ Family # "record" => D[j].plan = a[j] /\ ~D[j].whole
  <2>1. CASE Family = "record"
    <3>1. D[j] = Row(s[d].whole, d, j - 1, s[d].items[a[j]])
      BY <1>2, <2>1
    <3> QED
      BY <2>1, <3>1 DEF Row
  <2>2. CASE Family # "record"
    <3>1. D[j] = Row(FALSE, d, a[j], s[d].items[a[j]])
      BY <1>2, <2>2
    <3>2. ~D[j].whole
      BY ONLY <3>1 DEF Row
    <3>3. D[j].day = d /\ D[j].plan = a[j] /\ D[j].item = s[d].items[a[j]]
      BY ONLY <3>1 DEF Row
    <3> QED
      BY <2>2, <3>2, <3>3
  <2> QED
    BY <2>1, <2>2
<1>4. \A j \in 1 .. Len(D) \ 1 .. n : j = n + 1 /\ x
  <2>1. CASE x
    <3>1. Len(D) = n + 1
      BY <1>2, <2>1
    <3> QED
      BY <1>1, <2>1, <3>1
  <2>2. CASE ~x
    <3>1. Len(D) = n
      BY <1>2, <2>2
    <3> QED
      BY <3>1
  <2> QED
    BY <2>1, <2>2
<1>5. x => D[n + 1].day = d /\ D[n + 1].plan = 0 /\ D[n + 1].item = "void" /\ D[n + 1].whole
  <2>1. SUFFICES ASSUME x PROVE D[n + 1].day = d /\ D[n + 1].plan = 0 /\ D[n + 1].item = "void" /\ D[n + 1].whole
    OBVIOUS
  <2>2. D[n + 1] = Row(TRUE, d, 0, "void")
    BY <1>2, <2>1
  <2> QED
    BY ONLY <2>2 DEF Row
<1>6. \A j \in 1 .. n : D[j].item \in Item \ {"void"}
  BY <1>1, <1>3
<1>7. \A j \in 1 .. Len(D) \ 1 .. n : j = n + 1 /\ Family = "record" /\ Extra(s, d)
  BY <1>4 DEF x
<1>8. Family = "record" /\ Extra(s, d) =>
        D[n + 1].day = d /\ D[n + 1].plan = 0 /\ D[n + 1].item = "void" /\ D[n + 1].whole
  BY <1>5 DEF x
<1>9. \A j \in 1 .. n :
        /\ D[j].day = d /\ D[j].item = s[d].items[a[j]] /\ D[j].item \in Item \ {"void"}
        /\ Family = "record" => D[j].plan = j - 1 /\ D[j].whole = s[d].whole
        /\ Family # "record" => D[j].plan = a[j] /\ ~D[j].whole
  BY ONLY <1>3, <1>6
<1> QED
  BY ONLY <1>7, <1>8, <1>9 DEF D, n, a

LEMMA DayRowsDiffer ==
  ASSUME NEW s \in Schedule, NEW d \in Day
  PROVE  LET D == DayRows(s, d)
         IN  /\ \A j \in 1 .. Len(D) : D[j].day = d
             /\ \A i, j \in 1 .. Len(D) : D[i] = D[j] => i = j
             /\ Len(D) <= Cardinality(Walked)
<1> DEFINE a == Ascending(Kept(s, d))
           n == Cardinality(Kept(s, d))
           D == DayRows(s, d)
           x == Family = "record" /\ Extra(s, d)
<1>1. /\ n \in Nat /\ n <= Cardinality(Walked) /\ Cardinality(Walked) \in Nat
      /\ \A i, j \in 1 .. n : a[i] = a[j] => i = j
  BY KeptFacts, WalkedFacts
<1>2. Len(D) = IF x THEN n + 1 ELSE n
  BY DayRowsAre
<1>3. /\ \A j \in 1 .. n :
           /\ D[j].day = d /\ D[j].item # "void"
           /\ D[j].plan = IF Family = "record" THEN j - 1 ELSE a[j]
      /\ \A j \in 1 .. Len(D) \ 1 .. n : j = n + 1 /\ x
      /\ x => D[n + 1].day = d /\ D[n + 1].item = "void"
  BY DayRowsHold
<1>4. x => n + 1 <= Cardinality(Walked)
  <2>1. x => Cardinality(Walked) - n = MAX_PLAN_NUM_PER_DAY
    BY DEF Extra
  <2>2. MAX_PLAN_NUM_PER_DAY \in Nat /\ MAX_PLAN_NUM_PER_DAY > 0
    BY ScheduleConstantsOK
  <2> HIDE DEF n, x
  <2> QED
    BY <1>1, <2>1, <2>2
<1> HIDE DEF D, n, a, x
<1>5. ASSUME NEW i \in 1 .. n, NEW j \in 1 .. n, D[i] = D[j] PROVE i = j
  <2>1. D[i].plan = D[j].plan
    BY <1>5
  <2>2. CASE Family = "record"
    <3>1. i - 1 = j - 1
      BY <1>3, <2>1, <2>2
    <3> QED
      BY <1>1, <3>1
  <2>3. CASE Family # "record"
    BY <1>1, <1>3, <2>1, <2>3
  <2> QED
    BY <2>2, <2>3
<1>6. \A i, j \in 1 .. Len(D) : D[i] = D[j] => i = j
  BY <1>3, <1>5
<1>7. \A j \in 1 .. Len(D) : D[j].day = d
  BY <1>3
<1>8. Len(D) <= Cardinality(Walked)
  BY <1>1, <1>2, <1>4
<1> QED
  BY <1>6, <1>7, <1>8 DEF D
-----------------------------------------------------------------------------
(* The rows of a schedule *)

\* The rows of the days one after the other.
LEMMA RowsJoined ==
  ASSUME NEW s \in Schedule
  PROVE  LET R == Rows(s)
         IN  /\ R \in Seq(RowSet)
             /\ \E off \in [0 .. MAX_DAY_NUM -> Nat] :
                  /\ off[0] = 0 /\ off[MAX_DAY_NUM] = Len(R)
                  /\ \A d \in Day : off[d + 1] = off[d] + Len(DayRows(s, d))
                  /\ \A d \in Day : \A j \in 1 .. Len(DayRows(s, d)) : \A k \in Nat :
                       k = off[d] + j => k \in 1 .. Len(R) /\ R[k] = DayRows(s, d)[j]
                  /\ \A k \in 1 .. Len(R) : \E d \in Day : \E j \in 1 .. Len(DayRows(s, d)) :
                       k = off[d] + j
<1> DEFINE n == MAX_DAY_NUM
           q == [i \in 1 .. n |-> DayRows(s, i - 1)]
           R == Rows(s)
<1>1. n \in Nat /\ n > 0
  BY ScheduleConstantsOK
<1>2. Day = 0 .. n - 1
  BY DEF Day
<1>3. R = FlattenSeq(q)
  BY DEF Rows, DayRows
<1> HIDE DEF n, R
<1>4. \A i \in 1 .. n : i - 1 \in Day
  BY <1>1, <1>2
<1>5. q \in [1 .. n -> Seq(RowSet)] /\ \A i \in 1 .. n : q[i] = DayRows(s, i - 1)
  BY <1>4, DayRowsAre
<1> HIDE DEF q
<1>6. R \in Seq(RowSet)
  BY <1>1, <1>3, <1>5, FlattenJoins
<1>7. PICK off \in [0 .. n -> Nat] :
              /\ off[0] = 0 /\ \A i \in 1 .. n : off[i] = off[i - 1] + Len(q[i])
              /\ IsJoined(R, q, n, off)
  BY <1>1, <1>3, <1>5, FlattenJoins
<1>8. /\ off[n] = Len(R)
      /\ \A i \in 1 .. n : \A j \in 1 .. Len(q[i]) : \A k \in Nat :
           k = off[i - 1] + j => k \in 1 .. off[n] /\ R[k] = q[i][j]
      /\ \A k \in 1 .. off[n] : \E i \in 1 .. n : \E j \in 1 .. Len(q[i]) : k = off[i - 1] + j
  BY <1>7 DEF IsJoined
<1>9. \A d \in Day : d + 1 \in 1 .. n /\ (d + 1) - 1 = d
  BY <1>1, <1>2
<1>10. \A d \in Day : off[d + 1] = off[d] + Len(DayRows(s, d))
  BY <1>5, <1>7, <1>9
<1>11. ASSUME NEW d \in Day, NEW j \in 1 .. Len(DayRows(s, d)), NEW k \in Nat, k = off[d] + j
       PROVE  k \in 1 .. Len(R) /\ R[k] = DayRows(s, d)[j]
  <2>1. PICK i \in 1 .. n : i = d + 1 /\ i - 1 = d
    BY <1>9
  <2>2. q[i] = DayRows(s, d)
    BY <1>5, <2>1
  <2>3. j \in 1 .. Len(q[i]) /\ k = off[i - 1] + j
    BY <1>11, <2>1, <2>2
  <2> QED
    BY <1>8, <2>2, <2>3
<1>12. ASSUME NEW k \in 1 .. Len(R)
       PROVE  \E d \in Day : \E j \in 1 .. Len(DayRows(s, d)) : k = off[d] + j
  <2>1. PICK i \in 1 .. n : \E j \in 1 .. Len(q[i]) : k = off[i - 1] + j
    BY <1>8
  <2> DEFINE d == i - 1
  <2>2. d \in Day /\ q[i] = DayRows(s, d) /\ \E j \in 1 .. Len(q[i]) : k = off[d] + j
    BY <1>4, <1>5, <2>1
  <2> HIDE DEF d
  <2> QED
    BY <2>2
<1> QED
  BY <1>6, <1>7, <1>8, <1>10, <1>11, <1>12 DEF R, n

\* Where the rows of a day begin.
LEMMA DayBlock ==
  ASSUME NEW s \in Schedule, NEW d \in Day
  PROVE  \E o \in Nat :
           /\ \A j \in 1 .. Len(DayRows(s, d)) : \A k \in Nat :
                k = o + j => k \in 1 .. Len(Rows(s)) /\ Rows(s)[k] = DayRows(s, d)[j]
           /\ \A k \in 1 .. Len(Rows(s)) :
                Rows(s)[k].day = d => \E j \in 1 .. Len(DayRows(s, d)) : k = o + j
<1>1. PICK off \in [0 .. MAX_DAY_NUM -> Nat] :
                  /\ \A e \in Day : \A j \in 1 .. Len(DayRows(s, e)) : \A k \in Nat :
                       k = off[e] + j => k \in 1 .. Len(Rows(s)) /\ Rows(s)[k] = DayRows(s, e)[j]
                  /\ \A k \in 1 .. Len(Rows(s)) : \E e \in Day : \E j \in 1 .. Len(DayRows(s, e)) :
                       k = off[e] + j
  BY RowsJoined
<1>2. off[d] \in Nat
  BY ScheduleConstantsOK DEF Day
<1>3. ASSUME NEW k \in 1 .. Len(Rows(s)), Rows(s)[k].day = d
      PROVE  \E j \in 1 .. Len(DayRows(s, d)) : k = off[d] + j
  <2>1. PICK e \in Day : \E j \in 1 .. Len(DayRows(s, e)) : k = off[e] + j
    BY <1>1
  <2>2. PICK j \in 1 .. Len(DayRows(s, e)) : k = off[e] + j
    BY <2>1
  <2>3. Rows(s)[k] = DayRows(s, e)[j] /\ DayRows(s, e)[j].day = e
    BY <1>1, <2>2, DayRowsDiffer
  <2> QED
    BY <1>3, <2>2, <2>3
<1> QED
  BY <1>1, <1>2, <1>3

\* They all fit into the loop of the reader, and no two are equal.
LEMMA RowsFacts ==
  ASSUME NEW s \in Schedule
  PROVE  /\ Rows(s) \in Seq(RowSet) /\ Len(Rows(s)) \in Nat
         /\ Len(Rows(s)) <= MAX_DAY_NUM * Cardinality(Walked)
         /\ \A i, j \in 1 .. Len(Rows(s)) : Rows(s)[i] = Rows(s)[j] => i = j
<1> DEFINE n == MAX_DAY_NUM
           R == Rows(s)
           c == Cardinality(Walked)
<1>1. PICK off \in [0 .. n -> Nat] :
                  /\ off[0] = 0 /\ off[n] = Len(R)
                  /\ \A d \in Day : off[d + 1] = off[d] + Len(DayRows(s, d))
  BY RowsJoined
<1>2. R \in Seq(RowSet) /\ Len(R) \in Nat
  BY RowsJoined
<1>3. n \in Nat /\ Day = 0 .. n - 1 /\ c \in Nat
  BY ScheduleConstantsOK, WalkedFacts DEF Day
<1>4. \A d \in Day : Len(DayRows(s, d)) <= c /\ Len(DayRows(s, d)) \in Nat
  BY DayRowsDiffer, DayRowsAre
<1> HIDE DEF n, c
<1> DEFINE Good == {d \in 0 .. n : off[d] <= d * c}
<1>5. ASSUME NEW d \in 0 .. n, d > 0 => d - 1 \in Good PROVE d \in Good
  <2>1. CASE d = 0
    BY <1>1, <1>3, <2>1
  <2>2. CASE d # 0
    <3> DEFINE e == d - 1
    <3>1. e \in Day /\ e \in Nat /\ d = e + 1 /\ e \in Good
      BY <1>3, <1>5, <2>2
    <3> HIDE DEF e
    <3>2. off[e + 1] = off[e] + Len(DayRows(s, e)) /\ off[e] <= e * c /\ off[e] \in Nat
      BY <1>1, <3>1
    <3>3. (e + 1) * c = e * c + c /\ e * c \in Nat
      BY <1>3, <3>1
    <3>4. Len(DayRows(s, e)) <= c /\ Len(DayRows(s, e)) \in Nat
      BY <1>4, <3>1
    <3>5. off[e + 1] <= (e + 1) * c
      <4> HIDE DEF Good
      <4> QED
        BY <1>3, <3>2, <3>3, <3>4
    <3> QED
      BY <3>1, <3>5
  <2> QED
    BY <2>1, <2>2
<1>6. 0 .. n \subseteq Good
  <2> HIDE DEF Good
  <2> QED
    BY <1>3, <1>5, IntervalInduction
<1>7. Len(R) <= n * c
  <2>1. n \in 0 .. n
    BY <1>3
  <2> QED
    BY <1>1, <1>6, <2>1
<1>8. ASSUME NEW i \in 1 .. Len(R), NEW j \in 1 .. Len(R), R[i] = R[j] PROVE i = j
  <2> DEFINE d == R[i].day
  <2>1. d \in Day
    <3>1. R[i] \in RowSet
      BY <1>2, ElementOfSeq
    <3> QED
      BY <3>1 DEF RowSet
  <2>2. R[i].day = d /\ R[j].day = d
    BY <1>8
  <2> HIDE DEF d
  <2>3. PICK o \in Nat :
           /\ \A g \in 1 .. Len(DayRows(s, d)) : \A k \in Nat :
                k = o + g => k \in 1 .. Len(R) /\ R[k] = DayRows(s, d)[g]
           /\ \A k \in 1 .. Len(R) :
                R[k].day = d => \E g \in 1 .. Len(DayRows(s, d)) : k = o + g
    BY <2>1, DayBlock
  <2>4. PICK g \in 1 .. Len(DayRows(s, d)), h \in 1 .. Len(DayRows(s, d)) : i = o + g /\ j = o + h
    BY <2>2, <2>3
  <2>5. i \in Nat /\ j \in Nat
    OBVIOUS
  <2>6. DayRows(s, d)[g] = DayRows(s, d)[h]
    BY <1>8, <2>3, <2>4, <2>5
  <2>7. g = h
    BY <2>1, <2>6, DayRowsDiffer
  <2> QED
    BY <2>4, <2>7
<1> QED
  BY <1>2, <1>7, <1>8 DEF n, c
-----------------------------------------------------------------------------
(* What a reader finds in the rows of a schedule *)

LEMMA LastIs ==
  ASSUME NEW hits, NEW m \in hits, hits \subseteq Nat, \A k \in hits : k <= m
  PROVE  LastOf(hits) = m
<1>1. \E i \in hits : \A k \in hits : k <= i
  OBVIOUS
<1>2. LastOf(hits) \in hits /\ \A k \in hits : k <= LastOf(hits)
  BY <1>1 DEF LastOf
<1>3. m <= LastOf(hits) /\ LastOf(hits) <= m /\ m \in Nat /\ LastOf(hits) \in Nat
  BY <1>2
<1> QED
  BY <1>3

\* The last row with a plan gives the item of that plan, the last row of a day
\* the flag of the day.
LEMMA ReadDay ==
  ASSUME NEW s \in Schedule, NEW d \in Day
  PROVE  LET D == DayRows(s, d)
         IN  /\ \A p \in Slot :
                  (\A j \in 1 .. Len(D) : D[j].plan # p) => Read(Rows(s))[d].items[p] = "void"
             /\ \A p \in Slot : \A m \in 1 .. Len(D) :
                  (D[m].plan = p /\ \A j \in 1 .. Len(D) : D[j].plan = p => j <= m)
                    => Read(Rows(s))[d].items[p] = D[m].item
             /\ Len(D) = 0 => Read(Rows(s))[d].whole = FALSE
             /\ Len(D) # 0 => Read(Rows(s))[d].whole = D[Len(D)].whole
<1> DEFINE D == DayRows(s, d)
           R == Rows(s)
           H(p) == {i \in Fetched(R) : R[i].day = d /\ R[i].plan = p}
           G == {i \in Fetched(R) : R[i].day = d}
<1>1. R \in Seq(RowSet) /\ Len(R) \in Nat /\ D \in Seq(RowSet) /\ Len(D) \in Nat
  BY RowsFacts, DayRowsAre
<1>2. Fetched(R) = 1 .. Len(R)
  <2>1. DOMAIN R = 1 .. Len(R)
    BY <1>1
  <2>2. MAX_DAY_NUM * Cardinality(Walked) \in Nat /\ Len(R) <= MAX_DAY_NUM * Cardinality(Walked)
    BY RowsFacts, WalkedFacts, ScheduleConstantsOK
  <2> DEFINE c == MAX_DAY_NUM * Cardinality(Walked)
  <2>3. Fetched(R) = {i \in 1 .. Len(R) : i <= c + 1}
    BY <2>1 DEF Fetched
  <2>4. c \in Nat /\ Len(R) <= c
    BY <2>2
  <2> HIDE DEF c, R
  <2> QED
    BY <1>1, <2>3, <2>4
<1>3. /\ \A p \in Slot : Read(R)[d].items[p] =
           IF H(p) = {} THEN "void" ELSE R[LastOf(H(p))].item
      /\ Read(R)[d].whole = (G # {} /\ R[LastOf(G)].whole)
  BY DEF Read
<1>4. PICK o \in Nat :
           /\ \A j \in 1 .. Len(D) : \A k \in Nat :
                k = o + j => k \in 1 .. Len(R) /\ R[k] = D[j]
           /\ \A k \in 1 .. Len(R) : R[k].day = d => \E j \in 1 .. Len(D) : k = o + j
  BY DayBlock
<1>5. \A j \in 1 .. Len(D) : D[j].day = d
  BY DayRowsDiffer
<1> HIDE DEF D, R
<1>6. ASSUME NEW p \in Slot, \A j \in 1 .. Len(D) : D[j].plan # p
      PROVE  Read(R)[d].items[p] = "void"
  <2>1. H(p) = {}
    <3>1. SUFFICES ASSUME NEW k \in H(p) PROVE FALSE
      OBVIOUS
    <3>2. k \in 1 .. Len(R) /\ R[k].day = d /\ R[k].plan = p /\ k \in Nat
      BY <1>2
    <3>3. PICK j \in 1 .. Len(D) : k = o + j
      BY <1>4, <3>2
    <3> QED
      BY <1>4, <1>6, <3>2, <3>3
  <2> QED
    BY <1>3, <2>1
<1>7. ASSUME NEW p \in Slot, NEW m \in 1 .. Len(D), D[m].plan = p,
             \A j \in 1 .. Len(D) : D[j].plan = p => j <= m
      PROVE  Read(R)[d].items[p] = D[m].item
  <2>1. PICK g \in Nat : g = o + m
    OBVIOUS
  <2>2. g \in 1 .. Len(R) /\ R[g] = D[m] /\ D[m].day = d
    BY <1>4, <1>5, <2>1
  <2>3. g \in H(p) /\ H(p) \subseteq Nat
    BY <1>2, <1>7, <2>2
  <2>4. ASSUME NEW k \in H(p) PROVE k <= g
    <3>1. k \in 1 .. Len(R) /\ R[k].day = d /\ R[k].plan = p /\ k \in Nat
      BY <1>2
    <3>2. PICK j \in 1 .. Len(D) : k = o + j
      BY <1>4, <3>1
    <3>3. D[j].plan = p
      BY <1>4, <3>1, <3>2
    <3>4. j <= m
      BY <1>7, <3>3
    <3> QED
      BY <2>1, <3>2, <3>4
  <2> HIDE DEF H
  <2>5. LastOf(H(p)) = g
    BY <2>3, <2>4, LastIs
  <2> QED
    BY <1>3, <2>2, <2>3, <2>5
<1>8. ASSUME Len(D) = 0 PROVE Read(R)[d].whole = FALSE
  <2>1. G = {}
    <3>1. SUFFICES ASSUME NEW k \in G PROVE FALSE
      OBVIOUS
    <3>2. k \in 1 .. Len(R) /\ R[k].day = d
      BY <1>2
    <3>3. \E j \in 1 .. Len(D) : k = o + j
      BY <1>4, <3>2
    <3> QED
      BY <1>8, <3>3
  <2> QED
    BY <1>3, <2>1
<1>9. ASSUME Len(D) # 0 PROVE Read(R)[d].whole = D[Len(D)].whole
  <2> DEFINE m == Len(D)
  <2>0. m \in 1 .. Len(D) /\ m \in Nat /\ \A j \in 1 .. Len(D) : j <= m
    BY <1>1, <1>9
  <2> HIDE DEF m
  <2>1. PICK g \in Nat : g = o + m
    BY <2>0
  <2>2. g \in 1 .. Len(R) /\ R[g] = D[m] /\ D[m].day = d
    BY <1>4, <1>5, <2>0, <2>1
  <2>3. g \in G /\ G \subseteq Nat
    BY <1>2, <2>2
  <2>4. ASSUME NEW k \in G PROVE k <= g
    <3>1. k \in 1 .. Len(R) /\ R[k].day = d /\ k \in Nat
      BY <1>2
    <3>2. PICK j \in 1 .. Len(D) : k = o + j
      BY <1>4, <3>1
    <3>3. j <= m
      BY <2>0
    <3> QED
      BY <2>0, <2>1, <3>2, <3>3
  <2> HIDE DEF G
  <2>5. LastOf(G) = g
    BY <2>3, <2>4, LastIs
  <2>6. R[g].whole \in BOOLEAN
    <3>1. R[g] \in RowSet
      BY <1>1, <2>2, ElementOfSeq
    <3> QED
      BY <3>1 DEF RowSet
  <2>7. Read(R)[d].whole = R[g].whole
    BY <1>3, <2>3, <2>5, <2>6
  <2> QED
    BY <2>2, <2>7 DEF m
<1> QED
  BY <1>6, <1>7, <1>8, <1>9 DEF D, R
\* The items of a record schedule, moved to the front.
LEMMA RecordItems ==
  ASSUME NEW s \in Schedule, NEW d \in Day, NEW p \in Slot, Family = "record"
  PROVE  \/ Read(Rows(s))[d].items[p] = Meant(s, d)[p]
         \/ p = 0 /\ HidesFirst(s, d) /\ Read(Rows(s))[d].items[p] = "void"
<1> DEFINE D == DayRows(s, d)
           K == Kept(s, d)
           a == Ascending(K)
           n == Cardinality(K)
           read == Read(Rows(s))[d].items[p]
<1>1. K = Wanted(s, d)
  <2>1. Walked = Slot
    BY DEF Walked
  <2>2. s[d].items \in [Slot -> Item]
    <3>1. s[d] \in [items : [Slot -> Item], whole : BOOLEAN]
      BY DEF Schedule
    <3> QED
      BY <3>1
  <2>3. \A j \in Slot : ~LeftOut(s[d].items[j]) <=> s[d].items[j] \in {"a"}
    BY <2>2 DEF LeftOut, Item
  <2> QED
    BY <2>1, <2>3 DEF Kept, Wanted
<1>2. n \in Nat /\ Len(a) = n /\ (n = 0 <=> K = {})
  BY KeptFacts
<1>3. Meant(s, d)[p] = IF p < n THEN s[d].items[a[p + 1]] ELSE "void"
  BY <1>1, <1>2 DEF Meant
<1>4. /\ \A j \in 1 .. n : D[j].plan = j - 1 /\ D[j].item = s[d].items[a[j]]
      /\ \A j \in 1 .. Len(D) \ 1 .. n : j = n + 1 /\ Extra(s, d)
      /\ Extra(s, d) => D[n + 1].plan = 0 /\ D[n + 1].item = "void"
  BY DayRowsHold
<1>5. Len(D) = (IF Extra(s, d) THEN n + 1 ELSE n) /\ Len(D) \in Nat
  BY DayRowsAre
<1>6. /\ (\A j \in 1 .. Len(D) : D[j].plan # p) => read = "void"
      /\ \A m \in 1 .. Len(D) :
           (D[m].plan = p /\ \A j \in 1 .. Len(D) : D[j].plan = p => j <= m) => read = D[m].item
  BY ReadDay
<1>7. p \in Nat
  BY DEF Slot
<1> DEFINE x == Extra(s, d)
<1>8. x /\ n # 0 => HidesFirst(s, d)
  BY <1>2 DEF Extra, HidesFirst
<1> HIDE DEF D, K, a, n, read, x
<1>9. CASE p < n /\ ~(p = 0 /\ x)
  <2>1. PICK m \in 1 .. n : m = p + 1 /\ m - 1 = p
    BY <1>2, <1>7, <1>9
  <2>2. m \in 1 .. Len(D)
    BY <1>2, <1>5, <2>1
  <2>3. ASSUME NEW j \in 1 .. Len(D), D[j].plan = p PROVE j <= m
    <3>1. CASE j \in 1 .. n
      <4>1. j - 1 = p
        BY <1>4, <2>3, <3>1
      <4> QED
        BY <2>1, <4>1
    <3>2. CASE j \notin 1 .. n
      <4>1. j = n + 1 /\ x
        BY <1>4, <3>2 DEF x
      <4>2. D[j].plan = 0
        BY <1>4, <4>1 DEF x
      <4> QED
        BY <1>9, <2>3, <4>1, <4>2
    <3> QED
      BY <3>1, <3>2
  <2>4. D[m].plan = p
    BY <1>4, <2>1
  <2>5. read = D[m].item
    BY <1>6, <2>2, <2>3, <2>4
  <2>6. D[m].item = s[d].items[a[p + 1]]
    BY <1>4, <2>1
  <2> QED
    BY <1>3, <1>9, <2>5, <2>6 DEF read
<1>10. CASE p = 0 /\ x
  <2>1. PICK m \in 1 .. Len(D) : m = n + 1 /\ \A j \in 1 .. Len(D) : j <= m
    <3>1. Len(D) = n + 1
      BY <1>5, <1>10 DEF x
    <3> QED
      BY <1>2, <3>1
  <2>2. D[m].plan = p /\ D[m].item = "void"
    BY <1>4, <1>10, <2>1 DEF x
  <2>3. read = "void"
    BY <1>6, <2>1, <2>2
  <2>4. CASE n = 0
    BY <1>3, <1>10, <2>3, <2>4 DEF read
  <2>5. CASE n # 0
    BY <1>8, <1>10, <2>3, <2>5 DEF read
  <2> QED
    BY <2>4, <2>5
<1>11. CASE ~(p < n) /\ ~(p = 0 /\ x)
  <2>1. ASSUME NEW j \in 1 .. Len(D) PROVE D[j].plan # p
    <3>1. CASE j \in 1 .. n
      <4>1. D[j].plan = j - 1
        BY <1>4, <3>1
      <4> QED
        BY <1>2, <1>7, <1>11, <3>1, <4>1
    <3>2. CASE j \notin 1 .. n
      <4>1. D[j].plan = 0 /\ x
        BY <1>4, <3>2 DEF x
      <4> QED
        BY <1>11, <4>1
    <3> QED
      BY <3>1, <3>2
  <2>2. read = "void"
    BY <1>6, <2>1
  <2> QED
    BY <1>3, <1>11, <2>2 DEF read
<1> QED
  BY <1>9, <1>10, <1>11

\* The items of another schedule, in their places.
LEMMA MotionItems ==
  ASSUME NEW s \in Schedule, NEW d \in Day, NEW p \in Slot, Family # "record"
  PROVE  \/ Read(Rows(s))[d].items[p] = Meant(s, d)[p]
         \/ BeyondFirstWindow(p) /\ Read(Rows(s))[d].items[p] = "void"
<1> DEFINE D == DayRows(s, d)
           K == Kept(s, d)
           a == Ascending(K)
           n == Cardinality(K)
           read == Read(Rows(s))[d].items[p]
<1>1. s[d].items[p] \in Item
  <2>1. s[d] \in [items : [Slot -> Item], whole : BOOLEAN]
    BY DEF Schedule
  <2>2. s[d].items \in [Slot -> Item]
    BY <2>1
  <2> QED
    BY <2>2
<1>2. p \in Wanted(s, d) <=> s[d].items[p] # "void"
  BY <1>1 DEF Wanted, Item
<1>3. p \in K <=> p < MAX_PLAN_NUM_PER_DAY /\ s[d].items[p] # "void"
  <2>1. p \in Walked <=> p < MAX_PLAN_NUM_PER_DAY
    BY WalkedFacts
  <2> QED
    BY <2>1 DEF Kept, LeftOut
<1>4. /\ n \in Nat /\ \A i \in 1 .. n : a[i] \in K
      /\ \A i, j \in 1 .. n : a[i] = a[j] => i = j
      /\ \A x \in K : \E i \in 1 .. n : a[i] = x
  BY KeptFacts
<1>5. Len(D) = n
  BY DayRowsAre
<1>6. \A j \in 1 .. n : D[j].plan = a[j] /\ D[j].item = s[d].items[a[j]]
  BY DayRowsHold
<1>7. /\ (\A j \in 1 .. Len(D) : D[j].plan # p) => read = "void"
      /\ \A m \in 1 .. Len(D) :
           (D[m].plan = p /\ \A j \in 1 .. Len(D) : D[j].plan = p => j <= m) => read = D[m].item
  BY ReadDay
<1>8. Meant(s, d)[p] = IF s[d].items[p] # "void" THEN s[d].items[p] ELSE "void"
  BY <1>2 DEF Meant
<1>9. p \in Nat /\ MAX_PLAN_NUM_PER_DAY \in Nat
  BY ScheduleConstantsOK DEF Slot
<1> HIDE DEF D, K, a, n, read
<1>10. CASE p \in K
  <2>1. PICK m \in 1 .. n : a[m] = p
    BY <1>4, <1>10
  <2>2. \A j \in 1 .. n : a[j] = p => j = m
    BY <1>4, <2>1
  <2>3. m <= m
    OBVIOUS
  <2>4. read = s[d].items[p]
    BY <1>5, <1>6, <1>7, <2>1, <2>2, <2>3
  <2> QED
    BY <1>3, <1>8, <1>10, <2>4 DEF read
<1>11. CASE p \notin K
  <2>1. read = "void"
    BY <1>4, <1>5, <1>6, <1>7, <1>11
  <2>2. CASE s[d].items[p] = "void"
    BY <1>8, <2>1, <2>2 DEF read
  <2>3. CASE ~(p < MAX_PLAN_NUM_PER_DAY)
    BY <1>9, <2>1, <2>3 DEF read, BeyondFirstWindow
  <2> QED
    BY <1>3, <1>11, <2>2, <2>3
<1> QED
  BY <1>10, <1>11

\* The flags of a record schedule.
LEMMA RecordWhole ==
  ASSUME NEW s \in Schedule, NEW d \in Day, Family = "record"
  PROVE  Read(Rows(s))[d].whole = (s[d].whole /\ ~LosesWhole(s, d))
<1> DEFINE D == DayRows(s, d)
           K == Kept(s, d)
           n == Cardinality(K)
           x == Extra(s, d)
           read == Read(Rows(s))[d].whole
<1>1. n \in Nat /\ (n = 0 <=> K = {})
  BY KeptFacts
<1>2. /\ \A j \in 1 .. n : D[j].whole = s[d].whole
      /\ x => D[n + 1].whole
  BY DayRowsHold
<1>3. Len(D) = (IF x THEN n + 1 ELSE n) /\ Len(D) \in Nat
  BY DayRowsAre
<1>4. /\ Len(D) = 0 => read = FALSE
      /\ Len(D) # 0 => read = D[Len(D)].whole
  BY ReadDay
<1>5. x <=> s[d].whole /\ Width - n = MAX_PLAN_NUM_PER_DAY
  BY WalkedFacts DEF Extra
<1>6. LosesWhole(s, d) <=> s[d].whole /\ n = 0 /\ MAX_WND_NUM > 1
  BY <1>1 DEF LosesWhole
<1>7. s[d].whole \in BOOLEAN /\ read \in BOOLEAN
  <2>1. s[d] \in [items : [Slot -> Item], whole : BOOLEAN]
    BY DEF Schedule
  <2> QED
    BY <2>1 DEF Read
<1>8. n = 0 => (x <=> s[d].whole /\ ~(MAX_WND_NUM > 1))
  <2>1. Width \in Nat /\ (Width = MAX_PLAN_NUM_PER_DAY <=> ~(MAX_WND_NUM > 1))
    BY WidthFacts
  <2>2. n = 0 => Width - n = Width
    BY <2>1
  <2> HIDE DEF n, x
  <2> QED
    BY <1>5, <2>1, <2>2
<1> HIDE DEF D, K, n, x, read
<1>9. CASE x
  <2>1. Len(D) = n + 1 /\ Len(D) # 0 /\ D[n + 1].whole
    BY <1>1, <1>2, <1>3, <1>9
  <2>2. read
    BY <1>4, <1>7, <2>1
  <2>3. s[d].whole /\ ~LosesWhole(s, d)
    BY <1>5, <1>6, <1>8, <1>9
  <2> QED
    BY <1>7, <2>2, <2>3 DEF read
<1>10. CASE ~x /\ n # 0
  <2>1. Len(D) = n /\ n \in 1 .. n
    BY <1>1, <1>3, <1>10
  <2>2. read = s[d].whole
    BY <1>2, <1>4, <1>10, <2>1
  <2>3. ~LosesWhole(s, d)
    BY <1>6, <1>10
  <2> QED
    BY <1>7, <2>2, <2>3 DEF read
<1>11. CASE ~x /\ n = 0
  <2>1. Len(D) = 0
    BY <1>3, <1>11
  <2>2. ~read
    BY <1>4, <2>1
  <2>3. s[d].whole => LosesWhole(s, d)
    BY <1>6, <1>8, <1>11
  <2> QED
    BY <1>7, <2>2, <2>3 DEF read
<1> QED
  BY <1>9, <1>10, <1>11
-----------------------------------------------------------------------------
(* The inductive invariant *)

TypeInv ==
  /\ Family \in DOMAIN Schedules
  /\ table \in Seq(RowSet)
  /\ pc \in [Writer -> {"idle", "delete", "insert"}]
  /\ todo \in [Writer -> Seq(RowSet)]
  /\ \A w \in Writer : todo[w] # <<>> => pc[w] = "insert"
  /\ last \in Schedules[Family] \cup {Nothing}
  /\ intact \in BOOLEAN /\ dirty \in BOOLEAN

\* Under the write lock, and while the last write has run alone, at most one
\* call is in its section.
AloneInv ==
  (Family # "alarm_out" \/ intact) =>
    \A v, w \in Writer : pc[v] # "idle" /\ pc[w] # "idle" => v = w

\* What is left to insert of the rows r of the call in its section is their end.
TodoInv(r) ==
  (Family # "alarm_out" \/ intact) =>
    \A w \in Writer : pc[w] = "insert" =>
      /\ Len(todo[w]) <= Len(r)
      /\ \A i \in 1 .. Len(todo[w]) : \A k \in 1 .. Len(r) :
           k = Len(r) - Len(todo[w]) + i => todo[w][i] = r[k]

\* The table holds some of them, each once, and none that is still to come.
OnceInv(r) ==
  (Family # "alarm_out" /\ ~dirty) =>
    /\ \A i \in 1 .. Len(table) : \E k \in 1 .. Len(r) : table[i] = r[k]
    /\ \A i, j \in 1 .. Len(table) : table[i] = table[j] => i = j
    /\ \A w \in Writer : \A i \in 1 .. Len(table) : \A j \in 1 .. Len(todo[w]) :
         table[i] # todo[w][j]

\* A call that runs alone and without a failure has put down their beginning.
PrefixInv(r) ==
  intact =>
    /\ \A w \in Writer : pc[w] = "insert" =>
         /\ Len(table) = Len(r) - Len(todo[w])
         /\ \A i \in 1 .. Len(table) : table[i] = r[i]
    /\ (\A w \in Writer : pc[w] # "insert") => table = r

RowsInv(r) == TodoInv(r) /\ OnceInv(r) /\ PrefixInv(r)

ScheduleInv == TypeInv /\ AloneInv /\ \E r : r = Rows(last) /\ RowsInv(r)

LEMMA NothingIsSchedule ==
  Nothing \in Schedule
BY WalkedFacts DEF Nothing, Schedule, Item

LEMMA Written ==
  TypeInv => last \in Schedule
BY NothingIsSchedule, ScheduleConstantsOK DEF TypeInv, Schedule

\* The rows of s depend on the table they are for, which never changes.
LEMMA RowsStay ==
  ASSUME UNCHANGED Family, NEW s
  PROVE  Rows(s)' = Rows(s)
BY DEF Rows, RecordRows, MotionRows, Kept, LeftOut, Walked

\* A call gets into its section.
LEMMA EnterStep ==
  ASSUME NEW r, TypeInv, AloneInv, RowsInv(r), UNCHANGED Family,
         NEW w \in Writer, Enter(w)
  PROVE  TypeInv' /\ AloneInv' /\ RowsInv(r)'
<1>1. /\ pc[w] = "idle" /\ pc' = [pc EXCEPT ![w] = "delete"]
      /\ Family # "alarm_out" => Alone(w)
      /\ intact' = (intact /\ Alone(w))
      /\ UNCHANGED <<table, todo, last, dirty, Family>>
  BY DEF Enter
<1>2. pc \in [Writer -> {"idle", "delete", "insert"}] /\ intact \in BOOLEAN
  BY DEF TypeInv
<1>3. TypeInv'
  BY <1>1, <1>2 DEF TypeInv
<1>4. /\ \A v \in Writer : pc'[v] = IF v = w THEN "delete" ELSE pc[v]
      /\ \A v \in Writer : pc'[v] = "insert" <=> pc[v] = "insert"
      /\ intact' => intact
  BY <1>1, <1>2
<1>5. AloneInv'
  <2>1. SUFFICES ASSUME Family' # "alarm_out" \/ intact',
                        NEW v \in Writer, NEW u \in Writer, pc'[v] # "idle", pc'[u] # "idle"
                 PROVE  v = u
    BY DEF AloneInv
  <2>2. Alone(w)
    BY <1>1, <2>1
  <2> QED
    BY <1>4, <2>1, <2>2 DEF Alone
<1>6. TodoInv(r)'
  BY <1>1, <1>4 DEF RowsInv, TodoInv
<1>7. OnceInv(r)'
  BY <1>1 DEF RowsInv, OnceInv
<1>8. PrefixInv(r)'
  BY <1>1, <1>4 DEF RowsInv, PrefixInv
<1> QED
  BY <1>3, <1>5, <1>6, <1>7, <1>8 DEF RowsInv

\* A call that writes s has executed its DELETE.
LEMMA DeleteStep ==
  ASSUME TypeInv, AloneInv, UNCHANGED Family,
         NEW w \in Writer, NEW s \in Schedules[Family] \cup {Nothing},
         Delete(w, s) \/ DeleteFails(w, s),
         NEW r, r = Rows(s)
  PROVE  TypeInv' /\ AloneInv' /\ RowsInv(r)'
<1>1. /\ pc[w] = "delete" /\ pc' = [pc EXCEPT ![w] = "insert"]
      /\ todo' = [todo EXCEPT ![w] = r] /\ last' = s
      /\ intact' \in BOOLEAN /\ dirty' \in BOOLEAN
      /\ table' = <<>> \/ (table' = table /\ dirty')
      /\ intact' => table' = <<>> /\ Alone(w)
      /\ UNCHANGED Family
  BY DEF Delete, DeleteFails, Started, Alone
<1>2. s \in Schedule
  BY NothingIsSchedule, ScheduleConstantsOK DEF TypeInv, Schedule
<1>3. /\ r \in Seq(RowSet) /\ Len(r) \in Nat
      /\ \A i, j \in 1 .. Len(r) : r[i] = r[j] => i = j
  BY <1>2, RowsFacts
<1>4. /\ pc \in [Writer -> {"idle", "delete", "insert"}] /\ todo \in [Writer -> Seq(RowSet)]
      /\ table \in Seq(RowSet) /\ \A v \in Writer : todo[v] # <<>> => pc[v] = "insert"
      /\ Family \in DOMAIN Schedules
  BY DEF TypeInv
<1>5. /\ \A v \in Writer : pc'[v] = IF v = w THEN "insert" ELSE pc[v]
      /\ \A v \in Writer : todo'[v] = IF v = w THEN r ELSE todo[v]
  BY <1>1, <1>4
<1>6. TypeInv'
  <2>1. pc' \in [Writer -> {"idle", "delete", "insert"}] /\ todo' \in [Writer -> Seq(RowSet)]
    BY <1>1, <1>3, <1>4
  <2>2. table' \in Seq(RowSet)
    BY <1>1, <1>4
  <2>3. \A v \in Writer : todo'[v] # <<>> => pc'[v] = "insert"
    BY <1>4, <1>5
  <2>4. Family' \in DOMAIN Schedules /\ last' \in Schedules[Family]' \cup {Nothing}'
    BY <1>1, <1>4
  <2> QED
    BY <1>1, <2>1, <2>2, <2>3, <2>4 DEF TypeInv
<1>7. (Family # "alarm_out" \/ intact') => \A v \in Writer : v # w => pc[v] = "idle"
  BY <1>1 DEF AloneInv, Alone
<1>8. AloneInv'
  BY <1>1, <1>5, <1>7 DEF AloneInv
<1>9. TodoInv(r)'
  <2>1. SUFFICES ASSUME Family' # "alarm_out" \/ intact', NEW v \in Writer, pc'[v] = "insert"
                 PROVE  /\ Len(todo'[v]) <= Len(r)
                        /\ \A i \in 1 .. Len(todo'[v]) : \A k \in 1 .. Len(r) :
                             k = Len(r) - Len(todo'[v]) + i => todo'[v][i] = r[k]
    BY DEF TodoInv
  <2>2. v = w
    BY <1>1, <1>5, <1>7, <2>1
  <2>3. todo'[v] = r
    BY <1>5, <2>2
  <2> QED
    BY <1>3, <2>3
<1>10. OnceInv(r)'
  <2>1. SUFFICES ASSUME Family' # "alarm_out", ~dirty'
                 PROVE  /\ \A i \in 1 .. Len(table') : \E k \in 1 .. Len(r) : table'[i] = r[k]
                        /\ \A i, j \in 1 .. Len(table') : table'[i] = table'[j] => i = j
                        /\ \A v \in Writer : \A i \in 1 .. Len(table') : \A j \in 1 .. Len(todo'[v]) :
                             table'[i] # todo'[v][j]
    BY DEF OnceInv
  <2>2. table' = <<>>
    BY <1>1, <2>1
  <2>3. 1 .. Len(table') = {}
    BY <2>2
  <2> QED
    BY <2>3
<1>11. PrefixInv(r)'
  <2>1. SUFFICES ASSUME intact'
                 PROVE  /\ \A v \in Writer : pc'[v] = "insert" =>
                             /\ Len(table') = Len(r) - Len(todo'[v])
                             /\ \A i \in 1 .. Len(table') : table'[i] = r[i]
                        /\ (\A v \in Writer : pc'[v] # "insert") => table' = r
    BY DEF PrefixInv
  <2>2. Len(table') = 0 /\ 1 .. Len(table') = {}
    BY <1>1, <2>1
  <2>3. ASSUME NEW v \in Writer, pc'[v] = "insert" PROVE Len(table') = Len(r) - Len(todo'[v])
    <3>1. v = w
      BY <1>1, <1>5, <1>7, <2>1, <2>3
    <3>2. todo'[v] = r
      BY <1>5, <3>1
    <3> QED
      BY <1>3, <2>2, <3>2
  <2>4. pc'[w] = "insert"
    BY <1>5
  <2> QED
    BY <2>2, <2>3, <2>4
<1> QED
  BY <1>6, <1>8, <1>9, <1>10, <1>11 DEF RowsInv
\* The head and the tail of what is left to insert.
LEMMA TailIs ==
  ASSUME NEW q \in Seq(RowSet), q # <<>>
  PROVE  /\ Len(q) \in Nat /\ Len(q) > 0 /\ Head(q) = q[1] /\ Head(q) \in RowSet
         /\ Tail(q) \in Seq(RowSet) /\ Len(Tail(q)) = Len(q) - 1
         /\ \A i \in 1 .. Len(Tail(q)) : \A k \in 1 .. Len(q) : k = i + 1 => Tail(q)[i] = q[k]
         /\ \A i \in 1 .. Len(Tail(q)) : \E k \in 1 .. Len(q) : k # 1 /\ Tail(q)[i] = q[k]
<1>1. /\ Len(q) \in Nat /\ Len(q) > 0 /\ Head(q) = q[1] /\ Head(q) \in RowSet
      /\ Tail(q) \in Seq(RowSet) /\ Len(Tail(q)) = Len(q) - 1
  OBVIOUS
<1>2. \A i \in 1 .. Len(q) - 1 : Tail(q)[i] = q[i + 1]
  OBVIOUS
<1>3. \A i \in 1 .. Len(q) - 1 : i + 1 \in 1 .. Len(q) /\ i + 1 # 1
  BY <1>1
<1> QED
  BY <1>1, <1>2, <1>3

\* A row is left out of what is left to insert, when it is inserted and when
\* its INSERT fails.
LEMMA TodoStep ==
  ASSUME NEW r \in Seq(RowSet), TypeInv, AloneInv, RowsInv(r), UNCHANGED <<Family, pc>>,
         NEW w \in Writer, pc[w] = "insert", todo[w] # <<>>,
         todo' = [todo EXCEPT ![w] = Tail(@)],
         (Family # "alarm_out" \/ intact') => (Family # "alarm_out" \/ intact)
  PROVE  TodoInv(r)'
<1> DEFINE q == todo[w]
<1>1. q \in Seq(RowSet) /\ q # <<>> /\ Len(r) \in Nat /\ todo \in [Writer -> Seq(RowSet)]
  BY DEF TypeInv
<1>2. todo'[w] = Tail(q)
  BY <1>1
<1>3. /\ Len(q) \in Nat /\ Len(q) > 0 /\ Len(Tail(q)) = Len(q) - 1
      /\ \A i \in 1 .. Len(Tail(q)) : \A k \in 1 .. Len(q) : k = i + 1 => Tail(q)[i] = q[k]
  BY <1>1, TailIs
<1>4. SUFFICES ASSUME Family' # "alarm_out" \/ intact', NEW v \in Writer, pc'[v] = "insert"
               PROVE  /\ Len(todo'[v]) <= Len(r)
                      /\ \A i \in 1 .. Len(todo'[v]) : \A k \in 1 .. Len(r) :
                           k = Len(r) - Len(todo'[v]) + i => todo'[v][i] = r[k]
  BY DEF TodoInv
<1>5. v = w
  <2>1. pc[v] = "insert" /\ (Family # "alarm_out" \/ intact)
    BY <1>4
  <2> QED
    BY <2>1 DEF AloneInv
<1>6. /\ Len(q) <= Len(r)
      /\ \A i \in 1 .. Len(q) : \A k \in 1 .. Len(r) : k = Len(r) - Len(q) + i => q[i] = r[k]
  <2>1. Family # "alarm_out" \/ intact
    BY <1>4
  <2> QED
    BY <2>1 DEF RowsInv, TodoInv
<1> HIDE DEF q
<1>7. ASSUME NEW i \in 1 .. Len(Tail(q)), NEW k \in 1 .. Len(r), k = Len(r) - Len(Tail(q)) + i
      PROVE  Tail(q)[i] = r[k]
  <2>1. PICK j \in 1 .. Len(q) : j = i + 1
    BY <1>3
  <2>2. k = Len(r) - Len(q) + j
    BY <1>1, <1>3, <1>7, <2>1
  <2> QED
    BY <1>3, <1>6, <2>1, <2>2
<1>8. Len(Tail(q)) <= Len(r)
  BY <1>1, <1>3, <1>6
<1>9. todo'[v] = Tail(q)
  BY <1>2, <1>5
<1> QED
  BY ONLY <1>7, <1>8, <1>9

\* A row is inserted.
LEMMA InsertStep ==
  ASSUME NEW r \in Seq(RowSet), \A i, j \in 1 .. Len(r) : r[i] = r[j] => i = j,
         TypeInv, AloneInv, RowsInv(r), UNCHANGED Family,
         NEW w \in Writer, Insert(w)
  PROVE  TypeInv' /\ AloneInv' /\ RowsInv(r)'
<1> DEFINE q == todo[w]
           x == Head(q)
           n == Len(table)
<1>1. /\ pc[w] = "insert" /\ q # <<>> /\ table' = Append(table, x)
      /\ todo' = [todo EXCEPT ![w] = Tail(@)]
      /\ UNCHANGED <<pc, last, intact, dirty, Family>>
  BY DEF Insert
<1>2. /\ table \in Seq(RowSet) /\ todo \in [Writer -> Seq(RowSet)] /\ q \in Seq(RowSet)
      /\ Len(r) \in Nat
      /\ \A v \in Writer : todo[v] # <<>> => pc[v] = "insert"
  BY DEF TypeInv
<1>3. \A v \in Writer : todo'[v] = IF v = w THEN Tail(q) ELSE todo[v]
  BY <1>1, <1>2
<1>4. /\ Len(q) \in Nat /\ Len(q) > 0 /\ x = q[1] /\ x \in RowSet
      /\ Tail(q) \in Seq(RowSet) /\ Len(Tail(q)) = Len(q) - 1
      /\ \A i \in 1 .. Len(Tail(q)) : \E k \in 1 .. Len(q) : k # 1 /\ Tail(q)[i] = q[k]
  BY <1>1, <1>2, TailIs
<1>5. TypeInv'
  <2> HIDE DEF x, q
  <2>1. table' \in Seq(RowSet)
    BY <1>1, <1>2, <1>4
  <2>2. todo' \in [Writer -> Seq(RowSet)]
    BY <1>1, <1>2, <1>4 DEF q
  <2>3. \A v \in Writer : todo'[v] # <<>> => pc'[v] = "insert"
    BY <1>1, <1>2, <1>3
  <2> QED
    BY <1>1, <2>1, <2>2, <2>3 DEF TypeInv
<1>6. AloneInv'
  BY <1>1 DEF AloneInv
<1>7. TodoInv(r)'
  BY <1>1, TodoStep
<1>8. /\ n \in Nat /\ Len(table') = n + 1
      /\ \A i \in 1 .. n + 1 : table'[i] = IF i = n + 1 THEN x ELSE table[i]
  <2> HIDE DEF x
  <2> QED
    BY <1>1, <1>2, <1>4, AppendProperties
<1>9. \A i \in 1 .. n + 1 : i # n + 1 => i \in 1 .. n
  BY <1>8
<1>10. (Family # "alarm_out" \/ intact) =>
         /\ \A v \in Writer : v # w => todo[v] = <<>> /\ pc[v] = "idle"
         /\ Len(q) <= Len(r)
         /\ \A i \in 1 .. Len(q) : \A k \in 1 .. Len(r) : k = Len(r) - Len(q) + i => q[i] = r[k]
  <2>1. SUFFICES ASSUME Family # "alarm_out" \/ intact
                 PROVE  /\ \A v \in Writer : v # w => todo[v] = <<>> /\ pc[v] = "idle"
                        /\ Len(q) <= Len(r)
                        /\ \A i \in 1 .. Len(q) : \A k \in 1 .. Len(r) :
                             k = Len(r) - Len(q) + i => q[i] = r[k]
    OBVIOUS
  <2>2. \A v \in Writer : v # w => pc[v] = "idle"
    BY <1>1, <2>1 DEF AloneInv
  <2>3. \A v \in Writer : v # w => todo[v] = <<>>
    BY <1>2, <2>2
  <2> QED
    BY <1>1, <2>1, <2>2, <2>3 DEF RowsInv, TodoInv
<1> HIDE DEF x, n
<1>11. OnceInv(r)'
  <2>1. SUFFICES ASSUME Family' # "alarm_out", ~dirty'
                 PROVE  /\ \A i \in 1 .. Len(table') : \E k \in 1 .. Len(r) : table'[i] = r[k]
                        /\ \A i, j \in 1 .. Len(table') : table'[i] = table'[j] => i = j
                        /\ \A v \in Writer : \A i \in 1 .. Len(table') : \A j \in 1 .. Len(todo'[v]) :
                             table'[i] # todo'[v][j]
    BY DEF OnceInv
  <2>2. /\ \A i \in 1 .. n : \E k \in 1 .. Len(r) : table[i] = r[k]
        /\ \A i, j \in 1 .. n : table[i] = table[j] => i = j
        /\ \A i \in 1 .. n : \A j \in 1 .. Len(q) : table[i] # q[j]
    BY <1>1, <2>1 DEF RowsInv, OnceInv, n
  <2>3. Family # "alarm_out"
    BY <1>1, <2>1
  <2>4. \A j \in 1 .. Len(q) : \E k \in 1 .. Len(r) : k = Len(r) - Len(q) + j /\ q[j] = r[k]
    <3>1. /\ Len(q) <= Len(r)
          /\ \A j \in 1 .. Len(q) : \A k \in 1 .. Len(r) : k = Len(r) - Len(q) + j => q[j] = r[k]
      BY <1>10, <2>3
    <3>2. \A j \in 1 .. Len(q) : Len(r) - Len(q) + j \in 1 .. Len(r)
      BY <1>2, <1>4, <3>1
    <3> HIDE DEF q
    <3> QED
      BY <3>1, <3>2
  <2>5. 1 \in 1 .. Len(q)
    BY <1>4
  <2>6. \A j \in 1 .. Len(q) : j # 1 => q[j] # x
    <3>1. SUFFICES ASSUME NEW j \in 1 .. Len(q), j # 1, q[j] = q[1] PROVE FALSE
      BY <1>4
    <3>2. PICK k \in 1 .. Len(r) : k = Len(r) - Len(q) + j /\ q[j] = r[k]
      BY <2>4
    <3>3. PICK m \in 1 .. Len(r) : m = Len(r) - Len(q) + 1 /\ q[1] = r[m]
      BY <2>4, <2>5
    <3>4. k = m
      BY <3>1, <3>2, <3>3
    <3> QED
      BY <1>2, <1>4, <3>1, <3>2, <3>3, <3>4
  <2>7. \A i \in 1 .. n : table[i] # x
    BY <1>4, <2>2, <2>5
  <2>8. \E k \in 1 .. Len(r) : x = r[k]
    BY <1>4, <2>4, <2>5
  <2>9. \A i \in 1 .. n + 1 : \E k \in 1 .. Len(r) : table'[i] = r[k]
    BY <1>8, <1>9, <2>2, <2>8
  <2>10. \A i, j \in 1 .. n + 1 : table'[i] = table'[j] => i = j
    BY <1>8, <1>9, <2>2, <2>7
  <2>11. ASSUME NEW v \in Writer, NEW i \in 1 .. n + 1, NEW j \in 1 .. Len(todo'[v])
         PROVE  table'[i] # todo'[v][j]
    <3>1. CASE v # w
      <4>1. todo'[v] = <<>>
        BY <1>3, <1>10, <2>3, <3>1
      <4> QED
        BY <4>1
    <3>2. CASE v = w
      <4>1. todo'[v] = Tail(q)
        BY <1>3, <3>2
      <4>2. PICK k \in 1 .. Len(q) : k # 1 /\ Tail(q)[j] = q[k]
        BY <1>4, <4>1
      <4>3. table'[i] # q[k]
        <5>1. CASE i = n + 1
          <6>1. table'[i] = x
            BY <1>8, <5>1
          <6> QED
            BY <2>6, <4>2, <6>1
        <5>2. CASE i # n + 1
          <6>1. i \in 1 .. n /\ table'[i] = table[i]
            BY <1>8, <1>9, <5>2
          <6> QED
            BY <2>2, <6>1
        <5> QED
          BY <5>1, <5>2
      <4> QED
        BY <4>1, <4>2, <4>3
    <3> QED
      BY <3>1, <3>2
  <2> QED
    BY <1>8, <2>9, <2>10, <2>11
<1>12. PrefixInv(r)'
  <2>1. SUFFICES ASSUME intact'
                 PROVE  /\ \A v \in Writer : pc'[v] = "insert" =>
                             /\ Len(table') = Len(r) - Len(todo'[v])
                             /\ \A i \in 1 .. Len(table') : table'[i] = r[i]
                        /\ (\A v \in Writer : pc'[v] # "insert") => table' = r
    BY DEF PrefixInv
  <2>2. intact
    BY <1>1, <2>1
  <2>3. n = Len(r) - Len(q) /\ \A i \in 1 .. n : table[i] = r[i]
    BY <1>1, <2>2 DEF RowsInv, PrefixInv, n
  <2>4. /\ Len(q) <= Len(r)
        /\ \A i \in 1 .. Len(q) : \A k \in 1 .. Len(r) : k = Len(r) - Len(q) + i => q[i] = r[k]
    BY <1>10, <2>2
  <2> HIDE DEF q
  <2>5. PICK k \in 1 .. Len(r) : k = n + 1
    <3>1. n + 1 \in 1 .. Len(r)
      BY <1>2, <1>4, <1>8, <2>3, <2>4
    <3> QED
      BY <3>1
  <2>6. x = r[k]
    <3>1. k = Len(r) - Len(q) + 1 /\ 1 \in 1 .. Len(q)
      BY <1>2, <1>4, <2>3, <2>5
    <3> QED
      BY <1>4, <2>4, <3>1
  <2>7. \A i \in 1 .. n + 1 : table'[i] = r[i]
    BY <1>8, <1>9, <2>3, <2>5, <2>6
  <2>8. n + 1 = Len(r) - Len(Tail(q))
    BY <1>2, <1>4, <2>3
  <2>9. \A v \in Writer : pc'[v] = "insert" => v = w
    BY <1>1, <1>10, <2>2
  <2> QED
    BY <1>1, <1>3, <1>8, <2>7, <2>8, <2>9
<1> QED
  BY <1>5, <1>6, <1>7, <1>11, <1>12 DEF RowsInv

\* An INSERT fails.
LEMMA InsertFailsStep ==
  ASSUME NEW r \in Seq(RowSet), TypeInv, AloneInv, RowsInv(r), UNCHANGED Family,
         NEW w \in Writer, InsertFails(w)
  PROVE  TypeInv' /\ AloneInv' /\ RowsInv(r)'
<1> DEFINE q == todo[w]
<1>1. /\ pc[w] = "insert" /\ q # <<>>
      /\ todo' = [todo EXCEPT ![w] = Tail(@)] /\ intact' = FALSE
      /\ UNCHANGED <<table, pc, last, dirty, Family>>
  BY DEF InsertFails
<1>2. /\ todo \in [Writer -> Seq(RowSet)] /\ q \in Seq(RowSet)
      /\ \A v \in Writer : todo[v] # <<>> => pc[v] = "insert"
  BY DEF TypeInv
<1>3. \A v \in Writer : todo'[v] = IF v = w THEN Tail(q) ELSE todo[v]
  BY <1>1, <1>2
<1>4. /\ Tail(q) \in Seq(RowSet)
      /\ \A i \in 1 .. Len(Tail(q)) : \E k \in 1 .. Len(q) : k # 1 /\ Tail(q)[i] = q[k]
  BY <1>1, <1>2, TailIs
<1>5. TypeInv'
  <2>1. todo' \in [Writer -> Seq(RowSet)]
    BY <1>1, <1>2, <1>4
  <2>2. \A v \in Writer : todo'[v] # <<>> => pc'[v] = "insert"
    BY <1>1, <1>2, <1>3
  <2> QED
    BY <1>1, <2>1, <2>2 DEF TypeInv
<1>6. AloneInv'
  BY <1>1 DEF AloneInv
<1>7. TodoInv(r)'
  BY <1>1, TodoStep
<1>8. OnceInv(r)'
  <2>1. SUFFICES ASSUME Family' # "alarm_out", ~dirty',
                        NEW v \in Writer, NEW i \in 1 .. Len(table), NEW j \in 1 .. Len(todo'[v])
                 PROVE  table[i] # todo'[v][j]
    BY <1>1 DEF OnceInv, RowsInv
  <2>2. \A k \in 1 .. Len(todo[v]) : table[i] # todo[v][k]
    BY <1>1, <2>1 DEF OnceInv, RowsInv
  <2>3. CASE v = w
    <3>1. todo'[v] = Tail(q)
      BY <1>3, <2>3
    <3>2. PICK k \in 1 .. Len(q) : Tail(q)[j] = q[k]
      BY <1>4, <3>1
    <3>3. table[i] # q[k]
      BY <2>2, <2>3
    <3> QED
      BY <3>1, <3>2, <3>3
  <2>4. CASE v # w
    BY <1>3, <2>2, <2>4
  <2> QED
    BY <2>3, <2>4
<1>9. PrefixInv(r)'
  BY <1>1 DEF PrefixInv
<1> QED
  BY <1>5, <1>6, <1>7, <1>8, <1>9 DEF RowsInv

\* A call returns.
LEMMA ReturnStep ==
  ASSUME NEW r \in Seq(RowSet), TypeInv, AloneInv, RowsInv(r), UNCHANGED Family,
         NEW w \in Writer, Return(w)
  PROVE  TypeInv' /\ AloneInv' /\ RowsInv(r)'
<1>1. /\ pc[w] = "insert" /\ todo[w] = <<>> /\ pc' = [pc EXCEPT ![w] = "idle"]
      /\ UNCHANGED <<table, todo, last, intact, dirty, Family>>
  BY DEF Return
<1>2. pc \in [Writer -> {"idle", "delete", "insert"}] /\ table \in Seq(RowSet)
  BY DEF TypeInv
<1>3. \A v \in Writer : pc'[v] = IF v = w THEN "idle" ELSE pc[v]
  BY <1>1, <1>2
<1>4. TypeInv'
  <2>1. pc' \in [Writer -> {"idle", "delete", "insert"}]
    BY <1>1, <1>2
  <2>2. \A v \in Writer : todo'[v] # <<>> => pc'[v] = "insert"
    BY <1>1, <1>3 DEF TypeInv
  <2> QED
    BY <1>1, <2>1, <2>2 DEF TypeInv
<1>5. AloneInv'
  BY <1>1, <1>3 DEF AloneInv
<1>6. TodoInv(r)'
  BY <1>1, <1>3 DEF RowsInv, TodoInv
<1>7. OnceInv(r)'
  BY <1>1 DEF RowsInv, OnceInv
<1>8. PrefixInv(r)'
  <2>1. SUFFICES ASSUME intact
                 PROVE  /\ \A v \in Writer : pc'[v] = "insert" =>
                             /\ Len(table) = Len(r) - Len(todo[v])
                             /\ \A i \in 1 .. Len(table) : table[i] = r[i]
                        /\ table = r
    BY <1>1 DEF PrefixInv
  <2>2. \A v \in Writer : pc'[v] # "insert"
    <3>1. \A v \in Writer : pc[v] # "idle" => v = w
      BY <1>1, <2>1 DEF AloneInv
    <3> QED
      BY <1>3, <3>1
  <2>3. Len(table) = Len(r) - Len(todo[w]) /\ \A i \in 1 .. Len(table) : table[i] = r[i]
    BY <1>1, <2>1 DEF RowsInv, PrefixInv
  <2>4. Len(todo[w]) = 0 /\ Len(r) \in Nat
    BY <1>1
  <2>5. Len(table) = Len(r)
    BY <2>3, <2>4
  <2>6. table = r
    BY <1>2, <2>3, <2>5, SeqEqual
  <2> QED
    BY <2>2, <2>6
<1> QED
  BY <1>4, <1>5, <1>6, <1>7, <1>8 DEF RowsInv

\* The process dies.
LEMMA CrashStep ==
  ASSUME NEW r, TypeInv, AloneInv, RowsInv(r), UNCHANGED Family, Crash
  PROVE  TypeInv' /\ AloneInv' /\ RowsInv(r)'
<1>1. /\ pc' = [w \in Writer |-> "idle"] /\ todo' = [w \in Writer |-> <<>>]
      /\ intact' = (intact /\ \A w \in Writer : pc[w] # "insert")
      /\ UNCHANGED <<table, last, dirty, Family>>
  BY DEF Crash
<1>2. \A w \in Writer : pc'[w] = "idle" /\ todo'[w] = <<>> /\ 1 .. Len(todo'[w]) = {}
  BY <1>1
<1>3. intact' \in BOOLEAN /\ intact \in BOOLEAN
  BY <1>1 DEF TypeInv
<1>4. TypeInv'
  <2>1. pc' \in [Writer -> {"idle", "delete", "insert"}] /\ todo' \in [Writer -> Seq(RowSet)]
    BY <1>1
  <2> QED
    BY <1>1, <1>2, <1>3, <2>1 DEF TypeInv
<1>5. AloneInv'
  BY <1>2 DEF AloneInv
<1>6. TodoInv(r)'
  BY <1>2 DEF TodoInv
<1>7. OnceInv(r)'
  BY <1>1, <1>2 DEF RowsInv, OnceInv
<1>8. PrefixInv(r)'
  BY <1>1, <1>2 DEF RowsInv, PrefixInv
<1> QED
  BY <1>4, <1>5, <1>6, <1>7, <1>8 DEF RowsInv
LEMMA ScheduleStart ==
  Init => ScheduleInv
<1> SUFFICES ASSUME Init PROVE ScheduleInv
  OBVIOUS
<1>1. /\ Family \in DOMAIN Schedules /\ table = <<>> /\ last = Nothing
      /\ pc = [w \in Writer |-> "idle"] /\ todo = [w \in Writer |-> <<>>]
      /\ intact = FALSE /\ dirty = FALSE
  BY DEF Init
<1>2. TypeInv
  <2>1. pc \in [Writer -> {"idle", "delete", "insert"}] /\ todo \in [Writer -> Seq(RowSet)]
    BY <1>1
  <2>2. table \in Seq(RowSet) /\ \A w \in Writer : todo[w] = <<>>
    BY <1>1
  <2> QED
    BY <1>1, <2>1, <2>2 DEF TypeInv
<1>3. AloneInv
  BY <1>1 DEF AloneInv
<1>4. PICK r : r = Rows(last)
  OBVIOUS
<1>5. RowsInv(r)
  <2>1. 1 .. Len(table) = {}
    BY <1>1
  <2> QED
    BY <1>1, <2>1 DEF RowsInv, TodoInv, OnceInv, PrefixInv
<1> QED
  BY <1>2, <1>3, <1>4, <1>5 DEF ScheduleInv

LEMMA ScheduleStep ==
  ScheduleInv /\ [Next]_vars => ScheduleInv'
<1> SUFFICES ASSUME ScheduleInv, [Next]_vars PROVE ScheduleInv'
  OBVIOUS
<1>1. TypeInv /\ AloneInv
  BY DEF ScheduleInv
<1>2. PICK r : r = Rows(last) /\ RowsInv(r)
  BY DEF ScheduleInv
<1>3. last \in Schedule
  BY <1>1, Written
<1>4. r \in Seq(RowSet) /\ \A i, j \in 1 .. Len(r) : r[i] = r[j] => i = j
  BY <1>2, <1>3, RowsFacts
<1>5. SUFFICES ASSUME UNCHANGED Family PROVE ScheduleInv'
  BY DEF Next, vars
<1>6. \A s : Rows(s)' = Rows(s)
  BY <1>5, RowsStay
<1>7. ASSUME TypeInv' /\ AloneInv' /\ RowsInv(r)', UNCHANGED last PROVE ScheduleInv'
  <2>1. PICK s : s = last
    OBVIOUS
  <2>2. Rows(last)' = Rows(s)'
    BY <1>7, <2>1 DEF Rows, RecordRows, MotionRows, Kept, LeftOut, Walked
  <2>3. r = Rows(last)'
    <3>1. Rows(last) = Rows(s)
      BY <2>1
    <3> QED
      BY <1>2, <1>6, <2>2, <3>1
  <2> QED
    BY <1>7, <2>3 DEF ScheduleInv
<1>8. ASSUME NEW w \in Writer, Enter(w) PROVE ScheduleInv'
  <2>1. UNCHANGED last
    BY <1>8 DEF Enter
  <2> QED
    BY <1>1, <1>2, <1>5, <1>7, <1>8, <2>1, EnterStep
<1>9. ASSUME NEW w \in Writer, NEW s \in Schedules[Family] \cup {Nothing},
             Delete(w, s) \/ DeleteFails(w, s)
      PROVE  ScheduleInv'
  <2>1. PICK q : q = Rows(s)
    OBVIOUS
  <2>2. TypeInv' /\ AloneInv' /\ RowsInv(q)'
    BY <1>1, <1>5, <1>9, <2>1, DeleteStep
  <2>3. last' = s
    BY <1>9 DEF Delete, DeleteFails, Started
  <2>4. Rows(last)' = Rows(s)'
    BY <2>3 DEF Rows, RecordRows, MotionRows, Kept, LeftOut, Walked
  <2>5. q = Rows(last)'
    BY <1>6, <2>1, <2>4
  <2> QED
    BY <2>2, <2>5 DEF ScheduleInv
<1>10. ASSUME NEW w \in Writer, Insert(w) PROVE ScheduleInv'
  <2>1. UNCHANGED last
    BY <1>10 DEF Insert
  <2> QED
    BY <1>1, <1>2, <1>4, <1>5, <1>7, <1>10, <2>1, InsertStep
<1>11. ASSUME NEW w \in Writer, InsertFails(w) PROVE ScheduleInv'
  <2>1. UNCHANGED last
    BY <1>11 DEF InsertFails
  <2> QED
    BY <1>1, <1>2, <1>4, <1>5, <1>7, <1>11, <2>1, InsertFailsStep
<1>12. ASSUME NEW w \in Writer, Return(w) PROVE ScheduleInv'
  <2>1. UNCHANGED last
    BY <1>12 DEF Return
  <2> QED
    BY <1>1, <1>2, <1>4, <1>5, <1>7, <1>12, <2>1, ReturnStep
<1>13. ASSUME Crash PROVE ScheduleInv'
  <2>1. UNCHANGED last
    BY <1>13 DEF Crash
  <2> QED
    BY <1>1, <1>2, <1>5, <1>7, <1>13, <2>1, CrashStep
<1>14. ASSUME UNCHANGED vars PROVE ScheduleInv'
  <2>1. UNCHANGED <<Family, table, pc, todo, last, intact, dirty>>
    BY <1>14 DEF vars
  <2>2. TypeInv' /\ AloneInv'
    BY <1>1, <2>1 DEF TypeInv, AloneInv
  <2>3. RowsInv(r)'
    BY <1>2, <2>1 DEF RowsInv, TodoInv, OnceInv, PrefixInv
  <2> QED
    BY <1>7, <2>1, <2>2, <2>3
<1> QED
  BY <1>8, <1>9, <1>10, <1>11, <1>12, <1>13, <1>14 DEF Next, WriteSchedule, ResetSchedule

LEMMA ScheduleAlways ==
  Spec => []ScheduleInv
BY ScheduleStart, ScheduleStep, PTL DEF Spec

\* The range of a sequence whose elements differ has as many members.
LEMMA RangeCardinality ==
  ASSUME NEW T, NEW q \in Seq(T), \A i, j \in 1 .. Len(q) : q[i] = q[j] => i = j
  PROVE  Len(q) = Cardinality(ToSet(q))
<1> DEFINE n == Len(q)
           X == ToSet(q)
<1>1. n \in Nat /\ DOMAIN q = 1 .. n /\ q \in [1 .. n -> T]
  OBVIOUS
<1>2. X = {q[i] : i \in 1 .. n}
  BY <1>1 DEF ToSet
<1> HIDE DEF X
<1>3. q \in [1 .. n -> X] /\ \A x \in X : \E i \in 1 .. n : q[i] = x
  BY <1>1, <1>2
<1>4. q \in Bijection(1 .. n, X)
  BY <1>3 DEF Bijection, Injection, Surjection, IsInjective
<1>5. IsFiniteSet(1 .. n) /\ Cardinality(1 .. n) = n
  <2>1. \A m \in Nat : IsFiniteSet(1 .. m) /\ Cardinality(1 .. m) = IF 1 > m THEN 0 ELSE m - 1 + 1
    BY FS_Interval
  <2>2. \A m \in Nat : m = IF 1 > m THEN 0 ELSE m - 1 + 1
    OBVIOUS
  <2> HIDE DEF n
  <2> QED
    BY <1>1, <2>1, <2>2
<1>6. Cardinality(1 .. n) = Cardinality(X)
  <2>1. ExistsBijection(1 .. n, X)
    BY <1>4 DEF ExistsBijection
  <2> QED
    BY <1>5, <2>1, FS_Bijection
<1> QED
  BY <1>5, <1>6 DEF X

-----------------------------------------------------------------------------
(* The theorems *)

\* The variables stay in their sets, whatever calls overlap, fail or crash.
THEOREM ScheduleTypes ==
  Spec => []TypeOK
<1>1. ScheduleInv => TypeOK
  <2> SUFFICES ASSUME ScheduleInv PROVE TypeOK
    OBVIOUS
  <2>1. TypeInv
    BY DEF ScheduleInv
  <2>2. ASSUME NEW i \in DOMAIN table PROVE table[i].day \in Day /\ table[i].plan \in Slot
    <3>1. table[i] \in RowSet
      BY <2>1 DEF TypeInv
    <3> QED
      BY <3>1 DEF RowSet
  <2> QED
    BY <2>1, <2>2 DEF TypeInv, TypeOK
<1> QED
  BY <1>1, ScheduleAlways, PTL

\* Under the write lock the table never mixes the rows of two schedules, and
\* holds none twice, after every crash and every failed INSERT.
THEOREM OneSchedule ==
  Spec => []RowsOfOneCall
<1>1. ScheduleInv => RowsOfOneCall
  <2> SUFFICES ASSUME ScheduleInv, Family # "alarm_out", ~dirty
               PROVE  /\ ToSet(table) \subseteq ToSet(Rows(last))
                      /\ Len(table) = Cardinality(ToSet(table))
    BY DEF RowsOfOneCall
  <2>1. TypeInv
    BY DEF ScheduleInv
  <2>2. PICK r : r = Rows(last) /\ RowsInv(r)
    BY DEF ScheduleInv
  <2>3. /\ \A i \in 1 .. Len(table) : \E k \in 1 .. Len(r) : table[i] = r[k]
        /\ \A i, j \in 1 .. Len(table) : table[i] = table[j] => i = j
    BY <2>2 DEF RowsInv, OnceInv
  <2>4. table \in Seq(RowSet) /\ r \in Seq(RowSet)
    BY <2>1, <2>2, Written, RowsFacts DEF TypeInv
  <2>5. DOMAIN table = 1 .. Len(table) /\ DOMAIN r = 1 .. Len(r)
    BY <2>4
  <2>6. ToSet(table) \subseteq ToSet(r)
    BY <2>3, <2>5 DEF ToSet
  <2>7. Len(table) = Cardinality(ToSet(table))
    BY <2>3, <2>4, RangeCardinality
  <2> QED
    BY <2>2, <2>6, <2>7
<1> QED
  BY <1>1, ScheduleAlways, PTL

\* Between the calls, when the last one ran alone and without a failure, the
\* table is what it wrote.
LEMMA TableIs ==
  ASSUME ScheduleInv, Quiet, intact
  PROVE  last \in Schedule /\ table = Rows(last)
<1>1. PICK r : r = Rows(last) /\ RowsInv(r)
  BY DEF ScheduleInv
<1>2. table = r
  BY <1>1 DEF RowsInv, PrefixInv, Quiet
<1> QED
  BY <1>1, <1>2, Written DEF ScheduleInv

\* A schedule that was written by a call that ran alone and without a failure
\* is the one a reader gets, for every size of the tables: for record up to the
\* first item of the days of HidesFirst, for the others up to the items beyond
\* the first window (msdb.c:504-533, 1690-1739).
THEOREM ReadsBack ==
  Spec => []ReadsWhatWasWritten
<1>1. ScheduleInv => ReadsWhatWasWritten
  <2> SUFFICES ASSUME ScheduleInv, Quiet, intact, NEW d \in Day, NEW p \in Slot
               PROVE  \/ Read(table)[d].items[p] = Meant(last, d)[p]
                      \/ /\ (p = 0 /\ HidesFirst(last, d)) \/ BeyondFirstWindow(p)
                         /\ Read(table)[d].items[p] = "void"
    BY DEF ReadsWhatWasWritten
  <2>1. PICK s \in Schedule : s = last /\ table = Rows(s)
    BY TableIs
  <2> QED
    BY <2>1, RecordItems, MotionItems
<1> QED
  BY <1>1, ScheduleAlways, PTL

\* So are the whole-day flags of a record schedule, except those of the days of
\* LosesWhole (msdb.c:1711-1735).
THEOREM ReadsWholeDays ==
  Spec => []WholeDayKept
<1>1. ScheduleInv => WholeDayKept
  <2> SUFFICES ASSUME ScheduleInv, Quiet, intact, Family = "record", NEW d \in Day
               PROVE  Read(table)[d].whole = (last[d].whole /\ ~LosesWhole(last, d))
    BY DEF WholeDayKept
  <2>1. PICK s \in Schedule : s = last /\ table = Rows(s)
    BY TableIs
  <2> QED
    BY <2>1, RecordWhole
<1> QED
  BY <1>1, ScheduleAlways, PTL
=============================================================================
