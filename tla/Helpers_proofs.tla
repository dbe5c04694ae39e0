--------------------------- MODULE Helpers_proofs ---------------------------
(***************************************************************************)
(* The linked lists of msstd: ms_list of thread_ex.c, with its iterator,   *)
(* for any number of nodes, the records of memory.c for any number of      *)
(* threads and addresses, and the streams of ms_vpopen.                    *)
(***************************************************************************)
EXTENDS MsList, LeakTracker, Vpopen, FiniteSetTheorems, SequenceTheorems, WellFoundedInduction, TLAPS

-----------------------------------------------------------------------------
(* Induction over numbers, as the search for a least counterexample *)

\* A nonempty set of naturals has a least element.
LEMMA LeastElement ==
  ASSUME NEW S, S \subseteq Nat, S # {}
  PROVE  \E x \in S : \A y \in S : x <= y
<1> DEFINE R == {ss \in Nat \X Nat : ss[1] < ss[2]}
<1>1. IsWellFoundedOn(R, Nat)
  BY NatLessThanWellFounded DEF OpToRel
<1>2. \E x \in S : \A y \in S : <<y, x>> \notin R
  <2> HIDE DEF R
  <2> QED
    BY <1>1, WFMin
<1>3. PICK x \in S : \A y \in S : <<y, x>> \notin R
  BY <1>2
<1>4. \A y \in S : y \in Nat /\ x \in Nat /\ (y < x => <<y, x>> \in R)
  OBVIOUS
<1> HIDE DEF R
<1>5. ASSUME NEW y \in S PROVE x <= y
  <2>1. ~(y < x) /\ x \in Nat /\ y \in Nat
    BY <1>3, <1>4
  <2> QED
    BY <2>1
<1> QED
  BY <1>5

\* Induction over an interval, for the members of a set.
LEMMA IntervalInduction ==
  ASSUME NEW a \in Nat, NEW b \in Nat, NEW S,
         \A n \in a .. b : (n > a => n - 1 \in S) => n \in S
  PROVE  a .. b \subseteq S
<1>1. SUFFICES ASSUME (a .. b) \ S # {} PROVE FALSE
  OBVIOUS
<1>2. (a .. b) \ S \subseteq Nat
  OBVIOUS
<1>3. PICK m \in (a .. b) \ S : \A n \in (a .. b) \ S : m <= n
  BY <1>1, <1>2, LeastElement
<1>4. m > a => m - 1 \in a .. b /\ ~(m <= m - 1)
  OBVIOUS
<1>5. m > a => m - 1 \in S
  BY <1>3, <1>4
<1> QED
  BY <1>3, <1>5

-----------------------------------------------------------------------------
(* Sequences with an element more or less *)

LEMMA InsertShifts ==
  ASSUME NEW T, NEW s \in Seq(T), NEW n \in 1 .. Len(s) + 1, NEW e \in T
  PROVE  /\ InsertAt(s, n, e) \in Seq(T) /\ Len(InsertAt(s, n, e)) = Len(s) + 1
         /\ \A i \in 1 .. Len(s) + 1 :
              InsertAt(s, n, e)[i] = IF i < n THEN s[i] ELSE IF i = n THEN e ELSE s[i - 1]
<1> DEFINE u == SubSeq(s, 1, n - 1)
           v == SubSeq(s, n, Len(s))
           w == u \o <<e>>
<1>0. Len(s) \in Nat /\ n - 1 \in Nat
  OBVIOUS
<1>1. u \in Seq(T) /\ Len(u) = n - 1 /\ \A i \in 1 .. n - 1 : u[i] = s[i]
  <2>1. \A i \in 1 .. n - 1 : s[i] \in T
    BY <1>0
  <2> QED
    BY <1>0, <2>1, SubSeqProperties
<1>2. /\ v \in Seq(T) /\ Len(v) = Len(s) - n + 1
      /\ \A i \in 1 .. Len(s) - n + 1 : v[i] = s[n + i - 1]
  <2>1. \A i \in n .. Len(s) : s[i] \in T
    BY <1>0
  <2> QED
    BY <1>0, <2>1, SubSeqProperties
<1> HIDE DEF u, v
<1>3. w \in Seq(T) /\ Len(w) = n /\ \A i \in 1 .. n : w[i] = IF i = n THEN e ELSE u[i]
  <2>1. <<e>> \in Seq(T) /\ Len(<<e>>) = 1 /\ <<e>>[1] = e
    OBVIOUS
  <2>2. /\ w \in Seq(T) /\ Len(w) = Len(u) + 1
        /\ \A i \in 1 .. Len(u) + 1 : w[i] = IF i <= Len(u) THEN u[i] ELSE <<e>>[i - Len(u)]
    BY <1>1, <2>1, ConcatProperties
  <2>3. ASSUME NEW i \in 1 .. n PROVE w[i] = IF i = n THEN e ELSE u[i]
    <3>1. i <= n - 1 \/ (i = n /\ i - (n - 1) = 1 /\ ~(i <= n - 1))
      BY <1>0
    <3> QED
      BY <1>0, <1>1, <2>1, <2>2, <3>1
  <2> QED
    BY <1>0, <1>1, <2>2, <2>3
<1> HIDE DEF w
<1>4. /\ w \o v \in Seq(T) /\ Len(w \o v) = Len(w) + Len(v)
      /\ \A i \in 1 .. Len(w) + Len(v) : (w \o v)[i] = IF i <= Len(w) THEN w[i] ELSE v[i - Len(w)]
  BY <1>2, <1>3, ConcatProperties
<1>5. InsertAt(s, n, e) = w \o v
  BY DEF InsertAt, u, v, w
<1>6. ASSUME NEW i \in 1 .. Len(s) + 1
      PROVE  (w \o v)[i] = IF i < n THEN s[i] ELSE IF i = n THEN e ELSE s[i - 1]
  <2>1. CASE i <= n
    <3>1. (w \o v)[i] = w[i]
      BY <1>0, <1>2, <1>3, <1>4, <2>1
    <3>2. i = n \/ (i < n /\ i \in 1 .. n - 1)
      BY <1>0, <2>1
    <3> QED
      BY <1>0, <1>1, <1>3, <2>1, <3>1, <3>2
  <2>2. CASE i > n
    <3>1. (w \o v)[i] = v[i - n] /\ i - n \in 1 .. Len(s) - n + 1
      BY <1>0, <1>2, <1>3, <1>4, <2>2
    <3>2. n + (i - n) - 1 = i - 1
      BY <1>0
    <3> QED
      BY <1>2, <2>2, <3>1, <3>2
  <2>3. i <= n \/ i > n
    BY <1>0
  <2> QED
    BY <2>1, <2>2, <2>3
<1>7. Len(w \o v) = Len(s) + 1
  BY <1>0, <1>2, <1>3, <1>4
<1> QED
  BY <1>4, <1>5, <1>6, <1>7

LEMMA RemoveShifts ==
  ASSUME NEW T, NEW s \in Seq(T), NEW n \in 1 .. Len(s)
  PROVE  /\ RemoveAt(s, n) \in Seq(T) /\ Len(RemoveAt(s, n)) = Len(s) - 1
         /\ \A i \in 1 .. Len(s) - 1 : RemoveAt(s, n)[i] = s[IF i < n THEN i ELSE i + 1]
<1> DEFINE u == SubSeq(s, 1, n - 1)
           v == SubSeq(s, n + 1, Len(s))
<1>0. Len(s) \in Nat /\ n - 1 \in Nat
  OBVIOUS
<1>1. u \in Seq(T) /\ Len(u) = n - 1 /\ \A i \in 1 .. n - 1 : u[i] = s[i]
  <2>1. \A i \in 1 .. n - 1 : s[i] \in T
    BY <1>0
  <2> QED
    BY <1>0, <2>1, SubSeqProperties
<1>2. /\ v \in Seq(T) /\ Len(v) = Len(s) - n
      /\ \A i \in 1 .. Len(s) - n : v[i] = s[n + i]
  <2>1. \A i \in n + 1 .. Len(s) : s[i] \in T
    BY <1>0
  <2> QED
    BY <1>0, <2>1, SubSeqProperties
<1> HIDE DEF u, v
<1>3. /\ u \o v \in Seq(T) /\ Len(u \o v) = Len(u) + Len(v)
      /\ \A i \in 1 .. Len(u) + Len(v) : (u \o v)[i] = IF i <= Len(u) THEN u[i] ELSE v[i - Len(u)]
  BY <1>1, <1>2, ConcatProperties
<1>4. RemoveAt(s, n) = u \o v
  BY DEF RemoveAt, u, v
<1>6. ASSUME NEW i \in 1 .. Len(s) - 1 PROVE (u \o v)[i] = s[IF i < n THEN i ELSE i + 1]
  <2>1. CASE i < n
    BY <1>0, <1>1, <1>2, <1>3, <2>1
  <2>2. CASE ~(i < n)
    <3>1. (u \o v)[i] = v[i - (n - 1)] /\ i - (n - 1) \in 1 .. Len(s) - n
      BY <1>0, <1>1, <1>2, <1>3, <2>2
    <3>2. n + (i - (n - 1)) = i + 1
      BY <1>0
    <3> QED
      BY <1>2, <2>2, <3>1, <3>2
  <2> QED
    BY <2>1, <2>2
<1>7. Len(u \o v) = Len(s) - 1
  BY <1>0, <1>1, <1>2, <1>3
<1> QED
  BY <1>3, <1>4, <1>6, <1>7

-----------------------------------------------------------------------------
(* The walk along the pointers *)

PlaceIn(c, i) == IF i = 0 THEN Root ELSE c[i]

\* From the root on the pointers nx lead through c, and then to NULL.
IsChain(c, nx) ==
  /\ c \in Seq(Node)
  /\ \A i, j \in 1 .. Len(c) : c[i] = c[j] => i = j
  /\ \A i \in 0 .. Len(c) : nx[PlaceIn(c, i)] = IF i < Len(c) THEN c[i + 1] ELSE NULL

\* One more node of the walk.
Further(nx, c) ==
  LET last == IF c = <<>> THEN Root ELSE c[Len(c)]
  IN  IF nx[last] = NULL THEN c ELSE Append(c, nx[last])

Walk(nx) ==
  LET walk[n \in 0 .. Cardinality(Node)] ==
        IF n = 0 THEN <<>> ELSE Further(nx, walk[n - 1])
  IN  walk[Cardinality(Node)]

LEMMA ChainLength ==
  ASSUME NEW c \in Seq(Node), \A i, j \in 1 .. Len(c) : c[i] = c[j] => i = j
  PROVE  Len(c) <= Cardinality(Node) /\ Cardinality(Node) \in Nat
<1>1. c \in [1 .. Len(c) -> Node] /\ Len(c) \in Nat
  OBVIOUS
<1>2. c \in Injection(1 .. Len(c), Node)
  BY <1>1 DEF Injection, IsInjective
<1>3. Cardinality(1 .. Len(c)) <= Cardinality(Node)
  BY <1>2, FS_Injection, ListConstantsOK
<1>4. Cardinality(1 .. Len(c)) = Len(c)
  <2>1. \A m \in Nat : Cardinality(1 .. m) = IF 1 > m THEN 0 ELSE m - 1 + 1
    BY FS_Interval
  <2>2. \A m \in Nat : m = IF 1 > m THEN 0 ELSE m - 1 + 1
    OBVIOUS
  <2> QED
    BY <1>1, <2>1, <2>2
<1> QED
  BY <1>3, <1>4, FS_CardinalityType, ListConstantsOK

\* The walk has gone n steps, or to the end.
LEMMA FurtherOn ==
  ASSUME NEW nx, NEW c, IsChain(c, nx), NEW n \in Nat, n > 0
  PROVE  Further(nx, SubSeq(c, 1, IF n - 1 <= Len(c) THEN n - 1 ELSE Len(c)))
           = SubSeq(c, 1, IF n <= Len(c) THEN n ELSE Len(c))
<1>1. c \in Seq(Node) /\ Len(c) \in Nat
  BY DEF IsChain
<1>2. \A i \in 1 .. Len(c) : c[i] \in Node /\ c[i] # NULL
  BY <1>1, ListConstantsOK
<1>3. CASE n <= Len(c)
  <2> DEFINE d == SubSeq(c, 1, n - 1)
             e == SubSeq(c, 1, n)
  <2>1. d \in Seq(Node) /\ Len(d) = n - 1 /\ \A i \in 1 .. n - 1 : d[i] = c[i]
    BY <1>1, <1>2, <1>3, SubSeqProperties
  <2>2. e \in Seq(Node) /\ Len(e) = n /\ \A i \in 1 .. n : e[i] = c[i]
    BY <1>1, <1>2, <1>3, SubSeqProperties
  <2> HIDE DEF d, e
  <2>3. (IF d = <<>> THEN Root ELSE d[Len(d)]) = PlaceIn(c, n - 1)
    <3>1. CASE n = 1
      <4>1. d = <<>>
        BY <2>1, <3>1
      <4> QED
        BY <3>1, <4>1 DEF PlaceIn
    <3>2. CASE n # 1
      <4>1. d # <<>> /\ d[Len(d)] = c[n - 1]
        BY <2>1, <3>2
      <4> QED
        BY <3>2, <4>1 DEF PlaceIn
    <3> QED
      BY <3>1, <3>2
  <2>4. nx[PlaceIn(c, n - 1)] = c[n]
    <3>1. n - 1 \in 0 .. Len(c) /\ n - 1 < Len(c) /\ (n - 1) + 1 = n
      BY <1>1, <1>3
    <3> QED
      BY <3>1 DEF IsChain
  <2>5. c[n] # NULL /\ c[n] \in Node
    BY <1>1, <1>2, <1>3
  <2>6. Further(nx, d) = Append(d, c[n])
    BY <2>3, <2>4, <2>5 DEF Further
  <2>7. Append(d, c[n]) = e
    <3>1. Append(d, c[n]) \in Seq(Node) /\ Len(Append(d, c[n])) = n
      BY <2>1, <2>5
    <3>2. \A i \in 1 .. n : Append(d, c[n])[i] = e[i]
      BY <2>1, <2>2, <2>5
    <3> QED
      BY <2>2, <3>1, <3>2, SeqEqual
  <2>8. n - 1 <= Len(c)
    BY <1>1, <1>3
  <2> QED
    BY <1>3, <2>6, <2>7, <2>8 DEF d, e
<1>4. CASE ~(n <= Len(c))
  <2>1. SubSeq(c, 1, Len(c)) = c
    BY <1>1, SubSeqFull
  <2>2. (IF c = <<>> THEN Root ELSE c[Len(c)]) = PlaceIn(c, Len(c))
    BY <1>1 DEF PlaceIn
  <2>3. nx[PlaceIn(c, Len(c))] = NULL
    BY <1>1 DEF IsChain
  <2>4. (IF n - 1 <= Len(c) THEN n - 1 ELSE Len(c)) = Len(c)
    BY <1>1, <1>4
  <2> QED
    BY <1>4, <2>1, <2>2, <2>3, <2>4 DEF Further
<1> QED
  BY <1>3, <1>4

LEMMA WalkIs ==
  ASSUME NEW nx, NEW c, IsChain(c, nx)
  PROVE  Walk(nx) = c
<1> DEFINE N == Cardinality(Node)
           f == [n \in 0 .. N |-> SubSeq(c, 1, IF n <= Len(c) THEN n ELSE Len(c))]
<1>1. c \in Seq(Node) /\ Len(c) \in Nat /\ N \in Nat /\ Len(c) <= N
  BY ChainLength DEF IsChain
<1>2. f[0] = <<>> /\ f[N] = c
  <2>1. SubSeq(c, 1, Len(c)) = c /\ SubSeq(c, 1, 0) = <<>>
    BY <1>1, SubSeqFull
  <2>2. (IF N <= Len(c) THEN N ELSE Len(c)) = Len(c)
    BY <1>1
  <2>3. (IF 0 <= Len(c) THEN 0 ELSE Len(c)) = 0 /\ 0 \in 0 .. N /\ N \in 0 .. N
    BY <1>1
  <2> HIDE DEF N
  <2> QED
    BY <2>1, <2>2, <2>3
<1>3. \A n \in 0 .. N : n > 0 => f[n] = Further(nx, f[n - 1])
  <2>1. ASSUME NEW n \in 0 .. N, n > 0 PROVE f[n] = Further(nx, f[n - 1])
    <3>1. n \in Nat /\ n - 1 \in 0 .. N
      BY <1>1, <2>1
    <3>2. Further(nx, SubSeq(c, 1, IF n - 1 <= Len(c) THEN n - 1 ELSE Len(c)))
           = SubSeq(c, 1, IF n <= Len(c) THEN n ELSE Len(c))
      BY <2>1, <3>1, FurtherOn
    <3> HIDE DEF N
    <3> QED
      BY <3>1, <3>2
  <2> QED
    BY <2>1
<1>4. DOMAIN f = 0 .. N
  OBVIOUS
<1>5. f = [n \in 0 .. N |-> f[n]]
  OBVIOUS
<1> HIDE DEF f
<1>6. f = [n \in 0 .. N |-> IF n = 0 THEN <<>> ELSE Further(nx, f[n - 1])]
  <2> HIDE DEF N
  <2>1. \A n \in 0 .. N : f[n] = IF n = 0 THEN <<>> ELSE Further(nx, f[n - 1])
    BY <1>1, <1>2, <1>3
  <2> QED
    BY <1>5, <2>1
<1>7. ASSUME NEW g, g = [n \in 0 .. N |-> IF n = 0 THEN <<>> ELSE Further(nx, g[n - 1])]
      PROVE  g = f
  <2> HIDE DEF N
  <2> DEFINE S == {n \in 0 .. N : g[n] = f[n]}
  <2>1. \A n \in 0 .. N : g[n] = IF n = 0 THEN <<>> ELSE Further(nx, g[n - 1])
    BY <1>7
  <2>2. \A n \in 0 .. N : f[n] = IF n = 0 THEN <<>> ELSE Further(nx, f[n - 1])
    BY <1>6
  <2>3. \A n \in 0 .. N : (n > 0 => n - 1 \in S) => n \in S
    BY <1>1, <2>1, <2>2
  <2>4. 0 .. N \subseteq S
    <3> HIDE DEF S
    <3> QED
      BY <1>1, <2>3, IntervalInduction
  <2>5. g = [n \in 0 .. N |-> g[n]]
    BY <1>7
  <2> QED
    BY <1>5, <2>4, <2>5
<1> QED
  BY <1>2, <1>6, <1>7 DEF Walk

LEMMA ChainIs ==
  ASSUME NEW c
  PROVE  (IsChain(c, next) => Chain = c) /\ (IsChain(c, next') => Chain' = c)
<1>1. Chain = Walk(next)
  BY DEF Chain, Walk, Further
<1>2. Chain' = Walk(next')
  BY DEF Chain, Walk, Further
<1> QED
  BY <1>1, <1>2, WalkIs

-----------------------------------------------------------------------------
(* A chain with a node more, less, or none *)

Nodes(c) == {c[i] : i \in 1 .. Len(c)}
Elems(c, el) == [i \in 1 .. Len(c) |-> el[c[i]]]
Pointers == [Places -> Node \cup {NULL}]

LEMMA LinkChain ==
  ASSUME NEW nx \in Pointers, NEW c, IsChain(c, nx), NEW i \in 0 .. Len(c),
         NEW j, j = i + 1, NEW n \in Node, n \notin Nodes(c),
         NEW links, \A m \in Places : links[m] = IF m = PlaceIn(c, i) THEN n
                                           ELSE IF m = n THEN nx[PlaceIn(c, i)] ELSE nx[m]
  PROVE  /\ IsChain(InsertAt(c, j, n), links)
         /\ Nodes(InsertAt(c, j, n)) = Nodes(c) \cup {n}
<1> DEFINE d == InsertAt(c, j, n)
           p == PlaceIn(c, i)
<1>1. /\ c \in Seq(Node) /\ Len(c) \in Nat /\ i \in Nat /\ i <= Len(c)
      /\ \A k \in 1 .. Len(c) : c[k] \in Node /\ c[k] # n /\ c[k] # Root
  BY ListConstantsOK DEF IsChain, Nodes
<1>2. /\ d \in Seq(Node) /\ Len(d) = Len(c) + 1
      /\ \A k \in 1 .. Len(c) + 1 :
           d[k] = IF k < i + 1 THEN c[k] ELSE IF k = i + 1 THEN n ELSE c[k - 1]
  <2>1. j \in 1 .. Len(c) + 1
    BY <1>1
  <2>0. c \in Seq(Node) /\ n \in Node
    BY <1>1
  <2>2. /\ InsertAt(c, j, n) \in Seq(Node) /\ Len(InsertAt(c, j, n)) = Len(c) + 1
        /\ \A k \in 1 .. Len(c) + 1 :
             InsertAt(c, j, n)[k] = IF k < j THEN c[k] ELSE IF k = j THEN n ELSE c[k - 1]
    BY ONLY <2>0, <2>1, InsertShifts
  <2> QED
    BY <2>2
<1> HIDE DEF d
<1>3. \A k, l \in 1 .. Len(d) : d[k] = d[l] => k = l
  <2>1. SUFFICES ASSUME NEW k \in 1 .. Len(d), NEW l \in 1 .. Len(d), d[k] = d[l]
                 PROVE  k = l
    OBVIOUS
  <2>2. \A a, b \in 1 .. Len(c) : c[a] = c[b] => a = b
    BY DEF IsChain
  <2>3. /\ k \in 1 .. Len(c) + 1 /\ l \in 1 .. Len(c) + 1
        /\ k < i + 1 => k \in 1 .. Len(c)
        /\ l < i + 1 => l \in 1 .. Len(c)
        /\ k > i + 1 => k - 1 \in 1 .. Len(c)
        /\ l > i + 1 => l - 1 \in 1 .. Len(c)
    BY <1>1, <1>2
  <2>4. CASE k = i + 1 \/ l = i + 1
    <3>1. /\ k < i + 1 => d[k] = c[k] /\ c[k] # n
          /\ k > i + 1 => d[k] = c[k - 1] /\ c[k - 1] # n
          /\ k = i + 1 => d[k] = n
      BY <1>1, <1>2, <2>3
    <3>2. /\ l < i + 1 => d[l] = c[l] /\ c[l] # n
          /\ l > i + 1 => d[l] = c[l - 1] /\ c[l - 1] # n
          /\ l = i + 1 => d[l] = n
      BY <1>1, <1>2, <2>3
    <3>3. (k < i + 1 \/ k = i + 1 \/ k > i + 1) /\ (l < i + 1 \/ l = i + 1 \/ l > i + 1)
      BY <1>1
    <3> QED
      BY <2>1, <2>4, <3>1, <3>2, <3>3
  <2>5. CASE k # i + 1 /\ l # i + 1
    <3>1. /\ k < i + 1 => d[k] = c[k]
          /\ ~(k < i + 1) => d[k] = c[k - 1] /\ k - 1 \in 1 .. Len(c)
          /\ l < i + 1 => d[l] = c[l]
          /\ ~(l < i + 1) => d[l] = c[l - 1] /\ l - 1 \in 1 .. Len(c)
      BY <1>1, <1>2, <2>3, <2>5
    <3>2. /\ k < i + 1 /\ ~(l < i + 1) => k # l - 1
          /\ l < i + 1 /\ ~(k < i + 1) => l # k - 1
          /\ k - 1 = l - 1 => k = l
      BY <1>1, <2>3, <2>5
    <3> QED
      BY <2>1, <2>2, <2>3, <3>1, <3>2
  <2> QED
    BY <2>4, <2>5
<1>4. /\ p \in Places /\ p # n /\ n \in Places
      /\ \A k \in 0 .. Len(c) : PlaceIn(c, k) \in Places /\ PlaceIn(c, k) # n
  BY <1>1, ListConstantsOK DEF PlaceIn, Places
<1>5. \A m \in Places : links[m] = IF m = p THEN n ELSE IF m = n THEN nx[p] ELSE nx[m]
  BY <1>4
<1>7. \A k \in 0 .. Len(c) : PlaceIn(c, k) = p => k = i
  <2>1. \A a, b \in 1 .. Len(c) : c[a] = c[b] => a = b
    BY DEF IsChain
  <2> QED
    BY <1>1, <2>1 DEF PlaceIn
<1>8. ASSUME NEW k \in 0 .. Len(d)
      PROVE  links[PlaceIn(d, k)] = IF k < Len(d) THEN d[k + 1] ELSE NULL
  <2>0. \A l \in 0 .. Len(c) : nx[PlaceIn(c, l)] = IF l < Len(c) THEN c[l + 1] ELSE NULL
    BY DEF IsChain
  <2>1. CASE k < i
    <3>1. k \in 0 .. Len(c) /\ k # i /\ k < Len(c) /\ k < Len(d) /\ k + 1 \in 1 .. Len(c) + 1 /\ k + 1 < i + 1
      BY <1>1, <1>2, <2>1
    <3>2. PlaceIn(d, k) = PlaceIn(c, k)
      BY <1>1, <1>2, <3>1, <2>1 DEF PlaceIn
    <3>3. links[PlaceIn(c, k)] = nx[PlaceIn(c, k)]
      BY <1>4, <1>5, <1>7, <3>1
    <3> QED
      BY <1>2, <2>0, <3>1, <3>2, <3>3
  <2>2. CASE k = i
    <3>1. k \in 0 .. Len(c) /\ k < Len(d) /\ k + 1 \in 1 .. Len(c) + 1
      BY <1>1, <1>2, <2>2
    <3>2. PlaceIn(d, k) = p
      BY <1>1, <1>2, <3>1, <2>2 DEF PlaceIn
    <3>3. links[p] = n
      BY <1>4, <1>5
    <3>4. d[k + 1] = n
      BY <1>1, <1>2, <2>2, <3>1
    <3> QED
      BY <3>1, <3>2, <3>3, <3>4
  <2>3. CASE k = i + 1
    <3>1. /\ k \in 1 .. Len(c) + 1 /\ k # 0 /\ (k < Len(d) <=> i < Len(c)) /\ i \in 0 .. Len(c)
          /\ (k < Len(d) => k + 1 \in 1 .. Len(c) + 1 /\ ~(k + 1 < i + 1) /\ k + 1 # i + 1 /\ (k + 1) - 1 = i + 1)
      BY <1>1, <1>2, <2>3
    <3>2. PlaceIn(d, k) = n
      BY <1>2, <3>1, <2>3 DEF PlaceIn
    <3>3. links[n] = nx[p]
      BY <1>4, <1>5
    <3> QED
      BY <1>2, <2>0, <3>1, <3>2, <3>3
  <2>4. CASE k > i + 1
    <3>1. /\ k \in 1 .. Len(c) + 1 /\ k # 0 /\ k - 1 \in 0 .. Len(c) /\ k - 1 # 0 /\ k - 1 # i
          /\ ~(k < i + 1) /\ k # i + 1
          /\ (k < Len(d) <=> k - 1 < Len(c)) /\ (k - 1) + 1 = k
          /\ (k < Len(d) => k + 1 \in 1 .. Len(c) + 1 /\ ~(k + 1 < i + 1) /\ k + 1 # i + 1 /\ (k + 1) - 1 = k)
      BY <1>1, <1>2, <2>4
    <3>2. PlaceIn(d, k) = PlaceIn(c, k - 1)
      BY <1>2, <3>1 DEF PlaceIn
    <3>3. links[PlaceIn(c, k - 1)] = nx[PlaceIn(c, k - 1)]
      BY <1>4, <1>5, <1>7, <3>1
    <3> QED
      BY <1>2, <2>0, <3>1, <3>2, <3>3
  <2>5. k < i \/ k = i \/ k = i + 1 \/ k > i + 1
    BY <1>1, <1>2
  <2> QED
    BY <2>1, <2>2, <2>3, <2>4, <2>5
<1>9. Nodes(d) = Nodes(c) \cup {n}
  <2>1. ASSUME NEW x \in Nodes(d) PROVE x \in Nodes(c) \cup {n}
    <3>1. PICK k \in 1 .. Len(d) : x = d[k]
      BY DEF Nodes
    <3>2. /\ k < i + 1 => k \in 1 .. Len(c) /\ d[k] = c[k]
          /\ k > i + 1 => k - 1 \in 1 .. Len(c) /\ d[k] = c[k - 1]
          /\ k = i + 1 => d[k] = n
          /\ k < i + 1 \/ k = i + 1 \/ k > i + 1
      BY <1>1, <1>2
    <3> QED
      BY <3>1, <3>2 DEF Nodes
  <2>2. ASSUME NEW x \in Nodes(c) PROVE x \in Nodes(d)
    <3>1. PICK k \in 1 .. Len(c) : x = c[k]
      BY DEF Nodes
    <3>2. /\ k \in 1 .. Len(d) /\ k + 1 \in 1 .. Len(d)
          /\ k \in 1 .. Len(c) + 1 /\ k + 1 \in 1 .. Len(c) + 1
      BY <1>1, <1>2
    <3>3. d[k] = x \/ d[k + 1] = x
      BY <1>1, <1>2, <3>1, <3>2
    <3> QED
      BY <3>2, <3>3 DEF Nodes
  <2>3. n \in Nodes(d)
    <3>1. i + 1 \in 1 .. Len(d) /\ d[i + 1] = n
      BY <1>1, <1>2
    <3> QED
      BY <3>1 DEF Nodes
  <2> QED
    BY <2>1, <2>2, <2>3
<1> QED
  BY <1>2, <1>3, <1>8, <1>9 DEF IsChain, d

LEMMA UnlinkChain ==
  ASSUME NEW nx \in Pointers, NEW c, IsChain(c, nx), NEW i \in Nat, i < Len(c),
         NEW links, links = [m \in Places |->
                           IF m \in {c[i + 1]} THEN NULL
                           ELSE [nx EXCEPT ![PlaceIn(c, i)] = nx[c[i + 1]]][m]]
  PROVE  /\ links \in Pointers /\ IsChain(RemoveAt(c, i + 1), links)
         /\ Nodes(RemoveAt(c, i + 1)) = Nodes(c) \ {c[i + 1]}
<1> DEFINE d == RemoveAt(c, i + 1)
           p == PlaceIn(c, i)
           n == c[i + 1]
<1>1. /\ c \in Seq(Node) /\ Len(c) \in Nat /\ i + 1 \in 1 .. Len(c)
      /\ \A k \in 1 .. Len(c) : c[k] \in Node /\ c[k] # Root
  BY ListConstantsOK DEF IsChain
<1>2. /\ d \in Seq(Node) /\ Len(d) = Len(c) - 1
      /\ \A k \in 1 .. Len(c) - 1 : d[k] = c[IF k < i + 1 THEN k ELSE k + 1]
  BY <1>1, RemoveShifts
<1> HIDE DEF d
<1>0. \A a, b \in 1 .. Len(c) : c[a] = c[b] => a = b
  BY DEF IsChain
<1>3. \A k, l \in 1 .. Len(d) : d[k] = d[l] => k = l
  <2>1. SUFFICES ASSUME NEW k \in 1 .. Len(d), NEW l \in 1 .. Len(d), d[k] = d[l]
                 PROVE  k = l
    OBVIOUS
  <2>2. k \in 1 .. Len(c) /\ l \in 1 .. Len(c) /\ k + 1 \in 1 .. Len(c) /\ l + 1 \in 1 .. Len(c)
    BY <1>1, <1>2
  <2>3. /\ k < i + 1 => d[k] = c[k] /\ k # k + 1
        /\ ~(k < i + 1) => d[k] = c[k + 1]
        /\ l < i + 1 => d[l] = c[l]
        /\ ~(l < i + 1) => d[l] = c[l + 1]
    BY <1>1, <1>2
  <2>4. /\ k < i + 1 /\ ~(l < i + 1) => k # l + 1
        /\ l < i + 1 /\ ~(k < i + 1) => l # k + 1
        /\ k + 1 = l + 1 => k = l
    BY <1>1, <1>2
  <2> QED
    BY <1>0, <2>1, <2>2, <2>3, <2>4
<1>4. /\ p \in Places /\ n \in Places /\ p # n
      /\ \A k \in 0 .. Len(c) : /\ PlaceIn(c, k) \in Places
                                /\ PlaceIn(c, k) = p => k = i
                                /\ PlaceIn(c, k) = n => k = i + 1
  BY <1>0, <1>1 DEF PlaceIn, Places
<1>5. \A m \in Places : links[m] = IF m = n THEN NULL ELSE IF m = p THEN nx[n] ELSE nx[m]
  BY <1>4 DEF Pointers
<1>6. links \in Pointers
  BY <1>4 DEF Pointers
<1>7. \A l \in 0 .. Len(c) : nx[PlaceIn(c, l)] = IF l < Len(c) THEN c[l + 1] ELSE NULL
  BY DEF IsChain
<1>8. ASSUME NEW k \in 0 .. Len(d)
      PROVE  links[PlaceIn(d, k)] = IF k < Len(d) THEN d[k + 1] ELSE NULL
  <2>1. CASE k < i
    <3>1. /\ k \in 0 .. Len(c) /\ k # i /\ k # i + 1 /\ k < Len(c) /\ k < Len(d)
          /\ k + 1 \in 1 .. Len(c) - 1 /\ k + 1 < i + 1 /\ (k # 0 => k \in 1 .. Len(c) - 1 /\ k < i + 1)
      BY <1>1, <1>2, <2>1
    <3>2. PlaceIn(d, k) = PlaceIn(c, k)
      BY <1>2, <3>1 DEF PlaceIn
    <3>3. links[PlaceIn(c, k)] = nx[PlaceIn(c, k)]
      BY <1>4, <1>5, <3>1
    <3> QED
      BY <1>2, <1>7, <3>1, <3>2, <3>3
  <2>2. CASE k = i
    <3>1. /\ k \in 0 .. Len(c) /\ (k < Len(d) <=> i + 1 < Len(c)) /\ i + 1 \in 0 .. Len(c)
          /\ (k < Len(d) => k + 1 \in 1 .. Len(c) - 1 /\ ~(k + 1 < i + 1))
          /\ (k # 0 => k \in 1 .. Len(c) - 1 /\ k < i + 1) /\ i + 1 # 0
      BY <1>1, <1>2, <2>2
    <3>2. PlaceIn(d, k) = p /\ PlaceIn(c, i + 1) = n
      BY <1>2, <3>1, <2>2 DEF PlaceIn
    <3>3. links[p] = nx[n]
      BY <1>4, <1>5
    <3> QED
      BY <1>2, <1>7, <2>2, <3>1, <3>2, <3>3
  <2>3. CASE k > i
    <3>1. /\ k # 0 /\ k \in 1 .. Len(c) - 1 /\ ~(k < i + 1) /\ k + 1 \in 0 .. Len(c) /\ k + 1 # 0
          /\ k + 1 # i /\ k + 1 # i + 1 /\ (k < Len(d) <=> k + 1 < Len(c))
          /\ (k < Len(d) => k + 1 \in 1 .. Len(c) - 1 /\ ~(k + 1 < i + 1))
      BY <1>1, <1>2, <2>3
    <3>2. PlaceIn(d, k) = PlaceIn(c, k + 1)
      BY <1>2, <3>1 DEF PlaceIn
    <3>3. links[PlaceIn(c, k + 1)] = nx[PlaceIn(c, k + 1)]
      BY <1>4, <1>5, <3>1
    <3> QED
      BY <1>2, <1>7, <3>1, <3>2, <3>3
  <2>4. k < i \/ k = i \/ k > i
    BY <1>1, <1>2
  <2> QED
    BY <2>1, <2>2, <2>3, <2>4
<1>9. Nodes(d) = Nodes(c) \ {n}
  <2>1. ASSUME NEW x \in Nodes(d) PROVE x \in Nodes(c) \ {n}
    <3>1. PICK k \in 1 .. Len(d) : x = d[k]
      BY DEF Nodes
    <3>2. /\ k \in 1 .. Len(c) - 1 /\ k \in 1 .. Len(c) /\ k + 1 \in 1 .. Len(c)
          /\ (k < i + 1 => k # i + 1) /\ (~(k < i + 1) => k + 1 # i + 1)
      BY <1>1, <1>2
    <3> QED
      BY <1>0, <1>1, <1>2, <3>1, <3>2, SMTT(30) DEF Nodes
  <2>2. ASSUME NEW x \in Nodes(c), x # n PROVE x \in Nodes(d)
    <3>1. PICK k \in 1 .. Len(c) : x = c[k]
      BY DEF Nodes
    <3>2. k # i + 1
      BY <2>2, <3>1
    <3>3. /\ k < i + 1 => k \in 1 .. Len(d) /\ k \in 1 .. Len(c) - 1
          /\ k > i + 1 => /\ k - 1 \in 1 .. Len(d) /\ k - 1 \in 1 .. Len(c) - 1
                          /\ ~(k - 1 < i + 1) /\ (k - 1) + 1 = k
          /\ k < i + 1 \/ k > i + 1
      BY <1>1, <1>2, <3>2
    <3>4. (k < i + 1 => d[k] = x) /\ (k > i + 1 => d[k - 1] = x)
      BY <1>2, <3>1, <3>3
    <3> QED
      BY <3>3, <3>4 DEF Nodes
  <2> QED
    BY <2>1, <2>2
<1> QED
  BY <1>2, <1>3, <1>6, <1>8, <1>9 DEF IsChain, d

LEMMA EmptyChain ==
  ASSUME NEW nx \in [Places -> Node \cup {NULL}], nx[Root] = NULL
  PROVE  IsChain(<<>>, nx)
<1>1. <<>> \in Seq(Node) /\ Len(<<>>) = 0
  OBVIOUS
<1> QED
  BY <1>1 DEF IsChain, PlaceIn

LEMMA InsertElems ==
  ASSUME NEW el \in [Node -> Elem \cup {NULL}], NEW c \in Seq(Node), NEW i \in 1 .. Len(c) + 1,
         NEW n \in Node, n \notin Nodes(c), NEW e \in Elem
  PROVE  /\ Elems(InsertAt(c, i, n), [el EXCEPT ![n] = e]) = InsertAt(Elems(c, el), i, e)
         /\ Len(Elems(c, el)) = Len(c)
<1> DEFINE d == InsertAt(c, i, n)
           s == Elems(c, el)
           f == [el EXCEPT ![n] = e]
           T == Elem \cup {NULL}
<1>1. /\ d \in Seq(Node) /\ Len(d) = Len(c) + 1
      /\ \A k \in 1 .. Len(c) + 1 : d[k] = IF k < i THEN c[k] ELSE IF k = i THEN n ELSE c[k - 1]
  BY InsertShifts
<1>2. Len(c) \in Nat /\ \A k \in 1 .. Len(c) : c[k] \in Node /\ c[k] # n
  BY DEF Nodes
<1>3. s \in Seq(T) /\ Len(s) = Len(c) /\ \A k \in 1 .. Len(c) : s[k] = el[c[k]]
  BY <1>2 DEF Elems
<1>4. f \in [Node -> T] /\ f[n] = e /\ \A m \in Node : m # n => f[m] = el[m]
  OBVIOUS
<1> HIDE DEF d, s, f
<1>5. /\ InsertAt(s, i, e) \in Seq(T) /\ Len(InsertAt(s, i, e)) = Len(c) + 1
      /\ \A k \in 1 .. Len(c) + 1 :
           InsertAt(s, i, e)[k] = IF k < i THEN s[k] ELSE IF k = i THEN e ELSE s[k - 1]
  <2>1. e \in T
    OBVIOUS
  <2> HIDE DEF T
  <2> QED
    BY <1>3, <2>1, InsertShifts
<1>6. Elems(d, f) \in Seq(T) /\ Len(Elems(d, f)) = Len(c) + 1
      /\ \A k \in 1 .. Len(c) + 1 : Elems(d, f)[k] = f[d[k]]
  <2>1. \A k \in 1 .. Len(d) : f[d[k]] \in T
    BY <1>1, <1>4
  <2>2. Len(d) \in Nat
    BY <1>1, <1>2
  <2> HIDE DEF T
  <2> QED
    BY <1>1, <2>1, <2>2 DEF Elems
<1>7. ASSUME NEW k \in 1 .. Len(c) + 1 PROVE f[d[k]] = InsertAt(s, i, e)[k]
  <2>1. (k < i => k \in 1 .. Len(c)) /\ (k > i => k - 1 \in 1 .. Len(c)) /\ (k < i \/ k = i \/ k > i)
    BY <1>2
  <2>2. CASE k < i
    BY <1>1, <1>2, <1>3, <1>4, <1>5, <2>1, <2>2
  <2>3. CASE k = i
    <3>1. d[k] = n /\ InsertAt(s, i, e)[k] = e
      BY <1>1, <1>5, <2>3
    <3> QED
      BY <1>4, <3>1
  <2>4. CASE k > i
    <3>1. d[k] = c[k - 1] /\ InsertAt(s, i, e)[k] = s[k - 1]
      BY <1>1, <1>2, <1>5, <2>4
    <3> QED
      BY <1>2, <1>3, <1>4, <2>1, <2>4, <3>1
  <2> QED
    BY <2>1, <2>2, <2>3, <2>4
<1>8. Elems(d, f) = InsertAt(s, i, e)
  <2> HIDE DEF T
  <2> QED
    BY <1>2, <1>5, <1>6, <1>7, SeqEqual
<1> QED
  BY <1>3, <1>8 DEF d, s, f

LEMMA RemoveElems ==
  ASSUME NEW el \in [Node -> Elem \cup {NULL}], NEW c \in Seq(Node), NEW i \in 1 .. Len(c),
         \A a, b \in 1 .. Len(c) : c[a] = c[b] => a = b,
         NEW f, f = [m \in Node |-> IF m \in {c[i]} THEN NULL ELSE el[m]]
  PROVE  Elems(RemoveAt(c, i), f) = RemoveAt(Elems(c, el), i)
<1> DEFINE d == RemoveAt(c, i)
           s == Elems(c, el)
           T == Elem \cup {NULL}
<1>1. /\ d \in Seq(Node) /\ Len(d) = Len(c) - 1
      /\ \A k \in 1 .. Len(c) - 1 : d[k] = c[IF k < i THEN k ELSE k + 1]
  BY RemoveShifts
<1>2. Len(c) \in Nat /\ Len(c) - 1 \in Nat /\ \A k \in 1 .. Len(c) : c[k] \in Node
  OBVIOUS
<1>3. s \in Seq(T) /\ Len(s) = Len(c) /\ \A k \in 1 .. Len(c) : s[k] = el[c[k]]
  BY <1>2 DEF Elems
<1>4. f \in [Node -> T] /\ \A m \in Node : m # c[i] => f[m] = el[m]
  OBVIOUS
<1> HIDE DEF d, s
<1>5. /\ RemoveAt(s, i) \in Seq(T) /\ Len(RemoveAt(s, i)) = Len(c) - 1
      /\ \A k \in 1 .. Len(c) - 1 : RemoveAt(s, i)[k] = s[IF k < i THEN k ELSE k + 1]
  <2> HIDE DEF T
  <2> QED
    BY <1>3, RemoveShifts
<1>6. /\ Elems(d, f) \in Seq(T) /\ Len(Elems(d, f)) = Len(c) - 1
      /\ \A k \in 1 .. Len(c) - 1 : Elems(d, f)[k] = f[d[k]]
  <2>1. \A k \in 1 .. Len(d) : f[d[k]] \in T
    BY <1>1, <1>4
  <2> HIDE DEF T
  <2> QED
    BY <1>1, <1>2, <2>1 DEF Elems
<1>7. ASSUME NEW k \in 1 .. Len(c) - 1 PROVE f[d[k]] = RemoveAt(s, i)[k]
  <2>1. k \in 1 .. Len(c) /\ k + 1 \in 1 .. Len(c) /\ (k < i => k # i) /\ (~(k < i) => k + 1 # i)
    BY <1>2
  <2>2. CASE k < i
    BY <1>1, <1>2, <1>3, <1>4, <1>5, <2>1, <2>2
  <2>3. CASE ~(k < i)
    BY <1>1, <1>2, <1>3, <1>4, <1>5, <2>1, <2>3
  <2> QED
    BY <2>2, <2>3
<1>8. Elems(d, f) = RemoveAt(s, i)
  <2> DEFINE a == Elems(d, f)
             b == RemoveAt(s, i)
  <2>1. a \in Seq(T) /\ b \in Seq(T) /\ Len(a) = Len(b) /\ \A k \in 1 .. Len(a) : a[k] = b[k]
    BY <1>5, <1>6, <1>7
  <2> HIDE DEF T, a, b
  <2>2. a = b
    BY <2>1, SeqEqual
  <2> QED
    BY <2>2 DEF a, b
<1> QED
  BY <1>8 DEF d, s

-----------------------------------------------------------------------------
(* The inductive invariant *)

ListTypes ==
  /\ next \in Pointers /\ elem \in [Node -> Elem \cup {NULL}]
  /\ live \subseteq Node
  /\ actual \in Node \cup {NULL} /\ prev \in Places /\ pos \in Nat
  /\ iter \in BOOLEAN /\ displaced \in BOOLEAN

\* The list consists of the nodes c.
Held(c) == IsChain(c, next) /\ live = Nodes(c) /\ nb_elt = Len(c)

\* The iterator stands at its position; prev leads to its element unless
\* something was added there.
IteratorOn(c) ==
  iter => /\ pos <= Len(c)
          /\ actual = IF pos < Len(c) THEN c[pos + 1] ELSE NULL
          /\ actual # NULL /\ ~displaced => prev = PlaceIn(c, pos)

ListInv == ListTypes /\ Held(Chain) /\ IteratorOn(Chain)

LEMMA ChainKept ==
  ASSUME ListTypes', NEW c, Held(c)', IteratorOn(c)'
  PROVE  ListInv'
<1>1. Chain' = c
  BY ChainIs DEF Held
<1> QED
  BY <1>1 DEF ListInv, Held, IteratorOn

LEMMA ContentsAre ==
  ASSUME NEW c
  PROVE  /\ IsChain(c, next) => Contents = Elems(c, elem) /\ Len(Contents) = Len(c)
         /\ IsChain(c, next') => Contents' = Elems(c, elem') /\ Len(Contents') = Len(c)
<1>1. c \in Seq(Node) => Len(c) \in Nat /\ DOMAIN c = 1 .. Len(c)
  OBVIOUS
<1>2. ASSUME IsChain(c, next) PROVE Contents = Elems(c, elem) /\ Len(Contents) = Len(c)
  BY <1>1, <1>2, ChainIs DEF Contents, Elems, IsChain
<1>3. ASSUME IsChain(c, next') PROVE Contents' = Elems(c, elem') /\ Len(Contents') = Len(c)
  BY <1>1, <1>3, ChainIs DEF Contents, Elems, IsChain
<1> QED
  BY <1>2, <1>3

\* What holds of the nodes c of the list.
LEMMA ChainFacts ==
  ASSUME NEW c, Held(c)
  PROVE  /\ c \in Seq(Node) /\ Len(c) = nb_elt /\ nb_elt \in Nat /\ Chain = c
         /\ \A i, j \in 1 .. nb_elt : c[i] = c[j] => i = j
         /\ \A i \in 0 .. nb_elt : next[PlaceIn(c, i)] = IF i < nb_elt THEN c[i + 1] ELSE NULL
         /\ \A i \in 1 .. nb_elt : c[i] \in Node /\ c[i] # NULL
         /\ \A i \in 0 .. nb_elt : Place(i) = PlaceIn(c, i)
         /\ IsChain(c, next) /\ live = Nodes(c)
         /\ Contents = Elems(c, elem) /\ Len(Contents) = nb_elt /\ DOMAIN Contents = 1 .. nb_elt
         /\ \A i \in 1 .. nb_elt : Contents[i] = elem[c[i]]
<1>1. IsChain(c, next) /\ live = Nodes(c) /\ nb_elt = Len(c) /\ Chain = c
  BY ChainIs DEF Held
<1>2. c \in Seq(Node) /\ Len(c) \in Nat /\ \A i \in 1 .. Len(c) : c[i] \in Node
  BY <1>1 DEF IsChain
<1>3. Contents = Elems(c, elem) /\ Len(Contents) = nb_elt
  BY <1>1, ContentsAre
<1>4. DOMAIN Contents = 1 .. nb_elt /\ \A i \in 1 .. nb_elt : Contents[i] = elem[c[i]]
  BY <1>1, <1>3 DEF Elems
<1> QED
  BY <1>1, <1>2, <1>3, <1>4, ListConstantsOK DEF IsChain, Place, PlaceIn

\* A node is linked in.
LEMMA LinkStep ==
  ASSUME ListTypes, NEW c, Held(c), NEW e \in Elem, NEW i \in 0 .. nb_elt, LinkNode(e, i)
  PROVE  /\ next' \in Pointers /\ elem' \in [Node -> Elem \cup {NULL}] /\ live' \subseteq Node
         /\ Contents' = InsertAt(Contents, i + 1, e)
         /\ res' = Len(Contents) + 1 /\ nb_elt' = nb_elt + 1
         /\ \E d : /\ Held(d)'
                   /\ \A k \in 1 .. nb_elt : k <= i => d[k] = c[k]
                   /\ \A k \in 1 .. nb_elt : k > i => d[k + 1] = c[k]
<1>1. /\ c \in Seq(Node) /\ Len(c) = nb_elt /\ nb_elt \in Nat /\ IsChain(c, next)
      /\ live = Nodes(c) /\ Place(i) = PlaceIn(c, i)
      /\ Contents = Elems(c, elem) /\ Len(Contents) = nb_elt
  BY ChainFacts
<1>2. next \in Pointers /\ elem \in [Node -> Elem \cup {NULL}] /\ live \subseteq Node
  BY DEF ListTypes
<1>3. PICK n \in Node \ live :
        /\ live' = live \cup {n}
        /\ next' = [next EXCEPT ![n] = next[Place(i)], ![Place(i)] = n]
        /\ elem' = [elem EXCEPT ![n] = e]
        /\ nb_elt' = nb_elt + 1 /\ res' = nb_elt + 1
  BY DEF LinkNode
<1> DEFINE j == i + 1
           d == InsertAt(c, j, n)
<1>4. /\ j \in 1 .. Len(c) + 1 /\ i \in 0 .. Len(c) /\ n \in Node /\ n \notin Nodes(c)
      /\ i \in Nat
  BY <1>1, <1>3
<1>5. next' = [next EXCEPT ![n] = next[PlaceIn(c, i)], ![PlaceIn(c, i)] = n]
  BY <1>1, <1>3
<1>6. next' \in Pointers /\ IsChain(d, next') /\ Nodes(d) = Nodes(c) \cup {n}
  <2>1. next \in Pointers /\ IsChain(c, next) /\ i \in 0 .. Len(c) /\ n \in Node /\ n \notin Nodes(c)
    BY <1>1, <1>2, <1>4
  <2>2. PlaceIn(c, i) \in Places /\ next[PlaceIn(c, i)] \in Node \cup {NULL} /\ PlaceIn(c, i) # n
    BY <1>1, <1>2, <2>1, ListConstantsOK DEF PlaceIn, Places, Pointers, Nodes
  <2>3. \A m \in Places : next'[m] = IF m = PlaceIn(c, i) THEN n
                                     ELSE IF m = n THEN next[PlaceIn(c, i)] ELSE next[m]
    BY <1>2, <1>4, <1>5, <2>2 DEF Pointers
  <2>4. next' \in Pointers
    BY <1>2, <1>4, <1>5, <2>2 DEF Pointers
  <2>5. j = i + 1
    OBVIOUS
  <2> HIDE DEF j
  <2>6. /\ IsChain(InsertAt(c, j, n), next')
        /\ Nodes(InsertAt(c, j, n)) = Nodes(c) \cup {n}
    BY ONLY <2>1, <2>3, <2>5, LinkChain
  <2> QED
    BY <2>4, <2>6
<1> HIDE DEF j
<1>61. c \in Seq(Node) /\ j \in 1 .. Len(c) + 1 /\ n \in Node
  BY <1>1, <1>4
<1>7. Elems(d, elem') = InsertAt(Elems(c, elem), j, e)
  <2>1. elem \in [Node -> Elem \cup {NULL}] /\ n \notin Nodes(c) /\ e \in Elem
    BY <1>2, <1>4
  <2>2. Elems(InsertAt(c, j, n), [elem EXCEPT ![n] = e]) = InsertAt(Elems(c, elem), j, e)
    BY ONLY <1>61, <2>1, InsertElems, ZenonT(60)
  <2> QED
    BY <1>3, <2>2
<1>8. Contents' = InsertAt(Contents, j, e)
  BY <1>1, <1>6, <1>7, ContentsAre
<1>9. /\ Len(d) = Len(c) + 1
      /\ \A k \in 1 .. Len(c) + 1 : d[k] = IF k < j THEN c[k] ELSE IF k = j THEN n ELSE c[k - 1]
  <2>1. /\ Len(InsertAt(c, j, n)) = Len(c) + 1
        /\ \A k \in 1 .. Len(c) + 1 :
             InsertAt(c, j, n)[k] = IF k < j THEN c[k] ELSE IF k = j THEN n ELSE c[k - 1]
    <3> HIDE DEF d
    <3> QED
      BY ONLY <1>61, InsertShifts
  <2> QED
    BY ONLY <2>1 DEF d
<1> HIDE DEF d
<1>10. Held(d)'
  BY <1>1, <1>3, <1>6, <1>9 DEF Held
<1>11. ASSUME NEW k \in 1 .. nb_elt
       PROVE  (k <= i => d[k] = c[k]) /\ (k > i => d[k + 1] = c[k])
  <2>1. k \in 1 .. Len(c) + 1 /\ k + 1 \in 1 .. Len(c) + 1
    BY <1>1
  <2>2. (k <= i => k < j) /\ (k > i => ~(k + 1 < j) /\ k + 1 # j /\ (k + 1) - 1 = k)
    BY <1>4 DEF j
  <2> QED
    BY <1>9, <2>1, <2>2
<1>12. elem' \in [Node -> Elem \cup {NULL}] /\ live' \subseteq Node
  BY <1>2, <1>3
<1> QED
  BY <1>1, <1>3, <1>6, <1>8, <1>10, <1>11, <1>12 DEF j

\* The node at a place is unlinked and freed.
LEMMA UnlinkStep ==
  ASSUME ListTypes, NEW c, Held(c), NEW i \in Nat, i < nb_elt,
         FreeNodes({c[i + 1]}, [next EXCEPT ![PlaceIn(c, i)] = next[c[i + 1]]]),
         nb_elt' = nb_elt - 1
  PROVE  /\ next' \in Pointers /\ elem' \in [Node -> Elem \cup {NULL}] /\ live' \subseteq Node
         /\ Contents' = RemoveAt(Contents, i + 1)
         /\ \E d : /\ Held(d)'
                   /\ \A k \in 1 .. nb_elt - 1 : k <= i => d[k] = c[k]
                   /\ \A k \in 1 .. nb_elt - 1 : k > i => d[k] = c[k + 1]
<1> DEFINE j == i + 1
           d == RemoveAt(c, j)
<1>1. /\ c \in Seq(Node) /\ Len(c) = nb_elt /\ nb_elt \in Nat /\ IsChain(c, next)
      /\ live = Nodes(c) /\ Contents = Elems(c, elem) /\ Len(Contents) = nb_elt
  BY ChainFacts
<1>2. next \in Pointers /\ elem \in [Node -> Elem \cup {NULL}] /\ live \subseteq Node
  BY DEF ListTypes
<1>3. j \in 1 .. Len(c) /\ i < Len(c) /\ i \in Nat
  BY <1>1
<1>4. /\ live' = live \ {c[j]}
      /\ next' = [m \in Places |-> IF m \in {c[j]} THEN NULL
                                   ELSE [next EXCEPT ![PlaceIn(c, i)] = next[c[j]]][m]]
      /\ elem' = [m \in Node |-> IF m \in {c[j]} THEN NULL ELSE elem[m]]
  BY <1>2 DEF FreeNodes, Pointers
<1>5. next' \in Pointers /\ IsChain(d, next') /\ Nodes(d) = Nodes(c) \ {c[j]}
  BY ONLY <1>1, <1>2, <1>3, <1>4, UnlinkChain
<1> HIDE DEF j
<1>6. Elems(d, elem') = RemoveAt(Elems(c, elem), j)
  <2>1. \A a, b \in 1 .. Len(c) : c[a] = c[b] => a = b
    BY <1>1 DEF IsChain
  <2> QED
    BY ONLY <1>1, <1>2, <1>3, <1>4, <2>1, RemoveElems
<1>7. Contents' = RemoveAt(Contents, j)
  BY <1>1, <1>5, <1>6, ContentsAre
<1>8. /\ Len(d) = Len(c) - 1
      /\ \A k \in 1 .. Len(c) - 1 : d[k] = c[IF k < j THEN k ELSE k + 1]
  BY <1>1, <1>3, RemoveShifts
<1> HIDE DEF d
<1>9. Held(d)'
  BY <1>1, <1>4, <1>5, <1>8 DEF Held
<1>10. ASSUME NEW k \in 1 .. nb_elt - 1
       PROVE  (k <= i => d[k] = c[k]) /\ (k > i => d[k] = c[k + 1])
  <2>1. k \in 1 .. Len(c) - 1 /\ (k <= i => k < j) /\ (k > i => ~(k < j))
    BY <1>1 DEF j
  <2> QED
    BY <1>8, <2>1
<1>11. elem' \in [Node -> Elem \cup {NULL}] /\ live' \subseteq Node
  BY <1>2, <1>4
<1> QED
  BY <1>5, <1>7, <1>9, <1>10, <1>11 DEF j

LEMMA IndexRange ==
  ASSUME nb_elt \in Nat, NEW p \in Int
  PROVE  /\ Index(p) \in 0 .. nb_elt
         /\ p = -1 \/ p >= nb_elt => Index(p) = nb_elt
         /\ p >= 0 /\ p < nb_elt => Index(p) = p
  BY DEF Index

LEMMA SomeChain ==
  ASSUME ListInv
  PROVE  \E c : Held(c) /\ IteratorOn(c)
  BY DEF ListInv

LEMMA IndexPlaces ==
  ASSUME NEW c, Held(c), NEW p \in Positions
  PROVE  Index(p) \in Abstract!Places(p) /\ Index(p) \in 0 .. nb_elt
<1>1. p \in Int /\ nb_elt \in Nat /\ Len(Contents) = nb_elt
  BY ChainFacts, ListConstantsOK
<1> QED
  BY <1>1, IndexRange DEF Abstract!Places

-----------------------------------------------------------------------------
(* Every step keeps the invariant and is a step of the sequence *)

LEMMA AddStep ==
  ASSUME ListInv, NEW e \in Elem, NEW p \in Positions, ListAdd(e, p)
  PROVE  ListInv' /\ Abstract!Add(e, p)
<1>1. PICK c : Held(c)
  BY SomeChain
<1>2. Index(p) \in Abstract!Places(p) /\ Index(p) \in 0 .. nb_elt
  BY <1>1, IndexPlaces
<1>3. ListTypes /\ LinkNode(e, Index(p)) /\ NoIterator
  BY DEF ListInv, ListAdd
<1>4. /\ next' \in Pointers /\ elem' \in [Node -> Elem \cup {NULL}] /\ live' \subseteq Node
      /\ Contents' = InsertAt(Contents, Index(p) + 1, e)
      /\ res' = Len(Contents) + 1
      /\ \E d : Held(d)'
  BY <1>1, <1>2, <1>3, LinkStep
<1>5. ListTypes'
  BY <1>3, <1>4 DEF ListTypes, NoIterator
<1>6. ListInv'
  <2>1. PICK d : Held(d)'
    BY <1>4
  <2>2. IteratorOn(d)'
    BY <1>3 DEF IteratorOn, NoIterator
  <2> QED
    BY <1>5, <2>1, <2>2, ChainKept
<1>7. (IF iter THEN pos + 1 ELSE 0)' = 0
  BY <1>3 DEF NoIterator
<1>8. Abstract!AddAt(Index(p), e)
  BY <1>4 DEF Abstract!AddAt, Abstract!InsertAt, InsertAt
<1> QED
  BY <1>2, <1>6, <1>7, <1>8 DEF Abstract!Add

LEMMA IterAddStep ==
  ASSUME ListInv, NEW e \in Elem, NEW p \in Positions, IterAdd(e, p)
  PROVE  ListInv' /\ Abstract!IterAdd(e, p)
<1> DEFINE i == Index(p)
<1>1. PICK c : Held(c) /\ IteratorOn(c)
  BY SomeChain
<1>2. i \in Abstract!Places(p) /\ i \in 0 .. nb_elt
  BY <1>1, IndexPlaces
<1>3. /\ ListTypes /\ LinkNode(e, i) /\ iter /\ iter' = iter
      /\ pos' = IF i <= pos THEN pos + 1 ELSE pos
      /\ displaced' = (displaced \/ (i = pos /\ actual # NULL))
      /\ actual' = actual /\ prev' = prev
  BY DEF ListInv, IterAdd
<1>4. /\ next' \in Pointers /\ elem' \in [Node -> Elem \cup {NULL}] /\ live' \subseteq Node
      /\ Contents' = InsertAt(Contents, i + 1, e)
      /\ res' = Len(Contents) + 1 /\ nb_elt' = nb_elt + 1
      /\ \E d : /\ Held(d)'
                /\ \A k \in 1 .. nb_elt : k <= i => d[k] = c[k]
                /\ \A k \in 1 .. nb_elt : k > i => d[k + 1] = c[k]
  BY <1>1, <1>2, <1>3, LinkStep
<1> HIDE DEF i
<1>5. pos \in Nat /\ i \in Nat /\ nb_elt \in Nat /\ Len(c) = nb_elt /\ pos <= nb_elt
  BY <1>1, <1>2, <1>3, ChainFacts DEF ListTypes, IteratorOn
<1>6. ListTypes'
  BY <1>3, <1>4, <1>5 DEF ListTypes
<1>7. ListInv'
  <2>1. PICK d : /\ Held(d)'
                 /\ \A k \in 1 .. nb_elt : k <= i => d[k] = c[k]
                 /\ \A k \in 1 .. nb_elt : k > i => d[k + 1] = c[k]
    BY <1>4
  <2>2. Len(d) = nb_elt + 1
    BY <1>4, <2>1 DEF Held
  <2>3. /\ actual = IF pos < nb_elt THEN c[pos + 1] ELSE NULL
        /\ actual # NULL /\ ~displaced => prev = PlaceIn(c, pos)
        /\ actual # NULL => pos < nb_elt
    BY <1>1, <1>3, <1>5 DEF IteratorOn
  <2>4. pos' <= Len(d)
    BY <1>3, <1>5, <2>2
  <2>5. actual' = IF pos' < Len(d) THEN d[pos' + 1] ELSE NULL
    <3>1. CASE i <= pos
      <4>1. /\ pos' = pos + 1 /\ (pos' < Len(d) <=> pos < nb_elt)
            /\ (pos < nb_elt => pos + 1 \in 1 .. nb_elt /\ pos + 1 > i)
        BY <1>3, <1>5, <2>2, <3>1
      <4> QED
        BY <1>3, <2>1, <2>3, <4>1
    <3>2. CASE ~(i <= pos)
      <4>1. /\ pos' = pos /\ pos' < Len(d) /\ pos < nb_elt /\ pos + 1 \in 1 .. nb_elt /\ pos + 1 <= i
        BY <1>2, <1>3, <1>5, <2>2, <3>2
      <4> QED
        BY <1>3, <2>1, <2>3, <4>1
    <3> QED
      BY <3>1, <3>2
  <2>6. ASSUME actual' # NULL, ~displaced' PROVE prev' = PlaceIn(d, pos')
    <3>1. i # pos /\ prev' = PlaceIn(c, pos) /\ pos < nb_elt
      BY <1>3, <2>3, <2>6
    <3>2. CASE i < pos
      <4>1. pos' = pos + 1 /\ pos' # 0 /\ pos # 0 /\ pos \in 1 .. nb_elt /\ pos > i
        BY <1>3, <1>5, <3>1, <3>2
      <4> QED
        BY <2>1, <3>1, <4>1 DEF PlaceIn
    <3>3. CASE i > pos
      <4>1. pos' = pos /\ (pos # 0 => pos \in 1 .. nb_elt /\ pos <= i)
        BY <1>3, <1>5, <3>1, <3>3
      <4> QED
        BY <2>1, <3>1, <4>1 DEF PlaceIn
    <3> QED
      BY <1>5, <3>1, <3>2, <3>3
  <2>7. IteratorOn(d)'
    BY <2>4, <2>5, <2>6 DEF IteratorOn
  <2> QED
    BY <1>6, <2>1, <2>7, ChainKept
<1>8. LET n == IF iter THEN pos + 1 ELSE 0
      IN  n > 0 /\ n' = IF i < n THEN n + 1 ELSE n
  BY <1>3, <1>5
<1>9. Abstract!AddAt(i, e)
  BY <1>4 DEF Abstract!AddAt, Abstract!InsertAt, InsertAt
<1> QED
  BY <1>2, <1>7, <1>8, <1>9 DEF Abstract!IterAdd

\* A step that leaves the list as it is.
LEMMA ListSame ==
  ASSUME NEW c, Held(c), UNCHANGED <<next, elem, nb_elt, live>>
  PROVE  Held(c)' /\ Contents' = Contents
<1>1. IsChain(c, next) /\ IsChain(c, next')
  BY DEF Held
<1>2. Contents = Elems(c, elem) /\ Contents' = Elems(c, elem')
  BY <1>1, ContentsAre
<1> QED
  BY <1>1, <1>2 DEF Held

LEMMA AddFailsStep ==
  ASSUME ListInv, ListAddFails
  PROVE  ListInv' /\ Abstract!AddFails
<1>1. PICK c : Held(c) /\ IteratorOn(c)
  BY SomeChain
<1>2. UNCHANGED <<next, elem, nb_elt, live>> /\ UNCHANGED iterVars /\ res' = -1
  BY DEF ListAddFails
<1>3. Held(c)' /\ Contents' = Contents
  BY <1>1, <1>2, ListSame
<1>4. IteratorOn(c)' /\ ListTypes'
  BY <1>1, <1>2 DEF IteratorOn, iterVars, ListInv, ListTypes
<1>5. ListInv'
  BY <1>3, <1>4, ChainKept
<1>6. (IF iter THEN pos + 1 ELSE 0)' = IF iter THEN pos + 1 ELSE 0
  BY <1>2 DEF iterVars
<1> QED
  BY <1>2, <1>3, <1>5, <1>6 DEF Abstract!AddFails

LEMMA GetStep ==
  ASSUME ListInv, NEW p \in Positions, ListGet(p)
  PROVE  ListInv' /\ Abstract!Get(p)
<1>1. PICK c : Held(c) /\ IteratorOn(c)
  BY SomeChain
<1>2. /\ UNCHANGED <<next, elem, nb_elt, live>> /\ UNCHANGED iterVars
      /\ res' = IF p \in 0 .. nb_elt - 1 THEN elem[Chain[p + 1]] ELSE NULL
  BY DEF ListGet
<1>3. Held(c)' /\ Contents' = Contents
  BY <1>1, <1>2, ListSame
<1>4. IteratorOn(c)' /\ ListTypes'
  BY <1>1, <1>2 DEF IteratorOn, iterVars, ListInv, ListTypes
<1>5. ListInv'
  BY <1>3, <1>4, ChainKept
<1>6. (IF iter THEN pos + 1 ELSE 0)' = IF iter THEN pos + 1 ELSE 0
  BY <1>2 DEF iterVars
<1>7. res' = Abstract!At(p + 1)
  <2>1. /\ Chain = c /\ DOMAIN Contents = 1 .. nb_elt /\ nb_elt \in Nat
        /\ \A i \in 1 .. nb_elt : Contents[i] = elem[c[i]]
    BY <1>1, ChainFacts
  <2>2. p \in Int /\ (p \in 0 .. nb_elt - 1 <=> p + 1 \in 1 .. nb_elt)
    BY <2>1, ListConstantsOK
  <2> QED
    BY <1>2, <2>1, <2>2 DEF Abstract!At
<1> QED
  BY <1>3, <1>5, <1>6, <1>7 DEF Abstract!Get

LEMMA RemoveStep ==
  ASSUME ListInv, NEW p \in Positions, ListRemove(p)
  PROVE  ListInv' /\ Abstract!Delete(p)
<1>1. PICK c : Held(c)
  BY SomeChain
<1>2. ListTypes /\ NoIterator /\ p \in 0 .. nb_elt - 1 /\ nb_elt' = nb_elt - 1 /\ res' = nb_elt - 1
  BY DEF ListInv, ListRemove
<1>3. /\ nb_elt \in Nat /\ Len(Contents) = nb_elt /\ DOMAIN Contents = 1 .. nb_elt
      /\ \A i \in 0 .. nb_elt : Place(i) = PlaceIn(c, i)
      /\ \A i \in 0 .. nb_elt : next[PlaceIn(c, i)] = IF i < nb_elt THEN c[i + 1] ELSE NULL
  BY <1>1, ChainFacts
<1>4. p \in Nat /\ p < nb_elt /\ p \in 0 .. nb_elt /\ p + 1 \in 1 .. nb_elt
  BY <1>2, <1>3
<1>5. Place(p) = PlaceIn(c, p) /\ next[PlaceIn(c, p)] = c[p + 1]
  BY <1>3, <1>4
<1>6. FreeNodes({c[p + 1]}, [next EXCEPT ![PlaceIn(c, p)] = next[c[p + 1]]])
  BY <1>5 DEF ListRemove
<1>7. /\ next' \in Pointers /\ elem' \in [Node -> Elem \cup {NULL}] /\ live' \subseteq Node
      /\ Contents' = RemoveAt(Contents, p + 1)
      /\ \E d : Held(d)'
  BY <1>1, <1>2, <1>4, <1>6, UnlinkStep
<1>8. ListInv'
  <2>1. PICK d : Held(d)'
    BY <1>7
  <2>2. IteratorOn(d)' /\ ListTypes'
    BY <1>2, <1>7 DEF IteratorOn, NoIterator, ListTypes
  <2> QED
    BY <2>1, <2>2, ChainKept
<1>9. (IF iter THEN pos + 1 ELSE 0)' = 0
  BY <1>2 DEF NoIterator
<1> QED
  BY <1>2, <1>3, <1>4, <1>7, <1>8, <1>9 DEF Abstract!Delete, Abstract!RemoveAt, RemoveAt

LEMMA RemoveNoneStep ==
  ASSUME ListInv, NEW p \in Positions, ListRemoveNone(p)
  PROVE  ListInv' /\ Abstract!DeleteNone
<1>1. PICK c : Held(c)
  BY SomeChain
<1>2. UNCHANGED <<next, elem, nb_elt, live>> /\ NoIterator /\ res' = -1
  BY DEF ListRemoveNone
<1>3. Held(c)' /\ Contents' = Contents
  BY <1>1, <1>2, ListSame
<1>4. IteratorOn(c)' /\ ListTypes'
  BY <1>2 DEF IteratorOn, NoIterator, ListInv, ListTypes
<1>5. ListInv'
  BY <1>3, <1>4, ChainKept
<1>6. (IF iter THEN pos + 1 ELSE 0)' = 0
  BY <1>2 DEF NoIterator
<1> QED
  BY <1>2, <1>3, <1>5, <1>6 DEF Abstract!DeleteNone

LEMMA FreeStep ==
  ASSUME ListInv, ListFree
  PROVE  ListInv' /\ Abstract!Free
<1>1. PICK c : Held(c)
  BY SomeChain
<1>2. /\ FreeNodes({Chain[i] : i \in DOMAIN Chain}, [next EXCEPT ![Root] = NULL])
      /\ nb_elt' = 0 /\ res' = 0 /\ NoIterator /\ ListTypes
  BY DEF ListFree, ListInv
<1>3. Chain = c /\ live = Nodes(c) /\ c \in Seq(Node) /\ DOMAIN c = 1 .. Len(c)
  BY <1>1, ChainFacts
<1>4. {Chain[i] : i \in DOMAIN Chain} = Nodes(c)
  BY <1>3 DEF Nodes
<1>5. Root \notin Nodes(c) /\ Nodes(c) \subseteq Node
  BY <1>3, ListConstantsOK DEF Nodes
<1>6. /\ live' = live \ Nodes(c)
      /\ next' = [m \in Places |-> IF m \in Nodes(c) THEN NULL ELSE [next EXCEPT ![Root] = NULL][m]]
      /\ elem' = [m \in Node |-> IF m \in Nodes(c) THEN NULL ELSE elem[m]]
  BY <1>2, <1>4 DEF FreeNodes, ListTypes, Pointers
<1>7. next' \in [Places -> Node \cup {NULL}] /\ next'[Root] = NULL /\ elem' \in [Node -> Elem \cup {NULL}]
  BY <1>2, <1>5, <1>6 DEF ListTypes, Pointers, Places
<1>8. IsChain(<<>>, next')
  BY <1>7, EmptyChain
<1>9. Held(<<>>)'
  <2>1. Nodes(<<>>) = {} /\ Len(<<>>) = 0 /\ live' = {}
    BY <1>3, <1>6 DEF Nodes
  <2> QED
    BY <1>2, <1>8, <2>1 DEF Held
<1>10. IteratorOn(<<>>)' /\ ListTypes'
  BY <1>2, <1>6, <1>7 DEF IteratorOn, NoIterator, ListTypes, Pointers
<1>11. ListInv'
  BY <1>9, <1>10, ChainKept
<1>12. Contents' = <<>>
  <2>1. Contents' = Elems(<<>>, elem')
    BY <1>8, ContentsAre
  <2> QED
    BY <2>1 DEF Elems
<1>13. (IF iter THEN pos + 1 ELSE 0)' = 0
  BY <1>2 DEF NoIterator
<1> QED
  BY <1>2, <1>11, <1>12, <1>13 DEF Abstract!Free

LEMMA FirstStep ==
  ASSUME ListInv, ListFirst
  PROVE  ListInv' /\ Abstract!IterFirst
<1>1. PICK c : Held(c) /\ IteratorOn(c)
  BY SomeChain
<1>2. ListTypes /\ UNCHANGED <<next, elem, nb_elt, live>>
  BY DEF ListInv, ListFirst
<1>3. Held(c)' /\ Contents' = Contents
  BY <1>1, <1>2, ListSame
<1>4. /\ Len(c) = nb_elt /\ nb_elt \in Nat /\ Len(Contents) = nb_elt
      /\ DOMAIN Contents = 1 .. nb_elt
      /\ \A i \in 0 .. nb_elt : next[PlaceIn(c, i)] = IF i < nb_elt THEN c[i + 1] ELSE NULL
      /\ \A i \in 1 .. nb_elt : Contents[i] = elem[c[i]]
      /\ \A i \in 1 .. nb_elt : c[i] \in Node
  BY <1>1, ChainFacts
<1>5. CASE nb_elt = 0
  <2>1. /\ actual' = NULL /\ iter' = FALSE /\ res' = NULL
        /\ prev' = prev /\ pos' = pos /\ displaced' = displaced
    BY <1>5 DEF ListFirst
  <2>2. IteratorOn(c)' /\ ListTypes'
    BY <1>2, <2>1 DEF IteratorOn, ListTypes
  <2>3. ListInv'
    BY <1>3, <2>2, ChainKept
  <2>4. Contents = <<>> /\ 1 \notin DOMAIN Contents
    BY <1>4, <1>5 DEF Contents
  <2>5. (IF iter THEN pos + 1 ELSE 0)' = 0
    BY <2>1
  <2> QED
    BY <1>3, <2>1, <2>3, <2>4, <2>5 DEF Abstract!IterFirst, Abstract!At
<1>6. CASE nb_elt # 0
  <2>1. 0 \in 0 .. nb_elt /\ 0 < nb_elt /\ 1 \in 1 .. nb_elt /\ ~(nb_elt <= 0) /\ 0 <= nb_elt
    BY <1>4, <1>6
  <2>2. next[Root] = c[1]
    BY <1>4, <2>1 DEF PlaceIn
  <2>3. /\ actual' = c[1] /\ prev' = Root /\ pos' = 0 /\ iter' = TRUE /\ displaced' = FALSE
        /\ res' = elem[c[1]]
    BY <2>1, <2>2 DEF ListFirst
  <2>4. IteratorOn(c)'
    BY <1>4, <2>1, <2>3 DEF IteratorOn, PlaceIn
  <2>5. ListTypes'
    BY <1>2, <1>4, <2>1, <2>3 DEF ListTypes, Places
  <2>6. ListInv'
    BY <1>3, <2>4, <2>5, ChainKept
  <2>7. Contents # <<>> /\ 1 \in DOMAIN Contents /\ Contents[1] = elem[c[1]]
    BY <1>4, <1>6, <2>1
  <2>8. (IF iter THEN pos + 1 ELSE 0)' = 1
    BY <2>3
  <2> QED
    BY <1>3, <2>3, <2>6, <2>7, <2>8 DEF Abstract!IterFirst, Abstract!At
<1> QED
  BY <1>5, <1>6

LEMMA NextStep ==
  ASSUME ListInv, IterNext
  PROVE  ListInv' /\ Abstract!IterNext
<1>1. PICK c : Held(c) /\ IteratorOn(c)
  BY SomeChain
<1>2. /\ ListTypes /\ UNCHANGED <<next, elem, nb_elt, live>>
      /\ iter /\ iter' = iter /\ actual # NULL
      /\ prev' = actual /\ pos' = pos + 1 /\ displaced' = FALSE
      /\ actual' = IF HasElem(next[actual], pos + 1, nb_elt) THEN next[actual] ELSE NULL
      /\ res' = ElemAt(actual')
  BY DEF ListInv, IterNext
<1>3. Held(c)' /\ Contents' = Contents
  BY <1>1, <1>2, ListSame
<1>4. /\ Len(c) = nb_elt /\ nb_elt \in Nat /\ DOMAIN Contents = 1 .. nb_elt
      /\ \A i \in 0 .. nb_elt : next[PlaceIn(c, i)] = IF i < nb_elt THEN c[i + 1] ELSE NULL
      /\ \A i \in 1 .. nb_elt : Contents[i] = elem[c[i]]
      /\ \A i \in 1 .. nb_elt : c[i] \in Node /\ c[i] # NULL
  BY <1>1, ChainFacts
<1>5. pos \in Nat /\ pos < nb_elt /\ actual = c[pos + 1]
  BY <1>1, <1>2, <1>4 DEF ListTypes, IteratorOn
<1> DEFINE q == pos + 1
<1>6. q \in 0 .. nb_elt /\ q \in 1 .. nb_elt /\ q # 0 /\ (q < nb_elt => q + 1 \in 1 .. nb_elt)
  BY <1>4, <1>5
<1>7. actual = c[q] /\ pos' = q /\ q \in Nat
  BY <1>2, <1>5
<1>8. actual' = IF HasElem(next[actual], q, nb_elt) THEN next[actual] ELSE NULL
  BY <1>2
<1> HIDE DEF q
<1>9. actual' = IF q < nb_elt THEN c[q + 1] ELSE NULL
  <2>1. next[actual] = IF q < nb_elt THEN c[q + 1] ELSE NULL
    BY <1>4, <1>6, <1>7 DEF PlaceIn
  <2> QED
    BY <1>4, <1>6, <1>8, <2>1 DEF HasElem
<1>10. IteratorOn(c)'
  BY <1>2, <1>4, <1>6, <1>7, <1>9 DEF IteratorOn, PlaceIn
<1>11. ListTypes'
  BY <1>2, <1>4, <1>6, <1>7, <1>9 DEF ListTypes, Places
<1>12. ListInv'
  BY <1>3, <1>10, <1>11, ChainKept
<1>13. res' = Abstract!At(q + 1)
  <2>1. CASE q < nb_elt
    <3>1. q + 1 \in 1 .. nb_elt /\ c[q + 1] # NULL /\ Contents[q + 1] = elem[c[q + 1]]
      BY <1>4, <1>6, <2>1
    <3> QED
      BY <1>2, <1>4, <1>9, <2>1, <3>1 DEF Abstract!At, ElemAt
  <2>2. CASE ~(q < nb_elt)
    <3>1. q + 1 \notin 1 .. nb_elt
      BY <1>4, <1>6, <2>2
    <3> QED
      BY <1>2, <1>4, <1>9, <2>2, <3>1 DEF Abstract!At, ElemAt
  <2> QED
    BY <2>1, <2>2
<1>14. /\ (IF iter THEN pos + 1 ELSE 0) = q
       /\ (IF iter THEN pos + 1 ELSE 0)' = q + 1
  BY <1>2, <1>7 DEF q
<1> QED
  BY <1>3, <1>4, <1>6, <1>12, <1>13, <1>14 DEF Abstract!IterNext

LEMMA IterRemoveStep ==
  ASSUME ~RemoveDisplaced, ListInv, IterRemove
  PROVE  ListInv' /\ Abstract!IterRemove
<1>1. PICK c : Held(c) /\ IteratorOn(c)
  BY SomeChain
<1>2. /\ ListTypes /\ iter /\ iter' = iter /\ ~displaced /\ displaced' = displaced
      /\ prev' = prev /\ pos' = pos
      /\ res' = IF HasElem(actual', pos, nb_elt') THEN elem[actual'] ELSE NULL
  BY DEF ListInv, IterRemove
<1>3. /\ Len(c) = nb_elt /\ nb_elt \in Nat /\ DOMAIN Contents = 1 .. nb_elt /\ Len(Contents) = nb_elt
      /\ \A i \in 0 .. nb_elt : next[PlaceIn(c, i)] = IF i < nb_elt THEN c[i + 1] ELSE NULL
      /\ \A i \in 1 .. nb_elt : Contents[i] = elem[c[i]]
      /\ \A i \in 1 .. nb_elt : c[i] \in Node /\ c[i] # NULL
      /\ \A i, j \in 1 .. nb_elt : c[i] = c[j] => i = j
  BY <1>1, ChainFacts
<1> DEFINE q == pos + 1
<1>4. /\ pos \in Nat /\ pos <= nb_elt /\ q \in Nat /\ q # 0
      /\ actual = IF pos < nb_elt THEN c[q] ELSE NULL
      /\ actual # NULL => prev = PlaceIn(c, pos)
  BY <1>1, <1>2, <1>3 DEF ListTypes, IteratorOn
<1>5. q \in 1 .. nb_elt <=> pos < nb_elt
  BY <1>3, <1>4
<1>6. (IF iter THEN pos + 1 ELSE 0) = q /\ (IF iter THEN pos + 1 ELSE 0)' = q /\ q > 0
  BY <1>2, <1>4
<1>7. CASE pos < nb_elt
  <2>1. actual = c[q] /\ c[q] # NULL /\ c[q] \in Node /\ prev = PlaceIn(c, pos) /\ HasElem(actual, pos, nb_elt)
    BY <1>3, <1>4, <1>5, <1>7 DEF HasElem
  <2>2. /\ nb_elt' = nb_elt - 1 /\ actual' = next[c[q]]
        /\ FreeNodes({c[q]}, [next EXCEPT ![PlaceIn(c, pos)] = next[c[q]]])
    BY <2>1 DEF IterRemove
  <2>3. /\ next' \in Pointers /\ elem' \in [Node -> Elem \cup {NULL}] /\ live' \subseteq Node
        /\ Contents' = RemoveAt(Contents, q)
        /\ \E d : /\ Held(d)'
                  /\ \A k \in 1 .. nb_elt - 1 : k <= pos => d[k] = c[k]
                  /\ \A k \in 1 .. nb_elt - 1 : k > pos => d[k] = c[k + 1]
    BY <1>1, <1>2, <1>4, <1>7, <2>2, UnlinkStep
  <2>4. PICK d : /\ Held(d)'
                 /\ \A k \in 1 .. nb_elt - 1 : k <= pos => d[k] = c[k]
                 /\ \A k \in 1 .. nb_elt - 1 : k > pos => d[k] = c[k + 1]
    BY <2>3
  <2>5. Len(d) = nb_elt - 1 /\ nb_elt - 1 \in Nat /\ pos <= Len(d)
    BY <1>3, <1>4, <1>7, <2>2, <2>4 DEF Held
  <2>6. actual' = IF pos < Len(d) THEN d[q] ELSE NULL
    <3>1. next[c[q]] = IF q < nb_elt THEN c[q + 1] ELSE NULL
      BY <1>3, <1>4, <1>5, <1>7 DEF PlaceIn
    <3>2. q < nb_elt <=> pos < Len(d)
      BY <1>3, <1>4, <2>5
    <3>3. q < nb_elt => d[q] = c[q + 1]
      <4>1. q < nb_elt => q \in 1 .. nb_elt - 1 /\ q > pos
        BY <1>3, <1>4
      <4> QED
        BY <2>4, <4>1
    <3> QED
      BY <2>2, <3>1, <3>2, <3>3
  <2>7. actual' \in Node \cup {NULL}
    <3>1. next[c[q]] \in Node \cup {NULL}
      BY <1>2, <2>1 DEF ListTypes, Pointers, Places
    <3> QED
      BY <2>2, <3>1
  <2>8. prev' = PlaceIn(d, pos)
    <3>1. pos # 0 => pos \in 1 .. nb_elt - 1 /\ pos <= pos
      BY <1>3, <1>4, <1>7
    <3> QED
      BY <1>2, <2>1, <2>4, <3>1 DEF PlaceIn
  <2>9. IteratorOn(d)'
    <3>1. pos' <= Len(d) /\ actual' = IF pos' < Len(d) THEN d[pos' + 1] ELSE NULL
      BY <1>2, <2>5, <2>6
    <3> QED
      BY <1>2, <2>8, <3>1 DEF IteratorOn
  <2>10. ListTypes'
    BY <1>2, <2>3, <2>7 DEF ListTypes
  <2>11. ListInv'
    BY <2>4, <2>9, <2>10, ChainKept
  <2>12. /\ DOMAIN Contents' = 1 .. nb_elt - 1
         /\ \A k \in 1 .. nb_elt - 1 : Contents'[k] = elem'[d[k]]
    <3>1. IsChain(d, next')
      BY <2>4 DEF Held
    <3>2. Contents' = Elems(d, elem')
      BY <3>1, ContentsAre
    <3> QED
      BY <2>5, <3>2 DEF Elems
  <2>13. res' = Abstract!At(q)'
    <3>1. nb_elt' = Len(d) /\ q' = q
      BY <1>2, <2>2, <2>5
    <3>2. CASE pos < Len(d)
      <4>1. q \in 1 .. nb_elt - 1 /\ d[q] = c[q + 1] /\ q + 1 \in 1 .. nb_elt
        BY <1>3, <1>4, <2>4, <2>5, <3>2
      <4>2. d[q] # NULL /\ d[q] \in Node /\ d[q] # c[q]
        <5>1. q # q + 1
          BY <1>4
        <5> QED
          BY <1>3, <1>5, <1>7, <4>1, <5>1
      <4>3. elem'[d[q]] = elem[d[q]]
        BY <2>2, <4>2 DEF FreeNodes
      <4>4. HasElem(actual', pos, nb_elt')
        BY <2>6, <3>1, <3>2, <4>2 DEF HasElem
      <4> QED
        BY <1>2, <2>6, <2>12, <3>1, <3>2, <4>1, <4>3, <4>4 DEF Abstract!At
    <3>3. CASE ~(pos < Len(d))
      <4>1. q \notin 1 .. nb_elt - 1
        BY <1>3, <1>4, <2>5, <3>3
      <4>2. ~HasElem(actual', pos, nb_elt')
        BY <2>6, <3>3 DEF HasElem
      <4> QED
        BY <1>2, <2>12, <3>1, <4>1, <4>2 DEF Abstract!At
    <3> QED
      BY <3>2, <3>3
  <2>14. q \in DOMAIN Contents /\ q' = q
    BY <1>2, <1>3, <1>5, <1>7
  <2> HIDE DEF q
  <2>15. Contents' = Abstract!RemoveAt(Contents, q)
    BY <2>3 DEF Abstract!RemoveAt, RemoveAt
  <2> QED
    BY <1>6, <2>11, <2>13, <2>14, <2>15 DEF Abstract!IterRemove
<1>8. CASE ~(pos < nb_elt)
  <2>1. ~HasElem(actual, pos, nb_elt) /\ actual = NULL
    BY <1>4, <1>8 DEF HasElem
  <2>2. UNCHANGED <<next, elem, nb_elt, live>> /\ actual' = actual
    BY <2>1 DEF IterRemove
  <2>3. Held(c)' /\ Contents' = Contents
    BY <1>1, <2>2, ListSame
  <2>4. IteratorOn(c)'
    BY <1>1, <1>2, <2>2 DEF IteratorOn
  <2>5. ListTypes'
    BY <1>2, <2>2 DEF ListTypes
  <2>6. ListInv'
    BY <2>3, <2>4, <2>5, ChainKept
  <2>7. res' = NULL
    BY <1>2, <2>1, <2>2 DEF HasElem
  <2>8. q \notin DOMAIN Contents /\ q' = q
    BY <1>2, <1>3, <1>5, <1>8
  <2>9. res' = Abstract!At(q)'
    BY <2>3, <2>7, <2>8 DEF Abstract!At
  <2> HIDE DEF q
  <2> QED
    BY <1>6, <2>3, <2>6, <2>8, <2>9 DEF Abstract!IterRemove
<1> QED
  BY <1>7, <1>8

LEMMA ListStep ==
  ASSUME ~RemoveDisplaced, ListInv, [ListNext]_listVars
  PROVE  ListInv' /\ [Abstract!Next]_(Abstract!vars)
<1>1. CASE ListNext
  <2>1. ASSUME NEW e \in Elem, NEW p \in Positions, ListAdd(e, p) PROVE ListInv' /\ Abstract!Next
    BY <2>1, AddStep DEF Abstract!Next
  <2>2. ASSUME NEW e \in Elem, NEW p \in Positions, IterAdd(e, p) PROVE ListInv' /\ Abstract!Next
    BY <2>2, IterAddStep DEF Abstract!Next
  <2>3. ASSUME NEW p \in Positions, ListGet(p) PROVE ListInv' /\ Abstract!Next
    BY <2>3, GetStep DEF Abstract!Next
  <2>4. ASSUME NEW p \in Positions, ListRemove(p) PROVE ListInv' /\ Abstract!Next
    BY <2>4, RemoveStep DEF Abstract!Next
  <2>5. ASSUME NEW p \in Positions, ListRemoveNone(p) PROVE ListInv' /\ Abstract!Next
    BY <2>5, RemoveNoneStep DEF Abstract!Next
  <2>6. CASE ListAddFails
    BY <2>6, AddFailsStep DEF Abstract!Next
  <2>7. CASE ListFree
    BY <2>7, FreeStep DEF Abstract!Next
  <2>8. CASE ListFirst
    BY <2>8, FirstStep DEF Abstract!Next
  <2>9. CASE IterNext
    BY <2>9, NextStep DEF Abstract!Next
  <2>10. CASE IterRemove
    BY <2>10, IterRemoveStep DEF Abstract!Next
  <2> QED
    BY <1>1, <2>1, <2>2, <2>3, <2>4, <2>5, <2>6, <2>7, <2>8, <2>9, <2>10 DEF ListNext
<1>2. CASE UNCHANGED listVars
  <2>1. PICK c : Held(c) /\ IteratorOn(c)
    BY SomeChain
  <2>2. /\ UNCHANGED <<next, elem, nb_elt, live>>
        /\ actual' = actual /\ prev' = prev /\ pos' = pos /\ iter' = iter /\ res' = res
        /\ displaced' = displaced
    BY <1>2 DEF listVars
  <2>3. Held(c)' /\ Contents' = Contents
    BY <2>1, <2>2, ListSame
  <2>4. IteratorOn(c)' /\ ListTypes'
    BY <2>1, <2>2 DEF IteratorOn, ListInv, ListTypes
  <2>5. ListInv'
    BY <2>3, <2>4, ChainKept
  <2>6. UNCHANGED Abstract!vars
    BY <2>2, <2>3 DEF Abstract!vars
  <2> QED
    BY <2>5, <2>6
<1> QED
  BY <1>1, <1>2

LEMMA ListStart ==
  ASSUME ListInit
  PROVE  ListInv /\ Abstract!Init
<1>1. next = [n \in Places |-> NULL] /\ next \in [Places -> Node \cup {NULL}] /\ next[Root] = NULL
  BY DEF ListInit, Places
<1>2. IsChain(<<>>, next)
  BY <1>1, EmptyChain
<1>3. Chain = <<>> /\ Contents = Elems(<<>>, elem)
  BY <1>2, ChainIs, ContentsAre
<1>4. Held(<<>>) /\ IteratorOn(<<>>)
  BY <1>2 DEF ListInit, Held, Nodes, IteratorOn
<1>5. ListTypes
  BY <1>1 DEF ListInit, ListTypes, Pointers, Places
<1>6. Contents = <<>>
  BY <1>3 DEF Elems
<1> QED
  BY <1>3, <1>4, <1>5, <1>6 DEF ListInit, ListInv, Abstract!Init

LEMMA IntactUnderInv ==
  ASSUME ListInv
  PROVE  ListIntact /\ NbEltCounts
<1>1. PICK c : Held(c)
  BY SomeChain
<1>2. /\ Chain = c /\ c \in Seq(Node) /\ Len(c) = nb_elt /\ nb_elt \in Nat /\ live = Nodes(c)
      /\ \A i, j \in 1 .. Len(c) : c[i] = c[j] => i = j
      /\ \A i \in 1 .. Len(c) : c[i] \in Node
  BY <1>1, ChainFacts
<1>3. nb_elt \in 0 .. Cardinality(Node)
  BY <1>2, ChainLength
<1>4. live = {c[i] : i \in DOMAIN c}
  BY <1>2 DEF Nodes
<1>5. Cardinality(live) = Len(c)
  <2>1. IsFiniteSet(1 .. Len(c)) /\ Cardinality(1 .. Len(c)) = Len(c)
    <3>1. \A m \in Nat : IsFiniteSet(1 .. m) /\ Cardinality(1 .. m) = IF 1 > m THEN 0 ELSE m - 1 + 1
      BY FS_Interval
    <3>2. \A m \in Nat : m = IF 1 > m THEN 0 ELSE m - 1 + 1
      OBVIOUS
    <3> QED
      BY <1>2, <3>1, <3>2
  <2>2. c \in [1 .. Len(c) -> live]
    BY <1>2 DEF Nodes
  <2>3. c \in Bijection(1 .. Len(c), live)
    BY <1>2, <2>2 DEF Bijection, Injection, Surjection, IsInjective, Nodes
  <2> QED
    BY <2>1, <2>3, FS_Bijection DEF ExistsBijection
<1> QED
  BY <1>2, <1>3, <1>4, <1>5 DEF ListInv, ListTypes, ListIntact, NbEltCounts, Pointers

-----------------------------------------------------------------------------
(* Unless a caller removes at a place where it has just added, the pointers
   form one chain of the live nodes that ends in NULL, and nb_elt counts it,
   whatever is added and removed around an iterator (thread_ex.c:428-643). *)
THEOREM ListStaysIntact ==
  ~RemoveDisplaced => (ListSpecification => [](ListIntact /\ NbEltCounts))
<1> SUFFICES ASSUME ~RemoveDisplaced PROVE ListSpecification => [](ListIntact /\ NbEltCounts)
  OBVIOUS
<1>1. ListInit => ListInv
  BY ListStart
<1>2. ListInv /\ [ListNext]_listVars => ListInv'
  BY ListStep
<1>3. ListInv => ListIntact /\ NbEltCounts
  BY IntactUnderInv
<1> QED
  BY <1>1, <1>2, <1>3, PTL DEF ListSpecification

(* And the list with its iterator is the sequence with a position of ListSpec:
   every call returns what it returns of the sequence, and changes it so. *)
THEOREM ListIsSequence ==
  ~RemoveDisplaced => (ListSpecification => SequenceSpec)
<1> SUFFICES ASSUME ~RemoveDisplaced PROVE ListSpecification => SequenceSpec
  OBVIOUS
<1>1. ListInit => ListInv /\ Abstract!Init
  BY ListStart
<1>2. ListInv /\ [ListNext]_listVars => ListInv' /\ [Abstract!Next]_(Abstract!vars)
  BY ListStep
<1> QED
  BY <1>1, <1>2, PTL DEF ListSpecification, SequenceSpec, Abstract!Spec
-----------------------------------------------------------------------------
(* Sequences of records *)

Records == [node : Leak, address : Addr]

\* The indices of the records with address a.
At(s, a) == {i \in 1 .. Len(s) : s[i].address = a}

LEMMA LeastExists ==
  ASSUME NEW S, S \subseteq Nat, S # {}
  PROVE  Min(S) \in S
BY LeastElement DEF Min

LEMMA FindFirst ==
  ASSUME NEW a, chain \in Seq(Records)
  PROVE  \/ Find(a) = 0 /\ At(chain, a) = {}
         \/ Find(a) \in At(chain, a) /\ Find(a) \in 1 .. Len(chain)
<1>1. Find(a) = IF At(chain, a) # {} THEN Min(At(chain, a)) ELSE 0
  BY DEF Find, SelectInSeq, At
<1>2. At(chain, a) \subseteq 1 .. Len(chain) /\ At(chain, a) \subseteq Nat
  BY DEF At
<1> QED
  BY <1>1, <1>2, LeastExists

LEMMA AtFinite ==
  ASSUME NEW s \in Seq(Records), NEW a
  PROVE  IsFiniteSet(At(s, a)) /\ Cardinality(At(s, a)) \in Nat
<1>1. IsFiniteSet(1 .. Len(s)) /\ At(s, a) \in SUBSET (1 .. Len(s))
  BY FS_Interval DEF At
<1>2. IsFiniteSet(At(s, a))
  BY <1>1, FS_Subset
<1> QED
  BY <1>2, FS_CardinalityType

\* One more record.
LEMMA AppendCounts ==
  ASSUME NEW s \in Seq(Records), NEW r \in Records, NEW a
  PROVE  Cardinality(At(Append(s, r), a))
           = IF r.address = a THEN Cardinality(At(s, a)) + 1 ELSE Cardinality(At(s, a))
<1>1. Len(s) \in Nat /\ Len(s) + 1 \notin At(s, a) /\ IsFiniteSet(At(s, a))
  <2>1. Len(s) \in Nat /\ Len(s) + 1 \notin 1 .. Len(s)
    OBVIOUS
  <2> QED
    BY <2>1, AtFinite DEF At
<1>2. Len(Append(s, r)) = Len(s) + 1 /\ Append(s, r)[Len(s) + 1] = r
  OBVIOUS
<1>3. \A i \in 1 .. Len(s) : Append(s, r)[i] = s[i]
  OBVIOUS
<1>4. CASE r.address = a
  <2>1. At(Append(s, r), a) = At(s, a) \cup {Len(s) + 1}
    BY <1>1, <1>2, <1>3, <1>4 DEF At
  <2> QED
    BY <1>1, <1>4, <2>1, FS_AddElement, ZenonT(60)
<1>5. CASE r.address # a
  <2>1. At(Append(s, r), a) = At(s, a)
    BY <1>1, <1>2, <1>3, <1>5 DEF At
  <2> QED
    BY <1>5, <2>1
<1> QED
  BY <1>4, <1>5

\* A record whose address is changed.
LEMMA ReplaceKeeps ==
  ASSUME NEW s \in Seq(Records), NEW n \in 1 .. Len(s), NEW b \in Addr
  PROVE  LET t == [s EXCEPT ![n].address = b]
         IN  /\ t \in Seq(Records) /\ Len(t) = Len(s)
             /\ \A i \in 1 .. Len(s) : /\ t[i].node = s[i].node
                                       /\ t[i].address = IF i = n THEN b ELSE s[i].address
<1> DEFINE t == [s EXCEPT ![n].address = b]
<1>1. /\ Len(s) \in Nat /\ DOMAIN s = 1 .. Len(s) /\ s \in [1 .. Len(s) -> Records]
  OBVIOUS
<1>2. \A i \in 1 .. Len(s) : s[i] \in Records /\ [s[i] EXCEPT !.address = b] \in Records
  BY <1>1 DEF Records
<1>3. t = [i \in 1 .. Len(s) |-> IF i = n THEN [s[n] EXCEPT !.address = b] ELSE s[i]]
  BY <1>1
<1>4. t \in [1 .. Len(s) -> Records]
  BY <1>2, <1>3
<1>5. \A i \in 1 .. Len(s) : t[i] = IF i = n THEN [s[n] EXCEPT !.address = b] ELSE s[i]
  BY <1>3
<1>6. \A i \in 1 .. Len(s) : /\ t[i].node = s[i].node
                             /\ t[i].address = IF i = n THEN b ELSE s[i].address
  BY <1>2, <1>5 DEF Records
<1> HIDE DEF t
<1>7. t \in Seq(Records) /\ Len(t) = Len(s)
  BY <1>1, <1>4
<1> QED
  BY <1>6, <1>7 DEF t

LEMMA ReplaceCounts ==
  ASSUME NEW s \in Seq(Records), NEW n \in 1 .. Len(s), NEW b \in Addr, NEW a,
         s[n].address # b,
         NEW t, Len(t) = Len(s),
         \A i \in 1 .. Len(s) : t[i].address = IF i = n THEN b ELSE s[i].address
  PROVE  Cardinality(At(t, a))
           = IF a = b THEN Cardinality(At(s, a)) + 1
             ELSE IF a = s[n].address THEN Cardinality(At(s, a)) - 1
             ELSE Cardinality(At(s, a))
<1>1. Len(s) \in Nat
  OBVIOUS
<1>2. IsFiniteSet(At(s, a))
  BY AtFinite
<1>3. CASE a = b
  <2>1. At(t, a) = At(s, a) \cup {n} /\ n \notin At(s, a)
    BY <1>1, <1>3 DEF At
  <2> QED
    BY <1>1, <1>2, <1>3, <2>1, FS_AddElement
<1>4. CASE a # b /\ a = s[n].address
  <2>1. At(t, a) = At(s, a) \ {n} /\ n \in At(s, a)
    BY <1>1, <1>4 DEF At
  <2> QED
    BY <1>1, <1>2, <1>4, <2>1, FS_RemoveElement
<1>5. CASE a # b /\ a # s[n].address
  <2>1. At(t, a) = At(s, a)
    BY <1>1, <1>5 DEF At
  <2> QED
    BY <1>1, <1>5, <2>1
<1> QED
  BY <1>3, <1>4, <1>5

LEMMA RemoveCounts ==
  ASSUME NEW s \in Seq(Records), NEW n \in 1 .. Len(s), NEW a
  PROVE  Cardinality(At(RemoveAt(s, n), a))
           = IF s[n].address = a THEN Cardinality(At(s, a)) - 1 ELSE Cardinality(At(s, a))
<1>0. /\ RemoveAt(s, n) \in Seq(Records) /\ Len(RemoveAt(s, n)) = Len(s) - 1
      /\ \A i \in 1 .. Len(s) - 1 : RemoveAt(s, n)[i] = s[IF i < n THEN i ELSE i + 1]
  BY RemoveShifts, Zenon
<1> DEFINE t == RemoveAt(s, n)
           A == At(s, a) \ {n}
           B == At(t, a)
           f == [i \in A |-> IF i < n THEN i ELSE i - 1]
<1>1. /\ Len(t) = Len(s) - 1 /\ Len(s) \in Nat
      /\ \A i \in 1 .. Len(s) - 1 : t[i] = s[IF i < n THEN i ELSE i + 1]
  <2>1. Len(s) \in Nat
    OBVIOUS
  <2> QED
    BY <1>0, <2>1, Zenon
<1> HIDE DEF t
<1>2. A \subseteq 1 .. Len(s) /\ n \notin A
  BY DEF At
<1>3. \A i \in A : f[i] \in B
  <2> SUFFICES ASSUME NEW i \in A PROVE f[i] \in B
    OBVIOUS
  <2>1. i \in 1 .. Len(s) /\ i # n /\ s[i].address = a
    BY DEF At
  <2>2. CASE i < n
    BY <1>1, <2>1, <2>2 DEF At
  <2>3. CASE i > n
    BY <1>1, <2>1, <2>3 DEF At
  <2> QED
    BY <2>1, <2>2, <2>3
<1>4. \A i, j \in A : f[i] = f[j] => i = j
  <2> SUFFICES ASSUME NEW i \in A, NEW j \in A, f[i] = f[j] PROVE i = j
    OBVIOUS
  <2>1. i \in 1 .. Len(s) /\ i # n /\ j \in 1 .. Len(s) /\ j # n
    BY DEF At
  <2>2. (IF i < n THEN i ELSE i - 1) = (IF j < n THEN j ELSE j - 1)
    OBVIOUS
  <2> QED
    BY <1>1, <2>1, <2>2
<1>5. \A j \in B : \E i \in A : f[i] = j
  <2> SUFFICES ASSUME NEW j \in B PROVE \E i \in A : f[i] = j
    OBVIOUS
  <2>1. j \in 1 .. Len(s) - 1 /\ t[j].address = a
    BY <1>1 DEF At
  <2>2. CASE j < n
    <3>1. j \in A /\ f[j] = j
      BY <1>1, <2>1, <2>2 DEF At
    <3> QED
      BY <3>1
  <2>3. CASE ~(j < n)
    <3>1. j + 1 \in A
      BY <1>1, <2>1, <2>3 DEF At
    <3>2. f[j + 1] = j
      BY <1>1, <2>1, <2>3, <3>1
    <3> QED
      BY <3>1, <3>2
  <2> QED
    BY <2>2, <2>3
<1>6. IsFiniteSet(At(s, a)) /\ IsFiniteSet(A)
  BY AtFinite, FS_RemoveElement
<1>7. Cardinality(B) = Cardinality(A)
  <2>1. f \in Bijection(A, B)
    BY <1>3, <1>4, <1>5 DEF Bijection, Injection, Surjection, IsInjective
  <2>2. ExistsBijection(A, B)
    BY <2>1 DEF ExistsBijection
  <2> QED
    BY <1>6, <2>2, FS_Bijection
<1>8. Cardinality(A) = IF n \in At(s, a) THEN Cardinality(At(s, a)) - 1 ELSE Cardinality(At(s, a))
  BY <1>6, FS_RemoveElement
<1>9. n \in At(s, a) <=> s[n].address = a
  BY DEF At
<1> QED
  BY <1>7, <1>8, <1>9 DEF t

-----------------------------------------------------------------------------
(* The inductive invariant *)

LeakTypeOK ==
  /\ heap \in SUBSET Addr
  /\ owned \in [User -> SUBSET Addr]
  /\ chain \in Seq(Records)
  /\ call \in [User -> {"idle", "add", "free", "replace"}]
  /\ old \in [User -> Addr] /\ new \in [User -> Addr]
  /\ missed \in BOOLEAN

\* The block a thread is busy with, which it does not own at the moment.
InHand(u) == IF call[u] \in {"add", "replace"} THEN {new[u]}
             ELSE IF call[u] = "free" THEN {old[u]} ELSE {}
Mine(u) == owned[u] \cup InHand(u)

\* Every block is one thread's; realloc left the old address to others.
HeapInv ==
  /\ \A u \in User : Mine(u) \subseteq heap /\ InHand(u) \cap owned[u] = {}
  /\ \A u, v \in User : u # v => Mine(u) \cap Mine(v) = {}
  /\ \A a \in heap : \E u \in User : a \in Mine(u)
  /\ \A u \in User : call[u] = "replace" => old[u] \notin owned[u] /\ old[u] # new[u]

\* A record hung behind ptr_next is hung behind the last one.
PtrInv == chain # <<>> => chain[Len(chain)].node = ptr_next

\* The threads that a record of address a is there for: the owner, and those
\* whose realloc moved away from a and that have not updated the record.
Due(a) == {u \in User : a \in owned[u] \/ (call[u] = "replace" /\ old[u] = a)}

CountInv ==
  \A a \in Addr : /\ Cardinality(At(chain, a)) <= Cardinality(Due(a))
                  /\ ~missed => Cardinality(At(chain, a)) = Cardinality(Due(a))

LeakInv == LeakTypeOK /\ HeapInv /\ PtrInv /\ CountInv

LEMMA DueFinite ==
  \A a : /\ IsFiniteSet(Due(a)) /\ Cardinality(Due(a)) \in Nat
         /\ Due(a) # {} => Cardinality(Due(a)) > 0
<1> TAKE a
<1>1. Due(a) \in SUBSET User
  BY DEF Due
<1>2. IsFiniteSet(Due(a))
  BY <1>1, FS_Subset, LeakConstantsOK
<1> QED
  BY <1>2, FS_CardinalityType, FS_EmptySet

-----------------------------------------------------------------------------
(* What the steps preserve, part by part *)

LEMMA InitInv == LeakInit => LeakInv
<1> SUFFICES ASSUME LeakInit PROVE LeakInv
  OBVIOUS
<1>1. (CHOOSE a \in Addr : TRUE) \in Addr
  BY LeakConstantsOK
<1>2. LeakTypeOK
  <2> DEFINE c == CHOOSE a \in Addr : TRUE
  <2>1. c \in Addr /\ old = [u \in User |-> c] /\ new = [u \in User |-> c]
    BY <1>1 DEF LeakInit
  <2>2. /\ heap = {} /\ chain = <<>> /\ owned = [u \in User |-> {}]
        /\ call = [u \in User |-> "idle"] /\ missed = FALSE
    BY DEF LeakInit
  <2> HIDE DEF c
  <2>3. old \in [User -> Addr] /\ new \in [User -> Addr]
    BY <2>1
  <2>4. chain \in Seq(Records)
    BY <2>2
  <2>5. call \in [User -> {"idle", "add", "free", "replace"}] /\ owned \in [User -> SUBSET Addr]
    BY <2>2
  <2> QED
    BY <2>2, <2>3, <2>4, <2>5 DEF LeakTypeOK
<1>3. HeapInv /\ PtrInv
  BY DEF LeakInit, HeapInv, PtrInv, Mine, InHand
<1>4. \A a \in Addr : At(chain, a) = {} /\ Due(a) = {}
  BY DEF LeakInit, At, Due
<1>5. CountInv
  BY <1>4, FS_EmptySet DEF CountInv
<1> QED
  BY <1>2, <1>3, <1>5 DEF LeakInv

LEMMA NextType == LeakTypeOK /\ PtrInv /\ LeakNext => LeakTypeOK' /\ PtrInv'
<1> SUFFICES ASSUME LeakTypeOK, PtrInv, LeakNext PROVE LeakTypeOK' /\ PtrInv'
  OBVIOUS
<1>1. CASE Report
  BY <1>1 DEF Report, LeakTypeOK, PtrInv
<1>2. ASSUME NEW u \in User, Allocate(u) PROVE LeakTypeOK' /\ PtrInv'
  BY <1>2 DEF Allocate, Become, LeakTypeOK, PtrInv
<1>3. ASSUME NEW u \in User, AppendRecord(u) PROVE LeakTypeOK' /\ PtrInv'
  <2>1. PICK n \in Leak : /\ ptr_next' = n
                          /\ chain' = IF chain = <<>> \/ Last(chain).node = ptr_next
                                      THEN Append(chain, Record(n, new[u])) ELSE chain
    BY <1>3 DEF AppendRecord
  <2>2. chain' = Append(chain, Record(n, new[u]))
    BY <2>1 DEF PtrInv, Last
  <2>3. Record(n, new[u]) \in Records
    BY DEF Record, Records, LeakTypeOK
  <2>4. /\ chain' \in Seq(Records) /\ Len(chain') = Len(chain) + 1
        /\ chain'[Len(chain')] = Record(n, new[u])
    BY <2>2, <2>3 DEF LeakTypeOK
  <2>5. PtrInv'
    BY <2>1, <2>4 DEF PtrInv, Record
  <2>6. LeakTypeOK'
    BY <1>3, <2>4 DEF AppendRecord, Become, LeakTypeOK
  <2> QED
    BY <2>5, <2>6
<1>4. ASSUME NEW u \in User, AppendFails(u) PROVE LeakTypeOK' /\ PtrInv'
  BY <1>4 DEF AppendFails, Become, LeakTypeOK, PtrInv
<1>5. ASSUME NEW u \in User, NEW a \in Addr, RemoveRecord(u, a) PROVE LeakTypeOK' /\ PtrInv'
  <2>1. chain' \in Seq(Records) /\ PtrInv'
    <3>1. CASE Find(a) > 0
      <4> DEFINE n == Find(a)
      <4>1. n \in 1 .. Len(chain) /\ Len(chain) \in Nat
        BY <3>1, FindFirst DEF LeakTypeOK
      <4>2. /\ chain' = RemoveAt(chain, n)
            /\ ptr_next' = IF n > 1 /\ n = Len(chain) THEN chain[n - 1].node ELSE ptr_next
        BY <1>5, <3>1 DEF RemoveRecord, Erase
      <4> HIDE DEF n
      <4>3. /\ chain' \in Seq(Records) /\ Len(chain') = Len(chain) - 1
            /\ \A i \in 1 .. Len(chain) - 1 : chain'[i] = chain[IF i < n THEN i ELSE i + 1]
        BY <4>1, <4>2, RemoveShifts DEF LeakTypeOK
      <4>4. CASE n = Len(chain)
        BY <4>1, <4>2, <4>3, <4>4 DEF PtrInv
      <4>5. CASE n < Len(chain)
        <5>1. Len(chain) - 1 \in 1 .. Len(chain) - 1 /\ chain # <<>>
          BY <4>1, <4>5
        <5>2. chain'[Len(chain')] = chain[Len(chain)]
          BY <4>1, <4>3, <4>5, <5>1
        <5> QED
          BY <4>1, <4>2, <4>3, <4>5, <5>1, <5>2 DEF PtrInv
      <4> QED
        BY <4>1, <4>4, <4>5
    <3>2. CASE ~(Find(a) > 0)
      BY <1>5, <3>2 DEF RemoveRecord, LeakTypeOK, PtrInv
    <3> QED
      BY <3>1, <3>2
  <2> QED
    BY <1>5, <2>1 DEF RemoveRecord, Become, LeakTypeOK
<1>6. ASSUME NEW u \in User, NEW a \in Addr, Reallocate(u, a) PROVE LeakTypeOK' /\ PtrInv'
  BY <1>6 DEF Reallocate, Become, LeakTypeOK, PtrInv
<1>7. ASSUME NEW u \in User, Release(u) PROVE LeakTypeOK' /\ PtrInv'
  BY <1>7 DEF Release, Become, LeakTypeOK, PtrInv
<1>8. ASSUME NEW u \in User, ReplaceRecord(u) PROVE LeakTypeOK' /\ PtrInv'
  <2>1. chain' \in Seq(Records) /\ PtrInv'
    <3>1. CASE Find(old[u]) > 0
      <4> DEFINE n == Find(old[u])
      <4>0. n \in 1 .. Len(chain)
        BY <3>1, FindFirst DEF LeakTypeOK
      <4>1. chain' = [chain EXCEPT ![n].address = new[u]]
        BY <1>8, <3>1 DEF ReplaceRecord
      <4> HIDE DEF n
      <4>2. /\ chain' \in Seq(Records) /\ Len(chain') = Len(chain)
            /\ \A i \in 1 .. Len(chain) : chain'[i].node = chain[i].node
        BY <4>0, <4>1, ReplaceKeeps DEF LeakTypeOK
      <4>3. Len(chain) \in 1 .. Len(chain) /\ chain # <<>>
        BY <4>0 DEF LeakTypeOK
      <4>4. chain[Len(chain)].node = ptr_next /\ ptr_next' = ptr_next
        BY <1>8, <4>3 DEF PtrInv, ReplaceRecord
      <4>5. chain'[Len(chain')].node = chain[Len(chain)].node
        BY <4>2, <4>3
      <4> QED
        BY <4>2, <4>4, <4>5 DEF PtrInv
    <3>2. CASE ~(Find(old[u]) > 0)
      BY <1>8, <3>2 DEF ReplaceRecord, LeakTypeOK, PtrInv
    <3> QED
      BY <3>1, <3>2
  <2> QED
    BY <1>8, <2>1 DEF ReplaceRecord, Become, LeakTypeOK
<1> QED
  BY <1>1, <1>2, <1>3, <1>4, <1>5, <1>6, <1>7, <1>8 DEF LeakNext, UserStep

\* The address that a thread was busy with becomes its own.
LEMMA HandOver ==
  ASSUME LeakTypeOK, HeapInv, NEW u \in User, call[u] \in {"add", "replace"},
         call' = [call EXCEPT ![u] = "idle"],
         owned' = [owned EXCEPT ![u] = @ \cup {new[u]}],
         UNCHANGED <<heap, old, new>>
  PROVE  HeapInv'
<1>1. \A v \in User : call'[v] = IF v = u THEN "idle" ELSE call[v]
  BY DEF LeakTypeOK
<1>2. \A v \in User : owned'[v] = IF v = u THEN owned[u] \cup {new[u]} ELSE owned[v]
  BY DEF LeakTypeOK
<1>3. \A v \in User : v # u => InHand(v)' = InHand(v) /\ Mine(v)' = Mine(v)
  BY <1>1, <1>2 DEF Mine, InHand
<1>4. InHand(u)' = {} /\ Mine(u)' = Mine(u)
  <2>1. InHand(u)' = {} /\ InHand(u) = {new[u]}
    BY <1>1 DEF InHand
  <2> QED
    BY <1>2, <2>1 DEF Mine
<1>5. \A v \in User : Mine(v)' = Mine(v)
  BY <1>3, <1>4
<1>6. \A v \in User : Mine(v)' \subseteq heap' /\ InHand(v)' \cap owned'[v] = {}
  BY <1>2, <1>3, <1>4 DEF HeapInv
<1>7. \A v \in User : call'[v] = "replace" => old'[v] \notin owned'[v] /\ old'[v] # new'[v]
  BY <1>1, <1>2 DEF HeapInv
<1>8. \A v, w \in User : v # w => Mine(v)' \cap Mine(w)' = {}
  BY <1>5 DEF HeapInv
<1>9. \A a \in heap' : \E v \in User : a \in Mine(v)'
  BY <1>5 DEF HeapInv
<1> QED
  BY <1>6, <1>7, <1>8, <1>9 DEF HeapInv

LEMMA NextHeap == LeakTypeOK /\ HeapInv /\ LeakNext => HeapInv'
<1> SUFFICES ASSUME LeakTypeOK, HeapInv, LeakNext PROVE HeapInv'
  OBVIOUS
<1>1. CASE Report
  BY <1>1 DEF Report, HeapInv, Mine, InHand
<1>2. ASSUME NEW u \in User, Allocate(u) PROVE HeapInv'
  BY <1>2 DEF Allocate, Idle, Become, LeakTypeOK, HeapInv, Mine, InHand
<1>3. ASSUME NEW u \in User, AppendRecord(u) PROVE HeapInv'
  BY <1>3, HandOver DEF AppendRecord, Become
<1>4. ASSUME NEW u \in User, AppendFails(u) PROVE HeapInv'
  BY <1>4, HandOver DEF AppendFails, Become
<1>5. ASSUME NEW u \in User, NEW a \in Addr, RemoveRecord(u, a) PROVE HeapInv'
  BY <1>5 DEF RemoveRecord, Idle, Become, LeakTypeOK, HeapInv, Mine, InHand
<1>6. ASSUME NEW u \in User, NEW a \in Addr, Reallocate(u, a) PROVE HeapInv'
  BY <1>6 DEF Reallocate, Idle, Become, LeakTypeOK, HeapInv, Mine, InHand
<1>7. ASSUME NEW u \in User, Release(u) PROVE HeapInv'
  BY <1>7 DEF Release, Become, LeakTypeOK, HeapInv, Mine, InHand
<1>8. ASSUME NEW u \in User, ReplaceRecord(u) PROVE HeapInv'
  BY <1>8, HandOver DEF ReplaceRecord, Become
<1> QED
  BY <1>1, <1>2, <1>3, <1>4, <1>5, <1>6, <1>7, <1>8 DEF LeakNext, UserStep

\* A thread that gets an address joins those it is due to.
LEMMA OwnedCounts ==
  ASSUME LeakTypeOK, HeapInv, NEW u \in User, NEW a \in Addr, call[u] = "add",
         call' = [call EXCEPT ![u] = "idle"],
         owned' = [owned EXCEPT ![u] = @ \cup {new[u]}],
         UNCHANGED old
  PROVE  Cardinality(Due(a)') = IF new[u] = a THEN Cardinality(Due(a)) + 1
                                ELSE Cardinality(Due(a))
<1>1. new[u] \notin owned[u]
  BY DEF HeapInv, InHand
<1>2. CASE new[u] = a
  <2>1. Due(a)' = Due(a) \cup {u} /\ u \notin Due(a)
    BY <1>1, <1>2 DEF Due, LeakTypeOK
  <2> QED
    BY <1>2, <2>1, FS_AddElement, DueFinite
<1>3. CASE new[u] # a
  <2>1. Due(a)' = Due(a)
    BY <1>3 DEF Due, LeakTypeOK
  <2> QED
    BY <1>3, <2>1
<1> QED
  BY <1>2, <1>3

\* A thread that gives an address back leaves them.
LEMMA GivenUpCounts ==
  ASSUME LeakTypeOK, NEW u \in User, NEW a \in Addr, NEW b \in Addr,
         call[u] = "idle", b \in owned[u],
         call' = [call EXCEPT ![u] = "free"],
         owned' = [owned EXCEPT ![u] = @ \ {b}],
         old' = [old EXCEPT ![u] = b]
  PROVE  Cardinality(Due(a)') = IF a = b THEN Cardinality(Due(a)) - 1
                                ELSE Cardinality(Due(a))
<1>1. CASE a = b
  <2>1. Due(a)' = Due(a) \ {u} /\ u \in Due(a)
    BY <1>1 DEF Due, LeakTypeOK
  <2> QED
    BY <1>1, <2>1, FS_RemoveElement, DueFinite, ZenonT(60)
<1>2. CASE a # b
  <2>1. Due(a)' = Due(a)
    BY <1>2 DEF Due, LeakTypeOK
  <2> QED
    BY <1>2, <2>1
<1> QED
  BY <1>1, <1>2

\* A thread whose realloc is recorded moves from one address to the other.
LEMMA MovedCounts ==
  ASSUME LeakTypeOK, HeapInv, NEW u \in User, NEW a \in Addr, call[u] = "replace",
         call' = [call EXCEPT ![u] = "idle"],
         owned' = [owned EXCEPT ![u] = @ \cup {new[u]}],
         UNCHANGED old
  PROVE  Cardinality(Due(a)') = IF a = new[u] THEN Cardinality(Due(a)) + 1
                                ELSE IF a = old[u] THEN Cardinality(Due(a)) - 1
                                ELSE Cardinality(Due(a))
<1>1. new[u] \notin owned[u] /\ old[u] \notin owned[u] /\ old[u] # new[u]
  BY DEF HeapInv, InHand
<1>2. CASE a = new[u]
  <2>1. Due(a)' = Due(a) \cup {u} /\ u \notin Due(a)
    BY <1>1, <1>2 DEF Due, LeakTypeOK
  <2> QED
    BY <1>2, <2>1, FS_AddElement, DueFinite
<1>3. CASE a # new[u] /\ a = old[u]
  <2>1. Due(a)' = Due(a) \ {u} /\ u \in Due(a)
    BY <1>1, <1>3 DEF Due, LeakTypeOK
  <2> QED
    BY <1>3, <2>1, FS_RemoveElement, DueFinite, ZenonT(60)
<1>4. CASE a # new[u] /\ a # old[u]
  <2>1. Due(a)' = Due(a)
    BY <1>4 DEF Due, LeakTypeOK
  <2> QED
    BY <1>4, <2>1
<1> QED
  BY <1>2, <1>3, <1>4

\* With every step there are as many records of an address as it is due to.
LEMMA NextCount == LeakInv /\ HeapInv' /\ LeakNext => CountInv'
<1> SUFFICES ASSUME LeakInv, HeapInv', LeakNext, NEW a \in Addr
             PROVE  /\ Cardinality(At(chain, a))' <= Cardinality(Due(a))'
                    /\ ~missed' => Cardinality(At(chain, a))' = Cardinality(Due(a))'
  BY DEF CountInv
<1> DEFINE Counted == /\ Cardinality(At(chain, a))' <= Cardinality(Due(a))'
                      /\ ~missed' => Cardinality(At(chain, a))' = Cardinality(Due(a))'
<1> USE DEF LeakInv
<1>a. /\ Cardinality(At(chain, a)) <= Cardinality(Due(a))
      /\ ~missed => Cardinality(At(chain, a)) = Cardinality(Due(a))
  BY DEF CountInv
<1>b. /\ IsFiniteSet(At(chain, a)) /\ Cardinality(At(chain, a)) \in Nat
      /\ IsFiniteSet(Due(a)) /\ Cardinality(Due(a)) \in Nat
      /\ Due(a) # {} => Cardinality(Due(a)) > 0
  BY AtFinite, DueFinite DEF LeakTypeOK
<1>1. CASE Report
  <2>1. At(chain, a)' = {}
    BY <1>1 DEF Report, At
  <2>2. Due(a)' = Due(a)
    BY <1>1 DEF Report, Due
  <2>3. ~missed' => Due(a) = {}
    BY <1>1 DEF Report, Due, Idle, HeapInv, Mine
  <2>4. Cardinality(At(chain, a)') = 0 /\ Cardinality(Due(a)') = Cardinality(Due(a))
        /\ (~missed' => Cardinality(Due(a)) = 0)
    BY <2>1, <2>2, <2>3, FS_EmptySet
  <2> QED
    BY <1>b, <2>4
<1>2. ASSUME NEW u \in User, Allocate(u) PROVE Counted
  <2>1. Due(a)' = Due(a) /\ At(chain, a)' = At(chain, a)
    BY <1>2 DEF Allocate, Idle, Become, Due, At, LeakTypeOK
  <2> QED
    BY <1>2, <1>a, <2>1 DEF Allocate
<1>3. ASSUME NEW u \in User, AppendRecord(u) PROVE Counted
  <2>1. PICK n \in Leak : chain' = Append(chain, Record(n, new[u]))
    BY <1>3 DEF AppendRecord, PtrInv, Last
  <2>2. Record(n, new[u]) \in Records /\ Record(n, new[u]).address = new[u]
    BY DEF Record, Records, LeakTypeOK
  <2>3. Cardinality(At(chain', a)) = IF new[u] = a THEN Cardinality(At(chain, a)) + 1
                                     ELSE Cardinality(At(chain, a))
    BY <2>1, <2>2, AppendCounts DEF LeakTypeOK
  <2>4. Cardinality(Due(a)') = IF new[u] = a THEN Cardinality(Due(a)) + 1
                               ELSE Cardinality(Due(a))
    BY <1>3, OwnedCounts DEF AppendRecord, Become
  <2>5. At(chain, a)' = At(chain', a) /\ missed' = missed
    BY <1>3 DEF At, AppendRecord
  <2> QED
    BY <1>a, <1>b, <2>3, <2>4, <2>5
<1>4. ASSUME NEW u \in User, AppendFails(u) PROVE Counted
  <2>1. Cardinality(Due(a)') = IF new[u] = a THEN Cardinality(Due(a)) + 1
                               ELSE Cardinality(Due(a))
    BY <1>4, OwnedCounts DEF AppendFails, Become
  <2>2. At(chain, a)' = At(chain, a) /\ missed' = TRUE
    BY <1>4 DEF AppendFails, At
  <2> QED
    BY <1>a, <1>b, <2>1, <2>2
<1>5. ASSUME NEW u \in User, NEW b \in Addr, RemoveRecord(u, b) PROVE Counted
  <2>1. Cardinality(Due(a)') = IF a = b THEN Cardinality(Due(a)) - 1 ELSE Cardinality(Due(a))
    BY <1>5, GivenUpCounts DEF RemoveRecord, Idle, Become
  <2>2. u \in Due(b) /\ missed' = missed
    BY <1>5 DEF RemoveRecord, Due
  <2>3. CASE Find(b) > 0
    <3>1. /\ Find(b) \in 1 .. Len(chain) /\ chain[Find(b)].address = b
          /\ chain' = RemoveAt(chain, Find(b))
      BY <1>5, <2>3, FindFirst DEF RemoveRecord, Erase, LeakTypeOK, At
    <3>2. Cardinality(At(chain', a)) = IF a = b THEN Cardinality(At(chain, a)) - 1
                                       ELSE Cardinality(At(chain, a))
      BY <3>1, RemoveCounts DEF LeakTypeOK
    <3>3. At(chain, a)' = At(chain', a)
      BY DEF At
    <3> QED
      BY <1>a, <1>b, <2>1, <2>2, <3>2, <3>3
  <2>4. CASE ~(Find(b) > 0)
    <3>1. At(chain, b) = {} /\ At(chain, a)' = At(chain, a)
      BY <1>5, <2>4, FindFirst DEF RemoveRecord, LeakTypeOK, At
    <3>2. a = b => Cardinality(At(chain, a)) = 0
      BY <3>1, FS_EmptySet
    <3> QED
      BY <1>a, <1>b, <2>1, <2>2, <3>1, <3>2
  <2> QED
    BY <2>3, <2>4
<1>6. ASSUME NEW u \in User, NEW b \in Addr, Reallocate(u, b) PROVE Counted
  <2>1. Due(a)' = Due(a) /\ At(chain, a)' = At(chain, a)
    BY <1>6 DEF Reallocate, Idle, Become, Due, At, LeakTypeOK
  <2> QED
    BY <1>6, <1>a, <2>1 DEF Reallocate
<1>7. ASSUME NEW u \in User, Release(u) PROVE Counted
  <2>1. Due(a)' = Due(a) /\ At(chain, a)' = At(chain, a)
    BY <1>7 DEF Release, Become, Due, At, LeakTypeOK
  <2> QED
    BY <1>7, <1>a, <2>1 DEF Release
<1>8. ASSUME NEW u \in User, ReplaceRecord(u) PROVE Counted
  <2>1. Cardinality(Due(a)') = IF a = new[u] THEN Cardinality(Due(a)) + 1
                               ELSE IF a = old[u] THEN Cardinality(Due(a)) - 1
                               ELSE Cardinality(Due(a))
    BY <1>8, MovedCounts DEF ReplaceRecord, Become
  <2>2. u \in Due(old[u]) /\ missed' = missed /\ old[u] # new[u]
    BY <1>8 DEF ReplaceRecord, Due, HeapInv
  <2>3. CASE Find(old[u]) > 0
    <3> DEFINE n == Find(old[u])
    <3>0. n \in 1 .. Len(chain) /\ chain[n].address = old[u]
      BY <2>3, FindFirst DEF LeakTypeOK, At
    <3>1. chain' = [chain EXCEPT ![n].address = new[u]]
      BY <1>8, <2>3 DEF ReplaceRecord
    <3> HIDE DEF n
    <3>2. Cardinality(At(chain', a)) = IF a = new[u] THEN Cardinality(At(chain, a)) + 1
                                       ELSE IF a = old[u] THEN Cardinality(At(chain, a)) - 1
                                       ELSE Cardinality(At(chain, a))
      <4>1. chain \in Seq(Records) /\ new[u] \in Addr /\ chain[n].address # new[u]
        BY <2>2, <3>0 DEF LeakTypeOK
      <4>2. /\ Len(chain') = Len(chain)
            /\ \A i \in 1 .. Len(chain) :
                 chain'[i].address = IF i = n THEN new[u] ELSE chain[i].address
        BY <3>0, <3>1, <4>1, ReplaceKeeps
      <4> QED
        BY <3>0, <4>1, <4>2, ReplaceCounts
    <3>3. At(chain, a)' = At(chain', a)
      BY DEF At
    <3> QED
      BY <1>a, <1>b, <2>1, <2>2, <3>2, <3>3
  <2>4. CASE ~(Find(old[u]) > 0)
    <3>1. At(chain, old[u]) = {} /\ At(chain, a)' = At(chain, a)
      BY <1>8, <2>4, FindFirst DEF ReplaceRecord, LeakTypeOK, At
    <3>2. a = old[u] => Cardinality(At(chain, a)) = 0
      BY <3>1, FS_EmptySet
    <3>3. missed
      <4>1. Cardinality(At(chain, old[u])) = 0 /\ Cardinality(Due(old[u])) > 0
        BY <2>2, <3>1, FS_EmptySet, DueFinite
      <4> QED
        BY <4>1 DEF CountInv, LeakTypeOK
    <3> QED
      BY <1>a, <1>b, <2>1, <2>2, <3>1, <3>2, <3>3
  <2> QED
    BY <2>3, <2>4
<1> QED
  BY <1>1, <1>2, <1>3, <1>4, <1>5, <1>6, <1>7, <1>8 DEF LeakNext, UserStep

LEMMA LeakInductive == LeakInv /\ [LeakNext]_leakVars => LeakInv'
<1>1. LeakInv /\ LeakNext => LeakInv'
  BY NextType, NextHeap, NextCount DEF LeakInv
<1>2. LeakInv /\ UNCHANGED leakVars => LeakInv'
  <2> SUFFICES ASSUME LeakInv, UNCHANGED leakVars PROVE LeakInv'
    OBVIOUS
  <2>1. LeakTypeOK' /\ PtrInv'
    BY DEF leakVars, LeakInv, LeakTypeOK, PtrInv
  <2>2. HeapInv'
    BY DEF leakVars, LeakInv, HeapInv, Mine, InHand
  <2>3. \A a : At(chain, a)' = At(chain, a) /\ Due(a)' = Due(a)
    BY DEF leakVars, At, Due
  <2>4. CountInv'
    BY <2>3 DEF leakVars, LeakInv, CountInv
  <2> QED
    BY <2>1, <2>2, <2>4 DEF LeakInv
<1> QED
  BY <1>1, <1>2

-----------------------------------------------------------------------------
(* The theorem *)

\* When no call is under way every address is due to its owner alone.
LEMMA ExactWhenIdle == LeakInv => RecordsExact
<1> SUFFICES ASSUME LeakInv, \A u \in User : Idle(u)
             PROVE  LET recorded == {r.address : r \in ToSet(chain)}
                    IN  /\ Cardinality(recorded) = Len(chain)
                        /\ recorded \subseteq heap
                        /\ ~missed => recorded = heap
  BY DEF RecordsExact
<1> USE DEF LeakInv
<1> DEFINE recorded == {r.address : r \in ToSet(chain)}
<1>1. Len(chain) \in Nat /\ \A i \in 1 .. Len(chain) : chain[i] \in Records /\ chain[i].address \in Addr
  <2>1. Len(chain) \in Nat /\ \A i \in 1 .. Len(chain) : chain[i] \in Records
    BY DEF LeakTypeOK
  <2> QED
    BY <2>1 DEF Records
<1>2. recorded = {chain[i].address : i \in 1 .. Len(chain)}
  BY <1>1 DEF ToSet, LeakTypeOK
<1>3. \A u \in User : InHand(u) = {} /\ Mine(u) = owned[u]
  BY DEF Idle, InHand, Mine
<1>4. \A a : Due(a) = {u \in User : a \in Mine(u)}
  BY <1>3 DEF Due, Idle
<1>5. ASSUME NEW a \in Addr PROVE Cardinality(Due(a)) <= 1
  <2>1. CASE Due(a) = {}
    BY <2>1, FS_EmptySet
  <2>2. CASE Due(a) # {}
    <3>1. PICK u : u \in Due(a)
      BY <2>2
    <3>2. Due(a) = {u}
      BY <1>4, <3>1 DEF HeapInv
    <3> QED
      BY <3>2, FS_Singleton
  <2> QED
    BY <2>1, <2>2
<1>6. ASSUME NEW a \in recorded PROVE a \in heap
  <2>1. PICK i \in 1 .. Len(chain) : a = chain[i].address
    BY <1>2
  <2>2. a \in Addr /\ At(chain, a) # {}
    BY <1>1, <2>1 DEF At
  <2>3. Cardinality(At(chain, a)) # 0 /\ Cardinality(At(chain, a)) \in Nat
    BY <2>2, AtFinite, FS_EmptySet DEF LeakTypeOK
  <2>4. Cardinality(Due(a)) # 0
    BY <2>2, <2>3, DueFinite DEF CountInv
  <2>5. PICK u : u \in Due(a)
    BY <2>4, FS_EmptySet
  <2> QED
    BY <1>4, <2>5 DEF HeapInv
<1>7. ASSUME ~missed, NEW a \in heap PROVE a \in recorded
  <2>1. PICK u \in User : a \in Mine(u)
    BY DEF HeapInv
  <2>2. a \in Addr /\ u \in Due(a)
    BY <1>4, <2>1 DEF LeakTypeOK
  <2>3. Cardinality(At(chain, a)) > 0
    BY <1>7, <2>2, DueFinite DEF CountInv
  <2>4. At(chain, a) # {}
    BY <2>3, FS_EmptySet
  <2> QED
    BY <1>2, <2>4 DEF At
<1>8. Cardinality(recorded) = Len(chain)
  <2> DEFINE f == [i \in 1 .. Len(chain) |-> chain[i].address]
  <2>1. ASSUME NEW i \in 1 .. Len(chain), NEW j \in 1 .. Len(chain), f[i] = f[j] PROVE i = j
    <3> DEFINE a == chain[i].address
    <3>1. a \in Addr /\ i \in At(chain, a) /\ j \in At(chain, a)
      BY <1>1, <2>1 DEF At
    <3> HIDE DEF a
    <3>2. IsFiniteSet(At(chain, a)) /\ Cardinality(At(chain, a)) \in Nat /\ Cardinality(Due(a)) \in Nat
      BY AtFinite, DueFinite DEF LeakTypeOK
    <3>3. Cardinality(At(chain, a)) <= 1
      BY <1>5, <3>1, <3>2 DEF CountInv
    <3>4. ASSUME i # j PROVE FALSE
      <4>1. /\ IsFiniteSet(At(chain, a) \ {i}) /\ j \in At(chain, a) \ {i}
            /\ Cardinality(At(chain, a) \ {i}) = Cardinality(At(chain, a)) - 1
        BY <3>1, <3>2, <3>4, FS_RemoveElement
      <4>2. Cardinality(At(chain, a) \ {i}) # 0 /\ Cardinality(At(chain, a) \ {i}) \in Nat
        BY <4>1, FS_EmptySet, FS_CardinalityType
      <4> QED
        BY <3>2, <3>3, <4>1, <4>2
    <3> QED
      BY <3>4
  <2>2. f \in Bijection(1 .. Len(chain), recorded)
    <3>1. f \in [1 .. Len(chain) -> recorded]
      BY <1>2
    <3>2. \A r \in recorded : \E i \in 1 .. Len(chain) : f[i] = r
      BY <1>2
    <3> HIDE DEF f, recorded
    <3> QED
      BY <2>1, <3>1, <3>2 DEF Bijection, Injection, Surjection, IsInjective
  <2>3. ExistsBijection(1 .. Len(chain), recorded)
    <3> HIDE DEF f, recorded
    <3> QED
      BY <2>2 DEF ExistsBijection
  <2>4. IsFiniteSet(1 .. Len(chain)) /\ Cardinality(1 .. Len(chain)) = Len(chain)
    BY <1>1, FS_Interval
  <2> HIDE DEF recorded
  <2> QED
    BY <2>3, <2>4, FS_Bijection
<1> HIDE DEF recorded
<1>9. recorded \subseteq heap /\ (~missed => recorded = heap)
  BY <1>6, <1>7
<1> QED
  BY <1>8, <1>9 DEF recorded

\* Whatever the order in which the threads allocate, move and free, a report
\* that is made between the calls (memory.c:251) lists each block once and no
\* others, and all of them if none was left without a record.
THEOREM LeakRecordsExact == LeakSpec => []RecordsExact
<1> QED
  BY InitInv, LeakInductive, ExactWhenIdle, PTL DEF LeakSpec

-----------------------------------------------------------------------------
(* The streams and children of Vpopen *)

PopenTypes ==
  /\ at \in [Client -> {"idle", "calloc", "pipe", "fork", "store", "wait", "clear"}]
  /\ state \in [Stream -> {"free", "pipe", "open", "closed"}]
  /\ fileno \in [Stream -> Fd \cup {0}]
  /\ childpid = <<>> \/ childpid \in [Fd -> Stream \cup {NoChild}]
  /\ streams \in [Client -> Seq(Stream)]
  /\ DOMAIN cur = Client
  /\ running \subseteq Stream
  /\ overlap \in BOOLEAN

\* Each stream that is in use is one thread's: in its list when it is open,
\* and otherwise the one it is busy with.
StreamInv ==
  /\ \A c \in Client :
       /\ at[c] \in {"fork", "store"} => cur[c] \in Stream /\ state[cur[c]] = "pipe"
       /\ at[c] \in {"wait", "clear"} => cur[c] \in Stream /\ state[cur[c]] = "closed"
       /\ \A i \in 1 .. Len(streams[c]) : state[streams[c][i]] = "open"
  /\ \A c, d \in Client :
       /\ at[c] \in {"fork", "store", "wait", "clear"} /\ at[d] \in {"fork", "store", "wait", "clear"}
          /\ cur[c] = cur[d] => c = d
       /\ \A i \in 1 .. Len(streams[c]), j \in 1 .. Len(streams[d]) :
            streams[c][i] = streams[d][j] => c = d /\ i = j
  /\ \A s \in Stream : state[s] = "closed" =>
       \E c \in Client : at[c] \in {"wait", "clear"} /\ cur[c] = s

\* A child has ended before its stream is free.
EndedInv ==
  /\ \A s \in Stream : state[s] = "free" => s \notin running
  /\ \A c \in Client : at[c] \in {"fork", "clear"} => cur[c] \notin running

\* The table is there when it is needed.
TableInv ==
  /\ \A c \in Client : at[c] \notin {"idle", "calloc"} => DOMAIN childpid = Fd
  /\ \A s \in Stream : state[s] # "free" => fileno[s] \in Fd /\ DOMAIN childpid = Fd

\* While no ms_vpopen has overlapped another call, whoever opens is alone.
LoneInv ==
  ~overlap =>
    \A c \in Client :
      /\ at[c] \in {"calloc", "pipe", "fork", "store"} => \A d \in Client \ {c} : at[d] = "idle"
      /\ at[c] = "calloc" => childpid = <<>>

\* And streams in use have different descriptors, behind which the table knows
\* the children of those that are open.
KnownInv ==
  ~overlap =>
    /\ \A s, t \in Stream : state[s] # "free" /\ state[t] # "free" /\ fileno[s] = fileno[t] => s = t
    /\ \A s \in Stream : state[s] = "open" => childpid[fileno[s]] = s

PopenInv == PopenTypes /\ StreamInv /\ EndedInv /\ TableInv /\ LoneInv /\ KnownInv

LEMMA LongPrefix ==
  ASSUME NEW T, NEW r \in Seq(T), Len(r) > 0
  PROVE  /\ SubSeq(r, 1, Len(r) - 1) \in Seq(T) /\ Len(SubSeq(r, 1, Len(r) - 1)) = Len(r) - 1
         /\ \A i \in 1 .. Len(r) - 1 : SubSeq(r, 1, Len(r) - 1)[i] = r[i]
<1> DEFINE m == Len(r) - 1
           v == SubSeq(r, 1, m)
<1>1. m \in Nat /\ \A i \in 1 .. m : r[i] \in T
  OBVIOUS
<1>2. v \in Seq(T) /\ Len(v) = m /\ \A i \in 1 .. m : v[i] = r[i]
  <2> HIDE DEF m
  <2> QED
    BY <1>1, SubSeqProperties
<1> QED
  BY <1>2

LEMMA PopenStart ==
  PopenInit => PopenInv
<1> SUFFICES ASSUME PopenInit PROVE PopenInv
  OBVIOUS
<1>1. /\ childpid = <<>> /\ running = {} /\ overlap = FALSE
      /\ state = [s \in Stream |-> "free"] /\ fileno = [s \in Stream |-> 0]
      /\ streams = [c \in Client |-> <<>>] /\ at = [c \in Client |-> "idle"]
      /\ DOMAIN cur = Client
  BY DEF PopenInit
<1>2. /\ \A s \in Stream : state[s] = "free"
      /\ \A c \in Client : at[c] = "idle" /\ streams[c] = <<>> /\ 1 .. Len(streams[c]) = {}
  BY <1>1
<1>3. PopenTypes
  <2>1. /\ at \in [Client -> {"idle", "calloc", "pipe", "fork", "store", "wait", "clear"}]
        /\ state \in [Stream -> {"free", "pipe", "open", "closed"}]
        /\ fileno \in [Stream -> Fd \cup {0}] /\ streams \in [Client -> Seq(Stream)]
    BY <1>1
  <2> QED
    BY <1>1, <2>1 DEF PopenTypes
<1>4. StreamInv
  BY <1>2 DEF StreamInv
<1>5. EndedInv /\ TableInv /\ LoneInv /\ KnownInv
  BY <1>1, <1>2 DEF EndedInv, TableInv, LoneInv, KnownInv
<1> QED
  BY <1>3, <1>4, <1>5 DEF PopenInv

\* A thread calls ms_vpopen.
LEMMA OpenStep ==
  ASSUME PopenInv, NEW c \in Client, Open(c)
  PROVE  PopenInv'
<1>1. /\ at[c] = "idle" /\ at' = [at EXCEPT ![c] = IF childpid = <<>> THEN "calloc" ELSE "pipe"]
      /\ overlap' = (overlap \/ Busy(c))
      /\ UNCHANGED <<childpid, state, running, type, fileno, writers, streams, cur>>
  BY DEF Open, Goes
<1>2. PopenTypes /\ StreamInv /\ EndedInv /\ TableInv /\ LoneInv /\ KnownInv
  BY DEF PopenInv
<1>3. /\ \A d \in Client : at'[d] = IF d # c THEN at[d] ELSE IF childpid = <<>> THEN "calloc" ELSE "pipe"
      /\ overlap \in BOOLEAN
  BY <1>1, <1>2 DEF PopenTypes
<1>4. PopenTypes'
  BY <1>1, <1>2 DEF PopenTypes, Busy
<1>5. \A d \in Client : /\ at'[d] \in {"fork", "store"} <=> at[d] \in {"fork", "store"}
                        /\ at'[d] \in {"wait", "clear"} <=> at[d] \in {"wait", "clear"}
                        /\ at'[d] \in {"fork", "clear"} <=> at[d] \in {"fork", "clear"}
                        /\ at'[d] \in {"fork", "store", "wait", "clear"} <=>
                             at[d] \in {"fork", "store", "wait", "clear"}
  BY <1>1, <1>3
<1>6. StreamInv'
  BY <1>1, <1>2, <1>5 DEF StreamInv
<1>7. EndedInv'
  BY <1>1, <1>2, <1>5 DEF EndedInv
<1>8. TableInv'
  <2>1. childpid # <<>> => DOMAIN childpid = Fd
    BY <1>2 DEF PopenTypes
  <2> QED
    BY <1>1, <1>2, <1>3, <2>1 DEF TableInv
<1>9. LoneInv'
  <2>1. ~overlap' => ~overlap /\ \A d \in Client \ {c} : at[d] = "idle"
    BY <1>1, <1>3 DEF Busy
  <2> QED
    BY <1>1, <1>2, <1>3, <2>1 DEF LoneInv
<1>10. KnownInv'
  BY <1>1, <1>2 DEF KnownInv
<1> QED
  BY <1>4, <1>6, <1>7, <1>8, <1>9, <1>10 DEF PopenInv

\* The table is allocated.
LEMMA CallocStep ==
  ASSUME PopenInv, NEW c \in Client, Calloc(c)
  PROVE  PopenInv'
<1>1. /\ at[c] = "calloc" /\ at' = [at EXCEPT ![c] = "pipe"]
      /\ childpid' = [f \in Fd |-> NoChild]
      /\ UNCHANGED <<state, running, type, fileno, writers, streams, cur, overlap>>
  BY DEF Calloc, Goes
<1>2. PopenTypes /\ StreamInv /\ EndedInv /\ TableInv /\ LoneInv /\ KnownInv
  BY DEF PopenInv
<1>3. \A d \in Client : at'[d] = IF d = c THEN "pipe" ELSE at[d]
  BY <1>1, <1>2 DEF PopenTypes
<1>4. PopenTypes'
  <2>1. at' \in [Client -> {"idle", "calloc", "pipe", "fork", "store", "wait", "clear"}]
    BY <1>1, <1>2 DEF PopenTypes
  <2>2. childpid' \in [Fd -> Stream \cup {NoChild}]
    BY <1>1
  <2> QED
    BY <1>1, <1>2, <2>1, <2>2 DEF PopenTypes
<1>5. \A d \in Client : /\ at'[d] \in {"fork", "store"} <=> at[d] \in {"fork", "store"}
                        /\ at'[d] \in {"wait", "clear"} <=> at[d] \in {"wait", "clear"}
                        /\ at'[d] \in {"fork", "clear"} <=> at[d] \in {"fork", "clear"}
                        /\ at'[d] \in {"fork", "store", "wait", "clear"} <=>
                             at[d] \in {"fork", "store", "wait", "clear"}
  BY <1>1, <1>3
<1>6. StreamInv'
  BY <1>1, <1>2, <1>5 DEF StreamInv
<1>7. EndedInv'
  BY <1>1, <1>2, <1>5 DEF EndedInv
<1>8. TableInv'
  <2>1. DOMAIN childpid' = Fd
    BY <1>1
  <2> QED
    BY <1>1, <1>2, <2>1 DEF TableInv
<1>9. LoneInv'
  BY <1>1, <1>2, <1>3 DEF LoneInv
<1>10. KnownInv'
  <2>1. SUFFICES ASSUME ~overlap PROVE \A s \in Stream : state[s] = "free"
    BY <1>1, <1>2 DEF KnownInv
  <2>2. childpid = <<>>
    BY <1>1, <1>2, <2>1 DEF LoneInv
  <2>3. DOMAIN childpid = {}
    BY <2>2
  <2> QED
    BY <1>2, <2>3 DEF TableInv
<1> QED
  BY <1>4, <1>6, <1>7, <1>8, <1>9, <1>10 DEF PopenInv

\* An ms_vpopen that fails before it has a pipe.
LEMMA GiveUpStep ==
  ASSUME PopenInv, NEW c \in Client, CallocFails(c) \/ PipeFails(c)
  PROVE  PopenInv'
<1>1. /\ at[c] \in {"calloc", "pipe"} /\ at' = [at EXCEPT ![c] = "idle"]
      /\ UNCHANGED <<childpid, state, running, type, fileno, writers, streams, cur, overlap>>
  BY DEF CallocFails, PipeFails, Goes
<1>2. PopenTypes /\ StreamInv /\ EndedInv /\ TableInv /\ LoneInv /\ KnownInv
  BY DEF PopenInv
<1>3. \A d \in Client : at'[d] = IF d = c THEN "idle" ELSE at[d]
  BY <1>1, <1>2 DEF PopenTypes
<1>4. PopenTypes'
  BY <1>1, <1>2 DEF PopenTypes
<1>5. \A d \in Client : /\ at'[d] \in {"fork", "store"} <=> at[d] \in {"fork", "store"}
                        /\ at'[d] \in {"wait", "clear"} <=> at[d] \in {"wait", "clear"}
                        /\ at'[d] \in {"fork", "clear"} <=> at[d] \in {"fork", "clear"}
                        /\ at'[d] \in {"fork", "store", "wait", "clear"} <=>
                             at[d] \in {"fork", "store", "wait", "clear"}
  BY <1>1, <1>3
<1>6. StreamInv'
  BY <1>1, <1>2, <1>5 DEF StreamInv
<1>7. EndedInv'
  BY <1>1, <1>2, <1>5 DEF EndedInv
<1>8. TableInv'
  BY <1>1, <1>2, <1>3 DEF TableInv
<1>9. LoneInv'
  BY <1>1, <1>2, <1>3 DEF LoneInv
<1>10. KnownInv'
  BY <1>1, <1>2 DEF KnownInv
<1> QED
  BY <1>4, <1>6, <1>7, <1>8, <1>9, <1>10 DEF PopenInv

\* An ms_vpopen gets its pipe.
LEMMA PipeStep ==
  ASSUME PopenInv, NEW c \in Client, Pipe(c)
  PROVE  PopenInv'
<1>1. PICK s \in Stream, f \in Fd \ Used :
        /\ at[c] = "pipe" /\ at' = [at EXCEPT ![c] = "fork"]
        /\ state[s] = "free" /\ state' = [state EXCEPT ![s] = "pipe"]
        /\ cur' = [cur EXCEPT ![c] = s] /\ fileno' = [fileno EXCEPT ![s] = f]
        /\ UNCHANGED <<childpid, running, streams, overlap>>
  BY DEF Pipe, Goes
<1>2. PopenTypes /\ StreamInv /\ EndedInv /\ TableInv /\ LoneInv /\ KnownInv
  BY DEF PopenInv
<1>3. /\ \A d \in Client : at'[d] = IF d = c THEN "fork" ELSE at[d]
      /\ \A d \in Client : cur'[d] = IF d = c THEN s ELSE cur[d]
      /\ \A t \in Stream : state'[t] = IF t = s THEN "pipe" ELSE state[t]
      /\ \A t \in Stream : fileno'[t] = IF t = s THEN f ELSE fileno[t]
  BY <1>1, <1>2 DEF PopenTypes
<1>4. PopenTypes'
  <2>1. /\ at' \in [Client -> {"idle", "calloc", "pipe", "fork", "store", "wait", "clear"}]
        /\ state' \in [Stream -> {"free", "pipe", "open", "closed"}]
        /\ fileno' \in [Stream -> Fd \cup {0}] /\ DOMAIN cur' = Client
    BY <1>1, <1>2 DEF PopenTypes
  <2> QED
    BY <1>1, <1>2, <2>1 DEF PopenTypes
<1>5. StreamInv'
  <2>1. \A d \in Client : \A i \in 1 .. Len(streams[d]) : streams[d][i] \in Stream /\ streams[d][i] # s
    <3>1. ASSUME NEW d \in Client, NEW i \in 1 .. Len(streams[d])
          PROVE  streams[d][i] \in Stream /\ streams[d][i] # s
      <4>1. streams[d] \in Seq(Stream) /\ state[streams[d][i]] = "open"
        BY <1>2 DEF PopenTypes, StreamInv
      <4> QED
        BY <1>1, <4>1
    <3> QED
      BY <3>1
  <2>2. \A d \in Client : at[d] \in {"fork", "store", "wait", "clear"} => cur[d] \in Stream /\ cur[d] # s
    BY <1>1, <1>2 DEF StreamInv
  <2>3. \A d \in Client :
          /\ at'[d] \in {"fork", "store"} => cur'[d] \in Stream /\ state'[cur'[d]] = "pipe"
          /\ at'[d] \in {"wait", "clear"} => cur'[d] \in Stream /\ state'[cur'[d]] = "closed"
    BY <1>2, <1>3, <2>2 DEF StreamInv
  <2>4. \A d \in Client : \A i \in 1 .. Len(streams[d]) : state'[streams[d][i]] = "open"
    BY <1>2, <1>3, <2>1 DEF StreamInv
  <2>5. ASSUME NEW d \in Client, NEW e \in Client, cur'[d] = cur'[e],
               at'[d] \in {"fork", "store", "wait", "clear"}, at'[e] \in {"fork", "store", "wait", "clear"}
        PROVE  d = e
    BY <1>2, <1>3, <2>2, <2>5 DEF StreamInv
  <2>6. ASSUME NEW t \in Stream, state'[t] = "closed"
        PROVE  \E d \in Client : at'[d] \in {"wait", "clear"} /\ cur'[d] = t
    <3>1. PICK d \in Client : at[d] \in {"wait", "clear"} /\ cur[d] = t
      BY <1>2, <1>3, <2>6 DEF StreamInv
    <3>2. at'[d] = at[d] /\ cur'[d] = cur[d]
      BY <1>1, <1>3, <3>1
    <3> QED
      BY <3>1, <3>2
  <2>7. \A d, e \in Client : \A i \in 1 .. Len(streams[d]), j \in 1 .. Len(streams[e]) :
          streams[d][i] = streams[e][j] => d = e /\ i = j
    BY <1>2 DEF StreamInv
  <2> QED
    BY <1>1, <2>3, <2>4, <2>5, <2>6, <2>7 DEF StreamInv
<1>6. EndedInv'
  BY <1>1, <1>2, <1>3 DEF EndedInv
<1>7. TableInv'
  BY <1>1, <1>2, <1>3 DEF TableInv
<1>8. LoneInv'
  BY <1>1, <1>2, <1>3 DEF LoneInv
<1>9. KnownInv'
  <2>1. SUFFICES ASSUME ~overlap
                 PROVE  /\ \A t \in Stream : t # s /\ state[t] # "free" => fileno[t] # f
                        /\ \A t \in Stream : state'[t] = "open" => childpid[fileno'[t]] = t
    BY <1>1, <1>2, <1>3 DEF KnownInv
  <2>2. ASSUME NEW t \in Stream, t # s, state[t] # "free" PROVE fileno[t] # f
    <3>1. state[t] # "closed"
      BY <1>1, <1>2, <2>1 DEF StreamInv, LoneInv
    <3>2. state[t] \in {"pipe", "open"}
      BY <1>2, <2>2, <3>1 DEF PopenTypes
    <3> QED
      BY <3>2 DEF Used
  <2>3. \A t \in Stream : state'[t] = "open" => childpid[fileno'[t]] = t
    BY <1>2, <1>3, <2>1 DEF KnownInv
  <2> QED
    BY <2>2, <2>3
<1> QED
  BY <1>4, <1>5, <1>6, <1>7, <1>8, <1>9 DEF PopenInv

\* The child is there.
LEMMA VforkStep ==
  ASSUME PopenInv, NEW c \in Client, Vfork(c)
  PROVE  PopenInv'
<1>1. /\ at[c] = "fork" /\ at' = [at EXCEPT ![c] = "store"]
      /\ running' = running \cup {cur[c]}
      /\ UNCHANGED <<childpid, state, fileno, streams, cur, overlap>>
  BY DEF Vfork, Goes
<1>2. PopenTypes /\ StreamInv /\ EndedInv /\ TableInv /\ LoneInv /\ KnownInv
  BY DEF PopenInv
<1>3. \A d \in Client : at'[d] = IF d = c THEN "store" ELSE at[d]
  BY <1>1, <1>2 DEF PopenTypes
<1>4. cur[c] \in Stream /\ state[cur[c]] = "pipe"
  BY <1>1, <1>2 DEF StreamInv
<1>5. PopenTypes'
  <2>1. at' \in [Client -> {"idle", "calloc", "pipe", "fork", "store", "wait", "clear"}]
    BY <1>1, <1>2 DEF PopenTypes
  <2> QED
    BY <1>1, <1>2, <1>4, <2>1 DEF PopenTypes
<1>6. \A d \in Client : /\ at'[d] \in {"fork", "store"} <=> at[d] \in {"fork", "store"}
                        /\ at'[d] \in {"wait", "clear"} <=> at[d] \in {"wait", "clear"}
                        /\ at'[d] \in {"fork", "store", "wait", "clear"} <=>
                             at[d] \in {"fork", "store", "wait", "clear"}
  BY <1>1, <1>3
<1>7. StreamInv'
  BY <1>1, <1>2, <1>6 DEF StreamInv
<1>8. EndedInv'
  <2>1. ASSUME NEW d \in Client, at'[d] \in {"fork", "clear"} PROVE cur[d] \notin running \cup {cur[c]}
    <3>1. d # c /\ at[d] \in {"fork", "clear"}
      BY <1>3, <2>1
    <3>2. cur[d] # cur[c]
      BY <1>1, <1>2, <3>1 DEF StreamInv
    <3> QED
      BY <1>2, <3>1, <3>2 DEF EndedInv
  <2>2. \A s \in Stream : state[s] = "free" => s \notin running \cup {cur[c]}
    BY <1>2, <1>4 DEF EndedInv
  <2> QED
    BY <1>1, <2>1, <2>2 DEF EndedInv
<1>9. TableInv'
  BY <1>1, <1>2, <1>3 DEF TableInv
<1>10. LoneInv'
  BY <1>1, <1>2, <1>3 DEF LoneInv
<1>11. KnownInv'
  BY <1>1, <1>2 DEF KnownInv
<1> QED
  BY <1>5, <1>7, <1>8, <1>9, <1>10, <1>11 DEF PopenInv

\* No child: the pipe is closed again.
LEMMA VforkFailsStep ==
  ASSUME PopenInv, NEW c \in Client, VforkFails(c)
  PROVE  PopenInv'
<1> DEFINE s == cur[c]
<1>1. /\ at[c] = "fork" /\ at' = [at EXCEPT ![c] = "idle"]
      /\ state' = [state EXCEPT ![s] = "free"]
      /\ UNCHANGED <<childpid, running, fileno, streams, cur, overlap>>
  BY DEF VforkFails, Goes
<1>2. PopenTypes /\ StreamInv /\ EndedInv /\ TableInv /\ LoneInv /\ KnownInv
  BY DEF PopenInv
<1>3. s \in Stream /\ state[s] = "pipe"
  BY <1>1, <1>2 DEF StreamInv
<1>4. /\ \A d \in Client : at'[d] = IF d = c THEN "idle" ELSE at[d]
      /\ \A t \in Stream : state'[t] = IF t = s THEN "free" ELSE state[t]
  BY <1>1, <1>2, <1>3 DEF PopenTypes
<1>5. PopenTypes'
  <2>1. /\ at' \in [Client -> {"idle", "calloc", "pipe", "fork", "store", "wait", "clear"}]
        /\ state' \in [Stream -> {"free", "pipe", "open", "closed"}]
    BY <1>1, <1>2 DEF PopenTypes
  <2> QED
    BY <1>1, <1>2, <2>1 DEF PopenTypes
<1>6. \A d \in Client : d # c /\ at[d] \in {"fork", "store", "wait", "clear"} => cur[d] # s
  BY <1>1, <1>2 DEF StreamInv
<1> HIDE DEF s
<1>7. StreamInv'
  <2>1. \A d \in Client : \A i \in 1 .. Len(streams[d]) : state'[streams[d][i]] = "open"
    <3>1. ASSUME NEW d \in Client, NEW i \in 1 .. Len(streams[d]) PROVE state'[streams[d][i]] = "open"
      <4>1. streams[d] \in Seq(Stream) /\ state[streams[d][i]] = "open"
        BY <1>2 DEF PopenTypes, StreamInv
      <4>2. streams[d][i] \in Stream /\ streams[d][i] # s
        BY <1>3, <4>1
      <4> QED
        BY <1>4, <4>1, <4>2
    <3> QED
      BY <3>1
  <2>2. \A d \in Client :
          /\ at'[d] \in {"fork", "store"} => cur[d] \in Stream /\ state'[cur[d]] = "pipe"
          /\ at'[d] \in {"wait", "clear"} => cur[d] \in Stream /\ state'[cur[d]] = "closed"
    BY <1>2, <1>4, <1>6 DEF StreamInv
  <2>3. ASSUME NEW t \in Stream, state'[t] = "closed"
        PROVE  \E d \in Client : at'[d] \in {"wait", "clear"} /\ cur[d] = t
    <3>1. PICK d \in Client : at[d] \in {"wait", "clear"} /\ cur[d] = t
      BY <1>2, <1>4, <2>3 DEF StreamInv
    <3> QED
      BY <1>1, <1>4, <3>1
  <2>4. \A d, e \in Client :
          at'[d] \in {"fork", "store", "wait", "clear"} /\ at'[e] \in {"fork", "store", "wait", "clear"}
            /\ cur[d] = cur[e] => d = e
    BY <1>2, <1>4 DEF StreamInv
  <2>5. \A d, e \in Client : \A i \in 1 .. Len(streams[d]), j \in 1 .. Len(streams[e]) :
          streams[d][i] = streams[e][j] => d = e /\ i = j
    BY <1>2 DEF StreamInv
  <2> QED
    BY <1>1, <2>1, <2>2, <2>3, <2>4, <2>5 DEF StreamInv
<1>8. EndedInv'
  <2>1. s \notin running
    BY <1>1, <1>2 DEF EndedInv, s
  <2> QED
    BY <1>1, <1>2, <1>4, <2>1 DEF EndedInv
<1>9. TableInv'
  BY <1>1, <1>2, <1>4 DEF TableInv
<1>10. LoneInv'
  BY <1>1, <1>2, <1>4 DEF LoneInv
<1>11. KnownInv'
  BY <1>1, <1>2, <1>4 DEF KnownInv
<1> QED
  BY <1>5, <1>7, <1>8, <1>9, <1>10, <1>11 DEF PopenInv

\* The child is noted in the table and the stream handed out.
LEMMA StoreStep ==
  ASSUME PopenInv, NEW c \in Client, Store(c)
  PROVE  PopenInv'
<1> DEFINE s == cur[c]
           q == streams[c]
<1>1. /\ at[c] = "store" /\ at' = [at EXCEPT ![c] = "idle"]
      /\ childpid' = [childpid EXCEPT ![fileno[s]] = s]
      /\ state' = [state EXCEPT ![s] = "open"]
      /\ streams' = [streams EXCEPT ![c] = Append(@, s)]
      /\ UNCHANGED <<running, fileno, cur, overlap>>
  BY DEF Store, Goes
<1>2. PopenTypes /\ StreamInv /\ EndedInv /\ TableInv /\ LoneInv /\ KnownInv
  BY DEF PopenInv
<1>3. s \in Stream /\ state[s] = "pipe" /\ q \in Seq(Stream) /\ Len(q) \in Nat
  BY <1>1, <1>2 DEF StreamInv, PopenTypes
<1>4. fileno[s] \in Fd /\ DOMAIN childpid = Fd
  BY <1>2, <1>3 DEF TableInv
<1>5. /\ \A d \in Client : at'[d] = IF d = c THEN "idle" ELSE at[d]
      /\ \A t \in Stream : state'[t] = IF t = s THEN "open" ELSE state[t]
      /\ \A d \in Client : streams'[d] = IF d = c THEN Append(q, s) ELSE streams[d]
  BY <1>1, <1>2, <1>3 DEF PopenTypes
<1>6. childpid \in [Fd -> Stream \cup {NoChild}]
  <2>1. childpid = <<>> => Fd = {}
    BY <1>4
  <2> QED
    BY <1>2, <1>4, <2>1 DEF PopenTypes
<1>7. DOMAIN childpid' = Fd /\ \A f \in Fd : childpid'[f] = IF f = fileno[s] THEN s ELSE childpid[f]
  BY <1>1, <1>4, <1>6
<1>8. /\ Append(q, s) \in Seq(Stream) /\ Len(Append(q, s)) = Len(q) + 1
      /\ \A i \in 1 .. Len(q) + 1 : /\ i # Len(q) + 1 => i \in 1 .. Len(q) /\ Append(q, s)[i] = q[i]
                                    /\ i = Len(q) + 1 => Append(q, s)[i] = s
  <2> HIDE DEF s, q
  <2>1. /\ Append(q, s) \in Seq(Stream) /\ Len(Append(q, s)) = Len(q) + 1
        /\ \A i \in 1 .. Len(q) : Append(q, s)[i] = q[i]
        /\ Append(q, s)[Len(q) + 1] = s
    BY <1>3, AppendProperties
  <2>2. \A i \in 1 .. Len(q) + 1 : i # Len(q) + 1 => i \in 1 .. Len(q)
    BY <1>3
  <2> QED
    BY <2>1, <2>2
<1>9. \A d \in Client : \A i \in 1 .. Len(streams[d]) :
        state[streams[d][i]] = "open" /\ streams[d][i] # s /\ streams[d][i] \in Stream
  <2>1. ASSUME NEW d \in Client, NEW i \in 1 .. Len(streams[d])
        PROVE  state[streams[d][i]] = "open" /\ streams[d][i] # s /\ streams[d][i] \in Stream
    <3>1. streams[d] \in Seq(Stream) /\ state[streams[d][i]] = "open"
      BY <1>2 DEF PopenTypes, StreamInv
    <3> QED
      BY <1>3, <3>1
  <2> QED
    BY <2>1
<1>10. \A d \in Client : d # c /\ at[d] \in {"fork", "store", "wait", "clear"} => cur[d] # s
  BY <1>1, <1>2 DEF StreamInv
<1> HIDE DEF s
<1>11. PopenTypes'
  <2>1. /\ at' \in [Client -> {"idle", "calloc", "pipe", "fork", "store", "wait", "clear"}]
        /\ state' \in [Stream -> {"free", "pipe", "open", "closed"}]
    BY <1>1, <1>2 DEF PopenTypes
  <2>2. childpid' \in [Fd -> Stream \cup {NoChild}]
    BY <1>1, <1>3, <1>6
  <2>3. streams' \in [Client -> Seq(Stream)]
    BY <1>1, <1>2, <1>8 DEF PopenTypes
  <2> QED
    BY <1>1, <1>2, <2>1, <2>2, <2>3 DEF PopenTypes
<1>12. \A d \in Client : \A i \in 1 .. Len(streams'[d]) :
         \/ d = c /\ i = Len(q) + 1 /\ streams'[d][i] = s
         \/ i \in 1 .. Len(streams[d]) /\ streams'[d][i] = streams[d][i]
  <2>1. ASSUME NEW d \in Client, NEW i \in 1 .. Len(streams'[d])
        PROVE  \/ d = c /\ i = Len(q) + 1 /\ streams'[d][i] = s
               \/ i \in 1 .. Len(streams[d]) /\ streams'[d][i] = streams[d][i]
    <3>1. CASE d = c
      <4>1. streams'[d] = Append(q, s) /\ streams[d] = q
        BY <1>5, <3>1
      <4> HIDE DEF q
      <4> QED
        BY <1>8, <3>1, <4>1
    <3>2. CASE d # c
      BY <1>5, <3>2
    <3> QED
      BY <3>1, <3>2
  <2> QED
    BY <2>1
<1> HIDE DEF q
<1>13. StreamInv'
  <2>1. \A d \in Client : \A i \in 1 .. Len(streams'[d]) : state'[streams'[d][i]] = "open"
    BY <1>3, <1>5, <1>9, <1>12
  <2>2. \A d \in Client :
          /\ at'[d] \in {"fork", "store"} => cur[d] \in Stream /\ state'[cur[d]] = "pipe"
          /\ at'[d] \in {"wait", "clear"} => cur[d] \in Stream /\ state'[cur[d]] = "closed"
    BY <1>2, <1>5, <1>10 DEF StreamInv
  <2>3. ASSUME NEW t \in Stream, state'[t] = "closed"
        PROVE  \E d \in Client : at'[d] \in {"wait", "clear"} /\ cur[d] = t
    <3>1. PICK d \in Client : at[d] \in {"wait", "clear"} /\ cur[d] = t
      BY <1>2, <1>5, <2>3 DEF StreamInv
    <3> QED
      BY <1>1, <1>5, <3>1
  <2>4. \A d, e \in Client :
          at'[d] \in {"fork", "store", "wait", "clear"} /\ at'[e] \in {"fork", "store", "wait", "clear"}
            /\ cur[d] = cur[e] => d = e
    BY <1>2, <1>5 DEF StreamInv
  <2>5. ASSUME NEW d \in Client, NEW e \in Client,
               NEW i \in 1 .. Len(streams'[d]), NEW j \in 1 .. Len(streams'[e]),
               streams'[d][i] = streams'[e][j]
        PROVE  d = e /\ i = j
    <3>1. \A x \in 1 .. Len(streams[d]), y \in 1 .. Len(streams[e]) :
            streams[d][x] = streams[e][y] => d = e /\ x = y
      BY <1>2 DEF StreamInv
    <3>2. \/ d = c /\ i = Len(q) + 1 /\ streams'[d][i] = s
          \/ i \in 1 .. Len(streams[d]) /\ streams'[d][i] = streams[d][i] /\ streams[d][i] # s
      BY <1>9, <1>12
    <3>3. \/ e = c /\ j = Len(q) + 1 /\ streams'[e][j] = s
          \/ j \in 1 .. Len(streams[e]) /\ streams'[e][j] = streams[e][j] /\ streams[e][j] # s
      BY <1>9, <1>12
    <3> QED
      BY <2>5, <3>1, <3>2, <3>3
  <2> QED
    BY <1>1, <2>1, <2>2, <2>3, <2>4, <2>5 DEF StreamInv
<1>14. EndedInv'
  BY <1>1, <1>2, <1>5 DEF EndedInv
<1>15. TableInv'
  BY <1>1, <1>2, <1>3, <1>5, <1>7 DEF TableInv
<1>16. LoneInv'
  BY <1>1, <1>2, <1>5 DEF LoneInv
<1>17. KnownInv'
  <2>1. SUFFICES ASSUME ~overlap
                 PROVE  /\ \A t, u \in Stream : state'[t] # "free" /\ state'[u] # "free"
                                                  /\ fileno[t] = fileno[u] => t = u
                        /\ \A t \in Stream : state'[t] = "open" => childpid'[fileno[t]] = t
    BY <1>1 DEF KnownInv
  <2>2. \A t, u \in Stream : state[t] # "free" /\ state[u] # "free" /\ fileno[t] = fileno[u] => t = u
    BY <1>2, <2>1 DEF KnownInv
  <2>3. \A t, u \in Stream : state'[t] # "free" /\ state'[u] # "free" /\ fileno[t] = fileno[u] => t = u
    BY <1>3, <1>5, <2>2
  <2>4. ASSUME NEW t \in Stream, state'[t] = "open" PROVE childpid'[fileno[t]] = t
    <3>1. CASE t = s
      BY <1>4, <1>7, <3>1 DEF s
    <3>2. CASE t # s
      <4>1. state[t] = "open"
        BY <1>5, <2>4, <3>2
      <4>2. fileno[t] # fileno[s] /\ fileno[t] \in Fd /\ childpid[fileno[t]] = t
        BY <1>2, <1>3, <2>1, <2>2, <3>2, <4>1 DEF KnownInv, TableInv
      <4> QED
        BY <1>7, <4>2
    <3> QED
      BY <3>1, <3>2
  <2> QED
    BY <2>3, <2>4
<1> QED
  BY <1>11, <1>13, <1>14, <1>15, <1>16, <1>17 DEF PopenInv

\* A thread calls ms_vpclose.
LEMMA CloseStep ==
  ASSUME PopenInv, NEW c \in Client, Close(c)
  PROVE  PopenInv'
<1> DEFINE q == streams[c]
           s == Last(q)
<1>1. /\ at[c] = "idle" /\ q # <<>>
      /\ streams' = [streams EXCEPT ![c] = Front(@)] /\ cur' = [cur EXCEPT ![c] = s]
      /\ \/ UNCHANGED <<at, state>>
         \/ /\ at' = [at EXCEPT ![c] = "wait"]
            /\ state' = [state EXCEPT ![s] = "closed"]
      /\ overlap' = (overlap \/ Opening(c))
      /\ UNCHANGED <<childpid, running, fileno>>
  BY DEF Close, Goes
<1>2. PopenTypes /\ StreamInv /\ EndedInv /\ TableInv /\ LoneInv /\ KnownInv
  BY DEF PopenInv
<1>3. /\ q \in Seq(Stream) /\ Len(q) \in Nat /\ Len(q) > 0 /\ s = q[Len(q)] /\ s \in Stream
      /\ Front(q) \in Seq(Stream) /\ Len(Front(q)) = Len(q) - 1
      /\ \A i \in 1 .. Len(Front(q)) : i \in 1 .. Len(q) /\ i # Len(q) /\ Front(q)[i] = q[i]
  <2>1. q \in Seq(Stream) /\ q # <<>>
    BY <1>1, <1>2 DEF PopenTypes
  <2> HIDE DEF q
  <2>2. Len(q) \in Nat /\ Len(q) > 0 /\ Len(q) \in 1 .. Len(q)
    BY <2>1
  <2>3. /\ Front(q) = SubSeq(q, 1, Len(q) - 1) /\ s = q[Len(q)]
    BY DEF Front, Last
  <2>4. /\ SubSeq(q, 1, Len(q) - 1) \in Seq(Stream) /\ Len(SubSeq(q, 1, Len(q) - 1)) = Len(q) - 1
        /\ \A i \in 1 .. Len(q) - 1 : SubSeq(q, 1, Len(q) - 1)[i] = q[i]
    BY <2>1, <2>2, LongPrefix, Zenon
  <2>5. \A i \in 1 .. Len(q) - 1 : i \in 1 .. Len(q) /\ i # Len(q)
    BY <2>2
  <2>6. q[Len(q)] \in Stream
    BY <2>1, <2>2
  <2> HIDE DEF s
  <2> QED
    BY <2>1, <2>2, <2>3, <2>4, <2>5, <2>6
<1>4. state[s] = "open"
  <2>1. \A i \in 1 .. Len(streams[c]) : state[streams[c][i]] = "open"
    BY <1>2 DEF StreamInv
  <2>2. \A i \in 1 .. Len(q) : state[q[i]] = "open"
    BY <2>1
  <2> HIDE DEF s, q
  <2>3. Len(q) \in 1 .. Len(q)
    BY <1>3
  <2> QED
    BY <1>3, <2>2, <2>3
<1>5. /\ \A d \in Client : cur'[d] = IF d = c THEN s ELSE cur[d]
      /\ \A d \in Client : streams'[d] = IF d = c THEN Front(q) ELSE streams[d]
      /\ overlap \in BOOLEAN
  BY <1>1, <1>2 DEF PopenTypes
<1>6. \/ UNCHANGED <<at, state>>
      \/ /\ \A d \in Client : at'[d] = IF d = c THEN "wait" ELSE at[d]
         /\ \A t \in Stream : state'[t] = IF t = s THEN "closed" ELSE state[t]
  BY <1>1, <1>2, <1>3 DEF PopenTypes
<1>7. \A d \in Client : \A i \in 1 .. Len(streams'[d]) :
        i \in 1 .. Len(streams[d]) /\ streams'[d][i] = streams[d][i] /\ streams[d][i] # s
  <2>1. ASSUME NEW d \in Client, NEW i \in 1 .. Len(streams'[d])
        PROVE  i \in 1 .. Len(streams[d]) /\ streams'[d][i] = streams[d][i] /\ streams[d][i] # s
    <3>1. i \in 1 .. Len(streams[d]) /\ streams'[d][i] = streams[d][i] /\ (d = c => i # Len(q))
      BY <1>3, <1>5
    <3>2. Len(q) \in 1 .. Len(streams[c]) /\ s = streams[c][Len(q)]
      BY <1>3
    <3> QED
      BY <1>2, <3>1, <3>2 DEF StreamInv
  <2> QED
    BY <2>1
<1>8. \A d \in Client : \A i \in 1 .. Len(streams[d]) :
        state[streams[d][i]] = "open" /\ streams[d][i] \in Stream
  <2>1. ASSUME NEW d \in Client, NEW i \in 1 .. Len(streams[d])
        PROVE  state[streams[d][i]] = "open" /\ streams[d][i] \in Stream
    <3>1. streams[d] \in Seq(Stream)
      BY <1>2 DEF PopenTypes
    <3> QED
      BY <1>2, <3>1 DEF StreamInv
  <2> QED
    BY <2>1
<1>9. \A d \in Client : at[d] \in {"fork", "store", "wait", "clear"} => d # c /\ cur[d] \in Stream /\ cur[d] # s
  BY <1>1, <1>2, <1>4 DEF StreamInv
<1>10. PopenTypes'
  <2>1. /\ at' \in [Client -> {"idle", "calloc", "pipe", "fork", "store", "wait", "clear"}]
        /\ state' \in [Stream -> {"free", "pipe", "open", "closed"}]
    BY <1>1, <1>2 DEF PopenTypes
  <2>2. streams' \in [Client -> Seq(Stream)]
    BY <1>1, <1>2, <1>3 DEF PopenTypes
  <2>3. overlap' \in BOOLEAN /\ DOMAIN cur' = Client
    BY <1>1, <1>2 DEF PopenTypes, Opening
  <2> QED
    BY <1>1, <1>2, <2>1, <2>2, <2>3 DEF PopenTypes
<1> HIDE DEF s, q
<1>11. StreamInv'
  <2>1. \A d \in Client : \A i \in 1 .. Len(streams'[d]) : state'[streams'[d][i]] = "open"
    BY <1>6, <1>7, <1>8
  <2>2. \A d \in Client :
          /\ at'[d] \in {"fork", "store"} => cur'[d] \in Stream /\ state'[cur'[d]] = "pipe"
          /\ at'[d] \in {"wait", "clear"} => cur'[d] \in Stream /\ state'[cur'[d]] = "closed"
    <3>1. CASE UNCHANGED <<at, state>>
      BY <1>2, <1>5, <1>9, <3>1 DEF StreamInv
    <3>2. CASE /\ \A d \in Client : at'[d] = IF d = c THEN "wait" ELSE at[d]
               /\ \A t \in Stream : state'[t] = IF t = s THEN "closed" ELSE state[t]
      <4>1. at'[c] = "wait" /\ cur'[c] = s /\ state'[s] = "closed"
        BY <1>3, <1>5, <3>2
      <4>2. ASSUME NEW d \in Client, d # c
            PROVE  /\ at'[d] = at[d] /\ cur'[d] = cur[d]
                   /\ at[d] \in {"fork", "store", "wait", "clear"} => state'[cur[d]] = state[cur[d]]
        BY <1>5, <1>9, <3>2, <4>2
      <4>3. \A d \in Client :
              /\ at[d] \in {"fork", "store"} => cur[d] \in Stream /\ state[cur[d]] = "pipe"
              /\ at[d] \in {"wait", "clear"} => cur[d] \in Stream /\ state[cur[d]] = "closed"
        BY <1>2 DEF StreamInv
      <4>4. ASSUME NEW d \in Client, d # c
            PROVE  /\ at'[d] \in {"fork", "store"} => cur'[d] \in Stream /\ state'[cur'[d]] = "pipe"
                   /\ at'[d] \in {"wait", "clear"} => cur'[d] \in Stream /\ state'[cur'[d]] = "closed"
        BY <4>2, <4>3, <4>4
      <4> QED
        BY <1>3, <4>1, <4>4
    <3> QED
      BY <1>6, <3>1, <3>2
  <2>3. ASSUME NEW t \in Stream, state'[t] = "closed"
        PROVE  \E d \in Client : at'[d] \in {"wait", "clear"} /\ cur'[d] = t
    <3>1. CASE state[t] = "closed"
      <4>1. PICK d \in Client : at[d] \in {"wait", "clear"} /\ cur[d] = t
        BY <1>2, <3>1 DEF StreamInv
      <4>2. d # c
        BY <1>9, <4>1
      <4>3. at'[d] = at[d] /\ cur'[d] = cur[d]
        BY <1>5, <1>6, <4>2
      <4> QED
        BY <4>1, <4>3
    <3>2. CASE state[t] # "closed"
      <4>1. t = s /\ at'[c] = "wait"
        BY <1>6, <2>3, <3>2
      <4> QED
        BY <1>5, <4>1
    <3> QED
      BY <3>1, <3>2
  <2>4. ASSUME NEW d \in Client, NEW e \in Client, cur'[d] = cur'[e],
               at'[d] \in {"fork", "store", "wait", "clear"}, at'[e] \in {"fork", "store", "wait", "clear"}
        PROVE  d = e
    <3>1. \A x \in Client : x # c => at'[x] = at[x] /\ cur'[x] = cur[x]
      BY <1>5, <1>6
    <3>2. \A x \in Client : x # c /\ at'[x] \in {"fork", "store", "wait", "clear"} => cur'[x] # cur'[c]
      BY <1>5, <1>9, <3>1
    <3>3. CASE d = c \/ e = c
      BY <2>4, <3>2, <3>3
    <3>4. CASE d # c /\ e # c
      BY <1>2, <2>4, <3>1, <3>4 DEF StreamInv
    <3> QED
      BY <3>3, <3>4
  <2>5. \A d, e \in Client : \A i \in 1 .. Len(streams'[d]), j \in 1 .. Len(streams'[e]) :
          streams'[d][i] = streams'[e][j] => d = e /\ i = j
    BY <1>2, <1>7 DEF StreamInv
  <2> QED
    BY <2>1, <2>2, <2>3, <2>4, <2>5 DEF StreamInv
<1>12. EndedInv'
  <2>1. \A d \in Client : at'[d] \in {"fork", "clear"} => at[d] = at'[d] /\ d # c
    BY <1>1, <1>6
  <2>2. \A t \in Stream : state'[t] = "free" => state[t] = "free"
    BY <1>6
  <2> QED
    BY <1>1, <1>2, <1>5, <2>1, <2>2 DEF EndedInv
<1>13. TableInv'
  <2>1. fileno[s] \in Fd /\ DOMAIN childpid = Fd
    BY <1>2, <1>3, <1>4 DEF TableInv
  <2>2. \A t \in Stream : state'[t] # "free" => state[t] # "free"
    BY <1>4, <1>6
  <2> QED
    BY <1>1, <1>2, <2>1, <2>2 DEF TableInv
<1>14. LoneInv'
  <2>1. SUFFICES ASSUME ~overlap'
                 PROVE  \A d \in Client :
                          /\ at'[d] \in {"calloc", "pipe", "fork", "store"} =>
                               \A e \in Client \ {d} : at'[e] = "idle"
                          /\ at'[d] = "calloc" => childpid = <<>>
    BY <1>1 DEF LoneInv
  <2>2. ~overlap /\ \A d \in Client : at[d] \notin {"calloc", "pipe", "fork", "store"}
    BY <1>1, <1>5, <2>1 DEF Opening
  <2>3. \A d \in Client : at'[d] \notin {"calloc", "pipe", "fork", "store"}
    BY <1>6, <2>2
  <2> QED
    BY <2>3
<1>15. KnownInv'
  <2>1. ~overlap' => ~overlap
    BY <1>1, <1>5
  <2>2. \A t \in Stream : /\ state'[t] # "free" => state[t] # "free"
                          /\ state'[t] = "open" => state[t] = "open"
    BY <1>4, <1>6
  <2> QED
    BY <1>1, <1>2, <2>1, <2>2 DEF KnownInv
<1> QED
  BY <1>10, <1>11, <1>12, <1>13, <1>14, <1>15 DEF PopenInv

\* The child has ended.
LEMMA WaitStep ==
  ASSUME PopenInv, NEW c \in Client, Wait(c)
  PROVE  PopenInv'
<1>1. /\ at[c] = "wait" /\ cur[c] \notin running /\ at' = [at EXCEPT ![c] = "clear"]
      /\ UNCHANGED <<childpid, state, running, fileno, streams, cur, overlap>>
  BY DEF Wait, Goes
<1>2. PopenTypes /\ StreamInv /\ EndedInv /\ TableInv /\ LoneInv /\ KnownInv
  BY DEF PopenInv
<1>3. \A d \in Client : at'[d] = IF d = c THEN "clear" ELSE at[d]
  BY <1>1, <1>2 DEF PopenTypes
<1>4. PopenTypes'
  <2>1. at' \in [Client -> {"idle", "calloc", "pipe", "fork", "store", "wait", "clear"}]
    BY <1>1, <1>2 DEF PopenTypes
  <2> QED
    BY <1>1, <1>2, <2>1 DEF PopenTypes
<1>5. \A d \in Client : /\ at'[d] \in {"fork", "store"} <=> at[d] \in {"fork", "store"}
                        /\ at'[d] \in {"wait", "clear"} <=> at[d] \in {"wait", "clear"}
                        /\ at'[d] \in {"fork", "store", "wait", "clear"} <=>
                             at[d] \in {"fork", "store", "wait", "clear"}
  BY <1>1, <1>3
<1>6. StreamInv'
  BY <1>1, <1>2, <1>5 DEF StreamInv
<1>7. EndedInv'
  BY <1>1, <1>2, <1>3 DEF EndedInv
<1>8. TableInv'
  BY <1>1, <1>2, <1>3 DEF TableInv
<1>9. LoneInv'
  BY <1>1, <1>2, <1>3 DEF LoneInv
<1>10. KnownInv'
  BY <1>1, <1>2 DEF KnownInv
<1> QED
  BY <1>4, <1>6, <1>7, <1>8, <1>9, <1>10 DEF PopenInv

\* Its entry is cleared.
LEMMA ClearStep ==
  ASSUME PopenInv, NEW c \in Client, Clear(c)
  PROVE  PopenInv'
<1> DEFINE s == cur[c]
<1>1. /\ at[c] = "clear" /\ at' = [at EXCEPT ![c] = "idle"]
      /\ childpid' = [childpid EXCEPT ![fileno[s]] = NoChild]
      /\ state' = [state EXCEPT ![s] = "free"]
      /\ UNCHANGED <<running, fileno, streams, cur, overlap>>
  BY DEF Clear, Goes
<1>2. PopenTypes /\ StreamInv /\ EndedInv /\ TableInv /\ LoneInv /\ KnownInv
  BY DEF PopenInv
<1>3. s \in Stream /\ state[s] = "closed"
  BY <1>1, <1>2 DEF StreamInv
<1>4. fileno[s] \in Fd /\ DOMAIN childpid = Fd
  BY <1>2, <1>3 DEF TableInv
<1>5. /\ \A d \in Client : at'[d] = IF d = c THEN "idle" ELSE at[d]
      /\ \A t \in Stream : state'[t] = IF t = s THEN "free" ELSE state[t]
  BY <1>1, <1>2, <1>3 DEF PopenTypes
<1>6. childpid \in [Fd -> Stream \cup {NoChild}]
  <2>1. childpid = <<>> => Fd = {}
    BY <1>4
  <2> QED
    BY <1>2, <1>4, <2>1 DEF PopenTypes
<1>7. DOMAIN childpid' = Fd /\ \A f \in Fd : f # fileno[s] => childpid'[f] = childpid[f]
  BY <1>1, <1>4, <1>6
<1>8. PopenTypes'
  <2>1. /\ at' \in [Client -> {"idle", "calloc", "pipe", "fork", "store", "wait", "clear"}]
        /\ state' \in [Stream -> {"free", "pipe", "open", "closed"}]
    BY <1>1, <1>2 DEF PopenTypes
  <2>2. childpid' \in [Fd -> Stream \cup {NoChild}]
    BY <1>1, <1>6
  <2> QED
    BY <1>1, <1>2, <2>1, <2>2 DEF PopenTypes
<1>9. \A d \in Client : d # c /\ at[d] \in {"fork", "store", "wait", "clear"} => cur[d] # s
  BY <1>1, <1>2 DEF StreamInv
<1>10. s \notin running
  BY <1>1, <1>2 DEF EndedInv
<1> HIDE DEF s
<1>11. StreamInv'
  <2>1. \A d \in Client : \A i \in 1 .. Len(streams[d]) : state'[streams[d][i]] = "open"
    <3>1. ASSUME NEW d \in Client, NEW i \in 1 .. Len(streams[d]) PROVE state'[streams[d][i]] = "open"
      <4>1. streams[d] \in Seq(Stream) /\ state[streams[d][i]] = "open"
        BY <1>2 DEF PopenTypes, StreamInv
      <4>2. streams[d][i] \in Stream /\ streams[d][i] # s
        BY <1>3, <4>1
      <4> QED
        BY <1>5, <4>1, <4>2
    <3> QED
      BY <3>1
  <2>2. \A d \in Client :
          /\ at'[d] \in {"fork", "store"} => cur[d] \in Stream /\ state'[cur[d]] = "pipe"
          /\ at'[d] \in {"wait", "clear"} => cur[d] \in Stream /\ state'[cur[d]] = "closed"
    BY <1>2, <1>5, <1>9 DEF StreamInv
  <2>3. ASSUME NEW t \in Stream, state'[t] = "closed"
        PROVE  \E d \in Client : at'[d] \in {"wait", "clear"} /\ cur[d] = t
    <3>1. t # s /\ state[t] = "closed"
      BY <1>5, <2>3
    <3>2. PICK d \in Client : at[d] \in {"wait", "clear"} /\ cur[d] = t
      BY <1>2, <3>1 DEF StreamInv
    <3>3. d # c
      BY <3>1, <3>2 DEF s
    <3> QED
      BY <1>5, <3>2, <3>3
  <2>4. \A d, e \in Client :
          at'[d] \in {"fork", "store", "wait", "clear"} /\ at'[e] \in {"fork", "store", "wait", "clear"}
            /\ cur[d] = cur[e] => d = e
    BY <1>2, <1>5 DEF StreamInv
  <2>5. \A d, e \in Client : \A i \in 1 .. Len(streams[d]), j \in 1 .. Len(streams[e]) :
          streams[d][i] = streams[e][j] => d = e /\ i = j
    BY <1>2 DEF StreamInv
  <2> QED
    BY <1>1, <2>1, <2>2, <2>3, <2>4, <2>5 DEF StreamInv
<1>12. EndedInv'
  BY <1>1, <1>2, <1>5, <1>10 DEF EndedInv
<1>13. TableInv'
  BY <1>1, <1>2, <1>5, <1>7 DEF TableInv
<1>14. LoneInv'
  <2>1. ~overlap => \A d \in Client : at[d] \notin {"calloc", "pipe", "fork", "store"}
    BY <1>1, <1>2 DEF LoneInv
  <2> QED
    BY <1>1, <1>5, <2>1 DEF LoneInv
<1>15. KnownInv'
  <2>1. SUFFICES ASSUME ~overlap
                 PROVE  /\ \A t, u \in Stream : state'[t] # "free" /\ state'[u] # "free"
                                                  /\ fileno[t] = fileno[u] => t = u
                        /\ \A t \in Stream : state'[t] = "open" => childpid'[fileno[t]] = t
    BY <1>1 DEF KnownInv
  <2>2. \A t, u \in Stream : state[t] # "free" /\ state[u] # "free" /\ fileno[t] = fileno[u] => t = u
    BY <1>2, <2>1 DEF KnownInv
  <2>3. \A t \in Stream : state'[t] # "free" => t # s /\ state'[t] = state[t]
    BY <1>5
  <2>4. ASSUME NEW t \in Stream, state'[t] = "open" PROVE childpid'[fileno[t]] = t
    <3>1. t # s /\ state[t] = "open"
      BY <2>3, <2>4
    <3>2. fileno[t] # fileno[s] /\ fileno[t] \in Fd /\ childpid[fileno[t]] = t
      BY <1>2, <1>3, <2>1, <2>2, <3>1 DEF KnownInv, TableInv
    <3> QED
      BY <1>7, <3>2
  <2> QED
    BY <2>2, <2>3, <2>4
<1> QED
  BY <1>8, <1>11, <1>12, <1>13, <1>14, <1>15 DEF PopenInv

LEMMA PopenStep ==
  PopenInv /\ [PopenNext]_popenVars => PopenInv'
<1> SUFFICES ASSUME PopenInv, [PopenNext]_popenVars PROVE PopenInv'
  OBVIOUS
<1>1. ASSUME NEW s \in Stream, ChildEnds(s) PROVE PopenInv'
  <2>1. running' = running \ {s} /\ UNCHANGED <<childpid, state, fileno, streams, at, cur, overlap>>
    BY <1>1 DEF ChildEnds
  <2>2. PopenTypes' /\ EndedInv'
    BY <2>1 DEF PopenInv, PopenTypes, EndedInv
  <2>3. StreamInv'
    BY <2>1 DEF PopenInv, StreamInv
  <2>4. TableInv' /\ LoneInv' /\ KnownInv'
    BY <2>1 DEF PopenInv, TableInv, LoneInv, KnownInv
  <2> QED
    BY <2>2, <2>3, <2>4 DEF PopenInv
<1>2. ASSUME UNCHANGED popenVars PROVE PopenInv'
  <2>1. UNCHANGED <<childpid, state, running, fileno, streams, at, cur, overlap>>
    BY <1>2 DEF popenVars
  <2>2. PopenTypes' /\ EndedInv'
    BY <2>1 DEF PopenInv, PopenTypes, EndedInv
  <2>3. StreamInv'
    BY <2>1 DEF PopenInv, StreamInv
  <2>4. TableInv' /\ LoneInv' /\ KnownInv'
    BY <2>1 DEF PopenInv, TableInv, LoneInv, KnownInv
  <2> QED
    BY <2>2, <2>3, <2>4 DEF PopenInv
<1> QED
  BY <1>1, <1>2, OpenStep, CallocStep, GiveUpStep, PipeStep, VforkStep, VforkFailsStep, StoreStep,
     CloseStep, WaitStep, ClearStep DEF PopenNext, Goon

LEMMA PopenAlways ==
  PopenSpec => []PopenInv
<1>1. PopenInit => PopenInv
  BY PopenStart
<1>2. PopenInv /\ [PopenNext]_popenVars => PopenInv'
  BY PopenStep
<1> QED
  BY <1>1, <1>2, PTL DEF PopenSpec

(* No stream is free before its child has ended, and as long as no ms_vpopen
   overlapped another call the table knows, behind the descriptor of each open
   stream, the child of that stream: ms_vpclose neither gives up nor waits for
   another one (thread_ex.c:288-374). *)
THEOREM ChildrenKnown ==
  PopenSpec =>
    [](/\ \A s \in Stream : state[s] = "free" => s \notin running
       /\ ~overlap => \A s \in Stream : state[s] = "open" => childpid[fileno[s]] = s)
<1>1. PopenInv => /\ \A s \in Stream : state[s] = "free" => s \notin running
                  /\ ~overlap => \A s \in Stream : state[s] = "open" => childpid[fileno[s]] = s
  BY DEF PopenInv, EndedInv, KnownInv
<1> QED
  BY <1>1, PopenAlways, PTL
=============================================================================
