--------------------------- MODULE RecordsProofs ---------------------------
(***************************************************************************)
(* What becomes of a record, from the provider's answer to every view.     *)
(*                                                                         *)
(* The pipeline: whatever the providers answer, in whatever order they are *)
(* polled, the rows kept are of the shape the queries rely on (IInv), a    *)
(* row drawn as a point is at a place, the public pages hold what the map  *)
(* draws, two windows agree, what is withheld stays, and posts, articles   *)
(* and alerts are counted apart: for every set of windows, every cap,      *)
(* quota, page size and licence setting.                                   *)
(*                                                                         *)
(* The chatter rollups: however sweeps fail, sockets drop and the process  *)
(* dies, a window counts no post twice: for every list of channels, every  *)
(* read limit and every bound.                                             *)
(***************************************************************************)
EXTENDS Chatter, Pipeline, TLAPS, FiniteSetTheorems, SequenceTheorems, NaturalsInduction,
        WellFoundedInduction

-----------------------------------------------------------------------------
(***************************************************************************)
(* Numbers: the least of a set, induction over a range, and recursion.     *)
(***************************************************************************)
Less == {p \in Nat \X Nat : p[1] < p[2]}

LEMMA LeastNat ==
  ASSUME NEW T, T \subseteq Nat, T # {}
  PROVE  \E m \in T : \A k \in T : m <= k
<1>1. OpToRel(<, Nat) = Less BY DEF OpToRel, Less
<1>2. IsWellFoundedOn(Less, Nat) BY <1>1, NatLessThanWellFounded
<1>3. PICK m \in T : \A k \in T : <<k, m>> \notin Less BY <1>2, WFMin
<1>4. ASSUME NEW k \in T PROVE m <= k
  <2>1. k \in Nat /\ m \in Nat OBVIOUS
  <2>2. <<k, m>> \in Nat \X Nat /\ <<k, m>>[1] = k /\ <<k, m>>[2] = m BY <2>1
  <2>3. ~(k < m) BY <1>3, <2>2 DEF Less
  <2> QED BY <2>1, <2>3
<1> QED BY <1>4

\* Induction: what holds at 0 and of the next of every one it holds at.
LEMMA Climb ==
  ASSUME NEW n \in Nat, NEW T, 0 \in T, \A i \in 1 .. n : i - 1 \in T => i \in T
  PROVE  \A i \in 0 .. n : i \in T
<1> DEFINE D == {i \in 0 .. n : i \notin T}
<1>1. SUFFICES ASSUME D # {} PROVE FALSE OBVIOUS
<1>2. PICK m \in D : \A k \in D : m <= k
  <2>1. D \subseteq Nat OBVIOUS
  <2> HIDE DEF D
  <2> QED BY <1>1, <2>1, LeastNat
<1>3. m \in 1 .. n OBVIOUS
<1>4. m - 1 \notin D BY <1>2, <1>3
<1> QED BY <1>2, <1>3, <1>4

\* A function can be defined one step at a time.
StepsOf(n, V) == [1 .. n -> [V -> V]]
IteratesOf(n, V, base, F) ==
  {g \in [0 .. n -> V] : g[0] = base /\ \A i \in 1 .. n : g[i] = F[i][g[i - 1]]}

LEMMA Recursion ==
  ASSUME NEW n \in Nat, NEW V, NEW base \in V, NEW F \in StepsOf(n, V)
  PROVE  \E g : g \in IteratesOf(n, V, base, F)
<1> USE DEF StepsOf
<1> DEFINE Upto(k, g) == g[0] = base /\ \A i \in 1 .. k : g[i] = F[i][g[i - 1]]
           T == {k \in 0 .. n : \E g \in [0 .. k -> V] : Upto(k, g)}
<1>1. 0 \in T
  <2> DEFINE g == [i \in 0 .. 0 |-> base]
  <2>1. g \in [0 .. 0 -> V] OBVIOUS
  <2>2. Upto(0, g) OBVIOUS
  <2> HIDE DEF g, Upto
  <2>3. \E f \in [0 .. 0 -> V] : Upto(0, f) BY <2>1, <2>2
  <2> QED BY <2>3
<1>2. ASSUME NEW k \in 1 .. n, k - 1 \in T PROVE k \in T
  <2>1. PICK f \in [0 .. k - 1 -> V] : Upto(k - 1, f) BY <1>2
  <2>2. f[k - 1] \in V /\ F[k][f[k - 1]] \in V OBVIOUS
  <2> DEFINE g == [i \in 0 .. k |-> IF i = k THEN F[k][f[k - 1]] ELSE f[i]]
  <2>3. g \in [0 .. k -> V] BY <2>2
  <2>4. \A i \in 0 .. k - 1 : g[i] = f[i] OBVIOUS
  <2>5. g[k] = F[k][f[k - 1]] OBVIOUS
  <2> HIDE DEF g
  <2>6. g[0] = base BY <2>1, <2>4
  <2>7. ASSUME NEW i \in 1 .. k PROVE g[i] = F[i][g[i - 1]]
    <3>1. i - 1 \in 0 .. k - 1 /\ g[i - 1] = f[i - 1] BY <2>4
    <3>2. CASE i = k BY <2>5, <3>1, <3>2
    <3>3. CASE i # k
      <4>1. i \in 1 .. k - 1 BY <3>3
      <4> QED BY <2>1, <2>4, <3>1, <4>1
    <3> QED BY <3>2, <3>3
  <2>8. Upto(k, g) BY <2>6, <2>7
  <2> HIDE DEF Upto
  <2>9. \E h \in [0 .. k -> V] : Upto(k, h) BY <2>3, <2>8
  <2> QED BY <2>9
<1> HIDE DEF T
<1>3. \A k \in 0 .. n : k \in T BY <1>1, <1>2, Climb, Zenon
<1>4. n \in T BY <1>3
<1>5. PICK g \in [0 .. n -> V] : Upto(n, g) BY <1>4, Zenon DEF T
<1>6. g \in IteratesOf(n, V, base, F) BY <1>5 DEF IteratesOf
<1> QED BY <1>6

\* A list joined from parts, part by part.
Joins(n, part, g) == [i \in 0 .. n |-> IF i = 0 THEN <<>> ELSE g[i - 1] \o part[i]]

LEMMA Joining ==
  ASSUME NEW n \in Nat, NEW S, NEW part, \A i \in 1 .. n : part[i] \in Seq(S)
  PROVE  /\ \E g : g = Joins(n, part, g)
         /\ \A h : h = Joins(n, part, h) => h \in [0 .. n -> Seq(S)]
<1> DEFINE V == Seq(S)
           base == <<>>
           F == [i \in 1 .. n |-> [s \in V |-> s \o part[i]]]
           Of(g) == [i \in 0 .. n |-> IF i = 0 THEN base ELSE g[i - 1] \o part[i]]
<1>1. \A i \in 1 .. n : \A s \in V : F[i][s] = s \o part[i] OBVIOUS
<1>2. \A i \in 1 .. n : \A s \in V : s \o part[i] \in V BY ConcatProperties
<1>3. F \in StepsOf(n, V) BY <1>2 DEF StepsOf
<1>4. base \in V OBVIOUS
<1>5. ASSUME NEW g
      PROVE  /\ DOMAIN Of(g) = 0 .. n /\ Of(g) = [i \in 0 .. n |-> Of(g)[i]]
             /\ Of(g)[0] = base
             /\ \A i \in 1 .. n : Of(g)[i] = g[i - 1] \o part[i]
  <2> DEFINE tail == [i \in 0 .. n |-> g[i - 1] \o part[i]]
             f == [i \in 0 .. n |-> IF i = 0 THEN base ELSE tail[i]]
  <2>1. Of(g) = f OBVIOUS
  <2>2. \A i \in 1 .. n : tail[i] = g[i - 1] \o part[i] OBVIOUS
  <2> HIDE DEF base, tail
  <2>3. /\ DOMAIN f = 0 .. n /\ f = [i \in 0 .. n |-> f[i]]
        /\ f[0] = base /\ \A i \in 1 .. n : f[i] = tail[i]
    OBVIOUS
  <2> HIDE DEF f, Of
  <2> QED BY <2>1, <2>2, <2>3
<1> HIDE DEF F, V, base, Of
<1>6. \E g : g = Of(g)
  <2>1. PICK g \in [0 .. n -> V] : g[0] = base /\ \A i \in 1 .. n : g[i] = F[i][g[i - 1]]
    <3>1. \E g : g \in IteratesOf(n, V, base, F) BY <1>3, <1>4, Recursion
    <3> QED BY <3>1 DEF IteratesOf
  <2>2. ASSUME NEW i \in 0 .. n PROVE g[i] = Of(g)[i]
    <3>1. CASE i = 0 BY <1>5, <2>1, <3>1
    <3>2. CASE i # 0
      <4>1. i \in 1 .. n /\ i - 1 \in 0 .. n BY <3>2
      <4>2. g[i - 1] \in V BY <4>1
      <4> QED BY <1>1, <1>5, <2>1, <4>1, <4>2
    <3> QED BY <3>1, <3>2
  <2>3. g = [i \in 0 .. n |-> g[i]] OBVIOUS
  <2>4. g = Of(g) BY <1>5, <2>2, <2>3
  <2> QED BY <2>4
<1>7. ASSUME NEW h, h = Of(h)
      PROVE  h \in [0 .. n -> V]
  <2> DEFINE T == {i \in 0 .. n : h[i] \in V}
  <2>1. h[0] = base /\ \A i \in 1 .. n : h[i] = h[i - 1] \o part[i] BY <1>5, <1>7, Zenon
  <2>2. 0 \in T BY <1>4, <2>1
  <2>3. ASSUME NEW i \in 1 .. n, i - 1 \in T PROVE i \in T
    <3>1. h[i - 1] \in V BY <2>3
    <3>2. h[i] \in V BY <1>2, <2>1, <3>1
    <3> QED BY <3>2
  <2>4. \A i \in 0 .. n : i \in T
    <3> HIDE DEF T
    <3> QED BY <2>2, <2>3, Climb
  <2>5. DOMAIN h = 0 .. n /\ h = [i \in 0 .. n |-> h[i]] BY <1>5, <1>7, Zenon
  <2> QED BY <2>4, <2>5
<1>8. \A g : Joins(n, part, g) = Of(g) BY DEF Joins, Of, base
<1> QED BY <1>6, <1>7, <1>8 DEF V

\* The image of a finite set.
LEMMA Images ==
  ASSUME NEW S, IsFiniteSet(S), NEW f
  PROVE  IsFiniteSet({f[x] : x \in S})
<1> DEFINE g == [x \in S |-> f[x]]
           T == {f[x] : x \in S}
<1>1. g \in Surjection(S, T) BY DEF Surjection
<1> HIDE DEF g, T
<1>2. IsFiniteSet(T) BY <1>1, FS_Surjection
<1> QED BY <1>2 DEF T

-----------------------------------------------------------------------------
(***************************************************************************)
(* Lists: Ordered, Take and Only.                                          *)
(***************************************************************************)

\* R is a strict total order of the elements of S.
Orders(R, S) ==
  /\ \A x \in S : <<x, x>> \notin R
  /\ \A x, y, z \in S : <<x, y>> \in R /\ <<y, z>> \in R => <<x, z>> \in R
  /\ \A x, y \in S : x # y => <<x, y>> \in R \/ <<y, x>> \in R

Below(S, R, x) == {y \in S : <<y, x>> \in R}

\* s lists the elements of S in the order R.
Sorts(s, S, R) ==
  /\ IsFiniteSet(S) /\ s \in Seq(S) /\ Len(s) = Cardinality(S) /\ Len(s) \in Nat
  /\ \A i, j \in 1 .. Len(s) : i < j => <<s[i], s[j]>> \in R
  /\ \A x \in S : \E i \in 1 .. Len(s) : s[i] = x
  /\ \A i \in 1 .. Len(s) : Cardinality(Below(S, R, s[i])) = i - 1

\* In a finite ordered set every rank below its size is some element's.
LEMMA Ranks1 ==
  ASSUME NEW S, NEW R, IsFiniteSet(S), Orders(R, S)
  PROVE  /\ \A x \in S : IsFiniteSet(Below(S, R, x)) /\ Cardinality(Below(S, R, x)) \in Nat
         /\ \A x, y \in S : <<x, y>> \in R
              => Cardinality(Below(S, R, x)) < Cardinality(Below(S, R, y))
         /\ \A k \in 0 .. Cardinality(S) - 1 : \E x \in S : Cardinality(Below(S, R, x)) = k
<1> DEFINE rank == [x \in S |-> Cardinality(Below(S, R, x))]
<1>1. Cardinality(S) \in Nat BY FS_CardinalityType
<1>2. ASSUME NEW x \in S
      PROVE  IsFiniteSet(Below(S, R, x)) /\ Cardinality(Below(S, R, x)) \in 0 .. Cardinality(S) - 1
  <2>1. Below(S, R, x) \in SUBSET S /\ x \notin Below(S, R, x) BY DEF Below, Orders
  <2>2. IsFiniteSet(Below(S, R, x)) /\ Cardinality(Below(S, R, x)) <= Cardinality(S)
        /\ (Cardinality(S) = Cardinality(Below(S, R, x)) => S = Below(S, R, x))
    BY <2>1, FS_Subset
  <2>3. Cardinality(Below(S, R, x)) \in Nat BY <2>2, FS_CardinalityType
  <2> QED BY <1>1, <2>1, <2>2, <2>3
<1>3. ASSUME NEW x \in S, NEW y \in S, <<x, y>> \in R
      PROVE  Cardinality(Below(S, R, x)) < Cardinality(Below(S, R, y))
  <2>1. Below(S, R, x) \in SUBSET Below(S, R, y) BY <1>3 DEF Below, Orders
  <2>2. x \in Below(S, R, y) /\ x \notin Below(S, R, x) BY <1>3 DEF Below, Orders
  <2>3. /\ Cardinality(Below(S, R, x)) <= Cardinality(Below(S, R, y))
        /\ (Cardinality(Below(S, R, y)) = Cardinality(Below(S, R, x))
             => Below(S, R, y) = Below(S, R, x))
    BY <1>2, <2>1, FS_Subset
  <2>4. Cardinality(Below(S, R, x)) # Cardinality(Below(S, R, y)) BY <2>2, <2>3
  <2> QED BY <1>1, <1>2, <2>3, <2>4
<1>4. \A k \in 0 .. Cardinality(S) - 1 : \E x \in S : Cardinality(Below(S, R, x)) = k
  <2> DEFINE N == 0 .. Cardinality(S) - 1
  <2>1. rank \in [S -> N] BY <1>2
  <2>2. \A x, y \in S : rank[x] = rank[y] => x = y
    <3>1. ASSUME NEW x \in S, NEW y \in S, x # y PROVE rank[x] # rank[y]
      <4>1. CASE <<x, y>> \in R BY <1>1, <1>2, <1>3, <4>1
      <4>2. CASE <<y, x>> \in R BY <1>1, <1>2, <1>3, <4>2
      <4> QED BY <3>1, <4>1, <4>2 DEF Orders
    <3> QED BY <3>1
  <2>3. IsFiniteSet(N) /\ Cardinality(N) = Cardinality(S)
    <3>1. Cardinality(S) - 1 \in Int /\ 0 \in Int BY <1>1
    <3>2. IsFiniteSet(N) /\ Cardinality(N) = IF 0 > Cardinality(S) - 1 THEN 0 ELSE Cardinality(S) - 1 - 0 + 1
      BY <3>1, FS_Interval
    <3> QED BY <1>1, <3>2
  <2> HIDE DEF rank, N
  <2>4. rank \in Injection(S, N) BY <2>1, <2>2 DEF Injection, IsInjective
  <2>5. rank \in Surjection(S, N) BY <2>3, <2>4, FS_Injection
  <2>6. \A k \in N : \E x \in S : rank[x] = k BY <2>5 DEF Surjection
  <2> QED BY <2>6 DEF rank, N
<1> QED BY <1>1, <1>2, <1>3, <1>4

\* What Ordered returns: `rank` is its rank, written with the order as a relation.
LEMMA Sorting ==
  ASSUME NEW S, NEW R, IsFiniteSet(S), Orders(R, S), NEW rank, NEW s,
         \A x \in S : rank[x] = Cardinality(Below(S, R, x)),
         s = [i \in 1 .. Cardinality(S) |-> CHOOSE x \in S : rank[x] = i - 1]
  PROVE  Sorts(s, S, R)
<1> DEFINE n == Cardinality(S)
<1>1. n \in Nat BY FS_CardinalityType
<1>2. ASSUME NEW i \in 1 .. n
      PROVE  s[i] \in S /\ Cardinality(Below(S, R, s[i])) = i - 1
  <2>1. i - 1 \in 0 .. n - 1 BY <1>1
  <2>2. \E x \in S : Cardinality(Below(S, R, x)) = i - 1 BY <2>1, Ranks1
  <2>3. \E x \in S : rank[x] = i - 1 BY <2>2
  <2>4. s[i] = CHOOSE x \in S : rank[x] = i - 1 OBVIOUS
  <2>5. s[i] \in S /\ rank[s[i]] = i - 1 BY <2>3, <2>4
  <2> QED BY <2>5
<1>3. s \in [1 .. n -> S] BY <1>2
<1>4. s \in Seq(S) /\ Len(s) = n
  <2>1. \E m \in Nat : s \in [1 .. m -> S] BY <1>1, <1>3
  <2>2. s \in Seq(S) BY <2>1, SeqDef
  <2>3. DOMAIN s = 1 .. n /\ DOMAIN s = 1 .. Len(s) /\ Len(s) \in Nat
    BY <1>3, <2>2, LenProperties
  <2>4. Len(s) = n
    <3> DEFINE m == Len(s)
    <3> HIDE DEF m, n
    <3>1. m \in Nat /\ n \in Nat /\ 1 .. m = 1 .. n BY <1>1, <2>3 DEF m
    <3>2. (m > 0 => m \in 1 .. n) /\ (n > 0 => n \in 1 .. m) BY <3>1
    <3>3. m = n BY <3>1, <3>2
    <3> QED BY <3>3 DEF m
  <2> QED BY <2>2, <2>4
<1>5. ASSUME NEW i \in 1 .. n, NEW j \in 1 .. n, i < j PROVE <<s[i], s[j]>> \in R
  <2>1. /\ s[i] \in S /\ s[j] \in S /\ Cardinality(Below(S, R, s[i])) = i - 1
        /\ Cardinality(Below(S, R, s[j])) = j - 1
    BY <1>2
  <2>2. s[i] # s[j] BY <1>5, <2>1
  <2>3. <<s[j], s[i]>> \notin R
    <3>1. SUFFICES ASSUME <<s[j], s[i]>> \in R PROVE FALSE OBVIOUS
    <3>2. Cardinality(Below(S, R, s[j])) < Cardinality(Below(S, R, s[i])) BY <2>1, <3>1, Ranks1
    <3> QED BY <1>5, <2>1, <3>2
  <2> QED BY <2>1, <2>2, <2>3 DEF Orders
<1>6. ASSUME NEW x \in S PROVE \E i \in 1 .. n : s[i] = x
  <2> DEFINE k == Cardinality(Below(S, R, x))
  <2>1. k \in 0 .. n - 1
    <3>1. Below(S, R, x) \in SUBSET S /\ x \notin Below(S, R, x) BY DEF Below, Orders
    <3>2. k <= n /\ k \in Nat /\ k # n BY <3>1, FS_Subset, Ranks1
    <3> QED BY <1>1, <3>2
  <2>2. k + 1 \in 1 .. n /\ (k + 1) - 1 = k BY <1>1, <2>1
  <2>3. s[k + 1] \in S /\ Cardinality(Below(S, R, s[k + 1])) = k BY <1>2, <2>2
  <2>4. s[k + 1] = x
    <3>1. SUFFICES ASSUME s[k + 1] # x PROVE FALSE OBVIOUS
    <3>2. <<s[k + 1], x>> \in R \/ <<x, s[k + 1]>> \in R BY <2>3, <3>1 DEF Orders
    <3>3. k < k BY <2>3, <3>2, Ranks1
    <3> QED BY <2>1, <3>3
  <2> QED BY <2>2, <2>4
<1> QED BY <1>1, <1>2, <1>4, <1>5, <1>6 DEF Sorts

\* The first n of a list.
LEMMA Taking ==
  ASSUME NEW S, NEW s \in Seq(S), NEW n \in Nat
  PROVE  /\ Take(s, n) \in Seq(S) /\ Len(Take(s, n)) \in Nat
         /\ DOMAIN Take(s, n) = 1 .. Len(Take(s, n))
         /\ Len(Take(s, n)) = IF n < Len(s) THEN n ELSE Len(s)
         /\ \A i \in 1 .. Len(Take(s, n)) : Take(s, n)[i] = s[i]
<1> DEFINE m == IF n < Len(s) THEN n ELSE Len(s)
<1>1. Len(s) \in Nat BY LenProperties
<1>2. m \in Nat /\ m \in 0 .. Len(s) BY <1>1
<1>3. Take(s, n) = SubSeq(s, 1, m) BY DEF Take
<1> HIDE DEF m
<1>4. \A i \in 1 .. m : s[i] \in S
  <2>1. s \in [1 .. Len(s) -> S] BY LenProperties
  <2> QED BY <1>1, <1>2, <2>1
<1>5. /\ SubSeq(s, 1, m) \in Seq(S)
      /\ Len(SubSeq(s, 1, m)) = IF 1 <= m THEN m - 1 + 1 ELSE 0
      /\ \A i \in 1 .. m - 1 + 1 : SubSeq(s, 1, m)[i] = s[1 + i - 1]
  <2>1. 1 \in 1 .. Len(s) + 1 /\ m \in 0 .. Len(s) BY <1>1, <1>2
  <2>2. \A i \in 1 .. m : s[i] \in S BY <1>4
  <2> QED BY <2>1, <2>2, SubSeqProperties
<1>6. Len(Take(s, n)) = m BY <1>2, <1>3, <1>5
<1>7. \A i \in 1 .. m : Take(s, n)[i] = s[i] BY <1>2, <1>3, <1>5
<1>8. Take(s, n) \in Seq(S) BY <1>3, <1>5
<1>9. Len(Take(s, n)) \in Nat /\ DOMAIN Take(s, n) = 1 .. Len(Take(s, n)) BY <1>8, LenProperties
<1> QED BY <1>6, <1>7, <1>8, <1>9 DEF m

\* The first n of an ordered set: those with fewer than n below them.
LEMMA TakingSorted ==
  ASSUME NEW S, NEW R, NEW s, Sorts(s, S, R), NEW n \in Nat
  PROVE  {Take(s, n)[i] : i \in DOMAIN Take(s, n)}
           = {x \in S : Cardinality(Below(S, R, x)) < n}
<1>1. s \in Seq(S) /\ Len(s) \in Nat BY DEF Sorts
<1>2. /\ DOMAIN Take(s, n) = 1 .. Len(Take(s, n))
      /\ Len(Take(s, n)) = IF n < Len(s) THEN n ELSE Len(s)
      /\ \A i \in 1 .. Len(Take(s, n)) : Take(s, n)[i] = s[i]
  BY <1>1, Taking
<1>3. s \in [1 .. Len(s) -> S] BY <1>1, LenProperties
<1>4. ASSUME NEW i \in DOMAIN Take(s, n)
      PROVE  Take(s, n)[i] \in {x \in S : Cardinality(Below(S, R, x)) < n}
  <2>1. i \in 1 .. Len(s) /\ Take(s, n)[i] = s[i] /\ i <= n BY <1>1, <1>2
  <2>2. s[i] \in S /\ Cardinality(Below(S, R, s[i])) = i - 1 BY <1>3, <2>1 DEF Sorts
  <2> QED BY <2>1, <2>2
<1>5. ASSUME NEW x \in S, Cardinality(Below(S, R, x)) < n
      PROVE  \E i \in DOMAIN Take(s, n) : Take(s, n)[i] = x
  <2>1. PICK i \in 1 .. Len(s) : s[i] = x BY DEF Sorts
  <2>2. Cardinality(Below(S, R, x)) = i - 1 BY <2>1 DEF Sorts
  <2>3. i \in 1 .. Len(Take(s, n)) BY <1>1, <1>2, <1>5, <2>1, <2>2
  <2> QED BY <1>2, <2>1, <2>3
<1> QED BY <1>4, <1>5

\* A set of places of a list, in the order of the list.
LEMMA Only1 ==
  ASSUME NEW S, NEW s \in Seq(S), NEW at \in SUBSET (DOMAIN s)
  PROVE  /\ Only(s, at) \in Seq(S) /\ Len(Only(s, at)) \in Nat
         /\ DOMAIN Only(s, at) = 1 .. Len(Only(s, at))
         /\ \A k \in 1 .. Len(Only(s, at)) : \E i \in at : Only(s, at)[k] = s[i]
         /\ \A i \in at : \E k \in 1 .. Len(Only(s, at)) : Only(s, at)[k] = s[i]
<1> DEFINE R == {p \in at \X at : p[1] < p[2]}
<1> DEFINE kept == Ordered(at, LAMBDA i, j : i < j)
<1>1. Len(s) \in Nat /\ DOMAIN s = 1 .. Len(s) /\ s \in [1 .. Len(s) -> S] BY LenProperties
<1>2. IsFiniteSet(at)
  <2>1. IsFiniteSet(1 .. Len(s)) BY <1>1, FS_Interval
  <2> QED BY <1>1, <2>1, FS_Subset
<1>3. Orders(R, at) BY <1>1 DEF Orders
<1>4. Sorts(kept, at, R)
  <2> DEFINE rank == [x \in at |-> Cardinality({y \in at : y < x})]
  <2>1. ASSUME NEW x \in at PROVE rank[x] = Cardinality(Below(at, R, x))
    <3>1. {y \in at : y < x} = Below(at, R, x) BY DEF Below
    <3> QED BY <3>1
  <2>2. kept = [i \in 1 .. Cardinality(at) |-> CHOOSE x \in at : rank[x] = i - 1]
    BY DEF Ordered
  <2> HIDE DEF rank, kept, R
  <2> QED BY <1>2, <1>3, <2>1, <2>2, Sorting
<1>5. Only(s, at) = [k \in DOMAIN kept |-> s[kept[k]]]
  <2>1. Only(s, at) = [k \in 1 .. Cardinality(at) |-> s[kept[k]]] BY DEF Only
  <2>2. DOMAIN kept = 1 .. Cardinality(at) BY DEF Ordered
  <2> QED BY <2>1, <2>2
<1> HIDE DEF kept, R
<1>6. /\ kept \in Seq(at) /\ Len(kept) \in Nat /\ DOMAIN kept = 1 .. Len(kept)
      /\ kept \in [1 .. Len(kept) -> at]
  BY <1>4, LenProperties DEF Sorts
<1>7. Only(s, at) \in [1 .. Len(kept) -> S] BY <1>1, <1>5, <1>6
<1>8. \E m \in Nat : Only(s, at) \in [1 .. m -> S] BY <1>6, <1>7
<1>9. Only(s, at) \in Seq(S) BY <1>8, SeqDef
<1>10. /\ Len(Only(s, at)) \in Nat /\ DOMAIN Only(s, at) = 1 .. Len(Only(s, at))
  BY <1>9, LenProperties
<1>11. DOMAIN Only(s, at) = DOMAIN kept BY <1>5
<1>12. ASSUME NEW k \in 1 .. Len(Only(s, at)) PROVE \E i \in at : Only(s, at)[k] = s[i]
  <2>1. k \in DOMAIN kept BY <1>10, <1>11
  <2>2. Only(s, at)[k] = s[kept[k]] /\ kept[k] \in at BY <1>5, <1>6, <2>1
  <2> QED BY <2>2
<1>13. ASSUME NEW i \in at PROVE \E k \in 1 .. Len(Only(s, at)) : Only(s, at)[k] = s[i]
  <2>1. PICK k \in 1 .. Len(kept) : kept[k] = i BY <1>4 DEF Sorts
  <2>2. k \in DOMAIN kept BY <1>6
  <2>3. Only(s, at)[k] = s[i] /\ k \in 1 .. Len(Only(s, at)) BY <1>5, <1>10, <1>11, <2>1, <2>2
  <2> QED BY <2>3
<1> QED BY <1>9, <1>10, <1>12, <1>13

-----------------------------------------------------------------------------
(***************************************************************************)
(* Windows.                                                                *)
(***************************************************************************)

LEMMA BucketStarts ==
  ASSUME NEW t \in Nat
  PROVE  BucketStart(t) \in Nat /\ BucketStart(t) <= t /\ t < BucketStart(t) + BucketHours
BY DEF BucketStart, BucketHours

LEMMA StartsInOrder ==
  ASSUME NEW s \in Nat, NEW t \in Nat, s <= t
  PROVE  BucketStart(s) <= BucketStart(t)
BY DEF BucketStart, BucketHours

LEMMA WindowsSee ==
  ASSUME NEW v \in Windows, NEW w \in Windows, NEW E, NEW b \in ScoreBuckets(E),
         b.bucket \in BucketStart(v.start) .. v.end - 1,
         b.bucket \in BucketStart(w.start) .. w.end - 1
  PROVE  b \in SelectBuckets(E, v) <=> b \in SelectBuckets(E, w)
<1>1. /\ BucketStart(v.start) \in Nat /\ v.end \in Nat
      /\ BucketStart(w.start) \in Nat /\ w.end \in Nat
  BY WindowsAssumption, BucketStarts
<1> QED BY <1>1 DEF SelectBuckets

\* Two windows agree about every bucket both of them show, for every set of
\* windows and whatever rows are stored: the theme filter is applied to the whole
\* history, the window only cuts (do_query_buckets).
THEOREM BucketsDoNotMove == Spec => []WindowsAgree
<1>1. WindowsAgree
  <2> SUFFICES ASSUME NEW v \in Windows, NEW w \in Windows, NEW themes
               PROVE  LET of(x) == {b \in QueryBuckets(rows, x, themes) :
                            /\ b.bucket \in BucketStart(v.start) .. v.end - 1
                            /\ b.bucket \in BucketStart(w.start) .. w.end - 1}
                      IN  of(v) = of(w)
    BY DEF WindowsAgree
  <2> DEFINE E == {e \in rows : themes = {} \/ e.themes \cap themes # {}}
  <2>1. /\ QueryBuckets(rows, v, themes) = SelectBuckets(E, v)
        /\ QueryBuckets(rows, w, themes) = SelectBuckets(E, w)
    BY DEF QueryBuckets
  <2> HIDE DEF E
  <2>2. /\ SelectBuckets(E, v) \subseteq ScoreBuckets(E)
        /\ SelectBuckets(E, w) \subseteq ScoreBuckets(E)
    BY DEF SelectBuckets
  <2> QED BY <2>1, <2>2, WindowsSee
<1> QED BY <1>1, PTL

-----------------------------------------------------------------------------
(***************************************************************************)
(* Adapters: what an event is, whatever record it was read from.           *)
(***************************************************************************)

\* A kind of its family, an alert from NOAA and from nobody else; counted at a
\* publisher only as a country.
Placed(e) ==
  /\ e.kind \in EventKind /\ e.family = FamilyOf(e.kind)
  /\ e.kind = "alert" <=> e.source = "noaa"
  /\ e.role = "publisher_origin" => e.prec = "country"
Sane(n) == IsList(n.events) /\ \A i \in DOMAIN n.events : Placed(n.events[i])

LEMMA EmptyIsList == IsList(<<>>) /\ DOMAIN <<>> = {}
BY DEF IsList, Range

LEMMA SaneNone == Sane(Err) /\ Sane(Ok(<<>>))
BY EmptyIsList DEF Sane, Err, Ok

LEMMA SaneList ==
  ASSUME NEW s, IsList(s), \A i \in DOMAIN s : Placed(s[i])
  PROVE  Sane(Validated(s))
BY SaneNone DEF Sane, Validated, Ok

LEMMA SaneOne ==
  ASSUME NEW e, Placed(e)
  PROVE  Sane(Validated(<<e>>))
<1>1. IsList(<<e>>) /\ DOMAIN <<e>> = {1} /\ <<e>>[1] = e BY DEF IsList, Range
<1>2. \A i \in DOMAIN <<e>> : Placed(<<e>>[i]) BY <1>1
<1> QED BY <1>1, <1>2, SaneList

LEMMA EventPlaced ==
  ASSUME NEW source, NEW native, NEW kind \in EventKind, NEW at, NEW of,
         kind = "alert" <=> source = "noaa",
         at.role = "publisher_origin" => at.prec = "country"
  PROVE  Placed(GeoTemporalEvent(source, native, kind, at, of))
<1> DEFINE e == GeoTemporalEvent(source, native, kind, at, of)
<1>1. /\ e.kind = kind /\ e.family = FamilyOf(kind) /\ e.source = source
      /\ e.role = at.role /\ e.prec = at.prec
  BY DEF GeoTemporalEvent
<1> HIDE DEF e
<1> QED BY <1>1 DEF Placed, e

LEMMA Elsewhere ==
  ASSUME NEW ts, NEW role, NEW geo, NEW cell, NEW country, role # "publisher_origin"
  PROVE  At(ts, role, geo, cell, country).role = "publisher_origin"
           => At(ts, role, geo, cell, country).prec = "country"
BY DEF At

LEMMA KindsOfRecords ==
  /\ \A type : AcledKind(type) \in EventKind /\ AcledKind(type) # "alert"
  /\ \A root : CameoKind(root) \subseteq EventKind \ {"alert"}
BY DEF AcledKind, CameoKind, EventKind

LEMMA SaneArticle ==
  ASSUME NEW row
  PROVE  Sane(NormalizeArticle(row))
<1>1. CASE row.url = 0 \/ row.seendate = 0 \/ Resolve(row.sourcecountry) = {}
  BY <1>1, SaneNone DEF NormalizeArticle
<1>2. CASE ~ (row.url = 0 \/ row.seendate = 0 \/ Resolve(row.sourcecountry) = {})
  <2> DEFINE country == CHOOSE c \in Resolve(row.sourcecountry) : TRUE
             at == At(row.seendate, "publisher_origin", [prec |-> "country", conf |-> 40],
                      country, country)
             of == Carries(1, -1, row.themes, row.title, Some(row.domain), {row.url})
             e == GeoTemporalEvent("gdelt", <<"doc", row.url>>, "news_attention", at, of)
  <2>1. NormalizeArticle(row) = Validated(<<e>>) BY <1>2 DEF NormalizeArticle
  <2>2. at.prec = "country" BY DEF At
  <2> HIDE DEF at, of
  <2>3. Placed(e) BY <2>2, EventPlaced DEF EventKind
  <2> QED BY <2>1, <2>3, SaneOne
<1> QED BY <1>1, <1>2

LEMMA SaneEventRow ==
  ASSUME NEW row
  PROVE  Sane(NormalizeEventRow(row))
<1>1. CASE row.cols < 61 BY <1>1, SaneNone DEF NormalizeEventRow
<1>2. CASE ~ (row.cols < 61) /\ (CameoKind(row.root) = {} \/ GeoPrecision(row.geo) = {})
  BY <1>2, SaneNone DEF NormalizeEventRow
<1>3. CASE ~ (row.cols < 61) /\ ~ (CameoKind(row.root) = {} \/ GeoPrecision(row.geo) = {})
           /\ (row.id = 0 \/ DateAdded(row) = 0 \/ ~ InRange(row.cell))
  BY <1>3, SaneNone DEF NormalizeEventRow
<1>4. CASE ~ (row.cols < 61) /\ ~ (CameoKind(row.root) = {} \/ GeoPrecision(row.geo) = {})
           /\ ~ (row.id = 0 \/ DateAdded(row) = 0 \/ ~ InRange(row.cell))
  <2> DEFINE kind == CHOOSE k \in CameoKind(row.root) : TRUE
             geo == CHOOSE g \in GeoPrecision(row.geo) : TRUE
             at == At(DateAdded(row), "event_site", geo, row.cell, CountryFromFips(row.fips))
             of == Carries(row.articles, GoldsteinSeverity(row.goldstein), {}, 0,
                           Some(row.doc), Some(row.doc))
             e == GeoTemporalEvent("gdelt", <<"event", row.id>>, kind, at, of)
  <2>1. NormalizeEventRow(row) = Validated(<<e>>) BY <1>4 DEF NormalizeEventRow
  <2>2. kind \in EventKind /\ kind # "alert" BY <1>4, KindsOfRecords
  <2>3. at.role = "publisher_origin" => at.prec = "country" BY Elsewhere
  <2> HIDE DEF at, of, kind
  <2>4. Placed(e) BY <2>2, <2>3, EventPlaced
  <2> QED BY <2>1, <2>4, SaneOne
<1> QED BY <1>1, <1>2, <1>3, <1>4

\* What is kept of a list is a list, of what was in it.
LEMMA OnlyLists ==
  ASSUME NEW s, IsList(s), NEW at \in SUBSET (DOMAIN s)
  PROVE  /\ IsList(Only(s, at)) /\ Only(s, at) \in Seq(Range(s))
         /\ \A k \in DOMAIN Only(s, at) : \E i \in at : Only(s, at)[k] = s[i]
         /\ \A i \in at : \E k \in DOMAIN Only(s, at) : Only(s, at)[k] = s[i]
<1>1. s \in Seq(Range(s)) BY DEF IsList
<1> DEFINE o == Only(s, at)
<1>2. /\ o \in Seq(Range(s)) /\ Len(o) \in Nat /\ DOMAIN o = 1 .. Len(o)
      /\ \A k \in 1 .. Len(o) : \E i \in at : o[k] = s[i]
      /\ \A i \in at : \E k \in 1 .. Len(o) : o[k] = s[i]
  BY <1>1, Only1
<1> HIDE DEF o
<1>3. o \in Seq(Range(o))
  <2>1. o \in [1 .. Len(o) -> Range(o)] BY <1>1, <1>2, LenProperties DEF Range
  <2> QED BY <1>2, <2>1, SeqDef
<1> QED BY <1>2, <1>3 DEF o, IsList

\* A function whose domain is that of a list is a list.
LEMMA MappedList ==
  ASSUME NEW s, IsList(s), NEW f, DOMAIN f = DOMAIN s, f = [i \in DOMAIN f |-> f[i]]
  PROVE  IsList(f)
<1>1. Len(s) \in Nat /\ DOMAIN s = 1 .. Len(s) BY LenProperties DEF IsList
<1>2. f \in [1 .. Len(s) -> Range(f)] BY <1>1 DEF Range
<1>3. \E n \in Nat : f \in [1 .. n -> Range(f)] BY <1>1, <1>2
<1> QED BY <1>3, SeqDef DEF IsList

LEMMA SaneGkgRow ==
  ASSUME NEW row, IsList(row.mentions)
  PROVE  Sane(NormalizeGkgRow(row))
<1>1. CASE row.cols < 24 \/ row.id = 0 \/ row.date = 0 BY <1>1, SaneNone DEF NormalizeGkgRow
<1>2. CASE ~ (row.cols < 24 \/ row.id = 0 \/ row.date = 0)
  <2> DEFINE found == Mentions(row.mentions)
             at(i) == At(row.date, "mentioned_place",
                         CHOOSE g \in GeoPrecision(found[i].geo) : TRUE, found[i].cell,
                         CountryFromFips(found[i].fips))
             of == Carries(1, -1, row.themes, row.title, Some(row.domain), Some(row.doc))
             event(i) == GeoTemporalEvent("gdelt", GkgId(row, i), "news_attention", at(i), of)
             s == [i \in DOMAIN found |-> event(i)]
  <2>1. NormalizeGkgRow(row) = Validated(s) BY <1>2 DEF NormalizeGkgRow
  <2>2. IsList(found)
    <3> DEFINE list == row.mentions
               usable == {i \in DOMAIN list : GeoPrecision(list[i].geo) # {} /\ InRange(list[i].cell)}
               kept == {i \in usable : \A j \in usable : j < i => list[j].pos # list[i].pos}
    <3>1. found = Only(list, kept) BY DEF Mentions
    <3>2. kept \in SUBSET (DOMAIN list) OBVIOUS
    <3> HIDE DEF kept
    <3> QED BY <3>1, <3>2, OnlyLists
  <2>3. \A i : at(i).role = "publisher_origin" => at(i).prec = "country" BY Elsewhere
  <2>4. ASSUME NEW i PROVE Placed(event(i))
    <3> DEFINE place == at(i)
    <3>1. place.role = "publisher_origin" => place.prec = "country" BY <2>3
    <3> HIDE DEF place, of
    <3>2. Placed(GeoTemporalEvent("gdelt", GkgId(row, i), "news_attention", place, of))
      BY <3>1, EventPlaced DEF EventKind
    <3> QED BY <3>2 DEF place
  <2> HIDE DEF event, found
  <2>5. IsList(s) BY <2>2, MappedList
  <2>6. \A i \in DOMAIN s : Placed(s[i]) BY <2>4
  <2> QED BY <2>1, <2>5, <2>6, SaneList
<1> QED BY <1>1, <1>2

LEMMA SaneAlert ==
  ASSUME NEW raw
  PROVE  Sane(NormalizeAlert(raw))
<1> DEFINE bad == \/ ~ InRange(raw.geometry.cell)
                  \/ 0 \in {raw.id, AlertTime(raw.times), raw.label}
           e == GeoTemporalEvent("noaa", raw.id, "alert",
                  At(AlertTime(raw.times), "reporting_jurisdiction",
                     [prec |-> "admin1", conf |-> 65], raw.geometry.cell, 1),
                  Carries(1, AlertSeverity(raw.severity), {1, 2, raw.label}, raw.label,
                          {901}, Some(raw.url)))
<1>1. \/ NormalizeAlert(raw) \in {Err, Ok(<<>>)}
      \/ NormalizeAlert(raw) = Validated(<<e>>)
  BY DEF NormalizeAlert
<1>2. Placed(e)
  <2> DEFINE at == At(AlertTime(raw.times), "reporting_jurisdiction",
                      [prec |-> "admin1", conf |-> 65], raw.geometry.cell, 1)
             of == Carries(1, AlertSeverity(raw.severity), {1, 2, raw.label}, raw.label,
                           {901}, Some(raw.url))
  <2>1. at.role = "publisher_origin" => at.prec = "country" BY Elsewhere
  <2> HIDE DEF at, of
  <2>2. Placed(GeoTemporalEvent("noaa", raw.id, "alert", at, of)) BY <2>1, EventPlaced DEF EventKind
  <2> QED BY <2>2 DEF at, of
<1> HIDE DEF e
<1> QED BY <1>1, <1>2, SaneNone, SaneOne

LEMMA SaneOutage ==
  ASSUME NEW raw
  PROVE  Sane(NormalizeOutage(raw))
<1> DEFINE at == At(raw.start, "event_site", [prec |-> "country", conf |-> 55], raw.code, raw.code)
           of == Carries(1, SeverityFromScore(raw.score), {3, 4, raw.datasource, raw.method}, 800,
                         {902}, {700 + raw.code})
           native == <<raw.code, raw.start, raw.datasource, raw.method>>
           e == GeoTemporalEvent("ioda", native, "disruption", at, of)
<1>1. NormalizeOutage(raw) = Err \/ NormalizeOutage(raw) = Validated(<<e>>) BY DEF NormalizeOutage
<1>2. at.role = "publisher_origin" => at.prec = "country" BY Elsewhere
<1> HIDE DEF at, of, native
<1>3. Placed(e) BY <1>2, EventPlaced DEF EventKind
<1> QED BY <1>1, <1>3, SaneNone, SaneOne

LEMMA SaneAcled ==
  ASSUME NEW raw
  PROVE  Sane(NormalizeAcled(raw))
<1> DEFINE geo == CHOOSE g \in AcledPrecision(raw.geo) : TRUE
           at == At(Noon(raw.day), "event_site", geo, raw.cell, Alpha3(raw.iso))
           of == Carries(Cardinality(raw.sources), Severity(raw.fatalities), {5} \cup raw.labels,
                         raw.title, raw.sources, {})
           e == GeoTemporalEvent("acled", raw.id, AcledKind(raw.type), at, of)
<1>1. NormalizeAcled(raw) = Err \/ NormalizeAcled(raw) = Validated(<<e>>) BY DEF NormalizeAcled
<1>2. at.role = "publisher_origin" => at.prec = "country" BY Elsewhere
<1> HIDE DEF at, of
<1>3. Placed(e) BY <1>2, EventPlaced, KindsOfRecords
<1> QED BY <1>1, <1>3, SaneNone, SaneOne

LEMMA SaneFixture ==
  ASSUME NEW raw
  PROVE  Sane(NormalizeFixture(raw))
<1> DEFINE doc == raw.shape = "gdelt_doc"
           geo == IF doc THEN GeoPrecision(raw.geo) ELSE AcledPrecision(raw.geo)
           kind == IF doc THEN "news_attention" ELSE AcledKind(raw.type)
           at == At(raw.ts, IF doc THEN "mentioned_place" ELSE "event_site",
                    CHOOSE g \in geo : TRUE, raw.cell, raw.country)
           of == Carries(raw.volume, IF doc THEN -1 ELSE Severity(raw.fatalities), raw.themes,
                         raw.title, raw.domains, IF doc THEN raw.urls ELSE {})
           e == GeoTemporalEvent("fixtures", raw.id, kind, at, of)
<1>1. NormalizeFixture(raw) = Err \/ NormalizeFixture(raw) = Validated(<<e>>)
  BY DEF NormalizeFixture
<1>2. at.role = "publisher_origin" => at.prec = "country" BY DEF At
<1>3. kind \in EventKind /\ kind # "alert" BY KindsOfRecords DEF EventKind
<1> HIDE DEF at, of, kind
<1>4. Placed(e) BY <1>2, <1>3, EventPlaced
<1> QED BY <1>1, <1>4, SaneNone, SaneOne

LEMMA SaneRollup ==
  ASSUME NEW r, NEW source, source # "noaa"
  PROVE  Sane(NormalizeRollup(r, source))
<1> DEFINE at == At(r.window, "mentioned_place", [prec |-> r.prec, conf |-> 50], r.cell, r.country)
           of == Carries(r.count, -1, {6, r.topic}, 0, {}, {})
           e == GeoTemporalEvent(source, RollupId(r), "chatter", at, of)
<1>1. \/ NormalizeRollup(r, source) \in {Err, Ok(<<>>)}
      \/ NormalizeRollup(r, source) = Validated(<<e>>)
  BY DEF NormalizeRollup
<1>2. at.role = "publisher_origin" => at.prec = "country" BY Elsewhere
<1> HIDE DEF at, of
<1>3. Placed(e) BY <1>2, EventPlaced DEF EventKind
<1> QED BY <1>1, <1>3, SaneNone, SaneOne

\* Every adapter: a kind of its family, and no place finer than the publisher's
\* country for what is counted there.
LEMMA SaneNormalize ==
  ASSUME NEW source, NEW raw, raw.form = "gkg" => IsList(raw.mentions)
  PROVE  Sane(Normalize(source, raw))
<1>1. Sane(NormalizeGdelt(raw))
  BY SaneArticle, SaneEventRow, SaneGkgRow, SaneNone DEF NormalizeGdelt
<1> QED
  BY <1>1, SaneAcled, SaneAlert, SaneOutage, SaneFixture, SaneRollup, SaneNone DEF Normalize

-----------------------------------------------------------------------------
(***************************************************************************)
(* Fetches: a list, of records the answer has.                             *)
(***************************************************************************)

LEMMA FetchedRows ==
  ASSUME NEW r
  PROVE  Fetched(r).rows = r
BY DEF Fetched

LEMMA FailedRows ==
  ASSUME NEW e
  PROVE  Failed(e).rows = <<>>
BY DEF Failed

\* A status outside 2xx costs the rows, and nothing else about them.
LEMMA GetRows ==
  ASSUME NEW resp, NEW read
  PROVE  Get(resp, read).rows \in {<<>>, read.rows}
BY FailedRows DEF Get

LEMMA BodiesAreLists ==
  ASSUME NEW resp, IsList(resp.rows)
  PROVE  /\ IsList(Articles(resp).rows) /\ IsList(NoaaBody(resp).rows)
         /\ IsList(IodaBody(resp).rows) /\ IsList(Unzip(resp).rows)
<1>1. IsList(Articles(resp).rows) /\ IsList(NoaaBody(resp).rows)
  BY FetchedRows, FailedRows, EmptyIsList DEF Articles, NoaaBody
<1>2. IsList(IodaBody(resp).rows) BY <1>1, FailedRows, EmptyIsList DEF IodaBody
<1>3. IsList(Unzip(resp).rows)
  <2> DEFINE at == {i \in DOMAIN resp.rows : resp.rows[i].cols > 0}
  <2>1. Unzip(resp) = Failed("other") \/ Unzip(resp) = Fetched(Only(resp.rows, at)) BY DEF Unzip
  <2>2. at \in SUBSET (DOMAIN resp.rows) OBVIOUS
  <2> HIDE DEF at
  <2>3. IsList(Only(resp.rows, at)) BY <2>2, OnlyLists
  <2> QED BY <2>1, <2>3, FetchedRows, FailedRows, EmptyIsList
<1> QED BY <1>1, <1>2, <1>3

LEMMA DocRows ==
  ASSUME NEW query, NEW resp, IsList(resp.rows)
  PROVE  IsList(FetchDoc(query, resp).rows)
<1>1. CASE query.query = <<>> BY <1>1, FailedRows, EmptyIsList DEF FetchDoc
<1>2. CASE query.query # <<>>
  <2> DEFINE got == Get(resp, Articles(resp))
             f == [i \in DOMAIN got.rows |-> [got.rows[i] EXCEPT !.themes = query.themes]]
  <2>1. FetchDoc(query, resp) = [got EXCEPT !.rows = f] BY <1>2 DEF FetchDoc
  <2>2. IsList(got.rows) BY BodiesAreLists, GetRows, EmptyIsList
  <2>3. DOMAIN got = {"err", "rows"} BY DEF Get, Articles, Fetched, Failed
  <2>4. IsList(f) BY <2>2, MappedList
  <2> HIDE DEF got, f
  <2>5. FetchDoc(query, resp).rows = f BY <2>1, <2>3
  <2> QED BY <2>4, <2>5
<1> QED BY <1>1, <1>2

LEMMA DumpRows ==
  ASSUME NEW leg, NEW pointer, NEW dump, IsList(dump.rows)
  PROVE  IsList(FetchDump(leg, pointer, dump).rows)
<1> DEFINE found == DumpOf(pointer.lines, leg)
           read == IF found = {} \/ \E l \in found : l.window = 0 THEN Failed("other")
                   ELSE Get(dump, Unzip(dump))
<1>1. FetchDump(leg, pointer, dump) = Get(pointer, read) BY DEF FetchDump
<1>2. IsList(read.rows)
  <2>1. IsList(Get(dump, Unzip(dump)).rows) BY BodiesAreLists, GetRows, EmptyIsList
  <2> HIDE DEF found
  <2> QED BY <2>1, FailedRows, EmptyIsList
<1> HIDE DEF read
<1> QED BY <1>1, <1>2, GetRows, EmptyIsList

LEMMA OwnList ==
  ASSUME NEW S, NEW s \in Seq(S)
  PROVE  IsList(s) /\ Range(s) \subseteq S
<1>1. Len(s) \in Nat /\ s \in [1 .. Len(s) -> S] /\ DOMAIN s = 1 .. Len(s) BY LenProperties
<1>2. s \in [1 .. Len(s) -> Range(s)] /\ Range(s) \subseteq S BY <1>1 DEF Range
<1>3. \E n \in Nat : s \in [1 .. n -> Range(s)] BY <1>1, <1>2
<1> QED BY <1>2, <1>3, SeqDef DEF IsList

LEMMA Joined ==
  ASSUME NEW S, NEW s \in Seq(S), NEW t \in Seq(S)
  PROVE  s \o t \in Seq(S)
BY ConcatProperties

LEMMA FixtureRows ==
  ASSUME NEW files, NEW window, IsList(files), \A f \in Range(files) : IsList(f.rows)
  PROVE  IsList(FetchFixtures(files, window).rows)
<1>1. CASE \E i \in DOMAIN files : ~ files[i].schema
  BY <1>1, FailedRows, EmptyIsList DEF FetchFixtures
<1>2. CASE ~ \E i \in DOMAIN files : ~ files[i].schema
  <2> DEFINE of(f) == Only(f.rows, {i \in DOMAIN f.rows :
                             f.rows[i].ts = 0 \/ InWindow(window, f.rows[i].ts)})
             S == UNION {Range(f.rows) : f \in Range(files)}
             n == Len(files)
             upTo[i \in 0 .. n] == IF i = 0 THEN <<>> ELSE upTo[i - 1] \o of(files[i])
  <2>1. FetchFixtures(files, window) = Fetched(upTo[n]) BY <1>2 DEF FetchFixtures
  <2>2. n \in Nat /\ DOMAIN files = 1 .. n BY LenProperties DEF IsList
  <2>3. ASSUME NEW f \in Range(files) PROVE of(f) \in Seq(S)
    <3> DEFINE at == {i \in DOMAIN f.rows : f.rows[i].ts = 0 \/ InWindow(window, f.rows[i].ts)}
    <3>1. IsList(f.rows) /\ at \in SUBSET (DOMAIN f.rows) OBVIOUS
    <3> HIDE DEF at
    <3>2. Only(f.rows, at) \in Seq(Range(f.rows)) BY <3>1, OnlyLists
    <3>3. Range(f.rows) \subseteq S OBVIOUS
    <3> HIDE DEF S
    <3>4. Only(f.rows, at) \in Seq(S) BY <3>2, <3>3, SeqMonotonic
    <3> QED BY <3>4 DEF at
  <2> HIDE DEF S, of
  <2>4. \A i \in 1 .. n : of(files[i]) \in Seq(S)
    <3>1. \A i \in 1 .. n : files[i] \in Range(files) BY <2>2 DEF Range
    <3> QED BY <2>3, <3>1
  <2> DEFINE part == [i \in 1 .. n |-> of(files[i])]
  <2>5. \A i \in 1 .. n : part[i] \in Seq(S) BY <2>4
  <2>6. ASSUME NEW g
        PROVE  Joins(n, part, g) = [i \in 0 .. n |-> IF i = 0 THEN <<>> ELSE g[i - 1] \o of(files[i])]
    <3>1. \A i \in 0 .. n : i # 0 => part[i] = of(files[i]) BY <2>2
    <3> HIDE DEF part
    <3> QED BY <3>1 DEF Joins
  <2> HIDE DEF part, n
  <2>7. PICK g : g = Joins(n, part, g) BY <2>2, <2>5, Joining
  <2>8. upTo = Joins(n, part, upTo) BY <2>6, <2>7
  <2> HIDE DEF upTo
  <2>9. upTo \in [0 .. n -> Seq(S)] BY <2>2, <2>5, <2>8, Joining
  <2>10. upTo[n] \in Seq(S) BY <2>2, <2>9
  <2> QED BY <2>1, <2>10, FetchedRows, OwnList
<1> QED BY <1>1, <1>2

\* A page is taken from the provider's rows.
LEMMA AcledPage ==
  ASSUME NEW s, NEW server, NEW window, IsList(server.rows), s.page \in Nat \ {0}
  PROVE  GetPage(s, server, window).rows \in Seq(Range(server.rows))
<1> DEFINE S == Range(server.rows)
           at == {i \in DOMAIN server.rows : server.rows[i].day \in ReadDays(window)}
           asked == Only(server.rows, at)
           from == AcledPageLimit * (s.page - 1) + 1
           part == SubSeq(asked, from, Len(asked))
           page == Take(part, AcledPageLimit)
           read == PageRows([body |-> server.body, rows |-> page])
<1>1. at \in SUBSET (DOMAIN server.rows) OBVIOUS
<1>2. asked \in Seq(S)
  <2> HIDE DEF at
  <2> QED BY <1>1, OnlyLists
<1>3. AcledPageLimit \in Nat /\ from \in Nat \ {0} BY AcledAssumption
<1>4. part \in Seq(S)
  <2> HIDE DEF asked, from, S
  <2>1. Len(asked) \in Nat /\ asked \in [1 .. Len(asked) -> S] BY <1>2, LenProperties
  <2>2. \A i \in from .. Len(asked) : asked[i] \in S BY <1>3, <2>1
  <2> QED BY <1>3, <2>1, <2>2, SubSeqProperties
<1>5. page \in Seq(S)
  <2> HIDE DEF part, S
  <2> QED BY <1>3, <1>4, Taking
<1>6. \/ GetPage(s, server, window).rows = <<>>
      \/ GetPage(s, server, window) = Get(server, read)
  BY DEF GetPage
<1>7. read.rows \in {<<>>, page}
  <2> HIDE DEF page
  <2> QED BY FetchedRows, FailedRows DEF PageRows
<1>8. <<>> \in Seq(S) OBVIOUS
<1> HIDE DEF read, page, S
<1>9. Get(server, read).rows \in Seq(S) BY <1>5, <1>7, <1>8, GetRows
<1>10. GetPage(s, server, window).rows \in Seq(S) BY <1>6, <1>8, <1>9, Zenon
<1> QED BY <1>10 DEF S

\* The state of a walk over a provider that has the rows S.
Walk(s, S) ==
  /\ DOMAIN s = {"token", "bearer", "page", "rows", "reauthed", "done", "err", "grants"}
  /\ s.rows \in Seq(S) /\ s.page \in Nat \ {0}

\* Asking for a token leaves the pages alone.
LEMMA BearerWalks ==
  ASSUME NEW s, NEW S, NEW now, Walk(s, S)
  PROVE  Walk(Bearer(s, now), S)
<1>1. ASSUME NEW t, Walk(t, S) PROVE Walk(RequestToken(t, now), S)
  BY <1>1 DEF RequestToken, Walk
<1>2. Walk([s EXCEPT !.err = "none", !.bearer = 0], S) BY DEF Walk
<1>3. ASSUME NEW b PROVE Walk([s EXCEPT !.err = "none", !.bearer = b], S) BY DEF Walk
<1> DEFINE refreshed == IF \E t \in s.token : t.refresh THEN RequestToken(s, now)
                        ELSE [s EXCEPT !.err = "none", !.bearer = 0]
<1>4. Walk(refreshed, S) BY <1>1, <1>2
<1>5. Walk(RequestToken(refreshed, now), S) BY <1>1, <1>4
<1> DEFINE fresh == {t \in s.token : t.expires - now > ExpirySlack}
<1>6. \/ Bearer(s, now) = [s EXCEPT !.err = "none", !.bearer = (CHOOSE t \in fresh : TRUE).access]
      \/ Bearer(s, now) = refreshed
      \/ Bearer(s, now) = RequestToken(refreshed, now)
  BY DEF Bearer
<1> HIDE DEF refreshed, fresh
<1> QED BY <1>3, <1>4, <1>5, <1>6

LEMMA TurnWalks ==
  ASSUME NEW s, NEW server, NEW window, NEW now, IsList(server.rows),
         Walk(s, Range(server.rows))
  PROVE  Walk(Turn(s, server, window, now), Range(server.rows))
<1> DEFINE S == Range(server.rows)
           got == GetPage(s, server, window)
           again == Bearer([s EXCEPT !.token = {}, !.reauthed = TRUE], now)
<1>1. got.rows \in Seq(S) BY AcledPage DEF Walk
<1>2. s.rows \o got.rows \in Seq(S)
  <2> HIDE DEF S, got
  <2> QED BY <1>1, Joined DEF Walk, S
<1>3. Walk([s EXCEPT !.rows = @ \o got.rows, !.page = @ + 1,
              !.done = Len(got.rows) < AcledPageLimit \/ s.page = AcledMaxPages], S)
  <2> DEFINE rs == s.rows \o got.rows
             d == Len(got.rows) < AcledPageLimit \/ s.page = AcledMaxPages
  <2>1. rs \in Seq(S) BY <1>2
  <2> HIDE DEF S, rs, d
  <2>2. Walk([s EXCEPT !.rows = rs, !.page = @ + 1, !.done = d], S) BY <2>1 DEF Walk, S
  <2> QED BY <2>2 DEF rs, d
<1>4. Walk(again, S)
  <2>1. Walk([s EXCEPT !.token = {}, !.reauthed = TRUE], S) BY DEF Walk
  <2> HIDE DEF S
  <2> QED BY <2>1, BearerWalks
<1>5. Walk([again EXCEPT !.done = again.err # "none"], S) BY <1>4 DEF Walk
<1>6. Walk([s EXCEPT !.done = TRUE, !.err = got.err], S) BY DEF Walk
<1>7. \/ Turn(s, server, window, now)
           = [s EXCEPT !.rows = @ \o got.rows, !.page = @ + 1,
                !.done = Len(got.rows) < AcledPageLimit \/ s.page = AcledMaxPages]
      \/ Turn(s, server, window, now) = [again EXCEPT !.done = again.err # "none"]
      \/ Turn(s, server, window, now) = [s EXCEPT !.done = TRUE, !.err = got.err]
  BY DEF Turn
<1> HIDE DEF S, again, got
<1> QED BY <1>3, <1>5, <1>6, <1>7 DEF S

\* The turns of a walk exist, and each leaves it a walk.
LEMMA AcledRows ==
  ASSUME NEW held, NEW server, NEW window, NEW now, IsList(server.rows)
  PROVE  FetchAcled(held, server, window, now).rows \in Seq(Range(server.rows))
<1> DEFINE S == Range(server.rows)
           begun == Bearer([token |-> held, bearer |-> 0, page |-> 1, rows |-> <<>>,
                            reauthed |-> FALSE, done |-> FALSE, err |-> "none",
                            grants |-> server.grants], now)
           first == [begun EXCEPT !.done = begun.err # "none"]
           next(s) == IF s.done THEN s ELSE Turn(s, server, window, now)
           m == AcledMaxPages + 1
           after[n \in 0 .. m] == IF n = 0 THEN first ELSE next(after[n - 1])
<1>1. Walk(first, S)
  <2> DEFINE s == [token |-> held, bearer |-> 0, page |-> 1, rows |-> <<>>,
                   reauthed |-> FALSE, done |-> FALSE, err |-> "none",
                   grants |-> server.grants]
  <2>1. Walk(s, S) BY DEF Walk
  <2> HIDE DEF s, S
  <2>2. Walk(Bearer(s, now), S) BY <2>1, BearerWalks
  <2>3. Walk(begun, S) BY <2>2 DEF s
  <2> HIDE DEF begun
  <2> QED BY <2>3 DEF Walk
<1>2. ASSUME NEW s, Walk(s, S) PROVE Walk(next(s), S) BY <1>2, TurnWalks
<1>3. m \in Nat BY AcledAssumption
<1>4. FetchAcled(held, server, window, now).rows
        = IF after[m].err = "none" THEN after[m].rows ELSE <<>>
  BY DEF FetchAcled
<1> HIDE DEF first, next, m, S
<1> DEFINE Of(g) == [n \in 0 .. m |-> IF n = 0 THEN first ELSE next(g[n - 1])]
           Goes(k, g) == g[0] = first /\ \A i \in 1 .. k : g[i] = next(g[i - 1])
<1>5. \E g : g = Of(g)
  <2> DEFINE T == {k \in 0 .. m : \E g : Goes(k, g)}
  <2>1. 0 \in T
    <3> DEFINE g == [i \in 0 .. 0 |-> first]
    <3>1. Goes(0, g) OBVIOUS
    <3> HIDE DEF g, Goes
    <3> QED BY <1>3, <3>1
  <2>2. ASSUME NEW k \in 1 .. m, k - 1 \in T PROVE k \in T
    <3>1. PICK f : Goes(k - 1, f) BY <2>2
    <3> DEFINE g == [i \in 0 .. k |-> IF i = k THEN next(f[k - 1]) ELSE f[i]]
    <3>2. (\A i \in 0 .. k - 1 : g[i] = f[i]) /\ g[k] = next(f[k - 1]) BY <1>3
    <3> HIDE DEF g
    <3>3. g[0] = first BY <1>3, <3>1, <3>2
    <3>4. ASSUME NEW i \in 1 .. k PROVE g[i] = next(g[i - 1])
      <4>1. i - 1 \in 0 .. k - 1 /\ g[i - 1] = f[i - 1] BY <1>3, <3>2
      <4>2. CASE i = k BY <3>2, <4>1, <4>2
      <4>3. CASE i # k
        <5>1. i \in 1 .. k - 1 BY <1>3, <4>3
        <5> QED BY <3>1, <3>2, <4>1, <5>1
      <4> QED BY <4>2, <4>3
    <3>5. Goes(k, g) BY <3>3, <3>4
    <3> HIDE DEF Goes
    <3> QED BY <3>5
  <2>3. \A k \in 0 .. m : k \in T
    <3> HIDE DEF T
    <3> QED BY <1>3, <2>1, <2>2, Climb
  <2>4. PICK f : Goes(m, f) BY <1>3, <2>3
  <2> DEFINE g == [n \in 0 .. m |-> f[n]]
             tail == [n \in 0 .. m |-> next(g[n - 1])]
             h == [n \in 0 .. m |-> IF n = 0 THEN first ELSE tail[n]]
  <2>5. \A n \in 1 .. m : n - 1 \in 0 .. m /\ g[n - 1] = f[n - 1] BY <1>3
  <2>6. \A n \in 1 .. m : tail[n] = next(g[n - 1]) OBVIOUS
  <2>7. \A n \in 0 .. m : g[n] = f[n] OBVIOUS
  <2>8. Of(g) = h OBVIOUS
  <2> HIDE DEF tail
  <2>9. \A n \in 0 .. m : h[n] = IF n = 0 THEN first ELSE tail[n] OBVIOUS
  <2> HIDE DEF Of
  <2>10. \A n \in 0 .. m : g[n] = h[n]
    <3> HIDE DEF g, h
    <3> QED BY <1>3, <2>4, <2>5, <2>6, <2>7, <2>9
  <2>11. g = [n \in 0 .. m |-> g[n]] /\ h = [n \in 0 .. m |-> h[n]] OBVIOUS
  <2> HIDE DEF g, h
  <2>12. g = h BY <2>10, <2>11
  <2> QED BY <2>8, <2>12
<1>6. after = Of(after)
  <2>1. PICK g : g = Of(g) BY <1>5
  <2> QED BY <2>1
<1> HIDE DEF after
<1>7. after[0] = first /\ \A i \in 1 .. m : after[i] = next(after[i - 1])
  <2> DEFINE f == Of(after)
  <2>1. f[0] = first /\ \A i \in 1 .. m : f[i] = next(after[i - 1]) BY <1>3
  <2> HIDE DEF f
  <2> QED BY <1>6, <2>1 DEF f
<1> DEFINE T == {i \in 0 .. m : Walk(after[i], S)}
<1>8. 0 \in T BY <1>1, <1>3, <1>7
<1>9. ASSUME NEW i \in 1 .. m, i - 1 \in T PROVE i \in T BY <1>2, <1>3, <1>7, <1>9
<1>10. Walk(after[m], S)
  <2>1. \A k \in 0 .. m : k \in T
    <3> HIDE DEF T
    <3> QED BY <1>3, <1>8, <1>9, Climb
  <2> QED BY <1>3, <2>1
<1>11. after[m].rows \in Seq(S) BY <1>10 DEF Walk
<1>12. <<>> \in Seq(S) OBVIOUS
<1>13. FetchAcled(held, server, window, now).rows \in Seq(S)
  BY <1>4, <1>11, <1>12
<1> QED BY <1>13 DEF S

\* Whatever a client holds and whenever it asks, it gets a list of records the
\* answer has.
LEMMA FetchLists ==
  ASSUME NEW a \in Answers, NEW cached, NEW now
  PROVE  Fetch(a, cached, now).rows \in Seq(RecordsOf(a))
<1>1. \A s \in Lists(a) : IsList(s) BY AnswersAssumption
<1>2. CASE a.leg = "acled"
  <2>1. Lists(a) = {a.server.rows} BY <1>2 DEF Lists
  <2>2. Fetch(a, cached, now) = FetchAcled(cached, a.server, a.window, now) BY <1>2 DEF Fetch
  <2>3. RecordsOf(a) = Range(a.server.rows) BY <1>2 DEF RecordsOf
  <2>4. IsList(a.server.rows) BY <1>1, <2>1
  <2>5. FetchAcled(cached, a.server, a.window, now).rows \in Seq(Range(a.server.rows))
    BY <2>4, AcledRows
  <2> QED BY <2>2, <2>3, <2>5
<1>3. CASE a.leg # "acled"
  <2> DEFINE got == Fetch(a, {}, 0).rows
  <2>1. Fetch(a, cached, now).rows = got BY <1>3 DEF Fetch
  <2>2. RecordsOf(a) = Range(got) BY <1>3 DEF RecordsOf
  <2>3. IsList(got)
    <3>1. CASE a.leg = "doc"
      <4>1. IsList(a.resp.rows) BY <1>1, <3>1 DEF Lists
      <4>2. Fetch(a, {}, 0) = FetchDoc(a.query, a.resp) BY <3>1 DEF Fetch
      <4> QED BY <4>1, <4>2, DocRows
    <3>2. CASE a.leg \in {"events", "gkg"}
      <4>1. IsList(a.resp.rows) BY <1>1, <3>2 DEF Lists
      <4>2. Fetch(a, {}, 0) = FetchDump(a.leg, a.pointer, a.resp) BY <3>2 DEF Fetch
      <4> QED BY <4>1, <4>2, DumpRows
    <3>3. CASE a.leg = "noaa"
      <4>1. IsList(a.resp.rows) BY <1>1, <3>3 DEF Lists
      <4>2. Fetch(a, {}, 0) = Get(a.resp, NoaaBody(a.resp)) BY <3>3 DEF Fetch, FetchNoaa
      <4> QED BY <4>1, <4>2, BodiesAreLists, GetRows, EmptyIsList
    <3>4. CASE a.leg = "ioda"
      <4>1. IsList(a.resp.rows) BY <1>1, <3>4 DEF Lists
      <4>2. Fetch(a, {}, 0) = Get(a.resp, IodaBody(a.resp)) BY <3>4 DEF Fetch, FetchIoda
      <4> QED BY <4>1, <4>2, BodiesAreLists, GetRows, EmptyIsList
    <3>5. CASE a.leg = "fixture"
      <4>1. Lists(a) = {a.files} \cup {f.rows : f \in Range(a.files)} BY <3>5 DEF Lists
      <4>2. IsList(a.files) /\ \A f \in Range(a.files) : IsList(f.rows) BY <1>1, <4>1
      <4>3. Fetch(a, {}, 0) = FetchFixtures(a.files, a.window) BY <3>5 DEF Fetch
      <4> QED BY <4>2, <4>3, FixtureRows
    <3>6. CASE a.leg \notin {"doc", "events", "gkg", "noaa", "ioda", "fixture", "acled"}
      <4>1. Lists(a) = {a.rows} BY <3>6 DEF Lists
      <4>2. Fetch(a, {}, 0) = Fetched(a.rows) BY <3>6 DEF Fetch
      <4> QED BY <1>1, <4>1, <4>2, FetchedRows
    <3> QED BY <1>3, <3>1, <3>2, <3>3, <3>4, <3>5, <3>6
  <2> HIDE DEF got
  <2> QED BY <2>1, <2>2, <2>3 DEF IsList
<1> QED BY <1>2, <1>3

\* What a batch becomes is what its records become, one after the other.
LEMMA PartitionLists ==
  ASSUME NEW source, NEW raws, IsList(raws),
         \A raw \in Range(raws) : IsList(Normalize(source, raw).events)
  PROVE  PartitionNormalized(source, raws).events
           \in Seq(UNION {Range(Normalize(source, raw).events) : raw \in Range(raws)})
<1> DEFINE S == UNION {Range(Normalize(source, raw).events) : raw \in Range(raws)}
           m == Len(raws)
           V == [events : Seq(S), failures : Nat]
           base == [events |-> <<>>, failures |-> 0]
           next(i, s) == [events |-> s.events \o Normalize(source, raws[i]).events,
                          failures |-> s.failures + (IF Normalize(source, raws[i]).ok THEN 0 ELSE 1)]
           upTo[i \in 0 .. m] == IF i = 0 THEN base ELSE next(i, upTo[i - 1])
<1>1. m \in Nat /\ DOMAIN raws = 1 .. m BY LenProperties DEF IsList
<1>2. PartitionNormalized(source, raws) = upTo[m] BY DEF PartitionNormalized
<1>3. ASSUME NEW i \in 1 .. m PROVE Normalize(source, raws[i]).events \in Seq(S)
  <2> DEFINE e == Normalize(source, raws[i]).events
  <2>1. raws[i] \in Range(raws) BY <1>1 DEF Range
  <2>2. e \in Seq(Range(e)) /\ Range(e) \subseteq S BY <2>1 DEF IsList
  <2> HIDE DEF e, S
  <2> QED BY <2>2, SeqMonotonic DEF e
<1>4. ASSUME NEW i \in 1 .. m, NEW s \in V PROVE next(i, s) \in V
  <2> DEFINE e == Normalize(source, raws[i]).events
             d == IF Normalize(source, raws[i]).ok THEN 0 ELSE 1
  <2>1. e \in Seq(S) BY <1>3
  <2>2. s.events \in Seq(S) /\ s.failures \in Nat OBVIOUS
  <2>3. next(i, s) = [events |-> s.events \o e, failures |-> s.failures + d] OBVIOUS
  <2>4. d \in Nat OBVIOUS
  <2> HIDE DEF e, d, next, S
  <2>5. s.events \o e \in Seq(S) BY <2>1, <2>2, Joined
  <2> QED BY <2>2, <2>3, <2>4, <2>5
<1>5. base \in V OBVIOUS
<1> DEFINE Of(g) == [i \in 0 .. m |-> IF i = 0 THEN base ELSE next(i, g[i - 1])]
           F == [i \in 1 .. m |-> [s \in V |-> next(i, s)]]
<1>6. V = [events : Seq(S), failures : Nat] OBVIOUS
<1> HIDE DEF S, V, base, next, m
<1>7. F \in StepsOf(m, V) /\ \A i \in 1 .. m, s \in V : F[i][s] = next(i, s)
  BY <1>4 DEF StepsOf
<1>8. \E g : g = Of(g)
  <2> HIDE DEF F
  <2>1. PICK f : f \in IteratesOf(m, V, base, F) BY <1>1, <1>5, <1>7, Recursion
  <2>2. /\ f \in [0 .. m -> V] /\ f[0] = base /\ \A i \in 1 .. m : f[i] = F[i][f[i - 1]]
    BY <2>1 DEF IteratesOf
  <2>3. ASSUME NEW i \in 1 .. m PROVE f[i] = next(i, f[i - 1])
    <3>1. f[i - 1] \in V BY <1>1, <2>2
    <3> QED BY <1>7, <2>2, <3>1
  <2> DEFINE tail == [i \in 0 .. m |-> next(i, f[i - 1])]
             h == [i \in 0 .. m |-> IF i = 0 THEN base ELSE tail[i]]
  <2>4. \A i \in 1 .. m : tail[i] = next(i, f[i - 1]) OBVIOUS
  <2>5. Of(f) = h OBVIOUS
  <2> HIDE DEF tail, Of
  <2>6. \A i \in 0 .. m : h[i] = IF i = 0 THEN base ELSE tail[i] OBVIOUS
  <2>7. \A i \in 0 .. m : f[i] = h[i]
    <3> HIDE DEF h
    <3> QED BY <1>1, <2>2, <2>3, <2>4, <2>6
  <2>8. f = [i \in 0 .. m |-> f[i]] /\ h = [i \in 0 .. m |-> h[i]] BY <2>2
  <2> HIDE DEF h
  <2>9. f = h BY <2>7, <2>8
  <2> QED BY <2>5, <2>9
<1>9. upTo = Of(upTo)
  <2>1. PICK g : g = Of(g) BY <1>8
  <2> QED BY <2>1
<1> HIDE DEF upTo, F
<1>10. upTo[0] = base /\ \A i \in 1 .. m : upTo[i] = next(i, upTo[i - 1])
  <2> DEFINE f == Of(upTo)
  <2>1. f[0] = base /\ \A i \in 1 .. m : f[i] = next(i, upTo[i - 1]) BY <1>1
  <2> HIDE DEF f
  <2> QED BY <1>9, <2>1 DEF f
<1> DEFINE T == {i \in 0 .. m : upTo[i] \in V}
<1>11. 0 \in T BY <1>1, <1>5, <1>10
<1>12. ASSUME NEW i \in 1 .. m, i - 1 \in T PROVE i \in T BY <1>1, <1>4, <1>10, <1>12
<1>13. upTo[m] \in V
  <2>1. \A k \in 0 .. m : k \in T
    <3> HIDE DEF T
    <3> QED BY <1>1, <1>11, <1>12, Climb
  <2> QED BY <1>1, <2>1
<1>14. upTo[m].events \in Seq(S) BY <1>6, <1>13
<1> QED BY <1>2, <1>14 DEF S

-----------------------------------------------------------------------------
(***************************************************************************)
(* What is kept: rows of typed events, one of each id, and whole digests.  *)
(***************************************************************************)
Row(e) == Placed(e) /\ {e.id, e.ts, e.cell, e.volume} \subseteq Nat /\ e.sev \in Int

Table(E) ==
  /\ IsFiniteSet(E) /\ \A e \in E : Row(e)
  /\ \A e, f \in E : e.id = f.id => e = f
IInv == Table(rows) /\ \A d \in DOMAIN digest : digest[d].whole

\* The events of a poll are rows to be.
LEMMA PolledRows ==
  ASSUME NEW a \in Answers, NEW cached, NEW now
  PROVE  LET events == PartitionNormalized(a.source, Fetch(a, cached, now).rows).events
         IN  IsList(events) /\ \A i \in DOMAIN events : Row(events[i])
<1> DEFINE raws == Fetch(a, cached, now).rows
           events == PartitionNormalized(a.source, raws).events
           S == UNION {Range(Normalize(a.source, raw).events) : raw \in Range(raws)}
<1>1. IsList(raws) /\ Range(raws) \subseteq RecordsOf(a) BY FetchLists, OwnList
<1> HIDE DEF raws
<1>2. ASSUME NEW raw \in Range(raws) PROVE Sane(Normalize(a.source, raw))
  <2>1. raw.form = "gkg" => IsList(raw.mentions) BY <1>1, AnswersAssumption
  <2> QED BY <2>1, SaneNormalize
<1>3. events \in Seq(S)
  <2>1. \A raw \in Range(raws) : IsList(Normalize(a.source, raw).events) BY <1>2 DEF Sane
  <2> QED BY <1>1, <2>1, PartitionLists
<1>4. ASSUME NEW e \in S PROVE Row(e)
  <2>1. PICK raw \in Range(raws) : e \in Range(Normalize(a.source, raw).events) OBVIOUS
  <2>2. {e.id, e.ts, e.cell, e.volume} \subseteq Nat /\ e.sev \in Int
    BY <1>1, <2>1, AnswersAssumption
  <2>3. Placed(e) BY <1>2, <2>1 DEF Sane, Range
  <2> QED BY <2>2, <2>3 DEF Row
<1> HIDE DEF S, events
<1>5. IsList(events) /\ Range(events) \subseteq S BY <1>3, OwnList
<1>6. \A i \in DOMAIN events : Row(events[i]) BY <1>4, <1>5 DEF Range
<1> QED BY <1>5, <1>6 DEF events, raws

\* The first row of every id that is not there yet.
LEMMA NewRows ==
  ASSUME Table(rows), NEW events, IsList(events), \A i \in DOMAIN events : Row(events[i])
  PROVE  Table(rows \cup New(events))
<1> DEFINE at == {k \in DOMAIN events :
                    /\ \A r \in rows : r.id # events[k].id
                    /\ \A j \in 1 .. k - 1 : events[j].id # events[k].id}
           new == {events[i] : i \in at}
<1>1. New(events) = new BY DEF New
<1>2. Len(events) \in Nat /\ DOMAIN events = 1 .. Len(events) BY LenProperties DEF IsList
<1>3. IsFiniteSet(at)
  <2>1. IsFiniteSet(1 .. Len(events)) BY <1>2, FS_Interval
  <2> QED BY <1>2, <2>1, FS_Subset
<1>4. IsFiniteSet(new)
  <2> HIDE DEF at
  <2> QED BY <1>3, Images
<1>5. IsFiniteSet(rows \cup new) BY <1>4, FS_Union DEF Table
<1>6. \A e \in new : Row(e) /\ \A r \in rows : r.id # e.id OBVIOUS
<1>7. ASSUME NEW i \in at, NEW j \in at, events[i].id = events[j].id PROVE i = j
  <2>1. i \in 1 .. Len(events) /\ j \in 1 .. Len(events) BY <1>2
  <2>2. ~ (i < j) /\ ~ (j < i)
    <3>1. i < j => i \in 1 .. j - 1 BY <1>2, <2>1
    <3>2. j < i => j \in 1 .. i - 1 BY <1>2, <2>1
    <3> QED BY <1>7, <3>1, <3>2
  <2> QED BY <1>2, <2>1, <2>2
<1>8. \A e, f \in new : e.id = f.id => e = f BY <1>7
<1> HIDE DEF new
<1> QED BY <1>1, <1>5, <1>6, <1>8 DEF Table

LEMMA InitIInv == Init => IInv
BY FS_EmptySet DEF Init, IInv, Table

LEMMA StepIInv == IInv /\ [Next]_vars => IInv'
<1> SUFFICES ASSUME IInv, [Next]_vars PROVE IInv'
  OBVIOUS
<1>1. ASSUME NEW a \in Answers, Poll(a) PROVE IInv'
  <2> DEFINE events == PartitionNormalized(a.source, Fetch(a, token, polls).rows).events
  <2>1. rows' = rows \cup New(events) /\ digest' = digest BY <1>1 DEF Poll
  <2>2. IsList(events) /\ \A i \in DOMAIN events : Row(events[i]) BY PolledRows
  <2> HIDE DEF events
  <2>3. Table(rows \cup New(events)) BY <2>2, NewRows DEF IInv
  <2> QED BY <2>1, <2>3 DEF IInv
<1>2. CASE PurgeSource("fixtures")
  <2>1. rows' \in SUBSET rows /\ digest' = digest BY <1>2 DEF PurgeSource
  <2>2. Table(rows') BY <2>1, FS_Subset DEF IInv, Table
  <2> QED BY <2>1, <2>2 DEF IInv
<1>3. ASSUME NEW day \in Days, NEW resp \in Models, WriteDigest(day, resp) PROVE IInv'
  <2>1. Generate(DigestFacts(rows, day), resp) = "ok" BY <1>3 DEF WriteDigest
  <2>2. /\ resp.came = "all" /\ resp.status \in 200 .. 299 /\ resp.body.json
        /\ ParseResponse(resp.body) = "ok"
    BY <2>1 DEF Generate
  <2>3. /\ ~ resp.body.blocked /\ resp.body.candidate
        /\ resp.body.finish \in {"", "STOP"} /\ resp.body.text = "both"
    BY <2>2 DEF ParseResponse
  <2>4. resp.body.whole BY <2>2, <2>3, ModelsAssumption
  <2>5. /\ rows' = rows
        /\ digest' = [d \in DOMAIN digest \cup {day} |-> IF d = day THEN resp.body ELSE digest[d]]
    BY <1>3 DEF WriteDigest
  <2>6. \A d \in DOMAIN digest' : digest'[d].whole BY <2>4, <2>5 DEF IInv
  <2> QED BY <2>5, <2>6 DEF IInv
<1>4. CASE UNCHANGED vars BY <1>4 DEF IInv, Table, vars
<1> QED BY <1>1, <1>2, <1>3, <1>4 DEF Next

\* The rows kept are the shape every query relies on: finitely many, one for an
\* id, each of a kind of its family, and counted at its publisher only as a
\* country's; and what is cached of a digest is whole.  No adapter, cached token,
\* half-read page, purge or refused answer breaks it (partition_normalized,
\* do_ingest, do_purge_source, parse_response).
THEOREM KeptRows == Spec => []IInv
BY InitIInv, StepIInv, PTL DEF Spec

-----------------------------------------------------------------------------
(***************************************************************************)
(* Points: the oldest rows of a precision, as many as are drawn.           *)
(***************************************************************************)

LEMMA SubTable ==
  ASSUME NEW E, Table(E), NEW S \in SUBSET E
  PROVE  Table(S)
BY FS_Subset DEF Table

Older(S) == {p \in S \X S : p[1].ts < p[2].ts \/ (p[1].ts = p[2].ts /\ p[1].id < p[2].id)}
OldestFirst(S) == Ordered(S, LAMBDA a, b : a.ts < b.ts \/ (a.ts = b.ts /\ a.id < b.id))

LEMMA OldestSorts ==
  ASSUME NEW S, Table(S)
  PROVE  Orders(Older(S), S) /\ Sorts(OldestFirst(S), S, Older(S))
<1>1. \A x \in S : x.ts \in Nat /\ x.id \in Nat BY DEF Table, Row
<1>2. \A x, y \in S : <<x, y>> \in Older(S)
                        <=> (x.ts < y.ts \/ (x.ts = y.ts /\ x.id < y.id))
  BY DEF Older
<1>3. Orders(Older(S), S)
  <2>1. \A x \in S : <<x, x>> \notin Older(S) BY <1>1, <1>2
  <2>2. \A x, y, z \in S : <<x, y>> \in Older(S) /\ <<y, z>> \in Older(S) => <<x, z>> \in Older(S)
    BY <1>1, <1>2
  <2>3. \A x, y \in S : x # y => x.id # y.id BY DEF Table
  <2>4. \A x, y \in S : x # y => <<x, y>> \in Older(S) \/ <<y, x>> \in Older(S)
    BY <1>1, <1>2, <2>3
  <2> QED BY <2>1, <2>2, <2>4 DEF Orders
<1> DEFINE rank == [x \in S |-> Cardinality({y \in S : y.ts < x.ts \/ (y.ts = x.ts /\ y.id < x.id)})]
           s == OldestFirst(S)
<1>4. ASSUME NEW x \in S PROVE rank[x] = Cardinality(Below(S, Older(S), x))
  <2>1. {y \in S : y.ts < x.ts \/ (y.ts = x.ts /\ y.id < x.id)} = Below(S, Older(S), x)
    BY <1>2 DEF Below
  <2> QED BY <2>1
<1>5. s = [i \in 1 .. Cardinality(S) |-> CHOOSE x \in S : rank[x] = i - 1]
  BY DEF Ordered, OldestFirst
<1> HIDE DEF rank, s
<1>6. Sorts(s, S, Older(S)) BY <1>3, <1>4, <1>5, Sorting DEF Table
<1> QED BY <1>3, <1>6 DEF s

LEMMA LeastOf ==
  ASSUME NEW T, T \subseteq Nat, T # {}
  PROVE  Min(T) \in T /\ \A k \in T : Min(T) <= k
BY LeastNat DEF Min

\* What may be drawn of a window: as many of its point rows as the cap lets, none
\* left out that is older, and the filters.
Asked(e, kinds, themes) ==
  (kinds = {} \/ e.kind \in kinds) /\ (themes = {} \/ e.themes \cap themes # {})

LEMMA Points ==
  ASSUME NEW E, Table(E), NEW w, NEW kinds, NEW themes, NEW minConf,
         NEW drawn \in QueryPoints(E, w, kinds, themes, minConf)
  PROVE  LET P == {e \in In(E, w) : PointRow(e, minConf)}
         IN  \E K \in SUBSET P :
               /\ drawn = {e \in K : Asked(e, kinds, themes)}
               /\ Cardinality(K) <= MaxPointRows
               /\ Cardinality(P) <= MaxPointRows => K = P
               /\ \A e \in K, f \in P \ K : e.ts <= f.ts
<1> DEFINE P == {e \in In(E, w) : PointRow(e, minConf)}
           n == Cardinality(P)
<1>1. PICK K \in OldestRows(P) : drawn = {e \in K : /\ kinds = {} \/ e.kind \in kinds
                                                    /\ themes = {} \/ e.themes \cap themes # {}}
  BY DEF QueryPoints
<1>2. IsFiniteSet(P) BY SubTable DEF In, Table
<1> HIDE DEF P
<1>3. n \in Nat /\ MaxPointRows \in Nat BY <1>2, FS_CardinalityType, ReadsAssumption
<1>4. /\ Min({MaxPointRows, n}) \in {MaxPointRows, n}
      /\ \A k \in {MaxPointRows, n} : Min({MaxPointRows, n}) <= k
  BY <1>3, LeastOf
<1>5. /\ K \in SUBSET P /\ Cardinality(K) = Min({MaxPointRows, n})
      /\ \A e \in K, f \in P \ K : e.ts <= f.ts
  BY <1>1 DEF OldestRows
<1>6. Cardinality(K) <= MaxPointRows BY <1>4, <1>5
<1>7. n <= MaxPointRows => Cardinality(K) = n BY <1>3, <1>4, <1>5
<1>8. n <= MaxPointRows => K = P BY <1>2, <1>5, <1>7, FS_Subset
<1>9. drawn = {e \in K : Asked(e, kinds, themes)} BY <1>1 DEF Asked
<1> QED BY <1>5, <1>6, <1>8, <1>9 DEF P, n

LEMMA PointsAreRows ==
  ASSUME NEW E, Table(E), NEW w, NEW drawn \in QueryPoints(E, w, {}, {}, 0), NEW e \in drawn
  PROVE  e \in In(E, w) /\ PointRow(e, 0)
<1> DEFINE P == {x \in In(E, w) : PointRow(x, 0)}
<1>1. PICK K \in OldestRows(P) : drawn = {x \in K : /\ {} = {} \/ x.kind \in {}
                                                    /\ {} = {} \/ x.themes \cap {} # {}}
  BY DEF QueryPoints
<1> QED BY <1>1 DEF OldestRows

\* A row drawn as a point is at a place, and one the record is about: whatever
\* the providers answer, an article counted at its publisher is a country's and
\* no query draws a country's row (do_query_points over doc::normalize).
THEOREM PointsAtPlaces == Spec => []PointsAreReal
<1>1. IInv => PointsAreReal
  <2> SUFFICES ASSUME IInv, NEW w \in Windows, NEW drawn \in QueryPoints(rows, w, {}, {}, 0),
                      NEW e \in drawn
               PROVE  IsSpatiallyMeaningful(e.role) /\ e.prec \notin {"country", "admin1"}
    BY DEF PointsAreReal
  <2>1. Table(rows) BY DEF IInv
  <2>2. e \in In(rows, w) /\ PointRow(e, 0) BY <2>1, PointsAreRows
  <2>3. e \in rows /\ e.prec \in {"city", "exact"} BY <2>2 DEF In, PointRow
  <2>4. e.role # "publisher_origin" BY <2>1, <2>3 DEF Table, Row, Placed
  <2> QED BY <2>3, <2>4 DEF IsSpatiallyMeaningful
<1> QED BY <1>1, KeptRows, PTL

-----------------------------------------------------------------------------
(***************************************************************************)
(* Digests: what is sent word for word.                                    *)
(***************************************************************************)

LEMMA LargestOf ==
  ASSUME NEW T, T \subseteq Int, T # {}, IsFiniteSet(T)
  PROVE  Max(T) \in T
<1> DEFINE R == {p \in T \X T : p[1] < p[2]}
           n == Cardinality(T)
<1>1. \A x, y \in T : <<x, y>> \in R <=> x < y OBVIOUS
<1> HIDE DEF R
<1>2. Orders(R, T) BY <1>1 DEF Orders
<1>3. n \in Nat /\ n # 0 BY FS_CardinalityType, FS_EmptySet
<1>4. n - 1 \in 0 .. n - 1 BY <1>3
<1>5. PICK x \in T : Cardinality(Below(T, R, x)) = n - 1 BY <1>2, <1>4, Ranks1
<1>6. ASSUME NEW k \in T PROVE x >= k
  <2>1. SUFFICES ASSUME x < k PROVE FALSE OBVIOUS
  <2>2. Cardinality(Below(T, R, x)) < Cardinality(Below(T, R, k)) BY <1>1, <1>2, <2>1, Ranks1
  <2>3. Below(T, R, k) \in SUBSET T /\ k \notin Below(T, R, k) BY <1>1 DEF Below
  <2>4. /\ Cardinality(Below(T, R, k)) <= n /\ Cardinality(Below(T, R, k)) # n
        /\ Cardinality(Below(T, R, k)) \in Nat
    BY <1>2, <2>3, FS_Subset, Ranks1
  <2> QED BY <1>3, <1>5, <2>2, <2>4
<1> QED BY <1>6 DEF Max

Louder(S) ==
  {p \in S \X S : p[1].volume > p[2].volume \/ (p[1].volume = p[2].volume /\ Newer(p[1], p[2]))}
LoudestFirst(S) ==
  Ordered(S, LAMBDA a, b : a.volume > b.volume \/ (a.volume = b.volume /\ Newer(a, b)))

LEMMA LoudestSorts ==
  ASSUME NEW S, Table(S)
  PROVE  Orders(Louder(S), S) /\ Sorts(LoudestFirst(S), S, Louder(S))
<1>1. \A x \in S : x.ts \in Nat /\ x.id \in Nat /\ x.volume \in Nat BY DEF Table, Row
<1>2. \A x, y \in S : <<x, y>> \in Louder(S)
                        <=> (x.volume > y.volume \/ (x.volume = y.volume /\ Newer(x, y)))
  BY DEF Louder
<1>3. \A x, y \in S : Newer(x, y) <=> (x.ts > y.ts \/ (x.ts = y.ts /\ x.id > y.id)) BY DEF Newer
<1>4. Orders(Louder(S), S)
  <2>1. \A x \in S : <<x, x>> \notin Louder(S) BY <1>1, <1>2, <1>3
  <2>2. \A x, y, z \in S : <<x, y>> \in Louder(S) /\ <<y, z>> \in Louder(S) => <<x, z>> \in Louder(S)
    BY <1>1, <1>2, <1>3
  <2>3. \A x, y \in S : x # y => x.id # y.id BY DEF Table
  <2>4. \A x, y \in S : x # y => <<x, y>> \in Louder(S) \/ <<y, x>> \in Louder(S)
    BY <1>1, <1>2, <1>3, <2>3
  <2> QED BY <2>1, <2>2, <2>4 DEF Orders
<1> DEFINE rank == [x \in S |-> Cardinality({y \in S :
                      y.volume > x.volume \/ (y.volume = x.volume /\ Newer(y, x))})]
           s == LoudestFirst(S)
<1>5. ASSUME NEW x \in S PROVE rank[x] = Cardinality(Below(S, Louder(S), x))
  <2>1. {y \in S : y.volume > x.volume \/ (y.volume = x.volume /\ Newer(y, x))}
          = Below(S, Louder(S), x)
    BY <1>2 DEF Below
  <2> QED BY <2>1
<1>6. s = [i \in 1 .. Cardinality(S) |-> CHOOSE x \in S : rank[x] = i - 1]
  BY DEF Ordered, LoudestFirst
<1> HIDE DEF rank, s
<1>7. Sorts(s, S, Louder(S)) BY <1>4, <1>5, <1>6, Sorting DEF Table
<1> QED BY <1>4, <1>7 DEF s

Ranked(S) == {p \in S \X S : Ranks(p[1], p[2])}
Rankable(S) ==
  /\ IsFiniteSet(S) /\ \A g \in S : g.severity \in Int /\ g.n \in Nat /\ g.key \in Nat
  /\ \A g, h \in S : g.key = h.key => g = h

LEMMA RanksSorts ==
  ASSUME NEW S, Rankable(S)
  PROVE  Orders(Ranked(S), S) /\ Sorts(Ordered(S, Ranks), S, Ranked(S))
<1>1. \A x \in S : x.severity \in Int /\ x.n \in Nat /\ x.key \in Nat /\ Labelled(x) \in Nat
  BY DEF Rankable, Labelled
<1>2. \A x, y \in S : <<x, y>> \in Ranked(S) <=> Ranks(x, y) BY DEF Ranked
<1>3. Orders(Ranked(S), S)
  <2>1. \A x \in S : ~ Ranks(x, x) BY <1>1 DEF Ranks
  <2>2. \A x, y, z \in S : Ranks(x, y) /\ Ranks(y, z) => Ranks(x, z) BY <1>1 DEF Ranks
  <2>3. \A x, y \in S : x # y => x.key # y.key BY DEF Rankable
  <2>4. \A x, y \in S : x # y => Ranks(x, y) \/ Ranks(y, x) BY <1>1, <2>3 DEF Ranks
  <2> QED BY <1>2, <2>1, <2>2, <2>4 DEF Orders
<1> DEFINE rank == [x \in S |-> Cardinality({y \in S : Ranks(y, x)})]
           s == Ordered(S, Ranks)
<1>4. ASSUME NEW x \in S PROVE rank[x] = Cardinality(Below(S, Ranked(S), x))
  <2>1. {y \in S : Ranks(y, x)} = Below(S, Ranked(S), x) BY <1>2 DEF Below
  <2> QED BY <2>1
<1>5. s = [i \in 1 .. Cardinality(S) |-> CHOOSE x \in S : rank[x] = i - 1] BY DEF Ordered
<1> HIDE DEF rank, s
<1>6. Sorts(s, S, Ranked(S)) BY <1>3, <1>4, <1>5, Sorting DEF Rankable
<1> QED BY <1>3, <1>6 DEF s

\* Groups of identical rows share no row, so their least ids tell them apart.
LEMMA GroupsRank ==
  ASSUME NEW E, Table(E)
  PROVE  Rankable(Groups(E))
<1> DEFINE of(e) == {x \in E : x.country = e.country /\ x.kind = e.kind /\ x.source = e.source
                               /\ x.headline = e.headline}
           group(e) == [country |-> e.country, kind |-> e.kind, source |-> e.source,
                        label |-> e.headline, severity |-> Max({x.sev : x \in of(e)}),
                        n |-> Cardinality(of(e)), key |-> Min({x.id : x \in of(e)})]
<1>1. Groups(E) = {group(e) : e \in E} BY DEF Groups
<1>2. ASSUME NEW e \in E
      PROVE  /\ group(e).severity \in Int /\ group(e).n \in Nat
             /\ \E x \in of(e) : x.id = group(e).key
  <2>1. of(e) \in SUBSET E /\ e \in of(e) OBVIOUS
  <2>2. IsFiniteSet(of(e)) BY <2>1, FS_Subset DEF Table
  <2>3. Cardinality(of(e)) \in Nat BY <2>2, FS_CardinalityType
  <2> DEFINE sevs == {x.sev : x \in of(e)}
             ids == {x.id : x \in of(e)}
             sev == [x \in E |-> x.sev]
  <2>4. sevs \subseteq Int /\ sevs # {} BY <2>1 DEF Table, Row
  <2>5. ids \subseteq Nat /\ ids # {} BY <2>1 DEF Table, Row
  <2>6. IsFiniteSet(sevs)
    <3>1. sevs = {sev[x] : x \in of(e)} BY <2>1
    <3> HIDE DEF sev, sevs, of
    <3> QED BY <2>2, <3>1, Images
  <2>7. Max(sevs) \in Int
    <3> HIDE DEF sevs
    <3> QED BY <2>4, <2>6, LargestOf
  <2>8. Min(ids) \in ids
    <3> HIDE DEF ids
    <3> QED BY <2>5, LeastOf
  <2>9. group(e).severity = Max(sevs) /\ group(e).n = Cardinality(of(e)) /\ group(e).key = Min(ids)
    OBVIOUS
  <2>10. \E x \in of(e) : x.id = Min(ids) BY <2>8
  <2> HIDE DEF group, of, sevs, ids
  <2> QED BY <2>3, <2>7, <2>9, <2>10
<1>3. ASSUME NEW e \in E, NEW f \in E, group(e).key = group(f).key PROVE group(e) = group(f)
  <2>1. PICK x \in of(e) : x.id = group(e).key BY <1>2
  <2>2. PICK y \in of(f) : y.id = group(f).key BY <1>2
  <2>3. x \in E /\ y \in E /\ x.id = y.id BY <1>3, <2>1, <2>2
  <2>4. x = y BY <2>3 DEF Table
  <2>5. /\ e.country = f.country /\ e.kind = f.kind /\ e.source = f.source
        /\ e.headline = f.headline
    BY <2>4
  <2>6. of(e) = of(f) BY <2>5
  <2> HIDE DEF of
  <2> QED BY <2>5, <2>6
<1>4. IsFiniteSet(Groups(E))
  <2> DEFINE g == [e \in E |-> group(e)]
  <2>1. \A e \in E : g[e] = group(e) OBVIOUS
  <2>2. Groups(E) = {g[e] : e \in E} BY <1>1, <2>1
  <2> HIDE DEF g
  <2> QED BY <2>2, Images DEF Table
<1>5. \A e \in E : group(e).key \in Nat
  <2>1. ASSUME NEW e \in E PROVE group(e).key \in Nat
    <3>1. PICK x \in of(e) : x.id = group(e).key BY <1>2
    <3> QED BY <3>1 DEF Table, Row
  <2> QED BY <2>1
<1> HIDE DEF group, of
<1> QED BY <1>1, <1>2, <1>3, <1>4, <1>5 DEF Rankable

\* The round-robin picks from the list, and only what may be sent.
LEMMA RoundRobinPicks ==
  ASSUME NEW S, NEW groups \in Seq(S), NEW room \in Nat
  PROVE  /\ IsFiniteSet(RoundRobin(groups, room)) /\ RoundRobin(groups, room) \subseteq S
         /\ \A g \in RoundRobin(groups, room) : RowLevelPermitted(g.source)
<1> DEFINE may == {i \in DOMAIN groups : RowLevelPermitted(groups[i].source)}
           permitted == Only(groups, may)
           D == DOMAIN permitted
           same(i) == {j \in 1 .. i - 1 : permitted[j].source = permitted[i].source}
           at(i) == Cardinality(same(i))
           all(i) == {j \in D : permitted[j].source = permitted[i].source}
           queue(i) == Min(all(i))
           turns == Ordered(D, LAMBDA i, j : at(i) < at(j) \/ (at(i) = at(j) /\ queue(i) < queue(j)))
           picks == Take(turns, room)
           A == [i \in D |-> at(i)]
           Q == [i \in D |-> queue(i)]
           R == {p \in D \X D : A[p[1]] < A[p[2]] \/ (A[p[1]] = A[p[2]] /\ Q[p[1]] < Q[p[2]])}
<1>1. RoundRobin(groups, room) = {permitted[picks[k]] : k \in DOMAIN picks} BY DEF RoundRobin
<1>2. /\ permitted \in Seq(S) /\ Len(permitted) \in Nat /\ D = 1 .. Len(permitted)
      /\ \A i \in D : permitted[i] \in S /\ RowLevelPermitted(permitted[i].source)
  <2>1. may \in SUBSET (DOMAIN groups) OBVIOUS
  <2>2. \A i \in may : RowLevelPermitted(groups[i].source) OBVIOUS
  <2> HIDE DEF may
  <2>3. /\ permitted \in Seq(S) /\ Len(permitted) \in Nat /\ D = 1 .. Len(permitted)
        /\ \A k \in 1 .. Len(permitted) : \E i \in may : permitted[k] = groups[i]
    BY <2>1, Only1
  <2>4. permitted \in [1 .. Len(permitted) -> S] BY <2>3, LenProperties
  <2> QED BY <2>2, <2>3, <2>4
<1> HIDE DEF permitted, D
<1>3. IsFiniteSet(D) BY <1>2, FS_Interval
<1>4. ASSUME NEW i \in D
      PROVE  /\ IsFiniteSet(same(i)) /\ at(i) \in Nat /\ queue(i) \in D /\ queue(i) \in Nat
             /\ permitted[queue(i)].source = permitted[i].source
  <2>1. i \in Nat /\ 1 .. i - 1 \subseteq D BY <1>2
  <2>2. IsFiniteSet(same(i)) BY <1>3, <2>1, FS_Subset
  <2>3. at(i) \in Nat
    <3> HIDE DEF same
    <3> QED BY <2>2, FS_CardinalityType
  <2>4. all(i) \subseteq Nat /\ all(i) # {} BY <1>2
  <2>5. queue(i) \in all(i)
    <3> HIDE DEF all
    <3> QED BY <2>4, LeastOf
  <2> QED BY <1>2, <2>2, <2>3, <2>5
<1>5. ASSUME NEW i \in D, NEW j \in D, i < j, permitted[i].source = permitted[j].source
      PROVE  at(i) < at(j)
  <2>1. i \in Nat /\ j \in Nat /\ i \in 1 .. j - 1 BY <1>2, <1>5
  <2> DEFINE X == same(i)
             Y == same(j)
  <2>2. X \in SUBSET Y
    <3>1. \A k \in 1 .. i - 1 : k \in 1 .. j - 1 BY <2>1
    <3> QED BY <1>5, <3>1
  <2>3. i \in Y /\ i \notin X BY <1>5, <2>1
  <2>4. IsFiniteSet(Y) /\ Cardinality(X) \in Nat /\ Cardinality(Y) \in Nat BY <1>4
  <2>5. at(i) = Cardinality(X) /\ at(j) = Cardinality(Y) OBVIOUS
  <2> HIDE DEF X, Y, at
  <2>6. Cardinality(X) <= Cardinality(Y) /\ Cardinality(X) # Cardinality(Y)
    BY <2>2, <2>3, <2>4, FS_Subset
  <2> QED BY <2>4, <2>5, <2>6
<1>6. /\ \A i \in D : A[i] = at(i) /\ Q[i] = queue(i)
      /\ \A i \in D : A[i] \in Nat /\ Q[i] \in Nat /\ permitted[Q[i]].source = permitted[i].source
      /\ \A i, j \in D : i < j /\ permitted[i].source = permitted[j].source => A[i] < A[j]
  BY <1>4, <1>5
<1> HIDE DEF A, Q, at, queue, same, all
<1>7. Orders(R, D)
  <2>1. \A i, j \in D : <<i, j>> \in R <=> (A[i] < A[j] \/ (A[i] = A[j] /\ Q[i] < Q[j])) OBVIOUS
  <2> HIDE DEF R
  <2>2. \A i \in D : <<i, i>> \notin R BY <1>6, <2>1
  <2>3. \A i, j, k \in D : <<i, j>> \in R /\ <<j, k>> \in R => <<i, k>> \in R BY <1>6, <2>1
  <2>4. ASSUME NEW i \in D, NEW j \in D, i # j PROVE <<i, j>> \in R \/ <<j, i>> \in R
    <3>1. i \in Nat /\ j \in Nat BY <1>2
    <3>2. CASE permitted[i].source = permitted[j].source
      <4>1. i < j \/ j < i BY <2>4, <3>1
      <4>2. A[i] < A[j] \/ A[j] < A[i] BY <1>6, <3>2, <4>1
      <4> QED BY <2>1, <4>2
    <3>3. CASE permitted[i].source # permitted[j].source
      <4>1. Q[i] # Q[j] BY <1>6, <3>3
      <4>2. A[i] \in Nat /\ A[j] \in Nat /\ Q[i] \in Nat /\ Q[j] \in Nat BY <1>6
      <4> QED BY <2>1, <4>1, <4>2
    <3> QED BY <3>2, <3>3
  <2> QED BY <2>2, <2>3, <2>4 DEF Orders
<1>8. Sorts(turns, D, R)
  <2> DEFINE rank == [x \in D |-> Cardinality({y \in D :
                        at(y) < at(x) \/ (at(y) = at(x) /\ queue(y) < queue(x))})]
  <2>1. ASSUME NEW x \in D PROVE rank[x] = Cardinality(Below(D, R, x))
    <3>1. \A y \in D : <<y, x>> \in R
            <=> (at(y) < at(x) \/ (at(y) = at(x) /\ queue(y) < queue(x)))
      BY <1>6
    <3> HIDE DEF R
    <3>2. {y \in D : at(y) < at(x) \/ (at(y) = at(x) /\ queue(y) < queue(x))} = Below(D, R, x)
      BY <3>1 DEF Below
    <3> QED BY <3>2
  <2>2. turns = [i \in 1 .. Cardinality(D) |-> CHOOSE x \in D : rank[x] = i - 1] BY DEF Ordered
  <2> HIDE DEF rank, turns, R
  <2> QED BY <1>3, <1>7, <2>1, <2>2, Sorting
<1> HIDE DEF turns, R
<1>9. /\ picks \in Seq(D) /\ Len(picks) \in Nat /\ DOMAIN picks = 1 .. Len(picks)
  BY <1>8, Taking DEF Sorts
<1>10. picks \in [1 .. Len(picks) -> D] BY <1>9, LenProperties
<1> HIDE DEF picks
<1>11. \A k \in DOMAIN picks : picks[k] \in D BY <1>9, <1>10
<1>12. IsFiniteSet({permitted[picks[k]] : k \in DOMAIN picks})
  <2> DEFINE f == [k \in DOMAIN picks |-> permitted[picks[k]]]
  <2>1. IsFiniteSet(DOMAIN picks) BY <1>9, FS_Interval
  <2>2. {permitted[picks[k]] : k \in DOMAIN picks} = {f[k] : k \in DOMAIN picks} OBVIOUS
  <2> HIDE DEF f
  <2>3. IsFiniteSet({f[k] : k \in DOMAIN picks}) BY <2>1, Images
  <2> QED BY <2>2, <2>3
<1> QED BY <1>1, <1>2, <1>11, <1>12

LEMMA Permitted ==
  \A s : RowLevelPermitted(s) => s \notin {"acled", "bluesky", "telegram", "fixtures"}
BY DEF RowLevelPermitted

\* The examples of the event half come from sources that may be forwarded.
LEMMA NotableMay ==
  ASSUME NEW E, Table(E)
  PROVE  \A i \in DOMAIN Notable(E) : RowLevelPermitted(Notable(E)[i].source)
<1> DEFINE G == Groups(E)
           first == Take(Ordered(G, Ranks), 20 * MaxNotable)
           picked == RoundRobin(first, MaxNotable)
           list == Ordered(picked, Ranks)
<1>1. Notable(E) = list BY DEF Notable
<1>2. Rankable(G) BY GroupsRank
<1>3. MaxNotable \in Nat /\ 20 * MaxNotable \in Nat BY DigestAssumption
<1> HIDE DEF G
<1>4. first \in Seq(G)
  <2>1. Ordered(G, Ranks) \in Seq(G) BY <1>2, RanksSorts DEF Sorts
  <2> QED BY <1>3, <2>1, Taking
<1> HIDE DEF first
<1>5. /\ IsFiniteSet(picked) /\ picked \subseteq G
      /\ \A g \in picked : RowLevelPermitted(g.source)
  BY <1>3, <1>4, RoundRobinPicks
<1> HIDE DEF picked
<1>6. Rankable(picked) BY <1>2, <1>5 DEF Rankable
<1>7. list \in Seq(picked) BY <1>6, RanksSorts DEF Sorts
<1> HIDE DEF list
<1>8. \A i \in DOMAIN list : list[i] \in picked BY <1>7, LenProperties
<1> QED BY <1>1, <1>5, <1>8

\* So do the headlines.
LEMMA HeadlinesMay ==
  ASSUME NEW E, Table(E), NEW day
  PROVE  \A i \in DOMAIN DigestAttention(E, day).headlines :
           RowLevelPermitted(DigestAttention(E, day).headlines[i].source)
<1> DEFINE told == {e \in AttentionOf(E, day) : e.headline # 0}
           titled == Take(LoudestFirst(told), 4 * MaxHeadlines)
           may == {i \in DOMAIN titled : RowLevelPermitted(titled[i].source)}
           list == Take(Only(titled, may), MaxHeadlines)
<1>1. DigestAttention(E, day).headlines = list BY DEF DigestAttention, LoudestFirst
<1>2. MaxHeadlines \in Nat /\ 4 * MaxHeadlines \in Nat BY DigestAssumption
<1>3. Table(told) BY SubTable DEF AttentionOf, In
<1> HIDE DEF told
<1>4. titled \in Seq(told)
  <2>1. LoudestFirst(told) \in Seq(told) BY <1>3, LoudestSorts DEF Sorts
  <2> QED BY <1>2, <2>1, Taking
<1> HIDE DEF titled
<1>5. may \in SUBSET (DOMAIN titled) /\ \A i \in may : RowLevelPermitted(titled[i].source) OBVIOUS
<1> HIDE DEF may
<1> DEFINE kept == Only(titled, may)
<1>6. /\ kept \in Seq(told)
      /\ \A k \in 1 .. Len(kept) : \E i \in may : kept[k] = titled[i]
  BY <1>4, <1>5, Only1
<1>7. \A k \in 1 .. Len(kept) : RowLevelPermitted(kept[k].source) BY <1>5, <1>6
<1> HIDE DEF kept
<1>8. /\ DOMAIN list = 1 .. Len(list) /\ Len(list) \in Nat /\ Len(kept) \in Nat
      /\ Len(list) = IF MaxHeadlines < Len(kept) THEN MaxHeadlines ELSE Len(kept)
      /\ \A i \in 1 .. Len(list) : list[i] = kept[i]
  <2>1. Len(kept) \in Nat BY <1>6, LenProperties
  <2>2. list = Take(kept, MaxHeadlines) BY DEF kept
  <2> HIDE DEF list
  <2> QED BY <1>2, <1>6, <2>1, <2>2, Taking
<1> HIDE DEF list
<1>9. \A i \in DOMAIN list : i \in 1 .. Len(kept) /\ list[i] = kept[i] BY <1>2, <1>8
<1> QED BY <1>1, <1>7, <1>9

\* A source that may only be counted and has records in the event half has a
\* count there.
LEMMA CountedAtLeast ==
  ASSUME NEW E, Table(E), NEW day, NEW e \in EventsOf(E, day), NEW s \in SourceId,
         e.source = s, ~ RowLevelPermitted(s)
  PROVE  DigestEvents(E, day).countsOnly[s] > 0
<1> DEFINE evt == EventsOf(E, day)
           of == {x \in evt : x.source = s}
           named == {x.source : x \in evt} \ {x \in SourceId : RowLevelPermitted(x)}
           count == [x \in named |-> Cardinality({y \in evt : y.source = x})]
<1>1. DigestEvents(E, day).countsOnly = count BY DEF DigestEvents
<1>2. evt \in SUBSET E BY DEF EventsOf, EventHalf, In
<1>3. e \in of OBVIOUS
<1>4. s \in named OBVIOUS
<1>5. of \in SUBSET E BY <1>2
<1>6. count[s] = Cardinality(of) BY <1>4
<1> HIDE DEF of, count
<1>7. IsFiniteSet(of) BY <1>5, FS_Subset DEF Table
<1>8. Cardinality(of) \in Nat /\ Cardinality(of) # 0 BY <1>3, <1>7, FS_CardinalityType, FS_EmptySet
<1> QED BY <1>1, <1>6, <1>8

\* Nothing that may not be forwarded leaves with a digest: every row sent word
\* for word comes from a source that permits it, through the over-fetched
\* headlines and the round-robin alike, the others are counted, and only a whole
\* answer is kept (row_level_permitted, digest_facts, parse_response).
THEOREM WithheldStays == Spec => []NothingWithheldLeaves
<1>1. IInv => NothingWithheldLeaves
  <2> SUFFICES ASSUME IInv PROVE NothingWithheldLeaves OBVIOUS
  <2>1. Table(rows) /\ \A d \in DOMAIN digest : digest[d].whole BY DEF IInv
  <2>2. ASSUME NEW d \in Days
        PROVE  /\ Sent(DigestFacts(rows, d)) \cap {"acled", "bluesky", "telegram", "fixtures"} = {}
               /\ \A e \in EventsOf(rows, d) :
                    e.source \in {"acled", "fixtures"} =>
                      DigestFacts(rows, d).events.countsOnly[e.source] > 0
    <3> DEFINE told == DigestAttention(rows, d).headlines
               shown == Notable(EventsOf(rows, d))
    <3>1. \A i \in DOMAIN told : RowLevelPermitted(told[i].source) BY <2>1, HeadlinesMay
    <3>2. \A i \in DOMAIN shown : RowLevelPermitted(shown[i].source)
      <4>1. Table(EventsOf(rows, d)) BY <2>1, SubTable DEF EventsOf, EventHalf, In
      <4> QED BY <4>1, NotableMay
    <3>3. Sent(DigestFacts(rows, d))
            = {told[i].source : i \in DOMAIN told} \cup {shown[i].source : i \in DOMAIN shown}
      BY DEF Sent, DigestFacts, DigestEvents
    <3> HIDE DEF told, shown
    <3>4. \A s \in Sent(DigestFacts(rows, d)) : RowLevelPermitted(s) BY <3>1, <3>2, <3>3
    <3>5. ASSUME NEW e \in EventsOf(rows, d), e.source \in {"acled", "fixtures"}
          PROVE  DigestFacts(rows, d).events.countsOnly[e.source] > 0
      <4>1. e.source \in SourceId /\ ~ RowLevelPermitted(e.source)
        BY <3>5 DEF SourceId, RowLevelPermitted
      <4>2. DigestFacts(rows, d).events = DigestEvents(rows, d) BY DEF DigestFacts
      <4> QED BY <2>1, <4>1, <4>2, CountedAtLeast
    <3> QED BY <3>4, <3>5, Permitted
  <2> QED BY <2>1, <2>2 DEF NothingWithheldLeaves
<1> QED BY <1>1, KeptRows, PTL

-----------------------------------------------------------------------------
(***************************************************************************)
(* Pages: what a client of the API gathers.                                *)
(***************************************************************************)

\* Where the pages of a list of `total` rows begin and end.
EndOf(k, n, total) == IF k * n < total THEN k * n ELSE total

LEMMA PageEnds ==
  ASSUME NEW total \in Nat, NEW n \in Nat \ {0}
  PROVE  LET pages == (total + n - 1) \div n
         IN  /\ pages \in Nat
             /\ EndOf(0, n, total) = 0 /\ EndOf(pages, n, total) = total
             /\ \A k \in 1 .. pages : /\ EndOf(k - 1, n, total) = (k - 1) * n
                                      /\ (k - 1) * n \in 0 .. total
                                      /\ EndOf(k, n, total) \in 0 .. total
                                      /\ EndOf(k - 1, n, total) <= EndOf(k, n, total)
                                      /\ EndOf(k, n, total) = IF (k - 1) * n + n < total
                                                              THEN (k - 1) * n + n ELSE total
<1> DEFINE m == total + n - 1
           pages == m \div n
<1>1. m \in Nat OBVIOUS
<1>2. pages \in Nat /\ pages * n <= m /\ m < pages * n + n
  <2> HIDE DEF m
  <2> QED BY <1>1
<1>3. total <= pages * n BY <1>2
<1>4. EndOf(0, n, total) = 0 BY DEF EndOf
<1> HIDE DEF pages
<1>5. EndOf(pages, n, total) = total BY <1>2, <1>3 DEF EndOf
<1>6. ASSUME NEW k \in 1 .. pages
      PROVE  /\ (k - 1) * n \in Nat /\ (k - 1) * n <= (pages - 1) * n
             /\ k * n = (k - 1) * n + n /\ (pages - 1) * n = pages * n - n
  <2>1. k - 1 \in Nat /\ pages - 1 \in Nat /\ pages - k \in Nat BY <1>2
  <2>2. (k - 1) * n \in Nat /\ (pages - k) * n \in Nat BY <2>1
  <2>3. (pages - 1) * n = (k - 1) * n + (pages - k) * n BY <1>2
  <2> QED BY <1>2, <2>1, <2>2, <2>3
<1>7. ASSUME NEW k \in 1 .. pages
      PROVE  /\ EndOf(k - 1, n, total) = (k - 1) * n
             /\ (k - 1) * n \in 0 .. total
             /\ EndOf(k, n, total) \in 0 .. total
             /\ EndOf(k - 1, n, total) <= EndOf(k, n, total)
             /\ EndOf(k, n, total) = IF (k - 1) * n + n < total
                                     THEN (k - 1) * n + n ELSE total
  <2> DEFINE a == (k - 1) * n
             b == k * n
             c == pages * n
             d == (pages - 1) * n
  <2>1. a \in Nat /\ a <= d /\ b = a + n /\ d = c - n /\ c \in Int BY <1>2, <1>6
  <2>2. c <= total + n - 1 BY <1>2
  <2>3. EndOf(k, n, total) = IF b < total THEN b ELSE total BY DEF EndOf
  <2>4. EndOf(k - 1, n, total) = IF a < total THEN a ELSE total BY DEF EndOf
  <2> HIDE DEF a, b, c, d
  <2>5. a < total BY <2>1, <2>2
  <2>6. /\ EndOf(k - 1, n, total) = a /\ a \in 0 .. total
        /\ EndOf(k, n, total) = IF a + n < total THEN a + n ELSE total
    BY <2>1, <2>3, <2>4, <2>5
  <2> QED BY <2>1, <2>5, <2>6 DEF a
<1> QED BY <1>2, <1>4, <1>5, <1>7 DEF pages

LEMMA JoinSteps ==
  ASSUME NEW n \in Nat, NEW part, NEW h, h = Joins(n, part, h)
  PROVE  h[0] = <<>> /\ \A k \in 1 .. n : h[k] = h[k - 1] \o part[k]
<1> DEFINE base == <<>>
           tail == [k \in 0 .. n |-> h[k - 1] \o part[k]]
           f == [k \in 0 .. n |-> IF k = 0 THEN base ELSE tail[k]]
<1>1. Joins(n, part, h) = f BY DEF Joins
<1>2. \A k \in 1 .. n : tail[k] = h[k - 1] \o part[k] OBVIOUS
<1> HIDE DEF base, tail
<1>3. f[0] = base /\ \A k \in 1 .. n : f[k] = tail[k] OBVIOUS
<1> HIDE DEF f
<1>4. h = f BY <1>1
<1> QED BY <1>2, <1>3, <1>4 DEF base

LEMMA Glued ==
  ASSUME NEW S, NEW s \in Seq(S), NEW t \in Seq(S)
  PROVE  /\ s \o t \in Seq(S) /\ Len(s \o t) = Len(s) + Len(t) /\ Len(s) \in Nat
         /\ \A i \in 1 .. Len(s) : (s \o t)[i] = s[i]
         /\ \A i \in 1 .. Len(t) : (s \o t)[Len(s) + i] = t[i]
<1>1. Len(s) \in Nat /\ Len(t) \in Nat BY LenProperties
<1>2. /\ s \o t \in Seq(S) /\ Len(s \o t) = Len(s) + Len(t)
      /\ \A i \in 1 .. Len(s) + Len(t) :
           (s \o t)[i] = IF i <= Len(s) THEN s[i] ELSE t[i - Len(s)]
  BY ConcatProperties
<1> QED BY <1>1, <1>2

\* Pages that meet end to end, joined, are the list.
Meet(S, all, pages, end, part) ==
  /\ end[0] = 0 /\ end[pages] = Len(all)
  /\ \A k \in 1 .. pages : /\ end[k] \in 0 .. Len(all) /\ end[k - 1] \in 0 .. end[k]
                            /\ part[k] \in Seq(S) /\ Len(part[k]) = end[k] - end[k - 1]
                            /\ \A i \in 1 .. end[k] - end[k - 1] : part[k][i] = all[end[k - 1] + i]
Same(s, S, all) ==
  s \in Seq(S) /\ Len(s) = Len(all) /\ \A i \in 1 .. Len(all) : s[i] = all[i]

LEMMA Gathered ==
  ASSUME NEW S, NEW all \in Seq(S), NEW pages \in Nat, NEW end, NEW part,
         Meet(S, all, pages, end, part),
         NEW h, h = Joins(pages, part, h)
  PROVE  Same(h[pages], S, all)
<1> USE DEF Meet
<1> DEFINE Upto(k) == /\ h[k] \in Seq(S) /\ Len(h[k]) = end[k] /\ end[k] \in 0 .. Len(all)
                      /\ \A i \in 1 .. end[k] : h[k][i] = all[i]
           T == {k \in 0 .. pages : Upto(k)}
<1>1. Len(all) \in Nat BY LenProperties
<1>2. h[0] = <<>> /\ \A k \in 1 .. pages : h[k] = h[k - 1] \o part[k] BY JoinSteps
<1>3. 0 \in T
  <2> DEFINE base == <<>>
  <2>1. base \in Seq(S) /\ Len(base) = 0 BY EmptySeq
  <2>2. h[0] = base BY <1>2
  <2> HIDE DEF base
  <2>3. Upto(0) BY <1>1, <2>1, <2>2
  <2> QED BY <2>3
<1>4. ASSUME NEW k \in 1 .. pages, k - 1 \in T PROVE k \in T
  <2> DEFINE s == h[k - 1]
             t == part[k]
  <2>1. /\ s \in Seq(S) /\ Len(s) = end[k - 1] /\ end[k - 1] \in 0 .. Len(all)
        /\ \A i \in 1 .. end[k - 1] : s[i] = all[i]
    BY <1>4
  <2>2. /\ end[k] \in 0 .. Len(all) /\ end[k - 1] \in 0 .. end[k]
        /\ t \in Seq(S) /\ Len(t) = end[k] - end[k - 1]
        /\ \A i \in 1 .. end[k] - end[k - 1] : t[i] = all[end[k - 1] + i]
    OBVIOUS
  <2>3. h[k] = s \o t BY <1>2
  <2> HIDE DEF s, t, T
  <2>4. /\ h[k] \in Seq(S) /\ Len(h[k]) = Len(s) + Len(t)
        /\ \A i \in 1 .. Len(s) : h[k][i] = s[i]
        /\ \A i \in 1 .. Len(t) : h[k][Len(s) + i] = t[i]
    <3>1. s \in Seq(S) /\ t \in Seq(S) BY <2>1, <2>2
    <3> QED BY <2>3, <3>1, Glued
  <2>5. Len(h[k]) = end[k] BY <1>1, <2>1, <2>2, <2>4
  <2>6. ASSUME NEW i \in 1 .. end[k] PROVE h[k][i] = all[i]
    <3>1. CASE i <= end[k - 1] BY <1>1, <2>1, <2>2, <2>4, <3>1
    <3>2. CASE i > end[k - 1]
      <4> DEFINE j == i - end[k - 1]
      <4>1. j \in 1 .. end[k] - end[k - 1] /\ end[k - 1] + j = i BY <1>1, <2>1, <2>2, <3>2
      <4>2. h[k][Len(s) + j] = t[j] BY <2>2, <2>4, <4>1
      <4>3. t[j] = all[end[k - 1] + j] BY <2>2, <4>1
      <4> QED BY <2>1, <4>1, <4>2, <4>3
    <3> QED BY <1>1, <2>1, <2>2, <3>1, <3>2
  <2>7. k \in 0 .. pages OBVIOUS
  <2> QED BY <2>2, <2>4, <2>5, <2>6, <2>7 DEF T
<1>5. \A k \in 0 .. pages : k \in T
  <2> HIDE DEF T
  <2> QED BY <1>3, <1>4, Climb
<1> QED BY <1>5 DEF Same

Newest(S) == {p \in S \X S : Newer(p[1], p[2])}

LEMMA NewestSorts ==
  ASSUME NEW S, Table(S)
  PROVE  Orders(Newest(S), S) /\ Sorts(Ordered(S, Newer), S, Newest(S))
<1>1. \A x \in S : x.ts \in Nat /\ x.id \in Nat BY DEF Table, Row
<1>2. \A x, y \in S : <<x, y>> \in Newest(S) <=> Newer(x, y) BY DEF Newest
<1>3. Orders(Newest(S), S)
  <2>1. \A x \in S : ~ Newer(x, x) BY <1>1 DEF Newer
  <2>2. \A x, y, z \in S : Newer(x, y) /\ Newer(y, z) => Newer(x, z) BY <1>1 DEF Newer
  <2>3. \A x, y \in S : x # y => x.id # y.id BY DEF Table
  <2>4. \A x, y \in S : x # y => Newer(x, y) \/ Newer(y, x) BY <1>1, <2>3 DEF Newer
  <2> QED BY <1>2, <2>1, <2>2, <2>4 DEF Orders
<1> DEFINE rank == [x \in S |-> Cardinality({y \in S : Newer(y, x)})]
           s == Ordered(S, Newer)
<1>4. ASSUME NEW x \in S PROVE rank[x] = Cardinality(Below(S, Newest(S), x))
  <2>1. {y \in S : Newer(y, x)} = Below(S, Newest(S), x) BY <1>2 DEF Below
  <2> QED BY <2>1
<1>5. s = [i \in 1 .. Cardinality(S) |-> CHOOSE x \in S : rank[x] = i - 1] BY DEF Ordered
<1> HIDE DEF rank, s
<1>6. Sorts(s, S, Newest(S)) BY <1>3, <1>4, <1>5, Sorting DEF Table
<1> QED BY <1>3, <1>6 DEF s

\* What a client that asks for a window asks for, from a row of the list on.
Asking(w, kinds, offset) ==
  [start |-> w.start, end |-> w.end, cell |-> {}, kinds |-> kinds, themes |-> {},
   minConf |-> 0, offset |-> offset, limit |-> {}]
Request(path, q) == [path |-> path, ifNoneMatch |-> {}, query |-> q]
Calm == [overdue |-> FALSE, quota |-> 1]

\* The middleware hands on what the route says.
LEMMA Served ==
  ASSUME NEW v, NEW path, NEW q, NEW now, NEW body,
         Route({v}, Request(path, q), now) = Said(body)
  PROVE  Serve({v}, Request(path, q), now, Calm).body = body
<1> DEFINE r == Request(path, q)
           said == Route({v}, r, now)
           version == {s.version : s \in {v}}
           answer == [x \in DOMAIN said \cup {"etag"} |-> IF x = "etag" THEN version ELSE said[x]]
<1>1. r.ifNoneMatch = {} /\ version # {} BY DEF Request
<1>2. Serve({v}, r, now, Calm) = answer BY <1>1 DEF Serve, Calm, Stamped
<1>3. said = [status |-> 200, body |-> body] BY DEF Said
<1> HIDE DEF said, r, version
<1>4. "body" \in DOMAIN said /\ said["body"] = body BY <1>3
<1>5. answer["body"] = body BY <1>4
<1> QED BY <1>2, <1>5 DEF r

LEMMA Latest ==
  ASSUME NEW v, NEW f, DOMAIN f = {v}
  PROVE  OfLatest(f) = Said(f[v])
BY DEF OfLatest

LEMMA EventsServed ==
  ASSUME NEW v, NEW q, NEW now, q.start \in Nat, q.end \in Nat, q.start < q.end,
         q.kinds \subseteq EventKind
  PROVE  Serve({v}, Request("/events", q), now, Calm).body = EventsPage(v.events, q)
<1> DEFINE f == [s \in {v} |-> EventsPage(s.events, q)]
<1>1. Events({v}, q) = OfLatest(f) BY DEF Events
<1>2. DOMAIN f = {v} /\ f[v] = EventsPage(v.events, q) OBVIOUS
<1> HIDE DEF f
<1>3. Events({v}, q) = Said(EventsPage(v.events, q)) BY <1>1, <1>2, Latest
<1>4. Route({v}, Request("/events", q), now) = Events({v}, q) BY DEF Route, Request
<1> QED BY <1>3, <1>4, Served

LEMMA BucketsServed ==
  ASSUME NEW v, NEW q, NEW now, q.start \in Nat, q.end \in Nat, q.start < q.end
  PROVE  Serve({v}, Request("/buckets", q), now, Calm).body = BucketList(v.events, q)
<1> DEFINE f == [s \in {v} |-> BucketList(s.events, q)]
<1>1. Buckets({v}, q) = OfLatest(f) BY DEF Buckets
<1>2. DOMAIN f = {v} /\ f[v] = BucketList(v.events, q) OBVIOUS
<1> HIDE DEF f
<1>3. Buckets({v}, q) = Said(BucketList(v.events, q)) BY <1>1, <1>2, Latest
<1>4. Route({v}, Request("/buckets", q), now) = Buckets({v}, q) BY DEF Route, Request
<1> QED BY <1>3, <1>4, Served

\* What /events answers from: the oldest of the rows that may leave, of the
\* kinds asked for, wherever the page begins.
Leaving(E, w) == {e \in In(E, w) : PointRow(e, 0) /\ (AllowAcled \/ e.source # "acled")}
Listed(E, w, kinds) ==
  {e \in Leaving(E, w) : /\ Cardinality(Below(Leaving(E, w), Older(Leaving(E, w)), e)) < MaxPointRows
                         /\ kinds = {} \/ e.kind \in kinds}

LEMMA Matched ==
  ASSUME NEW E, Table(E), NEW w, NEW kinds, NEW offset
  PROVE  Matching(E, Asking(w, kinds, offset)) = Listed(E, w, kinds)
<1> DEFINE q == Asking(w, kinds, offset)
           P == Leaving(E, w)
           list == Take(OldestFirst(P), MaxPointRows)
<1>1. /\ q.start = w.start /\ q.end = w.end /\ q.minConf = 0 /\ q.kinds = kinds /\ q.themes = {}
  BY DEF Asking
<1> HIDE DEF q
<1>2. In(E, q) = In(E, w) BY <1>1 DEF In, InWindow
<1>3. Examined(E, q) = list BY <1>1, <1>2 DEF Examined, OldestFirst, Leaving
<1>4. MaxPointRows \in Nat BY ReadsAssumption
<1>5. Table(P) BY SubTable DEF Leaving, In
<1>6. Sorts(OldestFirst(P), P, Older(P)) BY <1>5, OldestSorts
<1>7. {list[i] : i \in DOMAIN list} = {e \in P : Cardinality(Below(P, Older(P), e)) < MaxPointRows}
  BY <1>4, <1>6, TakingSorted
<1>8. Matching(E, q) = {e \in {list[i] : i \in DOMAIN list} : kinds = {} \/ e.kind \in kinds}
  BY <1>1, <1>3 DEF Matching
<1> HIDE DEF list, P
<1>9. Matching(E, q) = {e \in P : /\ Cardinality(Below(P, Older(P), e)) < MaxPointRows
                                  /\ kinds = {} \/ e.kind \in kinds}
  BY <1>7, <1>8
<1> QED BY <1>9 DEF Listed, P, q

\* A page: its rows of the list, newest first.
Shows(answer, offset, S, list) ==
  LET end == IF offset + ApiPageSize < Len(list) THEN offset + ApiPageSize ELSE Len(list)
  IN  /\ answer.total = Len(list)
      /\ answer.rows \in Seq(S) /\ Len(answer.rows) = end - offset
      /\ \A i \in 1 .. end - offset : answer.rows[i] = EventPoint(list[offset + i])
PointsOf(T) == {EventPoint(e) : e \in T}

LEMMA OnePage ==
  ASSUME NEW E, Table(E), NEW w, NEW kinds,
         NEW offset \in 0 .. Len(Ordered(Listed(E, w, kinds), Newer))
  PROVE  Shows(EventsPage(E, Asking(w, kinds, offset)), offset,
               PointsOf(Listed(E, w, kinds)), Ordered(Listed(E, w, kinds), Newer))
<1> DEFINE T == Listed(E, w, kinds)
           list == Ordered(T, Newer)
           q == Asking(w, kinds, offset)
           end == IF offset + ApiPageSize < Len(list) THEN offset + ApiPageSize ELSE Len(list)
           page == SubSeq(list, offset + 1, end)
           S == PointsOf(T)
           shown == [i \in DOMAIN page |-> EventPoint(page[i])]
<1>1. Matching(E, q) = T BY Matched
<1>2. q.offset = offset /\ q.limit = {} BY DEF Asking
<1>3. Table(T) BY SubTable DEF Listed, Leaving, In
<1>4. list \in Seq(T) /\ Len(list) \in Nat BY <1>3, NewestSorts DEF Sorts
<1>5. offset \in 0 .. Len(list) /\ ApiPageSize \in Nat /\ end \in offset .. Len(list)
  BY <1>4, ApiAssumption
<1> HIDE DEF q, T, list
<1>6. Clamp(offset, 0, Len(list)) = offset /\ Clamp(offset + ApiPageSize, 0, Len(list)) = end
  BY <1>4, <1>5 DEF Clamp
<1>7. EventsPage(E, q).total = Len(list) /\ EventsPage(E, q).rows = shown
  BY <1>1, <1>2, <1>6 DEF EventsPage, Page, list
<1> HIDE DEF end
<1>8. /\ page \in Seq(T) /\ Len(page) = end - offset
      /\ \A i \in 1 .. end - offset : page[i] = list[offset + i]
  <2>1. \A i \in offset + 1 .. end : list[i] \in T
    <3>1. list \in [1 .. Len(list) -> T] BY <1>4, LenProperties
    <3> QED BY <1>4, <1>5, <3>1
  <2>2. offset + 1 \in Int /\ end \in Int BY <1>4, <1>5
  <2>3. /\ page \in Seq(T) /\ Len(page) = IF offset + 1 <= end THEN end - (offset + 1) + 1 ELSE 0
        /\ \A i \in 1 .. end - (offset + 1) + 1 : page[i] = list[offset + 1 + i - 1]
    BY <2>1, <2>2, SubSeqProperties
  <2> HIDE DEF page
  <2>4. offset \in Nat /\ end \in Nat /\ offset <= end BY <1>4, <1>5
  <2>5. Len(page) = end - offset BY <2>3, <2>4
  <2>6. ASSUME NEW i \in 1 .. end - offset PROVE page[i] = list[offset + i]
    <3>1. i \in 1 .. end - (offset + 1) + 1 /\ offset + 1 + i - 1 = offset + i BY <2>4
    <3>2. page[i] = list[offset + 1 + i - 1] BY <2>3, <3>1
    <3> QED BY <3>1, <3>2
  <2> QED BY <2>3, <2>5, <2>6
<1> HIDE DEF page
<1>9. DOMAIN page = 1 .. end - offset /\ page \in [1 .. end - offset -> T]
  BY <1>8, LenProperties
<1>10. \A i \in 1 .. end - offset : shown[i] = EventPoint(list[offset + i]) BY <1>8, <1>9
<1>11. shown \in [1 .. end - offset -> S] BY <1>9 DEF PointsOf
<1> HIDE DEF shown, S
<1>12. end - offset \in Nat BY <1>4, <1>5
<1>13. shown \in Seq(S)
  <2>1. \E m \in Nat : shown \in [1 .. m -> S] BY <1>11, <1>12
  <2> QED BY <2>1, SeqDef
<1>14. Len(shown) = end - offset BY <1>11, <1>12, <1>13, LenProperties
<1> QED BY <1>7, <1>10, <1>13, <1>14 DEF T, list, q, end, S, Shows

\* A bucket is known by its cell and its start.
LEMMA BucketsApart ==
  ASSUME NEW E, Table(E)
  PROVE  /\ IsFiniteSet(ScoreBuckets(E))
         /\ \A b \in ScoreBuckets(E) : b.cell \in Nat /\ b.bucket \in Nat
         /\ \A b, c \in ScoreBuckets(E) : b.cell = c.cell /\ b.bucket = c.bucket => b = c
         /\ \A e \in E : \E b \in ScoreBuckets(E) : b.cell = e.cell /\ b.bucket = BucketStart(e.ts)
<1> DEFINE f == [e \in E |-> RegionBucket(E, e.cell, BucketStart(e.ts))]
<1>1. ScoreBuckets(E) = {f[e] : e \in E} BY DEF ScoreBuckets
<1>2. ASSUME NEW c, NEW s PROVE RegionBucket(E, c, s).cell = c /\ RegionBucket(E, c, s).bucket = s
  BY DEF RegionBucket
<1>3. \A e \in E : f[e].cell = e.cell /\ f[e].bucket = BucketStart(e.ts) BY <1>2
<1>4. \A d, e \in E : d.cell = e.cell /\ BucketStart(d.ts) = BucketStart(e.ts) => f[d] = f[e]
  OBVIOUS
<1> HIDE DEF f
<1>5. IsFiniteSet({f[e] : e \in E}) BY Images DEF Table
<1>6. \A e \in E : e.cell \in Nat /\ BucketStart(e.ts) \in Nat BY BucketStarts DEF Table, Row
<1> QED BY <1>1, <1>3, <1>4, <1>5, <1>6

\* Every row of a window is in a bucket that /buckets gives for it.
LEMMA BucketsListed ==
  ASSUME NEW E, Table(E), NEW w \in Windows, NEW kinds, NEW offset, NEW e \in In(E, w)
  PROVE  \E b \in Range(BucketList(E, Asking(w, kinds, offset))) :
           b.cell = e.cell /\ b.bucket = BucketStart(e.ts)
<1> DEFINE q == Asking(w, kinds, offset)
           B == {b \in ScoreBuckets(E) : BucketAsked(b.bucket, q) /\ (q.cell = {} \/ b.cell \in q.cell)}
           R == {p \in B \X B : p[1].cell < p[2].cell
                                \/ (p[1].cell = p[2].cell /\ p[1].bucket < p[2].bucket)}
           rank == [x \in B |-> Cardinality({y \in B : y.cell < x.cell
                                               \/ (y.cell = x.cell /\ y.bucket < x.bucket)})]
           list == [i \in 1 .. Cardinality(B) |-> CHOOSE x \in B : rank[x] = i - 1]
<1>1. q.start = w.start /\ q.end = w.end /\ q.cell = {} BY DEF Asking
<1> HIDE DEF q
<1>2. BucketList(E, q) = list BY DEF BucketList, Ordered
<1>3. PICK b \in ScoreBuckets(E) : b.cell = e.cell /\ b.bucket = BucketStart(e.ts)
  BY BucketsApart DEF In
<1>4. b \in B
  <2>1. /\ e.ts \in Nat /\ w.start \in Nat /\ w.end \in Nat /\ w.start <= e.ts /\ e.ts < w.end
    BY WindowsAssumption DEF In, InWindow, Table, Row
  <2>2. BucketStart(w.start) <= BucketStart(e.ts) BY <2>1, StartsInOrder
  <2>3. BucketStart(e.ts) \in Nat /\ BucketStart(e.ts) < w.end BY <2>1, BucketStarts
  <2> QED BY <1>1, <1>3, <2>2, <2>3 DEF BucketAsked
<1>5. B \in SUBSET ScoreBuckets(E) OBVIOUS
<1>6. \A x, y : <<x, y>> \in R <=> /\ x \in B /\ y \in B
                                   /\ x.cell < y.cell \/ (x.cell = y.cell /\ x.bucket < y.bucket)
  OBVIOUS
<1>7. \A x \in B : rank[x] = Cardinality({y \in B : y.cell < x.cell
                                            \/ (y.cell = x.cell /\ y.bucket < x.bucket)})
  OBVIOUS
<1> HIDE DEF rank, R, B
<1>8. /\ IsFiniteSet(B) /\ \A x \in B : x.cell \in Nat /\ x.bucket \in Nat
      /\ \A x, y \in B : x.cell = y.cell /\ x.bucket = y.bucket => x = y
  BY <1>5, BucketsApart, FS_Subset
<1>9. Orders(R, B)
  <2>1. \A x \in B : <<x, x>> \notin R BY <1>6, <1>8
  <2>2. \A x, y, z \in B : <<x, y>> \in R /\ <<y, z>> \in R => <<x, z>> \in R BY <1>6, <1>8
  <2>3. \A x, y \in B : x # y => <<x, y>> \in R \/ <<y, x>> \in R BY <1>6, <1>8
  <2> QED BY <2>1, <2>2, <2>3 DEF Orders
<1>10. ASSUME NEW x \in B PROVE rank[x] = Cardinality(Below(B, R, x))
  <2>1. {y \in B : y.cell < x.cell \/ (y.cell = x.cell /\ y.bucket < x.bucket)} = Below(B, R, x)
    BY <1>6 DEF Below
  <2> QED BY <1>7, <2>1
<1> HIDE DEF list
<1>11. Sorts(list, B, R) BY <1>8, <1>9, <1>10, Sorting DEF list
<1>12. PICK i \in 1 .. Len(list) : list[i] = b BY <1>4, <1>11 DEF Sorts
<1>13. i \in DOMAIN list BY <1>11, LenProperties DEF Sorts
<1>14. b \in Range(list) BY <1>12, <1>13 DEF Range
<1> QED BY <1>2, <1>3, <1>14 DEF q

\* A row that may leave is drawn and listed, or neither; beyond the cap it may be
\* one of the two, and then no row drawn is newer.
LEMMA DrawnListed ==
  ASSUME NEW E, Table(E), NEW w, NEW kinds, NEW drawn \in QueryPoints(E, w, kinds, {}, 0),
         NEW e \in E, AllowAcled \/ e.source # "acled"
  PROVE  LET P == {x \in In(E, w) : PointRow(x, 0)}
             T == Listed(E, w, kinds)
         IN  /\ Cardinality(P) <= MaxPointRows => (e \in drawn <=> e \in T)
             /\ ~ (e \in drawn <=> e \in T) => \A d \in drawn : d.ts <= e.ts
<1> DEFINE P == {x \in In(E, w) : PointRow(x, 0)}
           L == Leaving(E, w)
           T == Listed(E, w, kinds)
           front == Below(L, Older(L), e)
           OfKind(x) == kinds = {} \/ x.kind \in kinds
<1>1. PICK K \in SUBSET P : /\ drawn = {x \in K : Asked(x, kinds, {})}
                            /\ Cardinality(K) <= MaxPointRows
                            /\ Cardinality(P) <= MaxPointRows => K = P
                            /\ \A x \in K, f \in P \ K : x.ts <= f.ts
  BY Points
<1>2. \A x : Asked(x, kinds, {}) <=> OfKind(x) BY DEF Asked
<1>3. L = {x \in P : AllowAcled \/ x.source # "acled"} BY DEF Leaving
<1>4. e \in T <=> e \in L /\ Cardinality(front) < MaxPointRows /\ OfKind(e) BY DEF Listed
<1>5. Table(P) BY SubTable DEF In
<1> HIDE DEF P, L, T
<1>6. \A x \in P : x.ts \in Nat BY <1>5 DEF Table, Row
<1>7. IsFiniteSet(P) /\ IsFiniteSet(K) /\ IsFiniteSet(L) BY <1>1, <1>3, <1>5, FS_Subset DEF Table
<1>8. front \in SUBSET L /\ e \notin front /\ \A x \in front : x.ts <= e.ts
  <2>1. \A x \in front : x \in L /\ <<x, e>> \in Older(L) BY DEF Below
  <2>2. \A x \in front : x \in L /\ e \in L /\ (x.ts < e.ts \/ (x.ts = e.ts /\ x.id < e.id))
    BY <2>1 DEF Older
  <2>3. \A x \in L : x.ts \in Nat /\ x.id \in Nat BY <1>3, <1>5 DEF Table, Row
  <2> HIDE DEF front
  <2> QED BY <2>2, <2>3
<1> HIDE DEF front
<1>9. IsFiniteSet(front) /\ Cardinality(front) \in Nat BY <1>7, <1>8, FS_Subset, FS_CardinalityType
<1>10. /\ Cardinality(P) \in Nat /\ Cardinality(K) \in Nat /\ MaxPointRows \in Nat
  BY <1>7, FS_CardinalityType, ReadsAssumption
<1>11. ASSUME Cardinality(P) <= MaxPointRows PROVE e \in drawn <=> e \in T
  <2>1. K = P BY <1>1, <1>11
  <2>2. ASSUME e \in P PROVE Cardinality(front) < MaxPointRows
    <3>1. front \in SUBSET P /\ front # P BY <1>3, <1>8, <2>2
    <3>2. Cardinality(front) <= Cardinality(P) /\ Cardinality(front) # Cardinality(P)
      BY <1>7, <3>1, FS_Subset
    <3> QED BY <1>9, <1>10, <1>11, <3>2
  <2>3. e \in L <=> e \in P BY <1>3
  <2> QED BY <1>1, <1>2, <1>4, <2>1, <2>2, <2>3
<1>12. ASSUME ~ (e \in drawn <=> e \in T), NEW d \in drawn PROVE d.ts <= e.ts
  <2>1. d \in K /\ d \in P BY <1>1
  <2>2. CASE e \in drawn
    <3>1. e \in K /\ e \in P /\ e \in L /\ OfKind(e) BY <1>1, <1>2, <1>3, <2>2
    <3>2. ~ (Cardinality(front) < MaxPointRows) BY <1>4, <1>12, <2>2, <3>1
    <3>3. SUFFICES ASSUME d.ts > e.ts PROVE FALSE BY <1>6, <2>1, <3>1
    <3>4. ASSUME NEW x \in front PROVE x \in K
      <4>1. x \in P /\ x.ts <= e.ts BY <1>3, <1>8
      <4>2. ~ (d.ts <= x.ts) BY <1>6, <2>1, <3>1, <3>3, <4>1
      <4> QED BY <1>1, <2>1, <4>1, <4>2
    <3>5. front \cup {e} \in SUBSET K BY <3>1, <3>4
    <3>6. Cardinality(front \cup {e}) = Cardinality(front) + 1 BY <1>8, <1>9, FS_AddElement
    <3>7. Cardinality(front \cup {e}) <= Cardinality(K) BY <1>7, <3>5, FS_Subset
    <3> QED BY <1>1, <1>9, <1>10, <3>2, <3>6, <3>7
  <2>3. CASE e \notin drawn
    <3>1. e \in L /\ OfKind(e) BY <1>4, <1>12, <2>3
    <3>2. e \in P \ K BY <1>1, <1>2, <1>3, <2>3, <3>1
    <3> QED BY <1>1, <2>1, <3>2
  <2> QED BY <2>2, <2>3
<1> QED BY <1>11, <1>12 DEF P, T

\* What a client gathers is what the desktop draws: for every page size, cap,
\* window and kind, and whatever the providers answered, the pages of /events
\* joined are the list newest first and every row once.  Within the cap they hold
\* the rows the map draws that may leave and no other; beyond it, where the
\* map's query leaves the order of one time open, they part over no row older
\* than any it draws.  And /buckets has the bucket of each (events, buckets,
\* do_query_points).
THEOREM PagesAreTheMap == Spec => []PublicPagesAgree
<1>1. IInv => PublicPagesAgree
  <2> SUFFICES ASSUME IInv, NEW w \in Windows, NEW kinds \in {{}} \cup {{e.kind} : e \in rows}
               PROVE  PublicPagesAgree!(w, kinds)
    BY DEF PublicPagesAgree
  <2> DEFINE v == [version |-> polls, published |-> polls, events |-> rows]
             get(path, offset) == Serve({v}, Request(path, Asking(w, kinds, offset)), polls, Calm).body
             T == Listed(rows, w, kinds)
             list == Ordered(T, Newer)
             total == get("/events", 0).total
             pages == (total + ApiPageSize - 1) \div ApiPageSize
             gathered[k \in 0 .. pages] ==
               IF k = 0 THEN <<>> ELSE gathered[k - 1] \o get("/events", (k - 1) * ApiPageSize).rows
             seen == gathered[pages]
             points == {e \in In(rows, w) : PointRow(e, 0)}
  <2>1. Table(rows) BY DEF IInv
  <2>2. w.start \in Nat /\ w.end \in Nat /\ w.start < w.end BY WindowsAssumption
  <2>3. kinds \subseteq EventKind BY <2>1 DEF Table, Row, Placed
  <2>4. ASSUME NEW offset
        PROVE  /\ get("/events", offset) = EventsPage(rows, Asking(w, kinds, offset))
               /\ get("/buckets", offset) = BucketList(rows, Asking(w, kinds, offset))
    <3> DEFINE q == Asking(w, kinds, offset)
    <3>1. q.start = w.start /\ q.end = w.end /\ q.kinds = kinds BY DEF Asking
    <3>2. v.events = rows OBVIOUS
    <3> HIDE DEF q, v
    <3>3. get("/events", offset) = EventsPage(v.events, q) BY <2>2, <2>3, <3>1, EventsServed DEF q
    <3>4. get("/buckets", offset) = BucketList(v.events, q) BY <2>2, <3>1, BucketsServed DEF q
    <3> QED BY <3>2, <3>3, <3>4 DEF q
  <2> DEFINE n == ApiPageSize
             part == [k \in 0 .. pages |-> get("/events", (k - 1) * n).rows]
             end == [k \in 0 .. pages |-> EndOf(k, n, total)]
             S == PointsOf(T)
             all == [i \in 1 .. total |-> EventPoint(list[i])]
  <2>5. n \in Nat \ {0} BY ApiAssumption
  <2>6. Table(T) BY <2>1, SubTable DEF Listed, Leaving, In
  <2>7. Sorts(list, T, Newest(T)) BY <2>6, NewestSorts
  <2>8. list \in [1 .. Len(list) -> T] /\ Len(list) \in Nat
    BY <2>7, LenProperties DEF Sorts
  <2>9. total = Len(list)
    <3>1. 0 \in 0 .. Len(list) BY <2>8
    <3>2. EventsPage(rows, Asking(w, kinds, 0)).total = Len(list) BY <2>1, <3>1, OnePage DEF Shows
    <3> QED BY <2>4, <3>2
  <2> HIDE DEF get, total, pages
  <2>10. /\ pages \in Nat /\ end[0] = 0 /\ end[pages] = total
         /\ \A k \in 1 .. pages :
              /\ (k - 1) * n \in 0 .. total /\ end[k - 1] = (k - 1) * n
              /\ end[k] \in 0 .. total /\ end[k - 1] <= end[k]
              /\ end[k] = IF (k - 1) * n + n < total THEN (k - 1) * n + n ELSE total
    <3>1. total \in Nat /\ pages = (total + n - 1) \div n BY <2>8, <2>9 DEF pages
    <3>2. /\ pages \in Nat
          /\ EndOf(0, n, total) = 0 /\ EndOf(pages, n, total) = total
          /\ \A k \in 1 .. pages : /\ EndOf(k - 1, n, total) = (k - 1) * n
                                   /\ (k - 1) * n \in 0 .. total
                                   /\ EndOf(k, n, total) \in 0 .. total
                                   /\ EndOf(k - 1, n, total) <= EndOf(k, n, total)
                                   /\ EndOf(k, n, total) = IF (k - 1) * n + n < total
                                                           THEN (k - 1) * n + n ELSE total
      BY <2>5, <3>1, PageEnds
    <3>3. \A k \in 0 .. pages : end[k] = EndOf(k, n, total) OBVIOUS
    <3>4. /\ 0 \in 0 .. pages /\ pages \in 0 .. pages
          /\ \A k \in 1 .. pages : k \in 0 .. pages /\ k - 1 \in 0 .. pages
      BY <3>2
    <3> HIDE DEF end
    <3> QED BY <3>2, <3>3, <3>4
  <2> HIDE DEF end
  <2>11. /\ all \in Seq(S) /\ Len(all) = total /\ \A i \in 1 .. total : all[i] = EventPoint(list[i])
    <3>1. all \in [1 .. total -> S] /\ total \in Nat BY <2>8, <2>9 DEF PointsOf
    <3>2. \A i \in 1 .. total : all[i] = EventPoint(list[i]) OBVIOUS
    <3> HIDE DEF all, S
    <3>3. \E m \in Nat : all \in [1 .. m -> S] BY <3>1
    <3>4. all \in Seq(S) BY <3>3, SeqDef
    <3> QED BY <3>1, <3>2, <3>4, LenProperties
  <2> HIDE DEF all, list, T, S
  <2>12. ASSUME NEW k \in 1 .. pages
         PROVE  /\ end[k] \in 0 .. Len(all) /\ end[k - 1] \in 0 .. end[k]
                /\ part[k] \in Seq(S) /\ Len(part[k]) = end[k] - end[k - 1]
                /\ \A i \in 1 .. end[k] - end[k - 1] : part[k][i] = all[end[k - 1] + i]
    <3> DEFINE off == (k - 1) * n
    <3>1. /\ off \in 0 .. total /\ end[k - 1] = off /\ end[k] \in 0 .. total
          /\ end[k - 1] <= end[k] /\ end[k] = IF off + n < total THEN off + n ELSE total
      BY <2>10
    <3>2. part[k] = EventsPage(rows, Asking(w, kinds, off)).rows
      <4>1. k \in 0 .. pages BY <2>10
      <4> QED BY <2>4, <4>1
    <3> HIDE DEF off, part
    <3>3. /\ part[k] \in Seq(S) /\ Len(part[k]) = end[k] - off
          /\ \A i \in 1 .. end[k] - off : part[k][i] = EventPoint(list[off + i])
      <4> DEFINE its == EventsPage(rows, Asking(w, kinds, off))
                 stop == IF off + n < Len(list) THEN off + n ELSE Len(list)
      <4>1. off \in 0 .. Len(Ordered(Listed(rows, w, kinds), Newer)) BY <2>9, <3>1 DEF list, T
      <4>2. /\ its.rows \in Seq(S) /\ Len(its.rows) = stop - off
            /\ \A i \in 1 .. stop - off : its.rows[i] = EventPoint(list[off + i])
        <5>1. Shows(its, off, PointsOf(Listed(rows, w, kinds)), Ordered(Listed(rows, w, kinds), Newer))
          BY <2>1, <4>1, OnePage
        <5> QED BY <5>1 DEF Shows, list, T, S
      <4>3. stop = end[k] BY <2>9, <3>1
      <4> HIDE DEF its, stop, n
      <4> QED BY <3>2, <4>2, <4>3 DEF its
    <3>4. ASSUME NEW i \in 1 .. end[k] - off PROVE EventPoint(list[off + i]) = all[off + i]
      <4>1. off + i \in 1 .. total BY <2>8, <2>9, <3>1
      <4> QED BY <2>11, <4>1
    <3>5. \A i \in 1 .. end[k] - off : part[k][i] = all[off + i] BY <3>3, <3>4
    <3>6. end[k] \in 0 .. Len(all) /\ off \in 0 .. end[k] BY <2>8, <2>9, <2>11, <3>1
    <3> QED BY <3>1, <3>3, <3>5, <3>6
  <2>13. gathered = Joins(pages, part, gathered)
    <3> DEFINE Of(g) == [k \in 0 .. pages |-> IF k = 0 THEN <<>>
                                               ELSE g[k - 1] \o get("/events", (k - 1) * n).rows]
    <3>1. ASSUME NEW g PROVE Of(g) = Joins(pages, part, g)
      <4> DEFINE base == <<>>
                 left == [k \in 0 .. pages |-> g[k - 1] \o get("/events", (k - 1) * n).rows]
                 right == [k \in 0 .. pages |-> g[k - 1] \o part[k]]
                 f == [k \in 0 .. pages |-> IF k = 0 THEN base ELSE left[k]]
                 h == [k \in 0 .. pages |-> IF k = 0 THEN base ELSE right[k]]
      <4>1. Of(g) = f OBVIOUS
      <4>2. Joins(pages, part, g) = h BY DEF Joins
      <4>3. \A k \in 0 .. pages : part[k] = get("/events", (k - 1) * n).rows OBVIOUS
      <4> HIDE DEF part
      <4>4. \A k \in 0 .. pages : left[k] = right[k] BY <4>3
      <4> HIDE DEF base, left, right
      <4>5. f = h BY <4>4
      <4> QED BY <4>1, <4>2, <4>5
    <3>2. \A k \in 1 .. pages : part[k] \in Seq(S) BY <2>12
    <3> HIDE DEF part
    <3>3. \E g : g = Joins(pages, part, g) BY <2>10, <3>2, Joining
    <3>4. gathered = CHOOSE g : g = Of(g) BY DEF n
    <3> HIDE DEF gathered, Of
    <3>5. \E g : g = Of(g) BY <3>1, <3>3
    <3>6. gathered = Of(gathered)
      <4>1. PICK g : g = Of(g) BY <3>5
      <4> QED BY <3>4, <4>1
    <3> QED BY <3>1, <3>6
  <2> HIDE DEF gathered, part
  <2>14. Len(seen) = total /\ seen \in Seq(S) /\ \A i \in 1 .. total : seen[i] = EventPoint(list[i])
    <3>1. Meet(S, all, pages, end, part) BY <2>10, <2>11, <2>12 DEF Meet
    <3>2. Same(gathered[pages], S, all) BY <2>10, <2>11, <2>13, <3>1, Gathered
    <3> QED BY <2>11, <3>2 DEF Same
  <2> HIDE DEF seen
  <2>15. Range(seen) = {EventPoint(e) : e \in T}
    <3>1. DOMAIN seen = 1 .. total BY <2>14, LenProperties
    <3>2. \A e \in T : \E i \in 1 .. total : list[i] = e BY <2>7, <2>9 DEF Sorts
    <3>3. \A i \in 1 .. total : list[i] \in T BY <2>8, <2>9
    <3> QED BY <2>14, <3>1, <3>2, <3>3 DEF Range
  <2>16. \A e : /\ EventPoint(e).id = e.id /\ EventPoint(e).ts = e.ts
                /\ EventPoint(e).cell = e.cell /\ EventPoint(e).family = e.family
    BY DEF EventPoint
  <2>17. T \subseteq In(rows, w) /\ \A e \in T : e \in rows /\ (AllowAcled \/ e.source # "acled")
    BY DEF T, Listed, Leaving, In
  <2>18. ASSUME NEW i \in 1 .. total - 1 PROVE Newer(seen[i], seen[i + 1])
    <3>1. i \in 1 .. total /\ i + 1 \in 1 .. total /\ i < i + 1 BY <2>8, <2>9
    <3>2. <<list[i], list[i + 1]>> \in Newest(T) BY <2>7, <2>9, <3>1 DEF Sorts
    <3>3. Newer(list[i], list[i + 1]) BY <3>2 DEF Newest
    <3>4. seen[i] = EventPoint(list[i]) /\ seen[i + 1] = EventPoint(list[i + 1]) BY <2>14, <3>1
    <3> QED BY <2>16, <3>3, <3>4 DEF Newer
  <2>19. \A e \in rows : (\E p \in Range(seen) : p.id = e.id) <=> e \in T
    BY <2>1, <2>15, <2>16, <2>17 DEF Table
  <2>20. ASSUME NEW drawn \in QueryPoints(rows, w, kinds, {}, 0)
         PROVE  /\ Cardinality(points) <= MaxPointRows => Apart(drawn, seen) = {}
                /\ \A e \in Apart(drawn, seen), d \in drawn : d.ts <= e.ts
    <3>1. \A e \in rows : AllowAcled \/ e.source # "acled" =>
            (/\ Cardinality(points) <= MaxPointRows => (e \in drawn <=> e \in T)
             /\ ~ (e \in drawn <=> e \in T) => \A d \in drawn : d.ts <= e.ts)
      BY <2>1, DrawnListed DEF T
    <3> HIDE DEF points
    <3> QED BY <2>19, <3>1 DEF Apart
  <2>21. AllowAcled \/ {e.id : e \in {x \in rows : x.source = "acled"}}
                         \cap {p.id : p \in Range(seen)} = {}
    <3>1. SUFFICES ASSUME ~ AllowAcled, NEW e \in rows, e.source = "acled", NEW p \in Range(seen),
                          e.id = p.id
                   PROVE  FALSE
      OBVIOUS
    <3>2. PICK f \in T : p = EventPoint(f) BY <2>15
    <3>3. f \in rows /\ f.source # "acled" /\ f.id = e.id BY <2>16, <2>17, <3>1, <3>2
    <3> QED BY <2>1, <3>1, <3>3 DEF Table
  <2>22. \A p \in Range(seen) : \E b \in Range(get("/buckets", 0)) :
           b.cell = p.cell /\ b.bucket = BucketStart(p.ts)
    <3>1. SUFFICES ASSUME NEW p \in Range(seen)
                   PROVE  \E b \in Range(get("/buckets", 0)) :
                            b.cell = p.cell /\ b.bucket = BucketStart(p.ts)
      OBVIOUS
    <3>2. PICK e \in T : p = EventPoint(e) BY <2>15
    <3>3. e \in In(rows, w) /\ p.cell = e.cell /\ p.ts = e.ts BY <2>16, <2>17, <3>2
    <3>4. \E b \in Range(BucketList(rows, Asking(w, kinds, 0))) :
            b.cell = e.cell /\ b.bucket = BucketStart(e.ts)
      BY <2>1, <3>3, BucketsListed
    <3> QED BY <2>4, <3>3, <3>4
  <2>23. {<<p.cell, BucketStart(p.ts)>> :
            p \in {x \in Range(seen) : EntersAttention(x.family) \/ EntersUnrest(x.family)}}
           \subseteq {<<b.cell, b.bucket>> : b \in Range(get("/buckets", 0))}
    BY <2>22
  <2> QED BY <2>14, <2>18, <2>20, <2>21, <2>23
      DEF v, Request, Asking, Calm, get, total, pages, gathered, seen, points
<1> QED BY <1>1, KeptRows, PTL

-----------------------------------------------------------------------------
(***************************************************************************)
(* Counts: sums over parts, the pages of a ledger, the rows of a day.      *)
(***************************************************************************)

\* The sum over a set is any function of its subsets that adds an element at a
\* time, whatever the order in which the fold takes them.
LEMMA SumIs ==
  ASSUME NEW g, IsFiniteSet(DOMAIN g), NEW F \in [SUBSET (DOMAIN g) -> Nat],
         F[{}] = 0, \A s \in SUBSET (DOMAIN g) : \A x \in s : F[s] = g[x] + F[s \ {x}]
  PROVE  SumOf(g) = F[DOMAIN g]
<1> DEFINE S == DOMAIN g
           next(i, s) == LET x == CHOOSE x \in s : TRUE IN g[x] + i[s \ {x}]
           Of(i) == [s \in SUBSET S |-> IF s = {} THEN 0 ELSE next(i, s)]
           iter == CHOOSE i : i = Of(i)
           n == Cardinality(S)
<1>1. SumOf(g) = iter[S] BY DEF SumOf, MapThenSumSet, MapThenFoldSet
<1>2. \A i : \A s \in SUBSET S : s # {} => /\ (CHOOSE x \in s : TRUE) \in s
                                           /\ next(i, s) = g[CHOOSE x \in s : TRUE]
                                                           + i[s \ {CHOOSE x \in s : TRUE}]
  OBVIOUS
<1>3. \A s \in SUBSET S : F[s] = IF s = {} THEN 0 ELSE next(F, s)
  <2>1. ASSUME NEW s \in SUBSET S, s # {} PROVE F[s] = next(F, s)
    <3> DEFINE x == CHOOSE x \in s : TRUE
    <3>1. x \in s /\ next(F, s) = g[x] + F[s \ {x}] BY <1>2, <2>1
    <3> HIDE DEF x, next
    <3> QED BY <3>1
  <2> HIDE DEF next
  <2> QED BY <2>1
<1>4. F = Of(F)
  <2> HIDE DEF next
  <2>1. F = [s \in SUBSET S |-> F[s]] OBVIOUS
  <2> QED BY <1>3, <2>1
<1>5. iter = Of(iter)
  <2> HIDE DEF Of
  <2> QED BY <1>4
<1> HIDE DEF iter
<1>6. \A s \in SUBSET S : iter[s] = IF s = {} THEN 0 ELSE next(iter, s)
  <2> DEFINE h == Of(iter)
  <2> HIDE DEF next
  <2>1. \A s \in SUBSET S : h[s] = IF s = {} THEN 0 ELSE next(iter, s) OBVIOUS
  <2> HIDE DEF h
  <2> QED BY <1>5, <2>1 DEF h
<1>7. n \in Nat BY FS_CardinalityType
<1> DEFINE T == {k \in 0 .. n : \A s \in SUBSET S : Cardinality(s) <= k => iter[s] = F[s]}
<1>8. \A s \in SUBSET S : IsFiniteSet(s) /\ Cardinality(s) \in 0 .. n
  BY <1>7, FS_Subset, FS_CardinalityType
<1>9. 0 \in T
  <2>1. ASSUME NEW s \in SUBSET S, Cardinality(s) <= 0 PROVE iter[s] = F[s]
    <3>1. s = {} BY <1>8, <2>1, FS_EmptySet
    <3> HIDE DEF next
    <3> QED BY <1>6, <3>1
  <2> HIDE DEF n
  <2> QED BY <1>7, <2>1
<1>10. ASSUME NEW k \in 1 .. n, k - 1 \in T PROVE k \in T
  <2>1. ASSUME NEW s \in SUBSET S, Cardinality(s) <= k PROVE iter[s] = F[s]
    <3>1. CASE s = {}
      <4> HIDE DEF next
      <4> QED BY <1>6, <3>1
    <3>2. CASE s # {}
      <4> DEFINE x == CHOOSE x \in s : TRUE
      <4>1. x \in s /\ next(iter, s) = g[x] + iter[s \ {x}] BY <1>2, <3>2
      <4> HIDE DEF x, next
      <4>2. s \ {x} \in SUBSET S /\ Cardinality(s \ {x}) = Cardinality(s) - 1
        BY <1>8, <4>1, FS_RemoveElement
      <4>3. Cardinality(s \ {x}) <= k - 1
        <5>1. Cardinality(s) \in Int /\ k \in Int BY <1>7, <1>8
        <5> QED BY <2>1, <4>2, <5>1
      <4>4. iter[s \ {x}] = F[s \ {x}] BY <1>10, <4>2, <4>3
      <4>5. iter[s] = g[x] + F[s \ {x}] BY <1>6, <3>2, <4>1, <4>4
      <4> QED BY <4>1, <4>5
    <3> QED BY <3>1, <3>2
  <2> HIDE DEF n
  <2> QED BY <1>7, <2>1
<1>11. \A k \in 0 .. n : k \in T
  <2> HIDE DEF T, n
  <2> QED BY <1>7, <1>9, <1>10, Climb
<1>12. S \in SUBSET S /\ n \in 0 .. n /\ Cardinality(S) <= n BY <1>7
<1>13. iter[S] = F[S] BY <1>11, <1>12
<1> QED BY <1>1, <1>13

\* The parts a set is sorted into add up to it.
LEMMA PartsAddUp ==
  ASSUME NEW E, IsFiniteSet(E), NEW f, NEW g, DOMAIN g = {f[e] : e \in E},
         \A k \in DOMAIN g : g[k] = Cardinality({e \in E : f[e] = k})
  PROVE  SumOf(g) = Cardinality(E)
<1> DEFINE S == DOMAIN g
           of(s) == {e \in E : f[e] \in s}
           F == [s \in SUBSET S |-> Cardinality(of(s))]
<1>1. IsFiniteSet(S) BY Images
<1>2. \A s : of(s) \in SUBSET E OBVIOUS
<1>3. \A s : IsFiniteSet(of(s)) /\ Cardinality(of(s)) \in Nat
  <2> HIDE DEF of
  <2> QED BY <1>2, FS_Subset, FS_CardinalityType
<1>4. F[{}] = 0
  <2>1. of({}) = {} OBVIOUS
  <2>2. F[{}] = Cardinality(of({})) OBVIOUS
  <2> HIDE DEF of, F
  <2> QED BY <2>1, <2>2, FS_EmptySet
<1>5. ASSUME NEW s \in SUBSET S, NEW x \in s PROVE F[s] = g[x] + F[s \ {x}]
  <2> DEFINE rest == s \ {x}
             one == {e \in E : f[e] = x}
  <2>1. of(s) = one \cup of(rest) /\ one \cap of(rest) = {} OBVIOUS
  <2>2. one \in SUBSET E /\ g[x] = Cardinality(one) OBVIOUS
  <2>3. rest \in SUBSET S OBVIOUS
  <2> HIDE DEF of, one, rest
  <2>4. IsFiniteSet(one) /\ Cardinality(one) \in Nat BY <2>2, FS_Subset, FS_CardinalityType
  <2>5. Cardinality(of(s)) = Cardinality(one) + Cardinality(of(rest)) - Cardinality({})
    BY <1>3, <2>1, <2>4, FS_Union
  <2>6. Cardinality(of(s)) = Cardinality(one) + Cardinality(of(rest))
    BY <1>3, <2>4, <2>5, FS_EmptySet
  <2>7. F[s] = Cardinality(of(s)) /\ F[rest] = Cardinality(of(rest)) BY <2>3
  <2> HIDE DEF F
  <2>8. F[s] = g[x] + F[rest] BY <2>2, <2>6, <2>7
  <2> QED BY <2>8 DEF rest
<1>6. F \in [SUBSET S -> Nat]
  <2> HIDE DEF of
  <2> QED BY <1>3
<1>7. S \in SUBSET S /\ of(S) = E OBVIOUS
<1>8. F[S] = Cardinality(E)
  <2> HIDE DEF of
  <2> QED BY <1>7
<1> HIDE DEF F, of
<1>9. SumOf(g) = F[S] BY <1>1, <1>4, <1>5, <1>6, SumIs
<1> QED BY <1>8, <1>9

LEMMA KindsApart ==
  ASSUME NEW e, Row(e)
  PROVE  /\ e.family = "media_attention" <=> e.kind = "news_attention"
         /\ e.family = "official_alert" <=> e.source = "noaa"
         /\ e.family \in {"recorded_event", "official_alert"}
              => e.kind \notin {"news_attention", "chatter"}
BY DEF Row, Placed, EventKind, FamilyOf

\* The ledger of a cell is its event half, newest first.
Ledger(E, c, w) == EventHalf(InCell(E, c, w))

LEMMA LedgerSorts ==
  ASSUME NEW E, Table(E), NEW c, NEW w
  PROVE  /\ Ledger(E, c, w) \in SUBSET E /\ Table(Ledger(E, c, w))
         /\ Sorts(Ordered(Ledger(E, c, w), Newer), Ledger(E, c, w), Newest(Ledger(E, c, w)))
<1>1. Ledger(E, c, w) \in SUBSET E BY DEF Ledger, EventHalf, InCell, In
<1> QED BY <1>1, SubTable, NewestSorts

\* A page is what lies between two places of a list.
Between(page, S, list, from, to) ==
  /\ from \in 0 .. to /\ to \in 0 .. Len(list)
  /\ page \in Seq(S) /\ Len(page) = to - from
  /\ \A i \in 1 .. to - from : page[i] = list[from + i]

\* One page of the ledger, wherever it begins.
LEMMA LedgerPage ==
  ASSUME NEW S, NEW list \in Seq(S), NEW k \in Nat, NEW limit \in Nat \ {0}
  PROVE  Between(Page(list, k * limit, limit), S, list,
                 EndOf(k, limit, Len(list)), EndOf(k + 1, limit, Len(list)))
<1> DEFINE off == k * limit
           n == Len(list)
           from == EndOf(k, limit, n)
           to == EndOf(k + 1, limit, n)
           end == Clamp(off + limit, 0, n)
           page == SubSeq(list, off + 1, end)
<1>1. n \in Nat /\ list \in [1 .. n -> S] BY LenProperties
<1>2. off \in Nat /\ (k + 1) * limit = off + limit OBVIOUS
<1> HIDE DEF off, n
<1>3. from = (IF off < n THEN off ELSE n) /\ to = (IF off + limit < n THEN off + limit ELSE n)
  BY <1>2 DEF EndOf, off
<1>4. end = to BY <1>1, <1>2, <1>3 DEF Clamp
<1>5. from \in 0 .. to /\ to \in 0 .. n BY <1>1, <1>2, <1>3
<1> HIDE DEF end, from, to
<1>6. /\ page \in Seq(S)
      /\ Len(page) = IF off + 1 <= end THEN end - (off + 1) + 1 ELSE 0
      /\ \A i \in 1 .. end - (off + 1) + 1 : page[i] = list[off + 1 + i - 1]
  <2>1. \A i \in off + 1 .. end : list[i] \in S BY <1>1, <1>2, <1>4, <1>5
  <2>2. off + 1 \in Int /\ end \in Int BY <1>1, <1>2, <1>4, <1>5
  <2> QED BY <2>1, <2>2, SubSeqProperties
<1> HIDE DEF page
<1>7. Len(page) = to - from
  <2>1. CASE off < n BY <1>1, <1>2, <1>3, <1>4, <1>6, <2>1
  <2>2. CASE ~ off < n BY <1>1, <1>2, <1>3, <1>4, <1>6, <2>2
  <2> QED BY <2>1, <2>2
<1>8. ASSUME NEW i \in 1 .. to - from PROVE page[i] = list[from + i]
  <2>1. off < n /\ from = off BY <1>1, <1>2, <1>3, <1>8
  <2>2. i \in 1 .. end - (off + 1) + 1 /\ off + 1 + i - 1 = from + i
    BY <1>1, <1>2, <1>3, <1>4, <1>8, <2>1
  <2>3. page[i] = list[off + 1 + i - 1] BY <1>6, <2>2
  <2> QED BY <2>2, <2>3
<1>9. Page(list, off, limit) = page BY DEF Page, page, end, n
<1> QED BY <1>5, <1>6, <1>7, <1>8, <1>9 DEF off, n, from, to, Between

\* Its pages, joined, are the whole of it, newest first and every row once: for
\* every length of a page, from the first one on (do_region_events).
THEOREM LedgerWhole ==
  ASSUME NEW E, Table(E), NEW c, NEW w, NEW limit \in Nat \ {0}
  PROVE  LET all == RegionEvents(E, c, w, 0, Cardinality(E))
             page(k) == RegionEvents(E, c, w, k * limit, limit).rows
             shown[k \in 0 .. all.total] == IF k = 0 THEN <<>> ELSE shown[k - 1] \o page(k - 1)
         IN  /\ shown[all.total] = all.rows /\ Len(all.rows) = all.total
             /\ all.rows = Ordered(Ledger(E, c, w), Newer)
<1> DEFINE M == Ledger(E, c, w)
           list == Ordered(M, Newer)
           n == Cardinality(M)
           all == RegionEvents(E, c, w, 0, Cardinality(E))
           page(k) == RegionEvents(E, c, w, k * limit, limit).rows
           shown[k \in 0 .. all.total] == IF k = 0 THEN <<>> ELSE shown[k - 1] \o page(k - 1)
           part == [k \in 0 .. n |-> page(k - 1)]
           end == [k \in 0 .. n |-> EndOf(k, limit, n)]
<1>1. /\ M \in SUBSET E /\ IsFiniteSet(M) /\ list \in Seq(M) /\ Len(list) = n /\ n \in Nat
      /\ n <= Cardinality(E) /\ Cardinality(E) \in Nat
  BY LedgerSorts, FS_Subset, FS_CardinalityType DEF Sorts, Table
<1>2. all.total = n /\ all.rows = Page(list, 0, Cardinality(E))
  BY DEF RegionEvents, Ledger
<1>3. \A k : page(k) = Page(list, k * limit, limit) BY DEF RegionEvents, Ledger
<1> HIDE DEF all, page, list, M, n
<1>4. all.rows = list
  <2>1. Page(list, 0, Cardinality(E)) = SubSeq(list, 1, n)
    <3>1. Clamp(0 + Cardinality(E), 0, Len(list)) = n BY <1>1 DEF Clamp
    <3>2. 0 + 1 = 1 OBVIOUS
    <3>3. Page(list, 0, Cardinality(E)) = SubSeq(list, 0 + 1, Clamp(0 + Cardinality(E), 0, Len(list)))
      BY DEF Page
    <3> QED BY <3>1, <3>2, <3>3
  <2>2. SubSeq(list, 1, Len(list)) = list BY <1>1, SubSeqFull
  <2> QED BY <1>1, <1>2, <2>1, <2>2
<1>5. Meet(M, list, n, end, part)
  <2>1. end[0] = 0 /\ end[n] = n
    <3>1. EndOf(0, limit, n) = 0 BY <1>1 DEF EndOf
    <3>2. EndOf(n, limit, n) = n
      <4>1. \A x \in Nat : x <= x * limit OBVIOUS
      <4>2. ~ n * limit < n BY <1>1, <4>1
      <4> QED BY <4>2 DEF EndOf
    <3> QED BY <1>1, <3>1, <3>2
  <2>2. ASSUME NEW k \in 1 .. n
        PROVE  /\ end[k] \in 0 .. n /\ end[k - 1] \in 0 .. end[k]
               /\ part[k] \in Seq(M) /\ Len(part[k]) = end[k] - end[k - 1]
               /\ \A i \in 1 .. end[k] - end[k - 1] : part[k][i] = list[end[k - 1] + i]
    <3> DEFINE j == k - 1
    <3>1. j \in Nat /\ k \in 0 .. n /\ j \in 0 .. n /\ j + 1 = k BY <1>1
    <3>2. end[k] = EndOf(j + 1, limit, n) /\ end[k - 1] = EndOf(j, limit, n) BY <3>1
    <3>3. part[k] = Page(list, j * limit, limit) BY <1>3, <3>1
    <3> HIDE DEF j, end, part
    <3>4. Between(Page(list, j * limit, limit), M, list,
                  EndOf(j, limit, Len(list)), EndOf(j + 1, limit, Len(list)))
      BY <1>1, <3>1, LedgerPage
    <3> QED BY <1>1, <3>2, <3>3, <3>4 DEF Between
  <2> HIDE DEF end, part
  <2> QED BY <1>1, <2>1, <2>2 DEF Meet
<1>6. shown = Joins(n, part, shown)
  <2> DEFINE Of(g) == [k \in 0 .. all.total |-> IF k = 0 THEN <<>> ELSE g[k - 1] \o page(k - 1)]
  <2>1. ASSUME NEW g PROVE Of(g) = Joins(n, part, g)
    <3> DEFINE base == <<>>
               left == [k \in 0 .. n |-> g[k - 1] \o page(k - 1)]
               right == [k \in 0 .. n |-> g[k - 1] \o part[k]]
               f == [k \in 0 .. n |-> IF k = 0 THEN base ELSE left[k]]
               h == [k \in 0 .. n |-> IF k = 0 THEN base ELSE right[k]]
    <3>1. Of(g) = f BY <1>2
    <3>2. Joins(n, part, g) = h BY DEF Joins
    <3>3. \A k \in 0 .. n : part[k] = page(k - 1) OBVIOUS
    <3> HIDE DEF part
    <3>4. \A k \in 0 .. n : left[k] = right[k] BY <3>3
    <3> HIDE DEF base, left, right
    <3>5. f = h BY <3>4
    <3> QED BY <3>1, <3>2, <3>5
  <2>2. \A k \in 1 .. n : part[k] \in Seq(M) BY <1>5 DEF Meet
  <2> HIDE DEF part
  <2>3. \E g : g = Joins(n, part, g) BY <1>1, <2>2, Joining
  <2>4. shown = CHOOSE g : g = Of(g) OBVIOUS
  <2> HIDE DEF shown, Of
  <2>5. \E g : g = Of(g) BY <2>1, <2>3
  <2>6. shown = Of(shown)
    <3>1. PICK g : g = Of(g) BY <2>5
    <3> QED BY <2>4, <3>1
  <2> QED BY <2>1, <2>6
<1> HIDE DEF shown, part, end
<1>7. shown[n] = list
  <2>1. Same(shown[n], M, list) BY <1>1, <1>5, <1>6, Gathered
  <2>2. shown[n] \in Seq(M) /\ Len(shown[n]) = Len(list)
        /\ \A i \in 1 .. Len(list) : shown[n][i] = list[i]
    BY <2>1 DEF Same
  <2> QED BY <1>1, <2>2, SeqEqual
<1> QED BY <1>1, <1>2, <1>4, <1>7 DEF all, page, shown, list, M

\* An inspector that holds every row of its cell counts the articles and the
\* outlets of the attention rows.
LEMMA DetailCounts ==
  ASSUME NEW E, Table(E), NEW c, NEW w, Cardinality(InCell(E, c, w)) <= MaxDetailRows
  PROVE  LET att == {e \in InCell(E, c, w) : e.kind = "news_attention"}
         IN  /\ RegionDetail(E, c, w).articles = Volume(att)
             /\ RegionDetail(E, c, w).outlets = UNION {e.outlets : e \in att}
<1> DEFINE S == InCell(E, c, w)
           read == DetailRows(E, c, w)
           of == {read[i] : i \in DOMAIN read}
           shown == {e \in of : CountsAsArticles(e.family)}
           att == {e \in S : e.kind = "news_attention"}
<1>1. S \in SUBSET E /\ Table(S) BY SubTable DEF InCell, In
<1>2. of = S
  <2>1. read = Take(LoudestFirst(S), MaxDetailRows) BY DEF DetailRows, LoudestFirst
  <2>2. Sorts(LoudestFirst(S), S, Louder(S)) BY <1>1, LoudestSorts
  <2> HIDE DEF read, S
  <2>3. of = {x \in S : Cardinality(Below(S, Louder(S), x)) < MaxDetailRows}
    BY <2>1, <2>2, TakingSorted, ReadsAssumption
  <2>4. ASSUME NEW x \in S PROVE Cardinality(Below(S, Louder(S), x)) < MaxDetailRows
    <3>1. PICK i \in 1 .. Len(LoudestFirst(S)) : LoudestFirst(S)[i] = x BY <2>2 DEF Sorts
    <3>2. Cardinality(Below(S, Louder(S), x)) = i - 1 /\ Len(LoudestFirst(S)) = Cardinality(S)
          /\ Len(LoudestFirst(S)) \in Nat
      BY <2>2, <3>1 DEF Sorts
    <3>3. Cardinality(S) <= MaxDetailRows BY DEF S
    <3> QED BY <3>1, <3>2, <3>3, ReadsAssumption
  <2> QED BY <2>3, <2>4
<1> HIDE DEF read, S, of
<1>3. shown = att
  <2>1. \A e \in S : CountsAsArticles(e.family) <=> e.kind = "news_attention"
    BY <1>1, KindsApart DEF Table, CountsAsArticles, EntersAttention
  <2> QED BY <1>2, <2>1
<1>4. RegionDetail(E, c, w).articles = Volume(shown)
  BY DEF RegionDetail, Volume, read, of
<1>5. RegionDetail(E, c, w).outlets = UNION {e.outlets : e \in shown}
  BY DEF RegionDetail, read, of
<1> HIDE DEF shown, att
<1> QED BY <1>3, <1>4, <1>5 DEF att, S

\* The histogram counts every row once.
LEMMA HistogramAdds ==
  ASSUME NEW E, Table(E)
  PROVE  SumOf([p \in TimelineHistogram(E) |-> p.count]) = Cardinality(E)
<1> DEFINE n(b, m, k) == Cardinality({x \in E : BucketStart(x.ts) = b /\ x.family = m /\ x.kind = k})
           f == [e \in E |-> [bucket |-> BucketStart(e.ts), family |-> e.family, kind |-> e.kind,
                              count |-> n(BucketStart(e.ts), e.family, e.kind)]]
           g == [p \in TimelineHistogram(E) |-> p.count]
<1>1. TimelineHistogram(E) = {f[e] : e \in E} BY DEF TimelineHistogram
<1>2. \A e \in E : /\ f[e].bucket = BucketStart(e.ts) /\ f[e].family = e.family
                   /\ f[e].kind = e.kind
                   /\ f[e].count = n(BucketStart(e.ts), e.family, e.kind)
  OBVIOUS
<1>3. \A d, e \in E : /\ BucketStart(d.ts) = BucketStart(e.ts) /\ d.family = e.family
                      /\ d.kind = e.kind
                      => f[d] = f[e]
  OBVIOUS
<1> HIDE DEF f
<1>4. ASSUME NEW k \in DOMAIN g PROVE g[k] = Cardinality({e \in E : f[e] = k})
  <2>1. PICK e \in E : k = f[e] BY <1>1
  <2>2. {x \in E : BucketStart(x.ts) = BucketStart(e.ts) /\ x.family = e.family /\ x.kind = e.kind}
          = {x \in E : f[x] = k}
    BY <1>2, <1>3, <2>1
  <2>3. g[k] = n(BucketStart(e.ts), e.family, e.kind) BY <1>2, <2>1
  <2> QED BY <2>2, <2>3
<1>5. DOMAIN g = {f[e] : e \in E} BY <1>1
<1> HIDE DEF g
<1>6. SumOf(g) = Cardinality(E) BY <1>4, <1>5, PartsAddUp DEF Table
<1> QED BY <1>6 DEF g

\* Alerts are listed by the severest, the most, the first cell; a list has a
\* cell once.
Grave(a, b) ==
  \/ a.severity > b.severity
  \/ a.severity = b.severity /\ a.alerts > b.alerts
  \/ a.severity = b.severity /\ a.alerts = b.alerts /\ a.cell < b.cell
Graver(S) == {p \in S \X S : Grave(p[1], p[2])}

LEMMA AlertsAdd ==
  ASSUME NEW E, Table(E), NEW w
  PROVE  SumOf([a \in Range(AlertCells(E, w)) |-> a.alerts])
           = Cardinality({e \in In(E, w) : e.family = "official_alert"})
<1> DEFINE N == {e \in In(E, w) : e.source = "noaa"}
           at(c) == {e \in InCell(E, c, w) : e.source = "noaa"}
           of(c) == [cell |-> c, severity |-> Largest({Clamp(e.sev, 0, 100) : e \in at(c)}),
                     alerts |-> Cardinality(at(c))]
           C == {x \in {e.cell : e \in In(E, w)} : at(x) # {}}
           O == {of(c) : c \in C}
           list == AlertCells(E, w)
<1>1. N \in SUBSET E /\ IsFiniteSet(N) BY FS_Subset DEF Table, In
<1>2. N = {e \in In(E, w) : e.family = "official_alert"}
  BY KindsApart DEF Table, In
<1>3. \A c : at(c) = {e \in N : e.cell = c} BY DEF InCell
<1>4. C = {e.cell : e \in N} BY <1>3
<1>5. \A c : of(c).cell = c /\ of(c).alerts = Cardinality(at(c))
             /\ of(c).severity = Largest({Clamp(e.sev, 0, 100) : e \in at(c)})
  OBVIOUS
<1> DEFINE R == Graver(O)
           rank == [x \in O |-> Cardinality({y \in O : Grave(y, x)})]
<1>6. list = [i \in 1 .. Cardinality(O) |-> CHOOSE x \in O : rank[x] = i - 1]
  BY DEF AlertCells, Ordered, Grave
<1>7. \A x, y : <<x, y>> \in R <=> x \in O /\ y \in O /\ Grave(x, y)
  BY DEF Graver
<1>8. \A x \in O : rank[x] = Cardinality({y \in O : Grave(y, x)}) OBVIOUS
<1> HIDE DEF rank, list
<1> DEFINE f == [e \in N |-> of(e.cell)]
<1>9. O = {f[e] : e \in N}
  <2>1. \A e \in N : f[e] = of(e.cell) OBVIOUS
  <2> HIDE DEF of, N, f, C
  <2> QED BY <1>4, <2>1
<1>10. \A e \in N : f[e] = of(e.cell) OBVIOUS
<1>11. IsFiniteSet(O)
  <2> HIDE DEF O, f, N, C
  <2> QED BY <1>1, <1>9, Images
<1>12. \A x \in O : \E c \in C : x = of(c) OBVIOUS
<1> HIDE DEF R, O, f, of
<1>13. \A x \in O : x.cell \in Nat /\ x.alerts \in Nat /\ x.severity \in Int
  <2>1. SUFFICES ASSUME NEW x \in O PROVE x.cell \in Nat /\ x.alerts \in Nat /\ x.severity \in Int
    OBVIOUS
  <2>2. PICK e \in N : x = of(e.cell) BY <1>4, <1>12
  <2>3. /\ e.cell \in Nat /\ e \in at(e.cell) /\ IsFiniteSet(at(e.cell))
        /\ \A y \in at(e.cell) : y.sev \in Int
    <3>1. at(e.cell) = {y \in N : y.cell = e.cell} BY <1>3
    <3>2. at(e.cell) \in SUBSET N /\ e \in at(e.cell) BY <3>1
    <3> HIDE DEF at
    <3>3. IsFiniteSet(at(e.cell)) BY <1>1, <3>2, FS_Subset
    <3> HIDE DEF N
    <3> QED BY <1>1, <3>2, <3>3 DEF Table, Row
  <2> DEFINE T == at(e.cell)
             h == [y \in T |-> Clamp(y.sev, 0, 100)]
             V == {h[y] : y \in T}
  <2>4. {Clamp(y.sev, 0, 100) : y \in T} = V OBVIOUS
  <2>5. \A y \in T : h[y] \in Int BY <2>3 DEF Clamp
  <2> HIDE DEF h
  <2>6. V \in SUBSET Int /\ V # {} BY <2>3, <2>5
  <2>7. IsFiniteSet(V) BY <2>3, Images
  <2> HIDE DEF V
  <2>8. Largest(V) \in V BY <2>6, <2>7, LargestOf DEF Largest
  <2>9. Cardinality(T) \in Nat BY <2>3, FS_CardinalityType
  <2> HIDE DEF T
  <2> QED BY <1>5, <2>2, <2>3, <2>4, <2>6, <2>8, <2>9 DEF T
<1>14. \A x, y \in O : x.cell = y.cell => x = y BY <1>5, <1>12
<1>15. Orders(R, O)
  <2>1. \A x \in O : <<x, x>> \notin R BY <1>7, <1>13 DEF Grave
  <2>2. \A x, y, z \in O : <<x, y>> \in R /\ <<y, z>> \in R => <<x, z>> \in R BY <1>7, <1>13 DEF Grave
  <2>3. \A x, y \in O : x # y => <<x, y>> \in R \/ <<y, x>> \in R BY <1>7, <1>13, <1>14 DEF Grave
  <2> QED BY <2>1, <2>2, <2>3 DEF Orders
<1>16. ASSUME NEW x \in O PROVE rank[x] = Cardinality(Below(O, R, x))
  <2>1. {y \in O : Grave(y, x)} = Below(O, R, x) BY <1>7 DEF Below
  <2> QED BY <1>8, <2>1
<1>17. Sorts(list, O, R) BY <1>6, <1>11, <1>15, <1>16, Sorting
<1>18. Range(list) = O
  <2>1. list \in [1 .. Len(list) -> O] /\ \A x \in O : \E i \in 1 .. Len(list) : list[i] = x
    BY <1>17, LenProperties DEF Sorts
  <2> QED BY <2>1 DEF Range
<1> DEFINE g == [a \in O |-> a.alerts]
<1>19. ASSUME NEW k \in O PROVE g[k] = Cardinality({e \in N : f[e] = k})
  <2>1. PICK c \in C : k = of(c) BY <1>12
  <2>2. {e \in N : e.cell = c} = {e \in N : f[e] = k} BY <1>5, <1>10, <2>1
  <2>3. g[k] = Cardinality(at(c)) BY <1>5, <2>1
  <2> QED BY <1>3, <2>2, <2>3
<1> HIDE DEF N
<1>20. DOMAIN g = {f[e] : e \in N} BY <1>9
<1> HIDE DEF g
<1>21. \A k \in DOMAIN g : g[k] = Cardinality({e \in N : f[e] = k}) BY <1>19 DEF g
<1>22. SumOf(g) = Cardinality(N) BY <1>1, <1>20, <1>21, PartsAddUp
<1> QED BY <1>2, <1>18, <1>22 DEF g, list, N

\* The rows of a day.
LEMMA DayOf ==
  ASSUME NEW E, Table(E), NEW d \in Nat, NEW e \in E
  PROVE  e \in In(E, DayWindow(d)) <=> e.ts \div 24 = d
<1>1. e.ts \in Nat BY DEF Table, Row
<1>2. 24 * d <= e.ts /\ e.ts < 24 * (d + 1) <=> e.ts \div 24 = d BY <1>1
<1> QED BY <1>2 DEF In, InWindow, DayWindow

\* A day's halves are its rows that enter a digest.
LEMMA HalvesAdd ==
  ASSUME NEW E, Table(E), NEW d \in Nat
  PROVE  LET today == {e \in E : e.ts \div 24 = d}
         IN  Cardinality(AttentionOf(E, d)) + Cardinality(EventsOf(E, d))
               = Cardinality({e \in today : InDigest(e.family)})
<1> DEFINE A == AttentionOf(E, d)
           B == EventsOf(E, d)
           all == {e \in {e \in E : e.ts \div 24 = d} : InDigest(e.family)}
<1>1. A \in SUBSET E /\ B \in SUBSET E BY DEF AttentionOf, EventsOf, EventHalf, In
<1>2. A \cup B = all /\ A \cap B = {}
  <2>1. \A e \in E : e \in In(E, DayWindow(d)) <=> e.ts \div 24 = d BY DayOf
  <2>2. In(E, DayWindow(d)) \in SUBSET E BY DEF In
  <2> QED BY <2>1, <2>2 DEF AttentionOf, EventsOf, EventHalf, InDigest
<1> HIDE DEF A, B, all
<1>3. /\ IsFiniteSet(A) /\ IsFiniteSet(B)
      /\ Cardinality(A) \in Nat /\ Cardinality(B) \in Nat
  BY <1>1, FS_Subset, FS_CardinalityType DEF Table
<1>4. Cardinality(A \cup B) = Cardinality(A) + Cardinality(B) - Cardinality({})
  BY <1>2, <1>3, FS_Union
<1>5. Cardinality(A \cup B) = Cardinality(A) + Cardinality(B) BY <1>3, <1>4, FS_EmptySet
<1> QED BY <1>2, <1>5 DEF A, B, all

\* The kinds and the sources of a day's events each add up to it.
LEMMA EventsAdd ==
  ASSUME NEW E, Table(E), NEW d
  PROVE  LET facts == DigestEvents(E, d)
         IN  /\ facts.records = Cardinality(EventsOf(E, d))
             /\ SumOf(facts.byKind) = facts.records /\ SumOf(facts.bySource) = facts.records
<1> DEFINE S == EventsOf(E, d)
           facts == DigestEvents(E, d)
           kind == [e \in S |-> e.kind]
           source == [e \in S |-> e.source]
           byKind == [k \in {e.kind : e \in S} |-> Cardinality({e \in S : e.kind = k})]
           bySource == [s \in {e.source : e \in S} |-> Cardinality({e \in S : e.source = s})]
<1>1. IsFiniteSet(S)
  <2>1. S \in SUBSET E BY DEF EventsOf, EventHalf, In
  <2> QED BY <2>1, FS_Subset DEF Table
<1>2. facts.records = Cardinality(S) /\ facts.byKind = byKind /\ facts.bySource = bySource
  BY DEF DigestEvents
<1> HIDE DEF facts, S
<1>3. DOMAIN byKind = {kind[e] : e \in S}
      /\ \A k \in DOMAIN byKind : byKind[k] = Cardinality({e \in S : kind[e] = k})
  <2>1. \A e \in S : kind[e] = e.kind OBVIOUS
  <2>2. \A k : {e \in S : kind[e] = k} = {e \in S : e.kind = k} BY <2>1
  <2>3. {kind[e] : e \in S} = {e.kind : e \in S} BY <2>1
  <2> HIDE DEF kind
  <2> QED BY <2>2, <2>3
<1>4. DOMAIN bySource = {source[e] : e \in S}
      /\ \A s \in DOMAIN bySource : bySource[s] = Cardinality({e \in S : source[e] = s})
  <2>1. \A e \in S : source[e] = e.source OBVIOUS
  <2>2. \A s : {e \in S : source[e] = s} = {e \in S : e.source = s} BY <2>1
  <2>3. {source[e] : e \in S} = {e.source : e \in S} BY <2>1
  <2> HIDE DEF source
  <2> QED BY <2>2, <2>3
<1> HIDE DEF kind, source, byKind, bySource
<1>5. SumOf(byKind) = Cardinality(S) BY <1>1, <1>3, PartsAddUp
<1>6. SumOf(bySource) = Cardinality(S) BY <1>1, <1>4, PartsAddUp
<1> QED BY <1>2, <1>5, <1>6 DEF facts, S

\* The pager has every day that has a row, with both halves' counts.
DayRow(E, d) ==
  [day |-> d, attention |-> Cardinality(AttentionOf(E, d)), events |-> Cardinality(EventsOf(E, d))]
Later(S) == {p \in S \X S : p[1].day > p[2].day}

LEMMA DayListed ==
  ASSUME NEW E, Table(E), NEW d \in {e.ts \div 24 : e \in E}
  PROVE  DayRow(E, d) \in Range(DigestDays(E, Cardinality({e.ts \div 24 : e \in E})))
<1> DEFINE T == {e.ts \div 24 : e \in E}
           n == Cardinality(T)
           day == [e \in E |-> e.ts \div 24]
           f == [x \in T |-> DayRow(E, x)]
           D == {[day |-> e.ts \div 24,
                  attention |-> Cardinality(AttentionOf(E, e.ts \div 24)),
                  events |-> Cardinality(EventsOf(E, e.ts \div 24))] : e \in E}
           R == Later(D)
           rank == [x \in D |-> Cardinality({y \in D : y.day > x.day})]
           list == [i \in 1 .. Cardinality(D) |-> CHOOSE x \in D : rank[x] = i - 1]
<1>1. IsFiniteSet(T) /\ T \subseteq Nat
  <2>1. T = {day[e] : e \in E} OBVIOUS
  <2>2. T \subseteq Nat BY DEF Table, Row
  <2> HIDE DEF day, T
  <2> QED BY <2>1, <2>2, Images DEF Table
<1>2. DigestDays(E, n) = Take(list, n) BY DEF DigestDays, Ordered
<1>3. \A x \in T : f[x] = DayRow(E, x) OBVIOUS
<1>4. \A x \in T : f[x].day = x BY <1>3 DEF DayRow
<1>5. d \in T /\ D = {f[x] : x \in T}
  <2>1. D = {DayRow(E, e.ts \div 24) : e \in E} BY DEF DayRow
  <2> HIDE DEF D
  <2> QED BY <1>3, <2>1
<1>6. \A x, y : <<x, y>> \in R <=> x \in D /\ y \in D /\ x.day > y.day BY DEF Later
<1>7. \A x \in D : rank[x] = Cardinality({y \in D : y.day > x.day}) OBVIOUS
<1>8. f[d] \in D /\ \A x \in D : \E t \in T : x = f[t] BY <1>5
<1> HIDE DEF T, f, rank, R
<1>9. IsFiniteSet(D) /\ Cardinality(D) \in Nat /\ Cardinality(D) <= n /\ n \in Nat
  <2>1. f \in Surjection(T, D) BY <1>5, <1>8 DEF Surjection, f
  <2> HIDE DEF D
  <2>2. IsFiniteSet(D) /\ Cardinality(D) <= Cardinality(T) BY <1>1, <2>1, FS_Surjection
  <2> QED BY <1>1, <2>2, FS_CardinalityType
<1> HIDE DEF D, n, list
<1>10. \A x \in D : x.day \in Nat BY <1>1, <1>4, <1>8
<1>11. \A x, y \in D : x.day = y.day => x = y BY <1>4, <1>8
<1>12. Orders(R, D)
  <2>1. \A x \in D : <<x, x>> \notin R BY <1>6, <1>10
  <2>2. \A x, y, z \in D : <<x, y>> \in R /\ <<y, z>> \in R => <<x, z>> \in R BY <1>6, <1>10
  <2>3. \A x, y \in D : x # y => <<x, y>> \in R \/ <<y, x>> \in R BY <1>6, <1>10, <1>11
  <2> QED BY <2>1, <2>2, <2>3 DEF Orders
<1>13. ASSUME NEW x \in D PROVE rank[x] = Cardinality(Below(D, R, x))
  <2>1. {y \in D : y.day > x.day} = Below(D, R, x) BY <1>6 DEF Below
  <2> QED BY <1>7, <2>1
<1>14. Sorts(list, D, R) BY <1>9, <1>12, <1>13, Sorting DEF list
<1>15. PICK i \in 1 .. Len(list) : list[i] = f[d] BY <1>8, <1>14 DEF Sorts
<1>16. /\ list \in Seq(D) /\ Len(list) \in Nat /\ Len(list) <= n BY <1>9, <1>14 DEF Sorts
<1>17. /\ DOMAIN Take(list, n) = 1 .. Len(list)
       /\ \A k \in 1 .. Len(list) : Take(list, n)[k] = list[k]
  <2>1. /\ DOMAIN Take(list, n) = 1 .. Len(Take(list, n))
        /\ Len(Take(list, n)) = IF n < Len(list) THEN n ELSE Len(list)
        /\ \A k \in 1 .. Len(Take(list, n)) : Take(list, n)[k] = list[k]
    BY <1>9, <1>16, Taking
  <2>2. Len(Take(list, n)) = Len(list) BY <1>9, <1>16, <2>1
  <2> QED BY <2>1, <2>2
<1>18. f[d] \in Range(Take(list, n)) BY <1>15, <1>17 DEF Range
<1> QED BY <1>2, <1>3, <1>5, <1>18 DEF n, T

\* Posts are not articles and alerts are not coverage: for every window, cap and
\* limit, and whatever the providers answered, the pages of a ledger join to the
\* whole of it, an inspector that holds all of its cell counts the articles of
\* attention alone, a ledger holds no attention and no chatter, the halves of a
\* day and their parts add up to its rows, and the histogram and the alert layer
\* add up to the rows they are of (do_region_detail, do_region_events, digest_*).
THEOREM CountsStayApart == Spec => []CountsApart
<1>1. IInv => CountsApart
  <2> SUFFICES ASSUME IInv PROVE CountsApart
    OBVIOUS
  <2>1. Table(rows) BY DEF IInv
  <2>2. ASSUME NEW w \in Windows, NEW c \in Cells, NEW limit \in 1 .. 2
        PROVE  LET all == RegionEvents(rows, c, w, 0, Cardinality(rows))
                   page(k) == RegionEvents(rows, c, w, k * limit, limit).rows
                   shown[k \in 0 .. all.total] ==
                     IF k = 0 THEN <<>> ELSE shown[k - 1] \o page(k - 1)
               IN  shown[all.total] = all.rows /\ Len(all.rows) = all.total
    <3>1. limit \in Nat \ {0} OBVIOUS
    <3> QED BY <2>1, <3>1, LedgerWhole
  <2>3. ASSUME NEW w \in Windows, NEW c \in Cells
        PROVE  LET detail == RegionDetail(rows, c, w)
                   ledger == RegionEvents(rows, c, w, 0, Cardinality(rows)).rows
                   att == {e \in rows : e.cell = c /\ InWindow(w, e.ts) /\ e.kind = "news_attention"}
               IN  /\ Cardinality(InCell(rows, c, w)) <= MaxDetailRows =>
                        /\ detail.articles = Volume(att)
                        /\ detail.outlets = UNION {e.outlets : e \in att}
                   /\ \A i \in DOMAIN ledger : ledger[i].kind \notin {"news_attention", "chatter"}
    <3> DEFINE att == {e \in rows : e.cell = c /\ InWindow(w, e.ts) /\ e.kind = "news_attention"}
               own == {e \in InCell(rows, c, w) : e.kind = "news_attention"}
               ledger == RegionEvents(rows, c, w, 0, Cardinality(rows)).rows
               M == Ledger(rows, c, w)
    <3>1. att = own BY DEF InCell, In
    <3> HIDE DEF att
    <3>2. Cardinality(InCell(rows, c, w)) <= MaxDetailRows =>
            /\ RegionDetail(rows, c, w).articles = Volume(own)
            /\ RegionDetail(rows, c, w).outlets = UNION {e.outlets : e \in own}
      BY <2>1, DetailCounts
    <3> HIDE DEF own
    <3>3. ledger = Ordered(M, Newer)
      <4>1. 1 \in Nat \ {0} OBVIOUS
      <4> QED BY <2>1, <4>1, LedgerWhole
    <3> HIDE DEF ledger
    <3>4. \A i \in DOMAIN ledger : ledger[i] \in M /\ M \in SUBSET rows
      <4>1. /\ M \in SUBSET rows /\ Ordered(M, Newer) \in Seq(M)
            /\ DOMAIN Ordered(M, Newer) = 1 .. Len(Ordered(M, Newer))
        BY <2>1, LedgerSorts, LenProperties DEF Sorts
      <4>2. Ordered(M, Newer) \in [1 .. Len(Ordered(M, Newer)) -> M] BY <4>1, LenProperties
      <4> QED BY <3>3, <4>1, <4>2
    <3>5. \A e \in M : e.family \in {"recorded_event", "official_alert"} BY DEF Ledger, EventHalf
    <3> HIDE DEF M
    <3>6. \A i \in DOMAIN ledger : ledger[i].kind \notin {"news_attention", "chatter"}
      BY <2>1, <3>4, <3>5, KindsApart DEF Table
    <3> QED BY <3>1, <3>2, <3>6 DEF att, ledger
  <2>4. ASSUME NEW d \in Days
        PROVE  LET facts == DigestFacts(rows, d)
                   today == {e \in rows : e.ts \div 24 = d}
                   listed == DigestDays(rows, Cardinality(Days))
               IN  /\ [day |-> d, attention |-> facts.attention.records,
                       events |-> facts.events.records] \in Range(listed)
                   /\ SumOf(facts.events.byKind) = facts.events.records
                   /\ SumOf(facts.events.bySource) = facts.events.records
                   /\ facts.attention.records + facts.events.records
                        = Cardinality({e \in today : InDigest(e.family)})
    <3> DEFINE facts == DigestFacts(rows, d)
               today == {e \in rows : e.ts \div 24 = d}
               listed == DigestDays(rows, Cardinality(Days))
    <3>1. d \in Nat BY <2>1 DEF Days, Table, Row
    <3>2. facts.events = DigestEvents(rows, d)
          /\ facts.attention.records = Cardinality(AttentionOf(rows, d))
      BY DEF DigestFacts, DigestAttention
    <3> HIDE DEF facts
    <3>3. /\ facts.events.records = Cardinality(EventsOf(rows, d))
          /\ SumOf(facts.events.byKind) = facts.events.records
          /\ SumOf(facts.events.bySource) = facts.events.records
      BY <2>1, <3>2, EventsAdd
    <3>4. DayRow(rows, d) \in Range(listed) BY <2>1, DayListed DEF Days
    <3>5. DayRow(rows, d) = [day |-> d, attention |-> facts.attention.records,
                             events |-> facts.events.records]
      BY <3>2, <3>3 DEF DayRow
    <3>6. facts.attention.records + facts.events.records
            = Cardinality({e \in today : InDigest(e.family)})
      BY <2>1, <3>1, <3>2, <3>3, HalvesAdd
    <3> HIDE DEF listed, today
    <3> QED BY <3>3, <3>4, <3>5, <3>6 DEF facts, listed, today
  <2>5. SumOf([p \in TimelineHistogram(rows) |-> p.count]) = Cardinality(rows)
    BY <2>1, HistogramAdds
  <2>6. ASSUME NEW w \in Windows
        PROVE  SumOf([a \in Range(AlertCells(rows, w)) |-> a.alerts])
                 = Cardinality({e \in In(rows, w) : e.family = "official_alert"})
    BY <2>1, AlertsAdd
  <2> QED BY <2>2, <2>3, <2>4, <2>5, <2>6 DEF CountsApart
<1> QED BY <1>1, KeptRows, PTL

-----------------------------------------------------------------------------
(***************************************************************************)
(* Chatter: what is pending or drained was read, and what is stored posted.*)
(***************************************************************************)
\* How far a feed has been read.
Seen(f) == IF f = Firehose THEN cursor ELSE mark[f]

\* The posts of a window, and those of them that have been read.
PostsIn(k) == {p \in Posted : Counts(p[1], p[2], k)}
ReadOf(k) == {p \in PostsIn(k) : p[2] <= Seen(p[1])}

Counters == [Key -> Nat]

ChatterTypeOK ==
  /\ clock \in 0 .. MaxTime
  /\ posts \in [Feed -> Seq([ts : 0 .. MaxTime, hit : BOOLEAN])]
  /\ turn \in Nat \ {0} /\ (pc = "sweep" => turn <= Len(Channels))
  /\ mark \in [DOMAIN ClassOfChannel -> Nat] /\ cursor \in Nat
  /\ counts \in Counters /\ batch \in Counters /\ stored \in Counters

\* Nothing is marked as read that was not posted.
Behind == \A f \in Feed : Seen(f) <= Len(posts[f])

\* What is counted has been read, each post once.
CountedOnce ==
  \A k \in Key : /\ counts[k] + batch[k] <= Cardinality(ReadOf(k))
                 /\ stored[k] <= Cardinality(PostsIn(k))

ChatterIInv == ChatterTypeOK /\ Behind /\ CountedOnce

-----------------------------------------------------------------------------
\* Feeds, and with them the posts there are, are finitely many.
LEMMA FeedFinite == IsFiniteSet(Feed)
<1> DEFINE n == Len(Channels)
           g == [i \in 1 .. n |-> Channels[i]]
<1>1. n \in Nat /\ DOMAIN Channels = 1 .. n BY ChatterAssumption
<1>2. IsFiniteSet(1 .. n) BY <1>1, FS_Interval
<1>3. g \in Surjection(1 .. n, DOMAIN ClassOfChannel)
  <2>1. DOMAIN ClassOfChannel = {Channels[i] : i \in 1 .. n} BY <1>1, ChatterAssumption
  <2>2. g \in [1 .. n -> DOMAIN ClassOfChannel] BY <2>1
  <2>3. \A c \in DOMAIN ClassOfChannel : \E i \in 1 .. n : g[i] = c BY <2>1
  <2> QED BY <2>2, <2>3 DEF Surjection
<1>4. IsFiniteSet(DOMAIN ClassOfChannel) BY <1>2, <1>3, FS_Surjection
<1> QED BY <1>4, FS_AddElement DEF Feed

\* The posts there are.
LEMMA PostedFinite ==
  ASSUME ChatterTypeOK
  PROVE  /\ IsFiniteSet(Posted)
         /\ \A p : p \in Posted <=> \E f \in Feed : \E i \in 1 .. Len(posts[f]) : p = <<f, i>>
<1>1. \A f \in Feed : DOMAIN posts[f] = 1 .. Len(posts[f]) /\ Len(posts[f]) \in Nat BY DEF ChatterTypeOK
<1> DEFINE T == {{f} \X DOMAIN posts[f] : f \in Feed}
<1>2. IsFiniteSet(T)
  <2> DEFINE h == [f \in Feed |-> {f} \X DOMAIN posts[f]]
  <2>1. h \in Surjection(Feed, T)
    <3>1. h \in [Feed -> T] OBVIOUS
    <3>2. \A x \in T : \E f \in Feed : h[f] = x OBVIOUS
    <3> QED BY <3>1, <3>2 DEF Surjection
  <2> QED BY <2>1, FeedFinite, FS_Surjection
<1>3. ASSUME NEW x \in T PROVE IsFiniteSet(x)
  <2>1. PICK f \in Feed : x = {f} \X DOMAIN posts[f] OBVIOUS
  <2>2. IsFiniteSet(1 .. Len(posts[f])) BY <1>1, FS_Interval
  <2>3. IsFiniteSet({f}) BY FS_Singleton
  <2>4. IsFiniteSet({f} \X (1 .. Len(posts[f]))) BY <2>2, <2>3, FS_Product
  <2> QED BY <1>1, <2>1, <2>4
<1>4. IsFiniteSet(UNION T) BY <1>2, <1>3, FS_UNION
<1>5. Posted = UNION T BY DEF Posted
<1>6. \A p : p \in Posted <=> \E f \in Feed : \E i \in 1 .. Len(posts[f]) : p = <<f, i>>
  BY <1>1 DEF Posted
<1> QED BY <1>4, <1>5, <1>6

\* The sets that are counted are finite, the read posts among all of them.
LEMMA OfFinite ==
  ASSUME ChatterTypeOK, NEW k
  PROVE  /\ IsFiniteSet(PostsIn(k)) /\ IsFiniteSet(ReadOf(k)) /\ ReadOf(k) \subseteq PostsIn(k)
         /\ Cardinality(PostsIn(k)) \in Nat /\ Cardinality(ReadOf(k)) \in Nat
         /\ Cardinality(ReadOf(k)) <= Cardinality(PostsIn(k))
<1>1. IsFiniteSet(Posted) BY PostedFinite
<1>2. PostsIn(k) \in SUBSET Posted /\ ReadOf(k) \in SUBSET PostsIn(k) BY DEF PostsIn, ReadOf
<1>3. IsFiniteSet(PostsIn(k)) BY <1>1, <1>2, FS_Subset
<1>4. IsFiniteSet(ReadOf(k)) /\ Cardinality(ReadOf(k)) <= Cardinality(PostsIn(k))
  BY <1>2, <1>3, FS_Subset
<1> QED BY <1>2, <1>3, <1>4, FS_CardinalityType

\* Places of one feed that are in A and not in B make A larger by as many.
LEMMA CountedApart ==
  ASSUME NEW A, IsFiniteSet(A), NEW B \in SUBSET A, NEW f, NEW I,
         \A i \in I : <<f, i>> \in A \ B
  PROVE  Cardinality(I) \in Nat /\ Cardinality(B) + Cardinality(I) <= Cardinality(A)
<1>1. IsFiniteSet(B) /\ IsFiniteSet(A \ B) /\ A \cap B = B
  <2>1. IsFiniteSet(B) BY FS_Subset
  <2>2. A \ B \in SUBSET A /\ A \cap B = B OBVIOUS
  <2>3. IsFiniteSet(A \ B) BY <2>2, FS_Subset
  <2> QED BY <2>1, <2>2, <2>3
<1>2. Cardinality(A \ B) = Cardinality(A) - Cardinality(B) BY <1>1, FS_Difference
<1>3. [i \in I |-> <<f, i>>] \in Injection(I, A \ B)
  <2> DEFINE g == [i \in I |-> <<f, i>>]
  <2>1. g \in [I -> A \ B] OBVIOUS
  <2>2. \A i, j \in I : g[i] = g[j] => i = j OBVIOUS
  <2> HIDE DEF g
  <2>3. g \in Injection(I, A \ B) BY <2>1, <2>2 DEF Injection, IsInjective
  <2> QED BY <2>3 DEF g
<1>4. IsFiniteSet(I) /\ Cardinality(I) <= Cardinality(A \ B) BY <1>1, <1>3, FS_Injection
<1>5. Cardinality(I) \in Nat /\ Cardinality(A) \in Nat /\ Cardinality(B) \in Nat
  BY <1>1, <1>4, FS_CardinalityType
<1> QED BY <1>2, <1>4, <1>5

-----------------------------------------------------------------------------
\* Reading on in one feed: what is counted then has not been counted before.
LEMMA ReadOn ==
  ASSUME ChatterIInv, NEW f \in Feed, NEW seen,
         seen \subseteq Seen(f) + 1 .. Len(posts[f]), \A i \in seen : i <= Seen(f)',
         Seen(f) <= Seen(f)', Seen(f)' \in Nat,
         \A g \in Feed : g # f => Seen(g)' = Seen(g),
         counts' = Observed(counts, f, seen), UNCHANGED <<posts, batch, stored>>, ChatterTypeOK'
  PROVE  CountedOnce' /\ counts' \in Counters
<1>1. ASSUME NEW k \in Key
      PROVE  /\ counts'[k] \in Nat /\ counts'[k] + batch'[k] <= Cardinality(ReadOf(k)')
             /\ stored'[k] <= Cardinality(PostsIn(k)')
  <2> DEFINE I == {i \in seen : Counts(f, i, k)}
             A == ReadOf(k)'
             B == ReadOf(k)
  <2>1. PostsIn(k)' = PostsIn(k) /\ \A g, i : Counts(g, i, k)' = Counts(g, i, k)
    BY DEF PostsIn, Posted, Counts
  <2>2. ASSUME NEW p \in PostsIn(k) PROVE p[1] \in Feed /\ p[2] \in Nat /\ Seen(p[1]) \in Nat
    <3>1. PICK g \in Feed : \E i \in 1 .. Len(posts[g]) : p = <<g, i>>
      BY PostedFinite DEF ChatterIInv, PostsIn
    <3>2. p[1] = g /\ p[2] \in Nat BY <3>1 DEF ChatterIInv, ChatterTypeOK
    <3>3. Seen(g) \in Nat BY DEF Seen, ChatterIInv, ChatterTypeOK, Feed
    <3> QED BY <3>2, <3>3
  <2>3. B \subseteq A
    <3>1. ASSUME NEW p \in B PROVE p \in A
      <4>1. p \in PostsIn(k) /\ p[2] <= Seen(p[1]) BY DEF ReadOf
      <4>2. p[2] <= Seen(p[1])'
        <5>1. CASE p[1] = f BY <2>2, <4>1, <5>1
        <5>2. CASE p[1] # f BY <2>2, <4>1, <5>2
        <5> QED BY <5>1, <5>2
      <4> QED BY <2>1, <4>1, <4>2 DEF ReadOf
    <3> QED BY <3>1
  <2>4. ASSUME NEW i \in I PROVE <<f, i>> \in A \ B
    <3>1. i \in Seen(f) + 1 .. Len(posts[f]) /\ i <= Seen(f)' /\ Counts(f, i, k) OBVIOUS
    <3>2. Seen(f) \in Nat /\ Len(posts[f]) \in Nat BY DEF Seen, ChatterIInv, ChatterTypeOK, Feed
    <3>3. i \in 1 .. Len(posts[f]) /\ ~ (i <= Seen(f)) BY <3>1, <3>2
    <3>4. <<f, i>> \in Posted BY <3>3, PostedFinite DEF ChatterIInv
    <3>5. <<f, i>> \in PostsIn(k) BY <3>1, <3>4 DEF PostsIn
    <3> QED BY <2>1, <3>1, <3>3, <3>5 DEF ReadOf
  <2>5. IsFiniteSet(A) /\ Cardinality(A) \in Nat /\ Cardinality(B) \in Nat
    <3>1. IsFiniteSet(B) /\ Cardinality(B) \in Nat /\ IsFiniteSet(PostsIn(k)) BY OfFinite DEF ChatterIInv
    <3>2. A \in SUBSET PostsIn(k) BY <2>1 DEF ReadOf
    <3> QED BY <3>1, <3>2, FS_Subset, FS_CardinalityType
  <2> HIDE DEF A, B
  <2>6. Cardinality(I) \in Nat /\ Cardinality(B) + Cardinality(I) <= Cardinality(A)
    BY <2>3, <2>4, <2>5, CountedApart
  <2>7. counts'[k] = counts[k] + Cardinality(I) BY DEF Observed
  <2>8. counts[k] + batch[k] <= Cardinality(B) /\ counts[k] \in Nat /\ batch[k] \in Nat
    BY DEF ChatterIInv, CountedOnce, ChatterTypeOK, Counters, B
  <2>9. stored'[k] <= Cardinality(PostsIn(k)') BY <2>1 DEF ChatterIInv, CountedOnce
  <2> QED BY <2>5, <2>6, <2>7, <2>8, <2>9 DEF A
<1>2. counts' = [k \in Key |-> counts'[k]] BY DEF Observed
<1> QED BY <1>1, <1>2 DEF CountedOnce, Counters
-----------------------------------------------------------------------------
\* A step that counts and posts nothing, and forgets or drops at most what it held.
LEMMA CountsNoMore ==
  ASSUME ChatterIInv, posts' = posts, Behind', ChatterTypeOK',
         (\A f \in Feed : Seen(f) <= Seen(f)') \/ (counts' = Empty /\ batch' = Empty),
         \A k \in Key : counts'[k] + batch'[k] <= counts[k] + batch[k],
         \A k \in Key : stored'[k] \in {stored[k], batch[k]}
  PROVE  ChatterIInv'
<1>1. ASSUME NEW k \in Key
      PROVE  /\ counts'[k] + batch'[k] <= Cardinality(ReadOf(k)')
             /\ stored'[k] <= Cardinality(PostsIn(k)')
  <2>1. PostsIn(k)' = PostsIn(k) BY DEF PostsIn, Posted, Counts
  <2>2. /\ IsFiniteSet(PostsIn(k)) /\ Cardinality(PostsIn(k)) \in Nat /\ Cardinality(ReadOf(k)) \in Nat
        /\ Cardinality(ReadOf(k)) <= Cardinality(PostsIn(k))
    BY OfFinite DEF ChatterIInv
  <2>3. ReadOf(k)' \in SUBSET PostsIn(k) BY <2>1 DEF ReadOf
  <2>4. IsFiniteSet(ReadOf(k)') /\ Cardinality(ReadOf(k)') \in Nat
    BY <2>2, <2>3, FS_Subset, FS_CardinalityType
  <2>5. /\ counts[k] \in Nat /\ batch[k] \in Nat /\ stored[k] \in Nat
        /\ counts'[k] \in Nat /\ batch'[k] \in Nat
    BY DEF ChatterIInv, ChatterTypeOK, Counters
  <2>6. counts[k] + batch[k] <= Cardinality(ReadOf(k)) /\ stored[k] <= Cardinality(PostsIn(k))
    BY DEF ChatterIInv, CountedOnce
  <2>7. counts'[k] + batch'[k] <= Cardinality(ReadOf(k)')
    <3>1. CASE \A f \in Feed : Seen(f) <= Seen(f)'
      <4>1. ReadOf(k) \subseteq ReadOf(k)'
        <5>1. ASSUME NEW p \in ReadOf(k) PROVE p \in ReadOf(k)'
          <6>1. p \in PostsIn(k) /\ p[2] <= Seen(p[1]) BY DEF ReadOf
          <6>2. PICK g \in Feed : \E i \in 1 .. Len(posts[g]) : p = <<g, i>>
            BY <6>1, PostedFinite DEF ChatterIInv, PostsIn
          <6>3. /\ p[1] = g /\ p[2] \in Nat /\ Seen(g) \in Nat /\ Seen(g)' \in Nat
                /\ Seen(g) <= Seen(g)'
            BY <3>1, <6>2 DEF ChatterIInv, ChatterTypeOK, Seen, Feed
          <6> QED BY <2>1, <6>1, <6>3 DEF ReadOf
        <5> QED BY <5>1
      <4>2. Cardinality(ReadOf(k)) <= Cardinality(ReadOf(k)') BY <2>4, <4>1, FS_Subset
      <4> QED BY <2>2, <2>4, <2>5, <2>6, <4>2
    <3>2. CASE counts' = Empty /\ batch' = Empty
      <4>1. counts'[k] = 0 /\ batch'[k] = 0 BY <3>2 DEF Empty
      <4> QED BY <2>4, <4>1
    <3> QED BY <3>1, <3>2
  <2>8. stored'[k] <= Cardinality(PostsIn(k)') BY <2>1, <2>2, <2>5, <2>6
  <2> QED BY <2>7, <2>8
<1> QED BY <1>1 DEF ChatterIInv, CountedOnce

\* The invariant holds at the start.
LEMMA InitChatterIInv == ChatterInit => ChatterIInv
<1> SUFFICES ASSUME ChatterInit PROVE ChatterIInv
  OBVIOUS
<1>1. ChatterTypeOK
  <2>1. \A f \in Feed : <<>> \in Seq([ts : 0 .. MaxTime, hit : BOOLEAN]) OBVIOUS
  <2>2. 0 \in 0 .. MaxTime BY ChatterAssumption
  <2> QED BY <2>1, <2>2 DEF ChatterInit, ChatterTypeOK, Counters, Empty
<1>2. Behind
  <2>1. \A f \in Feed : Seen(f) = 0 /\ posts[f] = <<>> BY DEF ChatterInit, Seen, Feed
  <2> QED BY <2>1 DEF Behind
<1>3. ASSUME NEW k \in Key
      PROVE  counts[k] + batch[k] <= Cardinality(ReadOf(k)) /\ stored[k] <= Cardinality(PostsIn(k))
  <2>1. counts[k] = 0 /\ batch[k] = 0 /\ stored[k] = 0 BY DEF ChatterInit, Empty
  <2> QED BY <1>1, <2>1, OfFinite
<1> QED BY <1>1, <1>2, <1>3 DEF ChatterIInv, CountedOnce

-----------------------------------------------------------------------------
\* What a read of a channel can deliver lies behind its mark and is read with it.
LEMMA PageFacts ==
  ASSUME ChatterIInv, NEW c \in DOMAIN ClassOfChannel, NEW n \in Nat, n <= Cardinality(SweepPage(c))
  PROVE  /\ Delivered(c, n) \subseteq mark[c] + 1 .. Len(posts[c])
         /\ Advanced(c, n) \in mark[c] .. Len(posts[c])
         /\ \A i \in Delivered(c, n) : i <= Advanced(c, n)
<1>1. /\ mark[c] \in Nat /\ Len(posts[c]) \in Nat /\ mark[c] <= Len(posts[c])
      /\ FirstLimit \in Nat \ {0} /\ CycleLimit \in Nat \ {0}
  <2>1. c \in Feed /\ c # Firehose BY ChatterAssumption DEF Feed
  <2> QED BY <2>1, ChatterAssumption DEF ChatterIInv, ChatterTypeOK, Behind, Seen
<1> DEFINE D == Delivered(c, n)
<1>2. D \subseteq SweepPage(c) /\ SweepPage(c) \subseteq mark[c] + 1 .. Len(posts[c])
  BY DEF Delivered, SweepPage, Unread
<1>3. CASE n = 0
  <2>1. D = {} BY <1>1, <1>2, <1>3 DEF Delivered, SweepPage, Unread
  <2> QED BY <1>1, <1>3, <2>1 DEF Advanced
<1>4. CASE n > 0
  <2>1. SweepPage(c) # {} BY <1>4, FS_EmptySet
  <2>2. D # {}
    <3>1. CASE mark[c] = 0
      <4>1. Len(posts[c]) \in SweepPage(c) BY <1>1, <2>1, <3>1 DEF SweepPage, Unread
      <4> QED BY <1>1, <1>4, <3>1, <4>1 DEF Delivered
    <3>2. CASE mark[c] # 0
      <4>1. mark[c] + 1 \in SweepPage(c) BY <1>1, <2>1, <3>2 DEF SweepPage, Unread
      <4> QED BY <1>1, <1>4, <3>2, <4>1 DEF Delivered
    <3> QED BY <3>1, <3>2
  <2> HIDE DEF D
  <2>3. \E m \in D : \A i \in D : m >= i
    <3> DEFINE T == {Len(posts[c]) - i : i \in D}
    <3>1. T \subseteq Nat /\ T # {} BY <1>1, <1>2, <2>2
    <3>2. PICK t \in T : \A u \in T : t <= u BY <3>1, LeastNat
    <3>3. PICK m \in D : t = Len(posts[c]) - m OBVIOUS
    <3>4. ASSUME NEW i \in D PROVE m >= i
      <4>1. Len(posts[c]) - i \in T OBVIOUS
      <4>2. t <= Len(posts[c]) - i BY <3>2, <4>1
      <4>3. i \in Int /\ m \in Int BY <1>1, <1>2
      <4> QED BY <1>1, <3>3, <4>2, <4>3
    <3> QED BY <3>4
  <2>4. Max(D) \in D /\ \A i \in D : Max(D) >= i BY <2>3 DEF Max
  <2>5. Advanced(c, n) = Max(D) BY <1>4 DEF Advanced, D
  <2>6. \A i \in D : i \in mark[c] .. Len(posts[c]) BY <1>1, <1>2
  <2> QED BY <1>2, <2>4, <2>5, <2>6 DEF D
<1> QED BY <1>3, <1>4

\* A sweep counts, of each channel, what its mark then says it has read.
LEMMA StepSweepChannel ==
  ASSUME ChatterIInv, NEW n \in 0 .. MaxPosts, SweepChannel(n)
  PROVE  ChatterIInv'
<1> PICK c : c = Channels[turn] OBVIOUS
<1>1. c \in DOMAIN ClassOfChannel /\ c \in Feed /\ c # Firehose /\ turn \in Nat
  <2>1. turn \in 1 .. Len(Channels) BY ChatterAssumption DEF SweepChannel, ChatterIInv, ChatterTypeOK
  <2> QED BY <2>1, ChatterAssumption DEF Feed
<1>2. /\ n <= Cardinality(SweepPage(c)) /\ counts' = Observed(counts, c, Delivered(c, n))
      /\ mark' = [mark EXCEPT ![c] = Advanced(c, n)] /\ turn' = turn + 1 /\ pc' = Sweeping(turn')
      /\ UNCHANGED <<world, socket, cursor, batch, stored>>
  BY DEF SweepChannel
<1>3. n \in Nat BY ChatterAssumption
<1>4. /\ Delivered(c, n) \subseteq mark[c] + 1 .. Len(posts[c])
      /\ Advanced(c, n) \in mark[c] .. Len(posts[c])
      /\ \A i \in Delivered(c, n) : i <= Advanced(c, n)
  BY <1>1, <1>2, <1>3, PageFacts
<1>5. mark[c] \in Nat /\ Len(posts[c]) \in Nat BY <1>1 DEF ChatterIInv, ChatterTypeOK
<1>6. /\ Seen(c) = mark[c] /\ Seen(c)' = Advanced(c, n)
      /\ \A g \in Feed : g # c => Seen(g)' = Seen(g)
  BY <1>1, <1>2 DEF Seen, ChatterIInv, ChatterTypeOK, Feed
<1>7. Advanced(c, n) \in Nat /\ mark[c] <= Advanced(c, n) /\ Advanced(c, n) <= Len(posts[c])
  BY <1>4, <1>5
<1>8. pc' = "sweep" => turn' <= Len(Channels)
  <2>1. turn + 1 \in Int /\ Len(Channels) \in Int BY <1>1, ChatterAssumption
  <2> QED BY <1>2, <2>1 DEF Sweeping
<1>9. counts' \in Counters
  <2>1. ASSUME NEW k \in Key PROVE counts'[k] \in Nat
    <3> DEFINE I == {i \in Delivered(c, n) : Counts(c, i, k)}
    <3>1. counts'[k] = counts[k] + Cardinality(I) BY <1>2, <2>1 DEF Observed
    <3>2. mark[c] + 1 \in Int /\ Len(posts[c]) \in Int BY <1>5
    <3>5. IsFiniteSet((mark[c] + 1) .. Len(posts[c])) BY <3>2, FS_Interval
    <3>3. I \in SUBSET (mark[c] + 1 .. Len(posts[c])) BY <1>4
    <3>4. Cardinality(I) \in Nat BY <3>5, <3>3, FS_Subset, FS_CardinalityType
    <3> QED BY <3>1, <3>4 DEF ChatterIInv, ChatterTypeOK, Counters
  <2> QED BY <1>2, <2>1 DEF Observed, Counters
<1>10. ChatterTypeOK'
  <2>1. turn' \in Nat \ {0} BY <1>1, <1>2
  <2>2. mark' \in [DOMAIN ClassOfChannel -> Nat] BY <1>1, <1>2, <1>7 DEF ChatterIInv, ChatterTypeOK
  <2>3. UNCHANGED <<clock, posts, cursor, batch, stored>> BY <1>2 DEF world
  <2> QED BY <1>8, <1>9, <2>1, <2>2, <2>3 DEF ChatterIInv, ChatterTypeOK
<1>11. Behind'
  <2>1. ASSUME NEW g \in Feed PROVE Seen(g)' <= Len(posts'[g])
    BY <1>2, <1>6, <1>7, <2>1 DEF world, ChatterIInv, Behind
  <2> QED BY <2>1 DEF Behind
<1>12. CountedOnce'
  <2>1. /\ UNCHANGED <<posts, batch, stored>> /\ Seen(c) <= Seen(c)' /\ Seen(c)' \in Nat
        /\ Delivered(c, n) \subseteq Seen(c) + 1 .. Len(posts[c])
        /\ \A i \in Delivered(c, n) : i <= Seen(c)'
    BY <1>2, <1>4, <1>6, <1>7 DEF world
  <2> QED BY <1>1, <1>2, <1>6, <1>10, <2>1, ReadOn
<1> QED BY <1>10, <1>11, <1>12 DEF ChatterIInv

\* The socket counts the post it is handed.
LEMMA StepReceive ==
  ASSUME ChatterIInv, Receive
  PROVE  ChatterIInv'
<1>1. /\ cursor < Len(posts[Firehose]) /\ cursor' = cursor + 1
      /\ counts' = Observed(counts, Firehose, {cursor'})
      /\ UNCHANGED <<clock, posts, pc, turn, mark, batch, stored>>
  BY DEF Receive, world
<1>2. /\ Firehose \in Feed /\ cursor \in Nat /\ Len(posts[Firehose]) \in Nat
      /\ Seen(Firehose) = cursor /\ Seen(Firehose)' = cursor'
      /\ \A g \in Feed : g # Firehose => Seen(g)' = Seen(g)
  BY <1>1 DEF Feed, Seen, ChatterIInv, ChatterTypeOK
<1>3. counts' \in Counters
  <2>1. ASSUME NEW k \in Key PROVE counts'[k] \in Nat
    <3> DEFINE I == {i \in {cursor'} : Counts(Firehose, i, k)}
    <3>1. counts'[k] = counts[k] + Cardinality(I) BY <1>1, <2>1 DEF Observed
    <3>2. IsFiniteSet({cursor'}) /\ I \in SUBSET {cursor'} BY FS_Singleton
    <3>3. Cardinality(I) \in Nat BY <3>2, FS_Subset, FS_CardinalityType
    <3> QED BY <3>1, <3>3 DEF ChatterIInv, ChatterTypeOK, Counters
  <2> QED BY <1>1, <2>1 DEF Observed, Counters
<1>4. ChatterTypeOK'
  <2>1. cursor' \in Nat BY <1>1, <1>2
  <2> QED BY <1>1, <1>3, <2>1 DEF ChatterIInv, ChatterTypeOK
<1>5. Behind'
  <2>1. ASSUME NEW g \in Feed PROVE Seen(g)' <= Len(posts'[g])
    BY <1>1, <1>2, <2>1 DEF ChatterIInv, Behind
  <2> QED BY <2>1 DEF Behind
<1>6. CountedOnce'
  <2>1. /\ {cursor'} \subseteq Seen(Firehose) + 1 .. Len(posts[Firehose])
        /\ \A i \in {cursor'} : i <= Seen(Firehose)'
        /\ Seen(Firehose) <= Seen(Firehose)' /\ Seen(Firehose)' \in Nat
    BY <1>1, <1>2
  <2>2. UNCHANGED <<posts, batch, stored>> BY <1>1
  <2> QED BY <1>1, <1>2, <1>4, <2>1, <2>2, ReadOn
<1> QED BY <1>4, <1>5, <1>6 DEF ChatterIInv

\* A new post is one more to count; nothing that is counted is lost.
LEMMA StepPost ==
  ASSUME ChatterIInv, NEW f \in Feed, NEW hit \in BOOLEAN, Post(f, hit)
  PROVE  ChatterIInv'
<1>1. /\ posts' = [posts EXCEPT ![f] = Append(@, [ts |-> clock, hit |-> hit])]
      /\ UNCHANGED <<clock, pc, turn, mark, cursor, counts, batch, stored>>
  BY DEF Post, reader
<1>2. [ts |-> clock, hit |-> hit] \in [ts : 0 .. MaxTime, hit : BOOLEAN] BY DEF ChatterIInv, ChatterTypeOK
<1>3. ASSUME NEW g \in Feed
      PROVE  /\ posts'[g] \in Seq([ts : 0 .. MaxTime, hit : BOOLEAN])
             /\ Len(posts[g]) \in Nat /\ Len(posts'[g]) \in Nat
             /\ Len(posts[g]) <= Len(posts'[g])
             /\ \A i \in 1 .. Len(posts[g]) : posts'[g][i] = posts[g][i]
  <2>1. posts[g] \in Seq([ts : 0 .. MaxTime, hit : BOOLEAN]) BY DEF ChatterIInv, ChatterTypeOK
  <2>2. CASE g = f
    <3>1. posts'[g] = Append(posts[g], [ts |-> clock, hit |-> hit])
      BY <1>1, <2>2 DEF ChatterIInv, ChatterTypeOK
    <3> QED BY <1>2, <2>1, <3>1
  <2>3. CASE g # f
    <3>1. posts'[g] = posts[g] BY <1>1, <2>3 DEF ChatterIInv, ChatterTypeOK
    <3> QED BY <2>1, <3>1
  <2> QED BY <2>2, <2>3
<1>4. ChatterTypeOK'
  <2>1. posts' \in [Feed -> Seq([ts : 0 .. MaxTime, hit : BOOLEAN])]
    BY <1>1, <1>3 DEF ChatterIInv, ChatterTypeOK
  <2> QED BY <1>1, <2>1 DEF ChatterIInv, ChatterTypeOK
<1>5. \A g \in Feed : Seen(g)' = Seen(g) /\ Seen(g) \in Nat
  BY <1>1 DEF Seen, ChatterIInv, ChatterTypeOK, Feed
<1>6. Behind'
  <2>1. ASSUME NEW g \in Feed PROVE Seen(g)' <= Len(posts'[g])
    BY <1>3, <1>5, <2>1 DEF ChatterIInv, Behind
  <2> QED BY <2>1 DEF Behind
<1>7. ASSUME NEW k \in Key
      PROVE  /\ counts'[k] + batch'[k] <= Cardinality(ReadOf(k)')
             /\ stored'[k] <= Cardinality(PostsIn(k)')
  <2>1. PostsIn(k) \subseteq PostsIn(k)' /\ ReadOf(k) \subseteq ReadOf(k)'
    <3>1. ASSUME NEW p \in PostsIn(k) PROVE p \in PostsIn(k)' /\ p[1] \in Feed
      <4>1. PICK g \in Feed : \E i \in 1 .. Len(posts[g]) : p = <<g, i>>
        BY PostedFinite DEF ChatterIInv, PostsIn
      <4>2. p = <<g, p[2]>> /\ p[2] \in 1 .. Len(posts[g]) /\ p[1] = g BY <4>1
      <4>3. p[2] \in 1 .. Len(posts'[g]) /\ posts'[g][p[2]] = posts[g][p[2]] BY <1>3, <4>2
      <4>4. \A q : q \in Posted' <=> \E h \in Feed : \E i \in 1 .. Len(posts'[h]) : q = <<h, i>>
        <5>1. \A h \in Feed : DOMAIN posts'[h] = 1 .. Len(posts'[h]) BY <1>3
        <5> QED BY <5>1 DEF Posted
      <4>5. p \in Posted' BY <4>2, <4>3, <4>4
      <4>6. Counts(p[1], p[2], k)' BY <4>2, <4>3 DEF PostsIn, Counts
      <4> QED BY <4>2, <4>5, <4>6 DEF PostsIn
    <3> QED BY <1>5, <3>1 DEF ReadOf
  <2>2. /\ IsFiniteSet(PostsIn(k)') /\ IsFiniteSet(ReadOf(k)')
        /\ Cardinality(PostsIn(k)') \in Nat /\ Cardinality(ReadOf(k)') \in Nat
    <3>1. IsFiniteSet(Posted)' BY <1>4, PostedFinite, PTL
    <3>2. PostsIn(k)' \in SUBSET Posted' /\ ReadOf(k)' \in SUBSET Posted' BY DEF PostsIn, ReadOf
    <3> QED BY <3>1, <3>2, FS_Subset, FS_CardinalityType
  <2>3. /\ Cardinality(PostsIn(k)) <= Cardinality(PostsIn(k)')
        /\ Cardinality(ReadOf(k)) <= Cardinality(ReadOf(k)')
    BY <2>1, <2>2, FS_Subset
  <2>4. Cardinality(PostsIn(k)) \in Nat /\ Cardinality(ReadOf(k)) \in Nat BY OfFinite DEF ChatterIInv
  <2>5. /\ counts[k] \in Nat /\ batch[k] \in Nat /\ stored[k] \in Nat
        /\ counts[k] + batch[k] <= Cardinality(ReadOf(k)) /\ stored[k] <= Cardinality(PostsIn(k))
    BY DEF ChatterIInv, ChatterTypeOK, CountedOnce, Counters
  <2>6. counts'[k] = counts[k] /\ batch'[k] = batch[k] /\ stored'[k] = stored[k] BY <1>1
  <2> QED BY <2>2, <2>3, <2>4, <2>5, <2>6
<1> QED BY <1>4, <1>6, <1>7 DEF ChatterIInv, CountedOnce

\* Every other step: the connection, the cycle, the drain, the ingest, a restart.
LEMMA StepElse ==
  ASSUME ChatterIInv,
         \/ Sweep \/ StartStream \/ Connect \/ Disconnect \/ StopStream \/ PollStream
         \/ Drain \/ Ingest \/ IngestFails \/ Die \/ Start \/ Tick \/ UNCHANGED chatterVars
  PROVE  ChatterIInv'
<1> USE DEF world, reader
<1>0. /\ \A k \in Key : counts[k] \in Nat /\ batch[k] \in Nat /\ stored[k] \in Nat
      /\ Empty \in Counters /\ \A k \in Key : Empty[k] = 0
      /\ \A f \in Feed : Seen(f) \in Nat /\ Len(posts[f]) \in Nat
      /\ Firehose \in Feed
  BY DEF ChatterIInv, ChatterTypeOK, Counters, Empty, Seen, Feed
\* A step that leaves what is read and counted alone.
<1>1. CASE \/ Sweep \/ StartStream \/ Disconnect \/ PollStream \/ Start \/ Tick \/ UNCHANGED chatterVars
  <2>1. UNCHANGED <<posts, mark, cursor, counts, batch, stored>>
    BY <1>1 DEF Sweep, StartStream, Disconnect, PollStream, Start, Tick, chatterVars
  <2>2. clock' \in 0 .. MaxTime
    BY <1>1, ChatterAssumption
       DEF Sweep, StartStream, Disconnect, PollStream, Start, Tick, chatterVars, ChatterIInv, ChatterTypeOK
  <2>3. turn' \in Nat \ {0} /\ (pc' = "sweep" => turn' <= Len(Channels))
    <3>1. CASE Sweep
      <4>1. turn' = 1 /\ pc' = Sweeping(1) /\ Len(Channels) \in Int
        BY <3>1, ChatterAssumption DEF Sweep
      <4> QED BY <4>1 DEF Sweeping
    <3>2. CASE ~Sweep
      <4>1. turn' = turn /\ (pc' = pc \/ pc' # "sweep")
        BY <1>1, <3>2 DEF StartStream, Disconnect, PollStream, Start, Tick, chatterVars
      <4> QED BY <4>1 DEF ChatterIInv, ChatterTypeOK
    <3> QED BY <3>1, <3>2
  <2>4. ChatterTypeOK' BY <2>1, <2>2, <2>3 DEF ChatterIInv, ChatterTypeOK
  <2>5. \A f \in Feed : Seen(f)' = Seen(f) BY <2>1 DEF Seen
  <2>6. Behind' BY <2>1, <2>5 DEF ChatterIInv, Behind
  <2>7. \A f \in Feed : Seen(f) <= Seen(f)' BY <1>0, <2>5
  <2>8. \A k \in Key : counts'[k] + batch'[k] <= counts[k] + batch[k] BY <1>0, <2>1
  <2>9. \A k \in Key : stored'[k] \in {stored[k], batch[k]} BY <2>1
  <2> QED BY <2>1, <2>4, <2>6, <2>7, <2>8, <2>9, CountsNoMore
\* A socket begins with what is posted next.
<1>2. CASE Connect
  <2>1. /\ cursor' = Len(posts[Firehose])
        /\ UNCHANGED <<clock, posts, pc, turn, mark, counts, batch, stored>>
    BY <1>2 DEF Connect
  <2>2. ChatterTypeOK' BY <1>0, <2>1 DEF ChatterIInv, ChatterTypeOK
  <2>3. \A f \in Feed : Seen(f) <= Seen(f)' /\ Seen(f)' <= Len(posts[f])
    <3>1. ASSUME NEW f \in Feed PROVE Seen(f) <= Seen(f)' /\ Seen(f)' <= Len(posts[f])
      <4>1. Seen(f) <= Len(posts[f]) BY DEF ChatterIInv, Behind
      <4>2. CASE f = Firehose BY <1>0, <2>1, <4>1, <4>2 DEF Seen
      <4>3. CASE f # Firehose
        <5>1. Seen(f)' = Seen(f) BY <2>1, <4>3 DEF Seen
        <5> QED BY <1>0, <4>1, <5>1
      <4> QED BY <4>2, <4>3
    <3> QED BY <3>1
  <2>4. Behind' BY <2>1, <2>3 DEF Behind
  <2>5. \A k \in Key : counts'[k] + batch'[k] <= counts[k] + batch[k] BY <1>0, <2>1
  <2>6. \A k \in Key : stored'[k] \in {stored[k], batch[k]} BY <2>1
  <2> QED BY <2>1, <2>2, <2>3, <2>4, <2>5, <2>6, CountsNoMore
\* Windows change hands in the cycle, or are discarded.
<1>3. CASE StopStream \/ Drain \/ Ingest \/ IngestFails
  <2>1. UNCHANGED <<clock, posts, turn, mark, cursor>> /\ pc' \in {pc, "ingest", "idle"}
    BY <1>3 DEF StopStream, Drain, Ingest, IngestFails
  <2>2. ASSUME NEW k \in Key
        PROVE  /\ counts'[k] \in Nat /\ batch'[k] \in Nat /\ stored'[k] \in {stored[k], batch[k]}
               /\ counts'[k] + batch'[k] <= counts[k] + batch[k]
    BY <1>0, <1>3 DEF StopStream, Drain, DrainCompleted, Ingest, IngestFails, Kept, Empty
  <2>3. counts' \in Counters /\ batch' \in Counters /\ stored' \in Counters
    <3>1. \A k \in Key : stored'[k] \in Nat BY <1>0, <2>2
    <3>2. /\ counts' = [k \in Key |-> counts'[k]] /\ batch' = [k \in Key |-> batch'[k]]
          /\ stored' = [k \in Key |-> stored'[k]]
      BY <1>3 DEF StopStream, Drain, DrainCompleted, Ingest, IngestFails, Empty, ChatterIInv, ChatterTypeOK, Counters
    <3> QED BY <2>2, <3>1, <3>2 DEF Counters
  <2>4. ChatterTypeOK'
    <3>1. pc' = "sweep" => pc = "sweep" BY <2>1
    <3> QED BY <2>1, <2>3, <3>1 DEF ChatterIInv, ChatterTypeOK
  <2>5. \A f \in Feed : Seen(f)' = Seen(f) BY <2>1 DEF Seen
  <2>6. Behind' BY <2>1, <2>5 DEF ChatterIInv, Behind
  <2>7. \A f \in Feed : Seen(f) <= Seen(f)' BY <1>0, <2>5
  <2> QED BY <2>1, <2>2, <2>4, <2>6, <2>7, CountsNoMore
\* A restart forgets the marks, and with them every count.
<1>4. CASE Die
  <2>1. /\ pc' = "off" /\ turn' = 1 /\ mark' = [c \in DOMAIN ClassOfChannel |-> 0] /\ cursor' = 0
        /\ counts' = Empty /\ batch' = Empty /\ UNCHANGED <<clock, posts, stored>>
    BY <1>4 DEF Die
  <2>2. ChatterTypeOK'
    <3>1. mark' \in [DOMAIN ClassOfChannel -> Nat] /\ cursor' \in Nat /\ turn' \in Nat \ {0} BY <2>1
    <3>2. counts' \in Counters /\ batch' \in Counters BY <1>0, <2>1
    <3>3. pc' # "sweep" BY <2>1
    <3> QED BY <2>1, <3>1, <3>2, <3>3 DEF ChatterIInv, ChatterTypeOK
  <2>3. \A f \in Feed : Seen(f)' = 0 BY <2>1 DEF Seen, Feed
  <2>4. Behind' BY <1>0, <2>1, <2>3 DEF Behind
  <2>5. \A k \in Key : counts'[k] + batch'[k] <= counts[k] + batch[k] BY <1>0, <2>1
  <2>6. \A k \in Key : stored'[k] \in {stored[k], batch[k]} BY <2>1
  <2> QED BY <2>1, <2>2, <2>4, <2>5, <2>6, CountsNoMore
<1> QED BY <1>1, <1>2, <1>3, <1>4

LEMMA StepChatterIInv == ChatterIInv /\ [ChatterNext]_chatterVars => ChatterIInv'
<1> SUFFICES ASSUME ChatterIInv, [ChatterNext]_chatterVars PROVE ChatterIInv'
  OBVIOUS
<1>1. CASE \E n \in 0 .. MaxPosts : SweepChannel(n) BY <1>1, StepSweepChannel
<1>2. CASE Receive BY <1>2, StepReceive
<1>3. CASE \E f \in Feed, hit \in BOOLEAN : Post(f, hit) BY <1>3, StepPost
<1>4. CASE \/ Sweep \/ StartStream \/ Connect \/ Disconnect \/ StopStream \/ PollStream
           \/ Drain \/ Ingest \/ IngestFails \/ Die \/ Start \/ Tick \/ UNCHANGED chatterVars
  BY <1>4, StepElse
<1> QED BY <1>1, <1>2, <1>3, <1>4 DEF ChatterNext

\* What a feed has posted and a reader has counted is counted once: no failed sweep,
\* reconnection, restart or switching makes a window, pending, drained or stored,
\* stand for more posts than fell into it.
THEOREM ChatterNeverOvercounts == ChatterSpec => []NeverOvercounts
<1>1. ChatterIInv => NeverOvercounts
  <2> SUFFICES ASSUME ChatterIInv, NEW k \in Key
               PROVE  counts[k] + batch[k] <= PostsOf(k) /\ stored[k] <= PostsOf(k)
    BY DEF NeverOvercounts
  <2>1. PostsOf(k) = Cardinality(PostsIn(k)) BY DEF PostsOf, PostsIn
  <2>2. /\ Cardinality(PostsIn(k)) \in Nat /\ Cardinality(ReadOf(k)) \in Nat
        /\ Cardinality(ReadOf(k)) <= Cardinality(PostsIn(k))
    BY OfFinite DEF ChatterIInv
  <2>3. /\ counts[k] \in Nat /\ batch[k] \in Nat
        /\ counts[k] + batch[k] <= Cardinality(ReadOf(k)) /\ stored[k] <= Cardinality(PostsIn(k))
    BY DEF ChatterIInv, ChatterTypeOK, Counters, CountedOnce
  <2> QED BY <2>1, <2>2, <2>3
<1> QED BY <1>1, InitChatterIInv, StepChatterIInv, PTL DEF ChatterSpec

=============================================================================
