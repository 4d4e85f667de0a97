---------------------------- MODULE StoreProofs ----------------------------
(***************************************************************************)
(* DerivedFresh, UniqueIds, LossOnlyByPolicy and RetentionToTheDay hold of *)
(* every store, whatever the records, the baseline window, the retention   *)
(* settings and the number of faults.  First the equivalence               *)
(* docs/DATA_MODEL.md asks for before any of its three rules may be        *)
(* relaxed: rescoring from a bucket onwards, over the bounded read, gives  *)
(* the rows a rescore of the whole events table gives.                     *)
(***************************************************************************)
EXTENDS Store, TLAPS, WellFoundedInduction, FiniteSetTheorems

-----------------------------------------------------------------------------
\* Scoring.

\* Arithmetic of days and buckets.
LEMMA DayFacts ==
  ASSUME NEW a \in Int, NEW b \in Int, a <= b
  PROVE  /\ Day(a) \in Int /\ Day(a) <= Day(b)
         /\ BucketStart(a) \in Int /\ BucketStart(a) <= a
         /\ BucketStart(a) <= BucketStart(b)
BY DEF Day, BucketStart

\* A day begins at its first hour.
LEMMA DayBound ==
  ASSUME NEW a \in Int, NEW k \in Int
  PROVE  a >= 24 * k <=> Day(a) >= k
BY DEF Day

\* A bucket lies in one day, starts its own bucket, and is the latest before its moment.
LEMMA BucketFacts ==
  ASSUME NEW a \in Nat
  PROVE  /\ BucketStart(a) \in Nat
         /\ Day(BucketStart(a)) = Day(a)
         /\ BucketStart(BucketStart(a)) = BucketStart(a)
         /\ \A b \in Int : b = BucketStart(b) /\ b <= a => b <= BucketStart(a)
BY DEF Day, BucketStart

\* The bounded read starts at the first hour of the window before the day.
LEMMA ReadStartFacts ==
  ASSUME NEW start \in Nat
  PROVE  ScoreReadStart(start) = 24 * (Day(start) - WindowDays)
<1>1. WindowDays \in Nat BY WindowAssumption
<1>2. Day(start - 24 * WindowDays) = Day(start) - WindowDays BY <1>1 DEF Day
<1> QED BY <1>2 DEF ScoreReadStart

\* The fields of a record and the numbers made of its time.
LEMMA RecordFacts ==
  ASSUME NEW e \in Record
  PROVE  /\ e.ts \in Nat /\ e.cell \in Cell /\ e.family \in Family
         /\ e.id \in Id /\ e.source \in Source
         /\ Day(e.ts) \in Int /\ BucketStart(e.ts) \in Nat
         /\ BucketStart(e.ts) <= e.ts /\ Day(BucketStart(e.ts)) = Day(e.ts)
<1>1. e \in [id : Id, source : Source, cell : Cell, ts : Nat, family : Family]
  BY RecordAssumption
<1> QED BY <1>1, DayFacts, BucketFacts

\* A nonempty set of naturals has a least element.
LEMMA LeastExists ==
  ASSUME NEW S \in SUBSET Nat, S # {}
  PROVE  \E m \in S : \A k \in S : m <= k
<1> DEFINE R == {ss \in Nat \X Nat : ss[1] < ss[2]}
<1>1. IsWellFoundedOn(R, Nat) BY NatLessThanWellFounded, Zenon DEF OpToRel
<1>2. \A k, m \in Nat : k < m => <<k, m>> \in R OBVIOUS
<1>3. \E m \in S : \A k \in S : <<k, m>> \notin R
  <2> HIDE DEF R
  <2> QED BY <1>1, WFMin
<1> HIDE DEF R
<1>4. \A k, m \in Nat : ~(k < m) => m <= k OBVIOUS
<1> QED BY <1>2, <1>3, <1>4

-----------------------------------------------------------------------------
\* What the bounded read keeps: nothing foreign, everything from the first
\* day of the window on, and for every record one of its cell at least as old.
LEMMA ReadKeeps ==
  ASSUME NEW E \in SUBSET Record, NEW start \in Nat,
         NEW R, R = ReadSince(E, ScoreReadStart(start))
  PROVE  /\ R \subseteq E
         /\ \A e \in E : Day(e.ts) >= Day(start) - WindowDays => e \in R
         /\ \A e \in E : \E x \in R : x.cell = e.cell /\ x.ts <= e.ts
<1> DEFINE t == ScoreReadStart(start)
<1>0. WindowDays \in Nat /\ Day(start) \in Int /\ t = 24 * (Day(start) - WindowDays) /\ t \in Int
  BY WindowAssumption, DayFacts, ReadStartFacts
<1>1. R \subseteq E BY DEF ReadSince, OldestBefore
<1>2. ASSUME NEW e \in E, Day(e.ts) >= Day(start) - WindowDays
      PROVE  e \in R
  <2>1. e.ts \in Nat BY RecordFacts
  <2>2. e.ts >= t BY <2>1, <1>0, <1>2, DayBound
  <2> QED BY <2>2 DEF ReadSince
<1>3. ASSUME NEW e \in E
      PROVE  \E x \in R : x.cell = e.cell /\ x.ts <= e.ts
  <2>0. \A x \in E : x.ts \in Nat BY RecordFacts
  <2>1. CASE e.ts >= t BY <2>1, <2>0 DEF ReadSince
  <2>2. CASE e.ts < t
    <3> DEFINE S == {x.ts : x \in {y \in E : y.cell = e.cell}}
    <3>1. S \in SUBSET Nat /\ e.ts \in S BY <2>0
    <3>2. PICK m \in S : \A k \in S : m <= k BY <3>1, LeastExists
    <3>3. PICK x \in E : x.cell = e.cell /\ x.ts = m BY <3>2
    <3>4. \A y \in E : y.cell = e.cell => y.ts \in S OBVIOUS
    <3> HIDE DEF S
    <3>5. x.ts <= e.ts /\ \A y \in E : y.cell = x.cell => x.ts <= y.ts
      BY <3>1, <3>2, <3>3, <3>4
    <3>6. x.ts < t BY <3>5, <2>2, <2>0, <1>0
    <3>7. x \in R BY <3>5, <3>6 DEF ReadSince, OldestBefore
    <3> QED BY <3>3, <3>5, <3>7
  <2> QED BY <2>0, <2>1, <2>2, <1>0
<1> QED BY <1>1, <1>2, <1>3

\* Windows that start inside the bounded read come out the same.
LEMMA SameTrailing ==
  ASSUME NEW E \in SUBSET Record, NEW start \in Nat,
         NEW R, R = ReadSince(E, ScoreReadStart(start)),
         NEW c, NEW tod, NEW day \in Int, day >= Day(start)
  PROVE  Trailing(R, Generic(R), c, tod, day) = Trailing(E, Generic(E), c, tod, day)
<1>0. WindowDays \in Nat /\ Day(start) \in Int BY WindowAssumption, DayFacts
<1>1. R \subseteq E /\ (\A e \in E : \E x \in R : x.cell = e.cell /\ x.ts <= e.ts)
  BY ReadKeeps
<1>2. SampleDays(R, day) = SampleDays(E, day)
  <2>1. ASSUME NEW d \in Int, NEW e \in E, Day(e.ts) <= d
        PROVE  \E x \in R : Day(x.ts) <= d
    <3>1. PICK x \in R : x.ts <= e.ts BY <1>1
    <3>2. x \in E /\ x.ts \in Nat /\ e.ts \in Nat BY <1>1, RecordFacts
    <3>3. Day(x.ts) <= Day(e.ts) /\ Day(x.ts) \in Int /\ Day(e.ts) \in Int
      BY <3>1, <3>2, DayFacts
    <3> QED BY <2>1, <3>3
  <2>2. \A d \in (day - WindowDays) .. (day - 1) : d \in Int BY <1>0
  <2> QED BY <2>1, <2>2, <1>1 DEF SampleDays
<1>3. ASSUME NEW d \in SampleDays(E, day)
      PROVE  CountAt(Generic(R), c, tod, d) = CountAt(Generic(E), c, tod, d)
  <2>1. d \in Int /\ d >= Day(start) - WindowDays BY <1>0 DEF SampleDays
  <2>2. \A e \in E : Day(e.ts) = d => e \in R BY <2>1, ReadKeeps
  <2>3. {e \in Generic(R) : e.cell = c /\ Tod(e.ts) = tod /\ Day(e.ts) = d}
          = {e \in Generic(E) : e.cell = c /\ Tod(e.ts) = tod /\ Day(e.ts) = d}
    BY <2>2, <1>1 DEF Generic
  <2> QED BY <2>3 DEF CountAt
<1> QED BY <1>2, <1>3 DEF Trailing

-----------------------------------------------------------------------------
\* Rescoring from bucket `start` on over the bounded read gives the region and
\* family rows of a full rescore from there on (rules 1 and 2 of DATA_MODEL.md).
THEOREM BucketsExact ==
  ASSUME NEW E \in SUBSET Record, NEW start \in Nat, start = BucketStart(start),
         NEW R, R = ReadSince(E, ScoreReadStart(start))
  PROVE  /\ AtOrAfter(RegionRows(R), start) = AtOrAfter(RegionRows(E), start)
         /\ AtOrAfter(FamilyRows(R), start) = AtOrAfter(FamilyRows(E), start)
<1>0. WindowDays \in Nat /\ Day(start) \in Int BY WindowAssumption, DayFacts
<1>1. R \subseteq E BY ReadKeeps
<1>2. ASSUME NEW e \in E, BucketStart(e.ts) >= start
      PROVE  e \in R
  <2>1. e.ts \in Nat /\ BucketStart(e.ts) <= e.ts /\ BucketStart(e.ts) \in Nat /\ Day(e.ts) \in Int
    BY RecordFacts
  <2>2. Day(start) <= Day(e.ts) BY <2>1, <1>2, DayFacts
  <2> QED BY <2>1, <2>2, <1>0, ReadKeeps
<1>3. ASSUME NEW e \in E, BucketStart(e.ts) >= start
      PROVE  InBucket(R, e.cell, BucketStart(e.ts)) = InBucket(E, e.cell, BucketStart(e.ts))
  BY <1>1, <1>2, <1>3 DEF InBucket
<1>4. ASSUME NEW e \in E, BucketStart(e.ts) >= start
      PROVE  RegionRow(R, e.cell, BucketStart(e.ts)) = RegionRow(E, e.cell, BucketStart(e.ts))
  <2> DEFINE b == BucketStart(e.ts)
  <2>1. b \in Nat /\ Day(b) \in Int /\ Day(start) <= Day(b) BY <1>4, RecordFacts, DayFacts
  <2>2. Trailing(R, Generic(R), e.cell, Tod(b), Day(b)) = Trailing(E, Generic(E), e.cell, Tod(b), Day(b))
    <3> HIDE DEF b
    <3> QED BY <2>1, SameTrailing, <1>0
  <2>3. InBucket(R, e.cell, b) = InBucket(E, e.cell, b) BY <1>3, <1>4
  <2> QED BY <2>2, <2>3 DEF RegionRow
<1>5. ASSUME NEW e \in E, BucketStart(e.ts) >= start
      PROVE  FamilyRow(R, e.cell, BucketStart(e.ts), e.family)
               = FamilyRow(E, e.cell, BucketStart(e.ts), e.family)
  BY <1>3, <1>5 DEF FamilyRow
<1>6. AtOrAfter(RegionRows(R), start) = AtOrAfter(RegionRows(E), start)
  <2>1. \A S, e : RegionRow(S, e.cell, BucketStart(e.ts)).bucket = BucketStart(e.ts)
    BY DEF RegionRow
  <2>2. ASSUME NEW e \in R, BucketStart(e.ts) >= start
        PROVE  RegionRow(R, e.cell, BucketStart(e.ts)) \in RegionRows(E)
    BY <2>2, <1>1, <1>4 DEF RegionRows
  <2>3. ASSUME NEW e \in E, BucketStart(e.ts) >= start
        PROVE  RegionRow(E, e.cell, BucketStart(e.ts)) \in RegionRows(R)
    <3>1. RegionRow(E, e.cell, BucketStart(e.ts)) = RegionRow(R, e.cell, BucketStart(e.ts)) BY <2>3, <1>4
    <3>2. e \in R BY <2>3, <1>2
    <3> QED BY <3>1, <3>2 DEF RegionRows
  <2>4. ASSUME NEW r \in RegionRows(R), r.bucket >= start
        PROVE  r \in RegionRows(E)
    <3>1. PICK e \in R : r = RegionRow(R, e.cell, BucketStart(e.ts)) BY DEF RegionRows
    <3>2. BucketStart(e.ts) >= start BY <3>1, <2>1, <2>4
    <3> QED BY <3>1, <3>2, <2>2
  <2>5. ASSUME NEW r \in RegionRows(E), r.bucket >= start
        PROVE  r \in RegionRows(R)
    <3>1. PICK e \in E : r = RegionRow(E, e.cell, BucketStart(e.ts)) BY DEF RegionRows
    <3>2. BucketStart(e.ts) >= start BY <3>1, <2>1, <2>5
    <3> QED BY <3>1, <3>2, <2>3
  <2> QED BY <2>4, <2>5 DEF AtOrAfter
<1>7. AtOrAfter(FamilyRows(R), start) = AtOrAfter(FamilyRows(E), start)
  <2>1. \A S, e : FamilyRow(S, e.cell, BucketStart(e.ts), e.family).bucket = BucketStart(e.ts)
    BY DEF FamilyRow
  <2>2. ASSUME NEW e \in R, BucketStart(e.ts) >= start
        PROVE  FamilyRow(R, e.cell, BucketStart(e.ts), e.family) \in FamilyRows(E)
    BY <2>2, <1>1, <1>5 DEF FamilyRows
  <2>3. ASSUME NEW e \in E, BucketStart(e.ts) >= start
        PROVE  FamilyRow(E, e.cell, BucketStart(e.ts), e.family) \in FamilyRows(R)
    <3>1. FamilyRow(E, e.cell, BucketStart(e.ts), e.family) = FamilyRow(R, e.cell, BucketStart(e.ts), e.family) BY <2>3, <1>5
    <3>2. e \in R BY <2>3, <1>2
    <3> QED BY <3>1, <3>2 DEF FamilyRows
  <2>4. ASSUME NEW r \in FamilyRows(R), r.bucket >= start
        PROVE  r \in FamilyRows(E)
    <3>1. PICK e \in R : r = FamilyRow(R, e.cell, BucketStart(e.ts), e.family) BY DEF FamilyRows
    <3>2. BucketStart(e.ts) >= start BY <3>1, <2>1, <2>4
    <3> QED BY <3>1, <3>2, <2>2
  <2>5. ASSUME NEW r \in FamilyRows(E), r.bucket >= start
        PROVE  r \in FamilyRows(R)
    <3>1. PICK e \in E : r = FamilyRow(E, e.cell, BucketStart(e.ts), e.family) BY DEF FamilyRows
    <3>2. BucketStart(e.ts) >= start BY <3>1, <2>1, <2>5
    <3> QED BY <3>1, <3>2, <2>3
  <2> QED BY <2>4, <2>5 DEF AtOrAfter
<1> QED BY <1>6, <1>7

\* The per-cell baselines "as of the newest data" come out of the bounded read
\* exactly, provided the newest record is not older than the rescore's start.
THEOREM BaselinesExact ==
  ASSUME NEW E \in SUBSET Record, NEW start \in Nat,
         \E e \in E : e.ts >= start,
         NEW R, R = ReadSince(E, ScoreReadStart(start))
  PROVE  BaselineRows(R) = BaselineRows(E)
<1>0. WindowDays \in Nat /\ Day(start) \in Int BY WindowAssumption, DayFacts
<1>1. R \subseteq E /\ (\A e \in E : \E x \in R : x.cell = e.cell /\ x.ts <= e.ts)
  BY ReadKeeps
<1>2. \A e \in E : e.ts \in Nat /\ Day(e.ts) \in Int BY RecordFacts
<1>3. PICK new \in E : new.ts >= start OBVIOUS
<1>4. Day(new.ts) >= Day(start) BY <1>2, <1>3, DayFacts
<1>5. \A e \in E : Day(e.ts) >= Day(start) => e \in R
  BY <1>0, <1>2, ReadKeeps
<1>6. \A last \in LastDays(E) : last \in Int /\ last >= Day(start)
  BY <1>0, <1>2, <1>4 DEF LastDays
<1>7. LastDays(R) = LastDays(E)
  <2>1. ASSUME NEW d \in LastDays(E) PROVE d \in LastDays(R)
    BY <1>1, <1>5, <1>6 DEF LastDays
  <2>2. ASSUME NEW d \in LastDays(R) PROVE d \in LastDays(E)
    <3>1. d \in {Day(e.ts) : e \in E} /\ d \in Int BY <1>1, <1>2 DEF LastDays
    <3>2. new \in R /\ Day(new.ts) <= d BY <1>4, <1>5 DEF LastDays
    <3>3. ASSUME NEW x \in E PROVE Day(x.ts) <= d
      <4>1. CASE Day(x.ts) >= Day(start) BY <4>1, <1>5 DEF LastDays
      <4>2. CASE Day(x.ts) < Day(start) BY <4>2, <3>1, <3>2, <1>0, <1>2, <1>4
      <4> QED BY <4>1, <4>2, <1>0, <1>2
    <3> QED BY <3>1, <3>3 DEF LastDays
  <2> QED BY <2>1, <2>2
<1>8. ASSUME NEW c, NEW tod, NEW last \in LastDays(E)
      PROVE  BaselineRow(R, c, tod, last) = BaselineRow(E, c, tod, last)
  <2>1. last + 1 \in Int /\ last + 1 >= Day(start) BY <1>0, <1>6
  <2>2. Trailing(R, Generic(R), c, tod, last + 1) = Trailing(E, Generic(E), c, tod, last + 1)
    BY <2>1, SameTrailing
  <2> QED BY <2>2 DEF BaselineRow
<1>9. BaselineRows(R) \subseteq BaselineRows(E)
  BY <1>1, <1>7, <1>8 DEF BaselineRows
<1>10. ASSUME NEW e \in E, NEW tod \in TodBuckets, NEW last \in LastDays(E)
       PROVE  BaselineRow(E, e.cell, tod, last) \in BaselineRows(R)
  <2>1. PICK x \in R : x.cell = e.cell BY <1>1
  <2> QED BY <2>1, <1>7, <1>8 DEF BaselineRows
<1>11. BaselineRows(E) \subseteq BaselineRows(R) BY <1>10 DEF BaselineRows
<1> QED BY <1>9, <1>11

\* Records at or after a bucket change no row of an earlier bucket, so the
\* rows a bounded rescore keeps are right (do_ingest: "everything before it
\* cannot" change).
THEOREM PrefixStable ==
  ASSUME NEW E \in SUBSET Record, NEW K \in SUBSET Record,
         NEW start \in Nat, start = BucketStart(start), \A k \in K : k.ts >= start
  PROVE  /\ Below(RegionRows(E \cup K), start) = Below(RegionRows(E), start)
         /\ Below(FamilyRows(E \cup K), start) = Below(FamilyRows(E), start)
<1> DEFINE U == E \cup K
<1>0. U \in SUBSET Record /\ WindowDays \in Nat /\ Day(start) \in Int
  BY WindowAssumption, DayFacts
<1>1. ASSUME NEW k \in K PROVE BucketStart(k.ts) >= start /\ Day(k.ts) >= Day(start)
  <2>1. k.ts \in Nat /\ k.ts >= start BY RecordFacts
  <2> QED BY <2>1, DayFacts, BucketFacts
<1>2. ASSUME NEW e \in U, BucketStart(e.ts) < start
      PROVE  /\ e \in E
             /\ InBucket(U, e.cell, BucketStart(e.ts)) = InBucket(E, e.cell, BucketStart(e.ts))
  <2>1. BucketStart(e.ts) \in Nat /\ \A k \in K : BucketStart(k.ts) \in Nat BY <1>0, RecordFacts
  <2>2. e \notin K BY <1>1, <1>2, <2>1
  <2>3. \A k \in K : BucketStart(k.ts) # BucketStart(e.ts) BY <1>1, <1>2, <2>1
  <2> QED BY <2>2, <2>3 DEF InBucket
<1>3. ASSUME NEW e \in U, BucketStart(e.ts) < start
      PROVE  RegionRow(U, e.cell, BucketStart(e.ts)) = RegionRow(E, e.cell, BucketStart(e.ts))
  <2> DEFINE b == BucketStart(e.ts)
  <2>1. b \in Nat /\ Day(b) \in Int /\ Day(b) <= Day(start) BY <1>0, <1>3, RecordFacts, DayFacts
  <2>2. \A k \in K : Day(k.ts) \in Int BY <1>0, RecordFacts
  <2>3. \A d \in (Day(b) - WindowDays) .. (Day(b) - 1) : d \in Int /\ d < Day(start)
    <3> HIDE DEF b
    <3> QED BY <1>0, <2>1
  <2>4. \A k \in K, d \in (Day(b) - WindowDays) .. (Day(b) - 1) : ~(Day(k.ts) <= d)
    <3> HIDE DEF b
    <3> QED BY <1>0, <1>1, <2>2, <2>3
  <2>5. SampleDays(U, Day(b)) = SampleDays(E, Day(b))
    <3> HIDE DEF b
    <3> QED BY <2>4 DEF SampleDays
  <2>6. ASSUME NEW d \in SampleDays(E, Day(b))
        PROVE  CountAt(Generic(U), e.cell, Tod(b), d) = CountAt(Generic(E), e.cell, Tod(b), d)
    <3> HIDE DEF b
    <3>1. \A k \in K : Day(k.ts) # d BY <2>2, <2>3, <2>4 DEF SampleDays
    <3>2. {x \in Generic(U) : x.cell = e.cell /\ Tod(x.ts) = Tod(b) /\ Day(x.ts) = d}
            = {x \in Generic(E) : x.cell = e.cell /\ Tod(x.ts) = Tod(b) /\ Day(x.ts) = d}
      BY <3>1 DEF Generic
    <3> QED BY <3>2 DEF CountAt
  <2>7. Trailing(U, Generic(U), e.cell, Tod(b), Day(b)) = Trailing(E, Generic(E), e.cell, Tod(b), Day(b))
    <3> HIDE DEF b
    <3> QED BY <2>5, <2>6 DEF Trailing
  <2>8. InBucket(U, e.cell, b) = InBucket(E, e.cell, b) BY <1>2, <1>3
  <2> QED BY <2>7, <2>8 DEF RegionRow
<1>4. ASSUME NEW e \in U, BucketStart(e.ts) < start
      PROVE  FamilyRow(U, e.cell, BucketStart(e.ts), e.family)
               = FamilyRow(E, e.cell, BucketStart(e.ts), e.family)
  BY <1>2, <1>4 DEF FamilyRow
<1>5. Below(RegionRows(U), start) = Below(RegionRows(E), start)
  <2>1. \A S, e : RegionRow(S, e.cell, BucketStart(e.ts)).bucket = BucketStart(e.ts)
    BY DEF RegionRow
  <2> QED BY <2>1, <1>2, <1>3 DEF Below, RegionRows
<1>6. Below(FamilyRows(U), start) = Below(FamilyRows(E), start)
  <2>1. \A S, e : FamilyRow(S, e.cell, BucketStart(e.ts), e.family).bucket = BucketStart(e.ts)
    BY DEF FamilyRow
  <2> QED BY ZenonT(60), <2>1, <1>2, <1>4 DEF Below, FamilyRows
<1> QED BY <1>5, <1>6

\* A bucketed table is its rows before a bucket and its rows from there on.
LEMMA SplitRows ==
  ASSUME NEW E \in SUBSET Record, NEW start \in Nat
  PROVE  /\ RegionRows(E) = Below(RegionRows(E), start) \cup AtOrAfter(RegionRows(E), start)
         /\ FamilyRows(E) = Below(FamilyRows(E), start) \cup AtOrAfter(FamilyRows(E), start)
<1>1. \A e \in E : BucketStart(e.ts) \in Nat BY RecordFacts
<1>2. \A r \in RegionRows(E) : r.bucket \in Nat BY <1>1 DEF RegionRows, RegionRow
<1>3. \A r \in FamilyRows(E) : r.bucket \in Nat BY <1>1 DEF FamilyRows, FamilyRow
<1>4. \A n \in Nat : n < start \/ n >= start OBVIOUS
<1> QED BY <1>2, <1>3, <1>4 DEF Below, AtOrAfter

-----------------------------------------------------------------------------
\* The store.

\* How far a rebuild has come: the order rebuild_buckets writes the tables in.
Rank == [region |-> 1, family |-> 2, baseline |-> 3, familyBaseline |-> 4]
Rewritten(t) == pc = "mark" \/ (pc \in {"delete", "append"} /\ Rank[t] < Rank[at])

\* Which command can be where.
Control ==
  /\ pc \in {"down", "idle"} => scope = "none"
  /\ pc \in {"log", "prune"} => scope \in {"none", "since"} /\ ~marker
  /\ pc \in {"delete", "append", "mark"} => scope # "none"
  /\ pc = "mark" => at = "familyBaseline"
  /\ marker => pc = "down" \/ (scope = "all" /\ pc \in {"delete", "append", "mark"})
  /\ scope = "since" => from = BucketStart(from) /\ \E e \in events : e.ts >= from

\* A table not due for a rewrite is fresh.
Settled == ~torn /\ ~marker /\ scope = "none" => \A t \in ExactTables : FreshTable(t)

\* A bounded rescore may keep the rows before its first bucket.
PrefixFresh == ~torn /\ scope = "since" =>
  \A t \in Bucketed : Below(table[t], from) = Below(Score(events)[t], from)

\* What a rebuild has written is fresh, and the table it has emptied holds
\* only the prefix it is to keep.
Progress ==
  /\ (~torn \/ scope = "all") => \A t \in ExactTables : Rewritten(t) => FreshTable(t)
  /\ pc = "append" =>
       /\ ~Partial(at) => table[at] = {}
       /\ Partial(at) => \A r \in table[at] : r.bucket < from

IInv == TypeOK /\ UniqueIds /\ Control /\ Settled /\ PrefixFresh /\ Progress

-----------------------------------------------------------------------------
\* The five tables of the scores, by name.
LEMMA ScoreFields ==
  ASSUME NEW E
  PROVE  /\ Score(E)["region"] = RegionRows(E) /\ Score(E)["family"] = FamilyRows(E)
         /\ Score(E)["baseline"] = BaselineRows(E)
         /\ Score(E)["familyBaseline"] = FamilyBaselineRows(E)
         /\ DOMAIN Score(E) = Table
BY DEF Score, Table

\* The invariant holds at the start.
LEMMA InitIInv == Init => IInv
<1> SUFFICES ASSUME Init PROVE IInv OBVIOUS
<1>1. TypeOK BY DEF Init, TypeOK, Table, Stage
<1>2. UniqueIds /\ Control BY DEF Init, UniqueIds, Control
<1>3. Settled /\ PrefixFresh /\ Progress
  BY DEF Init, Settled, PrefixFresh, Progress, Rewritten
<1> QED BY <1>1, <1>2, <1>3 DEF IInv

\* An ingest puts its rows at or after the bucket it will rescore from.
LEMMA IngestStep ==
  ASSUME IInv, NEW batch \in SUBSET Record, NEW kept \in SUBSET batch, Ingest(batch, kept)
  PROVE  IInv'
<1> USE DEF IInv
<1>1. TypeOK'
  <2>1. \A r \in kept : BucketStart(r.ts) \in Nat BY RecordFacts
  <2> QED BY <2>1 DEF Ingest, TypeOK, Stage
<1>2. UniqueIds'
  <2>1. \A x \in kept, e \in events : x.id # e.id BY DEF Ingest, Deduped
  <2> QED BY <2>1 DEF Ingest, Deduped, UniqueIds, UniqueIn
<1>3. CASE kept = {}
  <2>1. UNCHANGED <<events, table, torn, marker, at>> /\ scope' = "none" /\ pc' = "log"
    BY <1>3 DEF Ingest
  <2>2. scope = "none" /\ ~marker BY DEF Ingest, Control
  <2>3. Control' BY <2>1, <2>2 DEF Control
  <2>4. Settled' BY <2>1, <2>2 DEF Settled, FreshTable, Score
  <2>5. PrefixFresh' /\ Progress' BY <2>1 DEF PrefixFresh, Progress, Rewritten
  <2> QED BY <1>1, <1>2, <2>3, <2>4, <2>5
<1>4. CASE kept # {}
  <2>1. /\ UNCHANGED <<table, torn, marker, at>> /\ scope' = "since" /\ pc' = "log"
        /\ events' = events \cup kept /\ scope = "none" /\ ~marker
    BY <1>4 DEF Ingest, Control
  <2>2. PICK r \in kept : (\A x \in kept : r.ts <= x.ts) /\ from' = BucketStart(r.ts)
    BY <1>4 DEF Ingest
  <2>3. /\ from' \in Nat /\ from' = BucketStart(from') /\ from' <= r.ts
        /\ \A k \in kept : k.ts \in Nat /\ k.ts >= from'
    <3>1. r.ts \in Nat /\ \A k \in kept : k.ts \in Nat BY RecordFacts
    <3> QED BY <3>1, <2>2, RecordFacts, BucketFacts
  <2>4. Control'
    <3>1. r \in events' /\ r.ts >= from' BY <2>1, <2>3
    <3> QED BY <3>1, <2>1, <2>3 DEF Control
  <2>5. PrefixFresh'
    <3> SUFFICES ASSUME ~torn', NEW t \in Bucketed
                 PROVE  Below(table[t], from') = Below(Score(events')[t], from')
      BY <2>1 DEF PrefixFresh
    <3>1. FreshTable(t) BY <2>1 DEF Settled, Bucketed, ExactTables
    <3>2. Below(Score(events')[t], from') = Below(Score(events)[t], from')
      <4>1. kept \in SUBSET Record /\ events \in SUBSET Record BY DEF TypeOK
      <4>2. /\ Below(RegionRows(events \cup kept), from') = Below(RegionRows(events), from')
            /\ Below(FamilyRows(events \cup kept), from') = Below(FamilyRows(events), from')
        BY <4>1, <2>3, PrefixStable
      <4> QED BY <4>2, <2>1, ScoreFields DEF Bucketed
    <3> QED BY <3>1, <3>2 DEF FreshTable
  <2>6. Settled' /\ Progress' BY <2>1 DEF Settled, Progress, Rewritten
  <2> QED BY <1>1, <1>2, <2>4, <2>5, <2>6
<1> QED BY <1>3, <1>4

\* The prune of an ingest is the start of a rebuild.
LEMMA PruneStep ==
  ASSUME IInv, IngestPrune
  PROVE  IInv'
<1> USE DEF IInv
<1>1. TypeOK' BY DEF IngestPrune, BeginRebuild, TypeOK, Stage, Table
<1>2. UniqueIds' BY DEF IngestPrune, UniqueIds, UniqueIn
<1>3. CASE Expired # {}
  <2>1. pc' = "delete" /\ scope' = "all" /\ at' = "region" /\ ~marker'
    BY <1>3 DEF IngestPrune, BeginRebuild, Control
  <2> QED BY <1>1, <1>2, <2>1 DEF Control, Settled, PrefixFresh, Progress, Rewritten, Rank, ExactTables
<1>4. CASE Expired = {}
  <2>1. UNCHANGED <<events, table, torn, marker, from>> /\ scope' = scope /\ ~marker
        /\ \/ scope = "since" /\ pc' = "delete" /\ at' = "region"
           \/ scope = "none" /\ pc' = "idle"
    BY <1>4 DEF IngestPrune, BeginRebuild, Control
  <2>2. Control' BY <2>1 DEF Control, IngestPrune
  <2>3. Settled' /\ PrefixFresh' BY <2>1 DEF Settled, PrefixFresh, FreshTable
  <2>4. Progress' BY <2>1 DEF Progress, Rewritten, Rank, ExactTables
  <2> QED BY <1>1, <1>2, <2>2, <2>3, <2>4
<1> QED BY <1>3, <1>4

\* A rebuild deletes the rows it will write again.
LEMMA DeleteStep ==
  ASSUME IInv, RebuildDelete
  PROVE  IInv'
<1> USE DEF IInv
<1>0. /\ UNCHANGED <<events, marker, at, scope, from, torn>> /\ pc = "delete" /\ pc' = "append"
      /\ \A t \in Table \ {at} : table'[t] = table[t]
      /\ DOMAIN table' = Table
      /\ table'[at] = IF Partial(at) THEN Below(table[at], from) ELSE {}
  BY DEF RebuildDelete, TypeOK
<1>1. TypeOK' BY DEF RebuildDelete, TypeOK, Stage
<1>2. UniqueIds' BY <1>0 DEF UniqueIds, UniqueIn
<1>3. Control' BY <1>0 DEF Control
<1>4. Settled' BY <1>0 DEF Settled, Control
<1>5. PrefixFresh'
  <2>1. ASSUME scope = "since", NEW t \in Bucketed
        PROVE  Below(table'[t], from) = Below(table[t], from)
    BY <1>0, <2>1 DEF Partial, Below, Bucketed, Table
  <2> QED BY <2>1, <1>0 DEF PrefixFresh
<1>6. Progress'
  <2>1. \A t \in ExactTables : Rewritten(t)' => Rewritten(t) /\ t # at
    BY <1>0 DEF Rewritten, Rank, ExactTables, TypeOK, Table
  <2>2. \A t \in ExactTables \ {at} : FreshTable(t)' <=> FreshTable(t)
    BY <1>0 DEF FreshTable, ExactTables, Table
  <2>3. Partial(at)' <=> Partial(at) BY <1>0 DEF Partial
  <2> QED BY <1>0, <2>1, <2>2, <2>3 DEF Progress, Below
<1> QED BY <1>1, <1>2, <1>3, <1>4, <1>5, <1>6

\* What the rebuild appends completes the table: this is where the bounded
\* read has to be exact.
LEMMA AppendCompletes ==
  ASSUME IInv, pc = "append", at \in ExactTables, ~torn \/ scope = "all"
  PROVE  table[at] \cup (IF Partial(at) THEN AtOrAfter(Scored[at], from) ELSE Scored[at])
           = Score(events)[at]
<1> USE DEF IInv
<1> DEFINE R == ReadSince(events, ScoreReadStart(from))
<1>0. events \in SUBSET Record /\ from \in Nat /\ scope \in {"since", "all"}
  BY DEF TypeOK, Control
<1>1. CASE scope = "all"
  <2>1. ~Partial(at) /\ table[at] = {} BY <1>1 DEF Partial, Progress
  <2>2. Scored = Score(events) BY <1>1 DEF Scored
  <2> QED BY <2>1, <2>2
<1>2. CASE scope = "since"
  <2>1. from = BucketStart(from) /\ (\E e \in events : e.ts >= from) /\ ~torn BY <1>2 DEF Control
  <2>2. Scored = Score(R) BY <1>2 DEF Scored
  <2>3. CASE at = "baseline"
    <3>1. ~Partial(at) /\ table[at] = {} BY <2>3 DEF Partial, Bucketed, Progress
    <3>2. BaselineRows(R) = BaselineRows(events) BY <1>0, <2>1, BaselinesExact
    <3> QED BY <3>1, <3>2, <2>2, <2>3, ScoreFields
  <2>4. CASE at \in Bucketed
    <3>1. Partial(at) BY <2>4, <1>2 DEF Partial
    <3>2. table[at] = Below(table[at], from) BY <3>1 DEF Progress, Below
    <3>3. Below(table[at], from) = Below(Score(events)[at], from)
      BY <1>2, <2>1, <2>4 DEF PrefixFresh
    <3>4. AtOrAfter(Scored[at], from) = AtOrAfter(Score(events)[at], from)
      <4>1. /\ AtOrAfter(RegionRows(R), from) = AtOrAfter(RegionRows(events), from)
            /\ AtOrAfter(FamilyRows(R), from) = AtOrAfter(FamilyRows(events), from)
        BY <1>0, <2>1, BucketsExact
      <4> QED BY <4>1, <2>2, <2>4, ScoreFields DEF Bucketed
    <3>5. Score(events)[at] = Below(Score(events)[at], from) \cup AtOrAfter(Score(events)[at], from)
      BY <1>0, <2>4, SplitRows, ScoreFields DEF Bucketed
    <3> QED BY <3>1, <3>2, <3>3, <3>4, <3>5
  <2> QED BY <2>3, <2>4 DEF ExactTables, Bucketed
<1> QED BY <1>0, <1>1, <1>2

\* A rebuild appends a table and goes on to the next.
LEMMA AppendStep ==
  ASSUME IInv, RebuildAppend
  PROVE  IInv'
<1> USE DEF IInv
<1>0. /\ UNCHANGED <<events, marker, scope, from, torn>> /\ pc = "append"
      /\ \A t \in Table \ {at} : table'[t] = table[t]
      /\ DOMAIN table' = Table
      /\ table'[at] = table[at] \cup (IF Partial(at) THEN AtOrAfter(Scored[at], from) ELSE Scored[at])
      /\ at \in Table
      /\ \/ at # "familyBaseline" /\ at' = Next1[at] /\ pc' = "delete"
         \/ at = "familyBaseline" /\ at' = at /\ pc' = "mark"
  BY DEF RebuildAppend, TypeOK
<1>1. TypeOK' BY DEF RebuildAppend, TypeOK, Stage, Table, Next1
<1>2. UniqueIds' BY <1>0 DEF UniqueIds, UniqueIn
<1>3. Control' BY <1>0 DEF Control
<1>4. Settled' BY <1>0 DEF Settled, Control
<1>5. PrefixFresh'
  <2>1. ASSUME scope = "since", NEW t \in Bucketed
        PROVE  Below(table'[t], from) = Below(table[t], from)
    <3>1. CASE t # at BY <3>1, <1>0 DEF Bucketed, Table
    <3>2. CASE t = at
      <4>1. table'[at] = table[at] \cup AtOrAfter(Scored[at], from)
        BY <3>2, <2>1, <1>0 DEF Partial
      <4>2. \A r \in AtOrAfter(Scored[at], from) : r.bucket >= from BY DEF AtOrAfter
      <4>3. at \in Bucketed BY <3>2
      <4>4. events \in SUBSET Record /\ from \in Nat BY DEF TypeOK
      <4>5. \A r \in Scored[at] : r.bucket \in Nat
        <5> DEFINE R == ReadSince(events, ScoreReadStart(from))
        <5>1. R \subseteq events BY <4>4, ReadKeeps
        <5>2. \A e \in R : BucketStart(e.ts) \in Nat BY <5>1, <4>4, RecordFacts
        <5>3. \A r \in RegionRows(R) : r.bucket \in Nat BY <5>2 DEF RegionRows, RegionRow
        <5>4. \A r \in FamilyRows(R) : r.bucket \in Nat BY <5>2 DEF FamilyRows, FamilyRow
        <5>5. Scored = Score(R) BY <2>1 DEF Scored
        <5> QED BY <5>3, <5>4, <5>5, <4>3, ScoreFields DEF Bucketed
      <4>6. \A r \in AtOrAfter(Scored[at], from) : ~(r.bucket < from)
        BY <4>2, <4>4, <4>5 DEF AtOrAfter
      <4> QED BY <4>1, <4>6, <3>2 DEF Below
    <3> QED BY <3>1, <3>2
  <2> QED BY <2>1, <1>0 DEF PrefixFresh
<1>6. Progress'
  <2>1. \A t \in ExactTables : Rewritten(t)' => Rewritten(t) \/ t = at
    BY <1>0 DEF Rewritten, Rank, ExactTables, Table, Next1
  <2>2. \A t \in ExactTables \ {at} : FreshTable(t)' <=> FreshTable(t)
    BY <1>0 DEF FreshTable, ExactTables, Table
  <2>3. at \in ExactTables /\ (~torn \/ scope = "all") => table'[at] = Score(events')[at]
    BY <1>0, AppendCompletes
  <2>4. pc' # "append" BY <1>0
  <2>5. ASSUME NEW t \in ExactTables, Rewritten(t)', ~torn' \/ scope' = "all"
        PROVE  FreshTable(t)'
    <3>1. CASE t = at BY <3>1, <2>3, <2>5, <1>0 DEF FreshTable
    <3>2. CASE t # at BY <3>2, <2>1, <2>2, <2>5, <1>0 DEF Progress
    <3> QED BY <3>1, <3>2
  <2> QED BY <2>4, <2>5 DEF Progress
<1> QED BY <1>1, <1>2, <1>3, <1>4, <1>5, <1>6

\* Once every table has been rewritten the store is settled again.
LEMMA ClearStep ==
  ASSUME IInv, ClearMarker
  PROVE  IInv'
<1> USE DEF IInv
<1>1. TypeOK' BY DEF ClearMarker, TypeOK, Stage
<1>2. UniqueIds' BY DEF ClearMarker, UniqueIds, UniqueIn
<1>3. Control' BY DEF ClearMarker, Control
<1>4. Settled'
  <2>1. ASSUME ~torn' PROVE \A t \in ExactTables : FreshTable(t)
    BY <2>1 DEF ClearMarker, Progress, Rewritten
  <2> QED BY <2>1 DEF ClearMarker, Settled, FreshTable
<1>5. PrefixFresh' /\ Progress' BY DEF ClearMarker, PrefixFresh, Progress, Rewritten
<1> QED BY <1>1, <1>2, <1>3, <1>4, <1>5

\* A purge takes a source's records and rescores everything that is left.
LEMMA PurgeStep ==
  ASSUME IInv, NEW s \in Source, PurgeSource(s)
  PROVE  IInv'
<1> USE DEF IInv
<1>0. pc' = "idle" /\ pc = "idle" /\ scope' = "none" /\ scope = "none" /\ ~marker /\ ~marker'
      /\ UNCHANGED <<retention, at, from, faults>>
  BY DEF PurgeSource, Control
<1>1. TypeOK'
  <2>1. DOMAIN table' = Table BY ScoreFields DEF PurgeSource, TypeOK
  <2> QED BY <2>1 DEF PurgeSource, TypeOK, Stage
<1>2. UniqueIds' BY DEF PurgeSource, UniqueIds, UniqueIn
<1>3. Control' /\ PrefixFresh' /\ Progress'
  BY <1>0 DEF Control, PrefixFresh, Progress, Rewritten
<1>4. Settled'
  <2>1. CASE \A e \in events : e.source # s
    BY <2>1, <1>0 DEF PurgeSource, Settled, FreshTable
  <2>2. CASE \E e \in events : e.source = s
    <3>1. table' = Score(events') BY <2>2 DEF PurgeSource
    <3> QED BY <3>1 DEF Settled, FreshTable
  <2> QED BY <2>1, <2>2
<1> QED BY <1>1, <1>2, <1>3, <1>4

\* A fault either leaves settled tables settled or is remembered as torn.
LEMMA FaultStep ==
  ASSUME IInv, Crash \/ StatementFails
  PROVE  IInv'
<1> USE DEF IInv
<1>0. /\ UNCHANGED <<events, table, marker, log, at, from>> /\ scope' = "none"
      /\ torn' = (torn \/ (pc \notin {"idle", "down", "mark"} /\ ~marker /\ scope # "none"))
      /\ pc' \in {"down", "idle"} /\ (marker => pc' = "down")
  BY DEF Crash, StatementFails, durable, CutOff
<1>1. TypeOK'
  <2>1. torn' \in BOOLEAN BY <1>0, Zenon
  <2>2. faults' \in Nat /\ retention' \in Nat BY DEF Crash, StatementFails, TypeOK
  <2> QED BY <2>1, <2>2, <1>0 DEF TypeOK, Stage
<1>2. UniqueIds' BY <1>0 DEF UniqueIds, UniqueIn
<1>3. Control' /\ PrefixFresh' /\ Progress'
  BY <1>0 DEF Control, PrefixFresh, Progress, Rewritten
<1>4. Settled'
  <2>1. ASSUME ~torn', ~marker PROVE \A t \in ExactTables : FreshTable(t)
    <3>1. ~torn BY <2>1, <1>0
    <3>2. CASE scope = "none" BY <3>1, <3>2, <2>1 DEF Settled
    <3>3. CASE scope # "none"
      <4>1. pc = "mark" BY <3>3, <2>1, <1>0 DEF Control
      <4> QED BY <4>1, <3>1 DEF Progress, Rewritten
    <3> QED BY <3>2, <3>3
  <2> QED BY <2>1, <1>0 DEF Settled, FreshTable
<1> QED BY <1>1, <1>2, <1>3, <1>4

\* The other steps change no events and no table.
LEMMA OtherSteps ==
  ASSUME IInv,
         \/ Open
         \/ \E days \in Retention : SetRetention(days)
         \/ \E failing \in SUBSET Source : IngestLog(failing)
         \/ UNCHANGED vars
  PROVE  IInv'
<1> USE DEF IInv
<1>1. CASE Open
  <2>1. TypeOK' BY <1>1 DEF Open, TypeOK, Stage, durable, BeginRebuild, Table
  <2>2. CASE marker
    <3>1. pc' = "delete" /\ scope' = "all" /\ at' = "region" /\ UNCHANGED <<events, table, marker, from, torn>>
      BY <2>2, <1>1 DEF Open, BeginRebuild, durable
    <3> QED BY <2>1, <3>1 DEF UniqueIds, UniqueIn, Control, Settled, PrefixFresh,
                              Progress, Rewritten, Rank, ExactTables
  <2>3. CASE ~marker
    <3>1. pc' = "idle" /\ scope' = "none" /\ scope = "none" /\ UNCHANGED <<events, table, marker, from, torn, at>>
      BY <2>3, <1>1 DEF Open, BeginRebuild, durable, Control
    <3> QED BY <2>1, <3>1, <2>3 DEF UniqueIds, UniqueIn, Control, Settled, PrefixFresh,
                              Progress, Rewritten, FreshTable
  <2> QED BY <2>2, <2>3 DEF TypeOK
<1>2. CASE \E days \in Retention : SetRetention(days)
  BY <1>2, RetentionAssumption DEF SetRetention, durable, TypeOK, UniqueIds, UniqueIn, Control,
     Settled, PrefixFresh, Progress, Rewritten, FreshTable, Partial
<1>3. CASE \E failing \in SUBSET Source : IngestLog(failing)
  BY <1>3 DEF IngestLog, TypeOK, Stage, UniqueIds, UniqueIn, Control,
     Settled, PrefixFresh, Progress, Rewritten, FreshTable, Partial
<1>4. CASE UNCHANGED vars
  BY <1>4 DEF vars, TypeOK, UniqueIds, UniqueIn, Control,
     Settled, PrefixFresh, Progress, Rewritten, FreshTable, Partial
<1> QED BY <1>1, <1>2, <1>3, <1>4

\* The inductive invariant holds of every behaviour of the store.
THEOREM StoreInvariant == Spec => []IInv
<1>1. IInv /\ [Next]_vars => IInv'
  <2> SUFFICES ASSUME IInv, [Next]_vars PROVE IInv' OBVIOUS
  <2>1. CASE \E batch \in SUBSET Record : \E kept \in SUBSET batch : Ingest(batch, kept)
    BY <2>1, IngestStep
  <2>2. CASE IngestPrune BY <2>2, PruneStep
  <2>3. CASE RebuildDelete BY <2>3, DeleteStep
  <2>4. CASE RebuildAppend BY <2>4, AppendStep
  <2>5. CASE ClearMarker BY <2>5, ClearStep
  <2>6. CASE \E s \in Source : PurgeSource(s) BY <2>6, PurgeStep
  <2>7. CASE Crash \/ StatementFails BY <2>7, FaultStep
  <2>8. CASE \/ Open
             \/ \E days \in Retention : SetRetention(days)
             \/ \E failing \in SUBSET Source : IngestLog(failing)
             \/ UNCHANGED vars
    BY <2>8, OtherSteps
  <2> QED BY <2>1, <2>2, <2>3, <2>4, <2>5, <2>6, <2>7, <2>8 DEF Next
<1> QED BY InitIInv, <1>1, PTL DEF Spec

\* Every variable keeps its type.
THEOREM StoreTypeOK == Spec => []TypeOK
<1>1. IInv => TypeOK BY DEF IInv
<1> QED BY <1>1, StoreInvariant, PTL

\* No two rows of the events table share an id (do_ingest's dedup).
THEOREM StoreUniqueIds == Spec => []UniqueIds
<1>1. IInv => UniqueIds BY DEF IInv
<1> QED BY <1>1, StoreInvariant, PTL

\* Unless a command was cut off, a query is answered from the tables a full
\* rescore of the events would give (rebuild_buckets, DATA_MODEL.md's three rules).
THEOREM StoreDerivedFresh == Spec => []DerivedFresh
<1>1. IInv => DerivedFresh BY DEF IInv, DerivedFresh, Settled, Control
<1> QED BY <1>1, StoreInvariant, PTL

\* A row leaves the events table only with its whole source, or for being
\* further behind the newest row than the retention in force allows.
THEOREM StoreLossOnlyByPolicy == Spec => LossOnlyByPolicy
<1> DEFINE Allowed(e) ==
      \/ \E n \in events : retention > 0 /\ n.ts - e.ts > 24 * retention
      \/ \A x \in events : x.source = e.source <=> x \notin events'
<1>1. ASSUME TypeOK, [Next]_vars, NEW e \in events \ events'
      PROVE  Allowed(e)
  <2>1. CASE IngestPrune
    <3>1. e \in Expired BY <2>1 DEF IngestPrune
    <3>2. PICK n \in Newest : retention > 0 /\ e.ts < 24 * Day(n.ts - 24 * retention)
      BY <3>1 DEF Expired
    <3>3. n \in events /\ n.ts \in Nat /\ e.ts \in Nat /\ retention \in Nat
      BY <1>1, RecordFacts DEF Newest, TypeOK
    <3>4. 24 * Day(n.ts - 24 * retention) <= n.ts - 24 * retention BY <3>3 DEF Day
    <3>5. Day(n.ts - 24 * retention) \in Int BY <3>3, DayFacts
    <3>6. n.ts - e.ts > 24 * retention BY <3>2, <3>3, <3>4, <3>5
    <3> QED BY <3>2, <3>3, <3>6
  <2>2. CASE \E s \in Source : PurgeSource(s)
    <3>1. PICK s \in Source : PurgeSource(s) BY <2>2
    <3>2. events' = {x \in events : x.source # s} BY <3>1, <1>1 DEF PurgeSource
    <3> QED BY <3>2
  <2>3. CASE \E batch \in SUBSET Record : \E kept \in SUBSET batch : Ingest(batch, kept)
    BY <2>3 DEF Ingest
  <2>4. CASE \/ Open \/ RebuildDelete \/ RebuildAppend \/ ClearMarker \/ Crash
             \/ StatementFails \/ UNCHANGED vars
             \/ (\E days \in Retention : SetRetention(days))
             \/ (\E failing \in SUBSET Source : IngestLog(failing))
    <3>1. events' = events
      BY <2>4 DEF Open, RebuildDelete, RebuildAppend, ClearMarker, Crash, StatementFails,
                  SetRetention, IngestLog, durable, vars
    <3> QED BY <3>1
  <2> QED BY <1>1, <2>1, <2>2, <2>3, <2>4 DEF Next
<1>2. TypeOK /\ [Next]_vars => [\A e \in events \ events' : Allowed(e)]_vars BY <1>1
<1> QED BY <1>2, StoreTypeOK, PTL DEF Spec, LossOnlyByPolicy

\* Of finitely many records there is a newest: the one with the fewest after it.
LEMMA NewestExists ==
  ASSUME IsFiniteSet(Record), NEW E \in SUBSET Record, E # {}
  PROVE  \E m \in E : \A x \in E : x.ts <= m.ts
<1> DEFINE After(e) == {x \in E : e.ts < x.ts}
           T == {n \in Nat : \E e \in E : n = Cardinality(After(e))}
<1>1. \A e \in E : e.ts \in Nat BY RecordFacts
<1>2. ASSUME NEW e \in E PROVE IsFiniteSet(After(e)) /\ Cardinality(After(e)) \in Nat
  <2>1. After(e) \subseteq Record OBVIOUS
  <2>2. IsFiniteSet(After(e)) BY <2>1, FS_Subset
  <2> QED BY <2>2, FS_CardinalityType
<1>3. T # {} BY <1>2
<1>4. PICK n \in T : \A k \in T : n <= k BY <1>3, LeastExists
<1>5. PICK m \in E : n = Cardinality(After(m)) BY <1>4
<1>6. ASSUME NEW x \in E, m.ts < x.ts PROVE FALSE
  <2>1. After(x) \subseteq After(m) BY <1>1, <1>6
  <2>2. x \in After(m) /\ x \notin After(x) BY <1>1, <1>6
  <2>3. After(x) # After(m) BY <2>2
  <2>4. Cardinality(After(x)) \in T BY <1>2
  <2> HIDE DEF After
  <2>5. /\ Cardinality(After(x)) <= Cardinality(After(m))
        /\ Cardinality(After(x)) # Cardinality(After(m))
    BY <1>2, <2>1, <2>3, FS_Subset
  <2>6. n <= Cardinality(After(x)) BY <1>4, <2>4
  <2> QED BY <1>2, <1>5, <2>5, <2>6
<1> QED BY <1>1, <1>6

\* After an ingest has applied the retention, no row is a day or more older than
\* it allows, counted from the newest (prune_events).  A store has finitely many
\* rows, so that there is a newest.
THEOREM StoreRetentionToTheDay ==
  ASSUME IsFiniteSet(Record)
  PROVE  Spec => RetentionToTheDay
<1> DEFINE Applied == pc = "prune" /\ pc' \in {"delete", "idle"} /\ retention > 0 /\ faults' = faults
           Kept == \A e, n \in events' : n.ts - e.ts < 24 * (retention + 1)
<1>1. ASSUME TypeOK, [Next]_vars, Applied PROVE Kept
  <2>1. IngestPrune
    <3>1. faults \in Nat BY <1>1 DEF TypeOK
    <3>2. ~Crash /\ ~StatementFails BY <1>1, <3>1 DEF Crash, StatementFails
    <3>3. ~UNCHANGED vars BY <1>1 DEF vars
    <3> QED BY <1>1, <3>2, <3>3
      DEF Next, Open, SetRetention, Ingest, IngestLog, RebuildDelete, RebuildAppend,
          ClearMarker, PurgeSource
  <2>2. events' = events \ Expired BY <2>1 DEF IngestPrune
  <2> SUFFICES ASSUME NEW e \in events', NEW n \in events'
               PROVE  n.ts - e.ts < 24 * (retention + 1)
    OBVIOUS
  <2>3. events \in SUBSET Record /\ retention \in Nat BY <1>1 DEF TypeOK
  <2>4. e \in events /\ n \in events /\ e \notin Expired BY <2>2
  <2>5. PICK m \in events : \A x \in events : x.ts <= m.ts BY <2>3, <2>4, NewestExists
  <2>6. e.ts \in Nat /\ n.ts \in Nat /\ m.ts \in Nat BY <2>3, <2>4, RecordFacts
  <2>7. PICK a \in Int : a = m.ts - 24 * retention BY <2>3, <2>6
  <2>8. a < 24 * Day(a) + 24 /\ Day(a) \in Int BY DEF Day
  <2>9. ~(e.ts < 24 * Day(a)) BY <1>1, <2>4, <2>5, <2>7 DEF Expired, Newest
  <2>10. n.ts <= m.ts BY <2>4, <2>5
  <2> QED BY <2>3, <2>6, <2>7, <2>8, <2>9, <2>10
<1>2. TypeOK /\ [Next]_vars => [Applied => Kept]_vars BY <1>1
<1> QED BY <1>2, StoreTypeOK, PTL DEF Spec, RetentionToTheDay
=============================================================================
