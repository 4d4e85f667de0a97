--------------------------- MODULE SnapshotProofs ---------------------------
(***************************************************************************)
(* LatestResolves, ReadsWhole and NotModifiedHonest hold of every          *)
(* deployment, whatever the clock does, wherever the publisher dies and    *)
(* however its steps and a client's requests interleave.                   *)
(***************************************************************************)
EXTENDS Snapshot, Integers, FiniteSetTheorems, TLAPS

Pcs == {"idle", "export", "flip", "prune"}

TypeOK ==
  /\ keepLast \in Keep /\ now \in Version /\ rev \in Nat
  /\ dirs \in [Version -> {"absent", "partial", "complete"}]
  /\ content \in [Version -> Nat]
  /\ latest \in Version \cup {None} /\ version \in Version \cup {None}
  /\ pc \in Pcs /\ doomed \in SUBSET Version
  /\ req \in [st : {"idle", "etag", "handler", "read"}, etag : Version \cup {None},
              dir : Version \cup {None}, seen : 0 .. Span]
  /\ cache \in [etag : Version \cup {None}, body : Nat]
  /\ broken \in BOOLEAN /\ dishonest \in BOOLEAN
  /\ crashes \in Nat /\ setBacks \in Nat

\* A version is being written: it is not yet what LATEST names.
Writing == pc \in {"export", "flip"}

\* What the publisher's step says of its directory.
Control ==
  /\ pc = "export" => version \in Version /\ dirs[version] = "partial"
  /\ pc = "flip" => version \in Version /\ dirs[version] = "complete"
  /\ pc = "prune" <=> doomed # {}
  /\ keepLast = 0 => doomed = {}
  /\ doomed \subseteq Existing

\* Names grow with the clock as long as it is not set back.
InClockOrder ==
  setBacks = 0 =>
    /\ latest <= now
    /\ \A v \in Existing : v <= now
    /\ Writing => (\A v \in Existing : v <= version) /\ latest < version

\* What LATEST names is there, and is not about to be pruned.
Resolves ==
  Orderly /\ latest # None => dirs[latest] = "complete" /\ latest \notin doomed

\* The names a client holds on to: LATEST has named each of them.
Held == {req.etag, req.dir, cache.etag}

\* None of them, once LATEST has moved on, can be given out again.
NeverAgain ==
  Orderly =>
    /\ Writing => version # latest
    /\ \A e \in Held \ {None} :
         /\ latest # None
         /\ Writing => version # e
         /\ keepLast = 0 => dirs[e] = "complete"
         /\ setBacks = 0 => e <= latest

\* A body that is cached, or being read, under the current ETag is the current body.
Current ==
  /\ req.st = "read" => req.dir # None
  /\ Orderly =>
    /\ req.st = "read" /\ req.etag = latest => req.dir = latest
    /\ cache.etag # None /\ cache.etag = latest => cache.body = content[latest]

\* With nothing gone wrong, all versions but the one being written are old...
Tidy ==
  crashes = 0 /\ setBacks = 0 =>
    \A v \in Existing : v <= latest \/ (Writing /\ v = version)

\* ...and the version being read is younger than those that are pruned.
Newer(d) == {w \in Existing : w > d}
StillThere ==
  req.st = "read" /\ (keepLast = 0 \/ (crashes = 0 /\ setBacks = 0)) =>
    /\ req.dir # None /\ dirs[req.dir] = "complete" /\ req.dir \notin doomed
    /\ keepLast # 0 => Cardinality(Newer(req.dir)) <= req.seen + (IF Writing THEN 1 ELSE 0)

IInv ==
  /\ TypeOK /\ Control /\ InClockOrder /\ Resolves /\ NeverAgain /\ Current /\ Tidy
  /\ StillThere /\ ReadsWhole /\ NotModifiedHonest

-----------------------------------------------------------------------------
Less == {ss \in Nat \X Nat : ss[1] < ss[2]}

\* The least-number principle, for sets: every set of naturals has a least member.
LEMMA LeastNat ==
  ASSUME NEW T, T \subseteq Nat, T # {}
  PROVE  \E m \in T : \A k \in T : m <= k
<1>1. OpToRel(<, Nat) = Less BY DEF OpToRel, Less
<1>2. IsWellFoundedOn(Less, Nat) BY <1>1, NatLessThanWellFounded
<1>3. PICK m \in T : \A k \in T : <<k, m>> \notin Less BY <1>2, WFMin
<1>4. ASSUME NEW k \in T PROVE m <= k
  <2>1. k \in Nat /\ m \in Nat OBVIOUS
  <2>2. <<k, m>> \in Nat \X Nat /\ <<k, m>>[1] = k /\ <<k, m>>[2] = m BY <2>1
  <2>3. ~(k < m) BY <1>3, <2>2 DEF Less
  <2> QED BY <2>1, <2>3
<1> QED BY <1>4

\* There is a newest version among those to be pruned.
LEMMA NewestDoomed ==
  ASSUME NEW D, D \subseteq Version, D # {}
  PROVE  \E v \in D : \A w \in D : w <= v
<1> USE BoundAssumption DEF Version
<1> DEFINE T == {n \in Nat : \A w \in D : w <= n}
<1>1. MaxTime \in T OBVIOUS
<1>2. PICK m \in T : \A k \in T : m <= k BY <1>1, LeastNat
<1>3. CASE m \in D BY <1>3
<1>4. CASE m \notin D
  <2>1. \A w \in D : w \in Nat /\ w >= 1 /\ w <= m /\ w # m BY <1>4
  <2>0. m \in Nat BY <1>2
  <2>2. m # 0
    <3>1. PICK w \in D : TRUE OBVIOUS
    <3> QED BY <3>1, <2>1, <2>0
  <2>3. m - 1 \in Nat /\ \A w \in D : w <= m - 1 BY <2>0, <2>1, <2>2
  <2>4. m - 1 \in T BY <2>3
  <2> QED BY <2>2, <2>4, <1>2
<1> QED BY <1>3, <1>4

\* A set of versions is finite.
LEMMA Finite == ASSUME NEW S, S \subseteq Version PROVE IsFiniteSet(S) /\ Cardinality(S) \in Nat
<1>1. IsFiniteSet(Version) BY BoundAssumption, FS_Interval DEF Version
<1>2. IsFiniteSet(S) BY <1>1, FS_Subset
<1> QED BY <1>2, FS_CardinalityType

\* A directory that appears or goes changes the number of newer ones by at most one.
LEMMA NewerGrows ==
  ASSUME NEW d, Newer(d)' \subseteq Newer(d)
  PROVE  Cardinality(Newer(d)') <= Cardinality(Newer(d))
BY Finite, FS_Subset DEF Newer, Existing

-----------------------------------------------------------------------------
\* The invariant holds at the start.
LEMMA InitIInv == Init => IInv
<1> SUFFICES ASSUME Init PROVE IInv OBVIOUS
<1> USE BoundAssumption
<1>1. now = 1 /\ 1 \in Version BY DEF Init, Version
<1>6. dirs \in [Version -> {"absent", "partial", "complete"}] /\ content \in [Version -> Nat]
  BY DEF Init
<1>8. /\ req \in [st : {"idle", "etag", "handler", "read"}, etag : Version \cup {None},
                   dir : Version \cup {None}, seen : 0 .. Span]
      /\ cache \in [etag : Version \cup {None}, body : Nat]
  BY DEF Init, NoRequest, NoCache, None
<1>7. TypeOK BY <1>1, <1>6, <1>8 DEF Init, TypeOK, Pcs
<1>3. Existing = {} BY DEF Init, Existing
<1>2. Control /\ Resolves BY DEF Init, Control, Resolves
<1>4. InClockOrder /\ Tidy /\ ~Writing
  BY <1>3 DEF Init, InClockOrder, Tidy, Writing, None
<1>5. NeverAgain /\ Current /\ StillThere /\ ReadsWhole /\ NotModifiedHonest
  BY <1>4 DEF Init, NeverAgain, Held, Current, StillThere, ReadsWhole, NotModifiedHonest,
              NoRequest, NoCache
<1> QED BY <1>7, <1>2, <1>4, <1>5 DEF IInv

-----------------------------------------------------------------------------
\* The publisher's steps.

\* While the clock has not been set back the new version's name is the present.
LEMMA FreshIsNow ==
  ASSUME TypeOK, NEW v \in Version, FreshVersion(v), now \in Existing => setBacks > 0, setBacks = 0
  PROVE  v = now
<1>1. v \in Nat /\ now \in Nat /\ v >= now BY DEF FreshVersion, TypeOK, Version
<1>2. v # now => now \in now .. v - 1 BY <1>1
<1>3. now \notin Existing OBVIOUS
<1> QED BY <1>1, <1>2, <1>3 DEF FreshVersion

\* A new version begins as a directory that nothing points to.
LEMMA BeginStep ==
  ASSUME IInv, NEW v \in Version, Begin(v)
  PROVE  IInv'
<1> USE DEF IInv
<1>0. /\ pc = "idle" /\ pc' = "export" /\ version' = v /\ rev' = rev + 1
      /\ UNCHANGED <<keepLast, now, latest, doomed, client, crashes, setBacks>>
      /\ dirs' = [dirs EXCEPT ![v] = "partial"] /\ content' = [content EXCEPT ![v] = rev']
      /\ doomed = {} /\ v \notin Existing /\ ~Writing /\ Writing'
  BY DEF Begin, FreshVersion, Control, Writing
<1>1. TypeOK'
  <2>1. rev' \in Nat BY <1>0 DEF TypeOK
  <2> QED BY <1>0, <2>1 DEF TypeOK, Pcs, client
<1>2. /\ Existing' = Existing \cup {v} /\ dirs'[v] = "partial"
      /\ \A w \in Version \ {v} : dirs'[w] = dirs[w] /\ content'[w] = content[w]
  BY <1>0 DEF Existing, TypeOK
<1>3. setBacks = 0 => v = now /\ latest < v
  <2>1. setBacks = 0 => v = now BY FreshIsNow DEF Begin
  <2>2. setBacks = 0 => latest <= now /\ latest # now
    <3>1. setBacks = 0 /\ latest # None => dirs[latest] = "complete" BY DEF Resolves, Orderly
    <3>2. latest \in Nat /\ now \in Nat /\ now # None BY DEF TypeOK, Version, None
    <3> QED BY <3>1, <3>2, <2>1, <1>0 DEF InClockOrder, Existing, TypeOK
  <2> QED BY <2>1, <2>2 DEF TypeOK, Version, None
<1>4. Control' BY <1>0, <1>2 DEF Control
<1>5. InClockOrder'
  <2>1. \A w \in Existing : w \in Nat BY DEF Existing, Version
  <2> QED BY <1>0, <1>2, <1>3, <2>1 DEF InClockOrder, TypeOK, Version
<1>6. Orderly /\ latest # None => latest # v /\ dirs[latest] = "complete"
  BY <1>0 DEF Resolves, Existing
<1>7. Resolves' BY <1>0, <1>2, <1>6 DEF Resolves, Orderly, TypeOK
<1>8. NeverAgain'
  <2>1. ASSUME Orderly, NEW e \in Held \ {None} PROVE v # e /\ (keepLast = 0 => dirs'[e] = "complete")
    <3>1. e \in Version BY DEF Held, TypeOK
    <3>2. CASE keepLast = 0 BY <3>1, <3>2, <2>1, <1>0, <1>2 DEF NeverAgain, Existing
    <3>3. CASE keepLast # 0
      <4>1. setBacks = 0 /\ e <= latest BY <3>3, <2>1 DEF Orderly, NeverAgain
      <4> QED BY <4>1, <3>1, <3>3, <1>3 DEF TypeOK, Version, None
    <3> QED BY <3>2, <3>3
  <2> QED BY <1>0, <1>6, <2>1 DEF NeverAgain, Held, Orderly, client, TypeOK, Version, None
<1>9. Current' BY <1>0, <1>2, <1>6 DEF Current, Orderly, client, TypeOK
<1>10. Tidy' BY <1>0, <1>2, <1>3 DEF Tidy, Writing
<1>11. StillThere'
  <2> SUFFICES ASSUME req.st = "read", keepLast = 0 \/ (crashes = 0 /\ setBacks = 0)
               PROVE  /\ req.dir # None /\ dirs'[req.dir] = "complete" /\ req.dir \notin doomed
                      /\ keepLast # 0 => Cardinality(Newer(req.dir)') <= req.seen + 1
    BY <1>0 DEF StillThere, client
  <2>1. req.dir # None /\ dirs[req.dir] = "complete" /\ req.dir \notin doomed BY DEF StillThere
  <2>2. req.dir \in Version /\ req.seen \in Nat BY <2>1, BoundAssumption DEF TypeOK
  <2>3. req.dir # v BY <2>1, <1>0 DEF Existing
  <2>4. ASSUME keepLast # 0 PROVE Cardinality(Newer(req.dir)') <= req.seen + 1
    <3>1. Cardinality(Newer(req.dir)) <= req.seen BY <2>2, <2>4, <1>0 DEF StillThere
    <3>2. Newer(req.dir) \subseteq Version BY DEF Newer, Existing
    <3>3. Newer(req.dir)' \subseteq Newer(req.dir) \cup {v} BY <1>0, <1>2 DEF Newer, client
    <3>4. IsFiniteSet(Newer(req.dir)) /\ Cardinality(Newer(req.dir)) \in Nat BY <3>2, Finite
    <3>5. /\ IsFiniteSet(Newer(req.dir) \cup {v})
          /\ Cardinality(Newer(req.dir) \cup {v})
               = IF v \in Newer(req.dir) THEN Cardinality(Newer(req.dir))
                 ELSE Cardinality(Newer(req.dir)) + 1
      BY <3>4, FS_AddElement, Zenon
    <3>6. Cardinality(Newer(req.dir)') <= Cardinality(Newer(req.dir) \cup {v})
      BY <3>3, <3>5, FS_Subset
    <3>7. Cardinality(Newer(req.dir)') \in Nat /\ Cardinality(Newer(req.dir) \cup {v}) \in Nat
      BY <3>3, <3>5, FS_Subset, FS_CardinalityType
    <3> QED BY <3>1, <3>4, <3>5, <3>6, <3>7, <2>2
  <2> QED BY <2>1, <2>2, <2>3, <2>4, <1>2
<1>12. ReadsWhole' /\ NotModifiedHonest'
  BY <1>0 DEF ReadsWhole, NotModifiedHonest, Orderly, client
<1> QED BY <1>1, <1>4, <1>5, <1>7, <1>8, <1>9, <1>10, <1>11, <1>12

\* The export completes the directory, or leaves it partial and the publisher idle.
LEMMA ExportStep ==
  ASSUME IInv, ExportDone \/ ExportFails
  PROVE  IInv'
<1> USE DEF IInv
<1>0. /\ pc = "export" /\ pc' \in {"flip", "idle"} /\ version \in Version /\ Writing
      /\ UNCHANGED <<keepLast, now, rev, content, latest, version, doomed, client, setBacks>>
      /\ crashes' \in Nat /\ (crashes' = 0 => crashes = 0 /\ pc' = "flip")
      /\ dirs' = IF pc' = "flip" THEN [dirs EXCEPT ![version] = "complete"] ELSE dirs
      /\ doomed = {}
  BY DEF ExportDone, ExportFails, Control, Writing, TypeOK
<1>1. TypeOK' BY <1>0 DEF TypeOK, Pcs, client
<1>2. /\ Existing' = Existing
      /\ \A w \in Version : dirs[w] = "complete" => dirs'[w] = "complete"
      /\ pc' = "flip" => dirs'[version] = "complete"
  BY <1>0 DEF Existing, TypeOK, Control
<1>3. Control' BY <1>0, <1>2 DEF Control
<1>4. InClockOrder' BY <1>0, <1>2 DEF InClockOrder, Writing
<1>5. Resolves' BY <1>0, <1>2 DEF Resolves, Orderly, TypeOK
<1>6. NeverAgain' BY <1>0, <1>2 DEF NeverAgain, Held, Orderly, client, Writing, TypeOK
<1>7. Current' BY <1>0 DEF Current, Orderly, client
<1>8. Tidy' BY <1>0, <1>2 DEF Tidy, Writing
<1>9. StillThere'
  <2>1. Newer(req.dir)' = Newer(req.dir) BY <1>0, <1>2 DEF Newer, client
  <2>2. keepLast' # 0 /\ crashes' = 0 => Writing' BY <1>0 DEF Writing
  <2> QED BY <1>0, <1>2, <2>1, <2>2 DEF StillThere, client, TypeOK, Writing
<1>10. ReadsWhole' /\ NotModifiedHonest'
  BY <1>0 DEF ReadsWhole, NotModifiedHonest, Orderly, client
<1> QED BY <1>1, <1>3, <1>4, <1>5, <1>6, <1>7, <1>8, <1>9, <1>10

\* LATEST moves to the newest version, which nothing will prune; the version
\* being read is among the newest that are kept.
LEMMA FlipStep ==
  ASSUME IInv, Flip
  PROVE  IInv'
<1> USE DEF IInv
<1>0. /\ pc = "flip" /\ latest' = version /\ version \in Version /\ Writing /\ ~Writing'
      /\ req' = Seen /\ (req.st = "read" => req.seen < Span)
      /\ doomed' = (IF keepLast = 0 THEN {} ELSE Stale)
      /\ pc' = (IF doomed' = {} THEN "idle" ELSE "prune")
      /\ UNCHANGED <<now, keepLast, rev, dirs, content, version, cache, broken, dishonest, crashes, setBacks>>
      /\ dirs[version] = "complete" /\ version # None
  BY DEF Flip, FlipFrom, Control, Writing, Version, None
<1>1. /\ req'.st = req.st /\ req'.etag = req.etag /\ req'.dir = req.dir
      /\ req'.seen = IF req.st = "read" THEN req.seen + 1 ELSE req.seen
      /\ req' \in [st : {"idle", "etag", "handler", "read"}, etag : Version \cup {None},
                   dir : Version \cup {None}, seen : 0 .. Span]
  <2>1. Span \in Nat /\ req.seen \in 0 .. Span BY BoundAssumption DEF TypeOK
  <2> QED BY <1>0, <2>1 DEF Seen, TypeOK
<1>2. Existing' = Existing /\ Existing \subseteq Version BY <1>0 DEF Existing
<1>3. TypeOK' BY <1>0, <1>1, <1>2 DEF TypeOK, Pcs, Stale
<1>4. Control' BY <1>0, <1>2 DEF Control, Stale
<1>5. InClockOrder'
  <2>1. version \in Existing BY <1>0 DEF Existing
  <2> QED BY <1>0, <1>2, <2>1 DEF InClockOrder
<1>6. Resolves'
  <2> SUFFICES ASSUME Orderly, keepLast # 0 PROVE version \notin Stale
    BY <1>0 DEF Resolves, Orderly
  <2>1. setBacks = 0 /\ \A w \in Existing : w <= version
    BY <1>0 DEF Orderly, InClockOrder
  <2>4. ASSUME NEW w \in Existing PROVE ~(w > version)
    <3>1. w \in Nat /\ version \in Nat BY <1>0, <1>2 DEF Version
    <3> QED BY <3>1, <2>1
  <2>2. {w \in Existing : w > version} = {} BY <2>4
  <2>3. keepLast \in Nat BY BoundAssumption DEF TypeOK
  <2> QED BY <2>2, <2>3, FS_EmptySet DEF Stale
<1>7. NeverAgain'
  <2>1. setBacks = 0 => latest < version BY <1>0 DEF InClockOrder
  <2>2. latest \in Nat /\ version \in Nat /\ \A e \in Held : e \in Nat
    BY <1>0 DEF TypeOK, Held, Version, None
  <2>3. Held' = Held BY <1>0, <1>1 DEF Held
  <2> QED BY <1>0, <2>1, <2>2, <2>3 DEF NeverAgain, Orderly
<1>8. Current'
  <2>1. ASSUME Orderly, NEW e \in Held PROVE e # version
    BY <1>0, <2>1 DEF NeverAgain
  <2>2. req.etag \in Held /\ cache.etag \in Held BY DEF Held
  <2>3. Orderly' <=> Orderly BY <1>0 DEF Orderly
  <2> QED BY <1>0, <1>1, <2>1, <2>2, <2>3 DEF Current
<1>9. Tidy' BY <1>0, <1>2 DEF Tidy, Writing, InClockOrder, TypeOK
<1>10. StillThere'
  <2> SUFFICES ASSUME req.st = "read", keepLast = 0 \/ (crashes = 0 /\ setBacks = 0)
               PROVE  /\ req.dir # None /\ dirs[req.dir] = "complete" /\ req.dir \notin doomed'
                      /\ keepLast # 0 => Cardinality(Newer(req.dir)) <= req.seen + 1 + 0
    BY <1>0, <1>1, <1>2 DEF StillThere, Newer
  <2>1. req.dir # None /\ dirs[req.dir] = "complete" BY DEF StillThere
  <2>2. Newer(req.dir) \subseteq Version BY <1>2 DEF Newer
  <2>3. keepLast # 0 => Cardinality(Newer(req.dir)) <= req.seen + 1 BY <1>0 DEF StillThere
  <2>4. ASSUME keepLast # 0 PROVE req.dir \notin Stale
    <3>1. keepLast \in Nat /\ Span < keepLast /\ Span \in Nat /\ req.seen \in Nat
      BY <2>4, BoundAssumption, SpanAssumption DEF TypeOK
    <3>2. Cardinality(Newer(req.dir)) \in Nat BY <2>2, Finite
    <3>3. Cardinality(Newer(req.dir)) < keepLast BY <3>1, <3>2, <2>3, <2>4, <1>0
    <3> QED BY <3>1, <3>2, <3>3 DEF Stale, Newer
  <2>5. req.seen \in Nat BY BoundAssumption DEF TypeOK
  <2> QED BY <2>1, <2>3, <2>4, <2>5, <1>0
<1>11. ReadsWhole' /\ NotModifiedHonest'
  BY <1>0 DEF ReadsWhole, NotModifiedHonest, Orderly
<1> QED BY <1>3, <1>4, <1>5, <1>6, <1>7, <1>8, <1>9, <1>10, <1>11

\* A prune takes a version that LATEST and the reader are past.
LEMMA PruneStep ==
  ASSUME IInv, NEW left \in {"absent", "partial"}, Prune(left)
  PROVE  IInv'
<1> USE DEF IInv
<1> DEFINE v == CHOOSE w \in doomed : \A x \in doomed : x <= w
<1>0. /\ pc = "prune" /\ ~Writing /\ ~Writing' /\ doomed # {} /\ doomed' = doomed \ {v}
      /\ dirs' = [dirs EXCEPT ![v] = left]
      /\ pc' = (IF doomed' = {} THEN "idle" ELSE "prune")
      /\ UNCHANGED <<keepLast, now, rev, content, latest, version, client, crashes, setBacks>>
  BY DEF Prune, Control, Writing
<1>1. v \in doomed /\ v \in Version
  <2>1. \E w \in doomed : \A x \in doomed : x <= w BY <1>0, NewestDoomed DEF TypeOK
  <2> QED BY <2>1 DEF TypeOK
<1> HIDE DEF v
<1>2. TypeOK' BY <1>0, <1>1 DEF TypeOK, Pcs, client
<1>3. /\ Existing' \subseteq Existing
      /\ \A w \in Version \ {v} : dirs'[w] = dirs[w]
  <2>1. \A w \in Version \ {v} : dirs'[w] = dirs[w] BY <1>0 DEF TypeOK
  <2>2. v \in Existing BY <1>1 DEF Control
  <2> QED BY <1>1, <2>1, <2>2 DEF Existing
<1>4. Control'
  <2>1. \A w \in Existing \ {v} : w \in Existing' BY <1>3 DEF Existing
  <2> QED BY <1>0, <2>1 DEF Control
<1>5. InClockOrder' BY <1>0, <1>3 DEF InClockOrder
<1>6. Resolves' BY <1>0, <1>1, <1>3 DEF Resolves, Orderly, TypeOK
<1>7. NeverAgain'
  <2>1. keepLast # 0 BY <1>0 DEF Control
  <2> QED BY <1>0, <2>1 DEF NeverAgain, Held, Orderly, client
<1>8. Current' BY <1>0 DEF Current, Orderly, client
<1>9. Tidy' BY <1>0, <1>3 DEF Tidy
<1>10. StillThere'
  <2> SUFFICES ASSUME req.st = "read", keepLast = 0 \/ (crashes = 0 /\ setBacks = 0)
               PROVE  /\ req.dir # None /\ dirs'[req.dir] = "complete" /\ req.dir \notin doomed'
                      /\ keepLast # 0 => Cardinality(Newer(req.dir)') <= req.seen + 0
    BY <1>0 DEF StillThere, client
  <2>1. req.dir # None /\ dirs[req.dir] = "complete" /\ req.dir \notin doomed BY DEF StillThere
  <2>2. dirs'[req.dir] = "complete" BY <2>1, <1>1, <1>3 DEF TypeOK
  <2>3. Newer(req.dir)' \subseteq Newer(req.dir) BY <1>0, <1>3 DEF Newer, client
  <2>4. Newer(req.dir) \subseteq Version BY DEF Newer, Existing
  <2>5. IsFiniteSet(Newer(req.dir)) BY <2>4, Finite
  <2>6. Cardinality(Newer(req.dir)') <= Cardinality(Newer(req.dir)) BY <2>3, <2>5, FS_Subset
  <2>7. Cardinality(Newer(req.dir)') \in Nat /\ Cardinality(Newer(req.dir)) \in Nat
    BY <2>3, <2>4, Finite
  <2>8. req.seen \in Nat BY BoundAssumption DEF TypeOK
  <2> QED BY <2>1, <2>2, <2>6, <2>7, <2>8, <1>0 DEF StillThere
<1>11. ReadsWhole' /\ NotModifiedHonest'
  BY <1>0 DEF ReadsWhole, NotModifiedHonest, Orderly, client
<1> QED BY <1>2, <1>4, <1>5, <1>6, <1>7, <1>8, <1>9, <1>10, <1>11

\* What was written stays; the crash is counted.
LEMMA CrashStep ==
  ASSUME IInv, Crash
  PROVE  IInv'
<1> USE DEF IInv
<1>0. /\ pc' = "idle" /\ doomed' = {} /\ version' = None /\ ~Writing'
      /\ crashes' \in Nat /\ crashes' # 0
      /\ UNCHANGED <<keepLast, now, rev, dirs, content, latest, client, setBacks>>
  BY DEF Crash, Writing, TypeOK
<1>1. Existing' = Existing BY <1>0 DEF Existing
<1>2. TypeOK' /\ Control' BY <1>0, <1>1 DEF TypeOK, Pcs, client, Control
<1>3. InClockOrder' /\ Resolves' BY <1>0, <1>1 DEF InClockOrder, Resolves, Orderly
<1>4. NeverAgain' /\ Current' BY <1>0 DEF NeverAgain, Held, Current, Orderly, client
<1>5. Tidy' BY <1>0 DEF Tidy
<1>6. StillThere' BY <1>0 DEF StillThere, client, Control
<1>7. ReadsWhole' /\ NotModifiedHonest'
  BY <1>0 DEF ReadsWhole, NotModifiedHonest, Orderly, client
<1> QED BY <1>2, <1>3, <1>4, <1>5, <1>6, <1>7

-----------------------------------------------------------------------------
\* The client's steps: what a request resolves and reads.
LEMMA RequestStep ==
  ASSUME IInv, Request \/ TimeOut
  PROVE  IInv'
<1> USE DEF IInv
<1>0. /\ req' \in {NoRequest, [NoRequest EXCEPT !.st = "etag"]}
      /\ UNCHANGED <<now, publisher, cache, broken, dishonest, crashes, setBacks>>
  BY DEF Request, TimeOut
<1>1. /\ req'.st \in {"idle", "etag"} /\ req'.etag = None /\ req'.dir = None
      /\ req' \in [st : {"idle", "etag", "handler", "read"}, etag : Version \cup {None},
                   dir : Version \cup {None}, seen : 0 .. Span]
  BY <1>0, BoundAssumption DEF NoRequest, None
<1>2. Existing' = Existing BY <1>0 DEF Existing, publisher
<1>3. TypeOK' BY <1>0, <1>1 DEF TypeOK, publisher
<1>4. Control' /\ Resolves' BY <1>0, <1>2 DEF Control, Resolves, Orderly, publisher
<1>5. InClockOrder' /\ Tidy' BY <1>0, <1>2 DEF InClockOrder, Tidy, Writing, publisher
<1>6. NeverAgain' BY <1>0, <1>1 DEF NeverAgain, Held, Orderly, Writing, publisher
<1>7. Current' /\ StillThere' BY <1>0, <1>1 DEF Current, StillThere, Orderly, publisher
<1>8. ReadsWhole' /\ NotModifiedHonest'
  BY <1>0 DEF ReadsWhole, NotModifiedHonest, Orderly, publisher
<1> QED BY <1>3, <1>4, <1>5, <1>6, <1>7, <1>8

\* A request with an ETag is answered from the cache only if LATEST still matches it.
LEMMA ConditionalStep ==
  ASSUME IInv, Conditional
  PROVE  IInv'
<1> USE DEF IInv
<1>0. /\ UNCHANGED <<now, publisher, cache, broken, crashes, setBacks>>
      /\ \/ Matches /\ req' = NoRequest /\ dishonest' = (dishonest \/ cache.body # content[latest])
         \/ /\ req' = [req EXCEPT !.st = "handler", !.etag = latest]
            /\ dishonest' = dishonest
  BY DEF Conditional
<1>1. /\ req'.st \in {"idle", "handler"} /\ req'.etag \in {None, latest}
      /\ req'.dir \in {None, req.dir}
      /\ req' \in [st : {"idle", "etag", "handler", "read"}, etag : Version \cup {None},
                   dir : Version \cup {None}, seen : 0 .. Span]
  <2>1. /\ req \in [st : {"idle", "etag", "handler", "read"}, etag : Version \cup {None},
                    dir : Version \cup {None}, seen : 0 .. Span]
        /\ latest \in Version \cup {None} /\ None \in Version \cup {None} /\ 0 \in 0 .. Span
    BY BoundAssumption DEF TypeOK
  <2>2. CASE req' = NoRequest BY <2>1, <2>2 DEF NoRequest
  <2>3. CASE req' # NoRequest BY <2>1, <2>3, <1>0
  <2> QED BY <2>2, <2>3
<1>2. Existing' = Existing BY <1>0 DEF Existing, publisher
<1>3. TypeOK'
  <2>1. dishonest' \in BOOLEAN BY <1>0 DEF TypeOK
  <2> QED BY <1>0, <1>1, <2>1 DEF TypeOK, publisher
<1>4. Control' /\ Resolves' BY <1>0, <1>2 DEF Control, Resolves, Orderly, publisher
<1>5. InClockOrder' /\ Tidy' BY <1>0, <1>2 DEF InClockOrder, Tidy, Writing, publisher
<1>6. NeverAgain'
  <2>1. Held' \ {None} \subseteq Held \cup {latest} BY <1>0, <1>1 DEF Held
  <2>2. latest # None /\ Orderly => dirs[latest] = "complete" BY DEF Resolves
  <2>3. latest <= latest BY DEF TypeOK, Version, None
  <2> QED BY <1>0, <2>1, <2>2, <2>3 DEF NeverAgain, Orderly, Writing, publisher
<1>7. Current' /\ StillThere' BY <1>0, <1>1 DEF Current, StillThere, Orderly, publisher
<1>8. ReadsWhole' BY <1>0 DEF ReadsWhole, publisher
<1>9. NotModifiedHonest'
  <2>1. Orderly /\ Matches => cache.body = content[latest] BY DEF Current, Matches
  <2> QED BY <1>0, <2>1 DEF NotModifiedHonest, Orderly, publisher
<1> QED BY <1>3, <1>4, <1>5, <1>6, <1>7, <1>8, <1>9

\* A request resolves LATEST to a directory that was complete when it was flipped to.
LEMMA ResolveStep ==
  ASSUME IInv, Resolve
  PROVE  IInv'
<1> USE DEF IInv
<1>0. /\ UNCHANGED <<now, publisher, cache, broken, dishonest, crashes, setBacks>>
      /\ \/ req' = NoRequest
         \/ latest # None /\ req' = [req EXCEPT !.st = "read", !.dir = latest]
  BY DEF Resolve
<1>1. /\ req'.etag \in {None, req.etag} /\ req'.dir \in {None, latest}
      /\ req'.st = "idle" \/ (req'.st = "read" /\ req'.dir = latest /\ latest # None)
      /\ req' \in [st : {"idle", "etag", "handler", "read"}, etag : Version \cup {None},
                   dir : Version \cup {None}, seen : 0 .. Span]
  <2>1. /\ req \in [st : {"idle", "etag", "handler", "read"}, etag : Version \cup {None},
                    dir : Version \cup {None}, seen : 0 .. Span]
        /\ latest \in Version \cup {None} /\ None \in Version \cup {None} /\ 0 \in 0 .. Span
    BY BoundAssumption DEF TypeOK
  <2>2. CASE req' = NoRequest BY <2>1, <2>2 DEF NoRequest
  <2>3. CASE req' # NoRequest BY <2>1, <2>3, <1>0
  <2> QED BY <2>2, <2>3
<1>2. Existing' = Existing BY <1>0 DEF Existing, publisher
<1>3. TypeOK' BY <1>0, <1>1 DEF TypeOK, publisher
<1>4. Control' /\ Resolves' BY <1>0, <1>2 DEF Control, Resolves, Orderly, publisher
<1>5. InClockOrder' /\ Tidy' BY <1>0, <1>2 DEF InClockOrder, Tidy, Writing, publisher
<1>6. NeverAgain'
  <2>1. Held' \ {None} \subseteq Held \cup {latest} BY <1>0, <1>1 DEF Held
  <2>2. latest # None /\ Orderly => dirs[latest] = "complete" BY DEF Resolves
  <2>3. latest <= latest BY DEF TypeOK, Version, None
  <2> QED BY <1>0, <2>1, <2>2, <2>3 DEF NeverAgain, Orderly, Writing, publisher
<1>7. Current' BY <1>0, <1>1 DEF Current, Orderly, publisher
<1>8. StillThere'
  <2> SUFFICES ASSUME req'.st = "read", keepLast = 0 \/ (crashes = 0 /\ setBacks = 0)
               PROVE  /\ dirs[latest] = "complete" /\ latest \notin doomed
                      /\ keepLast # 0 => Cardinality(Newer(latest)) <= req'.seen + (IF Writing THEN 1 ELSE 0)
    <3>1. req'.st = "read" => req'.dir = latest /\ latest # None BY <1>1
    <3>2. Newer(latest)' = Newer(latest) /\ Writing' = Writing
      BY <1>0, <1>2 DEF Newer, Writing, publisher
    <3>3. UNCHANGED <<latest, keepLast, crashes, setBacks, dirs, doomed>> BY <1>0 DEF publisher
    <3> QED BY <3>1, <3>2, <3>3 DEF StillThere
  <2>1. dirs[latest] = "complete" /\ latest \notin doomed BY <1>1 DEF Resolves, Orderly
  <2>2. req'.seen \in Nat BY <1>1, BoundAssumption
  <2>3. ASSUME keepLast # 0 PROVE Cardinality(Newer(latest)) <= (IF Writing THEN 1 ELSE 0)
    <3>1. \A w \in Newer(latest) : Writing /\ w = version
      <4>1. \A w \in Existing : w \in Nat BY DEF Existing, Version
      <4>2. latest \in Nat BY DEF TypeOK, Version, None
      <4> QED BY <2>3, <4>1, <4>2 DEF Newer, Tidy
    <3>2. CASE Writing
      <4>1. Newer(latest) \subseteq {version} BY <3>1
      <4>2. IsFiniteSet({version}) /\ Cardinality({version}) = 1 BY FS_Singleton
      <4>3. Cardinality(Newer(latest)) <= 1 BY <4>1, <4>2, FS_Subset
      <4> QED BY <4>3, <3>2
    <3>3. CASE ~Writing
      <4>1. Newer(latest) = {} BY <3>1, <3>3
      <4>2. Cardinality(Newer(latest)) = 0 BY <4>1, FS_EmptySet
      <4> QED BY <4>2, <3>3
    <3> QED BY <3>2, <3>3
  <2>4. Cardinality(Newer(latest)) \in Nat
    <3>1. Newer(latest) \subseteq Version BY DEF Newer, Existing
    <3> QED BY <3>1, Finite
  <2> QED BY <1>1, <2>1, <2>2, <2>3, <2>4
<1>9. ReadsWhole' /\ NotModifiedHonest'
  BY <1>0 DEF ReadsWhole, NotModifiedHonest, Orderly, publisher
<1> QED BY <1>3, <1>4, <1>5, <1>6, <1>7, <1>8, <1>9

\* A read finds its directory whole, or is marked broken and the cache is kept.
LEMMA ReadStep ==
  ASSUME IInv, Read
  PROVE  IInv'
<1> USE DEF IInv
<1>0. /\ req.st = "read" /\ req' = NoRequest
      /\ UNCHANGED <<now, publisher, dishonest, crashes, setBacks>>
      /\ \/ /\ dirs[req.dir] = "complete" /\ broken' = broken
            /\ cache' = [etag |-> req.etag, body |-> content[req.dir]]
         \/ dirs[req.dir] # "complete" /\ broken' = TRUE /\ cache' = cache
  BY DEF Read
<1>1. /\ req'.st = "idle" /\ req'.etag = None /\ req'.dir = None
      /\ req' \in [st : {"idle", "etag", "handler", "read"}, etag : Version \cup {None},
                   dir : Version \cup {None}, seen : 0 .. Span]
  BY <1>0, BoundAssumption DEF NoRequest, None
<1>2. Existing' = Existing BY <1>0 DEF Existing, publisher
<1>3. TypeOK'
  <2>1. dirs[req.dir] = "complete" => content[req.dir] \in Nat
    <3>1. req.dir \in Version BY <1>0 DEF Current, TypeOK
    <3> QED BY <3>1 DEF TypeOK
  <2>2. cache' \in [etag : Version \cup {None}, body : Nat]
    <3>1. req.etag \in Version \cup {None} BY DEF TypeOK
    <3> QED BY <1>0, <2>1, <3>1 DEF TypeOK
  <2>3. broken' \in BOOLEAN BY <1>0 DEF TypeOK
  <2> QED BY <1>0, <1>1, <2>2, <2>3 DEF TypeOK, publisher
<1>4. Control' /\ Resolves' BY <1>0, <1>2 DEF Control, Resolves, Orderly, publisher
<1>5. InClockOrder' /\ Tidy' BY <1>0, <1>2 DEF InClockOrder, Tidy, Writing, publisher
<1>6. NeverAgain'
  <2>1. Held' \ {None} \subseteq Held BY <1>0, <1>1 DEF Held
  <2> QED BY <1>0, <2>1 DEF NeverAgain, Orderly, Writing, publisher
<1>7. Current'
  <2> SUFFICES ASSUME Orderly, cache'.etag # None, cache'.etag = latest
               PROVE  cache'.body = content[latest]
    BY <1>0, <1>1 DEF Current, Orderly, publisher
  <2> QED BY <1>0 DEF Current
<1>8. StillThere' BY <1>1 DEF StillThere
<1>9. ReadsWhole'
  <2>1. keepLast = 0 \/ (crashes = 0 /\ setBacks = 0) => broken' = broken
    BY <1>0 DEF StillThere
  <2> QED BY <1>0, <2>1 DEF ReadsWhole, publisher
<1>10. NotModifiedHonest' BY <1>0 DEF NotModifiedHonest, Orderly, publisher
<1> QED BY <1>3, <1>4, <1>5, <1>6, <1>7, <1>8, <1>9, <1>10

\* The clock moves on, or back.
LEMMA ClockStep ==
  ASSUME IInv, Tick \/ SetBack
  PROVE  IInv'
<1> USE DEF IInv
<1>0. /\ UNCHANGED <<publisher, client, crashes>> /\ now' \in Version
      /\ setBacks' \in Nat /\ (setBacks' = 0 => setBacks = 0 /\ now <= now')
  BY SMTT(30), BoundAssumption DEF Tick, SetBack, TypeOK, Version
<1>1. Existing' = Existing /\ Writing' = Writing BY <1>0 DEF Existing, Writing, publisher
<1>2. TypeOK' BY <1>0 DEF TypeOK, publisher, client
<1>3. Control' /\ Tidy' BY <1>0, <1>1 DEF Control, Tidy, publisher
<1>4. InClockOrder'
  <2>1. \A v \in Existing : v \in Int BY DEF Existing, Version
  <2>2. latest \in Int /\ now \in Int /\ now' \in Int BY <1>0 DEF TypeOK, Version, None
  <2> QED BY <1>0, <1>1, <2>1, <2>2 DEF InClockOrder, publisher
<1>5. Orderly' => Orderly BY <1>0 DEF Orderly, publisher
<1>6. Resolves' BY <1>0, <1>5 DEF Resolves, publisher
<1>7. NeverAgain' /\ Current'
  BY <1>0, <1>1, <1>5 DEF NeverAgain, Held, Current, publisher, client
<1>8. StillThere' BY <1>0, <1>1 DEF StillThere, Newer, publisher, client
<1>9. ReadsWhole' /\ NotModifiedHonest'
  BY <1>0, <1>5 DEF ReadsWhole, NotModifiedHonest, publisher, client
<1> QED BY <1>2, <1>3, <1>4, <1>6, <1>7, <1>8, <1>9

\* The invariant is inductive, one step per action.
LEMMA NextIInv == IInv /\ [Next]_vars => IInv'
<1> SUFFICES ASSUME IInv, [Next]_vars PROVE IInv' OBVIOUS
<1>1. CASE \E v \in Version : Begin(v) BY <1>1, BeginStep
<1>2. CASE ExportDone \/ ExportFails BY <1>2, ExportStep
<1>3. CASE Flip BY <1>3, FlipStep
<1>4. CASE \E left \in {"absent", "partial"} : Prune(left) BY <1>4, PruneStep
<1>5. CASE Crash BY <1>5, CrashStep
<1>6. CASE Request \/ TimeOut BY <1>6, RequestStep
<1>7. CASE Conditional BY <1>7, ConditionalStep
<1>8. CASE Resolve BY <1>8, ResolveStep
<1>9. CASE Read BY <1>9, ReadStep
<1>10. CASE Tick \/ SetBack BY <1>10, ClockStep
<1>11. CASE UNCHANGED vars
  BY <1>11 DEF vars, publisher, client, IInv, TypeOK, Control, InClockOrder, Resolves, NeverAgain,
             Held, Current, Tidy, StillThere, Newer, Existing, Writing, Orderly, ReadsWhole,
             NotModifiedHonest
<1> QED BY <1>1, <1>2, <1>3, <1>4, <1>5, <1>6, <1>7, <1>8, <1>9, <1>10, <1>11 DEF Next

\* The invariant is inductive, so it holds of every behaviour.
THEOREM Invariance == Spec => []IInv
BY InitIInv, NextIInv, PTL DEF Spec

-----------------------------------------------------------------------------
\* LATEST names a complete snapshot whatever step the publisher died or failed
\* at and whatever it has pruned, as long as names sort by age
\* (do_publish_snapshot, prune_old_snapshots).
THEOREM SnapshotLatestResolves == Spec => []LatestResolves
<1>1. IInv => LatestResolves BY DEF IInv, Resolves, LatestResolves
<1> QED BY <1>1, Invariance, PTL

\* No request is answered from a torn or a missing directory: a version being
\* read is not pruned while fewer than keepLast versions appear (resolve_snapshot).
THEOREM SnapshotReadsWhole == Spec => []ReadsWhole
<1>1. IInv => ReadsWhole BY DEF IInv
<1> QED BY <1>1, Invariance, PTL

\* A 304 stands for the body the client holds, although the middleware and the
\* handler resolve LATEST separately (etag_middleware).
THEOREM SnapshotNotModifiedHonest == Spec => []NotModifiedHonest
<1>1. IInv => NotModifiedHonest BY DEF IInv
<1> QED BY <1>1, Invariance, PTL
=============================================================================
