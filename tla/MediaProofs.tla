----------------------------- MODULE MediaProofs -----------------------------
(***************************************************************************)
(* The media page against the worker that runs its searches: for every     *)
(* set of providers and their answers, and however searches, clears,       *)
(* deadlines and the worker's end interleave with the messages on their    *)
(* way, the list is what the providers have, "no video found" is said only *)
(* when it is so, and the spinner and the worker agree.                    *)
(***************************************************************************)
EXTENDS Media, SequenceTheorems, FiniteSetTheorems, WellFoundedInduction, TLAPS

-----------------------------------------------------------------------------
\* The invariant, of a session s, the requests q, the worker w, the messages r,
\* whether the page listens (o), the searches and the clears so far (d, c), and
\* what was answered and by whom (a, y).

Messages ==
  [kind : {"started"}, gen : Nat, providers : SUBSET Provider]
    \cup [kind : {"answer"}, gen : Nat, provider : Provider, hits : SUBSET Clips]
    \cup [kind : {"problem"}, gen : Nat, provider : Provider]
    \cup [kind : {"slow"}, gen : Nat, providers : SUBSET Provider]
    \cup [kind : {"finished"}, gen : Nat]
Lines == {Nothing, "type a place", "searching", "results", "none found", "no results, problems",
          "still waiting", "results so far"}
Sessions ==
  [gen : Nat, hits : SUBSET Clips, waiting : SUBSET Provider, problems : SUBSET Provider,
   selected : Urls(Clips) \cup {Nothing}, searching : BOOLEAN, slow : BOOLEAN, status : Lines]
Workers == [phase : {"idle", "running", "dead"}, gen : Nat, legs : SUBSET Provider, slow : BOOLEAN]

Typed(s, q, w, r, o, d, c, a, y) ==
  /\ s \in Sessions /\ w \in Workers
  /\ q \in Seq(Nat) /\ r \in Seq(Messages) /\ o \in BOOLEAN
  /\ d \in 0 .. MaxSearches /\ c \in 0 .. MaxClears
  /\ a \in [Generation -> SUBSET Clips] /\ y \in [Generation -> SUBSET Provider]

\* The page is at the last search dispatched, or past it since a clear.
Numbered(s, d, c, a, y) ==
  /\ d <= s.gen /\ s.gen <= d + c
  /\ \A g \in Generation : g \notin 1 .. d => a[g] = {} /\ y[g] = {}

\* Generations go to the worker, run and come back in their order, each once.
Runs(w, g) == w.phase = "running" /\ w.gen = g
InTurn(q, r, w, d) ==
  /\ \A i \in 1 .. Len(q) : q[i] \in 1 .. d
  /\ \A i, j \in 1 .. Len(q) : i < j => q[i] < q[j]
  /\ \A i \in 1 .. Len(r) : r[i].gen \in 1 .. d
  /\ \A i, j \in 1 .. Len(r) : i < j => r[i].gen <= r[j].gen
  /\ \A i, j \in 1 .. Len(r) : i < j /\ r[i].kind = "finished" => r[i].gen < r[j].gen
  /\ \A i \in 1 .. Len(q), j \in 1 .. Len(r) : r[j].gen < q[i]
  /\ w.phase = "running" => w.gen \in 1 .. d
  /\ w.phase = "running" => \A i \in 1 .. Len(q) : w.gen < q[i]
  /\ w.phase = "running" => \A i \in 1 .. Len(r) : r[i].gen <= w.gen
  /\ w.phase = "running" => \A i \in 1 .. Len(r) : r[i].kind = "finished" => r[i].gen < w.gen

\* The page listens until the worker is dead, and a dead worker has no request.
Listens(o, w, q) == (~o => w.phase = "dead") /\ (w.phase = "dead" => q = <<>>)

\* A page that is not searching is waiting for nothing and for nobody.
Quiet(s, q, r, w, o) ==
  o /\ ~s.searching =>
    /\ s.waiting = {} /\ ~Runs(w, s.gen)
    /\ \A i \in 1 .. Len(r) : r[i].gen # s.gen
    /\ \A i \in 1 .. Len(q) : q[i] # s.gen

\* One that is, is waiting for a search that is asked for, runs or has finished.
Ends(m, g) == m.kind = "finished" /\ m.gen = g
Underway(s, q, r, w, o) ==
  o /\ s.searching =>
    \/ \E i \in 1 .. Len(q) : q[i] = s.gen
    \/ Runs(w, s.gen)
    \/ \E i \in 1 .. Len(r) : Ends(r[i], s.gen)
    \/ w.phase = "dead"

\* A search that was not picked up has had no notice.
Fresh(s, q) == \A i \in 1 .. Len(q) : q[i] = s.gen => ~s.slow

\* Of the search on screen, a leg that is over has answered or is a problem.
Fails(m, g, p) == m.kind = "problem" /\ m.gen = g /\ m.provider = p
Over(s, r, w, p) ==
  \/ Runs(w, s.gen) /\ p \notin w.legs
  \/ \E i \in 1 .. Len(r) : Ends(r[i], s.gen)
Told(s, r, y, p) ==
  p \in y[s.gen] \/ p \in s.problems \/ \E i \in 1 .. Len(r) : Fails(r[i], s.gen, p)
Accounted(s, r, w, o, y) == \A p \in Provider : o /\ Over(s, r, w, p) => Told(s, r, y, p)

\* "No video found" was said at the end of the search.
Honest(s, a, y) ==
  s.status = "none found" => ~s.searching /\ y[s.gen] = Provider /\ a[s.gen] = {}

\* What the page will wait for when it has taken the messages is what the worker
\* waits for.
Drops(m, g, p) == m.gen = g /\ m.kind \in {"answer", "problem"} /\ m.provider = p
Starts(m, g) == m.gen = g /\ m.kind = "started"
Slows(m, g) == m.gen = g /\ m.kind = "slow"
Resets(m, g) == Starts(m, g) \/ Slows(m, g)
Waits(s, r, w, o) ==
  o /\ Runs(w, s.gen) =>
    /\ \A p \in s.waiting : p \in w.legs \/ \E i \in 1 .. Len(r) : Drops(r[i], s.gen, p)
    /\ (\E i \in 1 .. Len(r) : Starts(r[i], s.gen)) \/ w.legs \subseteq s.waiting
    /\ \A i \in 1 .. Len(r) : Resets(r[i], s.gen) => w.legs \subseteq r[i].providers
    /\ \A i \in 1 .. Len(r), p \in Provider :
         Resets(r[i], s.gen) /\ p \in r[i].providers /\ p \notin w.legs
           => \E j \in 1 .. Len(r) : i < j /\ Drops(r[j], s.gen, p)
    /\ \A i \in 1 .. Len(r), p \in Provider : Drops(r[i], s.gen, p) => p \notin w.legs
    /\ w.slow <=> s.slow \/ \E i \in 1 .. Len(r) : Slows(r[i], s.gen)

\* The list, with what is on its way, is what the providers have.
OnWay(r, g) == UNION {r[i].hits : i \in {j \in DOMAIN r : r[j].kind = "answer" /\ r[j].gen = g}}
Complete(s, r, o, a) == o => Merge(s.hits \cup OnWay(r, s.gen)) = Merge(a[s.gen])

Holds(s, q, w, r, o, d, c, a, y) ==
  /\ Typed(s, q, w, r, o, d, c, a, y) /\ Numbered(s, d, c, a, y)
  /\ InTurn(q, r, w, d) /\ Listens(o, w, q)
  /\ Quiet(s, q, r, w, o) /\ Underway(s, q, r, w, o) /\ Fresh(s, q)
  /\ Accounted(s, r, w, o, y) /\ Honest(s, a, y)
  /\ Waits(s, r, w, o) /\ Complete(s, r, o, a)
IInv == Holds(session, ctl, worker, rx, open, dispatched, clears, answered, replied)

\* Each leg makes of a reply the clips the provider has, up to what merge keeps.
\* The theorems start from it, and so they must: the first answer of a search is
\* all that its list holds, so ListComplete is false of any other legs.
AnswersRead ==
  \A p \in Provider : \A x \in Answers[p] : x.hits \subseteq Clips /\ Merge(x.hits) = Merge(x.clips)

-----------------------------------------------------------------------------
\* Numbers, sequences, and what merge keeps.

Less == {ss \in Nat \X Nat : ss[1] < ss[2]}

\* Every set of naturals has a least member (the library's WFMin).
LEMMA LeastNat ==
  ASSUME NEW T, T \subseteq Nat, T # {}
  PROVE  \E m \in T : \A k \in T : m <= k
<1>1. OpToRel(<, Nat) = Less BY DEF OpToRel, Less
<1>2. IsWellFoundedOn(Less, Nat) BY <1>1, NatLessThanWellFounded
<1>3. PICK m \in T : \A k \in T : <<k, m>> \notin Less BY <1>2, WFMin
<1>4. ASSUME NEW k \in T PROVE m <= k
  <2>1. k \in Nat /\ m \in Nat OBVIOUS
  <2>2. <<k, m>> \in Nat \X Nat /\ <<k, m>>[1] = k /\ <<k, m>>[2] = m BY <2>1
  <2>3. ~(k < m) BY <1>3, <2>2 DEF Less
  <2> QED BY <2>1, <2>3
<1> QED BY <1>4

\* What counts up to a bound is natural.
LEMMA UpTo ==
  ASSUME NEW m
  PROVE  \A n \in 0 .. m : n \in Nat
OBVIOUS

\* A sequence and another after it.
LEMMA Concat ==
  ASSUME NEW S, NEW q \in Seq(S), NEW t \in Seq(S), NEW r, r = q \o t
  PROVE  /\ r \in Seq(S) /\ Len(q) \in Nat /\ Len(t) \in Nat /\ Len(r) = Len(q) + Len(t)
         /\ \A i \in 1 .. Len(q) : i \in 1 .. Len(r) /\ r[i] = q[i]
         /\ \A j \in 1 .. Len(t) : Len(q) + j \in 1 .. Len(r) /\ r[Len(q) + j] = t[j]
         /\ \A i \in 1 .. Len(r) :
              i \in 1 .. Len(q) \/ (i - Len(q) \in 1 .. Len(t) /\ r[i] = t[i - Len(q)])
<1>1. Len(q) \in Nat /\ Len(t) \in Nat BY LenProperties
<1>2. PICK m \in Nat : m = Len(q) BY <1>1
<1>3. PICK n \in Nat : n = Len(t) BY <1>1
<1>4. /\ r \in Seq(S) /\ Len(r) = m + n
      /\ \A i \in 1 .. m + n : r[i] = IF i <= m THEN q[i] ELSE t[i - m]
  BY <1>2, <1>3, ConcatProperties
<1>5. \A i \in 1 .. m : i \in 1 .. m + n /\ r[i] = q[i] BY <1>4
<1>6. \A j \in 1 .. n : m + j \in 1 .. m + n /\ r[m + j] = t[j]
  <2> SUFFICES ASSUME NEW j \in 1 .. n PROVE m + j \in 1 .. m + n /\ r[m + j] = t[j] OBVIOUS
  <2>1. m + j \in 1 .. m + n /\ ~(m + j <= m) /\ (m + j) - m = j OBVIOUS
  <2>2. r[m + j] = t[(m + j) - m] BY <1>4, <2>1
  <2> QED BY <2>1, <2>2
<1>7. ASSUME NEW i \in 1 .. m + n, i \notin 1 .. m PROVE i - m \in 1 .. n /\ r[i] = t[i - m]
  <2>1. i - m \in 1 .. n /\ ~(i <= m) BY <1>7
  <2> QED BY <1>4, <2>1
<1> QED BY <1>2, <1>3, <1>4, <1>5, <1>6, <1>7

\* A sequence without its head.
LEMMA Tailed ==
  ASSUME NEW S, NEW q \in Seq(S), q # <<>>, NEW r, r = Tail(q)
  PROVE  /\ r \in Seq(S) /\ Len(q) \in Nat /\ Len(r) \in Nat /\ Len(q) = Len(r) + 1
         /\ Head(q) \in S /\ 1 \in 1 .. Len(q) /\ q[1] = Head(q)
         /\ \A i \in 1 .. Len(r) : i + 1 \in 1 .. Len(q) /\ r[i] = q[i + 1]
         /\ \A i \in 1 .. Len(q) : i = 1 \/ (i - 1 \in 1 .. Len(r) /\ q[i] = r[i - 1])
<1>1. Len(q) \in Nat \ {0} BY EmptySeq
<1>2. PICK n \in Nat : Len(q) = n + 1
  <2>1. Len(q) - 1 \in Nat /\ Len(q) = (Len(q) - 1) + 1 BY <1>1
  <2> QED BY <2>1
<1>3. /\ r \in Seq(S) /\ Len(r) = Len(q) - 1 /\ Head(q) \in S /\ Head(q) = q[1]
      /\ \A i \in 1 .. Len(r) : r[i] = q[i + 1]
  BY HeadTailProperties
<1>4. Len(r) = n BY <1>2, <1>3
<1>5. \A i \in 1 .. n : i + 1 \in 1 .. n + 1 OBVIOUS
<1>6. ASSUME NEW i \in 1 .. n + 1, i # 1 PROVE i - 1 \in 1 .. n /\ q[i] = r[i - 1]
  <2>1. i - 1 \in 1 .. n /\ (i - 1) + 1 = i BY <1>6
  <2> QED BY <1>3, <1>4, <2>1
<1> QED BY <1>2, <1>3, <1>4, <1>5, <1>6

\* The order of merge is strict.
LEMMA BeforeIsStrict ==
  ASSUME NEW f \in Clips, NEW g \in Clips, NEW h \in Clips
  PROVE  ~Before(f, f) /\ (Before(f, g) /\ Before(g, h) => Before(f, h))
<1>1. \A x \in Clips : x.ts \in Nat /\ Rank[x.provider] \in Nat BY MediaAssumption
<1> QED BY <1>1 DEF Before

\* A hit that merge drops is dropped for one that it keeps.
LEMMA Leader ==
  ASSUME NEW X \in SUBSET Clips, NEW h \in X
  PROVE  \E g \in Merge(X) : g.key = h.key /\ (g = h \/ Before(g, h))
<1> DEFINE D == {g \in X : g.key = h.key /\ (g = h \/ Before(g, h))}
           Above(g) == {x \in X : Before(x, g)}
           T == {n \in Nat : \E g \in D : n = Cardinality(Above(g))}
<1>1. IsFiniteSet(X) BY MediaAssumption, FS_Subset
<1>2. ASSUME NEW g \in D PROVE IsFiniteSet(Above(g)) /\ Cardinality(Above(g)) \in Nat
  <2>1. Above(g) \subseteq X OBVIOUS
  <2>2. IsFiniteSet(Above(g)) BY <1>1, <2>1, FS_Subset
  <2> QED BY <2>2, FS_CardinalityType
<1>3. h \in D OBVIOUS
<1>4. T # {} BY <1>2, <1>3
<1>5. PICK n \in T : \A k \in T : n <= k BY <1>4, LeastNat
<1>6. PICK g \in D : n = Cardinality(Above(g)) BY <1>5
<1>7. ASSUME NEW f \in X, f.key = g.key, Before(f, g) PROVE FALSE
  <2>1. f \in D BY <1>6, <1>7, BeforeIsStrict
  <2>2. Above(f) \subseteq Above(g)
    <3>1. \A x \in X : Before(x, f) => Before(x, g) BY <1>6, <1>7, BeforeIsStrict
    <3> QED BY <3>1
  <2>3. Above(f) # Above(g)
    <3>1. f \in Above(g) BY <1>7
    <3>2. f \notin Above(f) BY BeforeIsStrict
    <3> QED BY <3>1, <3>2
  <2> HIDE DEF Above
  <2>4. /\ Cardinality(Above(f)) <= Cardinality(Above(g))
        /\ Cardinality(Above(f)) # Cardinality(Above(g))
    BY <1>2, <2>2, <2>3, FS_Subset
  <2>5. Cardinality(Above(f)) \in T BY <1>2, <2>1
  <2>6. n <= Cardinality(Above(f)) BY <1>5, <2>5
  <2> QED BY <1>2, <1>6, <2>1, <2>4, <2>6
<1>8. g \in Merge(X) BY <1>7 DEF Merge
<1> QED BY <1>6, <1>8

\* Merging in two goes is merging at once.
LEMMA MergeUnion ==
  ASSUME NEW X \in SUBSET Clips, NEW Y \in SUBSET Clips
  PROVE  Merge(Merge(X) \cup Y) = Merge(X \cup Y)
<1>1. Merge(X) \subseteq X BY DEF Merge
<1>2. ASSUME NEW h \in Merge(X \cup Y) PROVE h \in Merge(Merge(X) \cup Y)
  <2>1. h \in X \cup Y /\ ~ \E g \in X \cup Y : g.key = h.key /\ Before(g, h) BY DEF Merge
  <2>2. h \in Merge(X) \cup Y BY <2>1 DEF Merge
  <2>3. ~ \E g \in Merge(X) \cup Y : g.key = h.key /\ Before(g, h) BY <1>1, <2>1
  <2> QED BY <2>2, <2>3 DEF Merge
<1>3. ASSUME NEW h \in Merge(Merge(X) \cup Y) PROVE h \in Merge(X \cup Y)
  <2>1. /\ h \in Merge(X) \cup Y
        /\ ~ \E g \in Merge(X) \cup Y : g.key = h.key /\ Before(g, h)
    BY DEF Merge
  <2>2. ASSUME NEW g \in X, g.key = h.key, Before(g, h) PROVE FALSE
    <3>1. PICK f \in Merge(X) : f.key = g.key /\ (f = g \/ Before(f, g)) BY Leader
    <3>2. f \in Clips /\ g \in Clips /\ h \in Clips BY <1>1, <2>1
    <3>3. Before(f, h) BY <2>2, <3>1, <3>2, BeforeIsStrict
    <3>4. f.key = h.key /\ f \in Merge(X) \cup Y BY <2>2, <3>1
    <3> QED BY <2>1, <3>3, <3>4
  <2>3. h \in X \cup Y BY <1>1, <2>1
  <2>4. ~ \E g \in X \cup Y : g.key = h.key /\ Before(g, h) BY <2>1, <2>2
  <2> QED BY <2>3, <2>4 DEF Merge
<1> QED BY <1>2, <1>3

\* Two pairs of sets that merge to the same lists do so together.
LEMMA MergeBoth ==
  ASSUME NEW X \in SUBSET Clips, NEW Y \in SUBSET Clips, Merge(X) = Merge(Y),
         NEW U \in SUBSET Clips, NEW V \in SUBSET Clips, Merge(U) = Merge(V)
  PROVE  Merge(X \cup U) = Merge(Y \cup V)
<1>1. PICK M \in SUBSET Clips : M = Merge(X) BY DEF Merge
<1>2. PICK N \in SUBSET Clips : N = Merge(U) BY DEF Merge
<1>3. Merge(X \cup U) = Merge(M \cup U) BY <1>1, MergeUnion
<1>4. Merge(Y \cup V) = Merge(M \cup V)
  <2>1. Merge(Y) = M BY <1>1
  <2>2. Merge(Merge(Y) \cup V) = Merge(Y \cup V) BY MergeUnion
  <2> QED BY <2>1, <2>2
<1>5. M \cup U = U \cup M /\ M \cup V = V \cup M OBVIOUS
<1>6. Merge(U \cup M) = Merge(N \cup M) BY <1>2, MergeUnion
<1>7. Merge(V \cup M) = Merge(N \cup M)
  <2>1. Merge(V) = N BY <1>2
  <2>2. Merge(Merge(V) \cup M) = Merge(V \cup M) BY MergeUnion
  <2> QED BY <2>1, <2>2
<1> QED BY <1>3, <1>4, <1>5, <1>6, <1>7

\* Only nothing merges to nothing.
LEMMA MergeEmpty ==
  ASSUME NEW X \in SUBSET Clips
  PROVE  (Merge(X) = {}) <=> (X = {})
<1>1. X = {} => Merge(X) = {} BY DEF Merge
<1>2. ASSUME NEW h \in X PROVE Merge(X) # {} BY Leader
<1> QED BY <1>1, <1>2

\* A hit is on its way in an answer.
LEMMA OnWayIs ==
  ASSUME NEW r \in Seq(Messages), NEW g, NEW h
  PROVE  h \in OnWay(r, g)
           <=> \E i \in 1 .. Len(r) : r[i].kind = "answer" /\ r[i].gen = g /\ h \in r[i].hits
<1>1. DOMAIN r = 1 .. Len(r) BY LenProperties
<1> QED BY <1>1 DEF OnWay

\* It is a clip.
LEMMA OnWayClips ==
  ASSUME NEW r \in Seq(Messages), NEW g
  PROVE  OnWay(r, g) \subseteq Clips
<1>1. ASSUME NEW i \in 1 .. Len(r), r[i].kind = "answer" PROVE r[i].hits \subseteq Clips
  <2>1. r[i] \in Messages BY ElementOfSeq
  <2> QED BY <1>1, <2>1 DEF Messages
<1> QED BY <1>1, OnWayIs


-----------------------------------------------------------------------------
\* What the worker sends: messages t, after r, from w to w2.

\* A batch of messages of the search that runs, after which it goes on or has
\* said that it finished.
Batch(w, t, w2) ==
  /\ w.phase = "running" /\ t \in Seq(Messages)
  /\ \A i \in 1 .. Len(t) : t[i].gen = w.gen
  /\ \A i, j \in 1 .. Len(t) : i < j => t[i].kind # "finished"
  /\ \/ /\ w2.phase = "running" /\ w2.gen = w.gen
        /\ \A i \in 1 .. Len(t) : t[i].kind # "finished"
     \/ /\ w2.phase = "idle"
        /\ \E i \in 1 .. Len(t) : t[i].kind = "finished"

\* What is on its way stays in the order of the searches.
LEMMA SentInTurn ==
  ASSUME NEW q \in Seq(Nat), NEW r \in Seq(Messages), NEW w \in Workers, NEW d \in Nat,
         InTurn(q, r, w, d), NEW t, NEW w2, Batch(w, t, w2), NEW r2, r2 = r \o t
  PROVE  InTurn(q, r2, w2, d)
<1>1. /\ r2 \in Seq(Messages) /\ Len(r) \in Nat /\ Len(t) \in Nat /\ Len(r2) = Len(r) + Len(t)
      /\ \A i \in 1 .. Len(r2) :
           \/ i \in 1 .. Len(r) /\ r2[i] = r[i]
           \/ i - Len(r) \in 1 .. Len(t) /\ r2[i] = t[i - Len(r)]
  BY Concat DEF Batch
<1>2. PICK m \in Nat : m = Len(r) BY <1>1
<1>3. PICK n \in Nat : n = Len(t) BY <1>1
<1>4. ASSUME NEW i \in 1 .. Len(r2)
      PROVE  /\ r2[i].gen \in 1 .. d /\ r2[i].gen <= w.gen
             /\ \A k \in 1 .. Len(q) : r2[i].gen < q[k]
             /\ w2.phase = "running" /\ r2[i].kind = "finished" => r2[i].gen < w.gen
  <2>1. CASE i \in 1 .. Len(r) /\ r2[i] = r[i] BY <2>1 DEF InTurn, Batch
  <2>2. CASE i - Len(r) \in 1 .. Len(t) /\ r2[i] = t[i - Len(r)]
    <3>1. r2[i].gen = w.gen BY <2>2 DEF Batch
    <3>2. w2.phase = "running" => r2[i].kind # "finished" BY <2>2 DEF Batch
    <3>3. w.gen \in 1 .. d /\ \A k \in 1 .. Len(q) : w.gen < q[k] BY DEF InTurn, Batch
    <3> QED BY <3>1, <3>2, <3>3
  <2> QED BY <1>1, <2>1, <2>2
<1>5. ASSUME NEW i \in 1 .. Len(r2), NEW j \in 1 .. Len(r2), i < j
      PROVE  r2[i].gen <= r2[j].gen /\ (r2[i].kind = "finished" => r2[i].gen < r2[j].gen)
  <2>1. CASE j \in 1 .. Len(r) /\ r2[j] = r[j]
    <3>1. i \in 1 .. m /\ ~(i - m \in 1 .. n) BY <1>2, <1>5, <2>1
    <3>2. r2[i] = r[i] BY <1>1, <1>2, <1>3, <3>1
    <3> QED BY <1>2, <1>5, <2>1, <3>1, <3>2 DEF InTurn
  <2>2. CASE j - Len(r) \in 1 .. Len(t) /\ r2[j] = t[j - Len(r)]
    <3>1. r2[j].gen = w.gen BY <2>2 DEF Batch
    <3>2. r2[i].gen <= r2[j].gen BY <1>4, <3>1
    <3>3. CASE i \in 1 .. Len(r) /\ r2[i] = r[i] BY <3>1, <3>2, <3>3 DEF InTurn, Batch
    <3>4. CASE i - Len(r) \in 1 .. Len(t) /\ r2[i] = t[i - Len(r)]
      <4>1. i - Len(r) < j - Len(r) BY <1>1, <1>5
      <4>2. r2[i].kind # "finished" BY <2>2, <3>4, <4>1 DEF Batch
      <4> QED BY <3>2, <4>2
    <3> QED BY <1>1, <3>3, <3>4
  <2> QED BY <1>1, <2>1, <2>2
<1>6. w2.phase = "running" => w2.gen = w.gen BY DEF Batch
<1>7. /\ \A i \in 1 .. Len(q) : q[i] \in 1 .. d
      /\ \A i, j \in 1 .. Len(q) : i < j => q[i] < q[j]
      /\ w.gen \in 1 .. d /\ \A i \in 1 .. Len(q) : w.gen < q[i]
  BY DEF InTurn, Batch
<1> QED BY <1>4, <1>5, <1>6, <1>7 DEF InTurn

\* The page goes on waiting for what it waits for.
LEMMA SentQuiet ==
  ASSUME NEW s, NEW q, NEW r \in Seq(Messages), NEW w, NEW o,
         Listens(o, w, q), Quiet(s, q, r, w, o), Underway(s, q, r, w, o),
         NEW t, NEW w2, Batch(w, t, w2), NEW r2, r2 = r \o t
  PROVE  r2 \in Seq(Messages) /\ Listens(o, w2, q) /\ Quiet(s, q, r2, w2, o) /\ Underway(s, q, r2, w2, o)
<1>1. /\ r2 \in Seq(Messages)
      /\ \A i \in 1 .. Len(r) : i \in 1 .. Len(r2) /\ r2[i] = r[i]
      /\ \A j \in 1 .. Len(t) : Len(r) + j \in 1 .. Len(r2) /\ r2[Len(r) + j] = t[j]
      /\ \A i \in 1 .. Len(r2) :
           i \in 1 .. Len(r) \/ (i - Len(r) \in 1 .. Len(t) /\ r2[i] = t[i - Len(r)])
  BY Concat DEF Batch
<1>2. Listens(o, w2, q) BY DEF Listens, Batch
<1>3. Quiet(s, q, r2, w2, o)
  <2> SUFFICES ASSUME o, ~s.searching
               PROVE  /\ s.waiting = {} /\ ~Runs(w2, s.gen)
                      /\ \A i \in 1 .. Len(r2) : r2[i].gen # s.gen
                      /\ \A i \in 1 .. Len(q) : q[i] # s.gen
    BY DEF Quiet
  <2>1. /\ s.waiting = {} /\ w.gen # s.gen
        /\ \A i \in 1 .. Len(r) : r[i].gen # s.gen
        /\ \A i \in 1 .. Len(q) : q[i] # s.gen
    BY DEF Quiet, Runs, Batch
  <2>2. \A i \in 1 .. Len(t) : t[i].gen # s.gen BY <2>1 DEF Batch
  <2>3. ASSUME NEW i \in 1 .. Len(r2) PROVE r2[i].gen # s.gen
    <3>1. i \in 1 .. Len(r) \/ (i - Len(r) \in 1 .. Len(t) /\ r2[i] = t[i - Len(r)]) BY <1>1
    <3>2. CASE i \in 1 .. Len(r)
      <4>1. r2[i] = r[i] BY <1>1, <3>2
      <4> QED BY <2>1, <3>2, <4>1
    <3>3. CASE i - Len(r) \in 1 .. Len(t) /\ r2[i] = t[i - Len(r)] BY <2>2, <3>3
    <3> QED BY <3>1, <3>2, <3>3
  <2>4. ~Runs(w2, s.gen) BY <2>1 DEF Runs, Batch
  <2> QED BY <2>1, <2>3, <2>4
<1>4. Underway(s, q, r2, w2, o)
  <2> SUFFICES ASSUME o, s.searching
               PROVE  \/ \E i \in 1 .. Len(q) : q[i] = s.gen
                      \/ Runs(w2, s.gen) \/ \E i \in 1 .. Len(r2) : Ends(r2[i], s.gen)
    BY DEF Underway
  <2>1. CASE Runs(w, s.gen)
    <3>1. CASE w2.phase = "running" /\ w2.gen = w.gen BY <2>1, <3>1 DEF Runs
    <3>2. CASE \E i \in 1 .. Len(t) : t[i].kind = "finished"
      <4>1. PICK i \in 1 .. Len(t) : t[i].kind = "finished" BY <3>2
      <4>2. Ends(t[i], s.gen) BY <2>1, <4>1 DEF Ends, Runs, Batch
      <4> QED BY <1>1, <4>2
    <3> QED BY <3>1, <3>2 DEF Batch
  <2>2. CASE \E i \in 1 .. Len(r) : Ends(r[i], s.gen)
    <3>1. PICK i \in 1 .. Len(r) : Ends(r[i], s.gen) BY <2>2
    <3> QED BY <1>1, <3>1
  <2>3. w.phase # "dead" BY DEF Batch
  <2> QED BY <2>1, <2>2, <2>3 DEF Underway
<1> QED BY <1>1, <1>2, <1>3, <1>4

\* A leg that is over has still answered or failed.
LEMMA SentAccounted ==
  ASSUME NEW s, NEW r \in Seq(Messages), NEW w, NEW o, NEW y, Accounted(s, r, w, o, y),
         NEW t, NEW w2, Batch(w, t, w2), NEW r2, r2 = r \o t,
         NEW y2, y[s.gen] \subseteq y2[s.gen],
         w.gen = s.gen => \A p \in Provider :
           p \in w.legs /\ (w2.phase = "running" => p \notin w2.legs)
             => p \in y2[s.gen] \/ \E i \in 1 .. Len(t) : Fails(t[i], s.gen, p)
  PROVE  Accounted(s, r2, w2, o, y2)
<1> SUFFICES ASSUME NEW p \in Provider, o, Over(s, r2, w2, p) PROVE Told(s, r2, y2, p)
  BY DEF Accounted
<1>1. /\ \A i \in 1 .. Len(r) : i \in 1 .. Len(r2) /\ r2[i] = r[i]
      /\ \A j \in 1 .. Len(t) : Len(r) + j \in 1 .. Len(r2) /\ r2[Len(r) + j] = t[j]
      /\ \A i \in 1 .. Len(r2) :
           i \in 1 .. Len(r) \/ (i - Len(r) \in 1 .. Len(t) /\ r2[i] = t[i - Len(r)])
  BY Concat DEF Batch
<1>2. Told(s, r, y, p) => Told(s, r2, y2, p)
  <2>1. ASSUME NEW i \in 1 .. Len(r), Fails(r[i], s.gen, p)
        PROVE  \E j \in 1 .. Len(r2) : Fails(r2[j], s.gen, p)
    BY <1>1, <2>1
  <2> QED BY <2>1 DEF Told
<1>3. CASE \E i \in 1 .. Len(r) : Ends(r[i], s.gen) BY <1>2, <1>3 DEF Accounted, Over
<1>4. CASE ~ \E i \in 1 .. Len(r) : Ends(r[i], s.gen)
  <2>1. w.gen = s.gen /\ (w2.phase = "running" => p \notin w2.legs)
    <3>1. CASE Runs(w2, s.gen) /\ p \notin w2.legs BY <3>1 DEF Runs, Batch
    <3>2. CASE \E i \in 1 .. Len(r2) : Ends(r2[i], s.gen)
      <4>1. PICK i \in 1 .. Len(r2) : Ends(r2[i], s.gen) BY <3>2
      <4>2. i - Len(r) \in 1 .. Len(t) /\ r2[i] = t[i - Len(r)] BY <1>1, <1>4, <4>1
      <4>3. PICK j \in 1 .. Len(t) : Ends(t[j], s.gen) BY <4>1, <4>2
      <4> QED BY <4>3 DEF Ends, Batch
    <3> QED BY <3>1, <3>2 DEF Over
  <2>2. CASE p \in w.legs
    <3>1. CASE p \in y2[s.gen] BY <3>1 DEF Told
    <3>2. CASE \E i \in 1 .. Len(t) : Fails(t[i], s.gen, p)
      <4>1. PICK i \in 1 .. Len(t) : Fails(t[i], s.gen, p) BY <3>2
      <4>2. Fails(r2[Len(r) + i], s.gen, p) /\ Len(r) + i \in 1 .. Len(r2) BY <1>1, <4>1
      <4> QED BY <4>2 DEF Told
    <3> QED BY <2>1, <2>2, <3>1, <3>2
  <2>3. CASE p \notin w.legs
    <3>1. Over(s, r, w, p) BY <2>1, <2>3 DEF Over, Runs, Batch
    <3> QED BY <1>2, <3>1 DEF Accounted
  <2> QED BY <2>2, <2>3
<1> QED BY <1>3, <1>4


\* What the page will wait for is still what the worker waits for.
LEMMA SentWaits ==
  ASSUME NEW s \in Sessions, NEW r \in Seq(Messages), NEW w \in Workers, NEW o, Waits(s, r, w, o),
         NEW t, NEW w2 \in Workers, Batch(w, t, w2), NEW r2, r2 = r \o t,
         w2.phase = "running" =>
           /\ w2.legs \subseteq w.legs
           /\ \A i \in 1 .. Len(t) : t[i].kind # "started"
           /\ \A p \in w.legs \ w2.legs : \E i \in 1 .. Len(t) : Drops(t[i], w.gen, p)
           /\ \A i \in 1 .. Len(t), p \in Provider : Drops(t[i], w.gen, p) => p \notin w2.legs
           /\ \A i \in 1 .. Len(t) : Slows(t[i], w.gen) => t[i].providers = w2.legs
           /\ w2.slow <=> w.slow \/ \E i \in 1 .. Len(t) : Slows(t[i], w.gen)
  PROVE  Waits(s, r2, w2, o)
<1> SUFFICES ASSUME o, Runs(w2, s.gen)
    PROVE  /\ \A p \in s.waiting : p \in w2.legs \/ \E i \in 1 .. Len(r2) : Drops(r2[i], s.gen, p)
           /\ (\E i \in 1 .. Len(r2) : Starts(r2[i], s.gen)) \/ w2.legs \subseteq s.waiting
           /\ \A i \in 1 .. Len(r2) : Resets(r2[i], s.gen) => w2.legs \subseteq r2[i].providers
           /\ \A i \in 1 .. Len(r2), p \in Provider :
                Resets(r2[i], s.gen) /\ p \in r2[i].providers /\ p \notin w2.legs
                  => \E j \in 1 .. Len(r2) : i < j /\ Drops(r2[j], s.gen, p)
           /\ \A i \in 1 .. Len(r2), p \in Provider : Drops(r2[i], s.gen, p) => p \notin w2.legs
           /\ w2.slow <=> s.slow \/ \E i \in 1 .. Len(r2) : Slows(r2[i], s.gen)
  BY DEF Waits
<1> DEFINE g == s.gen
<1>1. /\ Len(r) \in Nat /\ Len(t) \in Nat
      /\ \A i \in 1 .. Len(r) : i \in 1 .. Len(r2) /\ r2[i] = r[i]
      /\ \A j \in 1 .. Len(t) : Len(r) + j \in 1 .. Len(r2) /\ r2[Len(r) + j] = t[j]
      /\ \A i \in 1 .. Len(r2) :
           i \in 1 .. Len(r) \/ (i - Len(r) \in 1 .. Len(t) /\ r2[i] = t[i - Len(r)])
  BY Concat DEF Batch
<1>2. w.gen = g /\ w2.phase = "running" /\ Runs(w, g) BY DEF Runs, Batch
<1>3. /\ w2.legs \subseteq w.legs
      /\ \A i \in 1 .. Len(t) : t[i].kind # "started"
      /\ \A p \in w.legs \ w2.legs : \E i \in 1 .. Len(t) : Drops(t[i], g, p)
      /\ \A i \in 1 .. Len(t), p \in Provider : Drops(t[i], g, p) => p \notin w2.legs
      /\ \A i \in 1 .. Len(t) : Slows(t[i], g) => t[i].providers = w2.legs
      /\ w2.slow <=> w.slow \/ \E i \in 1 .. Len(t) : Slows(t[i], g)
  BY <1>2
<1>4. /\ \A p \in s.waiting : p \in w.legs \/ \E i \in 1 .. Len(r) : Drops(r[i], g, p)
      /\ (\E i \in 1 .. Len(r) : Starts(r[i], g)) \/ w.legs \subseteq s.waiting
      /\ \A i \in 1 .. Len(r) : Resets(r[i], g) => w.legs \subseteq r[i].providers
      /\ \A i \in 1 .. Len(r), p \in Provider :
           Resets(r[i], g) /\ p \in r[i].providers /\ p \notin w.legs
             => \E j \in 1 .. Len(r) : i < j /\ Drops(r[j], g, p)
      /\ \A i \in 1 .. Len(r), p \in Provider : Drops(r[i], g, p) => p \notin w.legs
      /\ w.slow <=> s.slow \/ \E i \in 1 .. Len(r) : Slows(r[i], g)
  BY <1>2 DEF Waits
<1> HIDE DEF g
<1>5. ASSUME NEW p, \E i \in 1 .. Len(r) : Drops(r[i], g, p)
      PROVE  \E i \in 1 .. Len(r2) : Drops(r2[i], g, p)
  BY <1>1, <1>5
<1>6. ASSUME NEW p \in w.legs, p \notin w2.legs
      PROVE  \E j \in 1 .. Len(r2) : (\A i \in 1 .. Len(r) : i < j) /\ Drops(r2[j], g, p)
  <2>1. PICK j \in 1 .. Len(t) : Drops(t[j], g, p) BY <1>3, <1>6
  <2>2. Len(r) + j \in 1 .. Len(r2) /\ r2[Len(r) + j] = t[j] BY <1>1
  <2>3. \A i \in 1 .. Len(r) : i < Len(r) + j BY <1>1
  <2> QED BY <2>1, <2>2, <2>3
<1>7. \A p \in s.waiting : p \in w2.legs \/ \E i \in 1 .. Len(r2) : Drops(r2[i], g, p)
  BY <1>4, <1>5, <1>6
<1>8. (\E i \in 1 .. Len(r2) : Starts(r2[i], g)) \/ w2.legs \subseteq s.waiting
  <2>1. ASSUME NEW i \in 1 .. Len(r), Starts(r[i], g)
        PROVE  \E j \in 1 .. Len(r2) : Starts(r2[j], g)
    BY <1>1, <2>1
  <2> QED BY <1>3, <1>4, <2>1
<1>9. ASSUME NEW i \in 1 .. Len(r2), Resets(r2[i], g)
      PROVE  \/ i \in 1 .. Len(r) /\ Resets(r[i], g) /\ r2[i] = r[i]
             \/ i \notin 1 .. Len(r) /\ r2[i].providers = w2.legs
  <2>1. CASE i \in 1 .. Len(r) BY <1>1, <1>9, <2>1
  <2>2. CASE i \notin 1 .. Len(r)
    <3>1. PICK j \in 1 .. Len(t) : r2[i] = t[j] BY <1>1, <2>2
    <3>2. Slows(t[j], g) BY <1>3, <1>9, <3>1 DEF Resets, Starts
    <3> QED BY <1>3, <2>2, <3>1, <3>2
  <2> QED BY <2>1, <2>2
<1>10. \A i \in 1 .. Len(r2) : Resets(r2[i], g) => w2.legs \subseteq r2[i].providers
  <2> SUFFICES ASSUME NEW i \in 1 .. Len(r2), Resets(r2[i], g) PROVE w2.legs \subseteq r2[i].providers
    OBVIOUS
  <2>1. CASE i \in 1 .. Len(r) /\ Resets(r[i], g) /\ r2[i] = r[i] BY <1>3, <1>4, <2>1
  <2> QED BY <1>9, <2>1
<1>11. ASSUME NEW i \in 1 .. Len(r2), NEW p \in Provider,
              Resets(r2[i], g), p \in r2[i].providers, p \notin w2.legs
       PROVE  \E j \in 1 .. Len(r2) : i < j /\ Drops(r2[j], g, p)
  <2>1. i \in 1 .. Len(r) /\ Resets(r[i], g) /\ r2[i] = r[i] BY <1>9, <1>11
  <2>2. CASE p \in w.legs BY <1>6, <1>11, <2>1, <2>2
  <2>3. CASE p \notin w.legs
    <3>1. PICK j \in 1 .. Len(r) : i < j /\ Drops(r[j], g, p) BY <1>4, <1>11, <2>1, <2>3
    <3> QED BY <1>1, <3>1
  <2> QED BY <2>2, <2>3
<1>12. ASSUME NEW i \in 1 .. Len(r2), NEW p \in Provider, Drops(r2[i], g, p)
       PROVE  p \notin w2.legs
  <2>1. CASE i \in 1 .. Len(r) BY <1>1, <1>3, <1>4, <1>12, <2>1
  <2>2. CASE i \notin 1 .. Len(r)
    <3>1. PICK j \in 1 .. Len(t) : r2[i] = t[j] BY <1>1, <2>2
    <3> QED BY <1>3, <1>12, <3>1
  <2> QED BY <2>1, <2>2
<1>13. w2.slow <=> s.slow \/ \E i \in 1 .. Len(r2) : Slows(r2[i], g)
  <2>1. (\E i \in 1 .. Len(r2) : Slows(r2[i], g))
          <=> (\E i \in 1 .. Len(r) : Slows(r[i], g)) \/ \E i \in 1 .. Len(t) : Slows(t[i], g)
    <3>1. ASSUME NEW i \in 1 .. Len(r), Slows(r[i], g) PROVE \E j \in 1 .. Len(r2) : Slows(r2[j], g)
      BY <1>1, <3>1
    <3>2. ASSUME NEW i \in 1 .. Len(t), Slows(t[i], g) PROVE \E j \in 1 .. Len(r2) : Slows(r2[j], g)
      BY <1>1, <3>2
    <3>3. ASSUME NEW i \in 1 .. Len(r2), Slows(r2[i], g)
          PROVE  (\E j \in 1 .. Len(r) : Slows(r[j], g)) \/ \E j \in 1 .. Len(t) : Slows(t[j], g)
      <4>1. CASE i \in 1 .. Len(r) BY <1>1, <3>3, <4>1
      <4>2. CASE i \notin 1 .. Len(r) BY <1>1, <3>3, <4>2
      <4> QED BY <4>1, <4>2
    <3> QED BY <3>1, <3>2, <3>3
  <2>2. w2.slow <=> w.slow \/ \E i \in 1 .. Len(t) : Slows(t[i], g) BY <1>3
  <2>3. w.slow <=> s.slow \/ \E i \in 1 .. Len(r) : Slows(r[i], g) BY <1>4
  <2> QED BY <2>1, <2>2, <2>3
<1> QED BY <1>7, <1>8, <1>10, <1>11, <1>12, <1>13 DEF g

\* What is on its way after a batch.
LEMMA OnWaySent ==
  ASSUME NEW r \in Seq(Messages), NEW t \in Seq(Messages), NEW g
  PROVE  OnWay(r \o t, g) = OnWay(r, g) \cup OnWay(t, g)
<1>0. PICK e : e = r \o t OBVIOUS
<1>1. /\ e \in Seq(Messages)
      /\ \A i \in 1 .. Len(r) : i \in 1 .. Len(e) /\ e[i] = r[i]
      /\ \A j \in 1 .. Len(t) : Len(r) + j \in 1 .. Len(e) /\ e[Len(r) + j] = t[j]
      /\ \A i \in 1 .. Len(e) :
           i \in 1 .. Len(r) \/ (i - Len(r) \in 1 .. Len(t) /\ e[i] = t[i - Len(r)])
  BY <1>0, Concat
<1> DEFINE Brings(m, h) == m.kind = "answer" /\ m.gen = g /\ h \in m.hits
<1>2. ASSUME NEW h
      PROVE  (\E i \in 1 .. Len(e) : Brings(e[i], h))
               <=> (\E i \in 1 .. Len(r) : Brings(r[i], h)) \/ \E i \in 1 .. Len(t) : Brings(t[i], h)
  <2> HIDE DEF Brings
  <2>1. ASSUME NEW i \in 1 .. Len(r), Brings(r[i], h) PROVE \E j \in 1 .. Len(e) : Brings(e[j], h)
    BY <1>1, <2>1
  <2>2. ASSUME NEW i \in 1 .. Len(t), Brings(t[i], h) PROVE \E j \in 1 .. Len(e) : Brings(e[j], h)
    BY <1>1, <2>2
  <2>3. ASSUME NEW i \in 1 .. Len(e), Brings(e[i], h)
        PROVE  (\E j \in 1 .. Len(r) : Brings(r[j], h)) \/ \E j \in 1 .. Len(t) : Brings(t[j], h)
    <3>1. CASE i \in 1 .. Len(r) BY <1>1, <2>3, <3>1
    <3>2. CASE i \notin 1 .. Len(r) BY <1>1, <2>3, <3>2
    <3> QED BY <3>1, <3>2
  <2> QED BY <2>1, <2>2, <2>3
<1>3. ASSUME NEW h PROVE h \in OnWay(e, g) <=> h \in OnWay(r, g) \cup OnWay(t, g)
  <2>1. h \in OnWay(e, g) <=> \E i \in 1 .. Len(e) : Brings(e[i], h)
    <3>1. e \in Seq(Messages) BY <1>1
    <3> QED BY <3>1, OnWayIs
  <2>2. h \in OnWay(r, g) <=> \E i \in 1 .. Len(r) : Brings(r[i], h) BY OnWayIs
  <2>3. h \in OnWay(t, g) <=> \E i \in 1 .. Len(t) : Brings(t[i], h) BY OnWayIs
  <2> QED BY <1>2, <2>1, <2>2, <2>3
<1> QED BY <1>0, <1>3


\* Nothing more, when it has no answer.
LEMMA OnWaySame ==
  ASSUME NEW r \in Seq(Messages), NEW t \in Seq(Messages), \A i \in 1 .. Len(t) : t[i].kind # "answer",
         NEW g
  PROVE  OnWay(r \o t, g) = OnWay(r, g)
<1>1. OnWay(t, g) = {}
  <2>1. ASSUME NEW h PROVE h \notin OnWay(t, g) BY OnWayIs
  <2> QED BY <2>1
<1>2. OnWay(r \o t, g) = OnWay(r, g) \cup OnWay(t, g) BY OnWaySent
<1> QED BY <1>1, <1>2

\* A batch that brings no hits keeps everything that holds.
LEMMA SentHolds ==
  ASSUME NEW s, NEW q, NEW w, NEW r, NEW o, NEW d, NEW c, NEW a, NEW y,
         Holds(s, q, w, r, o, d, c, a, y),
         NEW t, NEW w2 \in Workers, Batch(w, t, w2), \A i \in 1 .. Len(t) : t[i].kind # "answer",
         w.gen = s.gen => \A p \in Provider :
           p \in w.legs /\ (w2.phase = "running" => p \notin w2.legs)
             => \E i \in 1 .. Len(t) : Fails(t[i], w.gen, p),
         w2.phase = "running" =>
           /\ w2.legs \subseteq w.legs
           /\ \A i \in 1 .. Len(t) : t[i].kind # "started"
           /\ \A p \in w.legs \ w2.legs : \E i \in 1 .. Len(t) : Drops(t[i], w.gen, p)
           /\ \A i \in 1 .. Len(t), p \in Provider : Drops(t[i], w.gen, p) => p \notin w2.legs
           /\ \A i \in 1 .. Len(t) : Slows(t[i], w.gen) => t[i].providers = w2.legs
           /\ w2.slow <=> w.slow \/ \E i \in 1 .. Len(t) : Slows(t[i], w.gen)
  PROVE  Holds(s, q, w2, r \o t, o, d, c, a, y)
<1>1. PICK r2 : r2 = r \o t OBVIOUS
<1>2. Typed(s, q, w, r, o, d, c, a, y) BY DEF Holds
<1>3. s \in Sessions /\ w \in Workers /\ q \in Seq(Nat) /\ r \in Seq(Messages) /\ d \in Nat
  <2>1. \A n \in 0 .. MaxSearches : n \in Nat OBVIOUS
  <2> QED BY <1>2, <2>1 DEF Typed
<1>4. InTurn(q, r2, w2, d) BY <1>1, <1>3, SentInTurn DEF Holds
<1>5. r2 \in Seq(Messages) /\ Listens(o, w2, q) /\ Quiet(s, q, r2, w2, o) /\ Underway(s, q, r2, w2, o)
  BY <1>1, <1>3, SentQuiet DEF Holds
<1>6. Accounted(s, r2, w2, o, y)
  <2>1. Accounted(s, r, w, o, y) BY DEF Holds
  <2>2. y[s.gen] \subseteq y[s.gen] OBVIOUS
  <2> QED BY <1>1, <1>3, <2>1, <2>2, SentAccounted
<1>7. Waits(s, r2, w2, o)
  <2>1. Waits(s, r, w, o) BY DEF Holds
  <2> QED BY <1>1, <1>3, <2>1, SentWaits
<1>8. Complete(s, r2, o, a)
  <2>1. t \in Seq(Messages) BY DEF Batch
  <2>2. PICK g : g = s.gen OBVIOUS
  <2>3. OnWay(r \o t, g) = OnWay(r, g) BY <1>3, <2>1, OnWaySame
  <2> QED BY <1>1, <2>2, <2>3 DEF Holds, Complete
<1>9. Typed(s, q, w2, r2, o, d, c, a, y) BY <1>2, <1>5 DEF Typed
<1> QED BY <1>1, <1>4, <1>5, <1>6, <1>7, <1>8, <1>9 DEF Holds

\* One message is a batch.
LEMMA OneIs ==
  ASSUME NEW m \in Messages, NEW w \in Workers, w.phase = "running", m.gen = w.gen,
         NEW w2, \/ w2.phase = "running" /\ w2.gen = w.gen /\ m.kind # "finished"
                 \/ w2.phase = "idle" /\ m.kind = "finished",
         NEW t, t = <<m>>
  PROVE  /\ Batch(w, t, w2) /\ t \in Seq(Messages) /\ 1 \in 1 .. Len(t) /\ t[1] = m
         /\ \A i \in 1 .. Len(t) : t[i] = m
<1>1. t \in Seq(Messages) OBVIOUS
<1>2. Len(t) = 1 /\ t[1] = m OBVIOUS
<1>3. \A i \in 1 .. 1 : i = 1 OBVIOUS
<1>4. \A i \in 1 .. Len(t) : t[i] = m BY <1>2, <1>3
<1>5. \A i, j \in 1 .. 1 : ~(i < j) OBVIOUS
<1>6. \A i, j \in 1 .. Len(t) : ~(i < j) BY <1>2, <1>5
<1>7. 1 \in 1 .. Len(t) BY <1>2
<1>8. Batch(w, t, w2)
  <2>1. \A i \in 1 .. Len(t) : t[i].gen = w.gen /\ t[i].kind = m.kind BY <1>4
  <2>2. \/ w2.phase = "running" /\ w2.gen = w.gen /\ \A i \in 1 .. Len(t) : t[i].kind # "finished"
        \/ w2.phase = "idle" /\ \E i \in 1 .. Len(t) : t[i].kind = "finished"
    BY <1>7, <2>1
  <2> QED BY <1>1, <1>6, <2>1, <2>2 DEF Batch
<1> QED BY <1>1, <1>2, <1>4, <1>7, <1>8

\* A leg fails.
LEMMA FailHolds ==
  ASSUME NEW s, NEW q, NEW w, NEW r, NEW o, NEW d, NEW c, NEW a, NEW y,
         Holds(s, q, w, r, o, d, c, a, y), w.phase = "running", NEW p \in w.legs,
         NEW w2 \in Workers, w2.phase = "running", w2.gen = w.gen, w2.legs = w.legs \ {p},
         w2.slow = w.slow
  PROVE  Holds(s, q, w2, r \o <<ProviderFailed(w.gen, p)>>, o, d, c, a, y)
<1>1. w \in Workers BY DEF Holds, Typed
<1>2. w2.phase = "running" /\ w2.gen = w.gen /\ w2.legs = w.legs \ {p} /\ w2.slow = w.slow
  OBVIOUS
<1>3. PICK m : m = ProviderFailed(w.gen, p) OBVIOUS
<1>4. m \in Messages /\ m.gen = w.gen /\ m.kind = "problem" /\ m.provider = p
  BY <1>1, <1>3 DEF ProviderFailed, Messages, Workers
<1>5. PICK t : t = <<m>> OBVIOUS
<1>6. Batch(w, t, w2) /\ 1 \in 1 .. Len(t) /\ t[1] = m /\ \A i \in 1 .. Len(t) : t[i] = m
  BY <1>1, <1>2, <1>4, <1>5, OneIs
<1>7. Fails(t[1], w.gen, p) /\ Drops(t[1], w.gen, p) BY <1>4, <1>6 DEF Fails, Drops
<1>8. ASSUME NEW i \in 1 .. Len(t) PROVE ~Slows(t[i], w.gen) BY <1>4, <1>6 DEF Slows
<1>9. ASSUME NEW i \in 1 .. Len(t), NEW x \in Provider, Drops(t[i], w.gen, x) PROVE x \notin w2.legs
  BY <1>2, <1>4, <1>6, <1>9 DEF Drops
<1>10. \A i \in 1 .. Len(t) : t[i].kind \notin {"answer", "started"} BY <1>4, <1>6
<1>11. \A x \in w.legs \ w2.legs : x = p BY <1>2
<1>12. \A x \in w.legs \ w2.legs : \E i \in 1 .. Len(t) : Fails(t[i], w.gen, x) /\ Drops(t[i], w.gen, x)
  BY <1>6, <1>7, <1>11
<1>13. w2.slow <=> w.slow \/ \E i \in 1 .. Len(t) : Slows(t[i], w.gen) BY <1>2, <1>8
<1>14. w2.legs \subseteq w.legs BY <1>2
<1>15. Holds(s, q, w2, r \o t, o, d, c, a, y)
  BY <1>2, <1>6, <1>8, <1>9, <1>10, <1>12, <1>13, <1>14, SentHolds
<1> QED BY <1>3, <1>5, <1>15

\* The notice that legs are slow.
LEMMA SlowHolds ==
  ASSUME NEW s, NEW q, NEW w, NEW r, NEW o, NEW d, NEW c, NEW a, NEW y,
         Holds(s, q, w, r, o, d, c, a, y), w.phase = "running",
         NEW w2 \in Workers, w2.phase = "running", w2.gen = w.gen, w2.legs = w.legs, w2.slow
  PROVE  Holds(s, q, w2, r \o <<StillWaiting(w.gen, w.legs)>>, o, d, c, a, y)
<1>1. w \in Workers BY DEF Holds, Typed
<1>2. w2.phase = "running" /\ w2.gen = w.gen /\ w2.legs = w.legs /\ w2.slow OBVIOUS
<1>3. PICK m : m = StillWaiting(w.gen, w.legs) OBVIOUS
<1>4. m \in Messages /\ m.gen = w.gen /\ m.kind = "slow" /\ m.providers = w.legs
  BY <1>1, <1>3 DEF StillWaiting, Messages, Workers
<1>5. PICK t : t = <<m>> OBVIOUS
<1>6. Batch(w, t, w2) /\ 1 \in 1 .. Len(t) /\ t[1] = m /\ \A i \in 1 .. Len(t) : t[i] = m
  BY <1>1, <1>2, <1>4, <1>5, OneIs
<1>7. Slows(t[1], w.gen) BY <1>4, <1>6 DEF Slows
<1>8. ASSUME NEW i \in 1 .. Len(t), NEW x PROVE ~Drops(t[i], w.gen, x) BY <1>4, <1>6 DEF Drops
<1>9. \A i \in 1 .. Len(t) : t[i].kind \notin {"answer", "started"} /\ t[i].providers = w2.legs
  BY <1>2, <1>4, <1>6
<1>10. w2.slow <=> w.slow \/ \E i \in 1 .. Len(t) : Slows(t[i], w.gen) BY <1>2, <1>6, <1>7
<1>11. w2.legs \subseteq w.legs /\ w.legs \ w2.legs = {} BY <1>2
<1>12. \A p \in Provider : ~(p \in w.legs /\ p \notin w2.legs) BY <1>2
<1>13. Holds(s, q, w2, r \o t, o, d, c, a, y)
  BY <1>2, <1>6, <1>8, <1>9, <1>10, <1>11, <1>12, SentHolds
<1> QED BY <1>3, <1>5, <1>13


\* The messages that name the legs L, in the order of Rank.
Named(L, g) ==
  [i \in 1 .. Cardinality(L) |->
     ProviderFailed(g, CHOOSE p \in L : Cardinality({x \in L : Rank[x] < Rank[p]}) = i - 1)]

\* At the deadline every outstanding leg is named, each a problem.
LEMMA NamesEach ==
  ASSUME NEW L \in SUBSET Provider, NEW g \in Nat, NEW t, t = Named(L, g)
  PROVE  /\ t \in Seq(Messages)
         /\ \A i \in 1 .. Len(t) : t[i].kind = "problem" /\ t[i].gen = g
         /\ \A p \in L : \E i \in 1 .. Len(t) : t[i].provider = p
<1> DEFINE Below(p) == {x \in L : Rank[x] < Rank[p]}
           n == Cardinality(L)
           f == [p \in L |-> Cardinality(Below(p)) + 1]
           At(i) == CHOOSE p \in L : Cardinality(Below(p)) = i - 1
<1>1. IsFiniteSet(L) /\ n \in Nat
  <2>1. IsFiniteSet(L) BY MediaAssumption, FS_Subset
  <2> QED BY <2>1, FS_CardinalityType
<1>2. \A p \in L : Rank[p] \in Nat /\ \A x \in L : Rank[x] = Rank[p] => x = p BY MediaAssumption
<1>3. ASSUME NEW p \in L
      PROVE  IsFiniteSet(Below(p)) /\ Cardinality(Below(p)) \in Nat /\ Cardinality(Below(p)) < n
  <2>1. Below(p) \subseteq L /\ p \notin Below(p) BY <1>2
  <2> HIDE DEF Below
  <2>2. IsFiniteSet(Below(p)) /\ Cardinality(Below(p)) <= n /\ Cardinality(Below(p)) # n
    BY <1>1, <2>1, FS_Subset
  <2>3. Cardinality(Below(p)) \in Nat BY <2>2, FS_CardinalityType
  <2> QED BY <1>1, <2>2, <2>3
<1>4. ASSUME NEW p \in L, NEW x \in L, Rank[x] < Rank[p]
      PROVE  Cardinality(Below(x)) < Cardinality(Below(p))
  <2>1. Below(x) \subseteq Below(p)
    <3>1. \A z \in L : Rank[z] < Rank[x] => Rank[z] < Rank[p] BY <1>2, <1>4
    <3> QED BY <3>1
  <2>2. x \in Below(p) /\ x \notin Below(x) BY <1>2, <1>4
  <2>3. IsFiniteSet(Below(p)) /\ Cardinality(Below(p)) \in Nat /\ Cardinality(Below(x)) \in Nat
    BY <1>3
  <2> HIDE DEF Below
  <2>4. /\ Cardinality(Below(x)) <= Cardinality(Below(p))
        /\ Cardinality(Below(x)) # Cardinality(Below(p))
    BY <2>1, <2>2, <2>3, FS_Subset
  <2> QED BY <2>3, <2>4
<1> HIDE DEF Below
<1>5. ASSUME NEW p \in L, NEW x \in L, Cardinality(Below(p)) = Cardinality(Below(x)) PROVE p = x
  <2>1. Cardinality(Below(p)) \in Nat BY <1>3
  <2>2. ~(Rank[p] < Rank[x]) /\ ~(Rank[x] < Rank[p]) BY <1>4, <1>5, <2>1
  <2> QED BY <1>2, <2>2
<1>6. f \in Injection(L, 1 .. n)
  <2>1. \A p \in L : Cardinality(Below(p)) + 1 \in 1 .. n BY <1>1, <1>3
  <2>2. \A p, x \in L : f[p] = f[x] => p = x BY <1>3, <1>5
  <2>3. f \in [L -> 1 .. n] BY <2>1
  <2> QED BY <2>2, <2>3 DEF Injection, IsInjective
<1>7. \A i \in 1 .. n : \E p \in L : f[p] = i
  <2>1. IsFiniteSet(1 .. n) /\ Cardinality(1 .. n) = n
    <3>1. 1 \in Int /\ n \in Int /\ (1 > n => n = 0) /\ (n - 1) + 1 = n BY <1>1
    <3>2. IsFiniteSet(1 .. n) /\ Cardinality(1 .. n) = IF 1 > n THEN 0 ELSE n - 1 + 1
      BY <3>1, FS_Interval
    <3> QED BY <3>1, <3>2
  <2>2. f \in Surjection(L, 1 .. n) BY <1>6, <2>1, FS_Injection
  <2> QED BY <2>2 DEF Surjection
<1>8. ASSUME NEW i \in 1 .. n PROVE At(i) \in L /\ f[At(i)] = i
  <2>1. PICK p \in L : f[p] = i BY <1>7
  <2>2. Cardinality(Below(p)) = i - 1 BY <1>3, <2>1
  <2>3. At(i) \in L /\ Cardinality(Below(At(i))) = i - 1 BY <2>2
  <2>4. (i - 1) + 1 = i OBVIOUS
  <2> QED BY <2>3, <2>4
<1> HIDE DEF At
<1>9. t = [i \in 1 .. n |-> ProviderFailed(g, At(i))] BY DEF Named, At, Below
<1>10. ASSUME NEW i \in 1 .. n
       PROVE  ProviderFailed(g, At(i)) \in Messages /\ ProviderFailed(g, At(i)).kind = "problem"
              /\ ProviderFailed(g, At(i)).gen = g /\ ProviderFailed(g, At(i)).provider = At(i)
  <2>1. At(i) \in Provider BY <1>8
  <2> QED BY <2>1 DEF ProviderFailed, Messages
<1>11. t \in Seq(Messages) /\ Len(t) = n
  <2>1. t \in [1 .. n -> Messages] BY <1>9, <1>10
  <2>2. t \in Seq(Messages) BY <1>1, <2>1, SeqDef
  <2>3. Len(t) \in Nat /\ DOMAIN t = 1 .. Len(t) BY <2>2, LenProperties
  <2>4. DOMAIN t = 1 .. n BY <2>1
  <2>5. \A j, k \in Nat : 1 .. j = 1 .. k => j = k
    <3> SUFFICES ASSUME NEW j \in Nat, NEW k \in Nat, 1 .. j = 1 .. k PROVE j = k OBVIOUS
    <3>1. j \in 1 .. j \/ j = 0 OBVIOUS
    <3>2. k \in 1 .. k \/ k = 0 OBVIOUS
    <3> QED BY <3>1, <3>2
  <2> QED BY <1>1, <2>2, <2>3, <2>4, <2>5
<1>12. \A i \in 1 .. n : t[i] = ProviderFailed(g, At(i)) BY <1>9
<1>13. ASSUME NEW p \in L PROVE \E i \in 1 .. n : t[i].provider = p
  <2>1. PICK i \in 1 .. n : i = f[p] BY <1>6 DEF Injection
  <2>2. At(i) \in L /\ f[At(i)] = f[p] BY <1>8, <2>1
  <2>3. At(i) = p BY <1>6, <2>2 DEF Injection, IsInjective
  <2> QED BY <1>10, <1>12, <2>3
<1>14. \A i \in 1 .. n : t[i].kind = "problem" /\ t[i].gen = g BY <1>10, <1>12
<1> QED BY <1>11, <1>13, <1>14


\* The deadline of a search.
LEMMA TotalHolds ==
  ASSUME NEW s, NEW q, NEW w, NEW r, NEW o, NEW d, NEW c, NEW a, NEW y,
         Holds(s, q, w, r, o, d, c, a, y), w.phase = "running",
         NEW w2 \in Workers, w2.phase = "running", w2.gen = w.gen, w2.legs = {}, w2.slow = w.slow,
         NEW t \in Seq(Messages), \A i \in 1 .. Len(t) : t[i].kind = "problem" /\ t[i].gen = w.gen,
         \A p \in w.legs : \E i \in 1 .. Len(t) : t[i].provider = p
  PROVE  Holds(s, q, w2, r \o t, o, d, c, a, y)
<1>1. Batch(w, t, w2) BY DEF Batch
<1>2. \A i \in 1 .. Len(t) : t[i].kind \notin {"answer", "started"} OBVIOUS
<1>3. ASSUME NEW p \in w.legs
      PROVE  \E i \in 1 .. Len(t) : Fails(t[i], w.gen, p) /\ Drops(t[i], w.gen, p)
  <2>1. PICK i \in 1 .. Len(t) : t[i].provider = p OBVIOUS
  <2>2. t[i].kind = "problem" /\ t[i].gen = w.gen OBVIOUS
  <2> QED BY <2>1, <2>2 DEF Fails, Drops
<1>4. ASSUME NEW i \in 1 .. Len(t) PROVE ~Slows(t[i], w.gen) BY DEF Slows
<1>5. w2.legs \subseteq w.legs /\ \A p : p \notin w2.legs OBVIOUS
<1>6. w2.slow <=> w.slow \/ \E i \in 1 .. Len(t) : Slows(t[i], w.gen) BY <1>4
<1> QED BY <1>1, <1>2, <1>3, <1>4, <1>5, <1>6, SentHolds

\* A search ends, with no leg left or for one that is newer than the one on
\* screen, which is newer than it.
LEMMA EndHolds ==
  ASSUME NEW s, NEW q, NEW w, NEW r, NEW o, NEW d, NEW c, NEW a, NEW y,
         Holds(s, q, w, r, o, d, c, a, y), w.phase = "running", w.legs = {} \/ q # <<>>
  PROVE  Holds(s, q, Idle, r \o <<Finished(w.gen)>>, o, d, c, a, y)
<1>1. w \in Workers /\ q \in Seq(Nat) /\ s \in Sessions BY DEF Holds, Typed
<1>2. PICK v : v = Idle OBVIOUS
<1>3. v \in Workers /\ v.phase = "idle" BY <1>2 DEF Idle, Workers
<1>4. PICK m : m = Finished(w.gen) OBVIOUS
<1>5. m \in Messages /\ m.gen = w.gen /\ m.kind = "finished"
  BY <1>1, <1>4 DEF Finished, Messages, Workers
<1>6. PICK t : t = <<m>> OBVIOUS
<1>7. Batch(w, t, v) /\ \A i \in 1 .. Len(t) : t[i] = m BY <1>1, <1>3, <1>5, <1>6, OneIs
<1>8. \A i \in 1 .. Len(t) : t[i].kind # "answer" BY <1>5, <1>7
<1>9. CASE w.legs = {}
  <2>1. \A p : p \notin w.legs BY <1>9
  <2>2. Holds(s, q, v, r \o t, o, d, c, a, y) BY <1>3, <1>7, <1>8, <2>1, SentHolds
  <2> QED BY <1>2, <1>4, <1>6, <2>2
<1>10. CASE q # <<>>
  <2>1. 1 \in 1 .. Len(q) BY <1>1, <1>10, Tailed
  <2>2. w.gen < q[1] /\ q[1] \in 1 .. d BY <2>1 DEF Holds, InTurn
  <2>3. d <= s.gen /\ s.gen \in Nat /\ w.gen \in Nat /\ d \in Nat
    <3>1. \A x \in 0 .. MaxSearches : x \in Nat OBVIOUS
    <3> QED BY <3>1 DEF Holds, Typed, Numbered, Sessions, Workers
  <2>4. w.gen # s.gen BY <2>2, <2>3
  <2>5. Holds(s, q, v, r \o t, o, d, c, a, y) BY <1>3, <1>7, <1>8, <2>4, SentHolds
  <2> QED BY <1>2, <1>4, <1>6, <2>5
<1> QED BY <1>9, <1>10

\* A leg answers.
LEMMA AnswerHolds ==
  ASSUME AnswersRead,
         NEW s, NEW q, NEW w, NEW r, NEW o, NEW d, NEW c, NEW a, NEW y,
         Holds(s, q, w, r, o, d, c, a, y), w.phase = "running", NEW p \in w.legs,
         NEW w2 \in Workers, w2.phase = "running", w2.gen = w.gen, w2.legs = w.legs \ {p},
         w2.slow = w.slow, NEW x \in Answers[p],
         NEW a2, a2 = [a EXCEPT ![w.gen] = @ \cup x.clips],
         NEW y2, y2 = [y EXCEPT ![w.gen] = @ \cup {p}]
  PROVE  Holds(s, q, w2, r \o <<ProviderFinished(w.gen, p, x.hits)>>, o, d, c, a2, y2)
<1> DEFINE g == w.gen
<1>1. /\ s \in Sessions /\ w \in Workers /\ q \in Seq(Nat) /\ r \in Seq(Messages) /\ d \in Nat
      /\ a \in [Generation -> SUBSET Clips] /\ y \in [Generation -> SUBSET Provider]
  <2>1. \A n \in 0 .. MaxSearches : n \in Nat OBVIOUS
  <2> QED BY <2>1 DEF Holds, Typed
<1>2. p \in Provider /\ g \in Nat BY <1>1 DEF Workers
<1>3. x.hits \subseteq Clips /\ x.clips \subseteq Clips /\ Merge(x.hits) = Merge(x.clips)
  BY <1>2 DEF AnswersRead, Clips
<1>4. g \in 1 .. d /\ g \in Generation /\ s.gen \in Generation
  <2>1. g \in 1 .. d BY DEF Holds, InTurn
  <2>2. d \in 0 .. MaxSearches /\ c \in 0 .. MaxClears /\ s.gen \in Nat /\ s.gen <= d + c
    BY DEF Holds, Typed, Numbered, Sessions
  <2>3. MaxSearches \in Nat /\ MaxClears \in Nat BY MediaAssumption
  <2> QED BY <2>1, <2>2, <2>3 DEF Generation
<1>5. /\ a2 \in [Generation -> SUBSET Clips] /\ y2 \in [Generation -> SUBSET Provider]
      /\ a2[g] = a[g] \cup x.clips /\ y2[g] = y[g] \cup {p}
      /\ \A z \in Generation : z # g => a2[z] = a[z] /\ y2[z] = y[z]
  <2>1. /\ a2 \in [Generation -> SUBSET Clips] /\ a2[g] = a[g] \cup x.clips
        /\ \A z \in Generation : z # g => a2[z] = a[z]
    BY <1>1, <1>3, <1>4
  <2>2. /\ y2 \in [Generation -> SUBSET Provider] /\ y2[g] = y[g] \cup {p}
        /\ \A z \in Generation : z # g => y2[z] = y[z]
    BY <1>1, <1>2, <1>4
  <2> QED BY <2>1, <2>2
<1>6. PICK m : m = ProviderFinished(g, p, x.hits) OBVIOUS
<1>7. m \in Messages /\ m.gen = g /\ m.kind = "answer" /\ m.provider = p /\ m.hits = x.hits
  BY <1>2, <1>3, <1>6 DEF ProviderFinished, Messages
<1>8. PICK t : t = <<m>> OBVIOUS
<1>9. /\ Batch(w, t, w2) /\ t \in Seq(Messages) /\ 1 \in 1 .. Len(t) /\ t[1] = m
      /\ \A i \in 1 .. Len(t) : t[i] = m
  BY <1>1, <1>7, <1>8, OneIs
<1>10. PICK r2 : r2 = r \o t OBVIOUS
<1>11. InTurn(q, r2, w2, d) BY <1>1, <1>9, <1>10, SentInTurn DEF Holds
<1>12. /\ r2 \in Seq(Messages) /\ Listens(o, w2, q)
       /\ Quiet(s, q, r2, w2, o) /\ Underway(s, q, r2, w2, o)
  BY <1>1, <1>9, <1>10, SentQuiet DEF Holds
<1>13. Accounted(s, r2, w2, o, y2)
  <2>1. Accounted(s, r, w, o, y) BY DEF Holds
  <2>2. y[s.gen] \subseteq y2[s.gen] BY <1>4, <1>5
  <2>3. w.gen = s.gen => p \in y2[s.gen] BY <1>5
  <2>4. ASSUME NEW z \in Provider, z \in w.legs, w2.phase = "running" => z \notin w2.legs PROVE z = p
    BY <2>4
  <2> QED BY ZenonT(60), <1>1, <1>9, <1>10, <2>1, <2>2, <2>3, <2>4, SentAccounted
<1>14. Waits(s, r2, w2, o)
  <2>1. Waits(s, r, w, o) BY DEF Holds
  <2>2. Drops(t[1], g, p) BY <1>7, <1>9 DEF Drops
  <2>3. \A z \in w.legs \ w2.legs : \E i \in 1 .. Len(t) : Drops(t[i], g, z) BY <1>9, <2>2
  <2>4. ASSUME NEW i \in 1 .. Len(t), NEW z \in Provider, Drops(t[i], g, z) PROVE z \notin w2.legs
    BY <1>7, <1>9, <2>4 DEF Drops
  <2>5. \A i \in 1 .. Len(t) : t[i].kind # "started" /\ ~Slows(t[i], g) BY <1>7, <1>9 DEF Slows
  <2>6. w2.slow <=> w.slow \/ \E i \in 1 .. Len(t) : Slows(t[i], g) BY <2>5
  <2>7. w2.legs \subseteq w.legs OBVIOUS
  <2> QED BY <1>1, <1>9, <1>10, <2>1, <2>3, <2>4, <2>5, <2>6, <2>7, SentWaits
<1>15. Complete(s, r2, o, a2)
  <2> SUFFICES ASSUME o PROVE Merge(s.hits \cup OnWay(r2, s.gen)) = Merge(a2[s.gen]) BY DEF Complete
  <2>1. PICK z : z = s.gen OBVIOUS
  <2>2. OnWay(r2, z) = OnWay(r, z) \cup OnWay(t, z) BY <1>1, <1>9, <1>10, OnWaySent
  <2>3. Merge(s.hits \cup OnWay(r, z)) = Merge(a[z]) BY <2>1 DEF Holds, Complete
  <2>4. s.hits \subseteq Clips /\ OnWay(r, z) \subseteq Clips /\ a[z] \subseteq Clips
    BY <1>1, <1>4, <2>1, OnWayClips DEF Sessions
  <2>5. CASE z = g
    <3>1. OnWay(t, z) = x.hits
      <4>1. ASSUME NEW h PROVE h \in OnWay(t, z) <=> h \in x.hits BY <1>7, <1>9, <2>5, OnWayIs
      <4> QED BY <4>1
    <3>2. Merge((s.hits \cup OnWay(r, z)) \cup x.hits) = Merge(a[z] \cup x.clips)
      <4>1. s.hits \cup OnWay(r, z) \in SUBSET Clips BY <2>4
      <4> QED BY <1>3, <2>3, <2>4, <4>1, MergeBoth
    <3>3. s.hits \cup OnWay(r2, z) = (s.hits \cup OnWay(r, z)) \cup x.hits BY <2>2, <3>1
    <3> QED BY <1>5, <2>1, <2>5, <3>2, <3>3
  <2>6. CASE z # g
    <3>1. OnWay(t, z) = {}
      <4>1. ASSUME NEW h PROVE h \notin OnWay(t, z) BY <1>7, <1>9, <2>6, OnWayIs
      <4> QED BY <4>1
    <3>2. OnWay(r2, z) = OnWay(r, z) BY <2>2, <3>1
    <3>3. a2[z] = a[z] BY <1>4, <1>5, <2>1, <2>6
    <3> QED BY <2>1, <2>3, <3>2, <3>3
  <2> QED BY <2>5, <2>6
<1>16. Honest(s, a2, y2)
  <2> SUFFICES ASSUME s.status = "none found" PROVE ~s.searching /\ y2[s.gen] = Provider /\ a2[s.gen] = {}
    BY DEF Honest
  <2>1. ~s.searching /\ y[s.gen] = Provider /\ a[s.gen] = {} BY DEF Holds, Honest
  <2>2. o BY DEF Holds, Listens, Typed
  <2>3. s.gen # g BY <2>1, <2>2 DEF Holds, Quiet, Runs
  <2> QED BY <1>4, <1>5, <2>1, <2>3
<1>17. Numbered(s, d, c, a2, y2) BY <1>4, <1>5 DEF Holds, Numbered
<1>18. Typed(s, q, w2, r2, o, d, c, a2, y2) BY <1>5, <1>12 DEF Holds, Typed
<1>19. Holds(s, q, w2, r2, o, d, c, a2, y2)
  BY <1>11, <1>12, <1>13, <1>14, <1>15, <1>16, <1>17, <1>18 DEF Holds
<1> QED BY <1>6, <1>8, <1>10, <1>19


\* The worker takes the newest request.
LEMMA PickUpHolds ==
  ASSUME NEW s, NEW q, NEW w, NEW r, NEW o, NEW d, NEW c, NEW a, NEW y,
         Holds(s, q, w, r, o, d, c, a, y), w.phase = "idle", q # <<>>,
         NEW g, g = q[Len(q)],
         NEW v \in Workers, v.phase = "running", v.gen = g, v.legs = Provider, ~v.slow
  PROVE  Holds(s, <<>>, v, r \o <<Started(g)>>, o, d, c, a, y)
<1>1. /\ s \in Sessions /\ w \in Workers /\ q \in Seq(Nat) /\ r \in Seq(Messages) /\ d \in Nat
      /\ s.gen \in Nat
  <2>1. \A n \in 0 .. MaxSearches : n \in Nat OBVIOUS
  <2> QED BY <2>1 DEF Holds, Typed, Sessions
<1>2. PICK n \in Nat : n = Len(q) /\ n \in 1 .. n /\ \A i \in 1 .. n : i < n \/ i = n
  <2>1. Len(q) \in Nat \ {0} BY <1>1, EmptySeq
  <2>2. \A k \in Nat \ {0} : k \in 1 .. k /\ \A i \in 1 .. k : i < k \/ i = k OBVIOUS
  <2> QED BY <2>1, <2>2
<1>3. g \in 1 .. d /\ \A i \in 1 .. Len(r) : r[i].gen < g BY <1>2 DEF Holds, InTurn
<1>4. \A i \in 1 .. n : q[i] <= g
  <2> SUFFICES ASSUME NEW i \in 1 .. n PROVE q[i] <= g OBVIOUS
  <2>1. q[i] \in 1 .. d /\ (i < n => q[i] < q[n]) BY <1>2 DEF Holds, InTurn
  <2> QED BY <1>2, <1>3, <2>1
<1>5. g <= s.gen /\ \A i \in 1 .. n : q[i] = s.gen => g = s.gen
  <2>1. d <= s.gen BY DEF Holds, Numbered
  <2>2. g <= s.gen /\ g \in Nat BY <1>1, <1>3, <2>1
  <2> SUFFICES ASSUME NEW i \in 1 .. n, q[i] = s.gen PROVE g = s.gen BY <2>2
  <2>3. s.gen <= g BY <1>4
  <2> QED BY <1>1, <2>2, <2>3
<1>6. o BY <1>2 DEF Holds, Listens, Typed
<1>7. PICK p : p = <<>> OBVIOUS
<1>8. p \in Seq(Nat) /\ Len(p) = 0 /\ \A i \in 1 .. Len(p) : FALSE BY <1>7
<1>9. InTurn(p, r, v, d)
  <2>1. \A i \in 1 .. Len(r) : r[i].gen <= g /\ r[i].gen < g
    <3>1. \A i \in 1 .. Len(r) : r[i].gen \in 1 .. d BY DEF Holds, InTurn
    <3> QED BY <1>3, <3>1
  <2>2. /\ \A i \in 1 .. Len(r) : r[i].gen \in 1 .. d
        /\ \A i, j \in 1 .. Len(r) : i < j => r[i].gen <= r[j].gen
        /\ \A i, j \in 1 .. Len(r) : i < j /\ r[i].kind = "finished" => r[i].gen < r[j].gen
    BY DEF Holds, InTurn
  <2> QED BY <1>3, <1>8, <2>1, <2>2 DEF InTurn
<1>10. Listens(o, v, p) BY <1>6, <1>7 DEF Listens
<1>11. Quiet(s, p, r, v, o)
  <2> SUFFICES ASSUME ~s.searching
               PROVE  /\ s.waiting = {} /\ ~Runs(v, s.gen)
                      /\ \A i \in 1 .. Len(r) : r[i].gen # s.gen
                      /\ \A i \in 1 .. Len(p) : p[i] # s.gen
    BY DEF Quiet
  <2>1. /\ s.waiting = {} /\ \A i \in 1 .. Len(r) : r[i].gen # s.gen
        /\ \A i \in 1 .. Len(q) : q[i] # s.gen
    BY <1>6 DEF Holds, Quiet
  <2>2. ~Runs(v, s.gen) BY <1>2, <2>1 DEF Runs
  <2> QED BY <1>8, <2>1, <2>2
<1>12. Underway(s, p, r, v, o)
  <2> SUFFICES ASSUME s.searching PROVE Runs(v, s.gen) \/ \E i \in 1 .. Len(r) : Ends(r[i], s.gen)
    BY DEF Underway
  <2>1. (\E i \in 1 .. Len(q) : q[i] = s.gen) \/ \E i \in 1 .. Len(r) : Ends(r[i], s.gen)
    BY <1>6 DEF Holds, Underway, Runs
  <2> QED BY <1>2, <1>5, <2>1 DEF Runs
<1>13. PICK m : m = Started(g) OBVIOUS
<1>14. m \in Messages /\ m.gen = g /\ m.kind = "started" /\ m.providers = Provider
  <2>1. g \in Nat BY <1>1, <1>3
  <2> QED BY <1>13, <2>1 DEF Started, Messages
<1>15. PICK t : t = <<m>> OBVIOUS
<1>16. /\ Batch(v, t, v) /\ t \in Seq(Messages) /\ 1 \in 1 .. Len(t) /\ t[1] = m
       /\ \A i \in 1 .. Len(t) : t[i] = m
  BY <1>14, <1>15, OneIs
<1>17. PICK r2 : r2 = r \o t OBVIOUS
<1>18. InTurn(p, r2, v, d) BY <1>1, <1>8, <1>9, <1>16, <1>17, SentInTurn
<1>19. r2 \in Seq(Messages) /\ Quiet(s, p, r2, v, o) /\ Underway(s, p, r2, v, o)
  BY <1>1, <1>10, <1>11, <1>12, <1>16, <1>17, SentQuiet
<1>20. Fresh(s, p) BY <1>8 DEF Fresh
<1>21. Accounted(s, r2, v, o, y)
  <2>1. Accounted(s, r, v, o, y)
    <3> SUFFICES ASSUME NEW z \in Provider, Over(s, r, v, z) PROVE Told(s, r, y, z)
      BY DEF Accounted
    <3>1. Over(s, r, w, z) BY DEF Over, Runs
    <3> QED BY <1>6, <3>1 DEF Holds, Accounted
  <2>2. y[s.gen] \subseteq y[s.gen] OBVIOUS
  <2>3. ~ \E z \in Provider : z \in v.legs /\ (v.phase = "running" => z \notin v.legs) OBVIOUS
  <2> QED BY <1>1, <1>16, <1>17, <2>1, <2>2, <2>3, SentAccounted
<1>22. Waits(s, r2, v, o)
  <2> SUFFICES ASSUME v.gen = s.gen
      PROVE  /\ \A x \in s.waiting : x \in v.legs \/ \E i \in 1 .. Len(r2) : Drops(r2[i], s.gen, x)
             /\ (\E i \in 1 .. Len(r2) : Starts(r2[i], s.gen)) \/ v.legs \subseteq s.waiting
             /\ \A i \in 1 .. Len(r2) : Resets(r2[i], s.gen) => v.legs \subseteq r2[i].providers
             /\ \A i \in 1 .. Len(r2), x \in Provider :
                  Resets(r2[i], s.gen) /\ x \in r2[i].providers /\ x \notin v.legs
                    => \E j \in 1 .. Len(r2) : i < j /\ Drops(r2[j], s.gen, x)
             /\ \A i \in 1 .. Len(r2), x \in Provider : Drops(r2[i], s.gen, x) => x \notin v.legs
             /\ v.slow <=> s.slow \/ \E i \in 1 .. Len(r2) : Slows(r2[i], s.gen)
    BY DEF Waits, Runs
  <2>1. /\ Len(r) + 1 \in 1 .. Len(r2) /\ r2[Len(r) + 1] = m
        /\ \A i \in 1 .. Len(r2) : (i \in 1 .. Len(r) /\ r2[i] = r[i]) \/ r2[i] = m
    BY <1>1, <1>16, <1>17, Concat
  <2>2. \A i \in 1 .. Len(r) : r[i].gen # s.gen
    <3>1. \A i \in 1 .. Len(r) : r[i].gen \in 1 .. d BY DEF Holds, InTurn
    <3> QED BY <1>3, <3>1
  <2>3. \A i \in 1 .. Len(r2) : r2[i].gen = s.gen => r2[i] = m BY <2>1, <2>2
  <2>4. Starts(m, s.gen) /\ ~Slows(m, s.gen) /\ \A x : ~Drops(m, s.gen, x)
    BY <1>14 DEF Starts, Slows, Drops
  <2>5. \E i \in 1 .. Len(r2) : Starts(r2[i], s.gen) BY <2>1, <2>4
  <2>6. \A i \in 1 .. Len(r2) : Resets(r2[i], s.gen) => v.legs \subseteq r2[i].providers
    BY <1>14, <2>3 DEF Resets, Starts, Slows
  <2>7. \A i \in 1 .. Len(r2) : ~Slows(r2[i], s.gen) BY <2>3, <2>4 DEF Slows
  <2>8. \A i \in 1 .. Len(r2), x \in Provider : ~Drops(r2[i], s.gen, x) BY <2>3, <2>4 DEF Drops
  <2>9. ~s.slow BY <1>2 DEF Holds, Fresh
  <2>10. s.waiting \subseteq v.legs /\ \A x \in Provider : x \in v.legs BY <1>1 DEF Sessions
  <2> QED BY <2>5, <2>6, <2>7, <2>8, <2>9, <2>10
<1>23. Complete(s, r2, o, a)
  <2>1. PICK z : z = s.gen OBVIOUS
  <2>2. \A i \in 1 .. Len(t) : t[i].kind # "answer" BY <1>14, <1>16
  <2>3. OnWay(r \o t, z) = OnWay(r, z) BY <1>1, <1>16, <2>2, OnWaySame
  <2> QED BY <1>17, <2>1, <2>3 DEF Holds, Complete
<1>24. Typed(s, p, v, r2, o, d, c, a, y) BY <1>8, <1>19 DEF Holds, Typed
<1>25. Holds(s, p, v, r2, o, d, c, a, y)
  BY <1>10, <1>18, <1>19, <1>20, <1>21, <1>22, <1>23, <1>24 DEF Holds
<1> QED BY <1>7, <1>13, <1>15, <1>17, <1>25


-----------------------------------------------------------------------------
\* The page.

\* A page past every search dispatched has nothing to do with any message.
LEMMA NewPage ==
  ASSUME NEW s, NEW q, NEW w, NEW r, NEW o, NEW d, NEW c, NEW a, NEW y,
         Holds(s, q, w, r, o, d, c, a, y),
         NEW e \in Nat, e \in Generation, d < e,
         NEW z, z.gen = e, z.hits = {}
  PROVE  /\ ~Runs(w, z.gen) /\ \A i \in 1 .. Len(r) : r[i].gen # z.gen
         /\ \A i \in 1 .. Len(q) : q[i] # z.gen
         /\ Accounted(z, r, w, o, y) /\ Waits(z, r, w, o) /\ Complete(z, r, o, a)
<1>1. d \in Nat /\ r \in Seq(Messages) BY UpTo DEF Holds, Typed
<1>2. z.gen \notin 1 .. d
  <2>1. ~(e <= d) BY <1>1
  <2>2. \A x \in 1 .. d : x <= d OBVIOUS
  <2> QED BY <2>1, <2>2
<1>3. /\ \A i \in 1 .. Len(q) : q[i] \in 1 .. d
      /\ \A i \in 1 .. Len(r) : r[i].gen \in 1 .. d
      /\ w.phase = "running" => w.gen \in 1 .. d
  BY DEF Holds, InTurn
<1>4. ~Runs(w, z.gen) BY <1>2, <1>3 DEF Runs
<1>5. \A i \in 1 .. Len(r) : r[i].gen # z.gen BY <1>2, <1>3
<1>6. \A i \in 1 .. Len(q) : q[i] # z.gen BY <1>2, <1>3
<1>7. Accounted(z, r, w, o, y) BY <1>4, <1>5 DEF Accounted, Over, Ends
<1>8. Waits(z, r, w, o) BY <1>4 DEF Waits
<1>9. Complete(z, r, o, a)
  <2>1. OnWay(r, z.gen) = {}
    <3>1. PICK g : g = z.gen OBVIOUS
    <3>2. \A i \in 1 .. Len(r) : r[i].gen # g BY <1>5, <3>1
    <3>3. r \in Seq(Messages) BY <1>1
    <3>4. ASSUME NEW h PROVE h \notin OnWay(r, g) BY <3>2, <3>3, OnWayIs
    <3> QED BY <3>1, <3>4
  <2>2. a[z.gen] = {} BY <1>2 DEF Holds, Numbered
  <2>3. z.hits \cup OnWay(r, z.gen) = {} BY <2>1
  <2> QED BY <2>2, <2>3 DEF Complete
<1> QED BY <1>4, <1>5, <1>6, <1>7, <1>8, <1>9

\* A page with nothing on it.
LEMMA EmptyIs ==
  ASSUME NEW g \in Nat
  PROVE  /\ Empty(g) \in Sessions /\ Empty(g).gen = g /\ Empty(g).hits = {}
         /\ Empty(g).waiting = {} /\ ~Empty(g).searching /\ ~Empty(g).slow
         /\ Empty(g).status = Nothing
BY DEF Empty, Sessions, Lines

\* A page that asks, of a worker that is there or not.
LEMMA SubmitHolds ==
  ASSUME NEW s, NEW q, NEW w, NEW r, NEW o, NEW d, NEW c, NEW a, NEW y,
         Holds(s, q, w, r, o, d, c, a, y), d < MaxSearches,
         NEW z \in Sessions, z.gen = d + 1, z.hits = {}, z.waiting = {}, z.searching, ~z.slow,
         Honest(z, a, y),
         NEW k, k = IF w.phase = "dead" THEN q ELSE Append(q, d + 1)
  PROVE  Holds(z, k, w, r, o, d + 1, c, a, y)
<1>1. /\ d \in Nat /\ d \in 0 .. MaxSearches /\ c \in Nat /\ q \in Seq(Nat) /\ r \in Seq(Messages)
      /\ w \in Workers /\ MaxSearches \in Nat /\ MaxClears \in Nat
  <2>1. /\ \A n \in 0 .. MaxSearches : n \in Nat
        /\ \A n \in 0 .. MaxClears : n \in Nat
    OBVIOUS
  <2> QED BY <2>1, MediaAssumption DEF Holds, Typed
<1>2. PICK e \in Nat : e = d + 1 /\ e \in 0 .. MaxSearches /\ e \in Generation BY <1>1 DEF Generation
<1>3. z.gen = e /\ z.hits = {} /\ z.waiting = {} /\ z.searching /\ ~z.slow BY <1>2
<1>4. /\ ~Runs(w, z.gen) /\ \A i \in 1 .. Len(r) : r[i].gen # z.gen
      /\ Accounted(z, r, w, o, y) /\ Waits(z, r, w, o) /\ Complete(z, r, o, a)
  BY <1>1, <1>2, <1>3, NewPage
<1>5. /\ \A i \in 1 .. d : i \in 1 .. e /\ i < e
      /\ e \in 1 .. e
  BY <1>1, <1>2
<1>6. k \in Seq(Nat) /\ InTurn(k, r, w, e) /\ Listens(o, w, k)
      /\ (w.phase = "dead" \/ \E i \in 1 .. Len(k) : k[i] = e)
  <2>1. CASE w.phase = "dead"
    <3>1. k = q BY <2>1
    <3>2. InTurn(q, r, w, e) BY <1>5, <2>1 DEF Holds, InTurn
    <3> QED BY <1>1, <2>1, <3>1, <3>2 DEF Holds
  <2>2. CASE w.phase # "dead"
    <3>1. k = Append(q, e) BY <1>2, <2>2
    <3>2. PICK n \in Nat : n = Len(q) BY <1>1, LenProperties
    <3>3. k \in Seq(Nat) /\ Len(k) = n + 1 /\ k[n + 1] = e /\ \A i \in 1 .. n : k[i] = q[i]
      BY <1>1, <1>2, <3>1, <3>2, AppendProperties
    <3>4. \A i \in 1 .. n + 1 : i \in 1 .. n \/ i = n + 1 OBVIOUS
    <3>5. \A i \in 1 .. n : k[i] \in 1 .. d BY <3>2, <3>3 DEF Holds, InTurn
    <3>6. \A i \in 1 .. n + 1 : k[i] \in 1 .. e BY <1>5, <3>3, <3>4, <3>5
    <3>7. ASSUME NEW i \in 1 .. n + 1, NEW j \in 1 .. n + 1, i < j PROVE k[i] < k[j]
      <4>1. i \in 1 .. n BY <3>7
      <4>2. CASE j \in 1 .. n BY <3>2, <3>3, <3>7, <4>1, <4>2 DEF Holds, InTurn
      <4>3. CASE j = n + 1 BY <1>5, <3>3, <3>5, <4>1, <4>3
      <4> QED BY <3>4, <4>2, <4>3
    <3>8. \A i \in 1 .. Len(r) : r[i].gen \in 1 .. d BY DEF Holds, InTurn
    <3>9. \A i \in 1 .. n + 1, j \in 1 .. Len(r) : r[j].gen < k[i]
      <4> SUFFICES ASSUME NEW i \in 1 .. n + 1, NEW j \in 1 .. Len(r) PROVE r[j].gen < k[i] OBVIOUS
      <4>1. CASE i \in 1 .. n BY <3>2, <3>3, <4>1 DEF Holds, InTurn
      <4>2. CASE i = n + 1 BY <1>5, <3>3, <3>8, <4>2
      <4> QED BY <3>4, <4>1, <4>2
    <3>10. w.phase = "running" => w.gen \in 1 .. d /\ \A i \in 1 .. n + 1 : w.gen < k[i]
      <4> SUFFICES ASSUME w.phase = "running", NEW i \in 1 .. n + 1
                   PROVE  w.gen \in 1 .. d /\ w.gen < k[i]
        BY DEF Holds, InTurn
      <4>1. w.gen \in 1 .. d BY DEF Holds, InTurn
      <4>2. CASE i \in 1 .. n BY <3>2, <3>3, <4>1, <4>2 DEF Holds, InTurn
      <4>3. CASE i = n + 1 BY <1>5, <3>3, <4>1, <4>3
      <4> QED BY <3>4, <4>2, <4>3
    <3>11. /\ \A i, j \in 1 .. Len(r) : i < j => r[i].gen <= r[j].gen
           /\ \A i, j \in 1 .. Len(r) : i < j /\ r[i].kind = "finished" => r[i].gen < r[j].gen
           /\ w.phase = "running" => \A i \in 1 .. Len(r) : r[i].gen <= w.gen
           /\ w.phase = "running" => \A i \in 1 .. Len(r) : r[i].kind = "finished" => r[i].gen < w.gen
      BY DEF Holds, InTurn
    <3>12. InTurn(k, r, w, e) BY <1>5, <3>3, <3>6, <3>7, <3>8, <3>9, <3>10, <3>11 DEF InTurn
    <3>13. Listens(o, w, k) BY <2>2 DEF Holds, Listens
    <3>14. n + 1 \in 1 .. n + 1 OBVIOUS
    <3> QED BY <3>3, <3>12, <3>13, <3>14
  <2> QED BY <2>1, <2>2
<1>7. Quiet(z, k, r, w, o) /\ Underway(z, k, r, w, o) BY <1>3, <1>6 DEF Quiet, Underway
<1>8. Fresh(z, k) BY <1>3 DEF Fresh
<1>9. Numbered(z, e, c, a, y)
  <2>1. \A g \in Generation : g \notin 1 .. e => a[g] = {} /\ y[g] = {}
    BY <1>5 DEF Holds, Numbered
  <2>2. e <= e /\ e <= e + c BY <1>1, <1>2
  <2> QED BY <1>3, <2>1, <2>2 DEF Numbered
<1>10. Typed(z, k, w, r, o, e, c, a, y) BY <1>2, <1>3, <1>6 DEF Holds, Typed
<1>11. Holds(z, k, w, r, o, e, c, a, y) BY <1>4, <1>6, <1>7, <1>8, <1>9, <1>10 DEF Holds
<1> QED BY <1>2, <1>11

\* A page that is cleared.
LEMMA ClearHolds ==
  ASSUME NEW s, NEW q, NEW w, NEW r, NEW o, NEW d, NEW c, NEW a, NEW y,
         Holds(s, q, w, r, o, d, c, a, y), c < MaxClears,
         NEW z \in Sessions, z.gen = s.gen + 1, z.hits = {}, z.waiting = {}, ~z.searching, ~z.slow,
         Honest(z, a, y)
  PROVE  Holds(z, q, w, r, o, d, c + 1, a, y)
<1>1. /\ d \in Nat /\ d <= MaxSearches /\ c \in Nat /\ s.gen \in Nat
      /\ d <= s.gen /\ s.gen <= d + c /\ MaxSearches \in Nat /\ MaxClears \in Nat
  BY MediaAssumption DEF Holds, Typed, Numbered, Sessions
<1>2. PICK e \in Nat : e = s.gen + 1 /\ e \in Generation /\ d < e /\ d <= e /\ e <= d + (c + 1)
  BY <1>1 DEF Generation
<1>3. z.gen = e /\ z.hits = {} /\ z.waiting = {} /\ ~z.searching /\ ~z.slow BY <1>2
<1>4. /\ ~Runs(w, z.gen) /\ \A i \in 1 .. Len(r) : r[i].gen # z.gen
      /\ \A i \in 1 .. Len(q) : q[i] # z.gen
      /\ Accounted(z, r, w, o, y) /\ Waits(z, r, w, o) /\ Complete(z, r, o, a)
  BY <1>2, <1>3, NewPage
<1>5. Quiet(z, q, r, w, o) /\ Underway(z, q, r, w, o) /\ Fresh(z, q)
  BY <1>3, <1>4 DEF Quiet, Underway, Fresh
<1>6. Numbered(z, d, c + 1, a, y) BY <1>2, <1>3 DEF Holds, Numbered
<1>7. c + 1 \in 0 .. MaxClears BY <1>1
<1>8. Typed(z, q, w, r, o, d, c + 1, a, y) BY <1>3, <1>7 DEF Holds, Typed
<1> QED BY <1>4, <1>5, <1>6, <1>8 DEF Holds

\* A page where only the selection or the line of text changes.
LEMMA SamePageHolds ==
  ASSUME NEW s, NEW q, NEW w, NEW r, NEW o, NEW d, NEW c, NEW a, NEW y,
         Holds(s, q, w, r, o, d, c, a, y), NEW z \in Sessions,
         z.gen = s.gen, z.hits = s.hits, z.waiting = s.waiting, z.problems = s.problems,
         z.searching = s.searching, z.slow = s.slow,
         z.status = "none found" => s.status = "none found"
  PROVE  Holds(z, q, w, r, o, d, c, a, y)
<1>1. Typed(z, q, w, r, o, d, c, a, y) /\ Numbered(z, d, c, a, y) BY DEF Holds, Typed, Numbered
<1>2. Quiet(z, q, r, w, o) /\ Underway(z, q, r, w, o) /\ Fresh(z, q)
  BY DEF Holds, Quiet, Underway, Fresh
<1>3. Accounted(z, r, w, o, y) BY DEF Holds, Accounted, Over, Told
<1>4. Honest(z, a, y) BY DEF Holds, Honest
<1>5. Waits(z, r, w, o)
  <2>1. Waits(s, r, w, o) BY DEF Holds
  <2> QED BY <2>1 DEF Waits
<1>6. Complete(z, r, o, a) BY DEF Holds, Complete
<1> QED BY <1>1, <1>2, <1>3, <1>4, <1>5, <1>6 DEF Holds

\* The worker is gone.
LEMMA DieHolds ==
  ASSUME NEW s, NEW q, NEW w, NEW r, NEW o, NEW d, NEW c, NEW a, NEW y,
         Holds(s, q, w, r, o, d, c, a, y), NEW v \in Workers, v.phase = "dead"
  PROVE  Holds(s, <<>>, v, r, o, d, c, a, y)
<1>1. PICK p : p = <<>> OBVIOUS
<1>2. p \in Seq(Nat) /\ \A i \in 1 .. Len(p) : FALSE BY <1>1
<1>3. InTurn(p, r, v, d)
  <2>1. /\ \A i \in 1 .. Len(r) : r[i].gen \in 1 .. d
        /\ \A i, j \in 1 .. Len(r) : i < j => r[i].gen <= r[j].gen
        /\ \A i, j \in 1 .. Len(r) : i < j /\ r[i].kind = "finished" => r[i].gen < r[j].gen
    BY DEF Holds, InTurn
  <2> QED BY <1>2, <2>1 DEF InTurn
<1>4. Listens(o, v, p) /\ Fresh(s, p) BY <1>1, <1>2 DEF Listens, Fresh
<1>5. Quiet(s, p, r, v, o) /\ Underway(s, p, r, v, o) BY <1>2 DEF Holds, Quiet, Underway, Runs
<1>6. Accounted(s, r, v, o, y)
  <2> SUFFICES ASSUME NEW x \in Provider, o, Over(s, r, v, x) PROVE Told(s, r, y, x) BY DEF Accounted
  <2>1. Over(s, r, w, x) BY DEF Over, Runs
  <2> QED BY <2>1 DEF Holds, Accounted
<1>7. Waits(s, r, v, o) BY DEF Waits, Runs
<1>8. Typed(s, p, v, r, o, d, c, a, y) BY <1>2 DEF Holds, Typed
<1>9. Holds(s, p, v, r, o, d, c, a, y) BY <1>3, <1>4, <1>5, <1>6, <1>7, <1>8 DEF Holds
<1> QED BY <1>1, <1>9

\* The page stops listening to it.
LEMMA DeafHolds ==
  ASSUME NEW s, NEW q, NEW w, NEW r, NEW o, NEW d, NEW c, NEW a, NEW y,
         Holds(s, q, w, r, o, d, c, a, y), w.phase = "dead",
         NEW z, z = [s EXCEPT !.searching = FALSE]
  PROVE  Holds(z, q, w, r, FALSE, d, c, a, y)
<1>1. s \in Sessions BY DEF Holds, Typed
<1>2. z \in Sessions /\ z.gen = s.gen /\ z.status = s.status /\ z.slow = s.slow /\ ~z.searching
  BY <1>1 DEF Sessions
<1>3. Typed(z, q, w, r, FALSE, d, c, a, y) /\ Numbered(z, d, c, a, y) /\ Fresh(z, q)
  BY <1>2 DEF Holds, Typed, Numbered, Fresh
<1>4. Listens(FALSE, w, q) BY DEF Holds, Listens
<1>5. Honest(z, a, y) BY <1>2 DEF Holds, Honest
<1>6. /\ Quiet(z, q, r, w, FALSE) /\ Underway(z, q, r, w, FALSE) /\ Accounted(z, r, w, FALSE, y)
      /\ Waits(z, r, w, FALSE) /\ Complete(z, r, FALSE, a)
  BY DEF Quiet, Underway, Accounted, Waits, Complete
<1> QED BY <1>3, <1>4, <1>5, <1>6 DEF Holds


\* What a message of its search does to the page.
Read(m, s, z) ==
  /\ z \in Sessions /\ z.gen = s.gen
  /\ m.kind = "started" =>
       /\ z.waiting = m.providers /\ z.searching /\ z.slow = s.slow
       /\ z.hits = s.hits /\ z.problems = s.problems
  /\ m.kind = "answer" =>
       /\ z.waiting = s.waiting \ {m.provider} /\ z.searching = s.searching /\ z.slow = s.slow
       /\ z.hits = Merge(s.hits \cup m.hits) /\ z.problems = s.problems
  /\ m.kind = "problem" =>
       /\ z.waiting = s.waiting \ {m.provider} /\ z.searching = s.searching /\ z.slow = s.slow
       /\ z.hits = s.hits /\ z.problems = s.problems \cup {m.provider}
  /\ m.kind = "slow" =>
       /\ z.waiting = m.providers /\ z.searching = s.searching /\ z.slow
       /\ z.hits = s.hits /\ z.problems = s.problems
  /\ m.kind = "finished" =>
       /\ z.waiting = {} /\ ~z.searching /\ z.slow = s.slow
       /\ z.hits = s.hits /\ z.problems = s.problems
  /\ z.status = "none found" => ~z.searching /\ z.hits = {} /\ z.problems = {}

\* The selection is one of the list's clips, or none.
LEMMA Selected ==
  ASSUME NEW s \in Sessions
  PROVE  /\ KeepSelection(s) \in Sessions
         /\ \A f \in {"gen", "hits", "waiting", "problems", "searching", "slow"} :
              KeepSelection(s)[f] = s[f]
<1>1. /\ [s EXCEPT !.selected = Nothing] \in Sessions
      /\ \A f \in {"gen", "hits", "waiting", "problems", "searching", "slow"} :
           [s EXCEPT !.selected = Nothing][f] = s[f]
  BY DEF Sessions
<1> QED BY <1>1 DEF KeepSelection

\* A message of the search on screen is read.
LEMMA Reads ==
  ASSUME NEW s \in Sessions, NEW m \in Messages, m.gen = s.gen
  PROVE  Read(m, s, Apply(m, s))
<1> DEFINE Same(t, z) ==
             /\ z.gen = t.gen /\ z.waiting = t.waiting /\ z.searching = t.searching
             /\ z.slow = t.slow /\ z.hits = t.hits /\ z.problems = t.problems
<1>1. ASSUME NEW t \in Sessions, t.gen = s.gen, t = Folded(m, s),
             NEW z, z = [t EXCEPT !.status = ComposeStatus(t)]
      PROVE  /\ z \in Sessions /\ Same(t, z)
             /\ z.status = "none found" => ~t.searching /\ t.hits = {} /\ t.problems = {}
  <2>1. PICK l : l = ComposeStatus(t) OBVIOUS
  <2>2. t.searching \in BOOLEAN BY DEF Sessions
  <2>3. l \in Lines /\ (l = "none found" => ~t.searching /\ t.hits = {} /\ t.problems = {})
    BY <2>1, <2>2 DEF ComposeStatus, Lines
  <2>4. z = [t EXCEPT !.status = l] BY <1>1, <2>1
  <2>5. z \in Sessions /\ z.status = l /\ Same(t, z) BY <2>3, <2>4 DEF Sessions
  <2> QED BY <2>3, <2>5
<1>2. PICK t : t = Folded(m, s) OBVIOUS
<1>3. PICK z : z = [t EXCEPT !.status = ComposeStatus(t)] OBVIOUS
<1>4. z = Apply(m, s) BY <1>2, <1>3 DEF Apply
<1>5. CASE m.kind = "started"
  <2>1. m.providers \subseteq Provider BY <1>5 DEF Messages
  <2>2. t = [s EXCEPT !.waiting = m.providers, !.searching = TRUE] BY <1>2, <1>5 DEF Folded
  <2>3. /\ t \in Sessions /\ t.gen = s.gen /\ t.waiting = m.providers /\ t.searching = TRUE
        /\ t.slow = s.slow /\ t.hits = s.hits /\ t.problems = s.problems
    BY <2>1, <2>2 DEF Sessions
  <2>4. /\ z \in Sessions /\ Same(t, z)
        /\ z.status = "none found" => ~t.searching /\ t.hits = {} /\ t.problems = {}
    BY <1>1, <1>2, <1>3, <2>3
  <2>5. Read(m, s, z) BY <1>5, <2>3, <2>4 DEF Read
  <2> QED BY <1>4, <2>5
<1>6. CASE m.kind = "answer"
  <2>1. m.hits \subseteq Clips BY <1>6 DEF Messages
  <2>2. PICK u : u = [s EXCEPT !.waiting = @ \ {m.provider}, !.hits = FoldIn(@, m.hits)] OBVIOUS
  <2>3. PICK M \in SUBSET Clips : M = Merge(s.hits \cup m.hits)
    <3>1. s.hits \subseteq Clips BY DEF Sessions
    <3> QED BY <2>1, <3>1 DEF Merge
  <2>4. u = [s EXCEPT !.waiting = s.waiting \ {m.provider}, !.hits = M]
    BY <2>2, <2>3 DEF FoldIn
  <2>5. /\ u \in Sessions /\ u.gen = s.gen /\ u.waiting = s.waiting \ {m.provider}
        /\ u.searching = s.searching /\ u.slow = s.slow /\ u.hits = M /\ u.problems = s.problems
    BY <2>4 DEF Sessions
  <2>6. t = KeepSelection(u) BY <1>2, <1>6, <2>2 DEF Folded
  <2>7. /\ t \in Sessions
        /\ \A f \in {"gen", "hits", "waiting", "problems", "searching", "slow"} : t[f] = u[f]
    BY <2>5, <2>6, Selected
  <2>8. t.gen = s.gen BY <2>5, <2>7
  <2>9. /\ z \in Sessions /\ Same(t, z)
        /\ z.status = "none found" => ~t.searching /\ t.hits = {} /\ t.problems = {}
    BY <1>1, <1>2, <1>3, <2>7, <2>8
  <2>10. Read(m, s, z) BY <1>6, <2>3, <2>5, <2>7, <2>8, <2>9 DEF Read
  <2> QED BY <1>4, <2>10
<1>7. CASE m.kind = "problem"
  <2>1. m.provider \in Provider BY <1>7 DEF Messages
  <2>2. t = [s EXCEPT !.waiting = s.waiting \ {m.provider}, !.problems = s.problems \cup {m.provider}]
    BY <1>2, <1>7 DEF Folded
  <2>3. /\ t \in Sessions /\ t.gen = s.gen /\ t.waiting = s.waiting \ {m.provider}
        /\ t.searching = s.searching /\ t.slow = s.slow /\ t.hits = s.hits
        /\ t.problems = s.problems \cup {m.provider}
    BY <2>1, <2>2 DEF Sessions
  <2>4. /\ z \in Sessions /\ Same(t, z)
        /\ z.status = "none found" => ~t.searching /\ t.hits = {} /\ t.problems = {}
    BY ZenonT(60), <1>1, <1>2, <1>3, <2>3
  <2>5. Read(m, s, z) BY <1>7, <2>3, <2>4 DEF Read
  <2> QED BY <1>4, <2>5
<1>8. CASE m.kind = "slow"
  <2>1. m.providers \subseteq Provider BY <1>8 DEF Messages
  <2>2. t = [s EXCEPT !.waiting = m.providers, !.slow = TRUE] BY <1>2, <1>8 DEF Folded
  <2>3. /\ t \in Sessions /\ t.gen = s.gen /\ t.waiting = m.providers
        /\ t.searching = s.searching /\ t.slow = TRUE /\ t.hits = s.hits /\ t.problems = s.problems
    BY <2>1, <2>2 DEF Sessions
  <2>4. t \in Sessions /\ t.gen = s.gen BY <2>3
  <2>5. /\ z \in Sessions /\ Same(t, z)
        /\ z.status = "none found" => ~t.searching /\ t.hits = {} /\ t.problems = {}
    BY <1>1, <1>2, <1>3, <2>4
  <2>6. Read(m, s, z) BY <1>8, <2>3, <2>5 DEF Read
  <2> QED BY <1>4, <2>6
<1>9. CASE m.kind = "finished"
  <2>1. t = [s EXCEPT !.searching = FALSE, !.waiting = {}] BY <1>2, <1>9 DEF Folded
  <2>2. /\ t \in Sessions /\ t.gen = s.gen /\ t.waiting = {} /\ t.searching = FALSE
        /\ t.slow = s.slow /\ t.hits = s.hits /\ t.problems = s.problems
    BY <2>1 DEF Sessions
  <2>3. /\ z \in Sessions /\ Same(t, z)
        /\ z.status = "none found" => ~t.searching /\ t.hits = {} /\ t.problems = {}
    BY <1>1, <1>2, <1>3, <2>2
  <2>4. Read(m, s, z) BY <1>9, <2>2, <2>3 DEF Read
  <2> QED BY <1>4, <2>4
<1>10. m.kind \in {"started", "answer", "problem", "slow", "finished"} BY DEF Messages
<1> QED BY <1>5, <1>6, <1>7, <1>8, <1>9, <1>10


\* What is left on its way stays in the order of the searches.
LEMMA TailInTurn ==
  ASSUME NEW q, NEW r \in Seq(Messages), r # <<>>, NEW w, NEW d, InTurn(q, r, w, d),
         NEW e, e = Tail(r)
  PROVE  InTurn(q, e, w, d)
<1>1. Len(e) \in Nat /\ \A i \in 1 .. Len(e) : i + 1 \in 1 .. Len(r) /\ e[i] = r[i + 1] BY Tailed
<1>2. ASSUME NEW i \in 1 .. Len(e)
      PROVE  /\ e[i].gen \in 1 .. d
             /\ \A k \in 1 .. Len(q) : e[i].gen < q[k]
             /\ w.phase = "running" =>
                  e[i].gen <= w.gen /\ (e[i].kind = "finished" => e[i].gen < w.gen)
  BY <1>1 DEF InTurn
<1>3. ASSUME NEW i \in 1 .. Len(e), NEW j \in 1 .. Len(e), i < j
      PROVE  e[i].gen <= e[j].gen /\ (e[i].kind = "finished" => e[i].gen < e[j].gen)
  <2>1. PICK k \in 1 .. Len(r), l \in 1 .. Len(r) : e[i] = r[k] /\ e[j] = r[l] /\ k < l
    <3>1. i + 1 < j + 1 BY <1>1, <1>3
    <3> QED BY <1>1, <3>1
  <2>2. r[k].gen <= r[l].gen /\ (r[k].kind = "finished" => r[k].gen < r[l].gen)
    BY <2>1 DEF InTurn
  <2> QED BY <2>1, <2>2
<1>4. /\ \A i \in 1 .. Len(q) : q[i] \in 1 .. d
      /\ \A i, j \in 1 .. Len(q) : i < j => q[i] < q[j]
      /\ w.phase = "running" => w.gen \in 1 .. d /\ \A i \in 1 .. Len(q) : w.gen < q[i]
  BY DEF InTurn
<1> QED BY <1>2, <1>3, <1>4 DEF InTurn

\* The hits on their way are those of the head and the others.
LEMMA OnWayTail ==
  ASSUME NEW r \in Seq(Messages), r # <<>>, NEW g
  PROVE  /\ Head(r).kind = "answer" /\ Head(r).gen = g
              => OnWay(r, g) = Head(r).hits \cup OnWay(Tail(r), g)
         /\ ~(Head(r).kind = "answer" /\ Head(r).gen = g) => OnWay(r, g) = OnWay(Tail(r), g)
<1>1. PICK u : u = Tail(r) OBVIOUS
<1>2. PICK v : v = Head(r) OBVIOUS
<1>3. /\ u \in Seq(Messages) /\ 1 \in 1 .. Len(r) /\ r[1] = v
      /\ \A i \in 1 .. Len(u) : i + 1 \in 1 .. Len(r) /\ u[i] = r[i + 1]
      /\ \A i \in 1 .. Len(r) : i = 1 \/ (i - 1 \in 1 .. Len(u) /\ r[i] = u[i - 1])
  BY <1>1, <1>2, Tailed
<1> DEFINE Brings(x, h) == x.kind = "answer" /\ x.gen = g /\ h \in x.hits
<1>4. ASSUME NEW h
      PROVE  (\E i \in 1 .. Len(r) : Brings(r[i], h))
               <=> Brings(v, h) \/ \E i \in 1 .. Len(u) : Brings(u[i], h)
  <2> HIDE DEF Brings
  <2>1. ASSUME NEW i \in 1 .. Len(u), Brings(u[i], h) PROVE \E j \in 1 .. Len(r) : Brings(r[j], h)
    BY <1>3, <2>1
  <2>2. ASSUME NEW i \in 1 .. Len(r), Brings(r[i], h)
        PROVE  Brings(v, h) \/ \E j \in 1 .. Len(u) : Brings(u[j], h)
    BY <1>3, <2>2
  <2> QED BY <1>3, <2>1, <2>2
<1>5. ASSUME NEW h PROVE h \in OnWay(r, g) <=> Brings(v, h) \/ h \in OnWay(u, g)
  <2>1. h \in OnWay(r, g) <=> \E i \in 1 .. Len(r) : Brings(r[i], h) BY OnWayIs
  <2>2. h \in OnWay(u, g) <=> \E i \in 1 .. Len(u) : Brings(u[i], h)
    <3>1. u \in Seq(Messages) BY <1>3
    <3> QED BY <3>1, OnWayIs
  <2> QED BY <1>4, <2>1, <2>2
<1>6. ASSUME v.kind = "answer", v.gen = g PROVE OnWay(r, g) = v.hits \cup OnWay(u, g)
  BY <1>5, <1>6
<1>7. ASSUME ~(v.kind = "answer" /\ v.gen = g) PROVE OnWay(r, g) = OnWay(u, g) BY <1>5, <1>7
<1> QED BY <1>1, <1>2, <1>6, <1>7

\* A message of another search is dropped.
LEMMA OtherHolds ==
  ASSUME NEW s, NEW q, NEW w, NEW r, NEW o, NEW d, NEW c, NEW a, NEW y,
         Holds(s, q, w, r, o, d, c, a, y), r # <<>>, NEW m, m = Head(r), m.gen # s.gen,
         NEW e, e = Tail(r)
  PROVE  Holds(s, q, w, e, o, d, c, a, y)
<1>1. r \in Seq(Messages) BY DEF Holds, Typed
<1>2. /\ e \in Seq(Messages) /\ r[1] = m /\ Len(e) \in Nat
      /\ \A i \in 1 .. Len(e) : i + 1 \in 1 .. Len(r) /\ e[i] = r[i + 1]
      /\ \A i \in 1 .. Len(r) : i = 1 \/ (i - 1 \in 1 .. Len(e) /\ r[i] = e[i - 1])
  BY <1>1, Tailed
<1>3. InTurn(q, e, w, d)
  <2>1. InTurn(q, r, w, d) BY DEF Holds
  <2> QED BY <1>1, <2>1, TailInTurn
<1>4. \A i \in 1 .. Len(r) : r[i].gen = s.gen => i - 1 \in 1 .. Len(e) /\ r[i] = e[i - 1] BY <1>2
<1>5. Quiet(s, q, e, w, o)
  <2>1. Quiet(s, q, r, w, o) BY DEF Holds
  <2> QED BY <1>2, <2>1 DEF Quiet
<1>6. Underway(s, q, e, w, o)
  <2>1. Underway(s, q, r, w, o) BY DEF Holds
  <2>2. (\E i \in 1 .. Len(r) : Ends(r[i], s.gen)) => \E i \in 1 .. Len(e) : Ends(e[i], s.gen)
    BY <1>4 DEF Ends
  <2> QED BY <2>1, <2>2 DEF Underway
<1>7. Accounted(s, e, w, o, y)
  <2> SUFFICES ASSUME NEW p \in Provider, o, Over(s, e, w, p) PROVE Told(s, e, y, p) BY DEF Accounted
  <2>1. Over(s, r, w, p) BY <1>2 DEF Over
  <2>2. Told(s, r, y, p) BY <2>1 DEF Holds, Accounted
  <2>3. (\E i \in 1 .. Len(r) : Fails(r[i], s.gen, p)) => \E i \in 1 .. Len(e) : Fails(e[i], s.gen, p)
    BY <1>4 DEF Fails
  <2> QED BY <2>2, <2>3 DEF Told
<1>8. Waits(s, e, w, o)
  <2> SUFFICES ASSUME o, Runs(w, s.gen)
      PROVE  /\ \A p \in s.waiting : p \in w.legs \/ \E i \in 1 .. Len(e) : Drops(e[i], s.gen, p)
             /\ (\E i \in 1 .. Len(e) : Starts(e[i], s.gen)) \/ w.legs \subseteq s.waiting
             /\ \A i \in 1 .. Len(e) : Resets(e[i], s.gen) => w.legs \subseteq e[i].providers
             /\ \A i \in 1 .. Len(e), p \in Provider :
                  Resets(e[i], s.gen) /\ p \in e[i].providers /\ p \notin w.legs
                    => \E j \in 1 .. Len(e) : i < j /\ Drops(e[j], s.gen, p)
             /\ \A i \in 1 .. Len(e), p \in Provider : Drops(e[i], s.gen, p) => p \notin w.legs
             /\ w.slow <=> s.slow \/ \E i \in 1 .. Len(e) : Slows(e[i], s.gen)
    BY DEF Waits
  <2>1. Waits(s, r, w, o) BY DEF Holds
  <2>2. /\ \A p \in s.waiting : p \in w.legs \/ \E i \in 1 .. Len(r) : Drops(r[i], s.gen, p)
        /\ (\E i \in 1 .. Len(r) : Starts(r[i], s.gen)) \/ w.legs \subseteq s.waiting
        /\ \A i \in 1 .. Len(r) : Resets(r[i], s.gen) => w.legs \subseteq r[i].providers
        /\ \A i \in 1 .. Len(r), p \in Provider :
             Resets(r[i], s.gen) /\ p \in r[i].providers /\ p \notin w.legs
               => \E j \in 1 .. Len(r) : i < j /\ Drops(r[j], s.gen, p)
        /\ \A i \in 1 .. Len(r), p \in Provider : Drops(r[i], s.gen, p) => p \notin w.legs
        /\ w.slow <=> s.slow \/ \E i \in 1 .. Len(r) : Slows(r[i], s.gen)
    BY <2>1 DEF Waits
  <2>3. ASSUME NEW p, NEW i \in 1 .. Len(r), Drops(r[i], s.gen, p)
        PROVE  i - 1 \in 1 .. Len(e) /\ Drops(e[i - 1], s.gen, p)
    BY <1>4, <2>3 DEF Drops
  <2>4. \A p \in s.waiting : p \in w.legs \/ \E i \in 1 .. Len(e) : Drops(e[i], s.gen, p)
    BY <2>2, <2>3
  <2>5. (\E i \in 1 .. Len(e) : Starts(e[i], s.gen)) \/ w.legs \subseteq s.waiting
    BY <1>4, <2>2 DEF Starts
  <2>6. \A i \in 1 .. Len(e) : Resets(e[i], s.gen) => w.legs \subseteq e[i].providers
    BY <1>2, <2>2
  <2>7. ASSUME NEW i \in 1 .. Len(e), NEW p \in Provider,
               Resets(e[i], s.gen), p \in e[i].providers, p \notin w.legs
        PROVE  \E j \in 1 .. Len(e) : i < j /\ Drops(e[j], s.gen, p)
    <3>1. i + 1 \in 1 .. Len(r) /\ e[i] = r[i + 1] BY <1>2
    <3>2. PICK j \in 1 .. Len(r) : i + 1 < j /\ Drops(r[j], s.gen, p) BY <2>2, <2>7, <3>1
    <3>3. j - 1 \in 1 .. Len(e) /\ Drops(e[j - 1], s.gen, p) BY <2>3, <3>2
    <3>4. i < j - 1 BY <3>2
    <3> QED BY <3>3, <3>4
  <2>8. \A i \in 1 .. Len(e), p \in Provider : Drops(e[i], s.gen, p) => p \notin w.legs
    BY <1>2, <2>2
  <2>9. (\E i \in 1 .. Len(e) : Slows(e[i], s.gen)) <=> \E i \in 1 .. Len(r) : Slows(r[i], s.gen)
    <3>1. ASSUME NEW i \in 1 .. Len(e), Slows(e[i], s.gen) PROVE \E j \in 1 .. Len(r) : Slows(r[j], s.gen)
      BY <1>2, <3>1
    <3>2. ASSUME NEW i \in 1 .. Len(r), Slows(r[i], s.gen) PROVE \E j \in 1 .. Len(e) : Slows(e[j], s.gen)
      BY <1>4, <3>2 DEF Slows
    <3> QED BY <3>1, <3>2
  <2>10. w.slow <=> s.slow \/ \E i \in 1 .. Len(e) : Slows(e[i], s.gen) BY <2>2, <2>9
  <2> QED BY <2>4, <2>5, <2>6, <2>7, <2>8, <2>10
<1>9. Complete(s, e, o, a)
  <2>1. PICK g : g = s.gen OBVIOUS
  <2>2. ~(m.kind = "answer" /\ m.gen = g) BY <2>1
  <2>3. OnWay(r, g) = OnWay(e, g) BY <1>1, <2>2, OnWayTail
  <2> QED BY <2>1, <2>3 DEF Holds, Complete
<1>10. Typed(s, q, w, e, o, d, c, a, y) BY <1>2 DEF Holds, Typed
<1> QED BY <1>3, <1>5, <1>6, <1>7, <1>8, <1>9, <1>10 DEF Holds


\* A message of the search on screen is folded in.
LEMMA ReadHolds ==
  ASSUME NEW s, NEW q, NEW w, NEW r, NEW o, NEW d, NEW c, NEW a, NEW y,
         Holds(s, q, w, r, o, d, c, a, y), r # <<>>, NEW m, m = Head(r), m.gen = s.gen,
         NEW e, e = Tail(r), o, NEW z, Read(m, s, z)
  PROVE  Holds(z, q, w, e, o, d, c, a, y)
<1>1. r \in Seq(Messages) /\ s \in Sessions /\ w \in Workers /\ s.gen \in Nat
  BY DEF Holds, Typed, Sessions
<1>2. /\ e \in Seq(Messages) /\ m \in Messages /\ 1 \in 1 .. Len(r) /\ r[1] = m /\ Len(e) \in Nat
      /\ \A i \in 1 .. Len(e) : i + 1 \in 1 .. Len(r) /\ e[i] = r[i + 1] /\ 1 < i + 1
      /\ \A i \in 1 .. Len(r) : i = 1 \/ (i - 1 \in 1 .. Len(e) /\ r[i] = e[i - 1])
  <2>1. \A i \in 1 .. Len(e) : 1 < i + 1 OBVIOUS
  <2> QED BY <1>1, <2>1, Tailed
<1>3. z \in Sessions /\ z.gen = s.gen BY DEF Read
<1>4. m.kind \in {"started", "answer", "problem", "slow", "finished"} BY <1>2 DEF Messages
<1>5. s.searching
  <2>1. ~(\A i \in 1 .. Len(r) : r[i].gen # s.gen) BY <1>2
  <2> QED BY <2>1 DEF Holds, Quiet
<1>6. z.searching <=> m.kind # "finished" BY <1>4, <1>5 DEF Read
<1>7. \A i \in 1 .. Len(q) : q[i] # s.gen
  <2> SUFFICES ASSUME NEW i \in 1 .. Len(q), q[i] = s.gen PROVE FALSE OBVIOUS
  <2>1. r[1].gen < q[i] BY <1>2 DEF Holds, InTurn
  <2> QED BY <1>1, <1>2, <2>1
<1>8. ASSUME m.kind = "finished"
      PROVE  ~Runs(w, s.gen) /\ \A i \in 1 .. Len(e) : e[i].gen # s.gen
  <2>1. ASSUME w.phase = "running" PROVE w.gen # s.gen
    <3>1. r[1].gen < w.gen BY <1>2, <1>8, <2>1 DEF Holds, InTurn
    <3> QED BY <1>1, <1>2, <3>1
  <2>2. ASSUME NEW i \in 1 .. Len(e) PROVE e[i].gen # s.gen
    <3>1. r[1].gen < r[i + 1].gen BY <1>2, <1>8 DEF Holds, InTurn
    <3> QED BY <1>1, <1>2, <3>1
  <2> QED BY <2>1, <2>2 DEF Runs
<1>9. InTurn(q, e, w, d)
  <2>1. InTurn(q, r, w, d) BY DEF Holds
  <2> QED BY <1>1, <2>1, TailInTurn
<1>10. Quiet(z, q, e, w, o)
  <2> SUFFICES ASSUME ~z.searching
               PROVE  /\ z.waiting = {} /\ ~Runs(w, s.gen)
                      /\ \A i \in 1 .. Len(e) : e[i].gen # s.gen
                      /\ \A i \in 1 .. Len(q) : q[i] # s.gen
    BY <1>3 DEF Quiet
  <2>1. m.kind = "finished" BY <1>6
  <2>2. z.waiting = {} BY <2>1 DEF Read
  <2> QED BY <1>7, <1>8, <2>1, <2>2
<1>11. Underway(z, q, e, w, o)
  <2> SUFFICES ASSUME z.searching
               PROVE  \/ \E i \in 1 .. Len(q) : q[i] = s.gen
                      \/ Runs(w, s.gen) \/ w.phase = "dead"
                      \/ \E i \in 1 .. Len(e) : Ends(e[i], s.gen)
    BY <1>3 DEF Underway
  <2>1. \/ \E i \in 1 .. Len(q) : q[i] = s.gen
        \/ Runs(w, s.gen) \/ w.phase = "dead"
        \/ \E i \in 1 .. Len(r) : Ends(r[i], s.gen)
    BY <1>5 DEF Holds, Underway
  <2>2. ~Ends(r[1], s.gen) BY <1>2, <1>6 DEF Ends
  <2>3. (\E i \in 1 .. Len(r) : Ends(r[i], s.gen)) => \E i \in 1 .. Len(e) : Ends(e[i], s.gen)
    BY <1>2, <2>2
  <2> QED BY <2>1, <2>3
<1>12. Fresh(z, q) BY <1>3, <1>7 DEF Fresh
<1>13. Accounted(z, e, w, o, y)
  <2> SUFFICES ASSUME NEW p \in Provider, Over(z, e, w, p) PROVE Told(z, e, y, p) BY DEF Accounted
  <2>1. Over(s, r, w, p) BY <1>2, <1>3 DEF Over
  <2>2. Told(s, r, y, p) BY <2>1 DEF Holds, Accounted
  <2>3. s.problems \subseteq z.problems BY <1>4 DEF Read
  <2>4. Fails(r[1], s.gen, p) => p \in z.problems
    <3>1. Fails(m, s.gen, p) => m.kind = "problem" /\ m.provider = p BY DEF Fails
    <3>2. m.kind = "problem" => m.provider \in z.problems BY DEF Read
    <3> QED BY <1>2, <3>1, <3>2
  <2>5. ASSUME NEW i \in 1 .. Len(r), Fails(r[i], s.gen, p), i # 1
        PROVE  \E j \in 1 .. Len(e) : Fails(e[j], s.gen, p)
    BY <1>2, <2>5
  <2> QED BY <1>3, <2>2, <2>3, <2>4, <2>5 DEF Told
<1>14. OnWay(r, s.gen) = IF m.kind = "answer" THEN m.hits \cup OnWay(e, s.gen) ELSE OnWay(e, s.gen)
  <2>1. PICK g : g = s.gen /\ g = m.gen OBVIOUS
  <2>2. /\ m.kind = "answer" /\ m.gen = g => OnWay(r, g) = m.hits \cup OnWay(e, g)
        /\ ~(m.kind = "answer" /\ m.gen = g) => OnWay(r, g) = OnWay(e, g)
    BY <1>1, OnWayTail
  <2> QED BY <2>1, <2>2
<1>15. Complete(z, e, o, a)
  <2>1. Merge(s.hits \cup OnWay(r, s.gen)) = Merge(a[s.gen]) BY DEF Holds, Complete
  <2>2. OnWay(e, s.gen) \subseteq Clips /\ s.hits \subseteq Clips
    <3>1. PICK g : g = s.gen OBVIOUS
    <3>2. OnWay(e, g) \subseteq Clips BY <1>2, OnWayClips
    <3> QED BY <1>1, <3>1, <3>2 DEF Sessions
  <2>3. CASE m.kind = "answer"
    <3>1. z.hits = Merge(s.hits \cup m.hits) BY <2>3 DEF Read
    <3>2. m.hits \subseteq Clips BY <1>2, <2>3 DEF Messages
    <3>3. s.hits \cup m.hits \in SUBSET Clips BY <2>2, <3>2
    <3>4. Merge(z.hits \cup OnWay(e, s.gen)) = Merge((s.hits \cup m.hits) \cup OnWay(e, s.gen))
      <4>1. PICK X \in SUBSET Clips : X = s.hits \cup m.hits BY <3>3
      <4>2. PICK Y \in SUBSET Clips : Y = OnWay(e, s.gen) BY <2>2
      <4>3. Merge(Merge(X) \cup Y) = Merge(X \cup Y) BY MergeUnion
      <4> QED BY <3>1, <4>1, <4>2, <4>3
    <3>5. (s.hits \cup m.hits) \cup OnWay(e, s.gen) = s.hits \cup OnWay(r, s.gen) BY <1>14, <2>3
    <3> QED BY <1>3, <2>1, <3>4, <3>5 DEF Complete
  <2>4. CASE m.kind # "answer"
    <3>1. z.hits = s.hits BY <1>4, <2>4 DEF Read
    <3>2. OnWay(r, s.gen) = OnWay(e, s.gen) BY <1>14, <2>4
    <3> QED BY <1>3, <2>1, <3>1, <3>2 DEF Complete
  <2> QED BY <2>3, <2>4
<1>16. s.gen \in Generation
  <2>1. d \in 0 .. MaxSearches /\ c \in 0 .. MaxClears /\ s.gen <= d + c
    BY DEF Holds, Typed, Numbered
  <2>2. MaxSearches \in Nat /\ MaxClears \in Nat BY MediaAssumption
  <2> QED BY <1>1, <2>1, <2>2 DEF Generation
<1>17. ASSUME m.kind = "finished" PROVE OnWay(e, s.gen) = {}
  <2>1. PICK g : g = s.gen OBVIOUS
  <2>2. \A i \in 1 .. Len(e) : e[i].gen # g BY <1>8, <1>17, <2>1
  <2>3. PICK f \in Seq(Messages) : f = e BY <1>2
  <2>4. \A i \in 1 .. Len(f) : f[i].gen # g BY <2>2, <2>3
  <2>5. ASSUME NEW h PROVE h \notin OnWay(f, g) BY <2>4, OnWayIs
  <2> QED BY <2>1, <2>3, <2>5
<1>18. Honest(z, a, y)
  <2> SUFFICES ASSUME z.status = "none found"
               PROVE  ~z.searching /\ y[s.gen] = Provider /\ a[s.gen] = {}
    BY <1>3 DEF Honest
  <2>1. ~z.searching /\ z.hits = {} /\ z.problems = {} BY DEF Read
  <2>2. m.kind = "finished" BY <1>6, <2>1
  <2>3. s.hits = {} /\ s.problems = {} BY <2>1, <2>2 DEF Read
  <2>4. ASSUME NEW p \in Provider PROVE p \in y[s.gen]
    <3>1. Ends(r[1], s.gen) BY <1>2, <2>2 DEF Ends
    <3>2. Told(s, r, y, p) BY <1>2, <3>1 DEF Holds, Accounted, Over
    <3>3. ASSUME NEW i \in 1 .. Len(r), Fails(r[i], s.gen, p) PROVE FALSE
      <4>1. CASE i = 1 BY <1>2, <2>2, <3>3, <4>1 DEF Fails
      <4>2. CASE i # 1
        <5>1. PICK j \in 1 .. Len(e) : r[i] = e[j] BY <1>2, <4>2
        <5>2. e[j].gen # s.gen BY <1>8, <2>2
        <5> QED BY <3>3, <5>1, <5>2 DEF Fails
      <4> QED BY <4>1, <4>2
    <3> QED BY <2>3, <3>2, <3>3 DEF Told
  <2>5. y[s.gen] \subseteq Provider /\ a[s.gen] \subseteq Clips BY <1>16 DEF Holds, Typed
  <2>6. s.hits \cup OnWay(r, s.gen) = {} BY <1>14, <1>17, <2>2, <2>3
  <2>7. Merge({}) = Merge(a[s.gen]) BY <2>6 DEF Holds, Complete
  <2>8. a[s.gen] = {}
    <3>1. PICK X \in SUBSET Clips : X = a[s.gen] BY <2>5
    <3>2. Merge({}) = {} BY DEF Merge
    <3>3. Merge(X) = {} BY <2>7, <3>1, <3>2
    <3> QED BY <3>1, <3>3, MergeEmpty
  <2> QED BY <2>1, <2>4, <2>5, <2>8
<1>19. Waits(z, e, w, o)
  <2> SUFFICES ASSUME Runs(w, s.gen)
      PROVE  /\ \A p \in z.waiting : p \in w.legs \/ \E i \in 1 .. Len(e) : Drops(e[i], s.gen, p)
             /\ (\E i \in 1 .. Len(e) : Starts(e[i], s.gen)) \/ w.legs \subseteq z.waiting
             /\ \A i \in 1 .. Len(e) : Resets(e[i], s.gen) => w.legs \subseteq e[i].providers
             /\ \A i \in 1 .. Len(e), p \in Provider :
                  Resets(e[i], s.gen) /\ p \in e[i].providers /\ p \notin w.legs
                    => \E j \in 1 .. Len(e) : i < j /\ Drops(e[j], s.gen, p)
             /\ \A i \in 1 .. Len(e), p \in Provider : Drops(e[i], s.gen, p) => p \notin w.legs
             /\ w.slow <=> z.slow \/ \E i \in 1 .. Len(e) : Slows(e[i], s.gen)
    BY <1>3 DEF Waits
  <2>1. Waits(s, r, w, o) BY DEF Holds
  <2>2. /\ \A p \in s.waiting : p \in w.legs \/ \E i \in 1 .. Len(r) : Drops(r[i], s.gen, p)
        /\ (\E i \in 1 .. Len(r) : Starts(r[i], s.gen)) \/ w.legs \subseteq s.waiting
        /\ \A i \in 1 .. Len(r) : Resets(r[i], s.gen) => w.legs \subseteq r[i].providers
        /\ \A i \in 1 .. Len(r), p \in Provider :
             Resets(r[i], s.gen) /\ p \in r[i].providers /\ p \notin w.legs
               => \E j \in 1 .. Len(r) : i < j /\ Drops(r[j], s.gen, p)
        /\ \A i \in 1 .. Len(r), p \in Provider : Drops(r[i], s.gen, p) => p \notin w.legs
        /\ w.slow <=> s.slow \/ \E i \in 1 .. Len(r) : Slows(r[i], s.gen)
    BY <2>1 DEF Waits
  <2>3. m.kind # "finished" BY <1>8
  <2>4. ASSUME NEW p, NEW i \in 1 .. Len(r), i # 1, Drops(r[i], s.gen, p)
        PROVE  i - 1 \in 1 .. Len(e) /\ Drops(e[i - 1], s.gen, p)
    BY <1>2, <2>4
  <2>5. ASSUME m.kind \in {"started", "slow"}
        PROVE  /\ \A p \in z.waiting : p \in w.legs \/ \E i \in 1 .. Len(e) : Drops(e[i], s.gen, p)
               /\ w.legs \subseteq z.waiting
    <3>1. Resets(r[1], s.gen) BY <1>2, <2>5 DEF Resets, Starts, Slows
    <3>2. z.waiting = m.providers /\ m.providers \subseteq Provider
      BY <1>2, <2>5 DEF Read, Messages
    <3>3. w.legs \subseteq z.waiting BY <1>2, <2>2, <3>1, <3>2
    <3>4. ASSUME NEW p \in z.waiting, p \notin w.legs
          PROVE  \E j \in 1 .. Len(e) : Drops(e[j], s.gen, p)
      <4>1. PICK j \in 1 .. Len(r) : 1 < j /\ Drops(r[j], s.gen, p)
        BY <1>2, <2>2, <3>1, <3>2, <3>4
      <4> QED BY <2>4, <4>1
    <3> QED BY <3>3, <3>4
  <2>6. ASSUME m.kind \in {"answer", "problem"}
        PROVE  /\ \A p \in z.waiting : p \in w.legs \/ \E i \in 1 .. Len(e) : Drops(e[i], s.gen, p)
               /\ (\E i \in 1 .. Len(e) : Starts(e[i], s.gen)) \/ w.legs \subseteq z.waiting
    <3>1. z.waiting = s.waiting \ {m.provider} /\ m.provider \in Provider
      BY <1>2, <2>6 DEF Read, Messages
    <3>2. ASSUME NEW p \in z.waiting, p \notin w.legs
          PROVE  \E j \in 1 .. Len(e) : Drops(e[j], s.gen, p)
      <4>1. PICK j \in 1 .. Len(r) : Drops(r[j], s.gen, p) BY <2>2, <3>1, <3>2
      <4>2. j # 1 BY <1>2, <3>1, <3>2, <4>1 DEF Drops
      <4> QED BY <2>4, <4>1, <4>2
    <3>3. m.provider \notin w.legs
      <4>1. Drops(r[1], s.gen, m.provider) BY <1>2, <2>6 DEF Drops
      <4> QED BY <1>2, <2>2, <3>1, <4>1
    <3>4. CASE w.legs \subseteq s.waiting BY <3>1, <3>2, <3>3, <3>4
    <3>5. CASE \E i \in 1 .. Len(r) : Starts(r[i], s.gen)
      <4>1. PICK i \in 1 .. Len(r) : Starts(r[i], s.gen) BY <3>5
      <4>2. i # 1 BY <1>2, <2>6, <4>1 DEF Starts
      <4>3. \E j \in 1 .. Len(e) : Starts(e[j], s.gen) BY <1>2, <4>1, <4>2
      <4> QED BY <3>2, <4>3
    <3> QED BY <2>2, <3>4, <3>5
  <2>7. \A i \in 1 .. Len(e) : Resets(e[i], s.gen) => w.legs \subseteq e[i].providers
    BY <1>2, <2>2
  <2>8. ASSUME NEW i \in 1 .. Len(e), NEW p \in Provider,
               Resets(e[i], s.gen), p \in e[i].providers, p \notin w.legs
        PROVE  \E j \in 1 .. Len(e) : i < j /\ Drops(e[j], s.gen, p)
    <3>1. i + 1 \in 1 .. Len(r) /\ e[i] = r[i + 1] BY <1>2
    <3>2. PICK j \in 1 .. Len(r) : i + 1 < j /\ Drops(r[j], s.gen, p) BY <2>2, <2>8, <3>1
    <3>3. j # 1 /\ i < j - 1 BY <3>2
    <3>4. j - 1 \in 1 .. Len(e) /\ Drops(e[j - 1], s.gen, p) BY <2>4, <3>2, <3>3
    <3> QED BY <3>3, <3>4
  <2>9. \A i \in 1 .. Len(e), p \in Provider : Drops(e[i], s.gen, p) => p \notin w.legs
    BY <1>2, <2>2
  <2>10. w.slow <=> z.slow \/ \E i \in 1 .. Len(e) : Slows(e[i], s.gen)
    <3>1. ASSUME NEW i \in 1 .. Len(e), Slows(e[i], s.gen) PROVE \E j \in 1 .. Len(r) : Slows(r[j], s.gen)
      BY <1>2, <3>1
    <3>2. ASSUME NEW i \in 1 .. Len(r), i # 1, Slows(r[i], s.gen)
          PROVE  \E j \in 1 .. Len(e) : Slows(e[j], s.gen)
      BY <1>2, <3>2
    <3>3. CASE m.kind = "slow"
      <4>1. z.slow BY <3>3 DEF Read
      <4>2. Slows(r[1], s.gen) BY <1>2, <3>3 DEF Slows
      <4>3. w.slow BY <1>2, <2>2, <4>2
      <4> QED BY <4>1, <4>3
    <3>4. CASE m.kind # "slow"
      <4>1. z.slow = s.slow BY <1>4, <3>4 DEF Read
      <4>2. ~Slows(r[1], s.gen) BY <1>2, <3>4 DEF Slows
      <4>3. (\E i \in 1 .. Len(r) : Slows(r[i], s.gen)) <=> \E i \in 1 .. Len(e) : Slows(e[i], s.gen)
        BY <3>1, <3>2, <4>2
      <4>4. w.slow <=> s.slow \/ \E i \in 1 .. Len(r) : Slows(r[i], s.gen) BY <2>2
      <4> QED BY <4>1, <4>3, <4>4
    <3> QED BY <3>3, <3>4
  <2>11. m.kind \in {"started", "slow"} \/ m.kind \in {"answer", "problem"} BY <1>4, <2>3
  <2>12. /\ \A p \in z.waiting : p \in w.legs \/ \E i \in 1 .. Len(e) : Drops(e[i], s.gen, p)
         /\ (\E i \in 1 .. Len(e) : Starts(e[i], s.gen)) \/ w.legs \subseteq z.waiting
    BY <2>5, <2>6, <2>11
  <2> QED BY <2>7, <2>8, <2>9, <2>10, <2>12
<1>20. Numbered(z, d, c, a, y) BY <1>3 DEF Holds, Numbered
<1>21. Listens(o, w, q) BY DEF Holds
<1>22. Typed(z, q, w, e, o, d, c, a, y) BY <1>2, <1>3 DEF Holds, Typed
<1> QED BY <1>9, <1>10, <1>11, <1>12, <1>13, <1>15, <1>18, <1>19, <1>20, <1>21, <1>22 DEF Holds


-----------------------------------------------------------------------------
\* The theorems.

\* The invariant is inductive, one step per action, when the legs make of every
\* reply what it says.
LEMMA MediaInductive ==
  ASSUME AnswersRead, IInv, [Next]_vars
  PROVE  IInv'
<1> USE DEF IInv
<1>1. /\ session \in Sessions /\ worker \in Workers /\ rx \in Seq(Messages) /\ ctl \in Seq(Nat)
      /\ session.gen \in Nat
  BY DEF Holds, Typed, Sessions
<1>2. CASE UNCHANGED vars BY <1>2 DEF vars, pageVars, history
<1>3. CASE \E text \in Texts : Type(text)
  <2>1. /\ UNCHANGED <<session, dispatched, clears, open>> /\ UNCHANGED <<ctl, worker, rx>>
        /\ UNCHANGED <<answered, replied>>
    BY <1>3 DEF Type, history
  <2> QED BY <2>1
<1>4. CASE Submit
  <2>1. UNCHANGED <<clears, open, worker, rx>> /\ UNCHANGED <<answered, replied>> /\ ~session.searching
    BY <1>4 DEF Submit, history
  <2>2. CASE ~ IsValid(Query[place])
    <3>1. /\ session' = [session EXCEPT !.searching = FALSE, !.status = "type a place"]
          /\ UNCHANGED <<dispatched, ctl>>
      BY <1>4, <2>2 DEF Submit
    <3>2. PICK z : z = session' OBVIOUS
    <3>3. /\ z \in Sessions /\ z.gen = session.gen /\ z.hits = session.hits
          /\ z.waiting = session.waiting /\ z.problems = session.problems
          /\ z.searching = session.searching /\ z.slow = session.slow
          /\ z.status # "none found"
      BY <1>1, <2>1, <3>1, <3>2 DEF Sessions, Lines
    <3>4. Holds(z, ctl, worker, rx, open, dispatched, clears, answered, replied)
      BY <3>3, SamePageHolds
    <3> QED BY <2>1, <3>1, <3>2, <3>4
  <2>3. CASE IsValid(Query[place])
    <3>1. /\ dispatched < MaxSearches /\ dispatched' = dispatched + 1
          /\ session' = [Empty(dispatched') EXCEPT !.searching = TRUE, !.status = "searching"]
          /\ ctl' = IF worker.phase = "dead" THEN ctl ELSE Append(ctl, dispatched')
      BY <1>4, <2>3 DEF Submit, NextGeneration
    <3>2. PICK z : z = session' OBVIOUS
    <3>3. PICK k : k = ctl' OBVIOUS
    <3>4. dispatched \in Nat BY UpTo DEF Holds, Typed
    <3>5. /\ z \in Sessions /\ z.gen = dispatched + 1 /\ z.hits = {} /\ z.waiting = {} /\ z.searching
          /\ ~z.slow /\ z.status = "searching"
      <4>1. PICK x \in Sessions :
              /\ x = Empty(dispatched + 1) /\ x.gen = dispatched + 1 /\ x.hits = {}
              /\ x.waiting = {} /\ ~x.slow
        <5>1. dispatched + 1 \in Nat BY <3>4
        <5> QED BY <5>1, EmptyIs
      <4>2. z = [x EXCEPT !.searching = TRUE, !.status = "searching"] BY <3>1, <3>2, <4>1
      <4> QED BY <4>1, <4>2 DEF Sessions, Lines
    <3>6. Honest(z, answered, replied) BY <3>5 DEF Honest
    <3>7. k = IF worker.phase = "dead" THEN ctl ELSE Append(ctl, dispatched + 1) BY <3>1, <3>3
    <3>8. Holds(z, k, worker, rx, open, dispatched + 1, clears, answered, replied)
      BY <3>1, <3>5, <3>6, <3>7, SubmitHolds
    <3> QED BY <2>1, <3>1, <3>2, <3>3, <3>8
  <2> QED BY <2>2, <2>3
<1>5. CASE Clear
  <2>1. /\ clears < MaxClears /\ clears' = clears + 1 /\ session' = Empty(session.gen + 1)
        /\ UNCHANGED <<dispatched, open, ctl, worker, rx>> /\ UNCHANGED <<answered, replied>>
    BY <1>5 DEF Clear, history
  <2>2. PICK z : z = session' OBVIOUS
  <2>3. /\ z \in Sessions /\ z.gen = session.gen + 1 /\ z.hits = {} /\ z.waiting = {} /\ ~z.searching
        /\ ~z.slow /\ z.status = Nothing
    <3>1. session.gen + 1 \in Nat BY <1>1
    <3> QED BY <2>1, <2>2, <3>1, EmptyIs
  <2>4. Honest(z, answered, replied) BY <2>3 DEF Honest, Nothing
  <2>5. Holds(z, ctl, worker, rx, open, dispatched, clears + 1, answered, replied)
    BY <2>1, <2>3, <2>4, ClearHolds
  <2> QED BY <2>1, <2>2, <2>5
<1>6. ASSUME NEW h \in session.hits, Select(h) PROVE IInv'
  <2>1. /\ session' = [session EXCEPT !.selected = h.url]
        /\ UNCHANGED <<dispatched, clears, open, ctl, worker, rx>> /\ UNCHANGED <<answered, replied>>
    BY <1>6 DEF Select, history
  <2>2. PICK z : z = session' OBVIOUS
  <2>3. h.url \in Urls(Clips) BY <1>1, <1>6 DEF Sessions, Urls
  <2>4. /\ z \in Sessions /\ z.gen = session.gen /\ z.hits = session.hits
        /\ z.waiting = session.waiting /\ z.problems = session.problems
        /\ z.searching = session.searching /\ z.slow = session.slow /\ z.status = session.status
    BY <1>1, <2>1, <2>2, <2>3 DEF Sessions
  <2>5. Holds(z, ctl, worker, rx, open, dispatched, clears, answered, replied)
    BY <2>4, SamePageHolds
  <2> QED BY <2>1, <2>2, <2>5
<1>7. CASE Poll
  <2>1. /\ open /\ rx # <<>> /\ session' = Apply(Head(rx), session) /\ rx' = Tail(rx)
        /\ UNCHANGED <<dispatched, clears, open, ctl, worker>> /\ UNCHANGED <<answered, replied>>
    BY <1>7 DEF Poll, history
  <2>2. PICK m : m = Head(rx) OBVIOUS
  <2>3. PICK e : e = Tail(rx) OBVIOUS
  <2>4. m \in Messages BY <1>1, <2>1, <2>2, Tailed
  <2>5. CASE m.gen # session.gen
    <3>1. Holds(session, ctl, worker, e, open, dispatched, clears, answered, replied)
      BY <2>1, <2>2, <2>3, <2>5, OtherHolds
    <3>2. session' = session BY <2>1, <2>2, <2>5 DEF Apply
    <3> QED BY <2>1, <2>3, <3>1, <3>2
  <2>6. CASE m.gen = session.gen
    <3>1. PICK z : z = Apply(m, session) OBVIOUS
    <3>2. Read(m, session, Apply(m, session)) BY <1>1, <2>4, <2>6, Reads
    <3>3. Read(m, session, z) BY <3>1, <3>2
    <3>4. Holds(z, ctl, worker, e, open, dispatched, clears, answered, replied)
      BY <2>1, <2>2, <2>3, <2>6, <3>3, ReadHolds
    <3> QED BY <2>1, <2>2, <2>3, <3>1, <3>4
  <2> QED BY <2>5, <2>6
<1>8. CASE Disconnected
  <2>1. /\ worker.phase = "dead" /\ session' = [session EXCEPT !.searching = FALSE] /\ open' = FALSE
        /\ UNCHANGED <<dispatched, clears, ctl, worker, rx>> /\ UNCHANGED <<answered, replied>>
    BY <1>8 DEF Disconnected, history
  <2>2. PICK z : z = session' OBVIOUS
  <2>3. Holds(z, ctl, worker, rx, FALSE, dispatched, clears, answered, replied)
    BY <2>1, <2>2, DeafHolds
  <2> QED BY <2>1, <2>2, <2>3
<1>9. CASE PickUp
  <2>1. PICK g : g = ctl[Len(ctl)] OBVIOUS
  <2>2. /\ worker.phase = "idle" /\ ctl # <<>> /\ ctl' = <<>>
        /\ worker' = [phase |-> "running", gen |-> g, legs |-> Provider, slow |-> FALSE]
        /\ rx' = rx \o <<Started(g)>>
        /\ UNCHANGED <<session, dispatched, clears, open>> /\ UNCHANGED <<answered, replied>>
    BY <1>9, <2>1 DEF PickUp, Send, pageVars, history
  <2>3. g \in Nat
    <3>1. Len(ctl) \in Nat \ {0} BY <1>1, <2>2, EmptySeq
    <3>2. \A n \in Nat \ {0} : n \in 1 .. n OBVIOUS
    <3> QED BY <1>1, <2>1, <3>1, <3>2, ElementOfSeq
  <2>4. PICK v : v = worker' OBVIOUS
  <2>5. v \in Workers /\ v.phase = "running" /\ v.gen = g /\ v.legs = Provider /\ ~v.slow
    BY <2>2, <2>3, <2>4 DEF Workers
  <2>6. Holds(session, <<>>, v, rx \o <<Started(g)>>, open, dispatched, clears, answered, replied)
    BY <2>1, <2>2, <2>5, PickUpHolds
  <2> QED BY <2>2, <2>4, <2>6
<1>10. CASE SlowNotice
  <2>1. /\ worker.phase = "running" /\ worker' = [worker EXCEPT !.slow = TRUE]
        /\ rx' = rx \o <<StillWaiting(worker.gen, worker.legs)>>
        /\ UNCHANGED <<session, dispatched, clears, open, ctl>> /\ UNCHANGED <<answered, replied>>
    BY <1>10 DEF SlowNotice, Send, pageVars, history
  <2>2. PICK v : v = worker' OBVIOUS
  <2>3. v \in Workers /\ v.phase = "running" /\ v.gen = worker.gen /\ v.legs = worker.legs /\ v.slow
    BY <1>1, <2>1, <2>2 DEF Workers
  <2>4. Holds(session, ctl, v, rx \o <<StillWaiting(worker.gen, worker.legs)>>, open, dispatched,
              clears, answered, replied)
    BY <2>1, <2>3, SlowHolds
  <2> QED BY <2>1, <2>2, <2>4
<1>11. CASE Total
  <2>1. PICK t : t = Named(worker.legs, worker.gen) OBVIOUS
  <2>2. /\ worker.phase = "running" /\ worker' = [worker EXCEPT !.legs = {}] /\ rx' = rx \o t
        /\ UNCHANGED <<session, dispatched, clears, open, ctl>> /\ UNCHANGED <<answered, replied>>
    BY <1>11, <2>1 DEF Total, Send, pageVars, history, Named
  <2>3. worker.legs \in SUBSET Provider /\ worker.gen \in Nat BY <1>1 DEF Workers
  <2>4. /\ t \in Seq(Messages)
        /\ \A i \in 1 .. Len(t) : t[i].kind = "problem" /\ t[i].gen = worker.gen
        /\ \A p \in worker.legs : \E i \in 1 .. Len(t) : t[i].provider = p
    <3>1. PICK L, g : L = worker.legs /\ g = worker.gen OBVIOUS
    <3>2. L \in SUBSET Provider /\ g \in Nat /\ t = Named(L, g) BY <2>1, <2>3, <3>1
    <3>3. /\ t \in Seq(Messages)
          /\ \A i \in 1 .. Len(t) : t[i].kind = "problem" /\ t[i].gen = g
          /\ \A p \in L : \E i \in 1 .. Len(t) : t[i].provider = p
      BY <3>2, NamesEach
    <3> QED BY <3>1, <3>3
  <2>5. PICK v : v = worker' OBVIOUS
  <2>6. v \in Workers /\ v.phase = "running" /\ v.gen = worker.gen /\ v.legs = {} /\ v.slow = worker.slow
    BY <1>1, <2>2, <2>5 DEF Workers
  <2>7. Holds(session, ctl, v, rx \o t, open, dispatched, clears, answered, replied)
    BY <2>2, <2>4, <2>6, TotalHolds
  <2> QED BY <2>2, <2>5, <2>7
<1>12. CASE Supersede \/ Conclude
  <2>1. /\ worker.phase = "running" /\ worker' = Idle /\ rx' = rx \o <<Finished(worker.gen)>>
        /\ worker.legs = {} \/ ctl # <<>>
        /\ UNCHANGED <<session, dispatched, clears, open, ctl>> /\ UNCHANGED <<answered, replied>>
    BY <1>12 DEF Supersede, Conclude, Send, pageVars, history
  <2>2. Holds(session, ctl, Idle, rx \o <<Finished(worker.gen)>>, open, dispatched, clears,
              answered, replied)
    BY <2>1, EndHolds
  <2> QED BY <2>1, <2>2
<1>13. CASE Die
  <2>1. /\ worker' = [Idle EXCEPT !.phase = "dead"] /\ ctl' = <<>>
        /\ UNCHANGED <<session, dispatched, clears, open, rx>> /\ UNCHANGED <<answered, replied>>
    BY <1>13 DEF Die, pageVars, history
  <2>2. PICK v : v = worker' OBVIOUS
  <2>3. v \in Workers /\ v.phase = "dead" BY <2>1, <2>2 DEF Workers, Idle
  <2>4. Holds(session, <<>>, v, rx, open, dispatched, clears, answered, replied) BY <2>3, DieHolds
  <2> QED BY <2>1, <2>2, <2>4
<1>14. ASSUME NEW p \in Provider, LegAnswers(p) PROVE IInv'
  <2>1. /\ worker.phase = "running" /\ p \in worker.legs
        /\ worker' = [worker EXCEPT !.legs = @ \ {p}]
        /\ replied' = [replied EXCEPT ![worker.gen] = @ \cup {p}]
        /\ UNCHANGED <<session, dispatched, clears, open, ctl>>
    BY <1>14 DEF LegAnswers, pageVars
  <2>2. PICK x \in Answers[p] :
          /\ rx' = rx \o <<ProviderFinished(worker.gen, p, x.hits)>>
          /\ answered' = [answered EXCEPT ![worker.gen] = @ \cup x.clips]
    BY <1>14 DEF LegAnswers, Send
  <2>3. PICK v : v = worker' OBVIOUS
  <2>4. /\ v \in Workers /\ v.phase = "running" /\ v.gen = worker.gen
        /\ v.legs = worker.legs \ {p} /\ v.slow = worker.slow
    BY <1>1, <2>1, <2>3 DEF Workers
  <2>5. PICK a2 : a2 = answered' OBVIOUS
  <2>6. PICK y2 : y2 = replied' OBVIOUS
  <2>7. /\ a2 = [answered EXCEPT ![worker.gen] = @ \cup x.clips]
        /\ y2 = [replied EXCEPT ![worker.gen] = @ \cup {p}]
    BY <2>1, <2>2, <2>5, <2>6
  <2>8. Holds(session, ctl, v, rx \o <<ProviderFinished(worker.gen, p, x.hits)>>, open, dispatched,
              clears, a2, y2)
    BY <2>1, <2>4, <2>7, AnswerHolds
  <2> QED BY <2>1, <2>2, <2>3, <2>5, <2>6, <2>8
<1>15. ASSUME NEW p \in Provider, LegFails(p) PROVE IInv'
  <2>1. /\ worker.phase = "running" /\ p \in worker.legs
        /\ worker' = [worker EXCEPT !.legs = @ \ {p}]
        /\ rx' = rx \o <<ProviderFailed(worker.gen, p)>>
        /\ UNCHANGED <<session, dispatched, clears, open, ctl>> /\ UNCHANGED <<answered, replied>>
    BY <1>15 DEF LegFails, Send, pageVars, history
  <2>2. PICK v : v = worker' OBVIOUS
  <2>3. /\ v \in Workers /\ v.phase = "running" /\ v.gen = worker.gen
        /\ v.legs = worker.legs \ {p} /\ v.slow = worker.slow
    BY <1>1, <2>1, <2>2 DEF Workers
  <2>4. Holds(session, ctl, v, rx \o <<ProviderFailed(worker.gen, p)>>, open, dispatched, clears,
              answered, replied)
    BY <2>1, <2>3, FailHolds
  <2> QED BY <2>1, <2>2, <2>4
<1> QED
  BY <1>2, <1>3, <1>4, <1>5, <1>6, <1>7, <1>8, <1>9, <1>10, <1>11, <1>12, <1>13, <1>14, <1>15
  DEF Next


\* It holds at the start.
LEMMA MediaStarts ==
  ASSUME Init
  PROVE  IInv
<1>1. /\ session = Empty(0) /\ dispatched = 0 /\ clears = 0 /\ ctl = <<>> /\ worker = Idle
      /\ rx = <<>> /\ open = TRUE
      /\ answered = [g \in Generation |-> {}] /\ replied = [g \in Generation |-> {}]
  BY DEF Init
<1>2. PICK s \in Sessions : /\ s = session /\ s.gen = 0 /\ s.hits = {} /\ s.waiting = {}
                            /\ ~s.searching /\ ~s.slow /\ s.status = Nothing
  <2>1. 0 \in Nat OBVIOUS
  <2> QED BY <1>1, <2>1, EmptyIs
<1>3. PICK w \in Workers : w = worker /\ w.phase = "idle"
  <2>1. Idle \in Workers /\ Idle.phase = "idle" BY DEF Idle, Workers
  <2> QED BY <1>1, <2>1
<1>4. PICK q \in Seq(Nat) : q = ctl /\ Len(q) = 0 /\ \A i \in 1 .. Len(q) : FALSE
  <2>1. <<>> \in Seq(Nat) /\ Len(<<>>) = 0 /\ \A i \in 1 .. Len(<<>>) : FALSE OBVIOUS
  <2> QED BY <1>1, <2>1
<1>5. PICK r \in Seq(Messages) : r = rx /\ Len(r) = 0 /\ \A i \in 1 .. Len(r) : FALSE
  <2>1. <<>> \in Seq(Messages) /\ Len(<<>>) = 0 /\ \A i \in 1 .. Len(<<>>) : FALSE OBVIOUS
  <2> QED BY <1>1, <2>1
<1>6. Typed(s, q, w, r, TRUE, 0, 0, answered, replied)
  <2>1. /\ answered \in [Generation -> SUBSET Clips]
        /\ replied \in [Generation -> SUBSET Provider]
    BY <1>1
  <2>2. 0 \in 0 .. MaxSearches /\ 0 \in 0 .. MaxClears BY MediaAssumption
  <2> QED BY <2>1, <2>2 DEF Typed
<1>7. Numbered(s, 0, 0, answered, replied) BY <1>1, <1>2 DEF Numbered
<1>8. InTurn(q, r, w, 0) BY <1>3, <1>4, <1>5 DEF InTurn
<1>9. Listens(TRUE, w, q) BY <1>3 DEF Listens
<1>10. Quiet(s, q, r, w, TRUE) BY <1>2, <1>3, <1>4, <1>5 DEF Quiet, Runs
<1>11. Underway(s, q, r, w, TRUE) BY <1>2 DEF Underway
<1>12. Fresh(s, q) BY <1>4 DEF Fresh
<1>13. Accounted(s, r, w, TRUE, replied) BY <1>3, <1>5 DEF Accounted, Over, Runs
<1>14. Honest(s, answered, replied) BY <1>2 DEF Honest, Nothing
<1>15. Waits(s, r, w, TRUE) BY <1>3 DEF Waits, Runs
<1>16. Complete(s, r, TRUE, answered)
  <2>1. OnWay(r, s.gen) = {}
    <3>1. PICK g : g = s.gen OBVIOUS
    <3>2. ASSUME NEW h PROVE h \notin OnWay(r, g) BY <1>5, OnWayIs
    <3> QED BY <3>1, <3>2
  <2>2. s.gen \in Generation BY <1>2, MediaAssumption DEF Generation
  <2>3. answered[s.gen] = {} BY <1>1, <2>2
  <2>4. s.hits \cup OnWay(r, s.gen) = {} BY <1>2, <2>1
  <2> QED BY <2>3, <2>4 DEF Complete
<1>17. Holds(s, q, w, r, TRUE, 0, 0, answered, replied)
  BY <1>6, <1>7, <1>8, <1>9, <1>10, <1>11, <1>12, <1>13, <1>14, <1>15, <1>16 DEF Holds
<1> QED BY <1>1, <1>2, <1>3, <1>4, <1>5, <1>17 DEF IInv

\* Every reachable state satisfies the inductive invariant: the types, the order
\* of the searches, and what page, messages and worker know of each other
\* (poll_media, run_search).
THEOREM MediaInvariance ==
  ASSUME AnswersRead
  PROVE  Spec => []IInv
<1>1. Init => IInv BY MediaStarts
<1>2. IInv /\ [Next]_vars => IInv' BY MediaInductive
<1> QED BY <1>1, <1>2, PTL DEF Spec

\* While the page listens, its list with the hits on their way is the merge of
\* what the providers of the search on screen have (MediaSession::apply, merge).
THEOREM MediaListComplete ==
  ASSUME AnswersRead
  PROVE  Spec => []ListComplete
<1>1. ASSUME IInv PROVE ListComplete
  <2>1. OnWay(rx, session.gen) = Coming(session.gen) BY DEF OnWay, Coming
  <2> QED BY <1>1, <2>1 DEF IInv, Holds, Complete, ListComplete
<1> QED BY <1>1, MediaInvariance, PTL

\* "No video found" is said only when every provider of the search answered and
\* none has a clip (compose_status, run_search).
THEOREM MediaHonestEmpty ==
  ASSUME AnswersRead
  PROVE  Spec => []HonestEmpty
<1>1. ASSUME IInv PROVE HonestEmpty BY <1>1 DEF IInv, Holds, Honest, HonestEmpty
<1> QED BY <1>1, MediaInvariance, PTL

\* With every message taken, the page waits for what the worker waits for, and
\* for nothing when it has nothing to do (MediaSession::apply, worker).
THEOREM MediaPageAgrees ==
  ASSUME AnswersRead
  PROVE  Spec => []PageAgrees
<1>1. ASSUME IInv PROVE PageAgrees
  <2> SUFFICES ASSUME rx = <<>>, open
      PROVE  /\ worker.phase = "running" /\ worker.gen = session.gen =>
                  session.searching /\ session.waiting = worker.legs /\ session.slow = worker.slow
             /\ worker.phase = "idle" /\ ctl = <<>> => ~session.searching /\ session.waiting = {}
    BY DEF PageAgrees
  <2>1. session \in Sessions /\ worker \in Workers BY <1>1 DEF IInv, Holds, Typed
  <2>2. \A i \in 1 .. Len(rx) : FALSE OBVIOUS
  <2>3. ASSUME Runs(worker, session.gen)
        PROVE  session.searching /\ session.waiting = worker.legs /\ session.slow = worker.slow
    <3>1. session.searching BY <1>1, <2>3 DEF IInv, Holds, Quiet
    <3>2. Waits(session, rx, worker, open) BY <1>1 DEF IInv, Holds
    <3>3. /\ \A p \in session.waiting : p \in worker.legs
          /\ worker.legs \subseteq session.waiting
          /\ worker.slow <=> session.slow
      BY <2>2, <2>3, <3>2 DEF Waits
    <3>4. session.slow \in BOOLEAN /\ worker.slow \in BOOLEAN BY <2>1 DEF Sessions, Workers
    <3> QED BY <3>1, <3>3, <3>4
  <2>4. ASSUME worker.phase = "idle", ctl = <<>> PROVE ~session.searching /\ session.waiting = {}
    <3>1. \A i \in 1 .. Len(ctl) : FALSE BY <2>4
    <3>2. ~session.searching BY <1>1, <2>2, <2>4, <3>1 DEF IInv, Holds, Underway, Runs
    <3> QED BY <1>1, <3>2 DEF IInv, Holds, Quiet
  <2> QED BY <2>3, <2>4 DEF Runs
<1> QED BY <1>1, MediaInvariance, PTL
=============================================================================
