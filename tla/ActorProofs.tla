---------------------------- MODULE ActorProofs ----------------------------
(***************************************************************************)
(* The statement-level actor implements the atomic store, opening a file   *)
(* makes it current whatever build left it, its derived tables follow the  *)
(* rows unless an ingest was cut off, and exactly a death inside migration *)
(* 4 leaves a file that no later open gets past: for every set of records, *)
(* of operations, and every number of calls and of deaths.                 *)
(***************************************************************************)
EXTENDS Actor, SequenceTheorems, WellFoundedInduction, TLAPS

-----------------------------------------------------------------------------
\* The file.

Tables1 == {"events", "derived", "ingest_log"}
Tables3 == Tables1 \cup {"daily_digest"}
Tables4 == Tables3 \cup {"storage_meta"}
Tables5 == Tables4 \cup {"coverage_ledger"}
AllTables == Tables5 \cup {"events_v4"}
Cols == {"family", "facts_schema_version"}

Database ==
  [version : 0 .. 5, tables : SUBSET AllTables, columns : SUBSET Cols, events : SUBSET Row,
   copy : SUBSET Row, derived : SUBSET Row, torn : BOOLEAN, marked : BOOLEAN, digests : SUBSET Nat]

\* The derived tables are of the rows, or an ingest was cut off; and from
\* migration 4 on, or a rescore is asked for.
Fresh(d) == d.derived = d.events \/ d.torn
Due(d) == d.derived = d.events \/ d.torn \/ d.marked

\* Two files that differ in their rows alone, derived ones and stored ones.
Within(d, e) ==
  /\ e \in Database
  /\ e.version = d.version /\ e.tables = d.tables /\ e.columns = d.columns
  /\ e.copy = d.copy /\ e.marked = d.marked /\ e.digests = d.digests

\* A file at version v whose next migration may have been cut off anywhere,
\* unless it is the fourth.
Between(d, v) ==
  /\ d.version = v /\ d.copy = {}
  /\ v = 0 => d.tables \subseteq Tables1
  /\ v = 1 => d.tables = Tables1
  /\ v = 2 => Tables1 \subseteq d.tables /\ d.tables \subseteq Tables3
  /\ v = 3 => d.tables = Tables3
  /\ v = 4 => Tables4 \subseteq d.tables /\ d.tables \subseteq Tables5
  /\ v = 5 => d.tables = Tables5
  /\ v <= 3 => d.columns = {}
  /\ v >= 4 => d.columns = Cols /\ Due(d)

\* A file that migration 4 was cut off in.
Stuck(d) == d.version = 3 /\ ("events_v4" \in d.tables \/ "family" \in d.columns)

\* Migration m, of those that may run twice, before its statement k.
Rerunnable(d, m, k) ==
  /\ k \in 1 .. Len(MIGRATIONS[m]) + 1
  /\ m = 1 => /\ k > 1 => "events" \in d.tables
              /\ k > 2 => "derived" \in d.tables
              /\ k > 3 => "ingest_log" \in d.tables
  /\ m = 3 /\ k > 1 => "daily_digest" \in d.tables
  /\ m = 5 /\ k > 1 => "coverage_ledger" \in d.tables

\* Migration 4 before its statement k, not cut off so far.
ShadowAt(d, k) ==
  /\ k \in 1 .. 10 /\ d.version = 3
  /\ k \in {1, 5, 6} => d.tables = Tables3
  /\ k \in {2, 3} => d.tables = Tables3 \cup {"events_v4"}
  /\ k = 4 => d.tables = (Tables3 \cup {"events_v4"}) \ {"events"}
  /\ k >= 7 => d.tables = Tables4
  /\ k <= 4 => d.columns = {}
  /\ k \in 5 .. 8 => d.columns = {"family"}
  /\ k >= 9 => d.columns = Cols
  /\ k \notin {3, 4} => d.copy = {}
  /\ k = 3 => d.copy = d.events
  /\ k = 4 => d.events = {}
  /\ k >= 8 => Due(d)

Opening ==
  /\ phase = "down" /\ ~cutIn4 => Between(db, db.version)
  /\ cutIn4 => Stuck(db) /\ phase \in {"down", "migrate", "failed"}
  /\ phase = "failed" => cutIn4
  /\ phase = "migrate" =>
       /\ mig \in (1 .. 6) \X (1 .. 10) /\ mig[1] = db.version + 1
       /\ cutIn4 => mig[1] = 4 /\ (mig[2] = 1 \/ (mig[2] = 2 /\ "family" \in db.columns))
       /\ ~cutIn4 => IF mig[1] = 4 THEN ShadowAt(db, mig[2])
                     ELSE /\ Between(db, db.version)
                          /\ mig[1] = 6 => mig[2] = 1
                          /\ mig[1] < 6 => Rerunnable(db, mig[1], mig[2])
  /\ phase \in {"rebuild", "prune"} => Between(db, 5) /\ (phase = "prune" => ~db.marked)
  /\ phase \in {"loop", "dead", "closed"} =>
       Ready(db) /\ db.copy = {} /\ (cur = {} => Fresh(db))

-----------------------------------------------------------------------------
\* The calls.

Answers ==
  {Atomic!None, Atomic!Lost, Atomic!Unasked}
  \cup [is : {"ingested"}, inserted : SUBSET Row, pruned : SUBSET Row]
  \cup [is : {"purged"}, purged : SUBSET Row] \cup [is : {"read"}, rows : SUBSET Row]

Shutdown == [op |-> "shutdown"]
Stages == {"start", "expire", "rescore", "reply"}
Called == [id : Nat, op : Op \cup {Shutdown}]
Commands == [id : Nat, op : Op, stage : Stages, before : SUBSET Row, answer : Answers]

TypeOK ==
  /\ db \in Database
  /\ phase \in {"down", "migrate", "failed", "rebuild", "prune", "loop", "dead", "closed"}
  /\ queue \in Seq(Called)
  /\ cur \in SUBSET Commands
  /\ cur # {} => cur = {Command}
  /\ retention \in Nat /\ reply \in Seq(Answers) /\ closing \in BOOLEAN
  /\ cutIn4 \in BOOLEAN /\ faults \in Nat

\* Only a serving thread has calls; a dropped handle's Shutdown is the last.
Control ==
  /\ phase # "loop" => queue = <<>> /\ cur = {}
  /\ phase \notin {"loop", "dead", "closed"} => ~closing
  /\ phase = "dead" => ~closing
  /\ phase = "loop" /\ closing => queue # <<>>
  /\ \A i \in 1 .. Len(queue) : queue[i].op = Shutdown <=> closing /\ i = Len(queue)

\* A call has a reply channel of its own, unless it asks for no answer.
Addressed(call) ==
  /\ call.id \in 1 .. Len(reply)
  /\ call.op.op = "retention" => reply[call.id] = Atomic!Unasked
Channels ==
  /\ \A i \in 1 .. Len(queue) : queue[i].op # Shutdown => Addressed(queue[i])
  /\ \A c \in cur : Addressed(c)
  /\ \A i, j \in 1 .. Len(queue) : queue[i].id = queue[j].id => i = j
  /\ \A c \in cur : \A i \in 1 .. Len(queue) : queue[i].id # c.id

\* How far the call in progress has come.
UnderWay ==
  \A c \in cur :
    /\ c.stage = "start" => db.events = c.before
    /\ c.stage = "expire" =>
         /\ c.op.op = "ingest" /\ db.events = Atomic!Inserted(c.before, c.op)
         /\ c.answer = [is |-> "ingested", inserted |-> c.op.rows \ c.before, pruned |-> {}]
    /\ c.stage \in {"rescore", "reply"} =>
         /\ c.op.op # "retention" /\ db.events = Atomic!Done(c.before, retention, c.op)
         /\ c.answer = Atomic!Answer(c.before, retention, c.op)
    /\ c.stage = "rescore" => c.op.op = "ingest"
    /\ c.stage \in {"expire", "rescore"} => db.torn \/ db.derived = c.before
    /\ c.stage \in {"start", "reply"} => Fresh(db)

IInv == TypeOK /\ Opening /\ Control /\ Channels /\ UnderWay

-----------------------------------------------------------------------------
\* The least-number principle, for sets: every set of naturals has a least member.
Less == {ss \in Nat \X Nat : ss[1] < ss[2]}

\* Every set of naturals has a least member (the library's WFMin).
LEMMA LeastNat ==
  ASSUME NEW T, T \subseteq Nat, T # {}
  PROVE  \E m \in T : \A k \in T : m <= k
<1>1. OpToRel(<, Nat) = Less BY DEF OpToRel, Less
<1>2. IsWellFoundedOn(Less, Nat) BY <1>1, NatLessThanWellFounded
<1>3. PICK m \in T : \A k \in T : <<k, m>> \notin Less BY <1>2, WFMin
<1>4. ASSUME NEW k \in T PROVE m <= k
  <2>1. k \in Nat /\ m \in Nat OBVIOUS
  <2>2. <<k, m>> \in Nat \X Nat /\ <<k, m>>[1] = k /\ <<k, m>>[2] = m BY <2>1
  <2>3. ~(k < m) BY <1>3, <2>2 DEF Less
  <2> QED BY <2>1, <2>3
<1> QED BY <1>4

Run(B, S) == LET run[i \in 0 .. Len(S)] == IF i = 0 THEN B ELSE Apply(run[i - 1], S[i])
             IN  run

\* The recursive function that runs a migration's statements satisfies its equation.
LEMMA RunEquation ==
  ASSUME NEW B, NEW S, Len(S) \in Nat
  PROVE  Run(B, S) = [i \in 0 .. Len(S) |-> IF i = 0 THEN B ELSE Apply(Run(B, S)[i - 1], S[i])]
<1> DEFINE Is(r, n) == r = [i \in 0 .. n |-> IF i = 0 THEN B ELSE Apply(r[i - 1], S[i])]
           T == {n \in Nat : ~ \E r : Is(r, n)}
<1>1. \E r : Is(r, 0)
  <2>1. Is([i \in 0 .. 0 |-> B], 0) OBVIOUS
  <2> QED BY <2>1
<1>2. ASSUME NEW n \in Nat, n > 0, NEW r, Is(r, n - 1) PROVE \E q : Is(q, n)
  <2> DEFINE q == [i \in 0 .. n |-> IF i = n THEN Apply(r[n - 1], S[n]) ELSE r[i]]
  <2>1. \A i \in 0 .. n - 1 : r[i] = IF i = 0 THEN B ELSE Apply(r[i - 1], S[i]) BY <1>2
  <2>2. ASSUME NEW i \in 0 .. n PROVE q[i] = IF i = 0 THEN B ELSE Apply(q[i - 1], S[i])
    <3>1. CASE i = n BY <3>1, <1>2
    <3>2. CASE i = 0 BY <3>2, <2>1, <1>2
    <3>3. CASE i # n /\ i # 0
      <4>1. q[i] = r[i] /\ q[i - 1] = r[i - 1] /\ i \in 0 .. n - 1 BY <3>3, <1>2
      <4> QED BY <4>1, <2>1, <3>3
    <3> QED BY <3>1, <3>2, <3>3
  <2>3. Is(q, n)
    <3>1. q = [i \in 0 .. n |-> q[i]] OBVIOUS
    <3> HIDE DEF q
    <3> QED BY <3>1, <2>2
  <2> HIDE DEF Is, q
  <2> QED BY <2>3
<1>3. T = {}
  <2> SUFFICES ASSUME T # {} PROVE FALSE OBVIOUS
  <2>1. PICK n \in T : \A k \in T : n <= k BY LeastNat
  <2>2. n \in Nat /\ n # 0 BY <2>1, <1>1
  <2>3. n - 1 \notin T /\ n - 1 \in Nat BY <2>1, <2>2
  <2>4. PICK r : Is(r, n - 1) BY <2>3
  <2> HIDE DEF Is
  <2>5. \E q : Is(q, n) BY <2>4, <2>2, <1>2
  <2> QED BY <2>5, <2>1
<1>4. PICK r : Is(r, Len(S)) BY <1>3
<1>5. Is(CHOOSE x : Is(x, Len(S)), Len(S)) BY <1>4
<1> QED BY <1>5 DEF Run

After(v, d) == [Run(d, MIGRATIONS[v])[Len(MIGRATIONS[v])] EXCEPT !.version = v]

\* So does the one that runs the migrations.
LEMMA ReachedEquation ==
  Reached = [v \in 0 .. Len(MIGRATIONS) |-> IF v = 0 THEN Blank ELSE After(v, Reached[v - 1])]
<1> DEFINE Is(r, n) == r = [v \in 0 .. n |-> IF v = 0 THEN Blank ELSE After(v, r[v - 1])]
           T == {n \in Nat : ~ \E r : Is(r, n)}
<1>0. Len(MIGRATIONS) = 5 BY DEF MIGRATIONS
<1>1. \E r : Is(r, 0)
  <2>1. Is([i \in 0 .. 0 |-> Blank], 0) OBVIOUS
  <2> QED BY <2>1
<1>2. ASSUME NEW n \in Nat, n > 0, NEW r, Is(r, n - 1) PROVE \E q : Is(q, n)
  <2> DEFINE q == [i \in 0 .. n |-> IF i = n THEN After(n, r[n - 1]) ELSE r[i]]
  <2>1. \A i \in 0 .. n - 1 : r[i] = IF i = 0 THEN Blank ELSE After(i, r[i - 1]) BY <1>2
  <2>2. ASSUME NEW i \in 0 .. n PROVE q[i] = IF i = 0 THEN Blank ELSE After(i, q[i - 1])
    <3>1. CASE i = n BY <3>1, <1>2
    <3>2. CASE i = 0 BY <3>2, <2>1, <1>2
    <3>3. CASE i # n /\ i # 0
      <4>1. q[i] = r[i] /\ q[i - 1] = r[i - 1] /\ i \in 0 .. n - 1 BY <3>3, <1>2
      <4> QED BY <4>1, <2>1, <3>3
    <3> QED BY <3>1, <3>2, <3>3
  <2>3. Is(q, n)
    <3>1. q = [i \in 0 .. n |-> q[i]] OBVIOUS
    <3> HIDE DEF q
    <3> QED BY <3>1, <2>2
  <2> HIDE DEF Is, q
  <2> QED BY <2>3
<1>3. T = {}
  <2> SUFFICES ASSUME T # {} PROVE FALSE OBVIOUS
  <2> HIDE DEF Is
  <2>1. PICK n \in T : \A k \in T : n <= k BY LeastNat
  <2>2. n \in Nat /\ n # 0 BY <2>1, <1>1
  <2>3. n - 1 \notin T /\ n - 1 \in Nat BY <2>1, <2>2
  <2>4. PICK r : Is(r, n - 1) BY <2>3
  <2> HIDE DEF Is
  <2>5. \E q : Is(q, n) BY <2>4, <2>2, <1>2
  <2> QED BY <2>5, <2>1
<1>4. PICK r : Is(r, Len(MIGRATIONS))
  <2> HIDE DEF Is
  <2> QED BY <1>3, <1>0
<1>5. Is(CHOOSE x : Is(x, Len(MIGRATIONS)), Len(MIGRATIONS)) BY <1>4
<1> QED BY <1>5 DEF Reached, After, Run

\* Two files that differ in their tables alone.
ButTables(d, e) ==
  /\ e.version = d.version /\ e.columns = d.columns /\ e.events = d.events /\ e.copy = d.copy
  /\ e.derived = d.derived /\ e.torn = d.torn /\ e.marked = d.marked /\ e.digests = d.digests

\* CREATE TABLE adds a table and leaves the rest.
LEMMA Adding ==
  ASSUME NEW d \in Database, NEW t \in AllTables
  PROVE  /\ Add(d, t) \in Database
         /\ Add(d, t).tables = d.tables \cup {t}
         /\ ButTables(d, Add(d, t))
BY DEF Add, Database, ButTables

\* The statements that create a table, by name.
LEMMA Applying ==
  ASSUME NEW d \in Database
  PROVE  /\ Apply(d, "ensure events") = Add(d, "events")
         /\ Apply(d, "ensure derived") = Add(d, "derived")
         /\ Apply(d, "ensure ingest_log") = Add(d, "ingest_log")
         /\ Apply(d, "ensure daily_digest") = Add(d, "daily_digest")
         /\ Apply(d, "ensure storage_meta") = Add(d, "storage_meta")
         /\ Apply(d, "ensure coverage_ledger") = Add(d, "coverage_ledger")
         /\ Apply(d, "create events_v4") = Add(d, "events_v4")
         /\ Apply(d, "recreate derived") = [Add(d, "derived") EXCEPT !.derived = {}]
BY DEF Apply

\* What each of the other statements does (migrate).
LEMMA Rederiving ==
  ASSUME NEW d \in Database, NEW e, e = Apply(d, "recreate derived")
  PROVE  /\ e \in Database
         /\ e.version = d.version /\ e.tables = d.tables \cup {"derived"}
         /\ e.columns = d.columns /\ e.events = d.events /\ e.copy = d.copy /\ e.derived = {}
         /\ e.torn = d.torn /\ e.marked = d.marked /\ e.digests = d.digests
<1>1. /\ Add(d, "derived") \in Database /\ Add(d, "derived").tables = d.tables \cup {"derived"}
      /\ ButTables(d, Add(d, "derived"))
  BY Adding DEF AllTables, Tables5, Tables4, Tables3, Tables1
<1>2. e = [Add(d, "derived") EXCEPT !.derived = {}] BY Applying
<1> HIDE DEF Add
<1> QED BY <1>1, <1>2 DEF Database, ButTables

\* INSERT INTO events_v4: the rows are copied.
LEMMA Filling ==
  ASSUME NEW d \in Database, NEW e, e = Apply(d, "fill events_v4")
  PROVE  /\ e \in Database
         /\ e.version = d.version /\ e.tables = d.tables /\ e.columns = d.columns
         /\ e.events = d.events /\ e.copy = d.events /\ e.derived = d.derived
         /\ e.torn = d.torn /\ e.marked = d.marked /\ e.digests = d.digests
<1>1. e = [d EXCEPT !.copy = d.events] BY DEF Apply
<1> QED BY <1>1 DEF Database

\* DROP TABLE events: the rows are in the copy only.
LEMMA Dropping ==
  ASSUME NEW d \in Database, NEW e, e = Apply(d, "drop events")
  PROVE  /\ e \in Database
         /\ e.version = d.version /\ e.tables = d.tables \ {"events"} /\ e.columns = d.columns
         /\ e.events = {} /\ e.copy = d.copy /\ e.derived = d.derived
         /\ e.torn = d.torn /\ e.marked = d.marked /\ e.digests = d.digests
<1>1. e = [d EXCEPT !.tables = @ \ {"events"}, !.events = {}] BY DEF Apply
<1> QED BY <1>1 DEF Database

\* ALTER TABLE events_v4 RENAME: the copy is the rows, and has the new column.
LEMMA Renaming ==
  ASSUME NEW d \in Database, NEW e, e = Apply(d, "rename events_v4")
  PROVE  /\ e \in Database
         /\ e.version = d.version /\ e.tables = (d.tables \ {"events_v4"}) \cup {"events"}
         /\ e.columns = d.columns \cup {"family"}
         /\ e.events = d.copy /\ e.copy = {} /\ e.derived = d.derived
         /\ e.torn = d.torn /\ e.marked = d.marked /\ e.digests = d.digests
<1>1. e = [d EXCEPT !.tables = (@ \ {"events_v4"}) \cup {"events"},
                    !.columns = @ \cup {"family"}, !.events = d.copy, !.copy = {}] BY DEF Apply
<1>2. (d.tables \ {"events_v4"}) \cup {"events"} \in SUBSET AllTables
  BY DEF Database, AllTables, Tables5, Tables4, Tables3, Tables1
<1>3. d.columns \cup {"family"} \in SUBSET Cols BY DEF Database, Cols
<1> QED BY <1>1, <1>2, <1>3 DEF Database

\* The rescore is asked for.
LEMMA Marking ==
  ASSUME NEW d \in Database, NEW e, e = Apply(d, "mark")
  PROVE  /\ e \in Database
         /\ e.version = d.version /\ e.tables = d.tables /\ e.columns = d.columns
         /\ e.events = d.events /\ e.copy = d.copy /\ e.derived = d.derived
         /\ e.torn = d.torn /\ e.marked = TRUE /\ e.digests = d.digests
<1>1. e = [d EXCEPT !.marked = TRUE] BY DEF Apply
<1> QED BY <1>1 DEF Database

\* ALTER TABLE daily_digest ADD COLUMN.
LEMMA Altering ==
  ASSUME NEW d \in Database, NEW e, e = Apply(d, "alter daily_digest")
  PROVE  /\ e \in Database
         /\ e.version = d.version /\ e.tables = d.tables
         /\ e.columns = d.columns \cup {"facts_schema_version"}
         /\ e.events = d.events /\ e.copy = d.copy /\ e.derived = d.derived
         /\ e.torn = d.torn /\ e.marked = d.marked /\ e.digests = d.digests
<1>1. e = [d EXCEPT !.columns = @ \cup {"facts_schema_version"}] BY DEF Apply
<1> QED BY <1>1 DEF Database, Cols

\* DELETE FROM daily_digest.
LEMMA Emptying ==
  ASSUME NEW d \in Database, NEW e, e = Apply(d, "empty daily_digest")
  PROVE  /\ e \in Database
         /\ e.version = d.version /\ e.tables = d.tables /\ e.columns = d.columns
         /\ e.events = d.events /\ e.copy = d.copy /\ e.derived = d.derived
         /\ e.torn = d.torn /\ e.marked = d.marked /\ e.digests = {}
<1>1. e = [d EXCEPT !.digests = {}] BY DEF Apply
<1> QED BY <1>1 DEF Database

\* The five migrations.
LEMMA Lengths ==
  /\ Len(MIGRATIONS) = 5
  /\ MIGRATIONS[1] = <<"ensure events", "ensure derived", "ensure ingest_log">>
  /\ MIGRATIONS[2] = <<"recreate derived">>
  /\ MIGRATIONS[3] = <<"ensure daily_digest">>
  /\ MIGRATIONS[4] = Shadow
  /\ MIGRATIONS[5] = <<"ensure coverage_ledger">>
  /\ Len(MIGRATIONS[1]) = 3 /\ Len(MIGRATIONS[2]) = 1 /\ Len(MIGRATIONS[3]) = 1
  /\ Len(MIGRATIONS[4]) = 9 /\ Len(MIGRATIONS[5]) = 1
<1>1. \A x : Len(<<x>>) = 1 OBVIOUS
<1>2. \A x, y, z : Len(<<x, y, z>>) = 3 OBVIOUS
<1>3. Len(Shadow) = 9 BY DEF Shadow
<1>4. Len(MIGRATIONS) = 5 BY DEF MIGRATIONS
<1>5. /\ MIGRATIONS[1] = <<"ensure events", "ensure derived", "ensure ingest_log">>
  /\ MIGRATIONS[2] = <<"recreate derived">>
  /\ MIGRATIONS[3] = <<"ensure daily_digest">>
  /\ MIGRATIONS[4] = Shadow
  /\ MIGRATIONS[5] = <<"ensure coverage_ledger">>
  BY DEF MIGRATIONS
<1> QED BY <1>1, <1>2, <1>3, <1>4, <1>5

\* How many statements each has.
LEMMA Sizes ==
  /\ Len(MIGRATIONS) = 5
  /\ Len(MIGRATIONS[1]) = 3 /\ Len(MIGRATIONS[2]) = 1 /\ Len(MIGRATIONS[3]) = 1
  /\ Len(MIGRATIONS[4]) = 9 /\ Len(MIGRATIONS[5]) = 1
BY Lengths

\* The statements, one by one.
LEMMA Statements ==
  /\ MIGRATIONS[1][1] = "ensure events" /\ MIGRATIONS[1][2] = "ensure derived"
  /\ MIGRATIONS[1][3] = "ensure ingest_log"
  /\ MIGRATIONS[2][1] = "recreate derived"
  /\ MIGRATIONS[3][1] = "ensure daily_digest"
  /\ MIGRATIONS[4][1] = "create events_v4" /\ MIGRATIONS[4][2] = "fill events_v4"
  /\ MIGRATIONS[4][3] = "drop events" /\ MIGRATIONS[4][4] = "rename events_v4"
  /\ MIGRATIONS[4][5] = "recreate derived" /\ MIGRATIONS[4][6] = "ensure storage_meta"
  /\ MIGRATIONS[4][7] = "mark" /\ MIGRATIONS[4][8] = "alter daily_digest"
  /\ MIGRATIONS[4][9] = "empty daily_digest"
  /\ MIGRATIONS[5][1] = "ensure coverage_ledger"
<1>1. \A x : <<x>>[1] = x OBVIOUS
<1>2. \A x, y, z : <<x, y, z>>[1] = x /\ <<x, y, z>>[2] = y /\ <<x, y, z>>[3] = z OBVIOUS
<1>3. /\ Shadow[1] = "create events_v4" /\ Shadow[2] = "fill events_v4"
      /\ Shadow[3] = "drop events" /\ Shadow[4] = "rename events_v4"
      /\ Shadow[5] = "recreate derived" /\ Shadow[6] = "ensure storage_meta"
      /\ Shadow[7] = "mark" /\ Shadow[8] = "alter daily_digest"
      /\ Shadow[9] = "empty daily_digest"
  BY DEF Shadow
<1>4. /\ MIGRATIONS[1][1] = "ensure events" /\ MIGRATIONS[1][2] = "ensure derived"
      /\ MIGRATIONS[1][3] = "ensure ingest_log"
  <2>1. PICK S : S = MIGRATIONS[1] OBVIOUS
  <2>2. S = <<"ensure events", "ensure derived", "ensure ingest_log">> BY <2>1, Lengths
  <2>3. S[1] = "ensure events" /\ S[2] = "ensure derived" /\ S[3] = "ensure ingest_log"
    BY <2>2
  <2> QED BY <2>1, <2>3
<1>5. /\ MIGRATIONS[2][1] = "recreate derived"
      /\ MIGRATIONS[3][1] = "ensure daily_digest"
      /\ MIGRATIONS[5][1] = "ensure coverage_ledger"
  BY <1>1, Lengths
<1>6. MIGRATIONS[4] = Shadow BY Lengths
<1> QED BY <1>3, <1>4, <1>5, <1>6

\* The equation, for a run that has a name.
LEMMA RunIs ==
  ASSUME NEW S, Len(S) \in Nat, NEW d, NEW r, r = Run(d, S)
  PROVE  r = [i \in 0 .. Len(S) |-> IF i = 0 THEN d ELSE Apply(r[i - 1], S[i])]
BY RunEquation

\* The end of a run of one statement, of three and of nine.
LEMMA RunOne ==
  ASSUME NEW S, Len(S) = 1, NEW d0, NEW d1,
         d1 = Apply(d0, S[1])
  PROVE  Run(d0, S)[1] = d1
<1>0. PICK r : r = Run(d0, S) OBVIOUS
<1>1. r = [i \in 0 .. Len(S) |-> IF i = 0 THEN d0 ELSE Apply(r[i - 1], S[i])]
  <2>1. Len(S) \in Nat OBVIOUS
  <2> QED BY <2>1, <1>0, RunIs
<1>2. r[0] = d0 /\ r[1] = d1 BY <1>1
<1> QED BY <1>0, <1>2

\* Three statements.
LEMMA RunThree ==
  ASSUME NEW S, Len(S) = 3, NEW d0, NEW d1, NEW d2, NEW d3,
         d1 = Apply(d0, S[1]), d2 = Apply(d1, S[2]), d3 = Apply(d2, S[3])
  PROVE  Run(d0, S)[3] = d3
<1>0. PICK r : r = Run(d0, S) OBVIOUS
<1>1. r = [i \in 0 .. Len(S) |-> IF i = 0 THEN d0 ELSE Apply(r[i - 1], S[i])]
  <2>1. Len(S) \in Nat OBVIOUS
  <2> QED BY <2>1, <1>0, RunIs
<1>2. r[0] = d0 /\ r[1] = d1 /\ r[2] = d2 /\ r[3] = d3 BY <1>1
<1> QED BY <1>0, <1>2

\* Nine statements.
LEMMA RunNine ==
  ASSUME NEW S, Len(S) = 9, NEW d0, NEW d1, NEW d2, NEW d3, NEW d4, NEW d5, NEW d6, NEW d7,
         NEW d8, NEW d9,
         d1 = Apply(d0, S[1]), d2 = Apply(d1, S[2]), d3 = Apply(d2, S[3]), d4 = Apply(d3, S[4]),
         d5 = Apply(d4, S[5]), d6 = Apply(d5, S[6]), d7 = Apply(d6, S[7]), d8 = Apply(d7, S[8]),
         d9 = Apply(d8, S[9])
  PROVE  Run(d0, S)[9] = d9
<1>0. PICK r : r = Run(d0, S) OBVIOUS
<1>1. r = [i \in 0 .. Len(S) |-> IF i = 0 THEN d0 ELSE Apply(r[i - 1], S[i])]
  <2>1. Len(S) \in Nat OBVIOUS
  <2> QED BY SMTT(30), <2>1, <1>0, RunIs
<1>2. /\ r[0] = d0 /\ r[1] = d1 /\ r[2] = d2 /\ r[3] = d3 /\ r[4] = d4
      /\ r[5] = d5 /\ r[6] = d6 /\ r[7] = d7 /\ r[8] = d8 /\ r[9] = d9
  BY <1>1
<1> QED BY <1>0, <1>2

\* Recording a version leaves the rest.
LEMMA Recording ==
  ASSUME NEW d \in Database, NEW v \in 0 .. 5, NEW e, e = [d EXCEPT !.version = v]
  PROVE  /\ e \in Database
         /\ e.version = v /\ e.tables = d.tables /\ e.columns = d.columns
         /\ e.events = d.events /\ e.copy = d.copy /\ e.derived = d.derived
         /\ e.torn = d.torn /\ e.marked = d.marked /\ e.digests = d.digests
BY DEF Database

\* A file at version v that holds nothing.
New(d, v, tables, columns) ==
  /\ d \in Database /\ d.version = v /\ d.tables = tables /\ d.columns = columns
  /\ d.events = {} /\ d.copy = {} /\ d.digests = {}

\* What the statements do to a file that holds nothing.
LEMMA NewSteps ==
  ASSUME NEW d, NEW v, NEW t, NEW c, New(d, v, t, c)
  PROVE  /\ New(Apply(d, "ensure events"), v, t \cup {"events"}, c)
         /\ New(Apply(d, "ensure derived"), v, t \cup {"derived"}, c)
         /\ New(Apply(d, "recreate derived"), v, t \cup {"derived"}, c)
         /\ New(Apply(d, "ensure ingest_log"), v, t \cup {"ingest_log"}, c)
         /\ New(Apply(d, "ensure daily_digest"), v, t \cup {"daily_digest"}, c)
         /\ New(Apply(d, "ensure storage_meta"), v, t \cup {"storage_meta"}, c)
         /\ New(Apply(d, "ensure coverage_ledger"), v, t \cup {"coverage_ledger"}, c)
         /\ New(Apply(d, "create events_v4"), v, t \cup {"events_v4"}, c)
         /\ New(Apply(d, "fill events_v4"), v, t, c)
         /\ New(Apply(d, "drop events"), v, t \ {"events"}, c)
         /\ New(Apply(d, "rename events_v4"), v, (t \ {"events_v4"}) \cup {"events"},
                c \cup {"family"})
         /\ New(Apply(d, "mark"), v, t, c)
         /\ New(Apply(d, "alter daily_digest"), v, t, c \cup {"facts_schema_version"})
         /\ New(Apply(d, "empty daily_digest"), v, t, c)
<1>0. d \in Database BY DEF New
<1>1. ASSUME NEW x \in AllTables PROVE New(Add(d, x), v, t \cup {x}, c)
  BY Adding, <1>0 DEF New, ButTables
<1>2. AllTables = {"events", "derived", "ingest_log", "daily_digest", "storage_meta",
                   "coverage_ledger", "events_v4"}
  BY DEF AllTables, Tables5, Tables4, Tables3, Tables1
<1>3. /\ New(Apply(d, "ensure events"), v, t \cup {"events"}, c)
      /\ New(Apply(d, "ensure derived"), v, t \cup {"derived"}, c)
      /\ New(Apply(d, "ensure ingest_log"), v, t \cup {"ingest_log"}, c)
      /\ New(Apply(d, "ensure daily_digest"), v, t \cup {"daily_digest"}, c)
      /\ New(Apply(d, "ensure storage_meta"), v, t \cup {"storage_meta"}, c)
      /\ New(Apply(d, "ensure coverage_ledger"), v, t \cup {"coverage_ledger"}, c)
      /\ New(Apply(d, "create events_v4"), v, t \cup {"events_v4"}, c)
  BY <1>0, <1>1, <1>2, Applying
<1>4. New(Apply(d, "recreate derived"), v, t \cup {"derived"}, c) BY <1>0, Rederiving DEF New
<1>5. New(Apply(d, "fill events_v4"), v, t, c) BY <1>0, Filling DEF New
<1>6. New(Apply(d, "drop events"), v, t \ {"events"}, c) BY <1>0, Dropping DEF New
<1>7. New(Apply(d, "rename events_v4"), v, (t \ {"events_v4"}) \cup {"events"}, c \cup {"family"})
  BY <1>0, Renaming DEF New
<1>8. New(Apply(d, "mark"), v, t, c) BY <1>0, Marking DEF New
<1>9. New(Apply(d, "alter daily_digest"), v, t, c \cup {"facts_schema_version"})
  BY <1>0, Altering DEF New
<1>10. New(Apply(d, "empty daily_digest"), v, t, c) BY <1>0, Emptying DEF New
<1> QED BY <1>3, <1>4, <1>5, <1>6, <1>7, <1>8, <1>9, <1>10

\* Recording its version leaves it holding nothing.
LEMMA NewRecorded ==
  ASSUME NEW d, NEW v, NEW t, NEW c, New(d, v, t, c), NEW w \in 0 .. 5,
         NEW e, e = [d EXCEPT !.version = w]
  PROVE  New(e, w, t, c) /\ e.marked = d.marked
<1>0. d \in Database BY DEF New
<1> QED BY <1>0, Recording DEF New

\* The files earlier builds left, empty, are between two migrations.
LEMMA ReachedNew ==
  /\ New(Reached[0], 0, {}, {})
  /\ New(Reached[1], 1, Tables1, {})
  /\ New(Reached[2], 2, Tables1, {})
  /\ New(Reached[3], 3, Tables3, {})
  /\ New(Reached[4], 4, Tables4, Cols) /\ Reached[4].marked
  /\ New(Reached[5], 5, Tables5, Cols) /\ Reached[5].marked
<1>1. /\ Reached[0] = Blank
      /\ \A v \in 1 .. 5 : Reached[v] = After(v, Reached[v - 1])
  <2>1. Len(MIGRATIONS) = 5 BY Lengths
  <2> QED BY ReachedEquation, <2>1
<1>2. /\ Reached[1] = After(1, Reached[0])
      /\ Reached[2] = After(2, Reached[1])
      /\ Reached[3] = After(3, Reached[2])
      /\ Reached[4] = After(4, Reached[3])
      /\ Reached[5] = After(5, Reached[4])
  BY <1>1
<1>3. New(Reached[0], 0, {}, {}) BY <1>1 DEF New, Blank, Database
<1>4. New(Reached[1], 1, Tables1, {})
  <2>0. PICK d0 : d0 = Reached[0] OBVIOUS
  <2>1. PICK d1 : d1 = Apply(d0, "ensure events") OBVIOUS
  <2>2. PICK d2 : d2 = Apply(d1, "ensure derived") OBVIOUS
  <2>3. PICK d3 : d3 = Apply(d2, "ensure ingest_log") OBVIOUS
  <2>5. Reached[1] = [d3 EXCEPT !.version = 1]
    <3>1. PICK S : S = MIGRATIONS[1] OBVIOUS
    <3>2. Len(S) = 3 /\ d1 = Apply(d0, S[1]) /\ d2 = Apply(d1, S[2]) /\ d3 = Apply(d2, S[3])
      BY <3>1, <2>1, <2>2, <2>3, Lengths, Statements
    <3>3. Run(d0, S)[3] = d3 BY <3>2, RunThree
    <3> QED BY <3>1, <3>3, <1>2, <2>0, Lengths DEF After
  <2>6. New(d1, 0, {} \cup {"events"}, {}) BY <1>3, <2>0, <2>1, NewSteps
  <2>7. New(d2, 0, {"events", "derived"}, {})
    <3>1. ({} \cup {"events"}) \cup {"derived"} = {"events", "derived"} OBVIOUS
    <3>2. New(d2, 0, ({} \cup {"events"}) \cup {"derived"}, {}) BY <2>6, <2>2, NewSteps
    <3> QED BY <3>1, <3>2
  <2>8. New(d3, 0, Tables1, {})
    <3>1. {"events", "derived"} \cup {"ingest_log"} = Tables1 BY DEF Tables1
    <3>2. New(d3, 0, {"events", "derived"} \cup {"ingest_log"}, {}) BY <2>7, <2>3, NewSteps
    <3> QED BY <3>1, <3>2
  <2> QED BY <2>5, <2>8, NewRecorded
<1>5. New(Reached[2], 2, Tables1, {})
  <2>0. PICK d0 : d0 = Reached[1] OBVIOUS
  <2>1. PICK d1 : d1 = Apply(d0, "recreate derived") OBVIOUS
  <2>2. Reached[2] = [d1 EXCEPT !.version = 2]
    <3>1. PICK S : S = MIGRATIONS[2] OBVIOUS
    <3>2. Len(S) = 1 /\ d1 = Apply(d0, S[1])
      BY <3>1, <2>1, Lengths, Statements
    <3>3. Run(d0, S)[1] = d1 BY <3>2, RunOne
    <3> QED BY <3>1, <3>3, <1>2, <2>0, Lengths DEF After
  <2>3. New(d1, 1, Tables1, {})
    <3>1. Tables1 \cup {"derived"} = Tables1 BY DEF Tables1
    <3>2. New(d1, 1, Tables1 \cup {"derived"}, {})
      BY <1>4, <2>0, <2>1, NewSteps
    <3> QED BY <3>1, <3>2
  <2> QED BY <2>2, <2>3, NewRecorded
<1>6. New(Reached[3], 3, Tables3, {})
  <2>0. PICK d0 : d0 = Reached[2] OBVIOUS
  <2>1. PICK d1 : d1 = Apply(d0, "ensure daily_digest") OBVIOUS
  <2>2. Reached[3] = [d1 EXCEPT !.version = 3]
    <3>1. PICK S : S = MIGRATIONS[3] OBVIOUS
    <3>2. Len(S) = 1 /\ d1 = Apply(d0, S[1])
      BY <3>1, <2>1, Lengths, Statements
    <3>3. Run(d0, S)[1] = d1 BY <3>2, RunOne
    <3> QED BY <3>1, <3>3, <1>2, <2>0, Lengths DEF After
  <2>3. New(d1, 2, Tables3, {})
    <3>1. Tables1 \cup {"daily_digest"} = Tables3 BY DEF Tables3, Tables1
    <3>2. New(d1, 2, Tables1 \cup {"daily_digest"}, {})
      BY <1>5, <2>0, <2>1, NewSteps
    <3> QED BY <3>1, <3>2
  <2> QED BY <2>2, <2>3, NewRecorded
<1>7. New(Reached[4], 4, Tables4, Cols) /\ Reached[4].marked
  <2>0. PICK d0 : d0 = Reached[3] OBVIOUS
  <2>1. PICK d1 : d1 = Apply(d0, "create events_v4") OBVIOUS
  <2>2. PICK d2 : d2 = Apply(d1, "fill events_v4") OBVIOUS
  <2>3. PICK d3 : d3 = Apply(d2, "drop events") OBVIOUS
  <2>4. PICK d4 : d4 = Apply(d3, "rename events_v4") OBVIOUS
  <2>5. PICK d5 : d5 = Apply(d4, "recreate derived") OBVIOUS
  <2>6. PICK d6 : d6 = Apply(d5, "ensure storage_meta") OBVIOUS
  <2>7. PICK d7 : d7 = Apply(d6, "mark") OBVIOUS
  <2>8. PICK d8 : d8 = Apply(d7, "alter daily_digest") OBVIOUS
  <2>9. PICK d9 : d9 = Apply(d8, "empty daily_digest") OBVIOUS
  <2>10. Reached[4] = [d9 EXCEPT !.version = 4]
    <3>1. PICK S : S = MIGRATIONS[4] OBVIOUS
    <3>2. /\ Len(S) = 9 /\ d1 = Apply(d0, S[1]) /\ d2 = Apply(d1, S[2]) /\ d3 = Apply(d2, S[3])
          /\ d4 = Apply(d3, S[4]) /\ d5 = Apply(d4, S[5]) /\ d6 = Apply(d5, S[6])
          /\ d7 = Apply(d6, S[7]) /\ d8 = Apply(d7, S[8]) /\ d9 = Apply(d8, S[9])
      BY <3>1, <2>1, <2>2, <2>3, <2>4, <2>5, <2>6, <2>7, <2>8, <2>9, Lengths, Statements
    <3>3. Run(d0, S)[9] = d9 BY <3>2, RunNine
    <3> QED BY <3>1, <3>3, <1>2, <2>0, Lengths DEF After
  <2> DEFINE t1 == Tables3 \cup {"events_v4"}  t3 == t1 \ {"events"}
             t4 == (t3 \ {"events_v4"}) \cup {"events"}  t5 == t4 \cup {"derived"}
             t6 == t5 \cup {"storage_meta"}
  <2>11. New(d1, 3, t1, {}) BY <1>6, <2>0, <2>1, NewSteps
  <2>12. New(d2, 3, t1, {}) BY <2>11, <2>2, NewSteps
  <2>13. New(d3, 3, t3, {}) BY <2>12, <2>3, NewSteps
  <2>14. New(d4, 3, t4, {} \cup {"family"}) BY <2>13, <2>4, NewSteps
  <2>15. New(d5, 3, t5, {} \cup {"family"}) BY <2>14, <2>5, NewSteps
  <2>16. New(d6, 3, t6, {} \cup {"family"}) BY <2>15, <2>6, NewSteps
  <2>17. New(d7, 3, t6, {} \cup {"family"}) BY <2>16, <2>7, NewSteps
  <2>18. New(d8, 3, t6, ({} \cup {"family"}) \cup {"facts_schema_version"})
    BY <2>17, <2>8, NewSteps
  <2>19. New(d9, 3, t6, ({} \cup {"family"}) \cup {"facts_schema_version"})
    BY <2>18, <2>9, NewSteps
  <2>20. t6 = Tables4 /\ ({} \cup {"family"}) \cup {"facts_schema_version"} = Cols
    BY DEF Tables4, Tables3, Tables1, Cols
  <2>21. d9.marked
    <3>1. d7.marked = TRUE BY <2>16, <2>7, Marking DEF New
    <3>2. d8.marked = d7.marked BY <2>17, <2>8, Altering DEF New
    <3>3. d9.marked = d8.marked BY <2>18, <2>9, Emptying DEF New
    <3> QED BY <3>1, <3>2, <3>3
  <2>22. New(d9, 3, Tables4, Cols) BY <2>19, <2>20
  <2> HIDE DEF t1, t3, t4, t5, t6
  <2> QED BY <2>10, <2>21, <2>22, NewRecorded
<1>8. New(Reached[5], 5, Tables5, Cols) /\ Reached[5].marked
  <2>0. PICK d0 : d0 = Reached[4] OBVIOUS
  <2>1. PICK d1 : d1 = Apply(d0, "ensure coverage_ledger") OBVIOUS
  <2>2. Reached[5] = [d1 EXCEPT !.version = 5]
    <3>1. PICK S : S = MIGRATIONS[5] OBVIOUS
    <3>2. Len(S) = 1 /\ d1 = Apply(d0, S[1])
      BY <3>1, <2>1, Lengths, Statements
    <3>3. Run(d0, S)[1] = d1 BY <3>2, RunOne
    <3> QED BY <3>1, <3>3, <1>2, <2>0, Lengths DEF After
  <2>3. New(d1, 4, Tables5, Cols)
    BY <1>7, <2>0, <2>1, NewSteps DEF Tables5
  <2>4. d1.marked = d0.marked
    <3>1. d0 \in Database BY <1>7, <2>0 DEF New
    <3>2. d1 = Add(d0, "coverage_ledger") BY <2>1, <3>1, Applying
    <3>3. "coverage_ledger" \in AllTables BY DEF AllTables, Tables5
    <3> QED BY <3>1, <3>2, <3>3, Adding DEF ButTables
  <2>5. New(Reached[5], 5, Tables5, Cols) /\ Reached[5].marked = d1.marked
    BY <2>2, <2>3, NewRecorded
  <2> QED BY <2>0, <2>4, <2>5, <1>7
<1> QED BY <1>3, <1>4, <1>5, <1>6, <1>7, <1>8

\* Whatever build left the file, no migration of it is under way.
LEMMA FilesBetween == ASSUME NEW d \in Files PROVE d \in Database /\ Between(d, d.version)
<1>1. CASE d = Blank
  BY <1>1 DEF Blank, Database, Between, Tables5, Tables4, Tables3, Tables1, AllTables
<1>2. CASE d # Blank
  <2>1. PICK v \in 1 .. 5, E \in SUBSET Row, D \in SUBSET Row, m \in BOOLEAN, G \in {{}, {0}} :
          d = Used(v, E, D, m, G)
    <3>1. \E v \in 1 .. Len(MIGRATIONS), E \in SUBSET Row, D \in SUBSET Row, m \in BOOLEAN,
             G \in {{}, {0}} : d = Used(v, E, D, m, G)
      BY <1>2 DEF Files
    <3> QED BY <3>1, Lengths, Zenon
  <2>2. /\ Reached[v] \in Database /\ Reached[v].version = v /\ Reached[v].copy = {}
        /\ v \in {1, 2} => Reached[v].tables = Tables1
        /\ v = 3 => Reached[v].tables = Tables3
        /\ v = 4 => Reached[v].tables = Tables4
        /\ v = 5 => Reached[v].tables = Tables5
        /\ Reached[v].columns = IF v <= 3 THEN {} ELSE Cols
        /\ v >= 4 => Reached[v].marked
    <3>1. CASE v = 1 BY <3>1, ReachedNew DEF New
    <3>2. CASE v = 2 BY <3>2, ReachedNew DEF New
    <3>3. CASE v = 3 BY <3>3, ReachedNew DEF New
    <3>4. CASE v = 4 BY <3>4, ReachedNew DEF New
    <3>5. CASE v = 5 BY <3>5, ReachedNew DEF New
    <3> QED BY <3>1, <3>2, <3>3, <3>4, <3>5
  <2>3. PICK f : f = Reached[v] OBVIOUS
  <2>4. PICK b, t : b = (f.marked /\ m) /\ t = (D # E /\ ~ (f.marked /\ m)) OBVIOUS
  <2>5. b \in BOOLEAN /\ t \in BOOLEAN /\ G \in SUBSET Nat BY <2>4
  <2>6. d = [f EXCEPT !.events = E, !.derived = D, !.marked = b, !.torn = t, !.digests = G]
    BY <2>1, <2>3, <2>4 DEF Used
  <2>7. /\ d \in Database /\ d.version = v /\ d.copy = {} /\ d.tables = f.tables
        /\ d.columns = f.columns /\ d.events = E /\ d.derived = D /\ d.marked = b /\ d.torn = t
    BY <2>2, <2>3, <2>5, <2>6 DEF Database
  <2>8. v >= 4 => Due(d) BY <2>2, <2>3, <2>4, <2>7 DEF Due
  <2> QED BY <2>2, <2>3, <2>7, <2>8 DEF Between, Tables5, Tables4, Tables3, Tables1
<1> QED BY <1>1, <1>2

\* A statement that may run again never fails.
Rerun == {"ensure events", "ensure derived", "ensure ingest_log", "ensure daily_digest",
          "ensure storage_meta", "ensure coverage_ledger", "recreate derived", "mark",
          "empty daily_digest"}

\* A statement with IF NOT EXISTS never fails.
LEMMA NeverFails == ASSUME NEW d, NEW s \in Rerun PROVE ~Fails(d, s)
BY DEF Fails, Rerun

\* What CREATE TABLE does.
LEMMA Ensures ==
  ASSUME NEW d \in Database, NEW t \in AllTables, NEW e, e = Add(d, t)
  PROVE  /\ e \in Database /\ e.tables = d.tables \cup {t} /\ e.events = d.events
         /\ e.copy = d.copy /\ e.version = d.version /\ e.columns = d.columns
         /\ Due(e) <=> Due(d)
BY Adding DEF ButTables, Due

\* A migration other than the fourth may be run from the start again, wherever
\* it was cut off: none of its statements fails, or touches a row.
LEMMA RerunStep ==
  ASSUME NEW d \in Database, NEW m \in {1, 2, 3, 5}, NEW k \in 1 .. Len(MIGRATIONS[m]), NEW n,
         n = k + 1,
         Between(d, m - 1), Rerunnable(d, m, k), NEW e, e = Apply(d, MIGRATIONS[m][k])
  PROVE  /\ ~Fails(d, MIGRATIONS[m][k])
         /\ e \in Database /\ Between(e, m - 1) /\ Rerunnable(e, m, n)
         /\ e.events = d.events /\ e.copy = d.copy
<1>1. CASE m = 1 /\ k = 1
  <2>1. MIGRATIONS[m][k] = "ensure events" BY <1>1, Statements
  <2>2. ~Fails(d, MIGRATIONS[m][k]) BY <2>1, NeverFails DEF Rerun
  <2>3. e = Add(d, "events") BY <2>1, Applying
  <2>4. "events" \in AllTables BY DEF AllTables, Tables5, Tables4, Tables3, Tables1
  <2>5. /\ e \in Database /\ e.tables = d.tables \cup {"events"} /\ e.events = d.events
        /\ e.copy = d.copy /\ e.version = d.version /\ e.columns = d.columns
        /\ Due(e) <=> Due(d)
    BY <2>3, <2>4, Ensures
  <2>6. Between(d, 0) /\ Rerunnable(d, 1, 1) BY <1>1
  <2>7. Between(e, 0) BY <2>5, <2>6 DEF Between, Tables5, Tables4, Tables3, Tables1
  <2>8. Rerunnable(e, 1, 2) BY <2>5, <2>6, Sizes DEF Rerunnable
  <2>9. n = 2 /\ m - 1 = 0 BY <1>1
  <2> QED BY <1>1, <2>2, <2>5, <2>7, <2>8, <2>9
<1>2. CASE m = 1 /\ k = 2
  <2>1. MIGRATIONS[m][k] = "ensure derived" BY <1>2, Statements
  <2>2. ~Fails(d, MIGRATIONS[m][k]) BY <2>1, NeverFails DEF Rerun
  <2>3. e = Add(d, "derived") BY <2>1, Applying
  <2>4. "derived" \in AllTables BY DEF AllTables, Tables5, Tables4, Tables3, Tables1
  <2>5. /\ e \in Database /\ e.tables = d.tables \cup {"derived"} /\ e.events = d.events
        /\ e.copy = d.copy /\ e.version = d.version /\ e.columns = d.columns
        /\ Due(e) <=> Due(d)
    BY <2>3, <2>4, Ensures
  <2>6. Between(d, 0) /\ Rerunnable(d, 1, 2) BY <1>2
  <2>7. Between(e, 0) BY <2>5, <2>6 DEF Between, Tables5, Tables4, Tables3, Tables1
  <2>8. Rerunnable(e, 1, 3) BY <2>5, <2>6, Sizes DEF Rerunnable
  <2>9. n = 3 /\ m - 1 = 0 BY <1>2
  <2> QED BY <1>2, <2>2, <2>5, <2>7, <2>8, <2>9
<1>3. CASE m = 1 /\ k = 3
  <2>1. MIGRATIONS[m][k] = "ensure ingest_log" BY <1>3, Statements
  <2>2. ~Fails(d, MIGRATIONS[m][k]) BY <2>1, NeverFails DEF Rerun
  <2>3. e = Add(d, "ingest_log") BY <2>1, Applying
  <2>4. "ingest_log" \in AllTables BY DEF AllTables, Tables5, Tables4, Tables3, Tables1
  <2>5. /\ e \in Database /\ e.tables = d.tables \cup {"ingest_log"} /\ e.events = d.events
        /\ e.copy = d.copy /\ e.version = d.version /\ e.columns = d.columns
        /\ Due(e) <=> Due(d)
    BY <2>3, <2>4, Ensures
  <2>6. Between(d, 0) /\ Rerunnable(d, 1, 3) BY <1>3
  <2>7. Between(e, 0) BY <2>5, <2>6 DEF Between, Tables5, Tables4, Tables3, Tables1
  <2>8. Rerunnable(e, 1, 4) BY <2>5, <2>6, Sizes DEF Rerunnable
  <2>9. n = 4 /\ m - 1 = 0 BY <1>3
  <2> QED BY <1>3, <2>2, <2>5, <2>7, <2>8, <2>9
<1>4. CASE m = 2 /\ k = 1
  <2>1. MIGRATIONS[m][k] = "recreate derived" BY <1>4, Statements
  <2>2. ~Fails(d, MIGRATIONS[m][k]) BY <2>1, NeverFails DEF Rerun
  <2>5. /\ e \in Database /\ e.version = d.version /\ e.tables = d.tables \cup {"derived"}
        /\ e.columns = d.columns /\ e.events = d.events /\ e.copy = d.copy
    BY <2>1, Rederiving
  <2>6. Between(d, 1) /\ Rerunnable(d, 2, 1) BY <1>4
  <2>7. Between(e, 1) BY <2>5, <2>6 DEF Between, Tables5, Tables4, Tables3, Tables1
  <2>8. Rerunnable(e, 2, 2) BY <2>5, <2>6, Sizes DEF Rerunnable
  <2>9. n = 2 /\ m - 1 = 1 BY <1>4
  <2> QED BY <1>4, <2>2, <2>5, <2>7, <2>8, <2>9
<1>5. CASE m = 3 /\ k = 1
  <2>1. MIGRATIONS[m][k] = "ensure daily_digest" BY <1>5, Statements
  <2>2. ~Fails(d, MIGRATIONS[m][k]) BY <2>1, NeverFails DEF Rerun
  <2>3. e = Add(d, "daily_digest") BY <2>1, Applying
  <2>4. "daily_digest" \in AllTables BY DEF AllTables, Tables5, Tables4, Tables3, Tables1
  <2>5. /\ e \in Database /\ e.tables = d.tables \cup {"daily_digest"} /\ e.events = d.events
        /\ e.copy = d.copy /\ e.version = d.version /\ e.columns = d.columns
        /\ Due(e) <=> Due(d)
    BY <2>3, <2>4, Ensures
  <2>6. Between(d, 2) /\ Rerunnable(d, 3, 1) BY <1>5
  <2>7. Between(e, 2) BY <2>5, <2>6 DEF Between, Tables5, Tables4, Tables3, Tables1
  <2>8. Rerunnable(e, 3, 2) BY <2>5, <2>6, Sizes DEF Rerunnable
  <2>9. n = 2 /\ m - 1 = 2 BY <1>5
  <2> QED BY <1>5, <2>2, <2>5, <2>7, <2>8, <2>9
<1>6. CASE m = 5 /\ k = 1
  <2>1. MIGRATIONS[m][k] = "ensure coverage_ledger" BY <1>6, Statements
  <2>2. ~Fails(d, MIGRATIONS[m][k]) BY <2>1, NeverFails DEF Rerun
  <2>3. e = Add(d, "coverage_ledger") BY <2>1, Applying
  <2>4. "coverage_ledger" \in AllTables BY DEF AllTables, Tables5, Tables4, Tables3, Tables1
  <2>5. /\ e \in Database /\ e.tables = d.tables \cup {"coverage_ledger"} /\ e.events = d.events
        /\ e.copy = d.copy /\ e.version = d.version /\ e.columns = d.columns
        /\ Due(e) <=> Due(d)
    BY <2>3, <2>4, Ensures
  <2>6. Between(d, 4) /\ Rerunnable(d, 5, 1) BY <1>6
  <2>7. Between(e, 4) BY <2>5, <2>6 DEF Between, Tables5, Tables4, Tables3, Tables1
  <2>8. Rerunnable(e, 5, 2) BY <2>5, <2>6, Sizes DEF Rerunnable
  <2>9. n = 2 /\ m - 1 = 4 BY <1>6
  <2> QED BY <1>6, <2>2, <2>5, <2>7, <2>8, <2>9
<1> QED BY <1>1, <1>2, <1>3, <1>4, <1>5, <1>6, Sizes

\* Migration 4 as long as it is not cut off: no statement fails, and the rows
\* are in `events` or in its copy.
LEMMA ShadowStep ==
  ASSUME NEW d \in Database, NEW k \in 1 .. 9, NEW n, n = k + 1, ShadowAt(d, k),
         NEW e, e = Apply(d, MIGRATIONS[4][k])
  PROVE  /\ ~Fails(d, MIGRATIONS[4][k])
         /\ e \in Database /\ ShadowAt(e, n)
         /\ e.events \cup e.copy = d.events \cup d.copy
<1>1. CASE k = 1
  <2>1. MIGRATIONS[4][k] = "create events_v4" BY <1>1, Statements
  <2>2. ShadowAt(d, 1) BY <1>1
  <2>3. ~Fails(d, "create events_v4") BY <2>2 DEF Fails, ShadowAt, Tables3, Tables1
  <2>4. e = Add(d, "events_v4") BY <2>1, Applying
  <2>5. "events_v4" \in AllTables BY DEF AllTables, Tables5, Tables4, Tables3, Tables1
  <2>6. /\ e \in Database /\ e.tables = d.tables \cup {"events_v4"} /\ e.events = d.events
        /\ e.copy = d.copy /\ e.version = d.version /\ e.columns = d.columns
    BY <2>4, <2>5, Ensures
  <2>7. ShadowAt(e, 2) BY <2>2, <2>6 DEF ShadowAt, Tables4, Tables3, Tables1, Cols
  <2>8. e.events \cup e.copy = d.events \cup d.copy BY <2>2, <2>6 DEF ShadowAt
  <2>9. n = 2 BY <1>1
  <2> QED BY <2>1, <2>3, <2>6, <2>7, <2>8, <2>9
<1>2. CASE k = 2
  <2>1. MIGRATIONS[4][k] = "fill events_v4" BY <1>2, Statements
  <2>2. ShadowAt(d, 2) BY <1>2
  <2>3. ~Fails(d, "fill events_v4") BY <2>2 DEF Fails, ShadowAt, Tables3, Tables1
  <2>6. /\ e \in Database /\ e.version = d.version /\ e.tables = d.tables
        /\ e.columns = d.columns /\ e.events = d.events
        /\ e.copy = d.events
    BY <2>1, Filling DEF Due
  <2>7. ShadowAt(e, 3) BY <2>2, <2>6 DEF ShadowAt, Tables4, Tables3, Tables1, Cols
  <2>8. e.events \cup e.copy = d.events \cup d.copy BY <2>2, <2>6 DEF ShadowAt
  <2>9. n = 3 BY <1>2
  <2> QED BY <2>1, <2>3, <2>6, <2>7, <2>8, <2>9
<1>3. CASE k = 3
  <2>1. MIGRATIONS[4][k] = "drop events" BY <1>3, Statements
  <2>2. ShadowAt(d, 3) BY <1>3
  <2>3. ~Fails(d, "drop events") BY <2>2 DEF Fails, ShadowAt, Tables3, Tables1
  <2>6. /\ e \in Database /\ e.version = d.version /\ e.tables = d.tables \ {"events"}
        /\ e.columns = d.columns /\ e.events = {}
        /\ e.copy = d.copy
    BY <2>1, Dropping DEF Due
  <2>7. ShadowAt(e, 4) BY <2>2, <2>6 DEF ShadowAt, Tables4, Tables3, Tables1, Cols
  <2>8. e.events \cup e.copy = d.events \cup d.copy BY <2>2, <2>6 DEF ShadowAt
  <2>9. n = 4 BY <1>3
  <2> QED BY <2>1, <2>3, <2>6, <2>7, <2>8, <2>9
<1>4. CASE k = 4
  <2>1. MIGRATIONS[4][k] = "rename events_v4" BY <1>4, Statements
  <2>2. ShadowAt(d, 4) BY <1>4
  <2>3. ~Fails(d, "rename events_v4") BY <2>2 DEF Fails, ShadowAt, Tables3, Tables1
  <2>6. /\ e \in Database /\ e.version = d.version
        /\ e.tables = (d.tables \ {"events_v4"}) \cup {"events"}
        /\ e.columns = d.columns \cup {"family"} /\ e.events = d.copy /\ e.copy = {}
    BY <2>1, Renaming DEF Due
  <2>7. ShadowAt(e, 5) BY <2>2, <2>6 DEF ShadowAt, Tables4, Tables3, Tables1, Cols
  <2>8. e.events \cup e.copy = d.events \cup d.copy BY <2>2, <2>6 DEF ShadowAt
  <2>9. n = 5 BY <1>4
  <2> QED BY <2>1, <2>3, <2>6, <2>7, <2>8, <2>9
<1>5. CASE k = 5
  <2>1. MIGRATIONS[4][k] = "recreate derived" BY <1>5, Statements
  <2>2. ShadowAt(d, 5) BY <1>5
  <2>3. ~Fails(d, "recreate derived") BY NeverFails DEF Rerun
  <2>6. /\ e \in Database /\ e.version = d.version /\ e.tables = d.tables \cup {"derived"}
        /\ e.columns = d.columns
        /\ e.events = d.events /\ e.copy = d.copy
    BY <2>1, Rederiving DEF Due
  <2>7. ShadowAt(e, 6) BY <2>2, <2>6 DEF ShadowAt, Tables4, Tables3, Tables1, Cols
  <2>8. e.events \cup e.copy = d.events \cup d.copy BY <2>2, <2>6 DEF ShadowAt
  <2>9. n = 6 BY <1>5
  <2> QED BY <2>1, <2>3, <2>6, <2>7, <2>8, <2>9
<1>6. CASE k = 6
  <2>1. MIGRATIONS[4][k] = "ensure storage_meta" BY <1>6, Statements
  <2>2. ShadowAt(d, 6) BY <1>6
  <2>3. ~Fails(d, "ensure storage_meta") BY NeverFails DEF Rerun
  <2>4. e = Add(d, "storage_meta") BY <2>1, Applying
  <2>5. "storage_meta" \in AllTables BY DEF AllTables, Tables5, Tables4, Tables3, Tables1
  <2>6. /\ e \in Database /\ e.tables = d.tables \cup {"storage_meta"} /\ e.events = d.events
        /\ e.copy = d.copy /\ e.version = d.version /\ e.columns = d.columns
    BY <2>4, <2>5, Ensures
  <2>7. ShadowAt(e, 7) BY <2>2, <2>6 DEF ShadowAt, Tables4, Tables3, Tables1, Cols
  <2>8. e.events \cup e.copy = d.events \cup d.copy BY <2>2, <2>6 DEF ShadowAt
  <2>9. n = 7 BY <1>6
  <2> QED BY <2>1, <2>3, <2>6, <2>7, <2>8, <2>9
<1>7. CASE k = 7
  <2>1. MIGRATIONS[4][k] = "mark" BY <1>7, Statements
  <2>2. ShadowAt(d, 7) BY <1>7
  <2>3. ~Fails(d, "mark") BY NeverFails DEF Rerun
  <2>6. /\ e \in Database /\ e.version = d.version /\ e.tables = d.tables
        /\ e.columns = d.columns /\ e.events = d.events
        /\ e.copy = d.copy /\ Due(e)
    BY <2>1, Marking DEF Due
  <2>7. ShadowAt(e, 8) BY <2>2, <2>6 DEF ShadowAt, Tables4, Tables3, Tables1, Cols
  <2>8. e.events \cup e.copy = d.events \cup d.copy BY <2>2, <2>6 DEF ShadowAt
  <2>9. n = 8 BY <1>7
  <2> QED BY <2>1, <2>3, <2>6, <2>7, <2>8, <2>9
<1>8. CASE k = 8
  <2>1. MIGRATIONS[4][k] = "alter daily_digest" BY <1>8, Statements
  <2>2. ShadowAt(d, 8) BY <1>8
  <2>3. ~Fails(d, "alter daily_digest") BY <2>2 DEF Fails, ShadowAt, Tables3, Tables1
  <2>6. /\ e \in Database /\ e.version = d.version /\ e.tables = d.tables
        /\ e.columns = d.columns \cup {"facts_schema_version"}
        /\ e.events = d.events /\ e.copy = d.copy /\ (Due(d) => Due(e))
    BY <2>1, Altering DEF Due
  <2>7. ShadowAt(e, 9) BY <2>2, <2>6 DEF ShadowAt, Tables4, Tables3, Tables1, Cols
  <2>8. e.events \cup e.copy = d.events \cup d.copy BY <2>2, <2>6 DEF ShadowAt
  <2>9. n = 9 BY <1>8
  <2> QED BY <2>1, <2>3, <2>6, <2>7, <2>8, <2>9
<1>9. CASE k = 9
  <2>1. MIGRATIONS[4][k] = "empty daily_digest" BY <1>9, Statements
  <2>2. ShadowAt(d, 9) BY <1>9
  <2>3. ~Fails(d, "empty daily_digest") BY NeverFails DEF Rerun
  <2>6. /\ e \in Database /\ e.version = d.version /\ e.tables = d.tables
        /\ e.columns = d.columns /\ e.events = d.events
        /\ e.copy = d.copy /\ (Due(d) => Due(e))
    BY ZenonT(60), <2>1, Emptying DEF Due
  <2>7. ShadowAt(e, 10) BY <2>2, <2>6 DEF ShadowAt, Tables4, Tables3, Tables1, Cols
  <2>8. e.events \cup e.copy = d.events \cup d.copy BY <2>2, <2>6 DEF ShadowAt
  <2>9. n = 10 BY <1>9
  <2> QED BY <2>1, <2>3, <2>6, <2>7, <2>8, <2>9
<1> QED BY <1>1, <1>2, <1>3, <1>4, <1>5, <1>6, <1>7, <1>8, <1>9

\* Before its first statement migration 4 has changed nothing; cut off after
\* it, it leaves a mark no later run gets past.
LEMMA ShadowEnds ==
  ASSUME NEW d
  PROVE  /\ Between(d, 3) <=> ShadowAt(d, 1)
         /\ \A k \in 2 .. 10 : ShadowAt(d, k) => Stuck(d)
<1>1. Between(d, 3) <=> ShadowAt(d, 1) BY DEF Between, ShadowAt
<1>2. ASSUME NEW k \in 2 .. 4, ShadowAt(d, k) PROVE Stuck(d)
  BY <1>2 DEF ShadowAt, Stuck, Tables3, Tables1
<1>3. ASSUME NEW k \in 5 .. 10, ShadowAt(d, k) PROVE Stuck(d) BY <1>3 DEF ShadowAt, Stuck, Cols
<1> QED BY <1>1, <1>2, <1>3

\* When every statement of a migration has run, its version may be recorded.
LEMMA Recorded ==
  ASSUME NEW d \in Database, NEW m \in 1 .. 5, NEW e, e = [d EXCEPT !.version = m],
         NEW n, n = Len(MIGRATIONS[m]) + 1,
         \/ m # 4 /\ Between(d, m - 1) /\ Rerunnable(d, m, n)
         \/ m = 4 /\ ShadowAt(d, 10)
  PROVE  e \in Database /\ Between(e, m) /\ e.events = d.events /\ e.copy = d.copy
<1>1. /\ e \in Database
      /\ e.version = m /\ e.tables = d.tables /\ e.columns = d.columns
      /\ e.events = d.events /\ e.copy = d.copy /\ (Due(d) => Due(e))
  BY Recording DEF Due
<1>2. CASE m = 1
  <2>0. n = 4 /\ m - 1 = 0 BY <1>2, Sizes
  <2>1. Between(d, 0) /\ Rerunnable(d, 1, 4) BY <1>2, <2>0
  <2> QED BY <1>1, <1>2, <2>1 DEF Between, Rerunnable, Tables5, Tables4, Tables3, Tables1
<1>3. CASE m = 2
  <2>0. n = 2 /\ m - 1 = 1 BY <1>3, Sizes
  <2>1. Between(d, 1) /\ Rerunnable(d, 2, 2) BY <1>3, <2>0
  <2> QED BY <1>1, <1>3, <2>1 DEF Between, Rerunnable, Tables5, Tables4, Tables3, Tables1
<1>4. CASE m = 3
  <2>0. n = 2 /\ m - 1 = 2 BY <1>4, Sizes
  <2>1. Between(d, 2) /\ Rerunnable(d, 3, 2) BY <1>4, <2>0
  <2> QED BY <1>1, <1>4, <2>1 DEF Between, Rerunnable, Tables5, Tables4, Tables3, Tables1
<1>5. CASE m = 5
  <2>0. n = 2 /\ m - 1 = 4 BY <1>5, Sizes
  <2>1. Between(d, 4) /\ Rerunnable(d, 5, 2) BY <1>5, <2>0
  <2> QED BY <1>1, <1>5, <2>1 DEF Between, Rerunnable, Tables5, Tables4, Tables3, Tables1
<1>6. CASE m = 4 BY <1>1, <1>6 DEF Between, ShadowAt, Tables5, Tables4
<1> QED BY <1>2, <1>3, <1>4, <1>5, <1>6

-----------------------------------------------------------------------------
\* Opening the file.

\* The member of a singleton.
LEMMA Chosen == \A x : (CHOOSE c \in {x} : TRUE) = x
OBVIOUS

\* While no thread serves, nothing is asked and nothing is under way.
LEMMA Quiet ==
  ASSUME IInv, phase \notin {"loop", "dead", "closed"}, UNCHANGED memory,
         phase' \in {"down", "migrate", "failed", "rebuild", "prune", "loop"},
         db' \in Database, UNCHANGED faults, UNCHANGED cutIn4
  PROVE  TypeOK' /\ Control' /\ Channels' /\ UnderWay'
<1>1. /\ queue' = <<>> /\ cur' = {} /\ closing' = FALSE /\ closing \in BOOLEAN
      /\ retention' = retention /\ reply' = reply
  BY DEF IInv, Control, TypeOK, memory
<1>2. TypeOK'
  <2>1. <<>> \in Seq(Called) OBVIOUS
  <2>2. queue' \in Seq(Called) BY <1>1, <2>1
  <2>3. retention' \in Nat /\ reply' \in Seq(Answers) /\ closing' \in BOOLEAN
        /\ cutIn4' \in BOOLEAN /\ faults' \in Nat
    BY <1>1 DEF IInv, TypeOK
  <2>4. cur' \in SUBSET Commands
    BY <1>1
  <2> QED BY <1>1, <2>2, <2>3, <2>4 DEF TypeOK
<1>3. Control' BY <1>1 DEF Control
<1>4. Channels' BY <1>1 DEF Channels
<1>5. UnderWay' BY <1>1 DEF UnderWay
<1> QED BY <1>2, <1>3, <1>4, <1>5

\* Every file a build may find satisfies the invariant.
LEMMA InitInvariant == Init => IInv
<1> SUFFICES ASSUME Init PROVE IInv OBVIOUS
<1> USE DEF Init
<1>1. db \in Database /\ Between(db, db.version) BY FilesBetween
<1>2. TypeOK
  <2>1. queue \in Seq(Called) /\ reply \in Seq(Answers) OBVIOUS
  <2>2. cur \in SUBSET Commands
    OBVIOUS
  <2> QED BY <1>1, <2>1, <2>2 DEF TypeOK
<1>3. Opening BY <1>1 DEF Opening
<1>4. Control BY DEF Control
<1>5. Channels BY DEF Channels
<1>6. UnderWay BY DEF UnderWay
<1> QED BY <1>2, <1>3, <1>4, <1>5, <1>6 DEF IInv

\* The steps of opening preserve it: open,
LEMMA OpenStep == IInv /\ Open => IInv'
<1> SUFFICES ASSUME IInv, Open PROVE IInv' OBVIOUS
<1>1. /\ phase = "down" /\ phase' = "migrate" /\ mig' = <<db.version + 1, 1>> /\ db' = db
      /\ UNCHANGED memory /\ cutIn4' = cutIn4 /\ faults' = faults
  BY DEF Open
<1>2. db \in Database /\ db.version \in 0 .. 5 /\ cutIn4 \in BOOLEAN BY DEF IInv, TypeOK, Database
<1>3. TypeOK' /\ Control' /\ Channels' /\ UnderWay' BY <1>1, <1>2, Quiet
<1>4. mig' \in (1 .. 6) \X (1 .. 10) /\ mig'[1] = db.version + 1 /\ mig'[2] = 1 BY <1>1, <1>2
<1>5. CASE cutIn4
  <2>1. Stuck(db) BY <1>5 DEF IInv, Opening
  <2>2. db.version = 3 BY <2>1 DEF Stuck
  <2>3. mig'[1] = 4 BY <1>4, <2>2
  <2>4. cutIn4' /\ Stuck(db') /\ phase' = "migrate" BY <1>1, <1>5, <2>1
  <2>5. /\ mig' \in (1 .. 6) \X (1 .. 10) /\ mig'[1] = db'.version + 1
        /\ mig'[1] = 4 /\ mig'[2] = 1
    BY <1>1, <1>4, <2>3
  <2>6. Opening' BY <2>4, <2>5 DEF Opening
  <2> QED BY <1>3, <2>6 DEF IInv
<1>6. CASE ~cutIn4
  <2>1. Between(db, db.version) BY <1>1, <1>6 DEF IInv, Opening
  <2>2. CASE db.version = 3
    <3>1. ShadowAt(db, 1) BY <2>1, <2>2, ShadowEnds
    <3> QED BY <1>1, <1>3, <1>4, <1>6, <2>2, <3>1 DEF IInv, Opening
  <2>3. CASE db.version # 3
    <3>1. mig'[1] < 6 => Rerunnable(db, mig'[1], 1) BY <1>2, <1>4, Sizes DEF Rerunnable
    <3> QED BY <1>1, <1>2, <1>3, <1>4, <1>6, <2>1, <2>3, <3>1 DEF IInv, Opening
  <2> QED BY <2>2, <2>3
<1> QED BY <1>5, <1>6

\* the end of the migrations,
LEMMA MigratedStep == IInv /\ Migrated => IInv'
<1> SUFFICES ASSUME IInv, Migrated PROVE IInv' OBVIOUS
<1>1. /\ phase = "migrate" /\ mig[1] > 5 /\ phase' = "rebuild" /\ db' = db /\ mig' = mig
      /\ UNCHANGED memory /\ cutIn4' = cutIn4 /\ faults' = faults
  BY Sizes DEF Migrated
<1>2. db \in Database BY DEF IInv, TypeOK
<1>3. TypeOK' /\ Control' /\ Channels' /\ UnderWay' BY <1>1, <1>2, Quiet
<1>4. mig \in (1 .. 6) \X (1 .. 10) /\ mig[1] = db.version + 1 BY <1>1 DEF IInv, Opening
<1>5. mig[1] = 6 /\ db.version = 5 BY <1>1, <1>2, <1>4 DEF Database
<1>6. ~cutIn4 BY <1>1, <1>5 DEF IInv, Opening
<1>7. Between(db, 5) BY <1>1, <1>5, <1>6 DEF IInv, Opening
<1> QED BY <1>1, <1>3, <1>6, <1>7 DEF IInv, Opening

\* the rebuild the marker asks for,
LEMMA RebuildStep == IInv /\ Rebuild => IInv'
<1> SUFFICES ASSUME IInv, Rebuild PROVE IInv' OBVIOUS
<1>1. /\ phase = "rebuild" /\ phase' = "prune" /\ db' = RebuildIfMarked(db) /\ mig' = mig
      /\ UNCHANGED memory /\ cutIn4' = cutIn4 /\ faults' = faults
  BY DEF Rebuild
<1>2. db \in Database /\ Between(db, 5) /\ ~cutIn4 BY <1>1 DEF IInv, TypeOK, Opening
<1>3. /\ db' \in Database /\ db'.version = db.version /\ db'.tables = db.tables
      /\ db'.columns = db.columns /\ db'.events = db.events /\ db'.copy = db.copy
      /\ Due(db) => Fresh(db') /\ ~db'.marked
  <2>1. CASE db.marked
    <3>1. db' = [db EXCEPT !.derived = db.events, !.torn = FALSE, !.marked = FALSE]
      BY <1>1, <2>1 DEF RebuildIfMarked, RescoreAll
    <3> QED BY <1>2, <3>1 DEF Database, Fresh
  <2>2. CASE ~db.marked
    <3>1. db' = db BY <1>1, <2>2 DEF RebuildIfMarked
    <3> QED BY <1>2, <2>2, <3>1 DEF Due, Fresh
  <2> QED BY <2>1, <2>2
<1>4. TypeOK' /\ Control' /\ Channels' /\ UnderWay' BY <1>1, <1>3, Quiet
<1>5. Between(db', 5) /\ ~db'.marked BY <1>2, <1>3 DEF Between, Due, Fresh
<1> QED BY <1>1, <1>2, <1>4, <1>5 DEF IInv, Opening

\* the pruning of stale digests,
LEMMA PruneAndSpawnStep == IInv /\ PruneAndSpawn => IInv'
<1> SUFFICES ASSUME IInv, PruneAndSpawn PROVE IInv' OBVIOUS
<1>1. /\ phase = "prune" /\ phase' = "loop" /\ db' = PruneStaleDigests(db) /\ mig' = mig
      /\ UNCHANGED memory /\ cutIn4' = cutIn4 /\ faults' = faults
  BY DEF PruneAndSpawn
<1>2. db \in Database /\ Between(db, 5) /\ ~db.marked /\ ~cutIn4
  BY <1>1 DEF IInv, TypeOK, Opening
<1>3. db' = [db EXCEPT !.digests = {v \in db.digests : v >= FactsVersion}]
  BY <1>1 DEF PruneStaleDigests
<1>4. /\ db' \in Database /\ db'.version = db.version /\ db'.tables = db.tables
      /\ db'.columns = db.columns /\ db'.events = db.events /\ db'.copy = db.copy
      /\ db'.derived = db.derived /\ db'.torn = db.torn /\ db'.marked = db.marked
      /\ db'.digests = {v \in db.digests : v >= FactsVersion}
  BY <1>2, <1>3 DEF Database
<1>5. TypeOK' /\ Control' /\ Channels' /\ UnderWay' BY <1>1, <1>4, Quiet
<1>6. Between(db', 5) /\ ~db'.marked /\ Fresh(db') BY <1>2, <1>4 DEF Between, Due, Fresh
<1>7. Ready(db')
  <2>1. {"events", "derived", "ingest_log", "daily_digest", "storage_meta", "coverage_ledger"}
          = db'.tables
    BY <1>6 DEF Between, Tables5, Tables4, Tables3, Tables1
  <2>2. db'.version = 5 /\ {"family", "facts_schema_version"} = db'.columns
    BY <1>6 DEF Between, Cols
  <2> QED BY <1>4, <1>6, <2>1, <2>2, Sizes DEF Ready
<1>8. db'.copy = {} BY <1>6 DEF Between
<1> QED BY <1>1, <1>2, <1>5, <1>6, <1>7, <1>8 DEF IInv, Opening

\* the record of a migration's version,
LEMMA RecordVersionStep == IInv /\ RecordVersion => IInv'
<1> SUFFICES ASSUME IInv, RecordVersion PROVE IInv' OBVIOUS
<1>1. /\ phase = "migrate" /\ mig[1] <= 5 /\ mig[2] > Len(MIGRATIONS[mig[1]])
      /\ db' = [db EXCEPT !.version = mig[1]] /\ mig' = <<mig[1] + 1, 1>>
      /\ phase' = "migrate" /\ UNCHANGED memory /\ cutIn4' = cutIn4 /\ faults' = faults
  BY Sizes DEF RecordVersion
<1>2. db \in Database BY DEF IInv, TypeOK
<1>3. mig \in (1 .. 6) \X (1 .. 10) /\ mig[1] = db.version + 1 BY <1>1 DEF IInv, Opening
<1>4. PICK m \in 1 .. 5 : m = mig[1] BY <1>1, <1>3
<1>5. PICK n : n = Len(MIGRATIONS[m]) + 1 OBVIOUS
<1>6. m = 4 => mig[2] = 10
  <2> SUFFICES ASSUME m = 4 PROVE mig[2] = 10 OBVIOUS
  <2>1. PICK j \in 1 .. 10 : j = mig[2] BY <1>3
  <2>2. Len(MIGRATIONS[m]) = 9 BY Sizes
  <2>3. j > 9 BY <1>1, <1>4, <2>1, <2>2
  <2>4. j = 10 BY <2>3
  <2> QED BY <2>1, <2>4
<1>7. ~cutIn4
  <2> SUFFICES ASSUME cutIn4 PROVE FALSE OBVIOUS
  <2>1. mig[1] = 4 /\ (mig[2] = 1 \/ mig[2] = 2) BY <1>1 DEF IInv, Opening
  <2> QED BY <1>4, <1>6, <2>1
<1>8. \/ m # 4 /\ Between(db, m - 1) /\ Rerunnable(db, m, n)
      \/ m = 4 /\ ShadowAt(db, 10)
  <2>1. CASE m = 4 BY <1>1, <1>4, <1>6, <1>7, <2>1 DEF IInv, Opening
  <2>2. CASE m # 4
    <3>1. Between(db, m - 1) /\ Rerunnable(db, m, mig[2])
      BY <1>1, <1>2, <1>3, <1>4, <1>7, <2>2 DEF IInv, Opening, Database
    <3>2. mig[2] = n
      <4>1. mig[2] \in 1 .. n BY <3>1, <1>5 DEF Rerunnable
      <4>2. Len(MIGRATIONS[m]) \in Nat BY Sizes
      <4> QED BY <1>1, <1>4, <1>5, <4>1, <4>2
    <3> QED BY <2>2, <3>1, <3>2
  <2> QED BY <2>1, <2>2
<1>9. db' \in Database /\ Between(db', m) BY <1>1, <1>2, <1>4, <1>5, <1>8, Recorded
<1>10. db'.version = m BY <1>9 DEF Between
<1>11. TypeOK' /\ Control' /\ Channels' /\ UnderWay' BY <1>1, <1>9, Quiet
<1>12. mig' \in (1 .. 6) \X (1 .. 10) /\ mig'[1] = m + 1 /\ mig'[2] = 1 BY <1>1, <1>4
<1>13. CASE m = 3
  <2>1. ShadowAt(db', 1) BY <1>9, <1>13, ShadowEnds
  <2> QED BY <1>1, <1>7, <1>10, <1>11, <1>12, <1>13, <2>1 DEF IInv, Opening
<1>14. CASE m # 3
  <2>1. m < 5 => Rerunnable(db', m + 1, 1) BY <1>14, Sizes DEF Rerunnable
  <2> QED BY <1>1, <1>7, <1>9, <1>10, <1>11, <1>12, <1>14, <2>1 DEF IInv, Opening
<1> QED BY <1>13, <1>14

\* What one statement makes of the file, and that it loses no row.
LEMMA StatementEffect ==
  ASSUME IInv, Statement
  PROVE  /\ db' \in Database /\ Opening'
         /\ db'.events \cup db'.copy = db.events \cup db.copy
<1> DEFINE stmt == MIGRATIONS[mig[1]][mig[2]]
<1>1. /\ phase = "migrate" /\ mig[1] <= 5 /\ mig[2] <= Len(MIGRATIONS[mig[1]])
      /\ UNCHANGED memory /\ cutIn4' = cutIn4 /\ faults' = faults
  BY Sizes DEF Statement
<1>2. \/ ~Fails(db, stmt) /\ db' = Apply(db, stmt) /\ mig' = <<mig[1], mig[2] + 1>>
         /\ phase' = "migrate"
      \/ Fails(db, stmt) /\ phase' = "failed" /\ db' = db /\ mig' = mig
  BY <1>1 DEF Statement
<1>3. db \in Database BY DEF IInv, TypeOK
<1>4. mig \in (1 .. 6) \X (1 .. 10) /\ mig[1] = db.version + 1 BY <1>1 DEF IInv, Opening
<1>5. PICK m \in 1 .. 5, k \in 1 .. 9 : m = mig[1] /\ k = mig[2] /\ k <= Len(MIGRATIONS[m])
  <2>1. mig[1] \in 1 .. 5 /\ mig[2] \in 1 .. 10 BY <1>1, <1>4
  <2>2. PICK m \in 1 .. 5 : m = mig[1] BY <2>1
  <2>3. Len(MIGRATIONS[m]) \in 1 .. 9 BY Sizes
  <2>4. PICK j \in 1 .. 10, l \in 1 .. 9 : j = mig[2] /\ l = Len(MIGRATIONS[m]) BY <2>1, <2>3
  <2>5. j <= l BY <1>1, <2>2, <2>4
  <2>6. j \in 1 .. 9 BY <2>5
  <2> QED BY <2>2, <2>4, <2>5, <2>6
<1>6. CASE cutIn4
  <2>1. Stuck(db) /\ m = 4 /\ (k = 1 \/ (k = 2 /\ "family" \in db.columns))
    BY <1>1, <1>5, <1>6 DEF IInv, Opening
  <2>2. CASE k = 1
    <3>1. stmt = "create events_v4" BY <1>5, <2>1, <2>2, Statements
    <3>2. CASE "events_v4" \in db.tables
      <4>1. Fails(db, stmt) BY <3>1, <3>2 DEF Fails
      <4>2. phase' = "failed" /\ db' = db BY <4>1, <1>2
      <4> QED BY <4>2, <1>1, <1>3, <1>6, <2>1 DEF Opening
    <3>3. CASE "events_v4" \notin db.tables
      <4>1. ~Fails(db, stmt) BY <3>1, <3>3 DEF Fails
      <4>2. phase' = "migrate" /\ db' = Add(db, "events_v4") /\ mig' = <<4, 2>>
        <5>1. phase' = "migrate" /\ db' = Apply(db, "create events_v4")
              /\ mig' = <<mig[1], mig[2] + 1>>
          BY <4>1, <1>2, <3>1
        <5>2. mig[1] = 4 /\ mig[2] = 1 BY <1>5, <2>1, <2>2
        <5>3. Apply(db, "create events_v4") = Add(db, "events_v4") BY <1>3, Applying
        <5>4. mig[2] + 1 = 2 BY <5>2
        <5>5. mig' = <<4, 2>> BY <5>1, <5>2, <5>4
        <5> QED BY <5>1, <5>3, <5>5
      <4>3. /\ db' \in Database /\ db'.tables = db.tables \cup {"events_v4"}
            /\ db'.events = db.events /\ db'.copy = db.copy /\ db'.version = db.version
            /\ db'.columns = db.columns
        BY <4>2, <1>3, Ensures DEF AllTables
      <4>4. db.version = 3 /\ "family" \in db.columns BY <2>1, <3>3 DEF Stuck
      <4>5. mig' \in (1 .. 6) \X (1 .. 10) /\ mig'[1] = 4 /\ mig'[2] = 2 BY <4>2
      <4> QED BY <1>1, <1>6, <4>2, <4>3, <4>4, <4>5 DEF Opening, Stuck
    <3> QED BY <3>2, <3>3
  <2>3. CASE k = 2
    <3>1. stmt = "fill events_v4" BY <1>5, <2>1, <2>3, Statements
    <3>2. Fails(db, stmt)
      <4>1. "family" \in db.columns BY <2>1, <2>3
      <4>2. \A s : s = "fill events_v4" => Fails(db, s) BY <4>1 DEF Fails
      <4> QED BY <3>1, <4>2
    <3>3. phase' = "failed" /\ db' = db BY <3>2, <1>2
    <3> QED BY <3>3, <1>1, <1>3, <1>6, <2>1 DEF Opening
  <2> QED BY <2>1, <2>2, <2>3
<1>7. CASE ~cutIn4 /\ m = 4
  <2>1. ShadowAt(db, k) BY <1>1, <1>5, <1>7 DEF IInv, Opening
  <2>2. PICK e, n : e = Apply(db, MIGRATIONS[4][k]) /\ n = k + 1 OBVIOUS
  <2>3. ~Fails(db, stmt) /\ e \in Database /\ ShadowAt(e, n)
        /\ e.events \cup e.copy = db.events \cup db.copy
    BY <1>3, <1>5, <1>7, <2>1, <2>2, ShadowStep
  <2>4. db' = e /\ mig' = <<4, n>> /\ phase' = "migrate" BY <1>2, <1>5, <1>7, <2>2, <2>3
  <2>5. mig' \in (1 .. 6) \X (1 .. 10) /\ mig'[1] = 4 /\ mig'[2] = n BY <2>2, <2>4
  <2>6. e.version = 3 BY <2>3 DEF ShadowAt
  <2> QED BY <1>1, <1>7, <2>3, <2>4, <2>5, <2>6 DEF Opening
<1>8. CASE ~cutIn4 /\ m # 4
  <2>1. Between(db, m - 1) /\ Rerunnable(db, m, k)
    BY <1>1, <1>3, <1>4, <1>5, <1>8 DEF IInv, Opening, Database
  <2>2. PICK e, n : e = Apply(db, MIGRATIONS[m][k]) /\ n = k + 1 OBVIOUS
  <2>3. Len(MIGRATIONS[m]) \in 1 .. 9 BY Sizes
  <2>4. m \in {1, 2, 3, 5} /\ k \in 1 .. Len(MIGRATIONS[m]) BY <1>5, <1>8, <2>3
  <2>5. ~Fails(db, MIGRATIONS[m][k]) /\ e \in Database /\ Between(e, m - 1) /\ Rerunnable(e, m, n)
        /\ e.events = db.events /\ e.copy = db.copy
    BY <1>3, <2>1, <2>2, <2>4, RerunStep
  <2>6. db' = e /\ mig' = <<m, n>> /\ phase' = "migrate" BY <1>2, <1>5, <2>2, <2>5
  <2>7. mig' \in (1 .. 6) \X (1 .. 10) /\ mig'[1] = m /\ mig'[2] = n BY <2>2, <2>6
  <2>8. e.version = m - 1 BY <2>5 DEF Between
  <2> QED BY <1>1, <1>8, <2>5, <2>6, <2>7, <2>8 DEF Opening
<1> QED BY <1>6, <1>7, <1>8 DEF IInv, TypeOK

\* and a statement of a migration.
LEMMA StatementStep == IInv /\ Statement => IInv'
<1> SUFFICES ASSUME IInv, Statement PROVE IInv' OBVIOUS
<1>1. /\ phase = "migrate" /\ UNCHANGED memory /\ cutIn4' = cutIn4 /\ faults' = faults
      /\ phase' \in {"migrate", "failed"}
  BY DEF Statement
<1>2. db' \in Database /\ Opening' BY StatementEffect
<1>3. TypeOK' /\ Control' /\ Channels' /\ UnderWay' BY <1>1, <1>2, Quiet
<1> QED BY <1>2, <1>3 DEF IInv

\* An ingest of rows that are there already, with none too old, changes nothing.
LEMMA NothingDone ==
  ASSUME NEW S, NEW days, NEW o, o.op = "ingest", o.rows \ S = {}
  PROVE  /\ Atomic!Inserted(S, o) = S
         /\ Atomic!Expired(Atomic!Inserted(S, o), days) = {} => Atomic!Done(S, days, o) = S
<1>1. Atomic!Inserted(S, o) = S BY DEF Atomic!Inserted
<1>2. Atomic!Done(S, days, o) = Atomic!Inserted(S, o) \ Atomic!Expired(Atomic!Inserted(S, o), days)
  BY DEF Atomic!Done
<1> QED BY <1>1, <1>2

\* What an ingest answers, once it has pruned.
LEMMA IngestAnswer ==
  ASSUME NEW S, NEW days, NEW o, o.op = "ingest"
  PROVE  Atomic!Answer(S, days, o) =
           [is |-> "ingested", inserted |-> o.rows \ S,
            pruned |-> Atomic!Expired(Atomic!Inserted(S, o), days)]
BY DEF Atomic!Answer

\* A death leaves derived tables of the rows, or a file that is torn.
LEMMA Tearing ==
  ASSUME IInv, Tear
  PROVE  /\ Within(db, db') /\ db'.events = db.events
         /\ phase = "loop" => Fresh(db')
         /\ phase # "loop" => db' = db
<1>1. PICK t : t = (db.torn \/ CutOff) OBVIOUS
<1>2. t \in BOOLEAN /\ db \in Database /\ db.torn \in BOOLEAN BY <1>1 DEF IInv, TypeOK, Database
<1>3. db' = [db EXCEPT !.torn = t] BY <1>1 DEF Tear
<1>4. /\ Within(db, db') /\ db'.events = db.events /\ db'.derived = db.derived /\ db'.torn = t
  BY <1>2, <1>3 DEF Within, Database
<1>5. ASSUME phase # "loop" PROVE db' = db
  <2>1. t = db.torn BY <1>1, <1>2, <1>5 DEF CutOff
  <2> QED BY <1>2, <1>3, <2>1 DEF Database
<1>6. ASSUME phase = "loop" PROVE Fresh(db')
  <2>1. CASE cur = {}
    <3>1. Fresh(db) BY <1>6, <2>1 DEF IInv, Opening
    <3> QED BY <1>1, <1>4, <3>1 DEF Fresh
  <2>2. CASE cur # {}
    <3>1. PICK c \in cur : c = Command BY <2>2 DEF IInv, TypeOK
    <3>2. c.stage \in {"start", "expire", "rescore", "reply"}
      BY <3>1 DEF IInv, TypeOK, Commands, Stages
    <3>3. CASE c.stage \in {"start", "reply"}
      <4>1. Fresh(db) BY <3>3 DEF IInv, UnderWay
      <4> QED BY <1>1, <1>4, <4>1 DEF Fresh
    <3>4. CASE c.stage \in {"expire", "rescore"}
      <4>1. db.torn \/ db.derived = c.before BY <3>4 DEF IInv, UnderWay
      <4>2. CASE c.answer.inserted \cup c.answer.pruned # {}
        <5>1. CutOff BY <1>6, <3>4, <4>2 DEF CutOff
        <5> QED BY <1>1, <1>4, <5>1 DEF Fresh
      <4>3. CASE c.answer.inserted = {} /\ c.answer.pruned = {}
        <5>1. db.events = c.before
          <6>1. CASE c.stage = "expire"
            <7>1. /\ c.op.op = "ingest" /\ db.events = Atomic!Inserted(c.before, c.op)
                  /\ c.answer = [is |-> "ingested", inserted |-> c.op.rows \ c.before,
                                  pruned |-> {}]
              BY <6>1 DEF IInv, UnderWay
            <7>2. c.op.rows \ c.before = {} BY <4>3, <7>1
            <7> QED BY <7>1, <7>2, NothingDone
          <6>2. CASE c.stage = "rescore"
            <7>1. /\ c.op.op = "ingest" /\ db.events = Atomic!Done(c.before, retention, c.op)
                  /\ c.answer = Atomic!Answer(c.before, retention, c.op)
              BY <6>2 DEF IInv, UnderWay
            <7>2. PICK gone : gone = Atomic!Expired(Atomic!Inserted(c.before, c.op), retention)
              OBVIOUS
            <7>3. c.answer = [is |-> "ingested", inserted |-> c.op.rows \ c.before,
                              pruned |-> gone]
              BY <7>1, <7>2, IngestAnswer
            <7>4. c.op.rows \ c.before = {} /\ gone = {} BY <4>3, <7>3
            <7>5. PICK S, days, o : S = c.before /\ days = retention /\ o = c.op OBVIOUS
            <7>6. Atomic!Done(S, days, o) = S
              <8>1. o.op = "ingest" /\ o.rows \ S = {} BY <7>1, <7>4, <7>5
              <8>2. Atomic!Expired(Atomic!Inserted(S, o), days) = {} BY <7>2, <7>4, <7>5
              <8> QED BY <8>1, <8>2, NothingDone
            <7> QED BY <7>1, <7>5, <7>6
          <6> QED BY <3>4, <6>1, <6>2
        <5> QED BY <1>1, <1>4, <4>1, <5>1 DEF Fresh
      <4> QED BY <4>2, <4>3
    <3> QED BY <3>2, <3>3, <3>4
  <2> QED BY <2>1, <2>2
<1> QED BY <1>4, <1>5, <1>6

\* An open file whose derived tables follow is between two migrations.
LEMMA ReadyIsBetween ==
  ASSUME NEW d, Ready(d), d.copy = {}, Fresh(d) PROVE Between(d, 5) /\ d.version = 5
<1>1. d.version = 5 BY Sizes DEF Ready
<1>2. d.tables = Tables5 /\ d.columns = Cols
  BY DEF Ready, Tables5, Tables4, Tables3, Tables1, Cols
<1> QED BY <1>1, <1>2 DEF Between, Due, Fresh

\* A file that differs in its rows alone is as ready.
LEMMA StillReady == ASSUME NEW d, NEW e, Within(d, e), Ready(d) PROVE Ready(e)
BY DEF Within, Ready

\* A process that ends takes its memory with it.
LEMMA ForgetStep ==
  ASSUME IInv, Forget, db' \in Database, faults' \in Nat, cutIn4' \in BOOLEAN
  PROVE  TypeOK' /\ Control' /\ Channels' /\ UnderWay'
<1>1. /\ phase' = "down" /\ queue' = <<>> /\ cur' = {} /\ retention' = 0 /\ reply' = <<>>
      /\ closing' = FALSE
  BY DEF Forget
<1>2. TypeOK'
  <2>1. <<>> \in Seq(Called) /\ <<>> \in Seq(Answers) OBVIOUS
  <2>2. queue' \in Seq(Called) /\ reply' \in Seq(Answers)
    BY <1>1, <2>1
  <2>3. cur' \in SUBSET Commands
    BY <1>1
  <2> QED BY <1>1, <2>2, <2>3 DEF TypeOK
<1>3. Control' BY <1>1 DEF Control
<1>4. Channels' BY <1>1 DEF Channels
<1>5. UnderWay' BY <1>1 DEF UnderWay
<1> QED BY <1>2, <1>3, <1>4, <1>5

\* A death at any moment preserves it: of the migrations only the fourth is stuck.
LEMMA CrashStep == IInv /\ Crash => IInv'
<1> SUFFICES ASSUME IInv, Crash PROVE IInv' OBVIOUS
<1>1. /\ phase # "down" /\ Forget /\ phase' = "down" /\ faults' = faults + 1
      /\ cutIn4' = (cutIn4 \/ (phase = "migrate" /\ mig[1] = 4 /\ mig[2] > 1))
      /\ Tear /\ mig' = mig
  BY DEF Crash, Forget
<1>a. /\ Within(db, db') /\ (phase = "loop" => Fresh(db')) /\ (phase # "loop" => db' = db)
      /\ db' \in Database
  BY <1>1, Tearing DEF Within
<1>2. db \in Database /\ faults \in Nat /\ cutIn4 \in BOOLEAN
      /\ phase \in {"down", "migrate", "failed", "rebuild", "prune", "loop", "dead", "closed"}
  BY DEF IInv, TypeOK
<1>3. TypeOK' /\ Control' /\ Channels' /\ UnderWay' BY <1>1, <1>a, <1>2, ForgetStep
<1>4. cutIn4' => Stuck(db) /\ phase # "loop"
  <2>1. CASE cutIn4
    <3>1. Stuck(db) /\ phase \in {"down", "migrate", "failed"} BY <2>1 DEF IInv, Opening
    <3> QED BY <3>1
  <2>2. CASE ~cutIn4 /\ cutIn4'
    <3>1. phase = "migrate" /\ mig[1] = 4 /\ mig[2] > 1 BY <1>1, <2>2
    <3>2. ShadowAt(db, mig[2]) /\ mig[2] \in 2 .. 10 BY <2>2, <3>1 DEF IInv, Opening
    <3> QED BY <3>1, <3>2, ShadowEnds
  <2> QED BY <2>1, <2>2
<1>5. ~cutIn4' => Between(db', db'.version)
  <2> SUFFICES ASSUME ~cutIn4' PROVE Between(db', db'.version) OBVIOUS
  <2>1. ~cutIn4 /\ (phase = "migrate" /\ mig[1] = 4 => ~(mig[2] > 1)) BY <1>1
  <2>2. CASE phase = "migrate" /\ mig[1] = 4
    <3>1. ShadowAt(db, mig[2]) /\ mig[2] \in 1 .. 10 /\ db.version + 1 = 4
      BY <2>1, <2>2 DEF IInv, Opening
    <3>2. mig[2] = 1 /\ db.version = 3 BY <1>2, <2>1, <2>2, <3>1 DEF Database
    <3>3. Between(db, db.version) BY <3>1, <3>2, ShadowEnds
    <3> QED BY <1>a, <2>2, <3>3
  <2>3. CASE phase = "migrate" /\ mig[1] # 4
    <3>1. Between(db, db.version) BY <2>1, <2>3 DEF IInv, Opening
    <3> QED BY <1>a, <2>3, <3>1
  <2>4. CASE phase \in {"rebuild", "prune"}
    <3>1. Between(db, 5) /\ db.version = 5 BY <2>4 DEF IInv, Opening, Between
    <3> QED BY <1>a, <2>4, <3>1
  <2>5. CASE phase \in {"loop", "dead", "closed"}
    <3>1. Ready(db') /\ db'.copy = {}
      <4>1. Ready(db) /\ db.copy = {} BY <2>5 DEF IInv, Opening
      <4> QED BY <1>a, <4>1, StillReady DEF Within
    <3>2. Fresh(db')
      <4>1. CASE phase = "loop" BY <1>a, <4>1
      <4>2. CASE phase # "loop"
        <5>1. cur = {} BY <4>2 DEF IInv, Control
        <5>2. Fresh(db) BY <2>5, <5>1 DEF IInv, Opening
        <5> QED BY <1>a, <4>2, <5>2
      <4> QED BY <4>1, <4>2
    <3> QED BY <3>1, <3>2, ReadyIsBetween
  <2>6. phase # "failed" BY <2>1 DEF IInv, Opening
  <2> QED BY <1>1, <1>2, <2>2, <2>3, <2>4, <2>5, <2>6
<1>6. cutIn4' => Stuck(db') BY <1>a, <1>4
<1> QED BY <1>1, <1>3, <1>5, <1>6 DEF IInv, Opening

\* So does the end of the program.
LEMMA ExitStep == IInv /\ Exit => IInv'
<1> SUFFICES ASSUME IInv, Exit PROVE IInv' OBVIOUS
<1>1. /\ phase \in {"closed", "failed"} /\ Forget /\ phase' = "down" /\ faults' = faults
      /\ cutIn4' = cutIn4 /\ db' = db /\ mig' = mig
  BY DEF Exit, Forget
<1>2. faults \in Nat /\ cutIn4 \in BOOLEAN /\ db' \in Database BY <1>1 DEF IInv, TypeOK
<1>3. TypeOK' /\ Control' /\ Channels' /\ UnderWay' BY <1>1, <1>2, ForgetStep
<1>4. ~cutIn4 => Between(db, db.version)
  <2> SUFFICES ASSUME ~cutIn4 PROVE Between(db, db.version) OBVIOUS
  <2>1. phase = "closed" BY <1>1 DEF IInv, Opening
  <2>2. cur = {} BY <2>1 DEF IInv, Control
  <2>3. Ready(db) /\ db.copy = {} /\ Fresh(db) BY <2>1, <2>2 DEF IInv, Opening
  <2> QED BY <2>3, ReadyIsBetween
<1>5. cutIn4 => Stuck(db) BY DEF IInv, Opening
<1> QED BY <1>1, <1>3, <1>4, <1>5 DEF IInv, Opening

-----------------------------------------------------------------------------
\* Serving.

\* What callers may ask for.
LEMMA Operations ==
  ASSUME NEW o \in Op
  PROVE  /\ o.op \in {"ingest", "purge", "retention", "read"}
         /\ o.op \in {"ingest", "purge"} => o.rows \in SUBSET Row
         /\ o.op = "retention" => o.days \in Nat
         /\ o # Shutdown
<1>1. \/ o \in [op : {"ingest", "purge"}, rows : SUBSET Row]
      \/ o \in [op : {"retention"}, days : Nat]
      \/ o \in [op : {"read"}]
  BY OpAssumption
<1>2. CASE o \in [op : {"ingest", "purge"}, rows : SUBSET Row] BY <1>2 DEF Shutdown
<1>3. CASE o \in [op : {"retention"}, days : Nat] BY <1>3 DEF Shutdown
<1>4. CASE o \in [op : {"read"}] BY <1>4 DEF Shutdown
<1> QED BY <1>1, <1>2, <1>3, <1>4

\* The answers, and that three of them differ.
LEMMA Answering ==
  /\ Atomic!None \in Answers /\ Atomic!Lost \in Answers /\ Atomic!Unasked \in Answers
  /\ Atomic!None # Atomic!Lost /\ Atomic!None # Atomic!Unasked
  /\ \A S, P \in SUBSET Row : [is |-> "ingested", inserted |-> S, pruned |-> P] \in Answers
  /\ \A S \in SUBSET Row : [is |-> "purged", purged |-> S] \in Answers
  /\ \A S \in SUBSET Row : [is |-> "read", rows |-> S] \in Answers
<1>1. Atomic!None # Atomic!Lost /\ Atomic!None # Atomic!Unasked
  BY DEF Atomic!None, Atomic!Lost, Atomic!Unasked
<1>2. ASSUME NEW S \in SUBSET Row, NEW P \in SUBSET Row
      PROVE  [is |-> "ingested", inserted |-> S, pruned |-> P] \in Answers
  BY DEF Answers
<1>3. ASSUME NEW S \in SUBSET Row PROVE [is |-> "purged", purged |-> S] \in Answers BY DEF Answers
<1>4. ASSUME NEW S \in SUBSET Row PROVE [is |-> "read", rows |-> S] \in Answers BY DEF Answers
<1> QED BY <1>1, <1>2, <1>3, <1>4 DEF Answers

\* A step of a running process that writes rows and nothing else.
LEMMA StillOpen ==
  ASSUME IInv, phase \in {"loop", "dead", "closed"}, phase' \in {"loop", "dead", "closed"},
         Within(db, db'), cur' = {} => Fresh(db'), cutIn4' = cutIn4
  PROVE  Opening'
<1>1. Ready(db) /\ db.copy = {} /\ ~cutIn4 BY DEF IInv, Opening
<1>2. Ready(db') BY <1>1, StillReady
<1>3. db'.copy = {} BY <1>1 DEF Within
<1> QED BY <1>1, <1>2, <1>3 DEF Opening

\* A step that writes nothing, and leaves a call in hand or none.
LEMMA StaysOpen ==
  ASSUME IInv, phase \in {"loop", "dead", "closed"}, phase' \in {"loop", "dead", "closed"},
         db' = db, cur' = {} => cur = {} \/ Fresh(db), cutIn4' = cutIn4
  PROVE  Opening' /\ db' \in Database
<1>1. db \in Database BY DEF IInv, TypeOK
<1>2. Within(db, db') BY <1>1 DEF Within
<1>3. cur = {} => Fresh(db) BY DEF IInv, Opening
<1>4. cur' = {} => Fresh(db') BY <1>3
<1> QED BY <1>1, <1>2, <1>4, StillOpen

\* The type invariant, for a step of a running process.
LEMMA Types ==
  ASSUME db' \in Database,
         phase' \in {"down", "migrate", "failed", "rebuild", "prune", "loop", "dead", "closed"},
         queue' \in Seq(Called), retention' \in Nat, reply' \in Seq(Answers),
         closing' \in BOOLEAN, cutIn4' \in BOOLEAN, faults' \in Nat,
         cur' = {} \/ \E c \in Commands : cur' = {c}
  PROVE  TypeOK'
<1>1. CASE cur' = {} BY <1>1 DEF TypeOK, Called
<1>2. CASE cur' # {}
  <2>1. PICK c \in Commands : cur' = {c} BY <1>2
  <2>2. Command' = c BY <2>1, Chosen DEF Command
  <2>3. cur' \in SUBSET Commands /\ cur' = {Command'} BY <2>1, <2>2
  <2> QED BY <2>3 DEF TypeOK, Called, Commands
<1> QED BY <1>1, <1>2

\* The call in progress, for the steps that work on it.
LEMMA InProgress ==
  ASSUME IInv, NEW stage, InStage(stage)
  PROVE  /\ phase = "loop" /\ cur = {Command} /\ Command \in Commands /\ Command.stage = stage
         /\ Addressed(Command) /\ db \in Database /\ db.copy = {}
         /\ Command.op \in Op /\ Command.before \in SUBSET Row
         /\ stage = "start" => db.events = Command.before
         /\ stage = "expire" =>
              /\ Command.op.op = "ingest"
              /\ db.events = Atomic!Inserted(Command.before, Command.op)
              /\ Command.answer = [is |-> "ingested", pruned |-> {},
                                   inserted |-> Command.op.rows \ Command.before]
         /\ stage \in {"rescore", "reply"} =>
              /\ Command.op.op # "retention"
              /\ db.events = Atomic!Done(Command.before, retention, Command.op)
              /\ Command.answer = Atomic!Answer(Command.before, retention, Command.op)
         /\ stage = "rescore" => Command.op.op = "ingest"
         /\ stage \in {"expire", "rescore"} => db.torn \/ db.derived = Command.before
         /\ stage \in {"start", "reply"} => Fresh(db)
<1>1. PICK c \in cur : c.stage = stage BY DEF InStage
<1>2. phase = "loop" BY DEF InStage
<1>3. cur = {Command} /\ Command = c BY <1>1 DEF IInv, TypeOK
<1>4. Command \in Commands /\ db \in Database BY <1>3 DEF IInv, TypeOK, Commands
<1>5. db.copy = {} BY <1>2 DEF IInv, Opening
<1>6. Addressed(Command) BY <1>3 DEF IInv, Channels
<1>7. Command.op \in Op /\ Command.before \in SUBSET Row BY <1>4 DEF Commands
<1>8. /\ stage = "start" => db.events = Command.before
      /\ stage = "expire" =>
           /\ Command.op.op = "ingest"
           /\ db.events = Atomic!Inserted(Command.before, Command.op)
           /\ Command.answer = [is |-> "ingested", pruned |-> {},
                                inserted |-> Command.op.rows \ Command.before]
      /\ stage \in {"rescore", "reply"} =>
           /\ Command.op.op # "retention"
           /\ db.events = Atomic!Done(Command.before, retention, Command.op)
           /\ Command.answer = Atomic!Answer(Command.before, retention, Command.op)
      /\ stage = "rescore" => Command.op.op = "ingest"
      /\ stage \in {"expire", "rescore"} => db.torn \/ db.derived = Command.before
      /\ stage \in {"start", "reply"} => Fresh(db)
  BY <1>1, <1>3 DEF IInv, UnderWay
<1> QED BY <1>1, <1>2, <1>3, <1>4, <1>5, <1>6, <1>7, <1>8

\* A step of the call in progress, short of its reply.
LEMMA WorkStep ==
  ASSUME IInv, NEW stage, InStage(stage), NEW s \in Stages, NEW a \in Answers, To(s, a),
         Within(db, db'),
         UNCHANGED <<phase, mig, queue, retention, reply, closing, cutIn4, faults>>
  PROVE  /\ TypeOK' /\ Opening' /\ Control' /\ Channels'
         /\ \A c \in cur' : c.stage = s /\ c.answer = a /\ c.op = Command.op
                            /\ c.before = Command.before /\ c.id = Command.id
         /\ cur' # {}
<1>1. /\ phase = "loop" /\ cur = {Command} /\ Command \in Commands /\ Addressed(Command)
  BY InProgress
<1>2. PICK c : c = [Command EXCEPT !.stage = s, !.answer = a] OBVIOUS
<1>3. /\ c \in Commands /\ c.id = Command.id /\ c.op = Command.op /\ c.before = Command.before
      /\ c.stage = s /\ c.answer = a
  BY <1>1, <1>2 DEF Commands
<1>4. cur' = {c} BY <1>2 DEF To
<1>5. Opening' /\ db' \in Database BY <1>1, <1>4, StillOpen DEF Within
<1>6. TypeOK'
  <2>1. queue \in Seq(Called) BY DEF IInv, TypeOK, Called
  <2>2. /\ phase' = "loop" /\ queue' = queue /\ retention' = retention /\ reply' = reply
        /\ closing' = closing /\ cutIn4' = cutIn4 /\ faults' = faults
    BY <1>1
  <2>3. /\ retention' \in Nat /\ reply' \in Seq(Answers) /\ closing' \in BOOLEAN
        /\ cutIn4' \in BOOLEAN /\ faults' \in Nat
    BY <2>2 DEF IInv, TypeOK
  <2> QED BY <1>3, <1>4, <1>5, <2>1, <2>2, <2>3, Types
<1>7. Control' BY <1>1 DEF IInv, Control
<1>8. Channels'
  <2>1. Addressed(c)' BY <1>1, <1>3 DEF Addressed
  <2>2. \A i \in 1 .. Len(queue) : queue[i].op # Shutdown => Addressed(queue[i])
    BY DEF IInv, Channels
  <2>3. \A i \in 1 .. Len(queue') : queue'[i].op # Shutdown => Addressed(queue[i])'
    BY <2>2 DEF Addressed
  <2>4. /\ \A i, j \in 1 .. Len(queue') : queue'[i].id = queue'[j].id => i = j
        /\ \A i \in 1 .. Len(queue') : queue'[i].id # c.id
    BY <1>1, <1>3 DEF IInv, Channels
  <2> QED BY <1>4, <2>1, <2>3, <2>4 DEF Channels
<1> QED BY <1>3, <1>4, <1>5, <1>6, <1>7, <1>8

\* Inserting preserves the invariant,
LEMMA InsertStep == IInv /\ Insert => IInv'
<1> SUFFICES ASSUME IInv, Insert PROVE IInv' OBVIOUS
<1> DEFINE o == Command.op
           a == [is |-> "ingested", inserted |-> o.rows \ db.events, pruned |-> {}]
<1>1. InStage("start") /\ o.op = "ingest" /\ To("expire", a)
      /\ db' = [db EXCEPT !.events = db.events \cup o.rows]
      /\ UNCHANGED <<phase, mig, queue, retention, reply, closing, cutIn4, faults>>
  BY DEF Insert
<1>2. /\ db \in Database /\ o \in Op /\ db.events = Command.before
      /\ db.torn \/ db.derived = Command.before
  BY <1>1, InProgress DEF Fresh
<1>3. o.rows \in SUBSET Row /\ db.events \in SUBSET Row BY <1>1, <1>2, Operations DEF Database
<1>4. a \in Answers BY <1>3, Answering
<1> HIDE DEF a, o
<1>a. Within(db, db') /\ db'.events = db.events \cup o.rows /\ db'.derived = db.derived
      /\ db'.torn = db.torn
  BY <1>1, <1>2, <1>3 DEF Within, Database
<1>5. /\ TypeOK' /\ Opening' /\ Control' /\ Channels'
      /\ \A c \in cur' : c.stage = "expire" /\ c.answer = a /\ c.op = o
                         /\ c.before = Command.before
  <2>1. "expire" \in Stages BY DEF Stages
  <2> QED BY <1>1, <1>4, <1>a, <2>1, WorkStep DEF o
<1>7. UnderWay'
  <2>1. db'.events = Atomic!Inserted(Command.before, o) BY <1>1, <1>2, <1>a DEF Atomic!Inserted
  <2>2. a = [is |-> "ingested", inserted |-> o.rows \ Command.before, pruned |-> {}]
    BY <1>2 DEF a
  <2> QED BY <1>1, <1>2, <1>5, <1>a, <2>1, <2>2 DEF UnderWay
<1> QED BY <1>5, <1>7 DEF IInv

\* and pruning,
LEMMA PruneStep == IInv /\ Prune => IInv'
<1> SUFFICES ASSUME IInv, Prune PROVE IInv' OBVIOUS
<1> DEFINE o == Command.op
           gone == Atomic!Expired(db.events, retention)
           a == [Command.answer EXCEPT !.pruned = gone]
<1>1. InStage("expire") /\ To("rescore", a) /\ db' = [db EXCEPT !.events = db.events \ gone]
      /\ UNCHANGED <<phase, mig, queue, retention, reply, closing, cutIn4, faults>>
  BY DEF Prune
<1>2. /\ db \in Database /\ o \in Op /\ o.op = "ingest" /\ Command.before \in SUBSET Row
      /\ db.events = Atomic!Inserted(Command.before, o)
      /\ Command.answer = [is |-> "ingested", pruned |-> {}, inserted |-> o.rows \ Command.before]
      /\ db.torn \/ db.derived = Command.before
  BY <1>1, InProgress
<1>3. o.rows \in SUBSET Row /\ db.events \in SUBSET Row BY <1>2, Operations DEF Database
<1>4. gone \in SUBSET Row BY <1>3 DEF Atomic!Expired
<1>5. a = [is |-> "ingested", inserted |-> o.rows \ Command.before, pruned |-> gone]
  BY <1>2
<1>6. a \in Answers BY <1>2, <1>3, <1>4, <1>5, Answering
<1>7. a = Atomic!Answer(Command.before, retention, o) BY <1>2, <1>5 DEF Atomic!Answer
<1> HIDE DEF a, gone
<1>9. Within(db, db') /\ db'.events = db.events \ gone /\ db'.derived = db.derived
      /\ db'.torn = db.torn
  BY <1>1, <1>2, <1>3 DEF Within, Database
<1>8. /\ TypeOK' /\ Opening' /\ Control' /\ Channels'
      /\ \A c \in cur' : c.stage = "rescore" /\ c.answer = a /\ c.op = o
                         /\ c.before = Command.before
  <2>1. "rescore" \in Stages BY DEF Stages
  <2>3. /\ TypeOK' /\ Opening' /\ Control' /\ Channels'
        /\ \A c \in cur' : c.stage = "rescore" /\ c.answer = a /\ c.op = Command.op
                           /\ c.before = Command.before /\ c.id = Command.id
    BY <1>1, <1>6, <1>9, <2>1, WorkStep
  <2> QED BY <2>3
<1>10. db'.events = Atomic!Done(Command.before, retention, o)
  BY <1>2, <1>9 DEF Atomic!Done, gone
<1>11. UnderWay'
  <2>1. retention' = retention BY <1>1
  <2> QED BY <1>2, <1>7, <1>8, <1>9, <1>10, <2>1 DEF UnderWay
<1> QED BY <1>8, <1>11 DEF IInv

\* What the rescore leaves (do_ingest): every part of it that a row changed.
LEMMA Rescored ==
  ASSUME IInv, Rescore
  PROVE  Within(db, db') /\ db'.events = db.events /\ Fresh(db')
<1> DEFINE o == Command.op
           new == o.rows \ Command.before
           gone == Atomic!Expired(Atomic!Inserted(Command.before, o), retention)
           Since(S) == {r \in S : \E n \in new : n <= r}
<1>1. /\ InStage("rescore")
      /\ db' = CASE Command.answer.pruned # {} -> RescoreAll(db)
                 [] Command.answer.pruned = {} /\ Command.answer.inserted # {} ->
                      RescoreSince(db, Command.answer.inserted)
                 [] OTHER -> db
  BY DEF Rescore
<1>2. /\ db \in Database /\ o \in Op /\ o.op = "ingest" /\ Command.before \in SUBSET Row
      /\ db.events = Atomic!Done(Command.before, retention, o)
      /\ Command.answer = Atomic!Answer(Command.before, retention, o)
      /\ db.torn \/ db.derived = Command.before
  BY <1>1, InProgress
<1>3. Command.answer.inserted = new /\ Command.answer.pruned = gone
  <2>1. Command.answer = [is |-> "ingested", inserted |-> new, pruned |-> gone]
    BY <1>2, IngestAnswer
  <2> HIDE DEF new, gone
  <2> QED BY <2>1
<1>4. db.events \in SUBSET Row /\ db.derived \in SUBSET Row /\ o.rows \in SUBSET Row
      /\ db.torn \in BOOLEAN
  BY <1>2, Operations DEF Database
<1>5. db.events = (Command.before \cup o.rows) \ gone
  BY <1>2 DEF Atomic!Done, Atomic!Inserted
<1>6. CASE gone # {}
  <2>1. db' = [db EXCEPT !.derived = db.events, !.torn = FALSE]
    BY <1>1, <1>3, <1>6 DEF RescoreAll
  <2> QED BY <1>2, <1>4, <2>1 DEF Within, Database, Fresh
<1>7. CASE gone = {} /\ new # {}
  <2>1. db' = RescoreSince(db, new) BY <1>1, <1>3, <1>7
  <2>2. PICK D : D = (db.derived \ Since(db.derived)) \cup Since(db.events) OBVIOUS
  <2>3. db' = [db EXCEPT !.derived = D] BY <2>1, <2>2 DEF RescoreSince
  <2>4. D \in SUBSET Row BY <1>4, <2>2
  <2>5. Within(db, db') /\ db'.events = db.events /\ db'.derived = D /\ db'.torn = db.torn
    BY <1>2, <2>3, <2>4 DEF Within, Database
  <2>6. ASSUME ~db.torn PROVE D = db.events
    <3>1. db.derived = Command.before BY <1>2, <2>6
    <3>2. db.events = Command.before \cup new BY <1>5, <1>7
    <3>3. ASSUME NEW x \in new PROVE x \in Since(db.events)
      <4>1. x \in Nat BY <1>4, RowAssumption
      <4>2. x <= x BY <4>1
      <4> QED BY <3>2, <4>2
    <3> HIDE DEF new
    <3> QED BY <2>2, <3>1, <3>2, <3>3
  <2> QED BY <2>5, <2>6 DEF Fresh
<1>8. CASE gone = {} /\ new = {}
  <2>1. db' = db BY <1>1, <1>3, <1>8
  <2>2. db.events = Command.before BY <1>5, <1>8
  <2> QED BY <1>2, <2>1, <2>2 DEF Within, Fresh
<1> QED BY <1>6, <1>7, <1>8

\* and rescoring,
LEMMA RescoreStep == IInv /\ Rescore => IInv'
<1> SUFFICES ASSUME IInv, Rescore PROVE IInv' OBVIOUS
<1>1. InStage("rescore") /\ To("reply", Command.answer)
      /\ UNCHANGED <<phase, mig, queue, retention, reply, closing, cutIn4, faults>>
  BY DEF Rescore
<1>2. /\ Command \in Commands /\ Command.op.op # "retention"
      /\ db.events = Atomic!Done(Command.before, retention, Command.op)
      /\ Command.answer = Atomic!Answer(Command.before, retention, Command.op)
  BY <1>1, InProgress
<1>3. Within(db, db') /\ db'.events = db.events /\ Fresh(db') BY Rescored
<1>4. "reply" \in Stages /\ Command.answer \in Answers BY <1>2 DEF Stages, Commands
<1>5. /\ TypeOK' /\ Opening' /\ Control' /\ Channels'
      /\ \A c \in cur' : c.stage = "reply" /\ c.answer = Command.answer /\ c.op = Command.op
                         /\ c.before = Command.before
  BY <1>1, <1>3, <1>4, WorkStep
<1>6. UnderWay'
  <2>1. retention' = retention BY <1>1
  <2> QED BY <1>2, <1>3, <1>5, <2>1 DEF UnderWay
<1> QED BY <1>5, <1>6 DEF IInv

\* and purging,
LEMMA PurgeStep == IInv /\ Purge => IInv'
<1> SUFFICES ASSUME IInv, Purge PROVE IInv' OBVIOUS
<1> DEFINE o == Command.op
           purged == o.rows \cap db.events
           a == [is |-> "purged", purged |-> purged]
<1>1. InStage("start") /\ o.op = "purge" /\ To("reply", a)
      /\ db' = (IF purged = {} THEN db
                ELSE RescoreAll([db EXCEPT !.events = db.events \ purged]))
      /\ UNCHANGED <<phase, mig, queue, retention, reply, closing, cutIn4, faults>>
  BY DEF Purge
<1>2. db \in Database /\ o \in Op /\ db.events = Command.before /\ Fresh(db)
  BY <1>1, InProgress
<1>3. o.rows \in SUBSET Row /\ db.events \in SUBSET Row BY <1>1, <1>2, Operations DEF Database
<1>4. a \in Answers BY <1>3, Answering
<1>5. a = Atomic!Answer(Command.before, retention, o) BY <1>1, <1>2 DEF Atomic!Answer
<1> HIDE DEF a
<1>7. Within(db, db') /\ db'.events = db.events \ o.rows /\ Fresh(db')
  <2>1. CASE purged = {} BY <1>1, <1>2, <2>1 DEF Within
  <2>2. CASE purged # {}
    <3>1. PICK d : d = [db EXCEPT !.events = db.events \ purged] OBVIOUS
    <3>2. Within(db, d) /\ d.events = db.events \ purged
      BY <1>2, <1>3, <3>1 DEF Within, Database
    <3>3. db' = [d EXCEPT !.derived = d.events, !.torn = FALSE]
      BY <1>1, <2>2, <3>1 DEF RescoreAll
    <3>4. d \in Database /\ d.events \in SUBSET Row BY <3>2 DEF Within, Database
    <3>5. Within(d, db') /\ db'.events = d.events /\ db'.derived = d.events
      BY <3>3, <3>4 DEF Within, Database
    <3> QED BY <3>2, <3>5 DEF Within, Fresh
  <2> QED BY <2>1, <2>2
<1>6. /\ TypeOK' /\ Opening' /\ Control' /\ Channels'
      /\ \A c \in cur' : c.stage = "reply" /\ c.answer = a /\ c.op = o
                         /\ c.before = Command.before
  <2>1. "reply" \in Stages BY DEF Stages
  <2> QED BY SMTT(30), <1>1, <1>4, <1>7, <2>1, WorkStep
<1>8. db'.events = Atomic!Done(Command.before, retention, o) BY <1>1, <1>2, <1>7 DEF Atomic!Done
<1>9. UnderWay'
  <2>1. retention' = retention BY <1>1
  <2> QED BY <1>1, <1>5, <1>6, <1>7, <1>8, <2>1 DEF UnderWay
<1> QED BY <1>6, <1>9 DEF IInv

\* and a query,
LEMMA QueryStep == IInv /\ Query => IInv'
<1> SUFFICES ASSUME IInv, Query PROVE IInv' OBVIOUS
<1> DEFINE o == Command.op
           a == [is |-> "read", rows |-> db.events]
<1>1. InStage("start") /\ o.op = "read" /\ To("reply", a) /\ db' = db
      /\ UNCHANGED <<phase, mig, queue, retention, reply, closing, cutIn4, faults>>
  BY DEF Query
<1>2. db \in Database /\ o \in Op /\ db.events = Command.before /\ Fresh(db)
  BY <1>1, InProgress
<1>3. db.events \in SUBSET Row BY <1>2 DEF Database
<1>4. a \in Answers BY <1>3, Answering
<1>5. a = Atomic!Answer(Command.before, retention, o) BY <1>1, <1>2 DEF Atomic!Answer
<1> HIDE DEF a
<1>6. /\ TypeOK' /\ Opening' /\ Control' /\ Channels'
      /\ \A c \in cur' : c.stage = "reply" /\ c.answer = a /\ c.op = o
                         /\ c.before = Command.before
  <2>1. "reply" \in Stages BY DEF Stages
  <2>2. Within(db, db') BY <1>1, <1>2 DEF Within
  <2> QED BY <1>1, <1>4, <2>1, <2>2, WorkStep
<1>7. db'.events = Atomic!Done(Command.before, retention, o) BY <1>1, <1>2 DEF Atomic!Done
<1>8. UnderWay'
  <2>1. retention' = retention BY <1>1
  <2>2. Fresh(db') BY <1>1, <1>2
  <2> QED BY <1>1, <1>5, <1>6, <1>7, <2>1, <2>2 DEF UnderWay
<1> QED BY <1>6, <1>8 DEF IInv

\* The call that is done leaves its reply channel alone.
LEMMA SetRetentionStep == IInv /\ SetRetention => IInv'
<1> SUFFICES ASSUME IInv, SetRetention PROVE IInv' OBVIOUS
<1>1. /\ InStage("start") /\ Command.op.op = "retention" /\ retention' = Command.op.days
      /\ cur' = {} /\ db' = db
      /\ UNCHANGED <<phase, mig, queue, reply, closing, cutIn4, faults>>
  BY DEF SetRetention
<1>2. phase = "loop" /\ Command.op \in Op /\ Fresh(db) BY <1>1, InProgress
<1>3. retention' \in Nat BY <1>1, <1>2, Operations
<1>4. Opening' /\ db' \in Database BY <1>1, <1>2, StaysOpen
<1>5. TypeOK'
  <2>1. queue' \in Seq(Called) BY <1>1 DEF IInv, TypeOK, Called
  <2>2. /\ phase' = "loop" /\ reply' \in Seq(Answers) /\ closing' \in BOOLEAN
        /\ cutIn4' \in BOOLEAN /\ faults' \in Nat
    BY <1>1, <1>2 DEF IInv, TypeOK
  <2> QED BY <1>1, <1>3, <1>4, <2>1, <2>2, Types
<1>6. Control' BY <1>1, <1>2 DEF IInv, Control
<1>7. Channels' BY <1>1 DEF IInv, Channels, Addressed
<1>8. UnderWay' BY <1>1 DEF UnderWay
<1> QED BY <1>4, <1>5, <1>6, <1>7, <1>8 DEF IInv

\* and the reply.
LEMMA ReplyStep == IInv /\ Reply => IInv'
<1> SUFFICES ASSUME IInv, Reply PROVE IInv' OBVIOUS
<1>1. /\ InStage("reply") /\ reply' = [reply EXCEPT ![Command.id] = Command.answer]
      /\ cur' = {} /\ db' = db
      /\ UNCHANGED <<phase, mig, queue, retention, closing, cutIn4, faults>>
  BY DEF Reply
<1>2. /\ phase = "loop" /\ cur = {Command} /\ Command \in Commands /\ Addressed(Command)
      /\ Fresh(db)
  BY <1>1, InProgress
<1>3. Command.id \in 1 .. Len(reply) /\ Command.answer \in Answers
  BY <1>2 DEF Addressed, Commands
<1>4. /\ reply' \in Seq(Answers) /\ Len(reply') = Len(reply)
      /\ \A j \in 1 .. Len(reply) : reply'[j] = IF j = Command.id THEN Command.answer
                                                             ELSE reply[j]
  <2>1. reply \in Seq(Answers) BY DEF IInv, TypeOK
  <2> QED BY <1>1, <1>3, <2>1, ExceptSeq
<1>5. Opening' /\ db' \in Database BY <1>1, <1>2, StaysOpen
<1>6. TypeOK'
  <2>1. queue' \in Seq(Called) BY <1>1 DEF IInv, TypeOK, Called
  <2>2. /\ phase' = "loop" /\ retention' \in Nat /\ closing' \in BOOLEAN
        /\ cutIn4' \in BOOLEAN /\ faults' \in Nat
    BY <1>1, <1>2 DEF IInv, TypeOK
  <2> QED BY <1>1, <1>4, <1>5, <2>1, <2>2, Types
<1>7. Control' BY <1>1, <1>2 DEF IInv, Control
<1>8. Channels'
  <2>1. /\ \A i \in 1 .. Len(queue) : queue[i].op # Shutdown => Addressed(queue[i])
        /\ \A i, j \in 1 .. Len(queue) : queue[i].id = queue[j].id => i = j
        /\ \A i \in 1 .. Len(queue) : queue[i].id # Command.id
    BY <1>2 DEF IInv, Channels
  <2>2. ASSUME NEW i \in 1 .. Len(queue), queue[i].op # Shutdown PROVE Addressed(queue[i])'
    <3>1. Addressed(queue[i]) /\ queue[i].id # Command.id BY <2>1, <2>2
    <3> QED BY <1>1, <1>4, <3>1 DEF Addressed
  <2>3. queue' = queue BY <1>1
  <2> QED BY <1>1, <2>1, <2>2, <2>3 DEF Channels
<1>9. UnderWay' BY <1>1 DEF UnderWay
<1> QED BY <1>5, <1>6, <1>7, <1>8, <1>9 DEF IInv

\* The channel while the thread serves.
LEMMA Queued ==
  ASSUME IInv, phase = "loop"
  PROVE  /\ queue \in Seq(Called) /\ Len(queue) \in Nat
         /\ \A i \in 1 .. Len(queue) : queue[i] \in Called
         /\ \A i \in 1 .. Len(queue) : queue[i].op = Shutdown <=> closing /\ i = Len(queue)
         /\ \A i \in 1 .. Len(queue) : queue[i].op # Shutdown => queue[i].op \in Op
         /\ \A i \in 1 .. Len(queue) : queue[i].op.op = "shutdown" <=> queue[i].op = Shutdown
<1>1. queue \in Seq(Called) BY DEF IInv, TypeOK, Called
<1>2. Len(queue) \in Nat /\ \A i \in 1 .. Len(queue) : queue[i] \in Called
  BY <1>1, LenProperties, ElementOfSeq
<1>3. \A i \in 1 .. Len(queue) : queue[i].op = Shutdown <=> closing /\ i = Len(queue)
  BY DEF IInv, Control
<1>4. \A i \in 1 .. Len(queue) : queue[i].op # Shutdown => queue[i].op \in Op BY <1>2 DEF Called
<1>5. ASSUME NEW i \in 1 .. Len(queue)
      PROVE  queue[i].op.op = "shutdown" <=> queue[i].op = Shutdown
  <2>1. CASE queue[i].op = Shutdown BY <2>1 DEF Shutdown
  <2>2. CASE queue[i].op # Shutdown BY <1>4, <2>2, Operations
  <2> QED BY <2>1, <2>2
<1> QED BY <1>1, <1>2, <1>3, <1>4, <1>5

\* Receiving preserves the invariant.
LEMMA ReceiveStep == IInv /\ Receive => IInv'
<1> SUFFICES ASSUME IInv, Receive PROVE IInv' OBVIOUS
<1>0. PICK c : c = Head(queue) OBVIOUS
<1>a. PICK next : next = [id |-> c.id, op |-> c.op, stage |-> "start", before |-> db.events,
                          answer |-> Atomic!None]
  OBVIOUS
<1>1. /\ phase = "loop" /\ cur = {} /\ queue # <<>> /\ queue' = Tail(queue) /\ db' = db
      /\ UNCHANGED <<mig, retention, reply, closing, cutIn4, faults>>
      /\ \/ c.op.op = "shutdown" /\ phase' = "closed" /\ cur' = cur
         \/ c.op.op # "shutdown" /\ phase' = phase /\ cur' = {next}
  BY <1>0, <1>a DEF Receive
<1>2. /\ c = queue[1] /\ 1 \in 1 .. Len(queue) /\ Tail(queue) \in Seq(Called)
      /\ Len(Tail(queue)) = Len(queue) - 1
      /\ \A i \in 1 .. Len(Tail(queue)) : Tail(queue)[i] = queue[i + 1]
  <2>1. queue \in Seq(Called) BY <1>1, Queued
  <2>2. Len(queue) \in Nat \ {0} BY <1>1, <2>1, EmptySeq
  <2>3. Head(queue) = queue[1] OBVIOUS
  <2> QED BY <1>0, <1>1, <2>1, <2>2, <2>3, HeadTailProperties
<1>3. c \in Called BY <1>1, <1>2, Queued
<1>4. Opening' /\ db' \in Database /\ Fresh(db) BY <1>1, StaysOpen DEF IInv, Opening
<1>5. \A i \in 1 .. Len(queue') : i + 1 \in 1 .. Len(queue) /\ queue'[i] = queue[i + 1]
  <2>1. Len(queue) \in Nat /\ Len(queue') = Len(queue) - 1 BY <1>1, <1>2, Queued
  <2> QED BY <1>1, <1>2, <2>1
<1>6. /\ queue' \in Seq(Called) /\ retention' \in Nat /\ reply' \in Seq(Answers)
      /\ closing' \in BOOLEAN /\ cutIn4' \in BOOLEAN /\ faults' \in Nat
  BY <1>1, <1>2 DEF IInv, TypeOK
<1>7. CASE c.op.op = "shutdown"
  <2>1. phase' = "closed" /\ cur' = {} BY <1>1, <1>7
  <2>2. closing /\ Len(queue) = 1 BY <1>1, <1>2, <1>7, Queued
  <2>3. queue' = <<>> BY <1>1, <1>2, <1>6, <2>2, EmptySeq
  <2>4. TypeOK' BY <1>4, <1>6, <2>1, Types
  <2>5. Control' BY <2>1, <2>3 DEF Control
  <2>6. Channels' BY <2>1, <2>3 DEF Channels
  <2>7. UnderWay' BY <2>1 DEF UnderWay
  <2> QED BY <1>4, <2>4, <2>5, <2>6, <2>7 DEF IInv
<1>8. CASE c.op.op # "shutdown"
  <2>1. phase' = "loop" /\ cur' = {next} BY <1>1, <1>8
  <2>2. c.op # Shutdown /\ c.op \in Op BY <1>1, <1>2, <1>8, Queued
  <2>3. next \in Commands /\ next.id = c.id /\ next.op = c.op
    <3>1. db.events \in SUBSET Row BY DEF IInv, TypeOK, Database
    <3>2. "start" \in Stages BY DEF Stages
    <3>3. c.id \in Nat BY <1>3 DEF Called
    <3>4. Atomic!None \in Answers BY Answering
    <3> QED BY <1>a, <2>2, <3>1, <3>2, <3>3, <3>4 DEF Commands
  <2>4. TypeOK' BY <1>4, <1>6, <2>1, <2>3, Types
  <2>5. Control'
    <3>1. closing => Len(queue) # 1 BY <1>1, <1>2, <2>2, Queued
    <3>2. closing' => queue' # <<>>
      <4>0. Len(queue) \in Nat /\ Len(queue') = Len(queue) - 1 BY <1>1, <1>2, Queued
      <4>1. closing => Len(queue') # 0 BY <3>1, <4>0
      <4> QED BY <1>1, <4>1
    <3>3. ASSUME NEW i \in 1 .. Len(queue')
          PROVE  queue'[i].op = Shutdown <=> closing' /\ i = Len(queue')
      <4>1. queue[i + 1].op = Shutdown <=> closing /\ i + 1 = Len(queue)
        BY <1>1, <1>5, Queued
      <4>0. Len(queue) \in Nat /\ Len(queue') = Len(queue) - 1 BY <1>1, <1>2, Queued
      <4>2. i + 1 = Len(queue) <=> i = Len(queue') BY <4>0
      <4> QED BY <1>1, <1>5, <4>1, <4>2
    <3> QED BY <2>1, <3>2, <3>3 DEF Control
  <2>6. Channels'
    <3>1. /\ \A i \in 1 .. Len(queue) : queue[i].op # Shutdown => Addressed(queue[i])
          /\ \A i, j \in 1 .. Len(queue) : queue[i].id = queue[j].id => i = j
      BY DEF IInv, Channels
    <3>2. Addressed(next)'
      <4>1. Addressed(c) BY <1>2, <2>2, <3>1
      <4> QED BY <1>1, <2>3, <4>1 DEF Addressed
    <3>3. ASSUME NEW i \in 1 .. Len(queue'), queue'[i].op # Shutdown PROVE Addressed(queue[i])'
      <4>1. Addressed(queue[i + 1]) BY <1>5, <3>1, <3>3
      <4> QED BY <1>1, <1>5, <4>1 DEF Addressed
    <3>4. ASSUME NEW i \in 1 .. Len(queue'), NEW j \in 1 .. Len(queue'),
                 queue'[i].id = queue'[j].id
          PROVE  i = j
      <4>1. i + 1 = j + 1 BY <1>5, <3>1, <3>4
      <4>2. i \in Int /\ j \in Int OBVIOUS
      <4> QED BY <4>1, <4>2
    <3>5. ASSUME NEW i \in 1 .. Len(queue') PROVE queue'[i].id # c.id
      <4>1. i + 1 # 1 BY <1>5
      <4> QED BY <1>2, <1>5, <3>1, <4>1
    <3>6. \A i \in 1 .. Len(queue') : queue'[i].id # next.id BY <2>3, <3>5
    <3> QED BY <2>1, <3>2, <3>3, <3>4, <3>6 DEF Channels
  <2>7. UnderWay'
    <3>1. next.stage = "start" /\ next.before = db.events BY <1>a
    <3>2. Fresh(db') BY <1>1, <1>4
    <3> QED BY <1>1, <2>1, <3>1, <3>2 DEF UnderWay
  <2> QED BY <1>4, <2>4, <2>5, <2>6, <2>7 DEF IInv
<1> QED BY <1>7, <1>8

\* The owner's side.
LEMMA SendStep == ASSUME IInv, NEW op \in Op, Send(op) PROVE IInv'
<1>0. PICK call : call = [id |-> Len(reply) + 1, op |-> op] OBVIOUS
<1>1. /\ phase \in {"loop", "dead"} /\ ~closing /\ phase' = phase /\ db' = db
      /\ UNCHANGED <<mig, cur, retention, closing, cutIn4, faults>>
  BY DEF Send
<1>2. PICK answer \in Answers :
        /\ reply' = Append(reply, answer)
        /\ phase = "loop" => queue' = Append(queue, call) /\ answer = Atomic!Fresh(op)
        /\ phase = "dead" => queue' = queue
  <2>1. CASE phase = "loop"
    <3>1. Atomic!Fresh(op) \in Answers BY Answering DEF Atomic!Fresh
    <3> QED BY <1>0, <2>1, <3>1 DEF Send
  <2>2. CASE phase = "dead" BY <2>2, Answering DEF Send
  <2> QED BY <1>1, <2>1, <2>2
<1>3. reply \in Seq(Answers) /\ Len(reply) \in Nat BY LenProperties DEF IInv, TypeOK
<1>4. /\ reply' \in Seq(Answers) /\ Len(reply') = Len(reply) + 1
      /\ reply'[Len(reply) + 1] = answer
      /\ \A i \in 1 .. Len(reply) : reply'[i] = reply[i]
  BY <1>2, <1>3, AppendProperties
<1>5. ASSUME NEW c, Addressed(c) PROVE Addressed(c)'
  <2>1. c.id \in 1 .. Len(reply) /\ c.id \in 1 .. Len(reply') BY <1>3, <1>4, <1>5 DEF Addressed
  <2> QED BY <1>4, <1>5, <2>1 DEF Addressed
<1>6. Opening' /\ db' \in Database BY <1>1, StaysOpen
<1>7. queue \in Seq(Called) /\ call \in Called /\ call.id = Len(reply) + 1 /\ call.op = op
  BY <1>0, <1>3 DEF IInv, TypeOK, Called
<1>8. CASE phase = "dead"
  <2>1. queue' = <<>> /\ cur' = {} BY <1>1, <1>2, <1>8 DEF IInv, Control
  <2>2. TypeOK'
    <3>1. queue' \in Seq(Called) BY <2>1
    <3>2. /\ phase' = "dead" /\ retention' \in Nat /\ closing' \in BOOLEAN
          /\ cutIn4' \in BOOLEAN /\ faults' \in Nat
      BY <1>1, <1>8 DEF IInv, TypeOK
    <3> QED BY <1>4, <1>6, <2>1, <3>1, <3>2, Types
  <2>3. Control' BY <1>1, <1>8, <2>1 DEF Control
  <2>4. Channels' BY <2>1 DEF Channels
  <2>5. UnderWay' BY <2>1 DEF UnderWay
  <2> QED BY <1>6, <2>2, <2>3, <2>4, <2>5 DEF IInv
<1>9. CASE phase = "loop"
  <2>1. /\ queue' \in Seq(Called) /\ Len(queue') = Len(queue) + 1 /\ queue'[Len(queue) + 1] = call
        /\ \A i \in 1 .. Len(queue) : queue'[i] = queue[i]
    BY <1>2, <1>7, <1>9, AppendProperties
  <2>2. Len(queue) \in Nat /\ Len(queue') \in Nat BY <1>9, <2>1, Queued
  <2>3. \A i \in 1 .. Len(queue') : i \in 1 .. Len(queue) \/ i = Len(queue) + 1 BY <2>1, <2>2
  <2>4. TypeOK'
    <3>1. /\ phase' = "loop" /\ retention' \in Nat /\ closing' \in BOOLEAN
          /\ cutIn4' \in BOOLEAN /\ faults' \in Nat
      BY <1>1, <1>9 DEF IInv, TypeOK
    <3>2. cur' = {} \/ \E c \in Commands : cur' = {c}
      <4>1. cur \in SUBSET Commands /\ (cur # {} => cur = {Command}) BY DEF IInv, TypeOK, Commands
      <4>2. cur' = cur BY <1>1
      <4> QED BY <4>1, <4>2
    <3> QED BY <1>4, <1>6, <2>1, <3>1, <3>2, Types
  <2>5. Control'
    <3>1. closing' = FALSE BY <1>1 DEF IInv, TypeOK
    <3>2. ASSUME NEW i \in 1 .. Len(queue') PROVE queue'[i].op # Shutdown
      <4>1. CASE i \in 1 .. Len(queue) BY <1>1, <1>9, <2>1, <4>1, Queued
      <4>2. CASE i = Len(queue) + 1 BY <1>7, <2>1, <4>2, Operations
      <4> QED BY <2>3, <4>1, <4>2
    <3> QED BY <1>1, <1>9, <3>1, <3>2 DEF Control
  <2>6. Channels'
    <3>1. Addressed(call)'
      <4>1. op.op = "retention" => answer = Atomic!Unasked BY <1>2, <1>9 DEF Atomic!Fresh
      <4>2. call.id \in 1 .. Len(reply') BY <1>3, <1>4, <1>7
      <4> QED BY <1>4, <1>7, <4>1, <4>2 DEF Addressed
    <3>2. /\ \A i \in 1 .. Len(queue) : Addressed(queue[i])
          /\ \A i, j \in 1 .. Len(queue) : queue[i].id = queue[j].id => i = j
          /\ \A c \in cur : Addressed(c) /\ \A i \in 1 .. Len(queue) : queue[i].id # c.id
      BY <1>1, <1>9, Queued DEF IInv, Channels
    <3>3. ASSUME NEW i \in 1 .. Len(queue') PROVE Addressed(queue[i])'
      <4>1. CASE i \in 1 .. Len(queue)
        <5>1. Addressed(queue[i]) BY <3>2, <4>1
        <5>2. queue'[i] = queue[i] BY <2>1, <4>1
        <5>3. PICK c : c = queue[i] OBVIOUS
        <5>4. Addressed(c)' BY <1>5, <5>1, <5>3
        <5> QED BY <5>2, <5>3, <5>4 DEF Addressed
      <4>2. CASE i = Len(queue) + 1 BY <2>1, <3>1, <4>2 DEF Addressed
      <4> QED BY <2>3, <4>1, <4>2
    <3>4. \A i \in 1 .. Len(queue) : queue'[i].id # call.id
      BY <1>3, <1>7, <2>1, <3>2 DEF Addressed
    <3>5. ASSUME NEW i \in 1 .. Len(queue'), NEW j \in 1 .. Len(queue'),
                 queue'[i].id = queue'[j].id
          PROVE  i = j
      <4>1. CASE i \in 1 .. Len(queue) /\ j \in 1 .. Len(queue) BY <2>1, <3>2, <3>5, <4>1
      <4>2. CASE i = Len(queue) + 1 /\ j \in 1 .. Len(queue) BY <2>1, <3>4, <3>5, <4>2
      <4>3. CASE j = Len(queue) + 1 /\ i \in 1 .. Len(queue) BY <2>1, <3>4, <3>5, <4>3
      <4>4. CASE i = Len(queue) + 1 /\ j = Len(queue) + 1 BY <4>4
      <4> QED BY <2>3, <4>1, <4>2, <4>3, <4>4
    <3>6. ASSUME NEW c \in cur, NEW i \in 1 .. Len(queue')
          PROVE  Addressed(c)' /\ queue'[i].id # c.id
      <4>1. Addressed(c) /\ Addressed(c)' BY <1>5, <3>2
      <4>2. CASE i \in 1 .. Len(queue) BY <2>1, <3>2, <4>1, <4>2
      <4>3. CASE i = Len(queue) + 1
        <5>1. c.id \in 1 .. Len(reply) BY <4>1 DEF Addressed
        <5> QED BY <1>3, <1>7, <2>1, <4>1, <4>3, <5>1
      <4> QED BY <2>3, <4>2, <4>3
    <3>7. \A c \in cur : Addressed(c)' BY <1>5, <3>2
    <3>8. cur' = cur BY <1>1
    <3> QED BY <3>3, <3>5, <3>6, <3>7, <3>8 DEF Channels
  <2>7. UnderWay' BY <1>1 DEF IInv, UnderWay
  <2> QED BY <1>6, <2>4, <2>5, <2>6, <2>7 DEF IInv
<1> QED BY <1>1, <1>8, <1>9

\* and dropping the handle,
LEMMA DropStep == IInv /\ Drop => IInv'
<1> SUFFICES ASSUME IInv, Drop PROVE IInv' OBVIOUS
<1>0. PICK last : last = [id |-> 0, op |-> Shutdown] OBVIOUS
<1>1. /\ phase \in {"loop", "dead"} /\ ~closing /\ closing' = TRUE /\ db' = db
      /\ UNCHANGED <<mig, cur, retention, reply, cutIn4, faults>>
      /\ phase = "loop" => phase' = "loop" /\ queue' = Append(queue, last)
      /\ phase = "dead" => phase' = "closed" /\ queue' = queue
  BY <1>0 DEF Drop, Shutdown
<1>2. last \in Called /\ last.id = 0 /\ last.op = Shutdown BY <1>0 DEF Called
<1>3. Opening' /\ db' \in Database BY <1>1, StaysOpen
<1>4. ASSUME NEW c, Addressed(c) PROVE Addressed(c)' BY <1>1, <1>4 DEF Addressed
<1>5. /\ retention' \in Nat /\ reply' \in Seq(Answers) /\ closing' \in BOOLEAN
      /\ cutIn4' \in BOOLEAN /\ faults' \in Nat /\ queue \in Seq(Called)
      /\ (cur' = {} \/ \E c \in Commands : cur' = {c})
  <2>1. cur \in SUBSET Commands /\ (cur # {} => cur = {Command}) BY DEF IInv, TypeOK, Commands
  <2>2. cur' = cur BY <1>1
  <2>3. /\ retention' \in Nat /\ reply' \in Seq(Answers) /\ closing' \in BOOLEAN
        /\ cutIn4' \in BOOLEAN /\ faults' \in Nat /\ queue \in Seq(Called)
    BY <1>1 DEF IInv, TypeOK, Called
  <2> QED BY <2>1, <2>2, <2>3
<1>6. CASE phase = "dead"
  <2>1. queue' = <<>> /\ cur' = {} /\ phase' = "closed" BY <1>1, <1>6 DEF IInv, Control
  <2>2. TypeOK'
    <3>1. queue' \in Seq(Called) BY <2>1
    <3> QED BY <1>3, <1>5, <2>1, <3>1, Types
  <2>3. Control' BY <2>1 DEF Control
  <2>4. Channels' BY <2>1 DEF Channels
  <2>5. UnderWay' BY <2>1 DEF UnderWay
  <2> QED BY <1>3, <2>2, <2>3, <2>4, <2>5 DEF IInv
<1>7. CASE phase = "loop"
  <2>1. /\ queue' \in Seq(Called) /\ Len(queue') = Len(queue) + 1 /\ queue'[Len(queue) + 1] = last
        /\ \A i \in 1 .. Len(queue) : queue'[i] = queue[i]
    <3>1. PICK u : u = queue' OBVIOUS
    <3>2. u = Append(queue, last) /\ queue \in Seq(Called) /\ last \in Called
      BY <1>1, <1>2, <1>5, <1>7, <3>1
    <3>3. /\ u \in Seq(Called) /\ Len(u) = Len(queue) + 1 /\ u[Len(queue) + 1] = last
          /\ \A i \in 1 .. Len(queue) : u[i] = queue[i]
      BY <3>2, AppendProperties
    <3> QED BY <3>1, <3>3
  <2>2. Len(queue) \in Nat /\ Len(queue') \in Nat BY <1>7, <2>1, Queued
  <2>3. \A i \in 1 .. Len(queue') : i \in 1 .. Len(queue) \/ i = Len(queue) + 1 BY <2>1, <2>2
  <2>4. TypeOK' BY <1>1, <1>3, <1>5, <1>7, <2>1, Types
  <2>5. Control'
    <3>1. closing' = TRUE /\ phase' = "loop" BY <1>1, <1>7
    <3>2. queue' # <<>> BY <2>1, <2>2
    <3>3. ASSUME NEW i \in 1 .. Len(queue') PROVE queue'[i].op = Shutdown <=> i = Len(queue')
      <4>1. CASE i \in 1 .. Len(queue)
        <5>1. queue'[i].op # Shutdown BY <1>1, <1>7, <2>1, <4>1, Queued
        <5> QED BY <2>1, <2>2, <4>1, <5>1
      <4>2. CASE i = Len(queue) + 1 BY <1>2, <2>1, <4>2
      <4> QED BY <2>3, <4>1, <4>2
    <3> QED BY <3>1, <3>2, <3>3 DEF Control
  <2>6. Channels'
    <3>2. /\ \A i \in 1 .. Len(queue) : Addressed(queue[i])
          /\ \A i, j \in 1 .. Len(queue) : queue[i].id = queue[j].id => i = j
          /\ \A c \in cur : Addressed(c) /\ \A i \in 1 .. Len(queue) : queue[i].id # c.id
      BY <1>1, <1>7, Queued DEF IInv, Channels
    <3>3. ASSUME NEW i \in 1 .. Len(queue'), queue'[i].op # Shutdown PROVE Addressed(queue[i])'
      <4>1. CASE i \in 1 .. Len(queue)
        <5>1. Addressed(queue[i]) BY <3>2, <4>1
        <5>2. queue'[i] = queue[i] BY <2>1, <4>1
        <5> QED BY <1>1, <5>1, <5>2 DEF Addressed
      <4>2. CASE i = Len(queue) + 1 BY <1>2, <2>1, <3>3, <4>2
      <4> QED BY <2>3, <4>1, <4>2
    <3>4. \A i \in 1 .. Len(queue) : queue'[i].id # last.id
      BY <1>2, <2>1, <3>2 DEF Addressed
    <3>5. ASSUME NEW i \in 1 .. Len(queue'), NEW j \in 1 .. Len(queue'),
                 queue'[i].id = queue'[j].id
          PROVE  i = j
      <4>1. CASE i \in 1 .. Len(queue) /\ j \in 1 .. Len(queue) BY <2>1, <3>2, <3>5, <4>1
      <4>2. CASE i = Len(queue) + 1 /\ j \in 1 .. Len(queue) BY <2>1, <3>4, <3>5, <4>2
      <4>3. CASE j = Len(queue) + 1 /\ i \in 1 .. Len(queue) BY <2>1, <3>4, <3>5, <4>3
      <4>4. CASE i = Len(queue) + 1 /\ j = Len(queue) + 1 BY <4>4
      <4> QED BY <2>3, <4>1, <4>2, <4>3, <4>4
    <3>6. ASSUME NEW c \in cur, NEW i \in 1 .. Len(queue') PROVE queue'[i].id # c.id
      <4>1. Addressed(c) BY <3>2
      <4>2. CASE i \in 1 .. Len(queue) BY <2>1, <3>2, <4>2
      <4>3. CASE i = Len(queue) + 1
        <5>1. c.id \in 1 .. Len(reply) BY <4>1 DEF Addressed
        <5> QED BY <1>2, <2>1, <4>3, <5>1
      <4> QED BY <2>3, <4>2, <4>3
    <3>7. \A c \in cur : Addressed(c)' BY <1>4, <3>2
    <3>8. cur' = cur BY <1>1
    <3> QED BY <3>3, <3>5, <3>6, <3>7, <3>8 DEF Channels
  <2>7. UnderWay' BY <1>1 DEF IInv, UnderWay
  <2> QED BY <1>3, <2>4, <2>5, <2>6, <2>7 DEF IInv
<1> QED BY <1>1, <1>6, <1>7

\* and the death of the thread.
LEMMA PanicStep == IInv /\ Panic => IInv'
<1> SUFFICES ASSUME IInv, Panic PROVE IInv' OBVIOUS
<1>1. /\ phase = "loop" /\ phase' \in {"dead", "closed"} /\ (phase' = "dead" => ~closing)
      /\ queue' = <<>> /\ cur' = {} /\ Tear /\ faults' = faults + 1
      /\ reply' = [i \in DOMAIN reply |->
                     IF reply[i] = Atomic!None THEN Atomic!Lost ELSE reply[i]]
      /\ UNCHANGED <<mig, retention, closing, cutIn4>>
  BY DEF Panic
<1>2. Opening' /\ db' \in Database
  <2>1. Within(db, db') /\ Fresh(db') BY <1>1, Tearing
  <2> QED BY <1>1, <2>1, StillOpen DEF Within
<1>3. reply' \in Seq(Answers)
  <2>1. reply \in Seq(Answers) BY DEF IInv, TypeOK
  <2>2. Len(reply) \in Nat /\ reply \in [1 .. Len(reply) -> Answers] BY <2>1, LenProperties
  <2>3. reply' \in [1 .. Len(reply) -> Answers] BY <1>1, <2>2, Answering
  <2> QED BY <2>2, <2>3
<1>4. TypeOK'
  <2>1. queue' \in Seq(Called) BY <1>1
  <2>2. /\ retention' \in Nat /\ closing' \in BOOLEAN /\ cutIn4' \in BOOLEAN /\ faults' \in Nat
    BY <1>1 DEF IInv, TypeOK
  <2> QED BY <1>1, <1>2, <1>3, <2>1, <2>2, Types
<1>5. Control' BY <1>1 DEF Control
<1>6. Channels' BY <1>1 DEF Channels
<1>7. UnderWay' BY <1>1 DEF UnderWay
<1> QED BY <1>2, <1>4, <1>5, <1>6, <1>7 DEF IInv

-----------------------------------------------------------------------------
\* The invariant.

\* So does a step that changes nothing.
LEMMA StutterStep == IInv /\ UNCHANGED vars => IInv'
<1> SUFFICES ASSUME IInv, UNCHANGED vars PROVE IInv' OBVIOUS
<1>0. /\ db' = db /\ phase' = phase /\ mig' = mig /\ queue' = queue /\ cur' = cur
      /\ retention' = retention /\ reply' = reply /\ closing' = closing /\ cutIn4' = cutIn4
      /\ faults' = faults
  BY DEF vars
<1>1. TypeOK' BY <1>0 DEF IInv, TypeOK, Command
<1>2. Opening' BY <1>0 DEF IInv, Opening
<1>3. Control' BY <1>0 DEF IInv, Control
<1>4. Channels' BY <1>0 DEF IInv, Channels, Addressed
<1>5. UnderWay' BY <1>0 DEF IInv, UnderWay
<1> QED BY <1>1, <1>2, <1>3, <1>4, <1>5 DEF IInv

\* The invariant is inductive.
LEMMA NextStep == IInv /\ [Next]_vars => IInv'
BY OpenStep, StatementStep, RecordVersionStep, MigratedStep, RebuildStep, PruneAndSpawnStep,
   SendStep, DropStep, ReceiveStep, InsertStep, PruneStep, RescoreStep, PurgeStep, QueryStep,
   SetRetentionStep, ReplyStep, PanicStep, CrashStep, ExitStep, StutterStep DEF Next

\* The inductive invariant of the actor's life (actor_loop, migrate).
THEOREM ActorInvariance == Spec => []IInv
BY InitInvariant, NextStep, PTL DEF Spec

\* A store that answers has every table of this build, nothing left to rebuild
\* and no stale digest, and between two commands derived tables of the rows it
\* holds, unless an ingest was cut off before its rescore and nothing was
\* rescored in full since: whatever build left the file and wherever opening it
\* was cut off (migrate, rebuild_if_marked, prune_stale_digests, do_ingest).
THEOREM ActorOpenedIsCurrent == Spec => []OpenedIsCurrent
<1>1. IInv => OpenedIsCurrent BY DEF IInv, Opening, OpenedIsCurrent, Fresh
<1> QED BY <1>1, ActorInvariance, PTL

\* A file cut off inside migration 4 is never answered from again, and one cut
\* off anywhere else opens (migrate).
THEOREM ActorStuckExactlyMidV4 == Spec => []StuckExactlyMidV4
<1>1. IInv => StuckExactlyMidV4 BY DEF IInv, Opening, StuckExactlyMidV4
<1> QED BY <1>1, ActorInvariance, PTL

-----------------------------------------------------------------------------
\* The refinement.

Pending == InHand \o Waiting

\* What the calls that wait are.
LEMMA WaitingIs ==
  ASSUME IInv
  PROVE  /\ phase # "loop" => Waiting = <<>> /\ InHand = <<>> /\ Pending = <<>>
         /\ phase = "loop" => Waiting \in Seq(Called)
         /\ phase = "loop" => Len(Waiting) = Len(queue) - (IF closing THEN 1 ELSE 0)
         /\ phase = "loop" => \A i \in 1 .. Len(Waiting) :
                                i \in 1 .. Len(queue) /\ Waiting[i] = queue[i]
         /\ phase = "loop" /\ ~closing => Waiting = queue
         /\ cur = {} => InHand = <<>> /\ (phase = "loop" => Pending = Waiting)
<1>0. closing \in BOOLEAN BY DEF IInv, TypeOK
<1>1. PICK n \in {0, 1} : n = IF closing THEN 1 ELSE 0 BY <1>0
<1>2. Waiting = SubSeq(queue, 1, Len(queue) - n) BY <1>1 DEF Waiting
<1>3. ASSUME phase # "loop" PROVE Waiting = <<>> /\ InHand = <<>> /\ Pending = <<>>
  <2>1. queue = <<>> /\ cur = {} BY <1>3 DEF IInv, Control
  <2>2. Waiting = SubSeq(<<>>, 1, 0 - n) BY <1>2, <2>1
  <2>3. 0 - n \in Int /\ 0 - n < 1 OBVIOUS
  <2>4. Waiting = <<>> BY <2>2, <2>3, SubSeqEmpty
  <2>5. InHand = <<>> BY <2>1 DEF InHand
  <2> QED BY <2>4, <2>5 DEF Pending
<1>4. ASSUME phase = "loop"
      PROVE  /\ Waiting \in Seq(Called) /\ Len(Waiting) = Len(queue) - n
             /\ \A i \in 1 .. Len(Waiting) : i \in 1 .. Len(queue) /\ Waiting[i] = queue[i]
             /\ ~closing => Waiting = queue
  <2>1. queue \in Seq(Called) /\ Len(queue) \in Nat BY <1>4, Queued
  <2>2. n <= Len(queue)
    <3>1. CASE closing
      <4>1. queue # <<>> BY <1>4, <3>1 DEF IInv, Control
      <4>2. Len(queue) # 0 BY <2>1, <4>1, EmptySeq
      <4> QED BY <2>1, <4>2
    <3>2. CASE ~closing BY <1>1, <2>1, <3>2
    <3> QED BY <3>1, <3>2
  <2>3. PICK l \in Nat : l = Len(queue) - n BY <2>1, <2>2
  <2>4. \A i \in 1 .. l : i \in 1 .. Len(queue) BY <2>1, <2>3
  <2>5. \A i \in 1 .. l : queue[i] \in Called BY <1>4, <2>4, Queued
  <2>6. Waiting = SubSeq(queue, 1, l) BY <1>2, <2>3
  <2>7. /\ Waiting \in Seq(Called) /\ Len(Waiting) = IF 1 <= l THEN l - 1 + 1 ELSE 0
        /\ \A i \in 1 .. l - 1 + 1 : Waiting[i] = queue[1 + i - 1]
    BY <2>5, <2>6, SubSeqProperties
  <2>8. Len(Waiting) = l /\ \A i \in 1 .. l : Waiting[i] = queue[i]
    <3>1. Len(Waiting) = l BY <2>7
    <3>2. ASSUME NEW i \in 1 .. l PROVE Waiting[i] = queue[i]
      <4>1. i \in 1 .. l - 1 + 1 /\ 1 + i - 1 = i OBVIOUS
      <4>2. Waiting[i] = queue[1 + i - 1] BY <2>7, <4>1
      <4> QED BY <4>1, <4>2
    <3> QED BY <3>1, <3>2
  <2>9. ~closing => Waiting = queue
    <3> SUFFICES ASSUME ~closing PROVE Waiting = queue OBVIOUS
    <3>1. l = Len(queue) BY <1>1, <2>1, <2>3
    <3> QED BY <2>1, <2>7, <2>8, <3>1, SeqEqual
  <2> QED BY <2>3, <2>4, <2>7, <2>8, <2>9
<1>5. ASSUME cur = {} PROVE InHand = <<>> BY <1>5 DEF InHand
<1>6. ASSUME cur = {}, phase = "loop" PROVE Pending = Waiting
  <2>1. Pending = <<>> \o Waiting BY <1>5, <1>6 DEF Pending
  <2>2. Waiting \in Seq(Called) BY <1>4, <1>6
  <2> QED BY <2>1, <2>2, ConcatEmptySeq
<1> QED BY <1>1, <1>3, <1>4, <1>5, <1>6

\* The abstract rows, between two steps.
LEMMA RowsAre ==
  ASSUME IInv
  PROVE  /\ phase \in {"loop", "dead", "closed"} => Stored = db.events
         /\ cur = {} => Rows = Stored
         /\ cur # {} => Rows = Command.before /\ phase = "loop"
<1>1. phase \in {"loop", "dead", "closed"} => db.copy = {} BY DEF IInv, Opening
<1>2. phase # "loop" => cur = {} BY DEF IInv, Control
<1> QED BY <1>1, <1>2 DEF Stored, Rows

\* Opening: every step but the last is a stutter, the last one is Start.
LEMMA OpeningRefines ==
  ASSUME IInv, IInv', UNCHANGED memory, phase # "loop", db'.events \cup db'.copy = Stored,
         NEW on \in BOOLEAN, phase' = "loop" <=> on
  PROVE  /\ on => Atomic!Start
         /\ ~on => UNCHANGED Atomic!vars
<1>1. /\ cur' = cur /\ queue' = queue /\ retention' = retention /\ reply' = reply
      /\ closing' = closing
  BY DEF memory
<1>2. cur = {} /\ cur' = {} BY <1>1 DEF IInv, Control
<1>3. Rows' = Rows BY <1>2, RowsAre DEF Rows, Stored
<1>4. InHand' = InHand /\ Waiting' = Waiting BY <1>1, <1>2 DEF InHand, Waiting
<1> QED BY <1>1, <1>3, <1>4 DEF Atomic!Start, Atomic!vars

\* A call in hand comes first.
LEMMA InFront ==
  ASSUME NEW S, NEW x \in S, NEW t \in Seq(S)
  PROVE  /\ <<x>> \o t # <<>> /\ Head(<<x>> \o t) = x /\ Tail(<<x>> \o t) = t
<1>1. <<x>> \in Seq(S) /\ Len(<<x>>) = 1 /\ <<x>>[1] = x OBVIOUS
<1>2. PICK u : u = <<x>> \o t OBVIOUS
<1>3. PICK n \in Nat : n = Len(t) BY LenProperties
<1>4. /\ u \in Seq(S) /\ Len(u) = 1 + n
      /\ \A i \in 1 .. 1 + n : u[i] = IF i <= 1 THEN <<x>>[i] ELSE t[i - 1]
  BY <1>1, <1>2, <1>3, ConcatProperties
<1>5. u # <<>> /\ u[1] = x
  <2>1. 1 \in 1 .. 1 + n /\ 1 + n # 0 BY <1>3
  <2> QED BY <1>1, <1>4, <2>1
<1>6. Head(u) = x BY <1>5
<1>7. /\ Tail(u) \in Seq(S) /\ Len(Tail(u)) = n
      /\ \A i \in 1 .. n : Tail(u)[i] = u[i + 1]
  BY <1>3, <1>4, <1>5, HeadTailProperties
<1>8. ASSUME NEW i \in 1 .. n PROVE Tail(u)[i] = t[i]
  <2>1. i + 1 \in 1 .. 1 + n /\ ~(i + 1 <= 1) /\ i + 1 - 1 = i BY <1>3
  <2> QED BY <1>4, <1>7, <2>1
<1>9. Tail(u) = t BY <1>3, <1>7, <1>8, SeqEqual
<1> QED BY <1>2, <1>5, <1>6, <1>9

\* The steps of opening, one by one.
LEMMA OpenRefines == IInv /\ IInv' /\ Open => UNCHANGED Atomic!vars
<1> SUFFICES ASSUME IInv, IInv', Open PROVE UNCHANGED Atomic!vars OBVIOUS
<1>1. UNCHANGED memory /\ phase # "loop" /\ ~(phase' = "loop") /\ db' = db BY DEF Open
<1> QED BY <1>1, OpeningRefines DEF Stored

\* No statement of a migration loses a row.
LEMMA StatementRefines == IInv /\ IInv' /\ Statement => UNCHANGED Atomic!vars
<1> SUFFICES ASSUME IInv, IInv', Statement PROVE UNCHANGED Atomic!vars OBVIOUS
<1>1. UNCHANGED memory /\ phase # "loop" /\ ~(phase' = "loop") BY DEF Statement
<1>2. db'.events \cup db'.copy = Stored BY StatementEffect DEF Stored
<1> QED BY <1>1, <1>2, OpeningRefines

\* Recording the version writes no row.
LEMMA RecordVersionRefines == IInv /\ IInv' /\ RecordVersion => UNCHANGED Atomic!vars
<1> SUFFICES ASSUME IInv, IInv', RecordVersion PROVE UNCHANGED Atomic!vars OBVIOUS
<1>1. /\ UNCHANGED memory /\ phase # "loop" /\ ~(phase' = "loop")
      /\ db' = [db EXCEPT !.version = mig[1]]
  BY DEF RecordVersion
<1>2. db \in Database BY DEF IInv, TypeOK
<1>3. db'.events = db.events /\ db'.copy = db.copy BY <1>1, <1>2 DEF Database
<1> QED BY <1>1, <1>3, OpeningRefines DEF Stored

\* The migrations are done.
LEMMA MigratedRefines == IInv /\ IInv' /\ Migrated => UNCHANGED Atomic!vars
<1> SUFFICES ASSUME IInv, IInv', Migrated PROVE UNCHANGED Atomic!vars OBVIOUS
<1>1. UNCHANGED memory /\ phase # "loop" /\ ~(phase' = "loop") /\ db' = db BY DEF Migrated
<1> QED BY <1>1, OpeningRefines DEF Stored

\* The rebuild writes derived tables only.
LEMMA RebuildRefines == IInv /\ IInv' /\ Rebuild => UNCHANGED Atomic!vars
<1> SUFFICES ASSUME IInv, IInv', Rebuild PROVE UNCHANGED Atomic!vars OBVIOUS
<1>1. /\ UNCHANGED memory /\ phase # "loop" /\ ~(phase' = "loop")
      /\ db' = RebuildIfMarked(db)
  BY DEF Rebuild
<1>2. db \in Database BY DEF IInv, TypeOK
<1>3. db'.events = db.events /\ db'.copy = db.copy
  BY <1>1, <1>2 DEF Database, RebuildIfMarked, RescoreAll
<1> QED BY <1>1, <1>3, OpeningRefines DEF Stored

\* The thread starts: the store serves.
LEMMA PruneAndSpawnRefines == IInv /\ IInv' /\ PruneAndSpawn => Atomic!Start
<1> SUFFICES ASSUME IInv, IInv', PruneAndSpawn PROVE Atomic!Start OBVIOUS
<1>1. /\ UNCHANGED memory /\ phase # "loop" /\ phase' = "loop"
      /\ db' = PruneStaleDigests(db)
  BY DEF PruneAndSpawn
<1>2. db \in Database BY DEF IInv, TypeOK
<1>3. db'.events = db.events /\ db'.copy = db.copy
  BY <1>1, <1>2 DEF Database, PruneStaleDigests
<1> QED BY <1>1, <1>3, OpeningRefines DEF Stored

\* Sending: what waits behind the call in hand grows at its end.
LEMMA SendRefines ==
  ASSUME IInv, NEW op \in Op, Send(op)
  PROVE  Atomic!Send(op)
<1>0. PICK call : call = [id |-> Len(reply) + 1, op |-> op] OBVIOUS
<1>1. /\ phase \in {"loop", "dead"} /\ ~closing /\ Len(reply) < MaxCalls
      /\ phase' = phase /\ db' = db /\ cur' = cur /\ retention' = retention
      /\ closing' = closing
  BY DEF Send
<1>2. Rows' = Rows /\ InHand' = InHand BY <1>1 DEF Rows, InHand, Stored, Command
<1>3. CASE phase = "loop"
  <2>1. queue' = Append(queue, call) /\ reply' = Append(reply, Atomic!Fresh(op))
    BY <1>0, <1>3 DEF Send
  <2>2. queue \in Seq(Called) /\ Len(queue) \in Nat BY <1>3, Queued
  <2>3. call \in Called
    <3>1. Len(reply) + 1 \in Nat BY LenProperties DEF IInv, TypeOK
    <3> QED BY <1>0, <3>1 DEF Called
  <2>4. queue' \in Seq(Called) BY <2>1, <2>2, <2>3, AppendProperties
  <2>5. Waiting = queue BY <1>1, <1>3, WaitingIs
  <2>6. Waiting' = queue'
    <3>1. Len(queue') \in Nat BY <2>4, LenProperties
    <3>2. Waiting' = SubSeq(queue', 1, Len(queue') - 0) BY <1>1 DEF Waiting
    <3>3. Len(queue') - 0 = Len(queue') BY <3>1
    <3>4. SubSeq(queue', 1, Len(queue')) = queue' BY <2>4, SubSeqFull
    <3> QED BY <3>2, <3>3, <3>4
  <2>7. InHand \in Seq(Called)
    <3>1. CASE cur = {} BY <3>1 DEF InHand
    <3>2. CASE cur # {}
      <4>1. Command \in Commands BY <3>2 DEF IInv, TypeOK, Commands
      <4>2. PICK x : x = [id |-> Command.id, op |-> Command.op] OBVIOUS
      <4>3. x \in Called BY <4>1, <4>2 DEF Commands, Called
      <4>4. InHand = <<x>> BY <3>2, <4>2 DEF InHand
      <4> QED BY <4>3, <4>4
    <3> QED BY <3>1, <3>2
  <2>8. InHand \o queue' = Append(InHand \o queue, call)
    <3>1. queue' = queue \o <<call>> BY <2>1, <2>2, <2>3, AppendIsConcat
    <3>2. InHand \o queue \in Seq(Called) BY <2>2, <2>7, ConcatProperties
    <3>3. Append(InHand \o queue, call) = (InHand \o queue) \o <<call>>
      BY <2>3, <3>2, AppendIsConcat
    <3>4. <<call>> \in Seq(Called) BY <2>3
    <3> QED BY <2>2, <2>7, <3>1, <3>3, <3>4, ConcatAssociative
  <2>9. InHand' \o Waiting' = Append(InHand \o Waiting, [id |-> Len(reply) + 1, op |-> op])
    BY <1>0, <1>2, <2>5, <2>6, <2>8
  <2> QED BY <1>1, <1>2, <1>3, <2>1, <2>9 DEF Atomic!Send
<1>4. CASE phase = "dead"
  <2>1. /\ queue' = queue
        /\ reply' = Append(reply, IF Atomic!Fresh(op) = Atomic!None THEN Atomic!Lost
                                  ELSE Atomic!Unasked)
    BY <1>4 DEF Send
  <2>2. Waiting' = Waiting BY <1>1, <2>1 DEF Waiting
  <2> QED BY <1>1, <1>2, <1>4, <2>1, <2>2 DEF Atomic!Send
<1> QED BY <1>1, <1>3, <1>4

\* Dropping the handle: what was sent before still waits.
LEMMA DropRefines == IInv /\ Drop => UNCHANGED Atomic!vars
<1> SUFFICES ASSUME IInv, Drop PROVE UNCHANGED Atomic!vars OBVIOUS
<1>0. PICK last : last = [id |-> 0, op |-> [op |-> "shutdown"]] OBVIOUS
<1>1. /\ phase \in {"loop", "dead"} /\ ~closing /\ closing' = TRUE /\ db' = db
      /\ cur' = cur /\ retention' = retention /\ reply' = reply
      /\ phase = "loop" => phase' = "loop" /\ queue' = Append(queue, last)
      /\ phase = "dead" => phase' = "closed" /\ queue' = queue
  BY <1>0 DEF Drop
<1>2. Rows' = Rows /\ InHand' = InHand BY <1>1 DEF Rows, InHand, Stored, Command
<1>3. Waiting' = Waiting
  <2>1. CASE phase = "loop"
    <3>1. queue \in Seq(Called) /\ Len(queue) \in Nat BY <2>1, Queued
    <3>2. last \in Called BY <1>0 DEF Called, Shutdown
    <3>3. /\ Len(queue') = Len(queue) + 1
          /\ \A i \in 1 .. Len(queue) : queue'[i] = queue[i] /\ queue[i] \in Called
      BY <1>1, <2>1, <3>1, <3>2, AppendProperties, Queued
    <3>4. Waiting' = SubSeq(queue', 1, Len(queue))
      <4>1. Waiting' = SubSeq(queue', 1, Len(queue') - 1) BY <1>1 DEF Waiting
      <4>2. Len(queue') - 1 = Len(queue) BY <3>1, <3>3
      <4> QED BY <4>1, <4>2
    <3>5. PICK n \in Nat : n = Len(queue) BY <3>1
    <3>6. \A i \in 1 .. n : queue'[i] \in Called BY <3>3, <3>5
    <3>7. /\ Waiting' \in Seq(Called) /\ Len(Waiting') = IF 1 <= n THEN n - 1 + 1 ELSE 0
          /\ \A i \in 1 .. n - 1 + 1 : Waiting'[i] = queue'[1 + i - 1]
      <4>1. Waiting' = SubSeq(queue', 1, n) BY <3>4, <3>5
      <4> QED BY <3>6, <4>1, SubSeqProperties
    <3>8. Len(Waiting') = n BY <3>7
    <3>9. ASSUME NEW i \in 1 .. n PROVE Waiting'[i] = queue[i]
      <4>1. i \in 1 .. n - 1 + 1 /\ 1 + i - 1 = i OBVIOUS
      <4> QED BY <3>3, <3>5, <3>7, <4>1
    <3>10. Waiting' = queue BY <3>1, <3>5, <3>7, <3>8, <3>9, SeqEqual
    <3> QED BY <1>1, <2>1, <3>10, WaitingIs
  <2>2. CASE phase = "dead"
    <3>1. queue' = <<>> BY <1>1, <2>2 DEF IInv, Control
    <3>2. Waiting' = SubSeq(<<>>, 1, 0 - 1) BY <1>1, <3>1 DEF Waiting
    <3>3. 0 - 1 \in Int /\ 0 - 1 < 1 OBVIOUS
    <3>4. Waiting' = <<>> BY <3>2, <3>3, SubSeqEmpty
    <3>5. Waiting = <<>> BY <2>2, WaitingIs
    <3> QED BY <3>4, <3>5
  <2> QED BY <1>1, <2>1, <2>2
<1> QED BY <1>1, <1>2, <1>3 DEF Atomic!vars

\* An empty channel.
LEMMA NoneWaits ==
  ASSUME queue' = <<>>, cur' = {}, closing' \in BOOLEAN
  PROVE  InHand' \o Waiting' = <<>> /\ Rows' = Stored'
<1>1. PICK n \in {0, 1} : n = IF closing' THEN 1 ELSE 0 OBVIOUS
<1>2. Waiting' = SubSeq(<<>>, 1, 0 - n) BY <1>1 DEF Waiting
<1>3. 0 - n \in Int /\ 0 - n < 1 OBVIOUS
<1>4. Waiting' = <<>> BY <1>2, <1>3, SubSeqEmpty
<1>5. InHand' = <<>> /\ Rows' = Stored' BY DEF InHand, Rows
<1>6. <<>> \in Seq(Called) BY EmptySeq
<1> QED BY <1>4, <1>5, <1>6, ConcatEmptySeq

\* Taking a call from the channel changes nothing its callers see; taking the
\* Shutdown is Close, and nothing waits behind it.
LEMMA ReceiveRefines == IInv /\ Receive => Atomic!Close \/ UNCHANGED Atomic!vars
<1> SUFFICES ASSUME IInv, Receive PROVE Atomic!Close \/ UNCHANGED Atomic!vars OBVIOUS
<1>0. PICK c : c = Head(queue) OBVIOUS
<1>a. PICK next : next = [id |-> c.id, op |-> c.op, stage |-> "start", before |-> db.events,
                          answer |-> Atomic!None]
  OBVIOUS
<1>1. /\ phase = "loop" /\ cur = {} /\ queue # <<>> /\ queue' = Tail(queue) /\ db' = db
      /\ retention' = retention /\ reply' = reply /\ closing' = closing
      /\ \/ c.op.op = "shutdown" /\ phase' = "closed" /\ cur' = cur
         \/ c.op.op # "shutdown" /\ phase' = phase /\ cur' = {next}
  BY <1>0, <1>a DEF Receive
<1>2. PICK n \in Nat : n = Len(queue) BY <1>1, Queued
<1>3. /\ c = queue[1] /\ 1 \in 1 .. n /\ queue' \in Seq(Called) /\ Len(queue') = n - 1
      /\ \A i \in 1 .. n - 1 : queue'[i] = queue[i + 1]
      /\ c \in Called /\ \A i \in 1 .. n : queue[i] \in Called
  <2>1. queue \in Seq(Called) BY <1>1, Queued
  <2>2. n # 0 BY <1>1, <1>2, <2>1, EmptySeq
  <2>3. Head(queue) = queue[1] OBVIOUS
  <2>4. \A i \in 1 .. n : queue[i] \in Called BY <1>1, <1>2, Queued
  <2> QED BY <1>0, <1>1, <1>2, <2>1, <2>2, <2>3, <2>4, HeadTailProperties
<1>4. Rows = db.events /\ InHand = <<>> /\ Pending = Waiting /\ Stored = db.events
  BY <1>1, RowsAre, WaitingIs
<1>5. CASE c.op.op = "shutdown"
  <2>1. phase' = "closed" /\ cur' = {} /\ closing \in BOOLEAN
    BY <1>1, <1>5 DEF IInv, TypeOK
  <2>2. closing /\ n = 1 BY <1>1, <1>2, <1>3, <1>5, Queued
  <2>3. queue' = <<>> BY <1>3, <2>2, EmptySeq
  <2>4. InHand' \o Waiting' = <<>> /\ Rows' = Stored' BY <1>1, <2>1, <2>3, NoneWaits
  <2>5. InHand \o Waiting = <<>>
    <3>1. Len(Waiting) = 1 - 1 /\ Waiting \in Seq(Called) BY <1>1, <1>2, <2>2, WaitingIs
    <3>2. Waiting = <<>> BY <3>1, EmptySeq
    <3> QED BY <1>4, <3>2 DEF Pending
  <2>6. Rows' = Rows BY <1>1, <1>4, <2>4 DEF Stored
  <2> QED BY <1>1, <2>1, <2>4, <2>5, <2>6 DEF Atomic!Close
<1>6. CASE c.op.op # "shutdown"
  <2>1. phase' = phase /\ cur' = {next} BY <1>1, <1>6
  <2>2. Command' = next BY <2>1, Chosen DEF Command
  <2>3. Rows' = db.events BY <1>a, <2>1, <2>2 DEF Rows
  <2>4. InHand' = <<c>>
    <3>1. InHand' = <<[id |-> next.id, op |-> next.op]>> BY <2>1, <2>2 DEF InHand
    <3>2. next.id = c.id /\ next.op = c.op BY <1>a
    <3>3. [id |-> c.id, op |-> c.op] = c BY <1>3 DEF Called
    <3> QED BY <3>1, <3>2, <3>3
  <2>5. PICK m \in {0, 1} : m = IF closing THEN 1 ELSE 0
    <3>1. closing \in BOOLEAN BY DEF IInv, TypeOK
    <3> QED BY <3>1
  <2>6. m + 1 <= n
    <3>1. closing => n # 1 BY <1>1, <1>2, <1>3, <1>6, Queued
    <3>2. m = 0 \/ (m = 1 /\ n # 1) BY <2>5, <3>1
    <3> QED BY <1>2, <1>3, <3>2
  <2>7. PICK l \in Nat : l = n - m - 1 BY <1>2, <2>6
  <2>8. /\ Waiting \in Seq(Called) /\ Len(Waiting) = l + 1
        /\ \A i \in 1 .. l + 1 : Waiting[i] = queue[i]
    <3>1. Len(Waiting) = n - m BY <1>1, <1>2, <2>5, WaitingIs
    <3>2. n - m = l + 1 BY <1>2, <2>7
    <3> QED BY <1>1, <3>1, <3>2, WaitingIs
  <2>9. /\ Waiting' \in Seq(Called) /\ Len(Waiting') = l
        /\ \A i \in 1 .. l : Waiting'[i] = queue'[i]
    <3>1. Waiting' = SubSeq(queue', 1, l)
      <4>1. Waiting' = SubSeq(queue', 1, Len(queue') - m) BY <1>1, <2>5 DEF Waiting
      <4>2. Len(queue') - m = l BY <1>2, <1>3, <2>7
      <4> QED BY <4>1, <4>2
    <3>2. ASSUME NEW i \in 1 .. l PROVE queue'[i] \in Called
      <4>1. i \in 1 .. n - 1 /\ i + 1 \in 1 .. n BY <1>2, <2>7
      <4> QED BY <1>3, <4>1
    <3>3. /\ Waiting' \in Seq(Called) /\ Len(Waiting') = IF 1 <= l THEN l - 1 + 1 ELSE 0
          /\ \A i \in 1 .. l - 1 + 1 : Waiting'[i] = queue'[1 + i - 1]
      BY <3>1, <3>2, SubSeqProperties
    <3>4. ASSUME NEW i \in 1 .. l PROVE Waiting'[i] = queue'[i]
      <4>1. i \in 1 .. l - 1 + 1 /\ 1 + i - 1 = i OBVIOUS
      <4> QED BY <3>3, <4>1
    <3> QED BY <3>3, <3>4
  <2>10. PICK t \in Seq(Called) : t = Waiting' BY <2>9
  <2>11. <<c>> \o t = Waiting
    <3>1. <<c>> \in Seq(Called) /\ Len(<<c>>) = 1 /\ <<c>>[1] = c BY <1>3
    <3>2. PICK u : u = <<c>> \o t OBVIOUS
    <3>3. /\ u \in Seq(Called) /\ Len(u) = 1 + l
          /\ \A i \in 1 .. 1 + l : u[i] = IF i <= 1 THEN <<c>>[i] ELSE t[i - 1]
      BY <2>9, <2>10, <3>1, <3>2, ConcatProperties
    <3>4. ASSUME NEW i \in 1 .. l + 1 PROVE u[i] = Waiting[i]
      <4>1. CASE i = 1
        <5>1. u[1] = c BY <3>1, <3>3, <4>1
        <5>2. Waiting[1] = queue[1] BY <2>8, <4>1
        <5> QED BY <1>3, <4>1, <5>1, <5>2
      <4>2. CASE i # 1
        <5>1. i \in 1 .. 1 + l /\ ~(i <= 1) /\ i - 1 \in 1 .. l /\ (i - 1) + 1 = i
          BY <4>2
        <5>2. i - 1 \in 1 .. n - 1 BY <1>2, <2>7, <5>1
        <5>3. u[i] = t[i - 1] BY <3>3, <5>1
        <5>4. t[i - 1] = queue'[i - 1] BY <2>9, <2>10, <5>1
        <5>5. queue'[i - 1] = queue[i] BY <1>3, <5>1, <5>2
        <5>6. Waiting[i] = queue[i] BY <2>8
        <5> QED BY <5>3, <5>4, <5>5, <5>6
      <4> QED BY <4>1, <4>2
    <3>5. 1 + l = l + 1 OBVIOUS
    <3> QED BY <2>8, <3>2, <3>3, <3>4, <3>5, SeqEqual
  <2>12. InHand' \o Waiting' = InHand \o Waiting BY <1>4, <2>4, <2>10, <2>11 DEF Pending
  <2> QED BY <1>1, <1>4, <2>1, <2>3, <2>12 DEF Atomic!vars
<1> QED BY <1>5, <1>6

\* The work on a call, short of its reply, is not seen.
LEMMA WorkRefines ==
  ASSUME IInv, NEW stage, InStage(stage), NEW s, NEW a, To(s, a),
         UNCHANGED <<phase, queue, retention, reply, closing>>
  PROVE  UNCHANGED Atomic!vars
<1>1. cur = {Command} /\ Command \in Commands BY InProgress
<1>2. PICK c : c = [Command EXCEPT !.stage = s, !.answer = a] OBVIOUS
<1>3. c.id = Command.id /\ c.op = Command.op /\ c.before = Command.before
  BY <1>1, <1>2 DEF Commands
<1>4. cur' = {c} BY <1>2 DEF To
<1>5. Command' = c BY <1>4, Chosen DEF Command
<1>6. cur # {} /\ cur' # {} BY <1>1, <1>4
<1>7. Rows' = Rows BY <1>3, <1>5, <1>6 DEF Rows
<1>8. InHand' = InHand BY <1>3, <1>5, <1>6 DEF InHand
<1>9. Waiting' = Waiting BY DEF Waiting
<1> QED BY <1>7, <1>8, <1>9 DEF Atomic!vars

\* Each kind of work on a call is unseen.
LEMMA InsertRefines == IInv /\ Insert => UNCHANGED Atomic!vars
BY WorkRefines DEF Insert

\* Pruning.
LEMMA PruneRefines == IInv /\ Prune => UNCHANGED Atomic!vars
BY WorkRefines DEF Prune

\* Rescoring.
LEMMA RescoreRefines == IInv /\ Rescore => UNCHANGED Atomic!vars
BY WorkRefines DEF Rescore

\* Purging.
LEMMA PurgeRefines == IInv /\ Purge => UNCHANGED Atomic!vars
BY WorkRefines DEF Purge

\* Querying.
LEMMA QueryRefines == IInv /\ Query => UNCHANGED Atomic!vars
BY WorkRefines DEF Query

\* The call in hand, as the abstract store sees it.
LEMMA InHandIs ==
  ASSUME IInv, cur # {}
  PROVE  /\ phase = "loop" /\ cur = {Command} /\ Command \in Commands
         /\ Waiting \in Seq(Called) /\ InHand \o Waiting # <<>>
         /\ Head(InHand \o Waiting) = [id |-> Command.id, op |-> Command.op]
         /\ Tail(InHand \o Waiting) = Waiting
<1>1. phase = "loop" BY DEF IInv, Control
<1>2. cur = {Command} BY DEF IInv, TypeOK
<1>3. Command \in Commands BY <1>2 DEF IInv, TypeOK, Commands
<1>4. PICK x : x = [id |-> Command.id, op |-> Command.op] OBVIOUS
<1>5. x \in Called BY <1>3, <1>4 DEF Commands, Called
<1>6. Waiting \in Seq(Called) BY <1>1, WaitingIs
<1>7. InHand = <<x>> BY <1>4 DEF InHand
<1> QED BY <1>1, <1>2, <1>3, <1>4, <1>5, <1>6, <1>7, InFront

\* A call takes effect when it is answered.
LEMMA Served ==
  ASSUME IInv, NEW stage, InStage(stage), cur' = {}, db' = db,
         UNCHANGED <<phase, queue, closing>>,
         db.events = Atomic!Done(Command.before, retention, Command.op),
         retention' = IF Command.op.op = "retention" THEN Command.op.days ELSE retention,
         reply' = [reply EXCEPT ![Command.id] =
                     Atomic!Answer(Command.before, retention, Command.op)]
  PROVE  Atomic!Serve
<1>1. cur # {} /\ phase = "loop" BY DEF InStage
<1>2. PICK call : call = [id |-> Command.id, op |-> Command.op] OBVIOUS
<1>3. /\ InHand \o Waiting # <<>> /\ Head(InHand \o Waiting) = call
      /\ Tail(InHand \o Waiting) = Waiting /\ Waiting \in Seq(Called)
  BY <1>1, <1>2, InHandIs
<1>4. call.id = Command.id /\ call.op = Command.op BY <1>2
<1>5. Rows = Command.before BY <1>1 DEF Rows
<1>6. Rows' = db.events
  <2>1. Rows' = Stored' BY DEF Rows
  <2>2. Stored' = Stored BY DEF Stored
  <2> QED BY <1>1, <2>1, <2>2, RowsAre
<1>7. InHand' \o Waiting' = Waiting
  <2>1. InHand' = <<>> /\ Waiting' = Waiting BY DEF InHand, Waiting
  <2> QED BY <1>3, <2>1, ConcatEmptySeq
<1>8. Rows' = Atomic!Done(Rows, retention, call.op) BY <1>4, <1>5, <1>6
<1>9. retention' = IF call.op.op = "retention" THEN call.op.days ELSE retention BY <1>4
<1>10. reply' = [reply EXCEPT ![call.id] = Atomic!Answer(Rows, retention, call.op)]
  BY <1>4, <1>5
<1>11. phase' = phase OBVIOUS
<1> QED BY <1>1, <1>3, <1>7, <1>8, <1>9, <1>10, <1>11 DEF Atomic!Serve

\* The reply is where the abstract store serves a call that is answered,
LEMMA ReplyRefines == IInv /\ Reply => Atomic!Serve
<1> SUFFICES ASSUME IInv, Reply PROVE Atomic!Serve OBVIOUS
<1>1. /\ InStage("reply") /\ reply' = [reply EXCEPT ![Command.id] = Command.answer]
      /\ cur' = {} /\ db' = db /\ retention' = retention
      /\ UNCHANGED <<phase, queue, closing>>
  BY DEF Reply
<1>2. /\ Command.op.op # "retention"
      /\ db.events = Atomic!Done(Command.before, retention, Command.op)
      /\ Command.answer = Atomic!Answer(Command.before, retention, Command.op)
  BY <1>1, InProgress
<1> QED BY <1>1, <1>2, Served

\* and the assignment where it serves one that is not.
LEMMA SetRetentionRefines == IInv /\ SetRetention => Atomic!Serve
<1> SUFFICES ASSUME IInv, SetRetention PROVE Atomic!Serve OBVIOUS
<1>1. /\ InStage("start") /\ Command.op.op = "retention"
      /\ retention' = Command.op.days /\ cur' = {} /\ db' = db /\ reply' = reply
      /\ UNCHANGED <<phase, queue, closing>>
  BY DEF SetRetention
<1>2. db.events = Command.before /\ Addressed(Command) BY <1>1, InProgress
<1>3. db.events = Atomic!Done(Command.before, retention, Command.op)
  BY <1>1, <1>2 DEF Atomic!Done
<1>4. reply' = [reply EXCEPT ![Command.id] =
                  Atomic!Answer(Command.before, retention, Command.op)]
  <2>1. Atomic!Answer(Command.before, retention, Command.op) = Atomic!Unasked
    BY <1>1 DEF Atomic!Answer, Atomic!Unasked
  <2>2. reply[Command.id] = Atomic!Unasked BY <1>1, <1>2 DEF Addressed
  <2>3. reply \in [1 .. Len(reply) -> Answers]
    <3>1. reply \in Seq(Answers) BY DEF IInv, TypeOK
    <3> QED BY <3>1, LenProperties
  <2>4. [reply EXCEPT ![Command.id] = Atomic!Unasked] = reply BY <2>2, <2>3
  <2> QED BY <1>1, <2>1, <2>4
<1> QED BY <1>1, <1>3, <1>4, Served

\* Whatever the moment of a death, the file is at a stage of the call in hand.
LEMMA CutThere == ASSUME IInv PROVE Stored \in Atomic!Cut
<1>1. CASE cur = {}
  <2>1. Rows = Stored BY <1>1 DEF Rows
  <2> QED BY <2>1 DEF Atomic!Cut
<1>2. CASE cur # {}
  <2>1. /\ phase = "loop" /\ cur = {Command} /\ Command \in Commands
        /\ InHand \o Waiting # <<>>
        /\ Head(InHand \o Waiting) = [id |-> Command.id, op |-> Command.op]
    BY <1>2, InHandIs
  <2>2. Head(InHand \o Waiting).op = Command.op BY <2>1
  <2>3. Rows = Command.before /\ Stored = db.events BY <1>2, <2>1, RowsAre
  <2>4. \/ db.events = Rows
        \/ db.events = Atomic!Inserted(Rows, Command.op)
        \/ db.events = Atomic!Done(Rows, retention, Command.op)
    <3>1. Command.stage \in {"start", "expire", "rescore", "reply"} BY <2>1 DEF Commands, Stages
    <3> QED BY <2>1, <2>3, <3>1 DEF IInv, UnderWay
  <2> QED BY <2>1, <2>2, <2>3, <2>4 DEF Atomic!Cut
<1> QED BY <1>1, <1>2

\* A panic is the abstract death.
LEMMA PanicRefines == IInv /\ Panic => Atomic!Die
<1> SUFFICES ASSUME IInv, Panic PROVE Atomic!Die OBVIOUS
<1>1. /\ phase = "loop" /\ phase' # "loop" /\ queue' = <<>> /\ cur' = {} /\ Tear
      /\ reply' = [i \in DOMAIN reply |->
                     IF reply[i] = Atomic!None THEN Atomic!Lost ELSE reply[i]]
      /\ retention' = retention /\ closing' = closing
  BY DEF Panic
<1>2. closing' \in BOOLEAN BY <1>1 DEF IInv, TypeOK
<1>3. InHand' \o Waiting' = <<>> /\ Rows' = Stored' BY <1>1, <1>2, NoneWaits
<1>4. Rows' \in Atomic!Cut
  <2>1. db'.events = db.events /\ db'.copy = db.copy BY <1>1, Tearing DEF Within
  <2> QED BY <1>3, <2>1, CutThere DEF Stored
<1> QED BY <1>1, <1>3, <1>4 DEF Atomic!Die, Atomic!Calls

\* The end of the process, by death or not, is the abstract restart.
LEMMA ForgetRefines ==
  ASSUME IInv, Forget, db'.events = db.events, db'.copy = db.copy
  PROVE  Atomic!Restart
<1>1. /\ phase' = "down" /\ queue' = <<>> /\ cur' = {} /\ retention' = 0
      /\ reply' = <<>> /\ closing' = FALSE
  BY DEF Forget
<1>2. InHand' \o Waiting' = <<>> /\ Rows' = Stored' BY <1>1, NoneWaits
<1>3. Rows' \in Atomic!Cut BY <1>2, CutThere DEF Stored
<1>4. (phase' = "loop") = FALSE BY <1>1
<1> QED BY <1>1, <1>2, <1>3, <1>4 DEF Atomic!Restart

\* Every file a build may find is an abstract store of the rows in it.
LEMMA InitRefines == Init => Atomic!Init
<1> SUFFICES ASSUME Init PROVE Atomic!Init OBVIOUS
<1>1. /\ db \in Database /\ phase = "down" /\ queue = <<>> /\ cur = {} /\ retention = 0
      /\ reply = <<>> /\ closing = FALSE
  BY FilesBetween DEF Init
<1>2. Rows = Stored /\ Stored \in SUBSET Row BY <1>1 DEF Rows, Stored, Database
<1>3. InHand \o Waiting = <<>>
  <2>1. InHand = <<>> /\ Waiting = SubSeq(<<>>, 1, 0 - 0) BY <1>1 DEF InHand, Waiting
  <2>2. 0 - 0 \in Int /\ 0 - 0 < 1 OBVIOUS
  <2>3. Waiting = <<>> BY <2>1, <2>2, SubSeqEmpty
  <2>4. <<>> \in Seq(Called) BY EmptySeq
  <2> QED BY <2>1, <2>3, <2>4, ConcatEmptySeq
<1>4. (phase = "loop") = FALSE BY <1>1
<1> QED BY <1>1, <1>2, <1>3, <1>4 DEF Atomic!Init

\* A stutter is a stutter.
LEMMA StutterRefines == UNCHANGED vars => UNCHANGED Atomic!vars
<1> SUFFICES ASSUME UNCHANGED vars PROVE UNCHANGED Atomic!vars OBVIOUS
<1>1. /\ db' = db /\ phase' = phase /\ queue' = queue /\ cur' = cur
      /\ retention' = retention /\ reply' = reply /\ closing' = closing
  BY DEF vars
<1>2. Rows' = Rows /\ InHand' = InHand /\ Waiting' = Waiting
  BY <1>1 DEF Rows, InHand, Waiting, Stored, Command
<1> QED BY <1>1, <1>2 DEF Atomic!vars

\* Every step is a step of the abstract store, or a stutter.
LEMMA StepRefines ==
  ASSUME IInv, IInv', [Next]_vars
  PROVE  Atomic!Next \/ UNCHANGED Atomic!vars
<1>1. CASE Open \/ Statement \/ RecordVersion \/ Migrated \/ Rebuild
  BY <1>1, OpenRefines, StatementRefines, RecordVersionRefines, MigratedRefines, RebuildRefines
<1>2. CASE PruneAndSpawn BY <1>2, PruneAndSpawnRefines DEF Atomic!Next
<1>3. ASSUME NEW op \in Op, Send(op) PROVE Atomic!Next
  <2>1. Atomic!Send(op) BY <1>3, SendRefines
  <2> QED BY <2>1 DEF Atomic!Next
<1>4. CASE Drop BY <1>4, DropRefines
<1>5. CASE Receive
  <2>1. Atomic!Close \/ UNCHANGED Atomic!vars BY <1>5, ReceiveRefines
  <2> QED BY <2>1 DEF Atomic!Next
<1>6. CASE Insert \/ Prune \/ Rescore \/ Purge \/ Query
  BY <1>6, InsertRefines, PruneRefines, RescoreRefines, PurgeRefines, QueryRefines
<1>7. CASE SetRetention \/ Reply
  <2>1. Atomic!Serve BY <1>7, SetRetentionRefines, ReplyRefines
  <2> QED BY <2>1 DEF Atomic!Next
<1>8. CASE Panic
  <2>1. Atomic!Die BY <1>8, PanicRefines
  <2> QED BY <2>1 DEF Atomic!Next
<1>9. CASE Crash \/ Exit
  <2>1. Forget /\ db'.events = db.events /\ db'.copy = db.copy
    <3>1. CASE Crash BY <3>1, Tearing DEF Crash, Within
    <3>2. CASE Exit BY <3>2 DEF Exit
    <3> QED BY <1>9, <3>1, <3>2
  <2>2. Atomic!Restart BY <2>1, ForgetRefines
  <2> QED BY <2>2 DEF Atomic!Next
<1>10. CASE UNCHANGED vars BY <1>10, StutterRefines
<1> QED BY <1>1, <1>2, <1>3, <1>4, <1>5, <1>6, <1>7, <1>8, <1>9, <1>10 DEF Next

\* The statement-level actor implements the atomic store: its callers cannot
\* tell it from one that does each call whole and in the order of sending, and
\* loses calls only when the thread or the process dies (actor_loop, migrate).
THEOREM ActorImplements == Spec => Implements
<1>1. Init => Atomic!Init BY InitRefines
<1>2. IInv /\ IInv' /\ [Next]_vars => [Atomic!Next]_Atomic!vars BY StepRefines
<1> QED BY <1>1, <1>2, ActorInvariance, PTL DEF Spec, Implements, Atomic!Spec
=============================================================================
