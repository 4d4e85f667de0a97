------------------------------ MODULE Migrate ------------------------------
(***************************************************************************)
(* Opening a database file (crates/storage: migrate, rebuild_if_marked,    *)
(* prune_stale_digests and migrations/*.sql).  A migration is a list of    *)
(* statements, each committed on its own, and then the schema_version row. *)
(* A database is a record: which tables and columns exist, the rows of     *)
(* `events` and of the shadow table `events_v4`, the rows the derived      *)
(* tables were scored from, the rebuild marker, and the facts versions of  *)
(* the cached digests (0 stands for NULL).  `torn` is history: a command   *)
(* was cut off between its first write and its rescore, and nothing has    *)
(* been rescored in full since.                                            *)
(***************************************************************************)
EXTENDS Integers, Sequences, FiniteSets

CONSTANT Row  \* the records a store may hold, numbered by the day they are from

ASSUME RowAssumption == Row \subseteq Nat

FactsVersion == 1  \* DIGEST_FACTS_SCHEMA_VERSION

Blank == [version |-> 0, tables |-> {}, columns |-> {}, events |-> {}, copy |-> {},
          derived |-> {}, torn |-> FALSE, marked |-> FALSE, digests |-> {}]

\* Mutant: the flag that asks for the rescore left out.
ShadowUnmarked == <<"create events_v4", "fill events_v4", "drop events", "rename events_v4",
            "recreate derived", "ensure storage_meta", "alter daily_digest",
            "empty daily_digest">>
\* Migration 4 of the list, MIGRATIONS.  CREATE TABLE IF NOT EXISTS and DROP
\* TABLE IF EXISTS are the statements that begin with ensure and recreate.
Shadow == <<"create events_v4", "fill events_v4", "drop events", "rename events_v4",
            "recreate derived", "ensure storage_meta", "mark", "alter daily_digest",
            "empty daily_digest">>
\* Mutant: the second migration as plain CREATE TABLEs.
MIGRATIONSPlain ==
  <<<<"ensure events", "create region_buckets", "ensure ingest_log">>,
    <<"create region_buckets">>, <<"ensure daily_digest">>, Shadow,
    <<"ensure coverage_ledger">>>>
MIGRATIONS ==
  <<<<"ensure events", "ensure derived", "ensure ingest_log">>,
    <<"recreate derived">>, <<"ensure daily_digest">>, Shadow,
    <<"ensure coverage_ledger">>>>

\* What a statement makes of a database it succeeds on.
Add(db, t) == [db EXCEPT !.tables = @ \cup {t}]
Apply(db, stmt) ==
  CASE stmt = "ensure events" -> Add(db, "events")
    [] stmt = "ensure derived" -> Add(db, "derived")
    [] stmt = "ensure ingest_log" -> Add(db, "ingest_log")
    [] stmt = "ensure daily_digest" -> Add(db, "daily_digest")
    [] stmt = "ensure storage_meta" -> Add(db, "storage_meta")
    [] stmt = "ensure coverage_ledger" -> Add(db, "coverage_ledger")
    [] stmt = "create region_buckets" -> Add(db, "derived")
    [] stmt = "recreate derived" -> [Add(db, "derived") EXCEPT !.derived = {}]
    [] stmt = "create events_v4" -> Add(db, "events_v4")
    [] stmt = "fill events_v4" -> [db EXCEPT !.copy = db.events]
    [] stmt = "drop events" -> [db EXCEPT !.tables = @ \ {"events"}, !.events = {}]
    [] stmt = "rename events_v4" ->
         [db EXCEPT !.tables = (@ \ {"events_v4"}) \cup {"events"},
                    !.columns = @ \cup {"family"}, !.events = db.copy, !.copy = {}]
    [] stmt = "mark" -> [db EXCEPT !.marked = TRUE]
    [] stmt = "alter daily_digest" -> [db EXCEPT !.columns = @ \cup {"facts_schema_version"}]
    [] stmt = "empty daily_digest" -> [db EXCEPT !.digests = {}]

\* When it fails instead: a table or column that is there already or is not,
\* and a copy from an `events` that has the new shape, or a second time.
Fails(db, stmt) ==
  \/ stmt = "create events_v4" /\ "events_v4" \in db.tables
  \/ stmt = "create region_buckets" /\ "derived" \in db.tables
  \/ stmt = "fill events_v4" /\ \/ "events" \notin db.tables \/ "family" \in db.columns
                                \/ db.copy \cap db.events # {}
  \/ stmt = "drop events" /\ "events" \notin db.tables
  \/ stmt = "rename events_v4" /\ "events" \in db.tables
  \/ stmt = "alter daily_digest" /\ "facts_schema_version" \in db.columns

\* A file that earlier builds left behind: version v, with rows and digests of
\* its time, its rebuild done or still asked for, and derived tables of other
\* rows when an ingest was cut off.
Reached[v \in 0 .. Len(MIGRATIONS)] ==
  IF v = 0 THEN Blank
  ELSE LET run[i \in 0 .. Len(MIGRATIONS[v])] ==
             IF i = 0 THEN Reached[v - 1] ELSE Apply(run[i - 1], MIGRATIONS[v][i])
       IN  [run[Len(MIGRATIONS[v])] EXCEPT !.version = v]

Used(v, E, D, m, G) ==
  [Reached[v] EXCEPT !.events = E, !.derived = D, !.marked = @ /\ m,
                     !.torn = D # E /\ ~ (Reached[v].marked /\ m), !.digests = G]
Files ==
  {Blank} \cup
  {Used(v, E, D, m, G) : v \in 1 .. Len(MIGRATIONS), E \in SUBSET Row, D \in SUBSET Row,
                         m \in BOOLEAN, G \in {{}, {0}}}

-----------------------------------------------------------------------------
\* rebuild_buckets(conn, None), and since the oldest of `new`: older buckets
\* are kept.  Store.tla takes both apart.
RescoreAll(db) == [db EXCEPT !.derived = db.events, !.torn = FALSE]
RescoreSince(db, new) ==
  LET Since(S) == {r \in S : \E n \in new : n <= r}
  IN  [db EXCEPT !.derived = (@ \ Since(@)) \cup Since(db.events)]

\* rebuild_if_marked
RebuildIfMarked(db) ==
  IF db.marked THEN [RescoreAll(db) EXCEPT !.marked = FALSE] ELSE db

\* prune_stale_digests
PruneStaleDigests(db) == [db EXCEPT !.digests = {v \in @ : v >= FactsVersion}]

Ready(db) ==
  /\ db.version = Len(MIGRATIONS)
  /\ {"events", "derived", "ingest_log", "daily_digest", "storage_meta", "coverage_ledger"}
       = db.tables
  /\ {"family", "facts_schema_version"} = db.columns
  /\ ~ db.marked
  /\ \A v \in db.digests : v >= FactsVersion
=============================================================================
