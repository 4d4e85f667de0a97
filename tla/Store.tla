------------------------------- MODULE Store -------------------------------
(***************************************************************************)
(* The storage actor (crates/storage/src/lib.rs): one OS thread owns the   *)
(* DuckDB connection and runs one command at a time.  An ingest is NOT a   *)
(* transaction: it is a sequence of autocommitted statements, and the      *)
(* process may die, or a statement fail, between any two of them.  A purge *)
(* is one transaction.  Queries are answered only between commands, so     *)
(* what a reader can see is the state in which the actor is idle.          *)
(***************************************************************************)
EXTENDS Scoring

CONSTANT Retention,   \* the retention settings, in days; 0 keeps everything
         MaxFaults    \* bound: crashes and failed statements per behaviour

ASSUME RetentionAssumption == Retention \subseteq Nat
ASSUME MaxFaultsAssumption == MaxFaults \in Nat

Table == {"region", "family", "baseline", "familyBaseline"}
Bucketed == {"region", "family"}      \* the tables a rescore keeps a prefix of

VARIABLES
  events,     \* durable: the events table
  table,      \* durable: the derived tables
  marker,     \* durable: storage_meta.derived_rebuild_required = '1'
  log,        \* durable: the sources with rows in ingest_log
  retention,  \* in the actor's memory only
  pc,         \* what the actor is doing
  at,         \* the derived table a rebuild has reached
  scope,      \* what the command in progress must rescore: none, since, all
  from,       \* the first bucket of a "since" rescore
  torn,       \* history: a command was cut off after it had changed the events
  faults      \* history: faults so far

vars == <<events, table, marker, log, retention, pc, at, scope, from, torn, faults>>
durable == <<events, table, marker, log>>

Stage == {"down", "idle", "log", "prune", "delete", "append", "mark"}

TypeOK ==
  /\ events \subseteq Record
  /\ DOMAIN table = Table
  /\ marker \in BOOLEAN
  /\ log \subseteq Source
  /\ retention \in Nat
  /\ pc \in Stage
  /\ at \in Table
  /\ scope \in {"none", "since", "all"}
  /\ from \in Nat
  /\ torn \in BOOLEAN
  /\ faults \in Nat

UniqueIn(E) == \A x, y \in E : x.id = y.id => x = y

\* A database the v4 migration has just run on, new or carried over: the
\* derived tables are recreated empty and the marker is set.
Init ==
  /\ events \in {E \in SUBSET Record : UniqueIn(E)}
  /\ table = [t \in Table |-> {}]
  /\ marker = TRUE
  /\ log = {}
  /\ retention = 0
  /\ pc = "down"
  /\ at = "region"
  /\ scope = "none"
  /\ from = 0
  /\ torn = FALSE
  /\ faults = 0

-----------------------------------------------------------------------------
BeginRebuild(s) == pc' = "delete" /\ at' = "region" /\ scope' = s

\* Mutant: the marker is taken down before the rebuild it asks for.
OpenClearingFirst ==
  /\ pc = "down"
  /\ retention' = 0
  /\ marker' = FALSE
  /\ \/ marker /\ BeginRebuild("all")
     \/ ~marker /\ pc' = "idle" /\ UNCHANGED <<at, scope>>
  /\ UNCHANGED <<events, table, log, from, torn, faults>>

\* StorageHandle::open: migrate (nothing left to do), rebuild_if_marked, then
\* the actor starts with no retention until the app sets it.
Open ==
  /\ pc = "down"
  /\ retention' = 0
  /\ \/ marker /\ BeginRebuild("all")
     \/ ~marker /\ pc' = "idle" /\ UNCHANGED <<at, scope>>
  /\ UNCHANGED <<durable, from, torn, faults>>

SetRetention(days) ==
  /\ pc = "idle"
  /\ retention' = days
  /\ UNCHANGED <<durable, pc, at, scope, from, torn, faults>>

\* The rows of a batch that dedup lets through: ids not in the table, and of
\* two rows with one id the first of the batch, whichever that is.
Deduped(batch, kept) ==
  /\ kept \subseteq batch
  /\ UniqueIn(kept)
  /\ {r.id : r \in kept} = {r.id : r \in batch} \ {r.id : r \in events}

\* do_ingest up to the appender's flush.
Ingest(batch, kept) ==
  /\ pc = "idle"
  /\ Deduped(batch, kept)
  /\ events' = events \cup kept
  /\ pc' = "log"
  /\ \/ kept = {} /\ scope' = "none" /\ UNCHANGED from
     \/ /\ scope' = "since"
        /\ \E r \in kept : (\A x \in kept : r.ts <= x.ts) /\ from' = BucketStart(r.ts)
  /\ UNCHANGED <<table, marker, log, retention, at, torn, faults>>

IngestLog(failing) ==
  /\ pc = "log"
  /\ log' = log \cup failing
  /\ pc' = "prune"
  /\ UNCHANGED <<events, table, marker, retention, at, scope, from, torn, faults>>

Newest == {e \in events : \A x \in events : x.ts <= e.ts}
\* Mutants: the cutoff is a day late; it is measured from the oldest row.
ExpiredDayLate == {e \in events : retention > 0
              /\ \E n \in Newest : e.ts < 24 * (Day(n.ts - 24 * retention) + 1)}
ExpiredFromOldest == {e \in events : retention > 0
              /\ \E n \in events : (\A x \in events : n.ts <= x.ts)
                                  /\ e.ts < 24 * Day(n.ts - 24 * retention)}

\* Records before the UTC day that lies `retention` days before the newest.
Expired == {e \in events : retention > 0
              /\ \E n \in Newest : e.ts < 24 * Day(n.ts - 24 * retention)}

\* prune_events, and what do_ingest decides to rescore.
IngestPrune ==
  /\ pc = "prune"
  /\ events' = events \ Expired
  /\ \/ Expired # {} /\ BeginRebuild("all")
     \/ Expired = {} /\ scope = "since" /\ BeginRebuild("since")
     \/ Expired = {} /\ scope = "none" /\ pc' = "idle" /\ UNCHANGED <<at, scope>>
  /\ UNCHANGED <<table, marker, log, retention, from, torn, faults>>

-----------------------------------------------------------------------------
\* rebuild_buckets: DELETE and append, table by table, then the marker.
Next1 == [region |-> "family", family |-> "baseline", baseline |-> "familyBaseline"]
Partial(t) == scope = "since" /\ t \in Bucketed

Scored == Score(IF scope = "since" THEN ReadSince(events, ScoreReadStart(from)) ELSE events)

RebuildDelete ==
  /\ pc = "delete"
  /\ table' = [table EXCEPT ![at] = IF Partial(at) THEN Below(@, from) ELSE {}]
  /\ pc' = "append"
  /\ UNCHANGED <<events, marker, log, retention, at, scope, from, torn, faults>>

RebuildAppend ==
  /\ pc = "append"
  /\ table' = [table EXCEPT ![at] =
                 @ \cup IF Partial(at) THEN AtOrAfter(Scored[at], from) ELSE Scored[at]]
  /\ \/ at # "familyBaseline" /\ at' = Next1[at] /\ pc' = "delete"
     \/ at = "familyBaseline" /\ UNCHANGED at /\ pc' = "mark"
  /\ UNCHANGED <<events, marker, log, retention, scope, from, torn, faults>>

ClearMarker ==
  /\ pc = "mark"
  /\ marker' = FALSE
  /\ torn' = (torn /\ scope # "all")
  /\ pc' = "idle"
  /\ scope' = "none"
  /\ UNCHANGED <<events, table, log, retention, at, from, faults>>

-----------------------------------------------------------------------------
\* do_purge_source: the swap and the full rebuild commit together.
PurgeSource(s) ==
  /\ pc = "idle"
  /\ log' = log \ {s}
  /\ \/ /\ \A e \in events : e.source # s
        /\ UNCHANGED <<events, table, marker, torn>>
     \/ /\ \E e \in events : e.source = s
        /\ events' = {e \in events : e.source # s}
        /\ table' = Score(events')
        /\ marker' = FALSE
        /\ torn' = FALSE
  /\ UNCHANGED <<retention, pc, at, scope, from, faults>>

-----------------------------------------------------------------------------
\* The derived tables no longer follow from the events, and nothing durable
\* says so.
CutOff == torn' = (torn \/ (pc \notin {"idle", "down", "mark"} /\ ~marker /\ scope # "none"))

\* The process dies: memory is lost, committed statements are not.
Crash ==
  /\ faults < MaxFaults /\ faults' = faults + 1
  /\ pc # "down"
  /\ pc' = "down"
  /\ scope' = "none"
  /\ retention' = 0
  /\ CutOff
  /\ UNCHANGED <<durable, at, from>>

\* A statement of the command returns an error: `?` leaves the command and
\* the actor waits for the next one.  An error while opening is the app's end.
StatementFails ==
  /\ faults < MaxFaults /\ faults' = faults + 1
  /\ pc \in {"log", "prune", "delete", "append", "mark"}
  /\ pc' = IF marker THEN "down" ELSE "idle"
  /\ scope' = "none"
  /\ CutOff
  /\ UNCHANGED <<durable, retention, at, from>>

-----------------------------------------------------------------------------
Next ==
  \/ Open
  \/ \E days \in Retention : SetRetention(days)
  \/ \E batch \in SUBSET Record : \E kept \in SUBSET batch : Ingest(batch, kept)
  \/ \E failing \in SUBSET Source : IngestLog(failing)
  \/ IngestPrune
  \/ RebuildDelete
  \/ RebuildAppend
  \/ ClearMarker
  \/ \E s \in Source : PurgeSource(s)
  \/ Crash
  \/ StatementFails

Spec == Init /\ [][Next]_vars

\* The actor thread keeps running and the user starts the app again.
ActorStep == Open \/ (\E failing \in SUBSET Source : IngestLog(failing)) \/ IngestPrune
               \/ RebuildDelete \/ RebuildAppend \/ ClearMarker
FairSpec == Spec /\ WF_vars(ActorStep)

-----------------------------------------------------------------------------
\* The tables the bounded read is exact for.
ExactTables == {"region", "family", "baseline"}
FreshTable(t) == table[t] = Score(events)[t]

\* Whenever a query can be answered and no command was cut off, buckets,
\* family buckets and baselines are what a full rescore of the events would
\* give, however the events came in: in order, as a backfill, as duplicates,
\* pruned or purged (do_ingest, rebuild_buckets, read_score_events_since).
DerivedFresh ==
  pc = "idle" /\ ~torn => \A t \in ExactTables : FreshTable(t)

\* The events table never holds two rows with one id, although batches repeat
\* ids and sources revise records under the same id (do_ingest's dedup).
UniqueIds == UniqueIn(events)

\* A row leaves the events table only because its whole source is purged or
\* because it is older than the retention in force, measured from the newest
\* row; a crash, a failed statement or a re-ingest never loses one.
LossOnlyByPolicy ==
  [][\A e \in events \ events' :
       \/ \E n \in events : retention > 0 /\ n.ts - e.ts > 24 * retention
       \/ \A x \in events : x.source = e.source <=> x \notin events']_vars

\* "At least N days, enforced to the day": after an ingest has applied the
\* retention, no row is N+1 days or more older than the newest (prune_events).
RetentionToTheDay ==
  [][pc = "prune" /\ pc' \in {"delete", "idle"} /\ retention > 0 /\ faults' = faults
       => \A e, n \in events' : n.ts - e.ts < 24 * (retention + 1)]_vars

\* The migration's mark outlives any crash during the rebuild it asks for:
\* the store ends up answering from a full rescore (rebuild_if_marked).
MarkerHonoured ==
  marker ~> (pc = "idle" /\ ~marker /\ \A t \in Table : FreshTable(t))

\* docs/DATA_MODEL.md:417: region_buckets are "recomputed from `events` after
\* every ingest", and do_ingest's comment that with nothing new "nothing
\* derived can have changed" - also after a command was cut off.
DerivedFollowsEvents ==
  pc = "idle" => \A t \in ExactTables : FreshTable(t)

=============================================================================
