------------------------------ MODULE Scoring ------------------------------
(***************************************************************************)
(* The derived tables of the store, as a function of the events table      *)
(* (crates/analytics: score_buckets, BaselineIndex), and the bounded read  *)
(* crates/storage uses to rescore only the buckets that can have changed.  *)
(*                                                                         *)
(* Timestamps are whole hours: a bucket is 6 of them (BUCKET_SECS), a UTC  *)
(* day is 24.  A baseline is the median of a window of daily counts; the   *)
(* model keeps the window itself, day by day, which determines the median, *)
(* the number of sample days and the cold-start flag.  A score of a bucket *)
(* is a function of that bucket's own records, which the model keeps as    *)
(* the per-family record counts.                                           *)
(***************************************************************************)
EXTENDS Integers, FiniteSets

CONSTANT Id,          \* event ids: hash of (source, source_event_id)
         Source,      \* the sources an event can be attributed to
         Cell,        \* H3 cells
         Record,      \* the normalized events the adapters can hand over
         WindowDays   \* BASELINE_WINDOW_DAYS

\* SignalFamily, and the families that enter the generic spike.
Family == {"media_attention", "recorded_event", "chatter",
           "official_alert", "measurement"}
GenericSpike == {"media_attention", "recorded_event"}

ASSUME RecordAssumption ==
  Record \subseteq [id : Id, source : Source, cell : Cell, ts : Nat, family : Family]
ASSUME WindowAssumption == WindowDays \in Nat \ {0}

-----------------------------------------------------------------------------
Day(ts) == ts \div 24
BucketStart(ts) == 6 * (ts \div 6)
Tod(ts) == (ts % 24) \div 6        \* 0..3: the 6-hour slot of the day
TodBuckets == 0 .. 3

\* BaselineIndex counts: records of E in one cell, day and time of day.
CountAt(E, c, tod, d) ==
  Cardinality({e \in E : e.cell = c /\ Tod(e.ts) = tod /\ Day(e.ts) = d})

\* The days a trailing median sees: the WindowDays days before `day`, clipped
\* to the first day any record of `All` falls on.
SampleDays(All, day) ==
  {d \in (day - WindowDays) .. (day - 1) : \E e \in All : Day(e.ts) <= d}

\* BaselineIndex::trailing.  `All` are the records the index was built from
\* (they set first_day), `E` the ones that are counted.
Trailing(All, E, c, tod, day) ==
  [d \in SampleDays(All, day) |-> CountAt(E, c, tod, d)]

OfFamily(E, f) == {e \in E : e.family = f}
Generic(E) == {e \in E : e.family \in GenericSpike}

\* max(day) over the records: a singleton, or empty when there are none.
LastDays(E) == {d \in {Day(e.ts) : e \in E} : \A x \in E : Day(x.ts) <= d}

-----------------------------------------------------------------------------
\* The four derived tables.
InBucket(E, c, b) == {e \in E : e.cell = c /\ BucketStart(e.ts) = b}

\* A bucket exists as soon as one record of any family falls in it; its spike
\* compares the generic families with their own trailing window.
RegionRow(E, c, b) ==
  [cell |-> c, bucket |-> b,
   own |-> [f \in GenericSpike |-> Cardinality(OfFamily(InBucket(E, c, b), f))],
   baseline |-> Trailing(E, Generic(E), c, Tod(b), Day(b))]
RegionRows(E) == {RegionRow(E, e.cell, BucketStart(e.ts)) : e \in E}

FamilyRow(E, c, b, f) ==
  [cell |-> c, bucket |-> b, family |-> f,
   count |-> Cardinality(OfFamily(InBucket(E, c, b), f))]
FamilyRows(E) == {FamilyRow(E, e.cell, BucketStart(e.ts), e.family) : e \in E}

\* "As of the newest data": the window that ends on the last day, inclusive,
\* for every cell the index ever saw.
BaselineRow(E, c, tod, last) ==
  [cell |-> c, tod |-> tod, baseline |-> Trailing(E, Generic(E), c, tod, last + 1)]
BaselineRows(E) ==
  {BaselineRow(E, e.cell, tod, last) : e \in E, tod \in TodBuckets, last \in LastDays(E)}

\* Each family has an index of its own: first_day and the cells are the
\* family's, the last day is the store's.
FamilyBaselineRow(E, c, tod, f, last) ==
  [cell |-> c, tod |-> tod, family |-> f,
   baseline |-> Trailing(OfFamily(E, f), OfFamily(E, f), c, tod, last + 1)]
FamilyBaselineRows(E) ==
  {FamilyBaselineRow(E, e.cell, tod, e.family, last) :
     e \in E, tod \in TodBuckets, last \in LastDays(E)}

Score(E) == [region |-> RegionRows(E), family |-> FamilyRows(E),
             baseline |-> BaselineRows(E), familyBaseline |-> FamilyBaselineRows(E)]

-----------------------------------------------------------------------------
\* The bounded read.

\* Hours back to which buckets at or after `from` need the events.
ScoreReadStart(from) == 24 * Day(from - 24 * WindowDays)

\* The oldest records of every cell that has records before t.
OldestBefore(E, t) ==
  {e \in E : e.ts < t /\ \A x \in E : x.cell = e.cell => e.ts <= x.ts}

\* Mutant: the recent slice alone, without the oldest row of every cell.
ReadSinceNoTail(E, t) == {e \in E : e.ts >= t}

\* read_score_events_since
ReadSince(E, t) == {e \in E : e.ts >= t} \cup OldestBefore(E, t)

Below(rows, from) == {r \in rows : r.bucket < from}
AtOrAfter(rows, from) == {r \in rows : r.bucket >= from}
=============================================================================
