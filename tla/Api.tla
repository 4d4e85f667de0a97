-------------------------------- MODULE Api --------------------------------
(***************************************************************************)
(* What services/api says of one published version: each handler as the    *)
(* answer it gives, and the middleware around them.  A version is a record *)
(* of its name, when it was published and the events exported with it; the *)
(* buckets are those the worker derived from them.  `snap` is the version  *)
(* LATEST names, as a set of at most one.  How versions come and go while  *)
(* a request reads is Snapshot.tla's subject.                              *)
(***************************************************************************)
EXTENDS Reads

CONSTANTS ApiPageSize, \* DEFAULT_EVENTS_PAGE_SIZE
          StaleAfter,  \* HEALTH_STALE_THRESHOLD_SECS
          AllowAcled   \* LES_API_ALLOW_ACLED

ASSUME ApiAssumption == ApiPageSize \in Nat \ {0} /\ AllowAcled \in BOOLEAN

\* ApiError::into_response
Refusal(error) ==
  [status |-> CASE error = "NoSnapshot" -> 503 [] error = "BadRequest" -> 400 [] OTHER -> 500]
Said(body) == [status |-> 200, body |-> body]

\* resolve_snapshot, then the handler's query of the directory: `body` is what
\* it says of each version there is.
OfLatest(body) ==
  IF DOMAIN body = {} THEN Refusal("NoSnapshot")
  ELSE Said(body[CHOOSE s \in DOMAIN body : TRUE])

\* snapshot_staleness: an age of a clock that ran back is zero.
Staleness(now, published) ==
  LET age == IF now > published THEN now - published ELSE 0
  IN  [age |-> age, stale |-> age > StaleAfter]

Manifest(s) ==
  [version |-> s.version, published |-> s.published, events |-> Cardinality(s.events),
   buckets |-> Cardinality(ScoreBuckets(s.events))]

Health(snap, now) ==
  OfLatest([s \in snap |-> Manifest(s) @@ Staleness(now, s.published)])

Meta(snap) ==
  OfLatest([s \in snap |-> [extent |-> TimeExtent(s.events), themes |-> ThemeUse(s.events)]])

-----------------------------------------------------------------------------
\* /buckets: from the bucket the window starts in; of one cell when asked.
\* Mutant: only the buckets that start in the window.
BucketInWindowOnly(bucket, q) == InWindow(q, bucket)
BucketAsked(bucket, q) == BucketStart(q.start) <= bucket /\ bucket < q.end

BucketList(E, q) ==
  Ordered({b \in ScoreBuckets(E) : BucketAsked(b.bucket, q) /\ (q.cell = {} \/ b.cell \in q.cell)},
          LAMBDA a, b : a.cell < b.cell \/ (a.cell = b.cell /\ a.bucket < b.bucket))

Buckets(snap, q) ==
  IF q.end <= q.start THEN Refusal("BadRequest")
  ELSE OfLatest([s \in snap |-> BucketList(s.events, q)])

-----------------------------------------------------------------------------
\* EventPointDto: a point row (the cell stands for its coordinates) without its
\* source, themes or links.
EventPoint(e) ==
  [id |-> e.id, cell |-> e.cell, kind |-> e.kind, family |-> e.family, role |-> e.role,
   prec |-> e.prec, conf |-> e.conf, ts |-> e.ts, volume |-> e.volume, headline |-> e.headline]

\* The SQL half of /events: the window, the point rows and the licence; the
\* oldest of them, the id breaking ties, as many as are examined.
\* Mutant: the newest of them.
ExaminedNewest(E, q) ==
  Take(Ordered({e \in In(E, q) : /\ PointRow(e, q.minConf)
                                 /\ AllowAcled \/ e.source # "acled"}, Newer), MaxPointRows)
Examined(E, q) ==
  Take(Ordered({e \in In(E, q) : /\ PointRow(e, q.minConf)
                                 /\ AllowAcled \/ e.source # "acled"},
               LAMBDA a, b : a.ts < b.ts \/ (a.ts = b.ts /\ a.id < b.id)), MaxPointRows)

\* The other half: kinds and themes of what was examined, newest first, then
\* the page.  An absent filter is the empty set; an unknown kind is refused.
Matching(E, q) ==
  LET rows == Examined(E, q)
  IN  {e \in {rows[i] : i \in DOMAIN rows} :
         /\ q.kinds = {} \/ e.kind \in q.kinds
         /\ q.themes = {} \/ e.themes \cap q.themes # {}}

EventsPage(E, q) ==
  LET list == Ordered(Matching(E, q), Newer)
      offset == Clamp(q.offset, 0, Len(list))
      limit == IF q.limit = {} THEN ApiPageSize
               ELSE Clamp(CHOOSE n \in q.limit : TRUE, 1, MaxPointRows)
      page == Page(list, offset, limit)
  IN  [total |-> Len(list), limit |-> limit,
       rows |-> [i \in DOMAIN page |-> EventPoint(page[i])]]

Events(snap, q) ==
  IF q.end <= q.start \/ ~ (q.kinds \subseteq EventKind) THEN Refusal("BadRequest")
  ELSE OfLatest([s \in snap |-> EventsPage(s.events, q)])

-----------------------------------------------------------------------------
\* The layers, outermost first: the request's budget, its turn, its address's
\* quota, then the ETag and the route.  `load` is how the server stands.
Route(snap, r, now) ==
  CASE r.path = "/health" -> Health(snap, now)
    [] r.path = "/meta" -> Meta(snap)
    [] r.path = "/buckets" -> Buckets(snap, r.query)
    [] r.path = "/events" -> Events(snap, r.query)
    [] OTHER -> [status |-> 404]

\* etag_middleware: the version is stamped on what the route says, whatever it
\* is, and stands for it when the caller holds it.
Stamped(snap, r, now) ==
  LET version == {s.version : s \in snap}
  IN  IF version # {} /\ r.ifNoneMatch = version THEN [status |-> 304]
      ELSE LET said == Route(snap, r, now)
           IN  [x \in DOMAIN said \cup {"etag"} |-> IF x = "etag" THEN version ELSE said[x]]

Serve(snap, r, now, load) ==
  IF load.overdue THEN [status |-> 408]
  ELSE IF load.quota = 0 THEN [status |-> 429]
  ELSE Stamped(snap, r, now)
=============================================================================
