------------------------------ MODULE Pipeline ------------------------------
(***************************************************************************)
(* A poll from end to end: a provider's answer, the adapter that reads it, *)
(* the ingest that keeps what is new, and every view the store gives of    *)
(* what it kept.  The composition of Matchers (what posts are about),      *)
(* Adapters (what an answer becomes), Reads (the desktop's queries), Api   *)
(* (the public ones) and Digest (the Daily Events page's).                 *)
(* Each command of the store is atomic here; Store.tla and Actor.tla are   *)
(* about why that is so.                                                   *)
(***************************************************************************)
EXTENDS AcledLive, Adapters, Api, Digest, Matchers

CONSTANT Answers,   \* what the providers may answer, see MCPipeline
         Models,    \* what the language model may answer
         Windows,   \* the windows a view may ask for
         MaxPolls,  \* bound: polls per behaviour
         MaxDigests \* bound: digests written per behaviour

VARIABLES
  rows,    \* the events table
  log,     \* ingest_log: the number of rows
  report,  \* the IngestReport of the last poll, or its fetch error
  token,   \* the bearer token AcledSource caches, in memory only
  digest,  \* daily_digest: the answer kept for a day
  last,    \* history: the answer the last poll got
  served,  \* history: what the records served so far describe
  polls    \* history: polls so far

vars == <<rows, log, report, token, digest, last, served, polls>>

Days == {e.ts \div 24 : e \in rows}
Content(e) == [e EXCEPT !.id = 0]

\* SignalSource::fetch of the source the answer is for, by a client that holds
\* `cached` at the time `now`.  The rows of a chatter answer are what Rollups
\* drains of the posts it had.
Fetch(a, cached, now) ==
  CASE a.leg = "doc" -> FetchDoc(a.query, a.resp)
    [] a.leg \in {"events", "gkg"} -> FetchDump(a.leg, a.pointer, a.resp)
    [] a.leg = "noaa" -> FetchNoaa(a.resp)
    [] a.leg = "ioda" -> FetchIoda(a.resp)
    [] a.leg = "fixture" -> FetchFixtures(a.files, a.window)
    [] a.leg = "acled" -> FetchAcled(cached, a.server, a.window, now)
    [] OTHER -> Fetched(a.rows)

\* What the types of the code say of an answer: a body is a list (Vec), and
\* the id, the time, the cell, the volume and the severity of an event that a
\* record of it becomes are numbers.
IsList(s) == s \in Seq(Range(s))
Lists(a) ==
  CASE a.leg = "acled" -> {a.server.rows}
    [] a.leg = "fixture" -> {a.files} \cup {f.rows : f \in Range(a.files)}
    [] a.leg \in {"doc", "events", "gkg", "noaa", "ioda"} -> {a.resp.rows}
    [] OTHER -> {a.rows}
RecordsOf(a) ==
  IF a.leg = "acled" THEN Range(a.server.rows) ELSE Range(Fetch(a, {}, 0).rows)

ASSUME AnswersAssumption ==
  \A a \in Answers :
    /\ \A s \in Lists(a) : IsList(s)
    /\ \A raw \in RecordsOf(a) :
         /\ raw.form = "gkg" => IsList(raw.mentions)
         /\ \A e \in Range(Normalize(a.source, raw).events) :
              /\ {e.id, e.ts, e.cell, e.volume} \subseteq Nat /\ e.sev \in Int

\* A window ends after it starts.  An answer of the model is a whole one when
\* all of it came and was given, and it is JSON, neither blocked nor cut off, and
\* has both sections.
ASSUME WindowsAssumption ==
  \A w \in Windows : w.start \in Nat /\ w.end \in Nat /\ w.start < w.end
ASSUME ModelsAssumption ==
  \A r \in Models :
    r.body.whole <=> /\ r.came = "all" /\ r.status \in 200 .. 299
                     /\ r.body.json /\ ~ r.body.blocked /\ r.body.candidate
                     /\ r.body.finish \in {"", "STOP"} /\ r.body.text = "both"

NoReport == [err |-> "none", received |-> 0, inserted |-> 0, duplicates |-> 0, failures |-> 0]

\* do_ingest: the first row of every id that is not there yet.
New(events) ==
  {events[i] : i \in {k \in DOMAIN events :
     /\ \A r \in rows : r.id # events[k].id
     /\ \A j \in 1 .. k - 1 : events[j].id # events[k].id}}

\* One cycle of one source: fetch, partition_normalized, ingest.  A failed
\* fetch ingests nothing.
Poll(a) ==
  LET got == Fetch(a, token, polls)
      part == PartitionNormalized(a.source, got.rows)
      new == New(part.events)
  IN  /\ polls < MaxPolls /\ polls' = polls + 1
      /\ rows' = rows \cup new
      /\ log' = log + part.failures
      /\ report' = [err |-> got.err, received |-> Len(got.rows),
                    inserted |-> Cardinality(new),
                    duplicates |-> Len(part.events) - Cardinality(new),
                    failures |-> part.failures]
      /\ token' = IF a.leg = "acled" THEN got.token ELSE token
      /\ last' = a
      /\ served' = served \cup {Content(part.events[i]) : i \in DOMAIN part.events}
      /\ UNCHANGED digest

\* purge_source, at the start of the desktop.
PurgeSource(s) ==
  /\ \E e \in rows : e.source = s
  /\ rows' = {e \in rows : e.source # s}
  /\ served' = {c \in served : c.source # s}
  /\ UNCHANGED <<log, report, token, digest, last, polls>>

\* One digest: the day's facts, the call, and the row of a good answer.
WriteDigest(day, resp) ==
  /\ day \in Days /\ Cardinality(DOMAIN digest) < MaxDigests
  /\ Generate(DigestFacts(rows, day), resp) = "ok"
  /\ digest' = [d \in DOMAIN digest \cup {day} |-> IF d = day THEN resp.body ELSE digest[d]]
  /\ UNCHANGED <<rows, log, report, token, last, served, polls>>

Init ==
  /\ rows = {} /\ log = 0 /\ report = NoReport /\ token = {} /\ digest = <<>>
  /\ last = [leg |-> "none"] /\ served = {} /\ polls = 0

Next ==
  \/ \E a \in Answers : Poll(a)
  \/ PurgeSource("fixtures")
  \/ \E day \in Days, resp \in Models : WriteDigest(day, resp)

Spec == Init /\ [][Next]_vars

-----------------------------------------------------------------------------
Cells == {e.cell : e \in rows}
SumOf(f) == MapThenSumSet(LAMBDA k : f[k], DOMAIN f)

\* A poll's answer is accounted for.  One that reports a quiet provider had a
\* provider with nothing to report: a rejected query, which DOC answers with 200
\* and a sentence, a rate limit and an unexpected body are errors.  Of the
\* records served the broken ones are in the ingest log and the others became
\* rows, or were there, or are context the adapter says it skips.  And no two
\* records that say different things share a row: the places of one article,
\* the classes of one rollup and the ids of two sources stay apart
\* (doc::articles, partition_normalized, event_id).
AnswerAccounted ==
  /\ last.leg # "none" /\ last.matches > 0 => report.err # "none" \/ report.received > 0
  /\ last.leg # "none" /\ report.err = "none" =>
       /\ report.failures = last.broken
       /\ report.inserted + report.duplicates = last.events
  /\ {Content(e) : e \in rows} = served

\* A post counts once, under the place and the topic a reader finds in it: never
\* under a shorter name inside a longer one, a name that is also a common word,
\* a syllable that only looks like the keyword's end, or a second place it
\* names (ChatterAccumulator::observe, find_window, ScriptMatcher::find).
PostsCountOnce ==
  last.leg = "rollup" =>
    LET chat == {e \in rows : e.source = last.source}
        about(cell, topic) == {i \in DOMAIN last.posts : last.posts[i].about = <<cell, topic>>}
    IN  /\ Volume(chat) = Cardinality({i \in DOMAIN last.posts : last.posts[i].about # <<>>})
        /\ \A e \in chat : \A topic \in {TopicTheme(i) : i \in DOMAIN TOPICS} \cap e.themes :
             Volume({f \in chat : f.cell = e.cell /\ topic \in f.themes})
               = Cardinality(about(e.cell, topic))

\* A row drawn as a point is at a place, and a place the record is about.
\* The query looks at the precision only, so this rests on the adapters: an
\* article counted at its outlet's country is never finer than a country
\* (do_query_points, docs/SIGNAL_MODEL.md).
PointsAreReal ==
  \A w \in Windows :
    \A drawn \in QueryPoints(rows, w, {}, {}, 0) : \A e \in drawn :
      IsSpatiallyMeaningful(e.role) /\ e.prec \notin {"country", "admin1"}

\* Posts are not articles and alerts are not coverage, in any view: the articles
\* of an inspector whose cell it holds are its attention rows', its ledger and the
\* digest's event half hold no attention and no chatter, the parts of a day
\* add up to its rows, and the pager, the histogram and the alert layer count
\* what the other views list.  The pages of a region's ledger, of one row or of
\* two, show every row once, however many rows share a time
\* (do_region_detail, do_region_events, digest_*).
CountsApart ==
  /\ \A w \in Windows, c \in Cells, limit \in 1 .. 2 :
       LET all == RegionEvents(rows, c, w, 0, Cardinality(rows))
           page(k) == RegionEvents(rows, c, w, k * limit, limit).rows
           shown[k \in 0 .. all.total] == IF k = 0 THEN <<>> ELSE shown[k - 1] \o page(k - 1)
       IN  shown[all.total] = all.rows /\ Len(all.rows) = all.total
  /\ \A w \in Windows, c \in Cells :
       LET detail == RegionDetail(rows, c, w)
           ledger == RegionEvents(rows, c, w, 0, Cardinality(rows)).rows
           att == {e \in rows : e.cell = c /\ InWindow(w, e.ts) /\ e.kind = "news_attention"}
       IN  /\ Cardinality(InCell(rows, c, w)) <= MaxDetailRows =>
                /\ detail.articles = Volume(att)
                /\ detail.outlets = UNION {e.outlets : e \in att}
           /\ \A i \in DOMAIN ledger : ledger[i].kind \notin {"news_attention", "chatter"}
  /\ \A d \in Days :
       LET facts == DigestFacts(rows, d)
           today == {e \in rows : e.ts \div 24 = d}
           listed == DigestDays(rows, Cardinality(Days))
       IN  /\ [day |-> d, attention |-> facts.attention.records,
               events |-> facts.events.records] \in Range(listed)
           /\ SumOf(facts.events.byKind) = facts.events.records
           /\ SumOf(facts.events.bySource) = facts.events.records
           /\ facts.attention.records + facts.events.records
                = Cardinality({e \in today : InDigest(e.family)})
  /\ SumOf([p \in TimelineHistogram(rows) |-> p.count]) = Cardinality(rows)
  /\ \A w \in Windows :
       SumOf([a \in Range(AlertCells(rows, w)) |-> a.alerts])
         = Cardinality({e \in In(rows, w) : e.family = "official_alert"})

\* Records whose licence or nature forbids it are counted for the digest and
\* never sent word for word, and what is kept of the answer is a whole one: both
\* sections, not cut off at the token limit and not what was left of a refusal
\* (row_level_permitted, digest_facts, parse_response).
NothingWithheldLeaves ==
  /\ \A d \in Days :
       LET facts == DigestFacts(rows, d)
       IN  /\ Sent(facts) \cap {"acled", "bluesky", "telegram", "fixtures"} = {}
           /\ \A e \in EventsOf(rows, d) :
                e.source \in {"acled", "fixtures"} => facts.events.countsOnly[e.source] > 0
  /\ \A d \in DOMAIN digest : digest[d].whole

\* The rows that may leave and that one of the two shows and the other does not.
Apart(drawn, seen) ==
  {e \in rows : /\ AllowAcled \/ e.source # "acled"
                /\ ~ (e \in drawn <=> \E p \in Range(seen) : p.id = e.id)}

\* What a client gathers from the API's pages, of every kind or of one, is what
\* the desktop draws as points, newest first and every row once, but for the
\* licensed rows, of which none leaves unless the deployment allows it.  Beyond
\* the cap on rows the two may part, since the desktop's query counts the
\* licensed rows and leaves the order of one time open: but never over a row
\* older than any the desktop draws.  And each row is counted in a bucket that
\* /buckets gives for the same window, which may begin inside it (events,
\* do_query_points, buckets, LES_API_ALLOW_ACLED).
PublicPagesAgree ==
  \A w \in Windows, kinds \in {{}} \cup {{e.kind} : e \in rows} :
    LET snap == {[version |-> polls, published |-> polls, events |-> rows]}
        get(path, offset) ==
          Serve(snap, [path |-> path, ifNoneMatch |-> {},
                       query |-> [start |-> w.start, end |-> w.end, cell |-> {},
                                  kinds |-> kinds, themes |-> {}, minConf |-> 0,
                                  offset |-> offset, limit |-> {}]],
                polls, [overdue |-> FALSE, quota |-> 1]).body
        points == {e \in In(rows, w) : PointRow(e, 0)}
    IN  \A total \in {get("/events", 0).total} :
          LET pages == (total + ApiPageSize - 1) \div ApiPageSize
              gathered[k \in 0 .. pages] ==
                IF k = 0 THEN <<>>
                ELSE gathered[k - 1] \o get("/events", (k - 1) * ApiPageSize).rows
          IN  \A seen \in {gathered[pages]} :
                /\ Len(seen) = total
                /\ \A i \in 1 .. total - 1 : Newer(seen[i], seen[i + 1])
                /\ \A drawn \in QueryPoints(rows, w, kinds, {}, 0) :
                     /\ Cardinality(points) <= MaxPointRows => Apart(drawn, seen) = {}
                     /\ \A e \in Apart(drawn, seen), d \in drawn : d.ts <= e.ts
                /\ AllowAcled \/ {e.id : e \in {x \in rows : x.source = "acled"}}
                                    \cap {p.id : p \in Range(seen)} = {}
                /\ {<<p.cell, BucketStart(p.ts)>> :
                       p \in {x \in Range(seen) : EntersAttention(x.family) \/ EntersUnrest(x.family)}}
                     \subseteq {<<b.cell, b.bucket>> : b \in Range(get("/buckets", 0))}

\* Two windows agree about a bucket both of them show, with a theme filter or
\* without: a bucket's scores and baseline do not depend on the window it is
\* looked at through (do_query_buckets).
WindowsAgree ==
  \A v, w \in Windows, themes \in {{}} \cup {e.themes : e \in rows} :
    LET of(x) == {b \in QueryBuckets(rows, x, themes) :
                    /\ b.bucket \in BucketStart(v.start) .. v.end - 1
                    /\ b.bucket \in BucketStart(w.start) .. w.end - 1}
    IN  of(v) = of(w)

\* A composed score is a weighted mean: it never leaves the range of a score.
\* The four ways of looking at a cell's past agree: a series holds every record
\* of the cell's buckets, the history over the whole extent every record that
\* enters a score, and only cells with both halves are ranked against each
\* other.  A mover is a bucket with a baseline behind it, and every halo is
\* drawn around one (compose_window, cell_series, do_region_history,
\* divergence_ranks, top_movers, spike_halo_cells).
ScoresStayWhole ==
  /\ \A w \in Windows :
       LET B == SelectBuckets(rows, w)
           movers == Range(TopMovers(B))
           halos == Range(SpikeHaloCells(B))
       IN  /\ \A m \in movers : \E b \in B : /\ b.cell = m.cell /\ b.bucket = m.bucket
                                             /\ ~ b.cold /\ b.spike = m.spike
           /\ Cardinality(WarmCells(B)) <= MoversLimit =>
                \A h \in halos : \E m \in movers : m.cell = h.cell /\ m.spike = h.spike
  /\ \A w \in Windows, c \in Cells :
       LET own == CellBuckets(rows, c, w)
           series == CellSeries(SelectBuckets(rows, w), c, w)
       IN  /\ \A s \in ComposeWindow(own, w) :
                \A part \in {s.attention, s.unrest, s.spike, s.combined} : part \in 0 .. 100
           /\ MapThenSumSet(LAMBDA i : series[i], DOMAIN series)
                = MapThenSumSet(Records, own)
           /\ \A t \in TimeExtent(rows) :
                MapThenSumSet(LAMBDA h : h.records, Range(RegionHistory(rows, c, t.end)))
                  = Cardinality({e \in rows : /\ e.cell = c
                                              /\ e.kind \notin {"alert", "chatter"}
                                              /\ BucketStart(e.ts) >= t.end - 24 * WindowDays})
           /\ \A r \in DivergenceRanks(CellComponents(SelectBuckets(rows, w), [x \in Cells |-> x])) :
                \A rank \in r.rank :
                  /\ rank \in -100 .. 100
                  /\ \E e, f \in rows : /\ e.cell = r.cell /\ f.cell = r.cell
                                        /\ EntersAttention(e.family) /\ EntersUnrest(f.family)
=============================================================================
