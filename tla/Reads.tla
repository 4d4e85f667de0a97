------------------------------- MODULE Reads -------------------------------
(***************************************************************************)
(* The queries of crates/storage over a settled store: the events table is *)
(* the set E, and the derived tables are what score_buckets makes of it    *)
(* (Store.tla is about when they are).  A window is [start, end).  A list  *)
(* is a sequence where the query orders it and a set where it does not.    *)
(***************************************************************************)
EXTENDS Analytics

CONSTANT MaxPointRows,   \* MAX_POINT_ROWS
         MaxDetailRows,  \* MAX_DETAIL_ROWS
         MaxSourceLinks, \* MAX_SOURCE_LINK_ROWS
         MaxHeadlineRows \* the headlines an inspector lists

ASSUME ReadsAssumption ==
  /\ MaxPointRows \in Nat \ {0} /\ MaxDetailRows \in Nat
  /\ MaxSourceLinks \in Nat /\ MaxHeadlineRows \in Nat

In(E, window) == {e \in E : InWindow(window, e.ts)}
InCell(E, cell, window) == {e \in In(E, window) : e.cell = cell}

\* Newest first; the id breaks ties.
Newer(a, b) == a.ts > b.ts \/ (a.ts = b.ts /\ a.id > b.id)

\* do_time_extent: none while the store is empty.
TimeExtent(E) ==
  IF E = {} THEN {} ELSE {[start |-> Min({e.ts : e \in E}), end |-> Max({e.ts : e \in E}) + 1]}

\* do_theme_vocab: most used first, then by name.
ThemeUse(E) ==
  LET uses(t) == Cardinality({e \in E : t \in e.themes})
  IN  Ordered({[theme |-> t, uses |-> uses(t)] : t \in UNION {e.themes : e \in E}},
              LAMBDA a, b : a.uses > b.uses \/ (a.uses = b.uses /\ a.theme < b.theme))

\* select_buckets: from the bucket the window starts in.
SelectBuckets(E, window) ==
  {b \in ScoreBuckets(E) : BucketStart(window.start) <= b.bucket /\ b.bucket < window.end}
CellBuckets(E, cell, window) == {b \in SelectBuckets(E, window) : b.cell = cell}

\* do_query_buckets: a theme filter rescores the events that carry one, over
\* the whole history, and cuts the window out afterwards.
\* Mutant: the events cut before they are scored.
QueryBucketsCut(E, window, themes) ==
  SelectBuckets({e \in In(E, window) : themes = {} \/ e.themes \cap themes # {}}, window)
QueryBuckets(E, window, themes) ==
  SelectBuckets({e \in E : themes = {} \/ e.themes \cap themes # {}}, window)

\* do_timeline_histogram
TimelineHistogram(E) ==
  {[bucket |-> BucketStart(e.ts), family |-> e.family, kind |-> e.kind,
    count |-> Cardinality({x \in E : /\ BucketStart(x.ts) = BucketStart(e.ts)
                                     /\ x.family = e.family /\ x.kind = e.kind})] : e \in E}

\* do_alert_cells: NOAA only, the most severe first.
AlertCells(E, window) ==
  LET alerts(c) == {e \in InCell(E, c, window) : e.source = "noaa"}
      of(c) == [cell |-> c, severity |-> Largest({Clamp(e.sev, 0, 100) : e \in alerts(c)}),
                alerts |-> Cardinality(alerts(c))]
  IN  Ordered({of(c) : c \in {x \in {e.cell : e \in In(E, window)} : alerts(x) # {}}},
              LAMBDA a, b : \/ a.severity > b.severity
                            \/ a.severity = b.severity /\ a.alerts > b.alerts
                            \/ a.severity = b.severity /\ a.alerts = b.alerts /\ a.cell < b.cell)

\* do_query_points: precision and confidence in SQL, oldest first and capped;
\* kinds, themes and video after the cap.  ORDER BY names only the time, so which
\* rows of the last time are within the cap is open: these are the sets of rows
\* the query may answer.
PointRow(e, minConf) == e.prec \in {"city", "exact"} /\ e.conf >= minConf
OldestRows(rows) ==
  {K \in SUBSET rows : /\ Cardinality(K) = Min({MaxPointRows, Cardinality(rows)})
                       /\ \A e \in K, f \in rows \ K : e.ts <= f.ts}
QueryPoints(E, window, kinds, themes, minConf) ==
  {{e \in K : /\ kinds = {} \/ e.kind \in kinds
              /\ themes = {} \/ e.themes \cap themes # {}} :
     K \in OldestRows({e \in In(E, window) : PointRow(e, minConf)})}

\* do_region_history: the buckets of the baseline window before `until`.
RegionHistory(E, cell, until) ==
  LET own == {b \in ScoreBuckets(E) :
                b.cell = cell /\ until - 24 * WindowDays <= b.bucket /\ b.bucket < until}
  IN  Ordered({[bucket |-> b.bucket, records |-> Records(b), baseline |-> b.baseline,
                cold |-> b.cold] : b \in own}, LAMBDA a, b : a.bucket < b.bucket)

-----------------------------------------------------------------------------
\* do_region_events: a page of the ledger, of the event half only.
EventHalf(E) == {e \in E : e.family \in {"recorded_event", "official_alert"}}

Page(seq, offset, limit) == SubSeq(seq, offset + 1, Clamp(offset + limit, 0, Len(seq)))

RegionEvents(E, cell, window, offset, limit) ==
  LET matching == EventHalf(InCell(E, cell, window))
  IN  [rows |-> Page(Ordered(matching, Newer), offset, limit),
       total |-> Cardinality(matching), offset |-> offset]

-----------------------------------------------------------------------------
\* do_region_detail: the inspector of one cell.  The rows come by volume and
\* then time; outlets and articles are counted from attention only, posts
\* from chatter only.
DetailRows(E, cell, window) ==
  Take(Ordered(InCell(E, cell, window),
               LAMBDA a, b : \/ a.volume > b.volume
                             \/ a.volume = b.volume /\ Newer(a, b)), MaxDetailRows)

\* Every link once, under the first row that carries it, in the first groups
\* that have one to show.
SourceLinks(rows) ==
  LET before(i) == UNION {rows[j].urls : j \in 1 .. i - 1}
      groups == [i \in DOMAIN rows |->
                  [source |-> rows[i].source, kind |-> rows[i].kind, ts |-> rows[i].ts,
                   headline |-> rows[i].headline, urls |-> rows[i].urls \ before(i)]]
  IN  Take(Only(groups, {i \in DOMAIN groups : groups[i].urls # {}}), MaxSourceLinks)

\* Mutant: the volume of every row counted as articles.
CountsAsArticlesAll(family) == family \in SignalFamily
CountsAsArticles(family) == EntersAttention(family)

RegionDetail(E, cell, window) ==
  LET rows == DetailRows(E, cell, window)
      of == {rows[i] : i \in DOMAIN rows}
      att == {e \in of : CountsAsArticles(e.family)}
      own == CellBuckets(E, cell, window)
  IN  [cell |-> cell,
       byKind |-> [k \in {e.kind : e \in of} |-> Cardinality({e \in of : e.kind = k})],
       topThemes |-> Take(ThemeUse(of), 12),
       outlets |-> UNION {e.outlets : e \in att},
       articles |-> MapThenSumSet(LAMBDA e : e.volume, att),
       posts |-> MapThenSumSet(LAMBDA e : e.volume, {e \in of : e.family = "chatter"}),
       links |-> SourceLinks(rows),
       headlines |-> Take(Only(rows, {i \in DOMAIN rows : rows[i].headline # 0}), MaxHeadlineRows),
       meanConf |-> Mean([e \in of |-> e.conf]),
       coarse |-> Mean([e \in of |-> IF RendersAsPoint(e.prec) THEN 0 ELSE 100]),
       scores |-> ComposeWindow(own, window),
       baseline |-> {b.baseline : b \in {x \in own : \A y \in own : y.bucket <= x.bucket}}]
=============================================================================
