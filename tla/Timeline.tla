------------------------------ MODULE Timeline ------------------------------
(***************************************************************************)
(* The map page of the desktop (app.rs, panels.rs): the window the user    *)
(* looks at, the reach it lies in, and the queries that fill the map, the  *)
(* strip and the inspector.  Replies come back through the storage actor,  *)
(* in the order of its commands, and are taken at the start of a frame.  A *)
(* frame is one step: poll, advance the playback, draw the page with at    *)
(* most one input of the user, and fire the queries if anything changed.   *)
(* Time is counted in six-hour buckets; an extent and a window are pairs   *)
(* of a first bucket and the bucket after the last.                        *)
(***************************************************************************)
EXTENDS Integers, Sequences

CONSTANTS None,
          Cell,      \* H3 cells that can be selected
          Filter,    \* filter settings
          Length,    \* window lengths; All is one no extent reaches
          Recent,    \* RECENT_REACH_BUCKETS
          Extent,    \* extents the stored events can have
          Typed,     \* windows that can be typed
          Start,     \* the clock at launch
          Ticks, Batches, Inputs, Faults, Pages, Backlog
                     \* bounds: bucket boundaries that pass, ingests, inputs,
                     \* failed commands, pages of the ledger, commands
                     \* queued when a playback step is taken

ASSUME LengthAssumption == Length \subseteq Nat \ {0} /\ Recent \in Nat \ {0}
ASSUME ExtentAssumption == \A e \in Extent \cup Typed : e \in Int \X Int /\ e[1] < e[2]
ASSUME StartAssumption == Start \in Int /\ Filter # {}

\* What a query asks, and where its reply stands.
Span == Int \X Int
Query == {<<>>} \cup [win : Span, filter : Filter, now : Int]
           \cup [cell : Cell, win : Span, now : Int]
           \cup [cell : Cell, win : Span, off : Nat, now : Int]
Stored == [extent : Extent \cup {None}, ver : Nat]
Reply == [query : Query, done : {"no", "ok", "failed"}, at : Stored]
View == [query : Query, ver : Nat]
Strip == [reach : Span, ver : Nat \cup {None}, now : Int]

\* None is Option's, and no value of the types it is used in.
ASSUME NoneAssumption ==
  None \notin Int \cup Span \cup Cell \cup Reply \cup View \cup Strip

VARIABLES now,   \* the bucket the clock is in
          db,    \* extent and revision of the stored events
          app,   \* the desktop's state, with the commands it has queued
          left   \* what is left of each bound

vars == <<now, db, app, left>>

Slot == {"ingest", "extent", "histogram", "layers", "detail", "ledger"}

-----------------------------------------------------------------------------
\* Windows.

Least(i, j) == IF i < j THEN i ELSE j
Greatest(i, j) == IF i < j THEN j ELSE i
Clamp(i, lo, hi) == Greatest(lo, Least(i, hi))

\* total_buckets of an extent, timeline_total_buckets of a reach.
Total(e) == Greatest(e[2] - e[1], 1)

\* timeline_extent with clamp_recent_extent.
Reach(a) == IF a.range = "full" THEN a.extent
            ELSE <<Greatest(a.extent[1], now - Recent), a.extent[2]>>

\* WindowLen::buckets in the reach.
Width(a) == Least(a.len, Total(Reach(a)))
MaxStart(a) == Greatest(Total(Reach(a)) - Width(a), 0)

\* current_window.
Window(a) == LET first == Reach(a)[1] + a.start IN <<first, first + Width(a)>>

\* sync_window_to_now with now_anchored_start_bucket; anchor is history: the bucket
\* the window was last placed in, None once playback has moved it.
SyncWindowToNow(a) ==
  IF a.extent = None THEN a
  ELSE [a EXCEPT !.start = Clamp(now + 1 - Width(a) - Reach(a)[1], 0, MaxStart(a)),
                 !.anchor = now]

\* parse_custom_range: first bucket and length in the extent.
CustomRange(w, e) ==
  LET first == Clamp(w[1] - e[1], 0, Total(e) - 1)
  IN  <<first, Clamp(w[2] - e[1], first + 1, Total(e)) - first>>

\* rebuild_histogram: the columns lie over the reach as it is now.
RebuildHistogram(a) ==
  [a EXCEPT !.strip = IF a.extent = None THEN None
                      ELSE [reach |-> Reach(a), ver |-> a.raw, now |-> now]]

-----------------------------------------------------------------------------
\* Commands to storage.  Only the last command of a slot has a reply anyone
\* holds; the query's arguments stand for its answer.

Ask(a, s, q) == [a EXCEPT !.pending[s] = [query |-> q, done |-> "no", at |-> db],
                          !.queue = Append(@, s), !.missed = @ \ {s}]

RefreshMetadata(a) == Ask(Ask(a, "extent", <<>>), "histogram", <<>>)

AskLedger(a) ==
  Ask(a, "ledger", [cell |-> a.selected, win |-> Window(a), off |-> a.offset, now |-> now])

FireRegionQueries(a) ==
  AskLedger(Ask(a, "detail", [cell |-> a.selected, win |-> Window(a), now |-> now]))

\* Mutant: a new window leaves the inspector's queries alone.
FireMapOnly(a) ==
  IF a.extent = None THEN a
  ELSE Ask(a, "layers", [win |-> Window(a), filter |-> a.filter, now |-> now])

\* fire_queries; the buckets, the points and the alerts are one command here.
FireQueries(a) ==
  LET b == Ask(a, "layers", [win |-> Window(a), filter |-> a.filter, now |-> now])
  IN  IF a.extent = None THEN a
      ELSE IF a.selected = None THEN b
      ELSE FireRegionQueries([b EXCEPT !.offset = 0])

-----------------------------------------------------------------------------
\* poll_async, in its order.

Ready(a, s) == a.pending[s] # None /\ a.pending[s].done # "no"
Failed(a, s) == a.pending[s].done = "failed"
Taken(a, s) == [a EXCEPT !.pending[s] = None,
                         !.missed = IF Failed(a, s) THEN @ \cup {s} ELSE @]

SubmitBatch(a) ==
  IF a.pending["ingest"] # None \/ a.inbox = 0 THEN a
  ELSE Ask([a EXCEPT !.inbox = @ - 1, !.phase = IF @ = "ready" THEN @ ELSE "loading"],
           "ingest", <<>>)

TakeIngest(a) ==
  IF ~Ready(a, "ingest") THEN a
  ELSE IF Failed(a, "ingest") THEN [Taken(a, "ingest") EXCEPT !.phase = "error"]
  ELSE RefreshMetadata(Taken(a, "ingest"))

\* Mutant: a refresh of the extent queries again only when the window follows.
TakeExtentFollowing(a) ==
  LET e == a.pending["extent"].at.extent
      b == [Taken(a, "extent") EXCEPT !.extent = e, !.phase = "ready"]
      rawMax == Total(e) - Least(a.len, Total(e))
  IN  IF ~Ready(a, "extent") THEN a
      ELSE IF Failed(a, "extent") THEN [Taken(a, "extent") EXCEPT !.phase = "error"]
      ELSE IF e = None
      THEN [b EXCEPT !.start = 0, !.layers = None, !.strip = None, !.raw = None]
      ELSE RebuildHistogram(
             IF a.follow THEN [SyncWindowToNow(b) EXCEPT !.dirty = TRUE]
             ELSE [b EXCEPT !.start = Clamp(@, 0, Greatest(rawMax, 0))])

\* The length and the clamp of a window that does not follow are taken in the
\* stored extent, not in the reach.
TakeExtent(a) ==
  LET e == a.pending["extent"].at.extent
      b == [Taken(a, "extent") EXCEPT !.extent = e, !.phase = "ready"]
      rawMax == Total(e) - Least(a.len, Total(e))
  IN  IF ~Ready(a, "extent") THEN a
      ELSE IF Failed(a, "extent") THEN [Taken(a, "extent") EXCEPT !.phase = "error"]
      ELSE IF e = None
      THEN [b EXCEPT !.start = 0, !.layers = None, !.strip = None, !.raw = None]
      ELSE RebuildHistogram(
             [(IF a.follow THEN SyncWindowToNow(b)
               ELSE [b EXCEPT !.start = Clamp(@, 0, Greatest(rawMax, 0))])
              EXCEPT !.dirty = TRUE])

TakeHistogram(a) ==
  IF ~Ready(a, "histogram") THEN a
  ELSE IF Failed(a, "histogram") THEN Taken(a, "histogram")
  ELSE RebuildHistogram([Taken(a, "histogram") EXCEPT !.raw = a.pending["histogram"].at.ver])

\* What a query that succeeded puts on the screen.
Shown(a, s) == [query |-> a.pending[s].query, ver |-> a.pending[s].at.ver]

TakeLayers(a) ==
  IF ~Ready(a, "layers") THEN a
  ELSE IF Failed(a, "layers") THEN Taken(a, "layers")
  ELSE [Taken(a, "layers") EXCEPT !.layers = Shown(a, "layers")]

TakeDetail(a) ==
  IF ~Ready(a, "detail") THEN a
  ELSE IF Failed(a, "detail") THEN Taken(a, "detail")
  ELSE [Taken(a, "detail") EXCEPT !.detail = Shown(a, "detail")]

TakeLedger(a) ==
  IF ~Ready(a, "ledger") THEN a
  ELSE IF Failed(a, "ledger") THEN Taken(a, "ledger")
  ELSE [Taken(a, "ledger") EXCEPT !.ledger = Shown(a, "ledger")]

PollAsync(a) ==
  TakeLedger(TakeDetail(TakeLayers(TakeHistogram(TakeExtent(TakeIngest(SubmitBatch(a)))))))

-----------------------------------------------------------------------------
\* The frame.

\* advance_playback: whether a step is due is the frame clock's choice, within
\* the bound on what storage has not run yet.
AdvancePlayback(a) ==
  IF ~a.playing \/ a.extent = None \/ Len(a.queue) > Backlog THEN {a}
  ELSE {a, [a EXCEPT !.start = IF @ + 1 > MaxStart(a) THEN 0 ELSE @ + 1, !.dirty = TRUE,
                     !.anchor = None]}

\* timeline_content clamps the start whenever the page is drawn.
Draw(a) == IF a.page # "map" \/ a.extent = None THEN a
           ELSE [a EXCEPT !.start = Clamp(@, 0, MaxStart(a))]

Polled == AdvancePlayback(PollAsync(app))
Drawn == {Draw(a) : a \in Polled}

\* The end of App::ui.
EndFrame(a) == IF a.dirty /\ a.phase = "ready" THEN FireQueries([a EXCEPT !.dirty = FALSE])
               ELSE a

\* A frame in which the user changes nothing.
Idle == /\ \E a \in Drawn : app' = EndFrame(a)
        /\ UNCHANGED <<now, db, left>>

\* A frame with an input on the map page that leads to a state in Result(a).
Input == left.inputs > 0 /\ left' = [left EXCEPT !.inputs = @ - 1] /\ UNCHANGED <<now, db>>
OnMap == {a \in Drawn : a.page = "map"}
OnTimeline == {a \in OnMap : a.extent # None}

GoTo(page) == /\ Input /\ page # app.page
              /\ \E a \in Polled : app' = EndFrame(Draw([a EXCEPT !.page = page]))

ChangeFilter(f) ==
  /\ Input
  /\ \E a \in OnMap : /\ f # a.filter
                      /\ app' = EndFrame([a EXCEPT !.filter = f, !.dirty = TRUE])

TogglePlay ==
  /\ Input
  /\ \E a \in OnTimeline :
       app' = EndFrame([a EXCEPT !.playing = ~@, !.follow = a.follow /\ a.playing])

\* set_timeline_range
SetRange(r) ==
  /\ Input
  /\ \E a \in OnTimeline :
       LET b == [a EXCEPT !.range = r, !.dirty = TRUE]
       IN  /\ r # a.range
           /\ app' = EndFrame(RebuildHistogram(
                       IF a.follow THEN SyncWindowToNow(b)
                       ELSE [b EXCEPT !.start = Clamp(@, 0, MaxStart(b))]))

\* Mutant: a new length keeps the start of a window that follows.
WithLengthKept(a, n) ==
  LET b == [a EXCEPT !.len = n, !.dirty = TRUE]
  IN  [b EXCEPT !.start = Least(@, MaxStart(b))]

WithLength(a, n) ==
  LET b == [a EXCEPT !.len = n, !.dirty = TRUE]
  IN  IF a.follow THEN SyncWindowToNow(b) ELSE [b EXCEPT !.start = Least(@, MaxStart(b))]

\* A length may be chosen that is the typed one's: only the label changes.
SetLength(n) == Input /\ \E a \in OnTimeline : app' = EndFrame(WithLength(a, n))

Now ==
  /\ Input
  /\ \E a \in OnTimeline :
       /\ ~a.follow
       /\ app' = EndFrame([SyncWindowToNow(a) EXCEPT !.follow = TRUE, !.dirty = TRUE])

Scrub(start) ==
  /\ Input
  /\ \E a \in OnTimeline :
       /\ start \in 0..MaxStart(a) /\ start # a.start
       /\ app' = EndFrame([a EXCEPT !.start = start, !.follow = FALSE, !.dirty = TRUE])

\* apply_custom_range
ApplyCustomRange(w) ==
  /\ Input
  /\ \E a \in OnTimeline :
       LET r == CustomRange(w, a.extent)
       IN  app' = EndFrame(RebuildHistogram(
                    [a EXCEPT !.range = "full", !.start = r[1], !.len = r[2],
                              !.follow = FALSE, !.dirty = TRUE]))

\* select_cell, from the map, which takes clicks in phase Ready only, or from
\* the top movers, which are there while the layers are.
SelectCell(c) ==
  /\ Input
  /\ \E a \in OnMap :
       LET b == [a EXCEPT !.selected = c, !.detail = None, !.ledger = None, !.offset = 0]
       IN  /\ a.phase = "ready" \/ a.layers # None
           /\ app' = EndFrame(IF a.extent = None THEN b ELSE FireRegionQueries(b))

ClearSelection ==
  /\ Input
  /\ \E a \in OnMap : /\ a.selected # None
                      /\ app' = EndFrame([a EXCEPT !.selected = None, !.detail = None])

\* event_ledger and set_ledger_offset: the page beside the one on the screen.
TurnPage(off) ==
  /\ Input
  /\ \E a \in OnMap :
       LET b == [a EXCEPT !.offset = off]
       IN  /\ a.selected # None /\ a.detail # None /\ a.ledger # None
           /\ off \in {a.ledger.query.off - 1, a.ledger.query.off + 1}
           /\ app' = EndFrame(IF a.extent = None THEN b ELSE AskLedger(b))

-----------------------------------------------------------------------------
\* Everything else.

\* The ingest worker hands over a batch.
Batch == /\ left.batches > 0 /\ left' = [left EXCEPT !.batches = @ - 1]
         /\ app' = [app EXCEPT !.inbox = @ + 1] /\ UNCHANGED <<now, db>>

\* An IngestMsg::Failed matters only before the first extent.
CycleFails == /\ app.phase # "ready" /\ app' = [app EXCEPT !.phase = "error"]
              /\ UNCHANGED <<now, db, left>>

\* Storage runs its next command.  An ingest may add older and newer events and
\* prune old ones, but never the newest.
Answer ==
  LET s == Head(app.queue)
      held == \A i \in 2..Len(app.queue) : app.queue[i] # s
  IN  /\ app.queue # <<>>
      /\ \/ s # "ingest" /\ db' = db
         \/ s = "ingest" /\ \E e \in Extent : /\ db.extent # None => e[2] >= db.extent[2]
                                              /\ db' = [extent |-> e, ver |-> db.ver + 1]
      /\ \E done \in {"ok", "failed"} :
           /\ done = "failed" => held /\ left.faults > 0
           /\ left' = [left EXCEPT !.faults = IF done = "failed" THEN @ - 1 ELSE @]
           /\ app' = [app EXCEPT !.queue = Tail(@),
                        !.pending[s] = IF held THEN [@ EXCEPT !.done = done, !.at = db'] ELSE @]
      /\ UNCHANGED now

Tick == /\ left.ticks > 0 /\ left' = [left EXCEPT !.ticks = @ - 1]
        /\ now' = now + 1 /\ UNCHANGED <<db, app>>

\* App::new
NewApp ==
  RefreshMetadata(
    [page |-> "map", phase |-> "loading", extent |-> None,
     start |-> 0, len |-> 4, range |-> "recent", follow |-> TRUE, playing |-> FALSE,
     filter |-> CHOOSE f \in Filter : TRUE, selected |-> None, offset |-> 0, dirty |-> FALSE,
     layers |-> None, raw |-> None, anchor |-> Start, strip |-> None, detail |-> None, ledger |-> None,
     pending |-> [s \in Slot |-> None], missed |-> {}, queue |-> <<>>, inbox |-> 0])

Init == /\ now = Start
        /\ db \in [extent : Extent \cup {None}, ver : {0}]
        /\ app = NewApp
        /\ left = [ticks |-> Ticks, batches |-> Batches, inputs |-> Inputs, faults |-> Faults]

Next ==
  \/ Idle \/ Batch \/ CycleFails \/ Answer \/ Tick
  \/ \E page \in {"map", "other"} : GoTo(page)
  \/ \E f \in Filter : ChangeFilter(f)
  \/ TogglePlay \/ Now
  \/ \E r \in {"recent", "full"} : SetRange(r)
  \/ \E n \in Length : SetLength(n)
  \/ \E start \in UNION {0..Total(e) : e \in Extent} : Scrub(start)
  \/ \E w \in Typed : ApplyCustomRange(w)
  \/ \E c \in Cell : SelectCell(c)
  \/ ClearSelection
  \/ \E off \in 0..Pages : TurnPage(off)

Spec == Init /\ [][Next]_vars

-----------------------------------------------------------------------------
\* Properties.

\* Nothing is on its way to the screen, and the last ingest and refresh succeeded.
Settled == /\ app.phase = "ready" /\ app.extent # None
           /\ ~app.dirty /\ app.inbox = 0
           /\ app.missed \cap {"ingest", "extent"} = {}
           /\ \A s \in Slot : app.pending[s] = None

\* The reach has not moved with the clock since.
Since(t) == app.range = "full" \/ t = now

\* A query that was asked in the reach as it is: not before the clock moved it,
\* nor beyond its end (poll_async clamps against the stored extent).
InReach(q) == Since(q.now) /\ q.win[2] <= Reach(app)[1] + Total(Reach(app))

\* Once settled, the layers show the window and the filters on the screen, and
\* the strip lies over the reach, both from the events as last stored: every
\* change of them, in whatever order with replies, marks the map dirty or
\* rebuilds the strip.  Nothing is said of a slot whose query failed.
MapIsCurrent ==
  Settled =>
    /\ "layers" \notin app.missed
       => /\ app.layers.ver = db.ver /\ app.layers.query.filter = app.filter
          /\ InReach(app.layers.query) => app.layers.query.win = Window(app)
    /\ "histogram" \notin app.missed
       => /\ app.strip.ver = db.ver
          /\ Since(app.strip.now) => app.strip.reach = Reach(app)

\* The inspector never shows a cell under another's heading, and once settled
\* it shows the window on the screen, and the page that was turned to of the
\* events as last stored.
InspectorIsCurrent ==
  app.selected # None =>
    /\ app.detail # None => app.detail.query.cell = app.selected
    /\ app.ledger # None => app.ledger.query.cell = app.selected
    /\ Settled /\ "detail" \notin app.missed
       => /\ app.detail.ver = db.ver
          /\ InReach(app.detail.query) => app.detail.query.win = Window(app)
    /\ Settled /\ "ledger" \notin app.missed
       => /\ app.ledger.ver = db.ver /\ app.ledger.query.off = app.offset
          /\ InReach(app.ledger.query) => app.ledger.query.win = Window(app)

\* While the window follows, the map shows the bucket the clock is in whenever the
\* reach holds it: refreshed, resized, or in a reach opened or closed.  (Between two
\* refreshes the clock may leave the window behind, and "now" pressed in mid-play
\* follows while the playback goes on: anchor tells where the window was placed.)
FollowsNow ==
  /\ Settled /\ app.follow /\ "layers" \notin app.missed
  /\ app.anchor = now
  /\ Reach(app)[1] <= now /\ now < Reach(app)[2]
  => app.layers.query.win[1] <= now /\ now < app.layers.query.win[2]

=============================================================================
