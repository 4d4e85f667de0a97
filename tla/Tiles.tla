------------------------------- MODULE Tiles -------------------------------
(***************************************************************************)
(* Basemap imagery: the tile worker (tiles.rs) and the UI thread's side of *)
(* it (app.rs poll_tiles and request_tiles, map_view.rs).  The UI sends    *)
(* the worker the tiles the map lacks, a replacement and not a queue; the  *)
(* worker fetches two at a time, backs off after failures and sends        *)
(* decoded tiles back; the UI uploads a few per frame into a bounded       *)
(* texture cache.                                                          *)
(***************************************************************************)
EXTENDS Naturals, FiniteSets, SequencesExt

CONSTANTS Tile,       \* tile ids
          View,       \* the visible-tile lists a viewport can give, each a
                      \* sequence without repetition
          Outcome,    \* what a fetch can come to: "ok", "limited", "failed"
          Cap,        \* RESIDENT_TEXTURE_CAP
          Uploads,    \* UPLOADS_PER_FRAME
          Fetches,    \* CONCURRENT_FETCHES
          QueueBound  \* bound: control messages and tiles waiting in a channel

ASSUME CapAssumption == Cap \in Nat \ {0} /\ Uploads \in Nat \ {0} /\ Fetches \in Nat \ {0}
ASSUME ViewAssumption == \A v \in View : v \in Seq(Tile) /\ IsInjective(v)

VARIABLES
  visible,    \* TileLayer.visible, from the last paint
  active,     \* the last frame found the layer on, online, focused, on the map
  lastReq,    \* tiles_last_requested
  order,      \* TileCache.order; its elements are the resident textures
  ctl,        \* channel UI -> worker
  results,    \* channel worker -> UI: decoded tiles
  wanted,     \* the worker's wanted set, in order
  inFlight,   \* tiles being fetched
  backoff,    \* tiles whose TILE_RETRY_DELAY has not elapsed
  cooldown    \* cooldown_until has not elapsed

ui == <<visible, active, lastReq, order>>
worker == <<wanted, inFlight, backoff, cooldown>>
tilesVars == <<ui, ctl, results, worker>>

Resident == ToSet(order)

TilesInit ==
  /\ visible = <<>> /\ active = FALSE /\ lastReq = <<>>
  /\ order = <<>>
  /\ ctl = <<>> /\ results = <<>>
  /\ wanted = <<>> /\ inFlight = {} /\ backoff = {} /\ cooldown = FALSE

-----------------------------------------------------------------------------
\* The UI thread.

Without(s, t) == SelectSeq(s, LAMBDA x : x # t)
Newest(s, n) == IF Len(s) <= n THEN s ELSE SubSeq(s, Len(s) - n + 1, Len(s))

\* TileCache::insert: refresh or append, evict from the front.
\* Mutant: evict from the back.
InsertEvictingNewest(ord, t) ==
  LET kept == Without(ord, t)
  IN  Append(IF Len(kept) < Cap THEN kept ELSE SubSeq(kept, 1, Cap - 1), t)
Insert(ord, t) == Newest(Append(Without(ord, t), t), Cap)

\* poll_tiles: the tiles uploaded by one frame, and what that leaves.
Batch == SubSeq(results, 1, IF Len(results) < Uploads THEN Len(results) ELSE Uploads)
AfterBatch == FoldLeft(Insert, order, Batch)

\* request_tiles: what a frame asks for.
Missing(v, ord, on) == IF on THEN SelectSeq(v, LAMBDA t : t \notin ToSet(ord)) ELSE <<>>

\* One frame of App::ui: upload, paint (when the layer is shown), request.
Frame(v, shown, on) ==
  /\ Len(ctl) < QueueBound
  /\ on => shown
  /\ results' = SubSeq(results, Len(Batch) + 1, Len(results))
  /\ order' = AfterBatch
  /\ active' = on
  /\ visible' = IF shown THEN v ELSE visible
  /\ LET missing == Missing(visible', order', on)
     IN /\ lastReq' = missing
        /\ ctl' = IF missing = lastReq THEN ctl ELSE Append(ctl, missing)
  /\ UNCHANGED worker

-----------------------------------------------------------------------------
\* The worker: one iteration of its loop is what one select arm does, then
\* the adoption of the newest wanted set and the top-up.

\* Mutant: the oldest queued set is adopted.
AdoptedOldest(w) == IF ctl = <<>> THEN w ELSE Head(ctl)
Adopted(w) == IF ctl = <<>> THEN w ELSE Last(ctl)

\* Where the wanted set names tiles neither in flight nor backing off, and those of
\* them there is room for, first come first served.
Ready(w, flying, off) == {i \in DOMAIN w : w[i] \notin flying \cup off}
Room(ready, flying) ==
  {i \in ready : Cardinality({j \in ready : j <= i}) + Cardinality(flying) <= Fetches}

\* Mutant: the cooldown after a 429 does not stop the top-up.
StartedDuringCooldown(w, flying, off, cool) ==
  {w[i] : i \in Room(Ready(w, flying, off), flying)}
Started(w, flying, off, cool) ==
  IF cool THEN {} ELSE {w[i] : i \in Room(Ready(w, flying, off), flying)}

TopUp(flying, off, cool) ==
  /\ ctl' = <<>>
  /\ wanted' = Adopted(wanted)
  /\ backoff' = off
  /\ cooldown' = cool
  /\ inFlight' = flying \cup Started(wanted', flying, off, cool)

\* A fetch finishes; the biased select takes it before any waiting request.
FetchOk(t) ==
  /\ t \in inFlight /\ "ok" \in Outcome
  /\ Len(results) < QueueBound
  /\ results' = IF t \in ToSet(wanted) THEN Append(results, t) ELSE results
  /\ TopUp(inFlight \ {t}, backoff \ {t}, cooldown)
  /\ UNCHANGED ui

FetchLimited(t) ==
  /\ t \in inFlight /\ "limited" \in Outcome
  /\ TopUp(inFlight \ {t}, backoff, TRUE)
  /\ UNCHANGED <<ui, results>>

FetchFailed(t) ==
  /\ t \in inFlight /\ "failed" \in Outcome
  /\ TopUp(inFlight \ {t}, backoff \cup {t}, cooldown)
  /\ UNCHANGED <<ui, results>>

\* A request arrives while the worker waits.
SetVisible ==
  /\ ctl # <<>>
  /\ TopUp(inFlight, backoff, cooldown)
  /\ UNCHANGED <<ui, results>>

\* Time passes.  Nothing in the worker waits for either of these.
CooldownElapses ==
  /\ cooldown
  /\ cooldown' = FALSE
  /\ UNCHANGED <<ui, ctl, results, wanted, inFlight, backoff>>

BackoffElapses(t) ==
  /\ t \in backoff
  /\ backoff' = backoff \ {t}
  /\ UNCHANGED <<ui, ctl, results, wanted, inFlight, cooldown>>

-----------------------------------------------------------------------------
TilesNext ==
  \/ \E v \in View, shown \in BOOLEAN, on \in BOOLEAN : Frame(v, shown, on)
  \/ \E t \in Tile : FetchOk(t)
  \/ \E t \in Tile : FetchLimited(t)
  \/ \E t \in Tile : FetchFailed(t)
  \/ SetVisible
  \/ CooldownElapses
  \/ \E t \in Tile : BackoffElapses(t)

TilesSpec == TilesInit /\ [][TilesNext]_tilesVars

\* The worker's loop and its requests' timeouts always get on, clocks run, and
\* the window keeps being repainted as it is.
SameFrame == visible \in View /\ Frame(visible, TRUE, active)
TilesFairSpec ==
  /\ TilesSpec
  /\ WF_tilesVars(SetVisible) /\ WF_tilesVars(SameFrame) /\ WF_tilesVars(CooldownElapses)
  /\ \A t \in Tile : /\ WF_tilesVars(FetchOk(t) \/ FetchLimited(t) \/ FetchFailed(t))
                     /\ WF_tilesVars(BackoffElapses(t))

-----------------------------------------------------------------------------
\* After a 429 no request leaves until the cooldown is over, whatever the
\* user pans to meanwhile; and no tile is retried inside its own back-off.
BacksOff ==
  [][\A t \in inFlight' \ inFlight : ~(cooldown /\ cooldown')
                                     /\ t \notin (backoff \cap backoff')]_tilesVars

\* With a provider that always answers, a view the user stays on fills in
\* completely and for good, although the worker re-fetches a tile until the UI
\* has replaced the wanted set.
FillsIn ==
  \A v \in View : [](backoff = {} /\ ~cooldown) /\ <>[](active /\ visible = v)
                    => <>[](ToSet(v) \subseteq Resident)

\* Failures may leave the worker waiting for a message alone (tiles.rs:396), with
\* tiles on screen that nobody fetches.  One request revives it: if one is on its
\* way when the provider answers for good and the user stays, the view fills in,
\* whatever failed before, and what other tiles have to leave the cache for it.
RequestRevives ==
  \A v \in View :
    <>(ctl # <<>> /\ [](backoff = {} /\ ~cooldown /\ active /\ visible = v))
      => <>[](ToSet(v) \subseteq Resident)

=============================================================================
