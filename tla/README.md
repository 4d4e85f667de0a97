# Verification of Global Unrest

TLA+ modules, TLC runs and TLAPS proofs about the program under `src/`: a
desktop map of unrest signals with a local DuckDB store, a headless worker that
fills a store and publishes snapshots of it, and a read-only HTTP API over the
snapshots. Every definition is translated from the Rust source; `PROJECT.json`
maps each one to the lines it stands for, lists the hazards the properties are
for, and gives for every property a plausible bug that it catches.

## 1. The system

| part | state it keeps | operations | what is hard |
|---|---|---|---|
| storage actor (`crates/storage`) | events, four derived tables, ingest log, coverage ledger, digests, rebuild marker (durable); retention, the queue of calls (memory) | open and migrate, ingest, purge, queries, coverage, digests, export and publish | an ingest, and a migration, is a row of autocommitted statements: the process or the thread may die, or a statement fail, between any two; callers must learn of it |
| scoring (`crates/analytics`) | none | buckets, trailing baselines, families | a rescore over a bounded read must give what a full one gives |
| snapshot (`storage`) and API (`services/api`) | version directories, `LATEST` | publish, prune; resolve, read, ETag | two processes and no lock; a publisher that dies; names taken from a clock that can be set back |
| desktop ingest (`ingest.rs`, `app.rs`) | schedule and back-off per source, switches, the Bluesky task, queue of batches | SetOnline, SetSourceEnabled, FetchNow, poll arms; poll_async | commands cross cycles and messages; the worker hears nothing during a cycle |
| tiles (`tiles.rs`, `app.rs`) | wanted set, requests in flight, back-offs, cooldown, textures | replace wanted, fetch, 429, upload, evict | nothing wakes the worker but a message or an answer |
| media search (`media.rs`, `media_page.rs`) | the search on screen, generation, clips, legs | search, supersede, leg answers or fails, clear | answers of a search that was replaced |
| Daily Events (`app.rs`, `digest.rs`) | the day chosen, one reply slot per query, the day being written | select, generate, list | a paid call that must not be doubled or lost; late replies |
| headless worker (`services/workers`) | plan of the pass; the ledger is in the store | seed, GKG backfill pass, live cycles, publish | died or failed between record, ingest and publish; restart |
| chatter (`crates/chatter`, `source-telegram`, `source-bluesky`) | counts per class and window, high-water marks, the socket's place | observe, drain, sweep, connect, stop | partial sweeps, restarts, windows that end in the middle of a cycle |
| sources and parsers (`source-*`, `media-search`, `daily-digest`) | none, or a token | fetch, normalize | a refusal that looks like an answer, a token revoked in mid-read, rows that are context, duplicates or broken |
| matchers (`chatter`, `geo-utils`) | tables built once | which place and topic a post names | names inside names, scripts without spaces |
| queries (`storage`, `services/api`) | none | points, buckets, ledgers, histograms, digest facts, pages | a dozen queries over the same rows that must agree with one another |
| map and timeline (`app.rs`, `panels.rs`) | window, reach, filters, selection, ledger page, phase, dirty flag, a reply slot per query | scrub, play, length, reach, typed range, "now", filter, select, turn a page; refresh after an ingest | whether all that is on the screen belongs together after replies, refreshes, the clock and inputs on several pages have crossed |
| panels, settings, video (`apps/...`) | view | UI events | the native player's child window |

The desktop is one UI thread (`App::ui`, once per frame) and four worker
threads: the storage actor, the ingest worker, the tile worker and the media
worker, and a fifth for digests. They share nothing; they exchange messages
over channels, and the UI thread takes what has arrived once per frame and never
waits. The headless worker has its own storage actor in its own process and
meets the API only through the file system.

What makes each part correct, in a line: derived tables follow events and no
event is lost except by policy; a snapshot once named is whole and stays while
it is read; what the switches say is what happens; wanted tiles arrive and
unwanted ones are not asked for; a list of clips is what the search on screen
found; a day's digest is paid once, cached, and shown under its own day; the map, the
strip and the inspector show the hours, filters and cell their headings name; the
ledger never claims what the store lacks; no post is counted twice, and every
window goes out.

## 2. Modules

| module | models | corresponds to |
|---|---|---|
| `Scoring` | the derived tables as functions of the events, and the bounded read | `analytics::score_*`, `baseline.rs`, storage `read_score_events_since` |
| `Store` | the storage actor, one action per statement | `do_ingest`, `prune_events`, `rebuild_buckets`, `do_purge_source`, `open`/`migrate`, the marker. `pc` is the next statement, `scope` the rebuild (`none`, `since`, `all`), `from` its first bucket, `torn` the history that a command was cut off |
| `Snapshot` | publisher and one API client | `do_publish_snapshot`, `prune_old_snapshots`, `resolve_snapshot`, `etag_middleware`, a handler's read |
| `Ingest` | switches, ingest worker, Bluesky task, hand-over to storage | `ingest.rs` `run`, `sync_stream`; `app.rs` `poll_async`, `set_online`, `set_source_enabled`, `fetch_now` |
| `Tiles` | tile worker and the UI's side of it | `tiles.rs` worker, `TileCache`; `request_tiles`, `poll_tiles` |
| `Lookup` | the legs of a search: terms, replies, which URL is a clip, merge | `media-search`, `core_types::media`, `source-telegram` `search_all` |
| `Media` | page, session and worker of a search | `MediaSession`, `MediaHandle`, `worker`, `run_search` |
| `DigestPage` | page, digest worker and the digest commands of the store | `select_digest_day`, `start_digest`, `poll_digest`; `digest.rs`; `do_store_digest` |
| `Timeline` | the map page over the storage actor's queue | `poll_async`, `fire_queries`, `current_window`, `set_timeline_range`, `apply_custom_range`, `select_cell`, `timeline_content`, `event_ledger`. One step is one frame of `App::ui`: poll, playback, draw with at most one input, fire. `pending` holds the reply slots, `queue` the commands storage has not run, `missed` the history of failed queries and `anchor` of the last re-anchoring |
| `Sched` | tiling and missing windows, the next slot, back-off | `sched.rs`, `pick_backoff_error` |
| `Worker` | the headless worker over the ledger and GDELT's dumps | `run`, `backfill_gkg`, `fetch_cycle`, `live_cycle`, `publish`. A GDELT cycle is one action per await: DOC (which takes `now`), Events, GKG, coverage; `polled` is the history of the last one |
| `Chatter` | accumulator, Telegram sweeps, Bluesky stream, drain and dedup | `ChatterAccumulator`, `ChannelOrchestrator`, `BlueskySource`, `live_cycle` |
| `Migrate` | a database file and the statements that open it | `migrate`, `migrations/*.sql`, `rebuild_if_marked`, `prune_stale_digests`. `derived` is the rows the derived tables were scored from, `torn` the history that an ingest was cut off in the file |
| `Actor` | the process and the thread around them: opening, the queue, replies, deaths, the dropped handle | `StorageHandle`, `actor_loop`, `Pending::try_take`; one action per statement |
| `AtomicStore` | what `Actor` promises: whole calls in the order sent | abstract specification, no code of its own |
| `Signal` | sources, kinds, families, roles, precisions, the event | `core-types` |
| `Gdelt` | the three legs' answers and what a row becomes | `source-gdelt` `doc.rs`, `events.rs`, `gkg.rs`, `country.rs`, `lib.rs` |
| `Adapters` | the other adapters, and a batch through one | `source-noaa`, `source-ioda`, `source-acled`, `source-fixtures`, `chatter` `normalize_rollup`, `partition_normalized` |
| `AcledLive` | a token's life and a paged read | `source-acled/src/live.rs` |
| `Gazetteer` | the bundled files as the program reads them | `geo-utils` `CountryIndex`, `CityIndex` |
| `Matchers` | which place and topic a post names | `chatter` `tokenize`, `find_window`, `place.rs`, `topic.rs`, `script.rs`, `observe` |
| `Analytics` | scores, composition, halos, movers, divergence | `analytics` |
| `Reads` | the store's queries | `do_query_*`, `do_region_*`, `do_timeline_histogram`, `do_alert_cells`, ... `QueryPoints` is the set of answers its `ORDER BY ts_epoch_s LIMIT` leaves open |
| `Digest` | a day's facts, what is sent of them, what is kept of the answer | `digest_facts`, `daily-digest` |
| `Api` | each handler's answer and the layers around it | `services/api` |
| `Pipeline` | a poll from the answer to every view | `live_cycle`, `do_ingest` and the modules above; `token` is the adapter's, `last` and `served` are histories |
| `MC*` | the instances TLC checks | |
| `StoreProofs`, `SnapshotProofs`, `ActorProofs`, `MediaProofs`, `TimelineProofs` | theorems, each about the module it is named after; `StoreProofs` begins with those about `Scoring` | |
| `PollingProofs`, `RepliesProofs`, `RecordsProofs` | theorems about `Ingest` and `Worker`; `DigestPage` and `Tiles`; `Pipeline` and `Chatter` | |

How they compose. `Store` extends `Scoring`, `Worker` extends `Sched`, `Actor`
extends `Migrate` and refines `AtomicStore` (`Atomic == INSTANCE AtomicStore WITH
...`), `Media` extends `Lookup`. `Pipeline` extends `AcledLive`, `Adapters`, `Api`,
`Digest` and `Matchers`, so that what one crate hands to the next is what the next
reads: `Matchers` is built from `Gazetteer`'s indexes, `Adapters` gives `Signal`'s
events, `Reads` scores them with `Analytics`, whose tables are `Scoring`'s. The
same ingest is in three modules at three grains: in `Store` by statement, with the
derived tables; in `Actor` by statement, with the queue and the death of its thread;
in `Pipeline` as a whole, with the content of its rows. `Snapshot`, `Ingest`,
`Tiles`, `DigestPage`, `Timeline` and `Chatter` stand alone and take what another
part does as an environment action (a source that answers or fails, a store that
answers or fails).

Abstractions that run through all of them: a record is its id, source, cell,
hour and family, a post its time and whether it names a place and a topic (in
`Matchers` its words), a tile or dump a value of a small set; a wait is an action
that elapses, or in `Worker` a time on the clock; a cell stands for the
coordinates in it, a percentage for a float; wording and layout are left out.
Operators above a definition whose comment begins with "Mutant" are slips that the
definition below them avoids; nothing but the mutation checks uses them.

## 3. Runs

Every run states its bounds in its `.cfg`.

| run | instance | shows |
|---|---|---|
| `store` | five records (two revisions of one id), two cells, two sources, five days, a window of two days, retention 0 or 2 days, one crash or failed statement | DerivedFresh, LossOnlyByPolicy, RetentionToTheDay, MarkerHonoured |
| `store_torn` | the same | *violated*: the derived tables follow the events after a command was cut off |
| `actor` | every file an older build may have left; its derived tables of any rows; three rows, three calls of an ingest, a purge, a retention and a query; two deaths | OpenedIsCurrent, StuckExactlyMidV4, Implements (the refinement), EveryCallAnswered |
| `snapshot` | four clock ticks, three revisions of the store, keep all or two, one crash, one set-back | LatestResolves, ReadsWhole, NotModifiedHonest |
| `ingest` | GDELT, Bluesky found switched off, ACLED without credentials; two clicks, two batches | SwitchesSettle, InOrderOnce, KeepsPolling |
| `tiles` | three tiles in three overlapping views, a cache of two, two requests at a time, one upload per frame | BacksOff, FillsIn, RequestRevives |
| `media` | two legs, each with its provider's replies (a clip under two spellings, a rejection, a login page, things that only look like a video); two searches and a clear | ListComplete, HonestEmpty, PageAgrees, SpinnerClears |
| `digest_page` | two days, three paid calls, three faults | OnePaidCall, ShownUnderItsHeading, PaidCallCached |
| `worker` | three dumps three ticks apart, one quiet, one never put out; a budget of two; a back-off capped at a slot and a Retry-After; one fault or death | LedgerHonest, TwiceOnlyInFlight, GapsFill, CatchesUp |
| `chatter` | two channels of two classes, or the firehose; three posts, two windows that can close, one fault | NeverOvercounts, EveryWindowOut |
| `timeline` | two cells, filters and lengths beside "one day", a reach of three buckets, two extents that differ at both ends; two inputs, one ingest, one failed command, one bucket boundary | MapIsCurrent, InspectorIsCurrent, FollowsNow |
| `pipeline` | eleven answers of six providers over four days, three polls in any order, a purge, one digest; windows on and off bucket boundaries, pages of two rows, a cap of three on the rows drawn | AnswerAccounted, PostsCountOnce, CountsApart, NothingWithheldLeaves, PublicPagesAgree, WindowsAgree, ScoresStayWhole |

Why the bounds are enough. The store's records lie so that a batch can land in
the window, before it, after it, on the boundary of a day and in another cell;
revisions differ in cell and day. Keeping two versions and four ticks lets two
publishes overtake one reader. Two clicks make every pair of commands cross a
cycle, three sources cover the stream, the keyless and the uncredentialed arm.
Three tiles are one more than the worker fetches at a time and exceed a frame's
uploads; views overlap in one tile, and the cache is as large as the largest view, so
that a tile that comes in evicts one (the code's holds twice the most a view asks for).
Two searches suffice for one to supersede
the other, in flight or queued. Two days and three calls let a day be written
again while another is on screen. The worker's budget is smaller than its gaps,
and dumps come out a tick after their stamp, so that a pass ends with work left. A
slot is three ticks, which leaves a leg room to begin before a dump is out and end after
it, so that two polls do ask for one dump. (The dump that is lacking is the oldest, the
worst place for the backfill; that a poll finds a dump again because its successor is
lacking is in the theorem only.)
Three posts fill
one window twice over one channel's limit and leave one for another. On the map
page two inputs let the second fall before the reply to the first, and playback
steps at any time while at most one command waits (`Backlog`), which keeps the
queue finite; one extent begins before the reach and one inside it. Two deaths
let one fall while a file is opened and one while calls wait, or both inside the
migrations; three calls leave one answered, one under way and one queued. In
`pipeline` three polls let one source's rows be a baseline for, tie with or repeat
another's; the ten posts name a place inside a longer name, a name that is a common
word, a place in each kind of script, two places and none; the cap on drawn rows is
below what the answers hold, with rows of one time on both sides of it that may and
may not leave; ACLED pages are two rows
long and its token may be revoked, expired or refused on either page. `MaxDigests`
is one: digests of two days do not meet, a day's answer is replaced whole.

### Violated property

It states a sentence of the documentation; the counterexample is a behaviour of the
code. `PROJECT.json` "findings" has the sentence.

* `store_torn`: the events are flushed (`storage/src/lib.rs:1027`) before
  pruning and rescoring; cut off in between, no later ingest that inserts nothing
  and no reopening rebuilds the tables.

### Fairness

Weak fairness of the steps a running thread takes by itself: the actor's next
statement, a worker's loop, a frame, an elapsing timer, an HTTP request with a
timeout. Restart after a crash is fair where a property speaks of what happens
after it (`Store`, `Worker`, `Chatter`). Strong fairness is used where the code
has a random choice among ready branches (`Ingest`: tokio's `select!` without
`biased`; a branch that is ready again and again is taken) and for
fetches that a crash may interrupt but not prevent for ever (`Worker`:
`FetchWindow`). What the user does, failures, 429s, crashes and posts are never
fair. `EveryCallAnswered` assumes that the actor thread runs while its process
does, and not that it survives. `EveryWindowOut`, `FillsIn`, `RequestRevives`,
`GapsFill` state their conditions in the formula (no failure, no back-off from now on
and a request on its way, restarts go on). `pipeline` has
no liveness: a poll that never comes refutes nothing.

## 4. Proofs

TLAPS checks the following for every value of the constants, under the named
`ASSUME`s of the modules, which every run evaluates: records have natural
timestamps, the window is positive and bounds are natural numbers; the sources
are finitely many and GDELT and the stream are two of them (`SourceAssumption`);
days are positive numbers, zero standing for none (`DayAssumption`); callers ask
for ingests, purges, reads and retention settings (`OpAssumption`), of rows numbered
by their day (`RowAssumption`); a deployment
that prunes keeps more versions than one request can see appear
(`SpanAssumption`: the code reads without a lock, so fewer would break
`ReadsWhole`); no two clips tie in the order of merge (`MediaAssumption`:
`Media` keeps of a list its set); extents and typed windows hold a bucket, lengths are
positive, there is a filter setting, and None is no value of the types it stands
beside (`ExtentAssumption`, `LengthAssumption`, `StartAssumption`, `NoneAssumption`).
Of what comes from outside the program `Pipeline` assumes what the code's types say:
a body is a list, the numbers of an event are numbers (`AnswersAssumption`), a
window ends after it starts (`WindowsAssumption`; the handlers refuse any other), and
an answer of the model counts as whole when all of it came, is JSON and given,
neither blocked nor cut off, with both sections (`ModelsAssumption`). Nothing is
assumed of what a body says
or of the order in which providers are asked. Caps and page sizes are numbers
(`ReadsAssumption`, `ApiAssumption`, `DigestAssumption`, `AcledAssumption`,
`CapAssumption`), a view lists a tile once (`ViewAssumption`), and the channels
listed are those with a class, none of them the firehose (`ChatterAssumption`). The
bounds of the runs
(deaths, clicks, calls, batches, polls, posts) are arbitrary numbers here.

Each component has one inductive invariant `IInv` (`WorkerIInv`, `ChatterIInv` where
two components share a module), a lemma for every action, and the properties as its
consequences; only `TilesBackOff` needs no invariant, each step showing the property
by itself.

* `StoreProofs`, on `Scoring`. `BucketsExact` and `BaselinesExact`: a rescore from a bucket
  on, over the bounded read, gives the rows a rescore over all events gives.
  The argument: a row depends only on events of its bucket, and a baseline on
  one window of days before it and on the first day of its cell; the read
  reaches a window back and adds the oldest event of each cell (`ReadKeeps`,
  `SameTrailing`). `PrefixStable`: rows before the first new event do not change.
* `StoreProofs`, on `Store`. `TypeOK`, `UniqueIds`, `DerivedFresh`, `LossOnlyByPolicy` and
  `RetentionToTheDay` hold of `Spec`, the last when the records are finitely many, so
  that there is a newest (`NewestExists`). `DerivedFresh` says nothing while a rebuild runs, so it is not
  inductive. The inductive invariant `IInv` adds where a command can be
  (`Control`), that tables are fresh while nothing is under way (`Settled`),
  that before a bounded rebuild the rows it will keep are right (`PrefixFresh`),
  and that tables the rebuild has already written are right (`Progress`).
  `AppendCompletes` closes the induction with the three theorems about `Scoring`.
* `PollingProofs`, on `Worker`. `WindowsTile`: the windows of a backfill tile the range.
  `WorkerLedgerHonest`: a window recorded by a pass has its rows, and one recorded by
  a live cycle has them once it has ingested, when nothing failed. The invariant adds
  that a window about to be recorded has been ingested (`Landed`), and that what a
  cycle has recorded is in the store or in the cycle (`OnTheirWay`); rows stay.
  `SlotIsNext`: `until_next_slot` ends the lag past the next boundary.
  `WorkerTwiceOnlyInFlight` rests on the same arithmetic and on `SlotKept`: however long
  the legs of a cycle take, the next is not due before the slot after its `now`, when
  any dump that was out at that `now` has a successor, if GDELT puts one out. It is
  the most that can be said: `now` is taken before the legs are awaited, so a dump
  that comes out under them may be asked for again.

* `SnapshotProofs`. `LatestResolves`, `ReadsWhole` and `NotModifiedHonest`. None is
  inductive. The invariant adds that what `LATEST` names is not about to be pruned
  (`Resolves`); that a name a client holds has been given out, so that a version
  being written is another (`NeverAgain`); that a body cached or read under the
  current ETag is the current body (`Current`); and, with no crash and no set-back,
  that the version being read has no more younger ones than the reader has seen
  appear (`StillThere`). `NewestDoomed` and the lemmas on cardinalities show that
  pruning takes the versions with at least `keepLast` younger ones.
* `ActorProofs`. `OpenedIsCurrent` and `StuckExactlyMidV4` need the shape of a file
  wherever opening it may be cut off: of each version between its migrations
  (`Between`), before each statement of a migration that may run twice
  (`Rerunnable`), before each of migration 4 (`ShadowAt`), and of one that migration
  4 was cut off in (`Stuck`). About the derived tables it says when they are of the
  rows: unless the file is torn, a rebuild is due, or the call in progress has still
  to rescore what it has counted as changed. `ActorImplements` is the refinement of `AtomicStore`,
  one lemma per action: the call takes effect when its last statement has run, every
  statement before it and every step of opening is a stutter, a death loses the
  calls that wait. The mapping rests on `Channels` (a call has its own reply
  channel) and `UnderWay` (what the call in progress has done so far is a part of
  what it will do).
* `RepliesProofs`, on `DigestPage`. `OnePaidCall` and `ShownUnderItsHeading`. The page knows of the
  call in flight, which is with the worker or among its messages, and asks for no
  facts meanwhile (`InFlight`); one query for facts is answered (`OneQuery`); and what
  is shown, what has come and what is still asked for are of the page's day
  (`OfTheDay`): a reply whose receiver was dropped is marked so in the queue.
* `PollingProofs`, on `Ingest`. `SwitchesSettle` is about empty channels, so the invariant says what
  the channels will bring: the last command of each kind on its way is what the user
  asked last (`AsksOnline`, `AsksEach`); the last line on its way of each source is
  the worker's line (`Arrives`); a source that was never switched on is switched off
  before the worker goes online (`OffFirst`). `InOrderOnce`: stored, pending, queued
  and reported batches are disjoint and increasing in that order (`InOrder`).
* `MediaProofs`. `ListComplete`, `HonestEmpty` and `PageAgrees`. Generations pass
  through requests, worker and messages in increasing order, and after a `finished`
  comes a later one (`InTurn`), so a search that was replaced cannot return. A leg
  that is over has answered or is a problem (`Accounted`); what the page will wait
  for once it has taken the messages is what the worker waits for (`Waits`, through
  `started` and `slow`, which reset it, and answers, which take from it); the list,
  with the hits on their way, merges to what was answered (`Complete`, by
  `MergeUnion`: merging what has been merged loses nothing). These theorems start
  from `AnswersRead`: each leg makes of a reply the clips the provider has. It is not
  an assumption about the provider but what `Lookup` does with its replies, computed
  by folds over the content of pages;
  the run `media` shows it for its replies, because the first answer of a search is
  all that its list holds and `ListComplete` is false of any other legs.
* `TimelineProofs`. `MapIsCurrent`, `InspectorIsCurrent` and `FollowsNow`. They speak
  of a page to which nothing is on its way, so the invariant says of every slot what
  it shows or will show. A query that waits is in the queue (`Queued`). While no ingest
  is on its way, the answers about extent and histogram are of the last one
  (`Telling`), and the strip's counts with them (`Counted`); the strip lies over the
  reach unless the clock has moved it (`Over`). Unless something is still due (an
  ingest, a refresh of the extent, the queries of a dirty map), each pane's query is
  for what the screen says (`Current`, by `Fits`): the window, unless the clock moved
  the reach since or the window went beyond it, which is why the clamp of a drawn page
  (`DrawStep`) may move the window without a query. A window that follows is where the
  clock last placed it (`Anchored`). There is a lemma for each stage of `PollAsync`,
  for the stages of the frame and for each input.

* `RepliesProofs`, on `Tiles`. `TilesBackOff`, an action property: a step that
  starts a fetch is an iteration of the worker's loop, outside the cooldown and the
  tile's own back-off as they are once the outcome that woke it is accounted for.
* `RecordsProofs`, on `Pipeline`. `KeptRows` is the inductive invariant: the rows are
  finitely many, no two have one id, and each is of a kind of its family, with
  numbers where numbers belong, an alert just when NOAA sent it, and counted at a
  publisher only as a country (`Table`, `Row`, `Placed`); every digest kept is whole. It holds whatever the
  providers answer: each adapter makes such events of any record or none (the
  `Sane` lemmas, one per adapter), each fetch gives a list of records of its answer
  (`FetchLists`, with `Walk` for ACLED's paged read under any number of
  renewals), and `NewRows` adds a batch by id.
  From it: `PointsAtPlaces` (a row drawn as a point is at a place);
  `WithheldStays` (no row of a licensed, chatter or fixture source is quoted in a
  day's facts, and each is still counted); `BucketsDoNotMove` (two windows agree
  about a bucket both show); `PagesAreTheMap` (the pages of `/events` joined are
  the list, newest first and once each; none of a row that may not leave, and
  `/buckets` has a bucket for each. Within the cap on rows they are what the map draws
  of those that may leave; beyond it the two differ over no row older than any the map
  draws, whichever rows of one time its query keeps). The last
  rests on what a capped query may keep (`Points`), on a comparison of it with the
  front of the list (`DrawnListed`) and on lemmas about lists: `Ordered` over a strict
  total order is that order (`Sorting`), `Take` and `Only` keep it, pages tile
  a list (`PageEnds`), and what a client joins is their concatenation (`Joining`,
  `Gathered`). `CountsStayApart` (articles, posts and alerts are counted apart in the
  inspector, the ledger, the digest, the pager, the histogram and the alert layer,
  and parts add up to wholes) uses them too, with `LedgerWhole` for pages of any
  length; a sum over a partition is a cardinality because any function of subsets
  that adds one element at a time is the fold (`SumIs`, `PartsAddUp`). Counting an
  inspector's articles from its rows is right while it holds all rows of its cell,
  up to `MaxDetailRows`, and `CountsApart` says so.
* `RecordsProofs`, on `Chatter`. `ChatterNeverOvercounts`: the invariant adds that a
  reader's mark is not past what its feed has posted (`Behind`), that a window's
  count and its drained batch together are no more than the posts of it that have been
  read, and what is stored no more than those posted (`CountedOnce`, over sets of
  posts, so that a sum over feeds becomes a cardinality).

Induction is used where the model has a recursive function (a migration's
statements, the messages of a frame, the lines of a cycle): through the least
number of a set, `LeastNat`, which the library's `WFMin` gives. The library's
theorems with an operator as a parameter cannot be instantiated.

Only model-checked:

* all liveness and everything under fairness (TLAPS has no ENABLED):
  `SpinnerClears`, `EveryCallAnswered`, `KeepsPolling`, `FillsIn`, `RequestRevives`,
  `GapsFill`, `CatchesUp`, `EveryWindowOut`, `PaidCallCached`, `MarkerHonoured`;
* `AnswerAccounted` and `PostsCountOnce`: they compare what the program makes of an
  answer with labels the instance puts on it (how many events, how many records are
  dropped), so they are about that instance;
* `ScoresStayWhole`: logarithms, powers of two and quotients of sums, beyond the SMT
  solver's arithmetic;
* of the pure functions `Lookup` and `Matchers`, what they compute of a body or a text.

`StoreTypeOK`, `StoreUniqueIds` and `PointsAtPlaces` are proved and not checked by a run
of their own. No module declares a RECURSIVE operator.

## 5. What the models leave out

### Not modelled

`PROJECT.json` "components" has every part and why.

* The renderer, the map view's flights and the panels' drawing compute f32 and f64
  vertices each frame from what `Timeline`, `Tiles` and `Reads` give them; they keep
  nothing that a later step reads, and TLC has no reals.
* Point-in-polygon, H3 and projections (`geo-utils`) for the same reason; the models
  take the cell a position falls in.
* The video player is a platform web view; what it does between two calls is the
  operating system's.
* The settings table and screen, the Telegram session file (a write-then-rename) and
  the channel catalog (a validator of a bundled list) are one step each.
* The Telegram connection and sign-in, text and colours, the fixture generator,
  packaging.
* Durations (but for GDELT's polls in `Worker` and ACLED's token), the wording of
  prompts, CAMEO's and FIPS's full tables, and float rounding: a logarithm is taken to
  a power of two, a decay to whole half-lives.

### Known behaviour without a property

* After a bounded rescore `family_baselines` may lack rows: the bounded read adds
  the oldest event of a *cell*, whereas family baselines clip at the first day of
  a *family* in the cell. `DerivedFresh` speaks of the other three tables.
* Migration 4 says of itself that "the whole file runs inside one implicit transaction
  via execute_batch" (`migrations/0004_signal_families.sql:7-8`), and
  `docs/SIGNAL_MODEL.md:161-162` that it "builds a shadow table inside one
  transaction". The code does not do that: `migrate` opens no transaction
  (`storage/src/lib.rs:950`), and outside one DuckDB commits each statement of a batch
  as it completes. (That is a fact about DuckDB, not about this repository; the code
  relies on it where `do_purge_source` opens a transaction to make its statements one,
  `lib.rs:1099`.) A death after the migration's first statement, the `CREATE` of the
  shadow table, and before its `schema_version` row leaves a file that no later open
  gets past; no other death does. That is `StuckExactlyMidV4`, whose second half could
  not hold if the sentence were true.
* An ingest that is cut off or fails between its flush and its rescore leaves the
  derived tables behind the events (`store_torn`), and no reopening repairs that:
  `OpenedIsCurrent` excepts such a file until something rescores it in full. `Actor`
  tears files by deaths, `Store` by failed statements as well.
* `/health` answers 304 while its `stale` and `age_s` change under one version
  (`services/api/src/main.rs:255`), where `docs/API.md:76-79` promises an unchanged
  body; every other body keeps that promise (`NotModifiedHonest`).
* `/events` examines the oldest rows of a window up to its cap, before it filters
  kinds and themes (`main.rs:624`): beyond the cap the newest are missing. The map's
  query has the same cap but counts licensed rows too and orders by time alone
  (`storage/src/lib.rs:1613`), so beyond it map and pages may show different rows of
  its last hours, and the map different ones of one second from query to query.
* ACLED pages past `MAX_PAGES` are dropped without a word; a token with less than
  the slack left is renewed, yet one that dies in mid-read costs one more try.
* A start, or a late poll, between a boundary and `FEED_LAG_SECS` finds the older
  dump and next asks a slot later: the Events leg skips one for good, the GKG leg
  until a backfill. Only when DOC and Events both fail is a Retry-After heeded, up
  to 15 minutes, and one of GKG never.
* A GDELT cycle takes `now` before it awaits its legs and counts the wait from it
  (`services/workers/src/main.rs:623`, 723): a leg that is still under way when a
  dump comes out asks for it, and so does the next poll. Dedup by id drops the
  second copy; `TwiceOnlyInFlight` says that otherwise, after an answer and within one
  process, only a dump without a successor is asked for twice.
* A live cycle, in the worker and on the desktop, records coverage before it
  ingests (`services/workers/src/main.rs:703`, `app.rs:833`): after a failure in
  between no backfill fetches the window again. `LedgerHonest` therefore speaks of
  live windows only while nothing has failed.
* As many dumps that never appear as a pass has requests block the backfill.
* DOC scores an article at its outlet's country when it names no place
  (`doc.rs:184-186` and `docs/SIGNAL_MODEL.md:112-117` say such a row does not score).
* `CountryIndex` reads `LABEL_X`/`LABEL_Y` as text (`geo-utils/src/lib.rs:271`) and
  the bundled file has numbers: every label falls back to the centroid, contrary to
  `docs/VISUALIZATION.md:239`; the unit test uses text.
* The cutoff of a chatter drain is taken after the sweep
  (`source-telegram/src/live.rs:203`), so a window that ends in mid-sweep goes out
  without posts of channels read earlier, and their rollup is dropped as a duplicate
  later (`docs/DATA_MODEL.md:309` and `chatter/src/lib.rs:192` promise whole windows).
* A first Telegram sweep that fails half-way skips the older messages for good;
  Bluesky has no cursor and undercounts across a reconnect, by design; a Telegram
  search says nothing of the channels that failed.
* The map's window is an offset from the first bucket of the extent: when older
  events arrive or the oldest day is pruned, the hours of a window the user placed
  move (`app.rs:903-908`, against the comment at 278-281).
* A window that follows is placed anew when the extent is refreshed, not when the
  clock passes a bucket; in the reach of seven days a bucket boundary moves every
  window by one without a query (`Since` in `Timeline`).
* `poll_async` clamps against the stored extent, `timeline_content` against the
  reach and without marking the map dirty: a refresh taken on another page can ask
  for hours beyond the reach, and the map keeps that answer (`InReach`).
* "now" pressed while playback runs follows from then on, yet the playback goes on and
  moves the window off the clock's bucket (`panels.rs:608`); the next refresh of the
  extent takes it back, which the comments at `app.rs:277` and `panels.rs:562`
  exclude. `FollowsNow` speaks of a window that was placed and not moved since.
* A ledger page turned while a new window's ledger is on its way is counted from
  the old offset; playback queries again at each step, however far storage is behind.
* After a 429 or a failure with nothing in flight only a new wanted set wakes the
  tile worker (`tiles.rs:396`), and the page sends one only when it differs.
  `RequestRevives` says that one is enough.
* `store_digest` is a delete and an insert; a failure in between loses the
  cached edition. A load that was queued before a digest was stored takes the new
  digest off the page until the day is selected again (`app.rs:1186`). The disconnect
  of the digest worker does not clear `digest_generating`.
* With the clock set back, pruning removes the version just published, which
  `LATEST` names; a failed export's directory takes one of the kept places.
* Pausing overwrites the "no credentials" line; the online box is the OR
  of the lines; FetchNow and re-enabling ignore a Retry-After.
* A clip in the player may lose its row when a re-merge keeps the other spelling of
  its URL; queued media searches that are skipped never report that they started.

## 6. What is left

1. `/health` under the ETag middleware and the two windows named above (chatter,
   timeline) as runs that state the documentation's sentences.
2. Proofs: `ScoresStayWhole`, by bounds on `Log2` and `RecencyWeight` instead of their
   values.
3. The desktop's other timers (ACLED's half day, the hourly alerts) on `Worker`'s
   clock; the endpoint rotation of Bluesky; the Telegram session file beside a crash.
