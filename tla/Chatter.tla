------------------------------- MODULE Chatter -------------------------------
(***************************************************************************)
(* Chatter rollups: posts are counted in memory per class and window       *)
(* (crates/chatter), windows that have closed are drained and stored, and  *)
(* storage keeps the first rollup of an id.  Telegram sweeps its channels  *)
(* from high-water marks (source-telegram); Bluesky counts a socket's      *)
(* posts as they come (source-bluesky).  Places and topics are part of an  *)
(* id as the class is, so one of each stands for all.                      *)
(***************************************************************************)
EXTENDS Integers, Sequences, FiniteSets, FiniteSetsExt

CONSTANTS Channels,       \* the configured Telegram channels, in order
          ClassOfChannel, \* each one's class
          Firehose,       \* Jetstream
          Unspecified,    \* the firehose's class
          WindowSecs,
          FirstLimit,     \* FIRST_SWEEP_LIMIT
          CycleLimit,     \* PER_CYCLE_LIMIT
          MaxTime,        \* bound: the clock
          MaxPosts,       \* bound: posts in the world
          MaxFaults       \* bound: failed sweeps and ingests, lost sockets, restarts, switchings

ASSUME ChatterAssumption ==
  /\ WindowSecs \in Nat \ {0} /\ FirstLimit \in Nat \ {0} /\ CycleLimit \in Nat \ {0}
  /\ Channels \in Seq(DOMAIN ClassOfChannel)
  /\ DOMAIN ClassOfChannel = {Channels[i] : i \in DOMAIN Channels}
  /\ Firehose \notin DOMAIN ClassOfChannel
  /\ MaxTime \in Nat /\ MaxPosts \in Nat /\ MaxFaults \in Nat

Feed == DOMAIN ClassOfChannel \cup {Firehose}
Class(f) == IF f = Firehose THEN Unspecified ELSE ClassOfChannel[f]

WindowOf(t) == (t \div WindowSecs) * WindowSecs

\* The id of a rollup.
Key == {Class(f) : f \in Feed} \X {WindowOf(t) : t \in 0 .. MaxTime}

VARIABLES
  adapter, \* which source runs here
  clock,
  posts,   \* what was posted to each feed, in order: the time, and whether it
           \* names a known place and a known topic
  pc,      \* off | idle | sweep | drain | ingest
  turn,    \* the next channel of a sweep
  mark,    \* last_seen: a channel's newest message counted; 0 is none
  socket,  \* none (no task) | connecting | open
  cursor,  \* the firehose post the socket is at
  counts,  \* the accumulator
  batch,   \* rollups drained and not yet ingested
  stored,  \* the rollups in storage; 0 is none
  faults,  \* bound: faults so far
  calm     \* history: nothing has kept a post from its window so far

reader == <<pc, turn, mark, socket, cursor>>
world == <<adapter, clock, posts>>
chatterVars == <<world, reader, counts, batch, stored, faults, calm>>

Empty == [k \in Key |-> 0]

ChatterInit ==
  /\ adapter \in {"telegram", "bluesky"}
  /\ clock = 0 /\ posts = [f \in Feed |-> <<>>]
  /\ pc = "idle" /\ turn = 1 /\ mark = [c \in DOMAIN ClassOfChannel |-> 0]
  /\ socket = "none" /\ cursor = 0
  /\ counts = Empty /\ batch = Empty /\ stored = Empty
  /\ faults = 0 /\ calm = TRUE

-----------------------------------------------------------------------------
\* ChatterAccumulator

\* A post adds to the window it was posted in, if it names a place and a topic.
Counts(f, i, k) ==
  Class(f) = k[1] /\ posts[f][i].hit /\ WindowOf(posts[f][i].ts) = k[2]

\* The posts of feed f at positions seen are counted.
Observed(c, f, seen) == [k \in Key |-> c[k] + Cardinality({i \in seen : Counts(f, i, k)})]

Completed(k, now) == k[2] < WindowOf(now)

\* Mutant: the drained windows are dropped.
DrainCompletedDropped ==
  /\ batch' = Empty
  /\ counts' = [k \in Key |-> IF Completed(k, clock) THEN 0 ELSE counts[k]]
DrainCompleted ==
  /\ batch' = [k \in Key |-> IF Completed(k, clock) THEN counts[k] ELSE 0]
  /\ counts' = [k \in Key |-> IF Completed(k, clock) THEN 0 ELSE counts[k]]

\* Storage keeps the first event of an id.
Kept(k) == IF stored[k] = 0 THEN batch[k] ELSE stored[k]

Fault == faults < MaxFaults /\ faults' = faults + 1 /\ calm' = FALSE

-----------------------------------------------------------------------------
\* Telegram: ChannelOrchestrator

\* What a read of channel c can deliver: everything past the mark, oldest
\* first, or on first contact the newest few, newest first.
Unread(c) == mark[c] + 1 .. Len(posts[c])
SweepPage(c) == IF mark[c] = 0 THEN {i \in Unread(c) : i > Len(posts[c]) - FirstLimit}
                ELSE {i \in Unread(c) : i <= mark[c] + CycleLimit}
\* The first n messages of it.
Delivered(c, n) ==
  IF mark[c] = 0 THEN {i \in SweepPage(c) : i > Len(posts[c]) - n}
  ELSE {i \in SweepPage(c) : i <= mark[c] + n}

\* Mutant: a sweep that failed leaves the mark where it was.
AdvancedOnSuccess(c, n) == IF n = Cardinality(SweepPage(c)) /\ n > 0 THEN Max(Delivered(c, n)) ELSE mark[c]
\* ChannelSweep::finish: what arrived before a failure advances it as well.
Advanced(c, n) == IF n > 0 THEN Max(Delivered(c, n)) ELSE mark[c]

\* A sweep goes on until every channel has been read.
Sweeping(next) == IF next > Len(Channels) THEN "drain" ELSE "sweep"

Sweep ==
  /\ adapter = "telegram" /\ pc = "idle"
  /\ pc' = Sweeping(1) /\ turn' = 1
  /\ UNCHANGED <<world, mark, socket, cursor, counts, batch, stored, faults, calm>>

\* One channel; a failure after n messages is swallowed.
SweepChannel(n) ==
  /\ pc = "sweep"
  /\ LET c == Channels[turn] IN
       /\ n <= Cardinality(SweepPage(c))
       /\ IF n < Cardinality(SweepPage(c)) THEN Fault
          ELSE calm' = (calm /\ SweepPage(c) = Unread(c)) /\ UNCHANGED faults
       /\ counts' = Observed(counts, c, Delivered(c, n))
       /\ mark' = [mark EXCEPT ![c] = Advanced(c, n)]
  /\ turn' = turn + 1 /\ pc' = Sweeping(turn')
  /\ UNCHANGED <<world, socket, cursor, batch, stored>>

-----------------------------------------------------------------------------
\* Bluesky: BlueskySource

\* start_stream does nothing when a task is running.
Running == socket # "none"

StartStream ==
  /\ adapter = "bluesky" /\ pc # "off" /\ ~Running
  /\ socket' = "connecting"
  /\ UNCHANGED <<world, pc, turn, mark, cursor, counts, batch, stored, faults, calm>>

\* No cursor is asked for: the stream begins with what is posted next.
Connect ==
  /\ socket = "connecting"
  /\ socket' = "open" /\ cursor' = Len(posts[Firehose])
  /\ UNCHANGED <<world, pc, turn, mark, counts, batch, stored, faults, calm>>

Receive ==
  /\ socket = "open" /\ cursor < Len(posts[Firehose])
  /\ cursor' = cursor + 1
  /\ counts' = Observed(counts, Firehose, {cursor'})
  /\ UNCHANGED <<world, pc, turn, mark, socket, batch, stored, faults, calm>>

Disconnect ==
  /\ socket = "open" /\ Fault
  /\ socket' = "connecting"
  /\ UNCHANGED <<world, pc, turn, mark, cursor, counts, batch, stored>>

\* stop_stream joins the task, then discards the windows it had pending.
StopStream ==
  /\ pc = "idle" /\ Running /\ Fault
  /\ socket' = "none" /\ counts' = Empty
  /\ UNCHANGED <<world, pc, turn, mark, cursor, batch, stored>>

\* fetch is polled while the source is on.
PollStream ==
  /\ pc = "idle" /\ Running
  /\ pc' = "drain"
  /\ UNCHANGED <<world, turn, mark, socket, cursor, counts, batch, stored, faults, calm>>

-----------------------------------------------------------------------------
Drain ==
  /\ pc = "drain"
  /\ DrainCompleted
  /\ pc' = "ingest"
  /\ UNCHANGED <<world, turn, mark, socket, cursor, stored, faults, calm>>

Ingest ==
  /\ pc = "ingest"
  /\ stored' = [k \in Key |-> Kept(k)]
  /\ pc' = "idle" /\ batch' = Empty
  /\ UNCHANGED <<world, turn, mark, socket, cursor, counts, faults, calm>>

\* The batch is gone: an error is logged, and nothing counts its posts again.
IngestFails ==
  /\ pc = "ingest" /\ Fault
  /\ pc' = "idle" /\ batch' = Empty
  /\ UNCHANGED <<world, turn, mark, socket, cursor, counts, stored>>

\* Accumulator and marks are in memory only.
Die ==
  /\ pc # "off" /\ Fault
  /\ pc' = "off" /\ turn' = 1 /\ mark' = [c \in DOMAIN ClassOfChannel |-> 0]
  /\ socket' = "none" /\ cursor' = 0 /\ counts' = Empty /\ batch' = Empty
  /\ UNCHANGED <<world, stored>>

Start ==
  /\ pc = "off" /\ pc' = "idle"
  /\ UNCHANGED <<world, turn, mark, socket, cursor, counts, batch, stored, faults, calm>>

-----------------------------------------------------------------------------
Here == IF adapter = "telegram" THEN DOMAIN ClassOfChannel ELSE {Firehose}

\* The posts there are, each by its feed and its place in it.
Posted == UNION {{f} \X DOMAIN posts[f] : f \in Feed}

Post(f, hit) ==
  /\ f \in Here
  /\ Cardinality(Posted) < MaxPosts
  /\ posts' = [posts EXCEPT ![f] = Append(@, [ts |-> clock, hit |-> hit])]
  /\ calm' = (calm /\ (f = Firehose => socket = "open"))
  /\ UNCHANGED <<adapter, clock, reader, counts, batch, stored, faults>>

\* Time is not calm when a window ends while channels already swept wait for the
\* drain, or while the socket is behind.
OnTime ==
  IF adapter = "telegram" THEN pc \notin {"sweep", "drain"}
  ELSE socket = "open" => cursor = Len(posts[Firehose])

Tick ==
  /\ clock < MaxTime /\ clock' = clock + 1
  /\ calm' = (calm /\ (WindowOf(clock') = WindowOf(clock) \/ OnTime))
  /\ UNCHANGED <<adapter, posts, reader, counts, batch, stored, faults>>

-----------------------------------------------------------------------------
ChatterNext ==
  \/ Sweep \/ \E n \in 0 .. MaxPosts : SweepChannel(n)
  \/ StartStream \/ Connect \/ Receive \/ Disconnect \/ StopStream \/ PollStream
  \/ Drain \/ Ingest \/ IngestFails \/ Die \/ Start
  \/ \E f \in Feed, hit \in BOOLEAN : Post(f, hit)
  \/ Tick

ChatterSpec == ChatterInit /\ [][ChatterNext]_chatterVars

\* The cycle is polled on its cadence and runs to its end; the task of a source
\* that is on connects and reads; clocks run.
ChatterFairSpec ==
  /\ ChatterSpec
  /\ WF_chatterVars(Sweep \/ PollStream) /\ WF_chatterVars(\E n \in 0 .. MaxPosts : SweepChannel(n))
  /\ WF_chatterVars(Drain) /\ WF_chatterVars(Ingest)
  /\ WF_chatterVars(Start \/ StartStream) /\ WF_chatterVars(Connect) /\ WF_chatterVars(Receive)
  /\ WF_chatterVars(Tick)

-----------------------------------------------------------------------------
\* The posts a rollup stands for.
PostsOf(k) == Cardinality({p \in Posted : Counts(p[1], p[2], k)})

\* docs/DATA_MODEL.md:338-342, "never double counted": neither a failed sweep nor
\* a restart that reads a channel again makes a window count a post twice.
NeverOvercounts ==
  \A k \in Key : counts[k] + batch[k] <= PostsOf(k) /\ stored[k] <= PostsOf(k)

\* Such a window is not forgotten either, however drains and windows fall.
EveryWindowOut ==
  []calm => [](clock = MaxTime => <>(\A k \in Key : Completed(k, clock) => stored[k] = PostsOf(k)))

=============================================================================
