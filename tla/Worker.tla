------------------------------- MODULE Worker -------------------------------
(***************************************************************************)
(* The headless worker (services/workers main.rs): the fixture seed, one   *)
(* bounded GKG backfill pass driven by the coverage ledger, then the live  *)
(* loop of GDELT cycles and of the other sources' cycles; every ingest     *)
(* that brought something is published as a snapshot.  The worker may die  *)
(* between any two of its storage calls and is started again.              *)
(* GDELT's dumps are files stamped with the start of their window; a dump  *)
(* is out Lag after its stamp and never changes.                           *)
(***************************************************************************)
EXTENDS Integers, Sequences, FiniteSets, Sched

CONSTANTS Step,         \* DUMP_WINDOW_SECS
          Lag,          \* how long after its stamp a dump is out
          FeedLag,      \* FEED_LAG_SECS
          BackoffBase, BackoffCap, \* Backoff::default
          RetryAfter,   \* what a 429 may ask for: {a delay}, or {}
          From,         \* LES_GKG_BACKFILL_START
          BackfillMax,  \* LES_GKG_BACKFILL_MAX
          Quiet,        \* stamps of the dumps without a usable row
          Lacking,      \* stamps whose dump GDELT never put out
          MaxTime,      \* bound: the clock
          MaxFaults     \* bound: failed storage calls and deaths of the worker

ASSUME WorkerAssumption ==
  /\ Step \in Nat \ {0} /\ Lag \in Nat /\ FeedLag \in Nat /\ Lag <= FeedLag
  /\ BackoffBase \in Nat \ {0} /\ BackoffCap \in Nat \ {0} /\ UNION RetryAfter \subseteq Nat
  /\ From \in Nat /\ BackfillMax \in Nat
  /\ MaxTime \in Nat /\ MaxFaults \in Nat

Stamp == {s \in 0 .. MaxTime : s % Step = 0}

\* Rows of anything but GKG: fixtures, DOC, Events and the other sources.
Other == -1
VARIABLES
  clock,      \* wall clock
  nextAt,     \* when the next GDELT cycle is due
  attempt,    \* the failed cycles in a row
  polled,     \* history: when this process's last poll of GDELT began and the dumps
              \* its legs asked for; Never when no feed answered it
  ledger,     \* coverage_ledger, the rows of the gkg leg
  events,     \* what is in the store: stamps of GKG dumps, and Other
  published,  \* what the snapshot LATEST names holds
  pc,         \* the storage call, or the place between two, the worker is at
  todo,       \* the windows the backfill pass has left
  done,       \* whether it has landed a window
  cycle,      \* the locals of a live cycle; empty otherwise
  byBackfill, \* history: stamps a backfill pass recorded as ok
  faults      \* bound: faults so far

time == <<clock, nextAt, attempt, polled>>
disk == <<ledger, events, published>>
process == <<pc, todo, done, cycle>>
headlessVars == <<time, disk, process, byBackfill, faults>>

Row(s, status) == [start |-> s, end |-> s + Step, status |-> status]

\* now, rows, coverage and errors of a cycle, and the dumps the pointer named to it.
NoCycle == [gdelt |-> FALSE, at |-> -1, rows |-> {}, cover |-> {}, doc |-> {}, events |-> {},
            asked |-> {}]
Never == [at |-> -1, asked |-> {}]

WorkerInit ==
  /\ clock = 0 /\ nextAt = 0 /\ attempt = 0 /\ polled = Never
  /\ ledger = {} /\ events = {} /\ published = {}
  /\ pc = "down" /\ todo = <<>> /\ done = FALSE /\ cycle = NoCycle
  /\ byBackfill = {} /\ faults = 0

-----------------------------------------------------------------------------
\* do_coverage_covered
Covered == {r \in ledger : r.status = "ok"}

\* A dump that can be fetched now.
Out(s) == s \in Stamp \ Lacking /\ s + Lag <= clock

Rows(s) == IF s \in Quiet THEN {} ELSE {s}

Goto(p) == pc' = p /\ UNCHANGED <<todo, done, cycle>>

\* The locals of a pass or a cycle end with it.
Return(p) == pc' = p /\ todo' = <<>> /\ done' = FALSE /\ cycle' = NoCycle

Fault == faults < MaxFaults /\ faults' = faults + 1

\* LES_SEED_FIXTURES is read at each start.
Start(seeding) ==
  /\ pc = "down"
  /\ Goto(IF seeding THEN "seed" ELSE "plan")
  /\ UNCHANGED <<time, disk, byBackfill, faults>>

\* The fixtures are ingested and published before anything is fetched; an error
\* here ends the process.
Seed ==
  /\ pc = "seed"
  /\ events' = events \cup {Other}
  /\ Goto("seed publish")
  /\ UNCHANGED <<time, ledger, published, byBackfill, faults>>

SeedPublish ==
  /\ pc = "seed publish"
  /\ published' = events
  /\ Goto("plan")
  /\ UNCHANGED <<time, ledger, events, byBackfill, faults>>

-----------------------------------------------------------------------------
\* backfill_gkg

Taken(windows) ==
  SubSeq(windows, 1, IF Len(windows) < BackfillMax THEN Len(windows) ELSE BackfillMax)

\* The oldest windows the ledger does not show as ok.
Planned == Taken(MissingWindows(BackfillWindows(From, clock, Step), Covered))

Plan ==
  /\ pc = "plan"
  /\ IF From >= clock
     THEN Return("live")
     ELSE pc' = "backfill" /\ todo' = Planned /\ done' = FALSE /\ UNCHANGED cycle
  /\ UNCHANGED <<time, disk, byBackfill, faults>>

\* Mutant: the rows are not waited for.
AfterFetchNoWait(s) == "record"
\* A dump without rows is recorded at once.
AfterFetch(s) == IF Rows(s) = {} THEN "record" ELSE "ingest"

FetchWindow(s) ==
  /\ pc = "backfill" /\ todo # <<>> /\ s = Head(todo).start
  /\ Out(s)
  /\ Goto(AfterFetch(s))
  /\ UNCHANGED <<time, disk, byBackfill, faults>>

FetchWindowFails ==
  /\ pc = "backfill" /\ todo # <<>>
  /\ Goto("record failed")
  /\ UNCHANGED <<time, disk, byBackfill, faults>>

BackfillIngest ==
  /\ pc = "ingest"
  /\ events' = events \cup Rows(Head(todo).start)
  /\ Goto("record")
  /\ UNCHANGED <<time, ledger, published, byBackfill, faults>>

\* record_coverage of a landed window...
BackfillRecord ==
  /\ pc = "record"
  /\ ledger' = ledger \cup {Row(Head(todo).start, "ok")}
  /\ byBackfill' = byBackfill \cup {Head(todo).start}
  /\ pc' = "backfill" /\ todo' = Tail(todo) /\ done' = TRUE
  /\ UNCHANGED <<time, events, published, cycle, faults>>

\* ...and of one that failed, which stays a gap.
BackfillRecordFailed ==
  /\ pc = "record failed"
  /\ ledger' = ledger \cup {Row(Head(todo).start, "failed")}
  /\ pc' = "backfill" /\ todo' = Tail(todo)
  /\ UNCHANGED <<time, events, published, done, cycle, byBackfill, faults>>

BackfillEnds ==
  /\ pc = "backfill" /\ todo = <<>>
  /\ IF done THEN Goto("publish") ELSE Return("live")
  /\ UNCHANGED <<time, disk, byBackfill, faults>>

BackfillPublish ==
  /\ pc = "publish"
  /\ published' = events
  /\ Return("live")
  /\ UNCHANGED <<time, ledger, events, byBackfill, faults>>

\* A storage call of the pass fails: the error ends the pass, nothing else.
BackfillErrs ==
  /\ pc \in {"plan", "ingest", "record", "record failed", "publish"}
  /\ Fault
  /\ Return("live")
  /\ UNCHANGED <<time, disk, byBackfill>>

-----------------------------------------------------------------------------
\* The live loop.

Newest == {s \in Stamp : Out(s) /\ \A t \in Stamp : Out(t) => t <= s}

Errors == {[limited |-> FALSE, after |-> {}]}
            \cup {[limited |-> TRUE, after |-> after] : after \in RetryAfter}

\* What a feed answers with: rows, none, or an error.
Answers == [rows : SUBSET {Other}, errors : {{}}]
             \cup [rows : {{}}, errors : {{e} : e \in Errors}]

\* fetch_cycle, when its timer has fired, takes `now` and then awaits one leg
\* after the other.  DOC answers with rows or none, or fails...
FetchDoc(doc) ==
  /\ pc = "live" /\ clock >= nextAt
  /\ pc' = "fetch events"
  /\ cycle' = [NoCycle EXCEPT !.gdelt = TRUE, !.at = clock, !.rows = doc.rows, !.doc = doc.errors]
  /\ UNCHANGED <<time, disk, todo, done, byBackfill, faults>>

\* ...then the Events feed, whose lastupdate.txt names the dump that is newest
\* by then...
FetchEvents(ev) ==
  /\ pc = "fetch events"
  /\ pc' = "fetch gkg"
  /\ cycle' = [cycle EXCEPT !.rows = @ \cup ev.rows, !.events = ev.errors, !.asked = Newest]
  /\ UNCHANGED <<time, disk, todo, done, byBackfill, faults>>

\* ...then GKG, which reads lastupdate.txt again and may fail without a word.
FetchGkg(gkg) ==
  /\ pc = "fetch gkg"
  /\ pc' = "cover"
  /\ cycle' = [cycle EXCEPT !.rows = @ \cup UNION {Rows(s) : s \in gkg},
                            !.cover = {Row(s, "ok") : s \in gkg},
                            !.asked = @ \cup Newest]
  /\ UNCHANGED <<time, disk, todo, done, byBackfill, faults>>

\* The coverage is recorded before the rows are ingested; an error is logged.
\* Then the wait is chosen: only when both feeds failed does the worker back
\* off, from the error of one of them; otherwise it waits for the slot after
\* the `now` the cycle began at.
Cover(ok) ==
  LET failed == cycle.doc # {} /\ cycle.events # {}
      error(errors) == CHOOSE e \in errors : TRUE
  IN  /\ pc = "cover"
      /\ IF ok THEN UNCHANGED faults ELSE Fault
      /\ ledger' = IF ok THEN ledger \cup cycle.cover ELSE ledger
      /\ IF failed
         THEN /\ attempt' = attempt + 1 /\ polled' = Never
              /\ \E d \in Backoff(BackoffBase, BackoffCap, attempt,
                                  PickBackoffError(error(cycle.doc), error(cycle.events))) :
                   nextAt' = clock + d
         ELSE /\ attempt' = 0 /\ polled' = [at |-> cycle.at, asked |-> cycle.asked]
              /\ nextAt' = clock + UntilNextSlot(cycle.at, Step, FeedLag)
      /\ IF cycle.rows = {}
         THEN Return("live")
         ELSE /\ pc' = "live ingest" /\ UNCHANGED <<todo, done>>
              /\ cycle' = [NoCycle EXCEPT !.gdelt = TRUE, !.rows = cycle.rows]
      /\ UNCHANGED <<clock, events, published, byBackfill>>

\* live_cycle: ACLED, NOAA, IODA, Bluesky, Telegram; no coverage.
OtherCycle ==
  /\ pc = "live"
  /\ pc' = "live ingest" /\ cycle' = [NoCycle EXCEPT !.rows = {Other}]
  /\ UNCHANGED <<time, disk, todo, done, byBackfill, faults>>

LiveIngest ==
  /\ pc = "live ingest"
  /\ events' = events \cup cycle.rows
  /\ Goto("live publish")
  /\ UNCHANGED <<time, ledger, published, byBackfill, faults>>

\* Mutant: only rows that were new are published.
LivePublishNews ==
  /\ pc = "live publish"
  /\ published' = published \cup cycle.rows
  /\ Return("live")
  /\ UNCHANGED <<time, ledger, events, byBackfill, faults>>
\* The snapshot is the whole store, whatever this cycle added to it.
LivePublish ==
  /\ pc = "live publish"
  /\ published' = events
  /\ Return("live")
  /\ UNCHANGED <<time, ledger, events, byBackfill, faults>>

\* An ingest or a publish fails: logged, and the loop goes on.
LiveErrs ==
  /\ pc \in {"live ingest", "live publish"}
  /\ Fault
  /\ Return("live")
  /\ UNCHANGED <<time, disk, byBackfill>>

\* The process ends: of its timers, its back-off and its cycle nothing is left,
\* and the next one polls at once.
Ends ==
  /\ Return("down")
  /\ nextAt' = 0 /\ attempt' = 0 /\ polled' = Never
  /\ UNCHANGED <<clock, disk, byBackfill>>

\* ctrl_c is heard between cycles.
Stop == pc = "live" /\ Ends /\ UNCHANGED faults

Die == pc # "down" /\ Fault /\ Ends

\* The wait of a GDELT cycle begins when the cycle is over, rows ingested.
Tick ==
  /\ clock < MaxTime /\ clock' = clock + 1
  /\ nextAt' = IF pc \in {"live ingest", "live publish"} /\ cycle.gdelt
               THEN nextAt + 1 ELSE nextAt
  /\ UNCHANGED <<attempt, polled, disk, process, byBackfill, faults>>

-----------------------------------------------------------------------------
WorkerNext ==
  \/ \E seeding \in BOOLEAN : Start(seeding)
  \/ Seed \/ SeedPublish \/ Plan
  \/ \E s \in Stamp : FetchWindow(s)
  \/ FetchWindowFails
  \/ BackfillIngest \/ BackfillRecord \/ BackfillRecordFailed
  \/ BackfillEnds \/ BackfillPublish \/ BackfillErrs
  \/ \E doc \in Answers : FetchDoc(doc)
  \/ \E ev \in Answers : FetchEvents(ev)
  \/ \E gkg \in SUBSET Newest : FetchGkg(gkg)
  \/ \E ok \in BOOLEAN : Cover(ok)
  \/ OtherCycle \/ LiveIngest \/ LivePublish \/ LiveErrs
  \/ Stop \/ Die \/ Tick

WorkerSpec == WorkerInit /\ [][WorkerNext]_headlessVars

\* The loop never stops between two calls, timers fire, a dump that is out is
\* served in the end, and so is the feed; a leg answers or times out; storage
\* answers once faults are over.
WorkerFairSpec ==
  /\ WorkerSpec
  /\ WF_headlessVars(Tick)
  /\ WF_headlessVars((\E seeding \in BOOLEAN : Start(seeding)) \/ Seed \/ SeedPublish \/ Plan)
  /\ WF_headlessVars((\E s \in Stamp : FetchWindow(s)) \/ FetchWindowFails)
  /\ WF_headlessVars(BackfillIngest \/ BackfillRecord \/ BackfillRecordFailed
               \/ BackfillEnds \/ BackfillPublish)
  /\ WF_headlessVars((\E ev \in Answers : FetchEvents(ev)) \/ (\E gkg \in SUBSET Newest : FetchGkg(gkg)))
  /\ WF_headlessVars(Cover(TRUE) \/ LiveIngest \/ LivePublish)
  /\ SF_headlessVars(OtherCycle)
  /\ \A s \in Stamp : SF_headlessVars(FetchWindow(s))

-----------------------------------------------------------------------------
\* "Each window is recorded as it lands" (backfill_gkg): wherever the worker
\* died, a window the pass recorded as ok has its rows in the store.  A live
\* cycle records first: of its windows that holds once it has ingested, as long
\* as no call failed and the worker did not die.
LedgerHonest ==
  /\ \A s \in byBackfill : Rows(s) \subseteq events
  /\ faults = 0 /\ pc # "live ingest" =>
       \A r \in ledger : r.status = "ok" => Rows(r.start) \subseteq events

\* "Shortly after the upcoming feed boundary" (until_next_slot): of two polls in
\* a row, the first answered, the second asks GDELT for something new.  A dump
\* both asked for came out while the first was under way, its `now` already
\* taken - that wait ends at the same dump again - or GDELT put out none since
\* (fetch_cycle).
TwiceOnlyInFlight ==
  pc = "cover" => \A s \in polled.asked \cap cycle.asked :
                    s + Lag > polled.at \/ s + Step \in Lacking

\* Restarted again and again, the worker fills every gap that can be filled, as
\* long as fewer dumps are lacking than a pass has requests: what failed or was
\* cut off is tried again.
GapsFill ==
  []<>(pc = "down") =>
    \A s \in Stamp \ Lacking :
      From <= s /\ s + Lag <= MaxTime => <>(\E r \in ledger : r.status = "ok" /\ r.start = s)

\* A window that is in the store reaches a snapshot, also when the worker died
\* or failed between the ingest and the publish.
CatchesUp == \A s \in Stamp \ (Quiet \cup Lacking) : s \in events ~> s \in published
=============================================================================
