------------------------------- MODULE Ingest -------------------------------
(***************************************************************************)
(* The desktop's live ingest: the worker thread that polls the sources     *)
(* (ingest.rs), the switches the user sets (app.rs set_online,             *)
(* set_source_enabled, fetch_now), the Bluesky socket that follows the     *)
(* switches (sync_stream), and the UI thread that takes the worker's       *)
(* messages and hands the batches to storage one at a time (poll_async).   *)
(* Commands and messages cross on two unbounded queues; while a cycle is   *)
(* awaited the worker hears nothing.                                       *)
(***************************************************************************)
EXTENDS Naturals, Sequences, SequencesExt

CONSTANTS Source,     \* the sources of the build
          Gdelt,      \* the two-feed source: every cycle of it reports a batch
          Stream,     \* the source whose cycles only drain a socket (Bluesky)
          Available,  \* those with their credentials; any other is ACLED without them
          SavedOff,   \* the switches found off in the settings file
          MaxClicks,  \* bound: commands of the user
          MaxRx,      \* bound: messages waiting for the UI when a cycle starts
          MaxBatches  \* bound: batches reported; later cycles report none

Nobody == "none"

ASSUME SourceAssumption ==
  /\ IsFiniteSet(Source) /\ Nobody \notin Source
  /\ Gdelt \in Available /\ Stream \in Source /\ Gdelt # Stream
  /\ Available \subseteq Source /\ SavedOff \subseteq Source
  /\ MaxClicks \in Nat /\ MaxRx \in Nat /\ MaxBatches \in Nat

VARIABLES
  asked,     \* the user's last word: live updates, and the sources switched on
  appOnline, \* the "live updates" box
  ctl,       \* commands on their way to the worker
  online, enabled,   \* the worker's copy of the switches
  next,      \* per source: its timer has fired ("due") or what it waits for
  busy,      \* the source whose cycle is awaited
  status,    \* the worker's status line per source
  socket,    \* the Bluesky stream task runs
  rx,        \* messages on their way to the UI
  shown,     \* the status lines the UI has
  queue, pending,    \* batches waiting for storage; the one being ingested
  stored,    \* batches ingested, in order
  reported,  \* how many batches the worker has reported
  lost,      \* history: batches whose ingest failed
  userOn,    \* history: sources the user has ever switched on or started with on
  clicks     \* bound: commands given so far

userVars == <<asked, clicks, userOn>>
workerVars == <<online, enabled, next, busy, status, socket, reported>>
storeVars == <<queue, pending, stored, lost>>
vars == <<appOnline, ctl, rx, shown, userVars, workerVars, storeVars>>

Details == {"paused", "uncredentialed", "off", "waiting", "fetching", "ok", "failed"}
Line == [online : BOOLEAN, degraded : BOOLEAN, scheduled : BOOLEAN, detail : Details]

\* SourceStatus::offline; ACLED and Telegram say that they lack credentials.
Offline(s) ==
  [online |-> FALSE, degraded |-> FALSE, scheduled |-> FALSE,
   detail |-> IF s \in Available THEN "paused" ELSE "uncredentialed"]

SetOnline(b) == [op |-> "online", on |-> b]
SetEnabled(s, b) == [op |-> "source", source |-> s, on |-> b]
FetchNow == [op |-> "fetch"]
Status(s, l) == [kind |-> "status", source |-> s, line |-> l]
Loaded(n) == [kind |-> "batch", number |-> n]

Statuses(ss, lines) ==
  LET order == SetToSeq(ss) IN [i \in 1 .. Len(order) |-> Status(order[i], lines[order[i]])]

OffSwitches ==
  LET off == SetToSeq(SavedOff) IN [i \in 1 .. Len(off) |-> SetEnabled(off[i], FALSE)]

\* App::new replays the saved off-switches, then goes online (or not).
StartupCtl(b) == OffSwitches \o <<SetOnline(b)>>

Init ==
  /\ \E b \in BOOLEAN : /\ asked = [online |-> b, enabled |-> Source \ SavedOff]
                        /\ appOnline = b /\ ctl = StartupCtl(b)
  /\ online = FALSE /\ enabled = Source
  /\ next = [s \in Source |-> IF s = Stream THEN "cadence" ELSE "due"]
  /\ busy = Nobody /\ socket = FALSE /\ reported = 0
  /\ status = [s \in Source |-> Offline(s)]
  /\ rx = Statuses(Source \ Available, status) /\ shown = status
  /\ queue = <<>> /\ pending = <<>> /\ stored = <<>> /\ lost = {}
  /\ clicks = 0 /\ userOn = Source \ SavedOff

-----------------------------------------------------------------------------
\* The user.

Send(c) == ctl' = Append(ctl, c)

Click == clicks < MaxClicks /\ clicks' = clicks + 1

\* The box shows appOnline, so a click asks for its negation.
ToggleOnline ==
  /\ Click
  /\ appOnline' = ~appOnline
  /\ asked' = [asked EXCEPT !.online = ~appOnline]
  /\ Send(SetOnline(~appOnline))
  /\ UNCHANGED <<userOn, workerVars, rx, shown, storeVars>>

ToggleSource(s) ==
  /\ Click
  /\ LET on == s \notin asked.enabled
     IN /\ asked' = [asked EXCEPT !.enabled = IF on THEN @ \cup {s} ELSE @ \ {s}]
        /\ userOn' = IF on THEN userOn \cup {s} ELSE userOn
        /\ Send(SetEnabled(s, on))
  /\ UNCHANGED <<appOnline, workerVars, rx, shown, storeVars>>

\* "fetch now" is offered while the box is ticked.
AskFetch ==
  /\ Click /\ appOnline
  /\ Send(FetchNow)
  /\ UNCHANGED <<appOnline, asked, userOn, workerVars, rx, shown, storeVars>>

-----------------------------------------------------------------------------
\* The worker between cycles.

\* The guard of every arm.
Running(s) == online /\ s \in enabled /\ s \in Available

\* What a source waits for when it is switched on: a drain at once would
\* publish a stub window, so the stream waits one cadence.
Restarted(s) == IF s = Stream THEN "cadence" ELSE "due"

\* Mutant: a source that is switched off keeps its old text.
AfterOnlineStale(b) ==
  [s \in Source |->
     LET live == b /\ s \in enabled /\ s \in Available
     IN [online |-> live, degraded |-> b /\ status[s].degraded,
         scheduled |-> b /\ status[s].scheduled,
         detail |-> IF ~b THEN "paused" ELSE IF live THEN "fetching" ELSE status[s].detail]]
\* The worker's answer to SetOnline: every line.
AfterOnline(b) ==
  [s \in Source |->
     LET live == b /\ s \in enabled /\ s \in Available
     IN [online |-> live,
         degraded |-> b /\ status[s].degraded,
         scheduled |-> b /\ s \in enabled /\ status[s].scheduled,
         detail |-> IF ~b THEN "paused"
                    ELSE IF s \notin enabled THEN "off"
                    ELSE IF live THEN "fetching" ELSE status[s].detail]]

\* sync_stream
Synced(b) == Stream \in Available /\ b /\ Stream \in enabled

HearOnline(b) ==
  /\ online' = b
  /\ status' = AfterOnline(b)
  /\ next' = [s \in Source |-> IF b /\ s \in enabled /\ s \in Available THEN Restarted(s) ELSE next[s]]
  /\ socket' = Synced(b)
  /\ rx' = rx \o Statuses(Source, status')
  /\ UNCHANGED <<enabled, busy, reported>>

\* SetSourceEnabled: nothing happens unless the switch moves.
HearEnabled(s, b) ==
  IF (s \in enabled) = b THEN UNCHANGED <<workerVars, rx>>
  ELSE LET live == b /\ online /\ s \in Available
       IN /\ enabled' = IF b THEN enabled \cup {s} ELSE enabled \ {s}
          /\ status' = [status EXCEPT ![s] =
               [online |-> live, degraded |-> FALSE,
                scheduled |-> live /\ @.scheduled,
                detail |-> IF ~b THEN "off" ELSE IF live THEN "fetching" ELSE "waiting"]]
          /\ next' = IF live THEN [next EXCEPT ![s] = Restarted(s)] ELSE next
          /\ socket' = IF s = Stream /\ Stream \in Available THEN b /\ online ELSE socket
          /\ rx' = rx \o Statuses({s}, status')
          /\ UNCHANGED <<online, busy, reported>>

\* FetchNow makes every running source due, whatever it was waiting for.
HearFetch ==
  /\ next' = [s \in Source |-> IF Running(s) THEN "due" ELSE next[s]]
  /\ UNCHANGED <<online, enabled, busy, status, socket, reported, rx>>

Hear ==
  /\ busy = Nobody /\ ctl # <<>>
  /\ ctl' = Tail(ctl)
  /\ LET c == Head(ctl)
     IN CASE c.op = "online" -> HearOnline(c.on)
          [] c.op = "source" -> HearEnabled(c.source, c.on)
          [] c.op = "fetch"  -> HearFetch
  /\ UNCHANGED <<appOnline, shown, userVars, storeVars>>

\* Mutant: the timer is not armed again after a failure.
ElapseUnlessFailed(s) ==
  /\ next[s] = "cadence"
  /\ next' = [next EXCEPT ![s] = "due"]
  /\ UNCHANGED <<appOnline, ctl, rx, shown, userVars, storeVars,
                 online, enabled, busy, status, socket, reported>>
\* A timer fires.
Elapse(s) ==
  /\ next[s] # "due"
  /\ next' = [next EXCEPT ![s] = "due"]
  /\ UNCHANGED <<appOnline, ctl, rx, shown, userVars, storeVars,
                 online, enabled, busy, status, socket, reported>>

\* The source's select arm: gated by both switches and by availability.
StartCycle(s) ==
  /\ busy = Nobody /\ next[s] = "due" /\ Running(s)
  /\ Len(rx) <= MaxRx
  /\ busy' = s
  /\ UNCHANGED <<appOnline, ctl, rx, shown, userVars, storeVars,
                 online, enabled, next, status, socket, reported>>

\* Does a cycle with this outcome report a batch?  GDELT always has coverage or
\* failures to report; the others only records.
Reports(s, outcome) == outcome = "ok" \/ s = Gdelt

FinishedLine(outcome) ==
  [online |-> status[busy].online, degraded |-> outcome = "failed", scheduled |-> TRUE,
   detail |-> IF outcome = "failed" THEN "failed" ELSE "ok"]

\* live_cycle and fetch_cycle: the batch first, then the status line.
FinishCycle(outcome) ==
  /\ busy # Nobody
  /\ LET s == busy
         batch == IF Reports(s, outcome) /\ reported < MaxBatches THEN <<Loaded(reported + 1)>> ELSE <<>>
     IN /\ next' = [next EXCEPT ![s] = IF outcome = "failed" THEN "backoff" ELSE "cadence"]
        /\ status' = [status EXCEPT ![s] = FinishedLine(outcome)]
        /\ rx' = rx \o batch \o <<Status(s, status'[s])>>
        /\ reported' = reported + Len(batch)
  /\ busy' = Nobody
  /\ UNCHANGED <<appOnline, ctl, shown, userVars, storeVars, online, enabled, socket>>

-----------------------------------------------------------------------------
\* The UI thread's frame: poll_async.

Batches ==
  LET taken[n \in 0 .. Len(rx)] ==
        IF n = 0 THEN <<>>
        ELSE IF rx[n].kind = "batch" THEN Append(taken[n - 1], rx[n].number) ELSE taken[n - 1]
  IN  taken[Len(rx)]

\* The last status line received for a source replaces the one shown.
LinesOf(s) == {i \in 1 .. Len(rx) : rx[i].kind = "status" /\ rx[i].source = s}
Upserted(s) ==
  IF LinesOf(s) = {} THEN shown[s]
  ELSE rx[CHOOSE i \in LinesOf(s) : \A j \in LinesOf(s) : j <= i].line

Frame(mayHand) ==
  /\ rx # <<>> \/ (queue # <<>> /\ pending = <<>>)
  /\ shown' = [s \in Source |-> Upserted(s)]
  /\ appOnline' = IF \E i \in DOMAIN rx : rx[i].kind = "status"
                  THEN \E s \in Source : shown'[s].online ELSE appOnline
  /\ rx' = <<>>
  /\ LET q == queue \o Batches
     IN IF mayHand /\ q # <<>>
        THEN pending' = Append(pending, Head(q)) /\ queue' = Tail(q)
        ELSE queue' = q /\ UNCHANGED pending
  /\ UNCHANGED <<ctl, userVars, workerVars, stored, lost>>

\* All messages are taken; the aggregate of the lines becomes the box, if any
\* line came; then one batch goes to storage if none is there.
Poll == Frame(pending = <<>>)

\* Mutant: a batch whose ingest failed is queued again, behind the others.
IngestedRetry(ok) ==
  /\ pending # <<>>
  /\ pending' = <<>>
  /\ stored' = IF ok THEN stored \o pending ELSE stored
  /\ queue' = IF ok THEN queue ELSE queue \o pending
  /\ UNCHANGED <<lost, appOnline, ctl, rx, shown, userVars, workerVars>>
\* Storage answers the one ingest in flight; an error loses the batch.
Ingested(ok) ==
  /\ pending # <<>>
  /\ pending' = <<>>
  /\ stored' = IF ok THEN stored \o pending ELSE stored
  /\ lost' = IF ok THEN lost ELSE lost \cup ToSet(pending)
  /\ UNCHANGED <<appOnline, ctl, rx, shown, userVars, workerVars, queue>>

-----------------------------------------------------------------------------
Outcomes == {"ok", "empty", "failed"}

Next ==
  \/ ToggleOnline \/ AskFetch \/ \E s \in Source : ToggleSource(s)
  \/ Hear
  \/ \E s \in Source : Elapse(s) \/ StartCycle(s)
  \/ \E outcome \in Outcomes : FinishCycle(outcome)
  \/ Poll
  \/ \E ok \in BOOLEAN : Ingested(ok)

Spec == Init /\ [][Next]_vars

\* tokio's select polls its ready branches in random order, so neither the
\* commands nor any due source is passed over for ever; requests, timers,
\* frames and storage take their course.
FairSpec ==
  /\ Spec
  /\ SF_vars(Hear) /\ WF_vars(Poll)
  /\ WF_vars(\E outcome \in Outcomes : FinishCycle(outcome))
  /\ WF_vars(\E ok \in BOOLEAN : Ingested(ok))
  /\ \A s \in Source : WF_vars(Elapse(s)) /\ SF_vars(StartCycle(s))

-----------------------------------------------------------------------------
\* All that was asked has been heard, reported and shown.
Settled == ctl = <<>> /\ busy = Nobody /\ rx = <<>>

\* What the user last asked for is what happens, however the switches were thrown
\* while a cycle was awaited.  "A source switched off in Settings stays off when
\* live updates resume", and says so "rather than inheriting a stale `paused`
\* line": when all has crossed, every line and the box show what was asked - the
\* box as long as some source can be on.  The socket "runs exactly when live
\* updates are on and the source is enabled" (sync_stream), and no source that
\* was off from the start is polled before it is switched on (App::new).
SwitchesSettle ==
  /\ Settled =>
       /\ \A s \in Source :
            /\ shown[s].online = (asked.online /\ s \in asked.enabled /\ s \in Available)
            /\ asked.online =>
                 IF s \notin asked.enabled THEN shown[s].detail = "off"
                 ELSE s \in Available => shown[s].detail \in {"fetching", "ok", "failed"}
       /\ asked.enabled \cap Available # {} => appOnline = asked.online
  /\ ctl = <<>> => (socket <=> asked.online /\ Stream \in asked.enabled /\ Stream \in Available)
  /\ busy # Nobody => busy \in userOn

\* Every batch reported is in exactly one place and they reach storage in the
\* order reported, one at a time; only a failed ingest loses one.
InOrderOnce ==
  LET all == stored \o pending \o queue \o Batches
  IN  /\ \A i, j \in DOMAIN all : i < j => all[i] < all[j]
      /\ ToSet(all) = (1 .. reported) \ lost

\* A source the user leaves on is polled for ever, whatever fails and however
\* busy the others keep the worker.
KeepsPolling ==
  \A s \in Available :
    <>[](asked.online /\ s \in asked.enabled) => []<>(busy = s)
=============================================================================
