----------------------------- MODULE DigestPage -----------------------------
(***************************************************************************)
(* The Daily Events page (app.rs, daily_events.rs), the digest worker      *)
(* (digest.rs) and the digest commands of the storage actor.  Writing a    *)
(* day is one paid call: the page asks the store for the day's facts, hands*)
(* them to the worker, and caches what comes back.  The page never waits:  *)
(* every query has one reply slot, and a new query replaces the slot, so   *)
(* the reply to the old one is dropped.                                    *)
(***************************************************************************)
EXTENDS Naturals, Sequences

CONSTANTS Day,         \* days with records; 0 stands for none
          MaxCalls,    \* bound: paid calls per behaviour
          MaxQueue,    \* bound: commands waiting for the actor
          MaxFaults    \* bound: failed statements, failed calls and crashes

ASSUME DayAssumption == Day \subseteq Nat \ {0}
ASSUME BoundAssumption == MaxCalls \in Nat /\ MaxQueue \in Nat /\ MaxFaults \in Nat

None == 0
NoDigest == [day |-> None, ver |-> None]
Empty == [st |-> "none", ans |-> NoDigest]
Waiting == [st |-> "waiting", ans |-> NoDigest]

VARIABLES
  page,    \* the App fields of the page, see PageInit
  cached,  \* durable: the digest cached for each day, None or its number
  queue,   \* commands waiting for the storage actor, in order
  jobs,    \* days handed to the worker, the first one being written
  rx,      \* the worker's messages: a digest, or ver = None for Failed
  calls,   \* digests written so far; they are numbered by it
  faults   \* faults so far

vars == <<page, cached, queue, jobs, rx, calls, faults>>

PageInit == [day |-> None, digest |-> NoDigest, error |-> FALSE, generating |-> None,
             load |-> Empty, facts |-> Empty, listing |-> "none", listed |-> {},
             loaded |-> FALSE, marks |-> {}]

Init ==
  /\ page = PageInit
  /\ cached \in [Day -> {None}]
  /\ queue = <<>> /\ jobs = <<>> /\ rx = <<>>
  /\ calls = 0 /\ faults = 0

-----------------------------------------------------------------------------
Cmd(op, day, ver) == [op |-> op, day |-> day, ver |-> ver, live |-> TRUE]

\* Dropping a Reply: the answers to the commands of this kind go nowhere.
Dropped(q, op) == [i \in DOMAIN q |-> IF q[i].op = op THEN [q[i] EXCEPT !.live = FALSE] ELSE q[i]]

\* set_page: the day list is queried on first entry.
EnterPage ==
  /\ Len(queue) < MaxQueue
  /\ ~page.loaded /\ page.listing = "none"
  /\ page' = [page EXCEPT !.listing = "waiting"]
  /\ queue' = Append(queue, Cmd("days", None, None))
  /\ UNCHANGED <<cached, jobs, rx, calls, faults>>

\* Mutant: the reply slot of the previous day's load is kept.
SelectKeepingLoad(d) ==
  /\ Len(queue) < MaxQueue
  /\ page.loaded /\ page.day # d
  /\ page' = [page EXCEPT !.day = d, !.digest = NoDigest, !.error = FALSE,
                          !.load = Waiting, !.facts = Empty]
  /\ queue' = Append(Dropped(queue, "facts"), Cmd("load", d, None))
  /\ UNCHANGED <<cached, jobs, rx, calls, faults>>

\* select_digest_day
SelectDay(d) ==
  /\ Len(queue) < MaxQueue
  /\ page.loaded /\ page.day # d
  /\ page' = [page EXCEPT !.day = d, !.digest = NoDigest, !.error = FALSE,
                          !.load = Waiting, !.facts = Empty]
  /\ queue' = Append(Dropped(Dropped(queue, "load"), "facts"), Cmd("load", d, None))
  /\ UNCHANGED <<cached, jobs, rx, calls, faults>>

\* Mutant: a running generation is not looked at.
BusyOnFacts == page.facts # Empty
Busy == page.generating # None \/ page.facts # Empty

\* digest_actions and start_digest
StartDigest ==
  /\ Len(queue) < MaxQueue /\ calls + Len(jobs) < MaxCalls
  /\ page.day # None /\ ~Busy
  /\ page' = [page EXCEPT !.error = FALSE, !.facts = Waiting]
  /\ queue' = Append(queue, Cmd("facts", page.day, None))
  /\ UNCHANGED <<cached, jobs, rx, calls, faults>>

-----------------------------------------------------------------------------
\* poll_digest, one call per frame: the worker's messages, then the replies.

\* Mutant: a digest is cached only for the day on screen.
OnMessageShownOnly(s, m) ==
  IF m.ver = None \/ s.page.day # m.day
  THEN [s EXCEPT !.page.generating = None, !.page.error = @ \/ s.page.day = m.day]
  ELSE [page  |-> [s.page EXCEPT !.generating = None, !.listing = "waiting", !.digest = m],
        queue |-> Dropped(s.queue, "days")
                    \o <<Cmd("store", m.day, m.ver), Cmd("days", None, None)>>]

\* DigestMsg::Written and DigestMsg::Failed
OnMessage(s, m) ==
  IF m.ver = None
  THEN [s EXCEPT !.page.generating = None, !.page.error = @ \/ s.page.day = m.day]
  ELSE [page  |-> [s.page EXCEPT !.generating = None, !.listing = "waiting",
                     !.digest = IF s.page.day = m.day THEN m ELSE @],
        queue |-> Dropped(s.queue, "days")
                    \o <<Cmd("store", m.day, m.ver), Cmd("days", None, None)>>]

TakeList(p) ==
  IF p.listing # "ok" THEN p
  ELSE [p EXCEPT !.listing = "none", !.listed = {}, !.loaded = TRUE, !.marks = p.listed]
TakeLoad(p) ==
  CASE p.load.st = "ok"  -> [p EXCEPT !.load = Empty, !.digest = p.load.ans]
    [] p.load.st = "err" -> [p EXCEPT !.load = Empty, !.error = TRUE]
    [] OTHER -> p
TakeFacts(p) ==
  CASE p.facts.st = "ok"  -> [p EXCEPT !.facts = Empty, !.generating = p.facts.ans.day]
    [] p.facts.st = "err" -> [p EXCEPT !.facts = Empty, !.error = TRUE]
    [] OTHER -> p

\* The messages that have arrived, one after the other.
Received ==
  LET got[n \in 0 .. Len(rx)] == IF n = 0 THEN [page |-> page, queue |-> queue]
                                 ELSE OnMessage(got[n - 1], rx[n])
  IN  got[Len(rx)]

Poll ==
  LET got == Received
      now == TakeFacts(TakeLoad(TakeList(got.page)))
  IN /\ page' = now
     /\ queue' = got.queue
     /\ rx' = <<>>
     /\ jobs' = IF got.page.facts.st = "ok" THEN Append(jobs, got.page.facts.ans.day) ELSE jobs
     /\ UNCHANGED <<cached, calls, faults>>

-----------------------------------------------------------------------------
\* The digest worker: one call at a time, in arrival order.
WorkerWrites ==
  /\ jobs # <<>> /\ calls < MaxCalls
  /\ calls' = calls + 1
  /\ rx' = Append(rx, [day |-> Head(jobs), ver |-> calls'])
  /\ jobs' = Tail(jobs)
  /\ UNCHANGED <<page, cached, queue, faults>>

WorkerFails ==
  /\ jobs # <<>>
  /\ faults < MaxFaults /\ faults' = faults + 1
  /\ rx' = Append(rx, [day |-> Head(jobs), ver |-> None])
  /\ jobs' = Tail(jobs)
  /\ UNCHANGED <<page, cached, queue, calls>>

-----------------------------------------------------------------------------
\* The storage actor takes the next command.
Answer(c, ok) ==
  LET hit(d) == IF cached[d] = None THEN NoDigest ELSE [day |-> d, ver |-> cached[d]]
      reply(ans) == IF ok THEN [st |-> "ok", ans |-> ans] ELSE [st |-> "err", ans |-> NoDigest]
  IN CASE c.live /\ c.op = "load"  -> [page EXCEPT !.load = reply(hit(c.day))]
       [] c.live /\ c.op = "facts" -> [page EXCEPT !.facts = reply([day |-> c.day, ver |-> None])]
       [] c.live /\ c.op = "days"  ->
            IF ok THEN [page EXCEPT !.listing = "ok", !.listed = {d \in Day : cached[d] # None}]
                  ELSE [page EXCEPT !.listing = "none"]
       [] OTHER -> page

\* do_store_digest: DELETE, then INSERT.
Stored(c) == IF c.op = "store" THEN [cached EXCEPT ![c.day] = c.ver] ELSE cached
HalfStored(c) == IF c.op = "store" THEN [cached EXCEPT ![c.day] = None] ELSE cached

ActorRuns ==
  /\ queue # <<>>
  /\ queue' = Tail(queue)
  /\ page' = Answer(Head(queue), TRUE)
  /\ cached' = Stored(Head(queue))
  /\ UNCHANGED <<jobs, rx, calls, faults>>

\* A statement fails; of a store, the first or the second.
ActorFails ==
  /\ queue # <<>>
  /\ faults < MaxFaults /\ faults' = faults + 1
  /\ queue' = Tail(queue)
  /\ page' = Answer(Head(queue), FALSE)
  /\ cached' \in {cached, HalfStored(Head(queue))}
  /\ UNCHANGED <<jobs, rx, calls>>

\* The process dies, possibly between the two statements, and is restarted.
Crash ==
  /\ faults < MaxFaults /\ faults' = faults + 1
  /\ cached' \in {cached} \cup {HalfStored(queue[i]) : i \in DOMAIN queue \cap {1}}
  /\ page' = PageInit
  /\ queue' = <<>> /\ jobs' = <<>> /\ rx' = <<>>
  /\ UNCHANGED calls

-----------------------------------------------------------------------------
Next ==
  \/ EnterPage
  \/ \E d \in Day : SelectDay(d)
  \/ StartDigest
  \/ Poll
  \/ WorkerWrites
  \/ WorkerFails
  \/ ActorRuns
  \/ ActorFails
  \/ Crash

Spec == Init /\ [][Next]_vars

\* The three threads keep running; what the user does is up to the user.
FairSpec == Spec /\ WF_vars(Poll) /\ WF_vars(WorkerWrites) /\ WF_vars(ActorRuns)

-----------------------------------------------------------------------------
\* "Guarded so a double-click cannot spend two calls" (start_digest): however
\* days are selected, started and abandoned, one call is in flight at a time
\* and the page knows of it.
OnePaidCall ==
  /\ Len(jobs) + Len(rx) <= 1
  /\ Len(jobs) + Len(rx) = 1 => page.generating # None /\ page.facts = Empty

\* What is shown under a day's heading was written for that day: "a slow reply
\* can never land under the new day's heading" (select_digest_day).
ShownUnderItsHeading == page.digest # NoDigest => page.digest.day = page.day

\* "A paid call must never be lost just because the user has moved to another
\* day while it was in flight" (poll_digest): unless a call, a statement or the
\* program fails, it reaches the cache.
PaidCallCached ==
  \A d \in Day, v \in 1 .. MaxCalls :
    (\E i \in DOMAIN rx : rx[i] = [day |-> d, ver |-> v])
      ~> (cached[d] = v \/ faults > 0)

=============================================================================
