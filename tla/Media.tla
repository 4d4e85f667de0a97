-------------------------------- MODULE Media --------------------------------
(***************************************************************************)
(* The on-demand media search of the desktop: the page and its handle      *)
(* (media_page.rs, MediaHandle), the worker that runs the legs of one      *)
(* search at a time (media.rs worker, run_search), and the session the UI  *)
(* thread folds the worker's messages into (MediaSession, poll_media).     *)
(* The worker dispatches a leg per provider; a newer search supersedes the *)
(* one that runs, and every message carries the generation it belongs to.  *)
(***************************************************************************)
EXTENDS Lookup

CONSTANTS Answers,      \* per provider: the answers a search of "place" may get
          Query,        \* the query of each text of the place field
          MaxSearches,  \* bound: searches dispatched
          MaxClears     \* bound: presses of "clear"

Generation == 0 .. MaxSearches + MaxClears

Clips == UNION {UNION {a.clips : a \in Answers[p]} : p \in Provider}

\* No two hits tie in the order of merge, so a list is known by its set.
ASSUME MediaAssumption ==
  /\ Provider \subseteq DOMAIN Rank /\ MaxSearches \in Nat /\ MaxClears \in Nat
  /\ IsFiniteSet(Provider) /\ IsFiniteSet(Clips)
  /\ \A p, q \in Provider : Rank[p] \in Nat /\ (Rank[p] = Rank[q] => p = q)
  /\ \A h \in Clips : h.ts \in Nat /\ h.provider \in Provider
  /\ \A g, h \in Clips : g.ts = h.ts /\ Rank[g.provider] = Rank[h.provider] => g = h

Nothing == "nothing"

VARIABLES
  place,      \* the text in the field: "", not searchable ("?"), or a place
  session,    \* what the page knows of the search on screen
  ctl,        \* generations on their way to the worker
  worker,     \* the search it runs, its outstanding legs, the slow notice
  rx, open,   \* messages on their way to the UI; the UI still listens
  dispatched, \* next_generation - 1
  clears,     \* bound: clears so far
  answered,   \* history, per search: the clips its legs' providers have
  replied     \* history, per search: the legs that answered

pageVars == <<place, session, dispatched, clears, open>>
history == <<answered, replied>>
vars == <<pageVars, ctl, worker, rx, history>>

Started(g) == [kind |-> "started", gen |-> g, providers |-> Provider]
ProviderFinished(g, p, hits) == [kind |-> "answer", gen |-> g, provider |-> p, hits |-> hits]
ProviderFailed(g, p) == [kind |-> "problem", gen |-> g, provider |-> p]
StillWaiting(g, ps) == [kind |-> "slow", gen |-> g, providers |-> ps]
Finished(g) == [kind |-> "finished", gen |-> g]

\* Mutant: an answer replaces the list.
FoldInReplace(old, new) == Merge(new)
FoldIn(old, new) == Merge(old \cup new)

Urls(hits) == {h.url : h \in hits}

Empty(g) == [gen |-> g, hits |-> {}, waiting |-> {}, problems |-> {},
             selected |-> Nothing, searching |-> FALSE, slow |-> FALSE, status |-> Nothing]

Idle == [phase |-> "idle", gen |-> 0, legs |-> {}, slow |-> FALSE]

Init ==
  /\ place = "" /\ session = Empty(0) /\ dispatched = 0 /\ clears = 0
  /\ ctl = <<>> /\ worker = Idle /\ rx = <<>> /\ open = TRUE
  /\ answered = [g \in Generation |-> {}] /\ replied = [g \in Generation |-> {}]

-----------------------------------------------------------------------------
\* The page.

Type(text) ==
  /\ place # text
  /\ place' = text
  /\ UNCHANGED <<session, dispatched, clears, open, ctl, worker, rx, history>>

NextGeneration == dispatched + 1

\* start_media_search, from the button or Enter; the page offers neither while
\* it is searching.  A dead worker's channel drops the request.
Submit ==
  /\ ~session.searching
  /\ IF ~ IsValid(Query[place])
     THEN /\ session' = [session EXCEPT !.searching = FALSE, !.status = "type a place"]
          /\ UNCHANGED <<dispatched, ctl>>
     ELSE /\ dispatched < MaxSearches
          /\ dispatched' = NextGeneration
          /\ session' = [Empty(dispatched') EXCEPT !.searching = TRUE, !.status = "searching"]
          /\ ctl' = IF worker.phase = "dead" THEN ctl ELSE Append(ctl, dispatched')
  /\ UNCHANGED <<place, clears, open, worker, rx, history>>

\* The clear button: text, results and the claim on replies in flight.
Clear ==
  /\ place # "" /\ clears < MaxClears
  /\ clears' = clears + 1
  /\ place' = ""
  /\ session' = Empty(session.gen + 1)
  /\ UNCHANGED <<dispatched, open, ctl, worker, rx, history>>

Select(h) ==
  /\ h \in session.hits /\ session.selected # h.url
  /\ session' = [session EXCEPT !.selected = h.url]
  /\ UNCHANGED <<place, dispatched, clears, open, ctl, worker, rx, history>>

-----------------------------------------------------------------------------
\* MediaSession::apply and poll_media.

\* compose_status: the kinds of line the page tells apart.
ComposeStatus(s) ==
  CASE ~s.searching /\ s.hits # {}                    -> "results"
    [] ~s.searching /\ s.hits = {} /\ s.problems = {} -> "none found"
    [] ~s.searching /\ s.hits = {} /\ s.problems # {} -> "no results, problems"
    [] s.searching /\ s.waiting = {}                  -> "searching"
    [] s.searching /\ s.waiting # {} /\ s.hits = {}   -> IF s.slow THEN "still waiting" ELSE "searching"
    [] s.searching /\ s.waiting # {} /\ s.hits # {}   -> "results so far"

\* keep_selection: the clip is held by URL and dropped when the list lost it.
KeepSelection(s) == IF s.selected \in Urls(s.hits) THEN s ELSE [s EXCEPT !.selected = Nothing]

Folded(m, s) ==
  CASE m.kind = "started"  -> [s EXCEPT !.waiting = m.providers, !.searching = TRUE]
    [] m.kind = "answer"   -> KeepSelection([s EXCEPT !.waiting = @ \ {m.provider},
                                                      !.hits = FoldIn(@, m.hits)])
    [] m.kind = "problem"  -> [s EXCEPT !.waiting = @ \ {m.provider},
                                        !.problems = @ \cup {m.provider}]
    [] m.kind = "slow"     -> [s EXCEPT !.waiting = m.providers, !.slow = TRUE]
    [] m.kind = "finished" -> [s EXCEPT !.searching = FALSE, !.waiting = {}]

\* A message of any other generation is discarded.
Apply(m, s) ==
  IF m.gen # s.gen THEN s
  ELSE LET t == Folded(m, s) IN [t EXCEPT !.status = ComposeStatus(t)]

\* poll_media takes what has arrived; a frame that takes two messages is one
\* that took the first just before the second arrived.
Poll ==
  /\ open /\ rx # <<>>
  /\ session' = Apply(Head(rx), session)
  /\ rx' = Tail(rx)
  /\ UNCHANGED <<place, dispatched, clears, open, ctl, worker, history>>

\* Mutant: the page stops listening and leaves the spinner.
DisconnectedSpinning ==
  /\ open /\ rx = <<>> /\ worker.phase = "dead"
  /\ open' = FALSE
  /\ UNCHANGED <<session, place, dispatched, clears, ctl, worker, rx, history>>
\* The worker is gone and all its messages are taken: stop the spinner.
Disconnected ==
  /\ open /\ rx = <<>> /\ worker.phase = "dead"
  /\ session' = [session EXCEPT !.searching = FALSE]
  /\ open' = FALSE
  /\ UNCHANGED <<place, dispatched, clears, ctl, worker, rx, history>>

-----------------------------------------------------------------------------
\* The worker.

Send(ms) == rx' = rx \o ms

\* Only the newest request is worth a socket; the others are skipped.
PickUp ==
  /\ worker.phase = "idle" /\ ctl # <<>>
  /\ LET g == ctl[Len(ctl)]
     IN /\ worker' = [phase |-> "running", gen |-> g, legs |-> Provider, slow |-> FALSE]
        /\ Send(<<Started(g)>>)
  /\ ctl' = <<>>
  /\ UNCHANGED <<pageVars, history>>

\* A leg answers...
LegAnswers(p) ==
  /\ worker.phase = "running" /\ p \in worker.legs
  /\ worker' = [worker EXCEPT !.legs = @ \ {p}]
  /\ \E a \in Answers[p] :
       /\ Send(<<ProviderFinished(worker.gen, p, a.hits)>>)
       /\ answered' = [answered EXCEPT ![worker.gen] = @ \cup a.clips]
  /\ replied' = [replied EXCEPT ![worker.gen] = @ \cup {p}]
  /\ UNCHANGED <<pageVars, ctl>>

\* ...or fails: a reply that is an error, or its own budget is spent.
LegFails(p) ==
  /\ worker.phase = "running" /\ p \in worker.legs
  /\ worker' = [worker EXCEPT !.legs = @ \ {p}]
  /\ Send(<<ProviderFailed(worker.gen, p)>>)
  /\ UNCHANGED <<pageVars, ctl, history>>

\* Mutant: the notice names every provider of the search.
SlowNoticeAll ==
  /\ worker.phase = "running" /\ worker.legs # {} /\ ~worker.slow
  /\ worker' = [worker EXCEPT !.slow = TRUE]
  /\ Send(<<StillWaiting(worker.gen, Provider)>>)
  /\ UNCHANGED <<pageVars, ctl, history>>
SlowNotice ==
  /\ worker.phase = "running" /\ worker.legs # {} /\ ~worker.slow
  /\ worker' = [worker EXCEPT !.slow = TRUE]
  /\ Send(<<StillWaiting(worker.gen, worker.legs)>>)
  /\ UNCHANGED <<pageVars, ctl, history>>

\* The deadline of the whole search, after the slow notice: every outstanding
\* leg is dropped and named.
Total ==
  /\ worker.phase = "running" /\ worker.legs # {} /\ worker.slow
  /\ worker' = [worker EXCEPT !.legs = {}]
  /\ Send([i \in 1 .. Cardinality(worker.legs) |->
             ProviderFailed(worker.gen,
               CHOOSE p \in worker.legs :
                 Cardinality({q \in worker.legs : Rank[q] < Rank[p]}) = i - 1)])
  /\ UNCHANGED <<pageVars, ctl, history>>

\* A newer search ends this one, its legs unfinished.
Supersede ==
  /\ worker.phase = "running" /\ worker.legs # {} /\ ctl # <<>>
  /\ worker' = Idle
  /\ Send(<<Finished(worker.gen)>>)
  /\ UNCHANGED <<pageVars, ctl, history>>

Conclude ==
  /\ worker.phase = "running" /\ worker.legs = {}
  /\ worker' = Idle
  /\ Send(<<Finished(worker.gen)>>)
  /\ UNCHANGED <<pageVars, ctl, history>>

\* The thread ends: its runtime could not be built, or it panicked.
Die ==
  /\ worker.phase # "dead"
  /\ worker' = [Idle EXCEPT !.phase = "dead"]
  /\ ctl' = <<>>
  /\ UNCHANGED <<pageVars, rx, history>>

-----------------------------------------------------------------------------
Texts == {"", "?", "place"}

Next ==
  \/ \E text \in Texts : Type(text)
  \/ Submit \/ Clear \/ \E h \in session.hits : Select(h)
  \/ Poll \/ Disconnected
  \/ PickUp \/ SlowNotice \/ Total \/ Supersede \/ Conclude \/ Die
  \/ \E p \in Provider : LegAnswers(p) \/ LegFails(p)

Spec == Init /\ [][Next]_vars

\* Every message of the worker asks for a frame, every leg has a budget, and
\* the worker's loop never stops between two awaits.
FairSpec ==
  /\ Spec
  /\ WF_vars(Poll) /\ WF_vars(Disconnected) /\ WF_vars(PickUp) /\ WF_vars(Conclude)
  /\ \A p \in Provider : WF_vars(LegAnswers(p) \/ LegFails(p))

-----------------------------------------------------------------------------
Coming(g) == UNION {rx[i].hits : i \in {j \in DOMAIN rx : rx[j].kind = "answer" /\ rx[j].gen = g}}

\* The list, with what is still on its way, holds exactly the clips that the
\* providers of the search on screen have and merge keeps, each with the player
\* a reader would expect: whatever order the legs answered in, nothing that is
\* no video, and nothing of a search that was superseded or cleared.
ListComplete ==
  open => Merge(session.hits \cup Coming(session.gen)) = Merge(answered[session.gen])

\* "No video found" is said only of a search whose every provider answered, and
\* with nothing to show: no failure, rejection in prose, deadline or supersession
\* reads as an empty result.
HonestEmpty ==
  session.status = "none found" =>
    replied[session.gen] = Provider /\ answered[session.gen] = {}

\* With every message taken, the page waits for the legs the worker waits for,
\* and for nothing when the worker has nothing to do.
PageAgrees ==
  rx = <<>> /\ open =>
    /\ worker.phase = "running" /\ worker.gen = session.gen =>
         session.searching /\ session.waiting = worker.legs /\ session.slow = worker.slow
    /\ worker.phase = "idle" /\ ctl = <<>> => ~session.searching /\ session.waiting = {}

\* A spinner ends, also when the worker vanishes, as long as the page listened
\* when the search was dispatched.
SpinnerClears == session.searching /\ open ~> ~session.searching
=============================================================================
