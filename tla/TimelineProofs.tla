--------------------------- MODULE TimelineProofs ---------------------------
(***************************************************************************)
(* However replies, refreshes, the clock, the playback and the user's      *)
(* inputs cross, the map, the strip and the inspector come to show what    *)
(* their headings name: for every set of cells, filters, lengths and       *)
(* extents, and every number of ingests, inputs and failed commands.       *)
(***************************************************************************)
EXTENDS Timeline, SequenceTheorems, TLAPS

-----------------------------------------------------------------------------
\* The invariant, of the desktop's state a.

Apps ==
  [page : {"map", "other"}, phase : {"loading", "ready", "error"},
   extent : Extent \cup {None}, start : Nat, len : Nat \ {0}, range : {"recent", "full"},
   follow : BOOLEAN, playing : BOOLEAN, filter : Filter, selected : Cell \cup {None},
   offset : Nat, dirty : BOOLEAN, layers : View \cup {None}, raw : Nat \cup {None},
   anchor : Int \cup {None}, strip : Strip \cup {None}, detail : View \cup {None},
   ledger : View \cup {None}, pending : [Slot -> Reply \cup {None}], missed : SUBSET Slot,
   queue : Seq(Slot), inbox : Nat]

\* Every query that waits for an answer is in the queue, and no other.
Waits(a, s) == a.pending[s] # None /\ a.pending[s].done = "no"
Asked(q, s) == \E i \in 1 .. Len(q) : q[i] = s
Queued(a) == \A s \in Slot : Asked(a.queue, s) <=> Waits(a, s)

\* Something is still to come, or has failed, that says what is stored...
IngestDue(a) == "ingest" \in a.missed \/ a.pending["ingest"] # None
ExtentDue(a) == "extent" \in a.missed \/ a.pending["extent"] # None
HistogramDue(a) == "histogram" \in a.missed \/ a.pending["histogram"] # None
\* ...or the queries are still to be fired.
Due(a) == IngestDue(a) \/ ExtentDue(a) \/ a.dirty \/ a.extent = None

\* The answers that tell what is stored are of the last ingest.
Answered(a, s) == a.pending[s] # None /\ a.pending[s].done = "ok"
Telling(a) ==
  ~IngestDue(a) =>
    \A s \in {"extent", "histogram"} : Answered(a, s) => a.pending[s].at = db

\* An extent, once there, stays; before it nothing is asked of a cell.
Opened(a) ==
  /\ a.extent # None => db.extent # None
  /\ a.pending["extent"] # None =>
       IF a.pending["extent"].at.extent = None THEN a.extent = None ELSE db.extent # None
  /\ a.extent = None => a.pending["detail"] = None /\ a.pending["ledger"] = None

\* The strip lies over the reach, and its counts are those of the last ingest.
SinceOf(a, t) == a.range = "full" \/ t = now
Over(a) ==
  a.extent # None =>
    /\ a.strip # None /\ a.strip.ver = a.raw /\ a.strip.now <= now
    /\ SinceOf(a, a.strip.now) => a.strip.reach = Reach(a)
Counted(a) ==
  ~IngestDue(a) /\ ~HistogramDue(a) /\ db.extent # None => a.raw = db.ver

\* A window that follows is where the clock last placed it.
Placed(a) == Clamp(now + 1 - Width(a) - Reach(a)[1], 0, MaxStart(a))
Anchored(a) ==
  /\ a.anchor # None => a.anchor <= now
  /\ a.follow /\ a.anchor = now /\ a.extent # None => a.start = Placed(a)

\* A query asks for what is on the screen; for the window, unless the clock has
\* moved the reach since or the window reached beyond it.
Within(a, q) == SinceOf(a, q.now) /\ q.win[2] <= Reach(a)[1] + Total(Reach(a))
Fits(a, s, q) ==
  /\ q.now \in Int /\ q.now <= now
  /\ Within(a, q) => q.win = Window(a)
  /\ s = "layers" => q.filter = a.filter /\ (a.follow /\ a.anchor = now => q.win = Window(a))
  /\ s = "ledger" => q.off = a.offset

\* What a slot shows, or will show when its answer comes, fits.
Seen(a, s) == IF s = "layers" THEN a.layers ELSE IF s = "detail" THEN a.detail ELSE a.ledger
Right(a, s) ==
  s \notin a.missed =>
    IF a.pending[s] # None
    THEN /\ Fits(a, s, a.pending[s].query)
         /\ a.pending[s].done = "ok" => a.pending[s].at.ver = db.ver
    ELSE Seen(a, s) # None /\ Fits(a, s, Seen(a, s).query) /\ Seen(a, s).ver = db.ver
Inspector == {"detail", "ledger"}
Pane == {"layers"} \cup Inspector
Wanted(a) == {s \in Pane : s = "layers" \/ a.selected # None}
Current(a) == ~Due(a) => \A s \in Wanted(a) : Right(a, s)

\* What is shown, or asked for, of a cell is of the one selected.
Title(a, s) ==
  a.selected # None =>
    /\ a.pending[s] # None => a.pending[s].query.cell = a.selected
    /\ Seen(a, s) # None => Seen(a, s).query.cell = a.selected
Headed(a) == \A s \in Inspector : Title(a, s)

\* What stays whatever the stored events, what tells of them, and all of it.
Still(a) == a \in Apps /\ Queued(a) /\ Opened(a) /\ Over(a) /\ Anchored(a)
Kept(a) == Still(a) /\ Telling(a) /\ Counted(a)
Holds(a) == Kept(a) /\ Current(a) /\ Headed(a)

World == now \in Int /\ db \in Stored
IInv == World /\ Holds(app)

-----------------------------------------------------------------------------
\* The state but for the commands, their replies and what was missed.
SameScreen(a, b) ==
  /\ b.page = a.page /\ b.phase = a.phase /\ b.extent = a.extent /\ b.start = a.start
  /\ b.len = a.len /\ b.range = a.range /\ b.follow = a.follow /\ b.playing = a.playing
  /\ b.filter = a.filter /\ b.selected = a.selected /\ b.offset = a.offset
  /\ b.dirty = a.dirty /\ b.layers = a.layers /\ b.raw = a.raw /\ b.anchor = a.anchor
  /\ b.strip = a.strip /\ b.detail = a.detail /\ b.ledger = a.ledger /\ b.inbox = a.inbox

\* Asking puts a command in the queue and waits for its reply.
Asking(a, s, q, b) ==
  /\ b \in Apps /\ SameScreen(a, b)
  /\ b.queue = Append(a.queue, s) /\ b.missed = a.missed \ {s}
  /\ b.pending[s] = [query |-> q, done |-> "no", at |-> db]
  /\ \A x \in Slot \ {s} : b.pending[x] = a.pending[x]
LEMMA AskFields ==
  ASSUME World, NEW a \in Apps, NEW s \in Slot, NEW q \in Query, NEW b, b = Ask(a, s, q)
  PROVE  Asking(a, s, q, b)
<1> DEFINE r == [query |-> q, done |-> "no", at |-> db]
<1>1. r \in Reply BY DEF Reply, World
<1>2. /\ a.pending \in [Slot -> Reply \cup {None}] /\ a.queue \in Seq(Slot)
      /\ a.missed \in SUBSET Slot
  BY DEF Apps
<1>3. b = [a EXCEPT !.pending = [@ EXCEPT ![s] = r], !.queue = Append(@, s),
                    !.missed = @ \ {s}]
  BY DEF Ask
<1>4. PICK p : p = [a.pending EXCEPT ![s] = r] OBVIOUS
<1>5. PICK u : u = Append(a.queue, s) OBVIOUS
<1>6. p \in [Slot -> Reply \cup {None}] /\ u \in Seq(Slot)
  BY <1>1, <1>2, <1>4, <1>5, AppendProperties
<1>7. p[s] = r /\ \A x \in Slot \ {s} : p[x] = a.pending[x] BY <1>2, <1>4
<1>8. b = [a EXCEPT !.pending = p, !.queue = u, !.missed = @ \ {s}] BY <1>3, <1>4, <1>5
<1>9. b.pending = p /\ b.queue = u /\ b.missed = a.missed \ {s} BY <1>8 DEF Apps
<1>10. SameScreen(a, b) BY <1>8 DEF Apps, SameScreen
<1>11. b \in Apps
  <2>1. PICK m \in SUBSET Slot : m = a.missed \ {s} BY <1>2
  <2>2. b = [a EXCEPT !.pending = p, !.queue = u, !.missed = m] BY <1>8, <2>1
  <2> QED BY ZenonT(60), <1>6, <2>2 DEF Apps
<1> QED BY <1>5, <1>7, <1>9, <1>10, <1>11 DEF Asking

\* A command at the end of the queue is one more that is asked.
LEMMA Appended ==
  ASSUME NEW q \in Seq(Slot), NEW s \in Slot, NEW u, u = Append(q, s)
  PROVE  \A x \in Slot : Asked(u, x) <=> Asked(q, x) \/ x = s
<1>1. PICK n \in Nat : n = Len(q) BY LenProperties
<1>2. Len(u) = n + 1 /\ u[n + 1] = s /\ \A i \in 1 .. n : u[i] = q[i]
  BY <1>1, AppendProperties
<1>3. ASSUME NEW x \in Slot PROVE Asked(u, x) <=> Asked(q, x) \/ x = s
  <2>1. ASSUME Asked(u, x) PROVE Asked(q, x) \/ x = s
    <3>1. PICK i \in 1 .. n + 1 : u[i] = x BY <1>2, <2>1 DEF Asked
    <3>2. i \in 1 .. n \/ i = n + 1 BY <1>1
    <3> QED BY <1>1, <1>2, <3>1, <3>2 DEF Asked
  <2>2. ASSUME Asked(q, x) PROVE Asked(u, x)
    <3>1. PICK i \in 1 .. n : q[i] = x BY <1>1, <2>2 DEF Asked
    <3> QED BY <1>1, <1>2, <3>1 DEF Asked
  <2>3. ASSUME x = s PROVE Asked(u, x) BY <1>1, <1>2, <2>3 DEF Asked
  <2> QED BY <2>1, <2>2, <2>3
<1> QED BY <1>3

\* What is asked waits in the queue.
LEMMA AskQueued ==
  ASSUME World, NEW a \in Apps, Queued(a), NEW s \in Slot, NEW q \in Query, NEW b,
         b = Ask(a, s, q)
  PROVE  Queued(b)
<1>1. /\ b.queue = Append(a.queue, s)
      /\ b.pending[s] = [query |-> q, done |-> "no", at |-> db]
      /\ \A x \in Slot \ {s} : b.pending[x] = a.pending[x]
  BY AskFields DEF Asking
<1>2. b.pending[s] # None
  <2>1. [query |-> q, done |-> "no", at |-> db] \in Reply BY DEF World, Reply
  <2> QED BY <1>1, <2>1, NoneAssumption
<1>3. a.queue \in Seq(Slot) BY DEF Apps
<1>4. \A x \in Slot : Asked(b.queue, x) <=> Asked(a.queue, x) \/ x = s BY <1>1, <1>3, Appended
<1>5. ASSUME NEW x \in Slot PROVE Asked(b.queue, x) <=> Waits(b, x)
  <2>1. CASE x = s BY <1>1, <1>2, <1>4, <2>1 DEF Waits
  <2>2. CASE x # s BY <1>1, <1>4, <2>2 DEF Waits, Queued
  <2> QED BY <2>1, <2>2
<1> QED BY <1>5 DEF Queued

\* A reply that has come is taken from its slot.
Taking(a, s, b) ==
  /\ b \in Apps /\ SameScreen(a, b) /\ b.queue = a.queue
  /\ b.pending[s] = None /\ \A x \in Slot \ {s} : b.pending[x] = a.pending[x]
  /\ b.missed = IF Failed(a, s) THEN a.missed \cup {s} ELSE a.missed
  /\ Queued(b)
LEMMA TakenFields ==
  ASSUME NEW a \in Apps, Queued(a), NEW s \in Slot, Ready(a, s), NEW b, b = Taken(a, s)
  PROVE  Taking(a, s, b)
<1>1. /\ a.pending \in [Slot -> Reply \cup {None}] /\ a.missed \in SUBSET Slot BY DEF Apps
<1>2. PICK p : p = [a.pending EXCEPT ![s] = None] OBVIOUS
<1>3. PICK m : m = IF Failed(a, s) THEN a.missed \cup {s} ELSE a.missed OBVIOUS
<1>4. b = [a EXCEPT !.pending = p, !.missed = m] BY <1>2, <1>3 DEF Taken
<1>5. p \in [Slot -> Reply \cup {None}] /\ m \in SUBSET Slot BY <1>1, <1>2, <1>3
<1>6. p[s] = None /\ \A x \in Slot \ {s} : p[x] = a.pending[x] BY <1>1, <1>2
<1>7. b \in Apps BY ZenonT(60), <1>4, <1>5 DEF Apps
<1>8. b.pending = p /\ b.missed = m /\ b.queue = a.queue BY <1>4 DEF Apps
<1>9. SameScreen(a, b) BY <1>4 DEF Apps, SameScreen
<1>10. Queued(b)
  <2>1. ASSUME NEW x \in Slot PROVE Asked(b.queue, x) <=> Waits(b, x)
    <3>1. CASE x = s BY <1>6, <1>8, <3>1 DEF Queued, Waits, Ready
    <3>2. CASE x # s BY <1>6, <1>8, <3>2 DEF Queued, Waits
    <3> QED BY <3>1, <3>2
  <2> QED BY <2>1 DEF Queued
<1> QED BY <1>3, <1>6, <1>7, <1>8, <1>9, <1>10 DEF Taking

-----------------------------------------------------------------------------
\* Windows lie in their reach.
LEMMA Spans ==
  ASSUME World, NEW a \in Apps, a.extent # None
  PROVE  /\ Reach(a) \in Span /\ Reach(a)[1] \in Int /\ Reach(a)[2] \in Int
         /\ Total(Reach(a)) \in Nat \ {0} /\ Width(a) \in 1 .. Total(Reach(a))
         /\ MaxStart(a) = Total(Reach(a)) - Width(a) /\ MaxStart(a) \in Nat
         /\ Window(a) = <<Reach(a)[1] + a.start, Reach(a)[1] + a.start + Width(a)>>
         /\ Window(a) \in Span /\ Placed(a) \in 0 .. MaxStart(a)
<1>1. a.extent \in Int \X Int /\ a.start \in Nat /\ a.len \in Nat \ {0}
  BY ExtentAssumption DEF Apps
<1>2. now \in Int /\ Recent \in Nat BY LengthAssumption DEF World
<1>3. PICK f \in Int, e \in Int : Reach(a) = <<f, e>> BY <1>1, <1>2 DEF Reach, Greatest
<1>4. Reach(a)[1] = f /\ Reach(a)[2] = e BY <1>3
<1>5. PICK t \in Nat \ {0} : t = Total(Reach(a)) BY <1>4 DEF Total, Greatest
<1>6. PICK w \in 1 .. t : w = Width(a) BY <1>1, <1>5 DEF Width, Least
<1>7. MaxStart(a) = t - w BY <1>5, <1>6 DEF MaxStart, Greatest
<1>8. Window(a) = <<f + a.start, f + a.start + w>> BY <1>4, <1>6 DEF Window
<1>9. Placed(a) \in 0 .. (t - w)
  BY <1>2, <1>4, <1>5, <1>6, <1>7 DEF Placed, Clamp, Greatest, Least
<1> QED BY <1>1, <1>3, <1>4, <1>5, <1>6, <1>7, <1>8, <1>9 DEF Span

-----------------------------------------------------------------------------
\* The window, the filters and what the panes show.
SameView(a, b) ==
  /\ b.extent = a.extent /\ b.start = a.start /\ b.len = a.len /\ b.range = a.range
  /\ b.follow = a.follow /\ b.filter = a.filter /\ b.anchor = a.anchor
LEMMA RightSame ==
  ASSUME NEW a, NEW b, SameView(a, b), NEW s, b.pending[s] = a.pending[s],
         s = "ledger" => b.offset = a.offset, Seen(b, s) = Seen(a, s),
         s \in b.missed <=> s \in a.missed, Right(a, s)
  PROVE  Right(b, s)
BY DEF SameView, Right, Fits, Within, SinceOf, Window, Width, Reach, Total

\* What the strip and the anchor say is of the window.
LEMMA OverSame ==
  ASSUME NEW a, NEW b, SameView(a, b), b.strip = a.strip, b.raw = a.raw
  PROVE  (Over(a) => Over(b)) /\ (Anchored(a) => Anchored(b))
BY DEF SameView, Over, Anchored, Placed, SinceOf, Width, Reach, Total, MaxStart

LEMMA ScreenView ==
  ASSUME NEW a, NEW b, SameScreen(a, b)
  PROVE  /\ SameView(a, b) /\ b.strip = a.strip /\ b.raw = a.raw /\ b.offset = a.offset
         /\ \A s : Seen(b, s) = Seen(a, s)
BY DEF SameScreen, SameView, Seen

\* What stays stays when only commands, replies and misses differ.
LEMMA StillSame ==
  ASSUME NEW a, Still(a), NEW b \in Apps, SameScreen(a, b), Queued(b), Opened(b)
  PROVE  Still(b)
BY ScreenView, OverSame DEF Still

LEMMA HeadedSame ==
  ASSUME NEW a, Headed(a), NEW b, SameScreen(a, b),
         \A s \in Inspector : b.pending[s] = a.pending[s]
  PROVE  Headed(b)
BY ScreenView DEF Headed, Title, SameScreen

\* The extent and the histogram are asked for anew (refresh_metadata).
LEMMA RefreshStep ==
  ASSUME World, NEW a, Still(a), Headed(a), NEW b, b = RefreshMetadata(a)
  PROVE  Holds(b)
<1>1. PICK c : c = Ask(a, "extent", <<>>) OBVIOUS
<1>2. b = Ask(c, "histogram", <<>>) BY <1>1 DEF RefreshMetadata
<1>3. <<>> \in Query /\ {"extent", "histogram"} \subseteq Slot BY DEF Query, Slot
<1>4. [query |-> <<>>, done |-> "no", at |-> db] \in Reply BY <1>3 DEF World, Reply
<1>5. a \in Apps /\ Queued(a) /\ Opened(a) BY DEF Still
<1>6. Asking(a, "extent", <<>>, c) BY <1>1, <1>3, <1>5, AskFields
<1>7. c \in Apps BY <1>6 DEF Asking
<1>8. Queued(c) BY <1>1, <1>3, <1>5, AskQueued
<1>9. Asking(c, "histogram", <<>>, b) BY <1>2, <1>3, <1>7, AskFields
<1>10. Queued(b) BY <1>2, <1>3, <1>7, <1>8, AskQueued
<1>11. /\ b.pending["extent"] = [query |-> <<>>, done |-> "no", at |-> db]
       /\ b.pending["histogram"] = [query |-> <<>>, done |-> "no", at |-> db]
       /\ \A x \in Slot \ {"extent", "histogram"} : b.pending[x] = a.pending[x]
  BY <1>6, <1>9 DEF Asking, Slot
<1>12. b.pending["extent"] # None /\ b.pending["histogram"] # None
  BY <1>4, <1>11, NoneAssumption
<1>13. b \in Apps /\ SameScreen(a, b) BY <1>6, <1>9 DEF Asking, SameScreen
<1>14. ExtentDue(b) /\ HistogramDue(b) BY <1>12 DEF ExtentDue, HistogramDue
<1>15. Opened(b)
  <2>1. b.pending["extent"].at = db BY <1>11
  <2>2. b.pending["detail"] = a.pending["detail"] /\ b.pending["ledger"] = a.pending["ledger"]
    BY <1>11 DEF Slot
  <2>3. b.extent = a.extent BY <1>13 DEF SameScreen
  <2> QED BY <1>5, <2>1, <2>2, <2>3 DEF Opened
<1>16. Still(b) BY <1>10, <1>13, <1>15, StillSame
<1>17. Telling(b) BY <1>11 DEF Telling, Answered
<1>18. Counted(b) /\ Current(b) BY <1>14 DEF Counted, Current, Due
<1>19. Headed(b) BY <1>11, <1>13, HeadedSame DEF Inspector, Slot
<1> QED BY <1>16, <1>17, <1>18, <1>19 DEF Holds, Kept

\* The state when only what is shown of the window, the phase or the page differs.
SameReplies(a, b) ==
  /\ b.pending = a.pending /\ b.queue = a.queue /\ b.missed = a.missed
  /\ b.extent = a.extent /\ b.raw = a.raw /\ b.selected = a.selected
  /\ b.detail = a.detail /\ b.ledger = a.ledger
LEMMA RepliesSame ==
  ASSUME NEW a, NEW b \in Apps, SameReplies(a, b)
  PROVE  /\ Queued(a) => Queued(b)
         /\ Telling(a) => Telling(b)
         /\ Opened(a) => Opened(b)
         /\ Counted(a) => Counted(b)
         /\ Headed(a) => Headed(b)
<1> USE DEF SameReplies
<1>1. Queued(a) => Queued(b) BY DEF Queued, Waits
<1>2. Telling(a) => Telling(b) BY DEF Telling, IngestDue, Answered
<1>3. Opened(a) => Opened(b) BY DEF Opened
<1>4. Counted(a) => Counted(b) BY DEF Counted, IngestDue, HistogramDue
<1>5. Headed(a) => Headed(b) BY DEF Headed, Inspector, Title, Seen
<1> QED BY <1>1, <1>2, <1>3, <1>4, <1>5

\* A change of the window marks the map dirty.
LEMMA MoveStep ==
  ASSUME NEW a, Holds(a), NEW b \in Apps, SameReplies(a, b), b.dirty, Over(b), Anchored(b)
  PROVE  Holds(b)
<1>1. Current(b) BY DEF Current, Due
<1> QED BY <1>1, RepliesSame DEF Holds, Kept, Still

\* A change that leaves the window and the filters alone need not.
LEMMA KeepStep ==
  ASSUME NEW a, Holds(a), NEW b \in Apps, SameReplies(a, b), SameView(a, b),
         b.strip = a.strip, b.layers = a.layers, b.offset = a.offset, b.dirty = a.dirty
  PROVE  Holds(b)
<1>1. Over(b) /\ Anchored(b) BY OverSame DEF Holds, Kept, Still, SameReplies
<1>2. ASSUME ~Due(b), NEW s \in Wanted(b) PROVE Right(b, s)
  <2>1. ~Due(a) /\ s \in Wanted(a)
    BY <1>2 DEF Due, IngestDue, ExtentDue, SameReplies, Wanted
  <2>2. Right(a, s) BY <2>1 DEF Holds, Current
  <2>3. Seen(b, s) = Seen(a, s) BY DEF Seen, SameReplies
  <2> QED BY <2>2, <2>3, RightSame DEF SameReplies
<1>3. Current(b) BY <1>2 DEF Current
<1> QED BY <1>1, <1>3, RepliesSame DEF Holds, Kept, Still

\* While an ingest is on its way, or failed, nothing is said of what is stored.
LEMMA IngestPending ==
  ASSUME NEW a, Still(a), Headed(a), IngestDue(a)
  PROVE  Holds(a)
BY DEF Holds, Kept, Telling, Counted, Current, Due

-----------------------------------------------------------------------------
\* poll_async.

\* The next batch goes to storage.
LEMMA SubmitStep ==
  ASSUME World, NEW a, Holds(a), NEW b, b = SubmitBatch(a)
  PROVE  Holds(b)
<1>1. CASE a.pending["ingest"] # None \/ a.inbox = 0 BY <1>1 DEF SubmitBatch
<1>2. CASE ~(a.pending["ingest"] # None \/ a.inbox = 0)
  <2>1. a \in Apps /\ a.inbox \in Nat \ {0} BY <1>2 DEF Holds, Kept, Still, Apps
  <2>2. PICK n \in Nat : n = a.inbox - 1 BY <2>1
  <2>3. PICK h \in {"loading", "ready", "error"} :
          h = IF a.phase = "ready" THEN a.phase ELSE "loading"
    BY <2>1 DEF Apps
  <2>4. PICK c : c = [a EXCEPT !.inbox = n, !.phase = h] OBVIOUS
  <2>5. c \in Apps BY ZenonT(60), <2>1, <2>4 DEF Apps
  <2>6. /\ SameReplies(a, c) /\ SameView(a, c) /\ c.strip = a.strip /\ c.layers = a.layers
        /\ c.offset = a.offset /\ c.dirty = a.dirty
    BY <2>1, <2>4 DEF Apps, SameReplies, SameView
  <2>7. Holds(c) BY <2>5, <2>6, KeepStep
  <2>8. b = Ask(c, "ingest", <<>>) BY <1>2, <2>2, <2>3, <2>4 DEF SubmitBatch
  <2>9. <<>> \in Query /\ "ingest" \in Slot BY DEF Query, Slot
  <2>10. Asking(c, "ingest", <<>>, b) BY <2>5, <2>8, <2>9, AskFields
  <2>11. Queued(b) BY <2>5, <2>7, <2>8, <2>9, AskQueued DEF Holds, Kept, Still
  <2>12. b \in Apps /\ SameScreen(c, b) BY <2>10 DEF Asking
  <2>13. \A x \in Slot \ {"ingest"} : b.pending[x] = c.pending[x] BY <2>10 DEF Asking
  <2>14. Opened(b)
    BY <2>7, <2>12, <2>13 DEF Holds, Kept, Still, Opened, SameScreen, Slot
  <2>15. Still(b) BY <2>7, <2>11, <2>12, <2>14, StillSame DEF Holds, Kept
  <2>16. Headed(b) BY <2>7, <2>12, <2>13, HeadedSame DEF Holds, Inspector, Slot
  <2>17. IngestDue(b)
    <3>1. b.pending["ingest"] = [query |-> <<>>, done |-> "no", at |-> db]
      BY <2>10 DEF Asking
    <3>2. [query |-> <<>>, done |-> "no", at |-> db] \in Reply BY <2>9 DEF World, Reply
    <3> QED BY <3>1, <3>2, NoneAssumption DEF IngestDue
  <2> QED BY <2>15, <2>16, <2>17, IngestPending
<1> QED BY <1>1, <1>2

\* What is still so when the reply of slot s is taken.
Took(a, s, b) ==
  /\ Still(b) /\ Headed(b) /\ SameScreen(a, b) /\ b.pending[s] = None
  /\ \A x \in Slot \ {s} : b.pending[x] = a.pending[x]
  /\ b.missed = IF Failed(a, s) THEN a.missed \cup {s} ELSE a.missed
LEMMA TakenStill ==
  ASSUME NEW a, Holds(a), NEW s \in Slot, Ready(a, s), NEW b, b = Taken(a, s)
  PROVE  Took(a, s, b)
<1>1. a \in Apps /\ Queued(a) /\ Opened(a) /\ Still(a) BY DEF Holds, Kept, Still
<1>2. /\ b \in Apps /\ SameScreen(a, b) /\ b.queue = a.queue
      /\ b.pending[s] = None /\ \A x \in Slot \ {s} : b.pending[x] = a.pending[x]
      /\ b.missed = IF Failed(a, s) THEN a.missed \cup {s} ELSE a.missed
      /\ Queued(b)
  <2>1. Taking(a, s, b) BY <1>1, TakenFields
  <2> QED BY <2>1 DEF Taking
<1>3. \A x \in Slot : b.pending[x] = None \/ b.pending[x] = a.pending[x] BY <1>2
<1>4. Opened(b) BY <1>1, <1>2, <1>3 DEF Opened, SameScreen, Slot
<1>5. Still(b) BY <1>1, <1>2, <1>4, StillSame
<1>6. Headed(b) BY <1>2, <1>3, ScreenView DEF Holds, Headed, Title, SameScreen, Inspector, Slot
<1> QED BY <1>2, <1>5, <1>6 DEF Took

\* A failed command leaves a message where the phase is shown.
LEMMA PhaseField ==
  ASSUME NEW a \in Apps, NEW h \in {"ready", "error"}, NEW b, b = [a EXCEPT !.phase = h]
  PROVE  /\ b \in Apps /\ SameReplies(a, b) /\ SameView(a, b) /\ b.strip = a.strip
         /\ b.layers = a.layers /\ b.offset = a.offset /\ b.dirty = a.dirty
<1>1. b \in Apps BY ZenonT(60) DEF Apps
<1> QED BY ZenonT(60), <1>1 DEF Apps, SameReplies, SameView

\* The batch is stored, or was not.
LEMMA IngestStep ==
  ASSUME World, NEW a, Holds(a), NEW b, b = TakeIngest(a)
  PROVE  Holds(b)
<1>1. CASE ~Ready(a, "ingest") BY <1>1 DEF TakeIngest
<1>2. CASE Ready(a, "ingest")
  <2>1. PICK c : c = Taken(a, "ingest") OBVIOUS
  <2>2. "ingest" \in Slot BY DEF Slot
  <2>3. /\ Still(c) /\ Headed(c)
        /\ c.missed = IF Failed(a, "ingest") THEN a.missed \cup {"ingest"} ELSE a.missed
    <3>1. Took(a, "ingest", c) BY <1>2, <2>1, <2>2, TakenStill
    <3> QED BY <3>1 DEF Took
  <2>4. CASE Failed(a, "ingest")
    <3>1. IngestDue(c) BY <2>3, <2>4 DEF IngestDue
    <3>2. Holds(c) BY <2>3, <3>1, IngestPending
    <3>3. b = [c EXCEPT !.phase = "error"] BY <1>2, <2>1, <2>4 DEF TakeIngest
    <3>4. c \in Apps BY <2>3 DEF Still
    <3> QED BY <3>2, <3>3, <3>4, PhaseField, KeepStep
  <2>5. CASE ~Failed(a, "ingest")
    <3>1. b = RefreshMetadata(c) BY <1>2, <2>1, <2>5 DEF TakeIngest
    <3> QED BY <2>3, <3>1, RefreshStep
  <2> QED BY <2>4, <2>5
<1> QED BY <1>1, <1>2

\* What tells of the stored events is taken like any reply.
LEMMA TakenTelling ==
  ASSUME NEW a, Holds(a), NEW s \in Slot \ {"ingest"}, Ready(a, s), NEW b, b = Taken(a, s)
  PROVE  /\ Telling(b) /\ (IngestDue(b) <=> IngestDue(a))
         /\ s # "histogram" \/ Failed(a, s) => Counted(b)
<1>1. /\ SameScreen(a, b) /\ b.pending[s] = None
      /\ \A x \in Slot \ {s} : b.pending[x] = a.pending[x]
      /\ b.missed = IF Failed(a, s) THEN a.missed \cup {s} ELSE a.missed
  <2>1. Took(a, s, b) BY TakenStill
  <2> QED BY <2>1 DEF Took
<1>2. IngestDue(b) <=> IngestDue(a) BY <1>1 DEF IngestDue, Slot
<1>3. \A x \in Slot : b.pending[x] = None \/ b.pending[x] = a.pending[x] BY <1>1
<1>4. Telling(b) BY <1>2, <1>3 DEF Holds, Kept, Telling, Answered, Slot
<1>5. ASSUME s # "histogram" \/ Failed(a, s) PROVE Counted(b)
  <2>1. CASE s = "histogram"
    <3>1. HistogramDue(b) BY <1>1, <1>5, <2>1 DEF HistogramDue
    <3> QED BY <3>1 DEF Counted
  <2>2. CASE s # "histogram"
    <3>1. HistogramDue(b) <=> HistogramDue(a) BY <1>1, <2>2 DEF HistogramDue, Slot
    <3>2. b.raw = a.raw BY <1>1 DEF SameScreen
    <3> QED BY <1>2, <3>1, <3>2 DEF Holds, Kept, Counted
  <2> QED BY <2>1, <2>2
<1> QED BY <1>2, <1>4, <1>5

\* The window is placed where the clock is (sync_window_to_now).
Syncing(a, b) ==
  /\ b \in Apps /\ SameReplies(a, b) /\ Anchored(b) /\ (Over(a) => Over(b))
  /\ b.range = a.range /\ b.strip = a.strip /\ b.dirty = a.dirty /\ b.phase = a.phase
LEMMA SyncFields ==
  ASSUME World, NEW a \in Apps, a.extent # None, NEW b, b = SyncWindowToNow(a)
  PROVE  Syncing(a, b)
<1>1. PICK n \in Nat : n = Placed(a)
  <2>1. Placed(a) \in 0 .. MaxStart(a) /\ MaxStart(a) \in Nat BY Spans
  <2> QED BY <2>1
<1>2. b = [a EXCEPT !.start = n, !.anchor = now] BY <1>1 DEF SyncWindowToNow, Placed
<1>3. now \in Int BY DEF World
<1>4. b \in Apps BY ZenonT(60), <1>2, <1>3 DEF Apps
<1>5. /\ b.start = n /\ b.anchor = now /\ b.extent = a.extent /\ b.len = a.len
      /\ b.range = a.range /\ b.strip = a.strip /\ b.raw = a.raw /\ b.dirty = a.dirty
      /\ b.phase = a.phase
  BY <1>2 DEF Apps
<1>6. SameReplies(a, b) BY <1>2 DEF Apps, SameReplies
<1>7. Placed(b) = n /\ Reach(b) = Reach(a)
  BY <1>1, <1>5 DEF Placed, Width, Reach, Total, MaxStart
<1>8. Anchored(b) BY <1>3, <1>5, <1>7 DEF Anchored
<1>9. Over(a) => Over(b) BY <1>5, <1>7 DEF Over, SinceOf
<1> QED BY <1>4, <1>5, <1>6, <1>8, <1>9 DEF Syncing

\* The columns lie over the reach (rebuild_histogram).
Rebuilding(a, b) ==
  /\ b \in Apps /\ SameReplies(a, b) /\ Over(b) /\ SameView(a, b)
  /\ b.layers = a.layers /\ b.offset = a.offset /\ b.dirty = a.dirty /\ b.phase = a.phase
LEMMA RebuildFields ==
  ASSUME World, NEW a \in Apps, NEW b, b = RebuildHistogram(a)
  PROVE  Rebuilding(a, b)
<1>1. PICK t : t = IF a.extent = None THEN None
                   ELSE [reach |-> Reach(a), ver |-> a.raw, now |-> now]
  OBVIOUS
<1>2. b = [a EXCEPT !.strip = t] BY <1>1 DEF RebuildHistogram
<1>3. a.raw \in Nat \cup {None} /\ now \in Int BY DEF Apps, World
<1>4. a.extent # None => t \in Strip
  <2>1. a.extent # None => Reach(a) \in Span BY Spans
  <2> QED BY <1>1, <1>3, <2>1 DEF Strip
<1>5. t \in Strip \cup {None} BY <1>1, <1>4
<1>6. b \in Apps BY ZenonT(60), <1>2, <1>5 DEF Apps
<1>7. SameReplies(a, b) /\ SameView(a, b) BY <1>2 DEF Apps, SameReplies, SameView
<1>8. /\ b.layers = a.layers /\ b.offset = a.offset /\ b.dirty = a.dirty
      /\ b.phase = a.phase /\ b.strip = t
  BY <1>2 DEF Apps
<1>9. Over(b)
  <2>1. SUFFICES ASSUME b.extent # None
        PROVE  /\ b.strip # None /\ b.strip.ver = b.raw /\ b.strip.now <= now
               /\ SinceOf(b, b.strip.now) => b.strip.reach = Reach(b)
    BY DEF Over
  <2>2. a.extent # None /\ b.raw = a.raw /\ Reach(b) = Reach(a)
    BY <1>7, <2>1 DEF SameReplies, SameView, Reach
  <2>3. b.strip = [reach |-> Reach(a), ver |-> a.raw, now |-> now] BY <1>1, <1>8, <2>2
  <2>4. b.strip # None BY <1>4, <1>8, <2>2, NoneAssumption
  <2> QED BY <1>3, <2>2, <2>3, <2>4
<1> QED BY <1>6, <1>7, <1>8, <1>9 DEF Rebuilding

\* The extent as stored, and the window in it.
LEMMA ExtentStep ==
  ASSUME World, NEW a, Holds(a), NEW b, b = TakeExtent(a)
  PROVE  Holds(b)
<1>1. CASE ~Ready(a, "extent") BY <1>1 DEF TakeExtent
<1>2. CASE Ready(a, "extent")
  <2>1. PICK c : c = Taken(a, "extent") OBVIOUS
  <2>2. "extent" \in Slot \ {"ingest"} /\ "extent" \in Slot BY DEF Slot
  <2>3. /\ Still(c) /\ Headed(c) /\ SameScreen(a, c) /\ c.pending["extent"] = None
        /\ \A x \in Slot \ {"extent"} : c.pending[x] = a.pending[x]
        /\ c.missed = IF Failed(a, "extent") THEN a.missed \cup {"extent"} ELSE a.missed
    <3>1. Took(a, "extent", c) BY <1>2, <2>1, <2>2, TakenStill
    <3> QED BY <3>1 DEF Took
  <2>4. Telling(c) /\ (IngestDue(c) <=> IngestDue(a)) /\ Counted(c)
    BY <1>2, <2>1, <2>2, TakenTelling
  <2>5. c \in Apps BY <2>3 DEF Still
  <2>6. a.pending["extent"] # None /\ a \in Apps /\ Opened(a)
    BY <1>2 DEF Ready, Holds, Kept, Still
  <2>7. CASE Failed(a, "extent")
    <3>1. ExtentDue(c) BY <2>3, <2>7 DEF ExtentDue
    <3>2. Current(c) BY <3>1 DEF Current, Due
    <3>3. Holds(c) BY <2>3, <2>4, <3>2 DEF Holds, Kept
    <3>4. b = [c EXCEPT !.phase = "error"] BY <1>2, <2>1, <2>7 DEF TakeExtent
    <3> QED BY <2>5, <3>3, <3>4, PhaseField, KeepStep
  <2>8. CASE ~Failed(a, "extent")
    <3>1. PICK e \in Extent \cup {None} : e = a.pending["extent"].at.extent
      <4>1. a.pending["extent"] \in Reply BY <2>2, <2>6 DEF Apps
      <4> QED BY <4>1 DEF Reply, Stored
    <3>2. PICK d : d = [c EXCEPT !.extent = e, !.phase = "ready"] OBVIOUS
    <3>3. /\ d \in Apps /\ d.pending = c.pending /\ d.queue = c.queue /\ d.missed = c.missed
          /\ d.extent = e /\ d.raw = c.raw /\ d.selected = c.selected /\ d.detail = c.detail
          /\ d.ledger = c.ledger /\ d.follow = c.follow /\ d.anchor = c.anchor
          /\ d.start = c.start /\ d.len = c.len
      <4>1. d \in Apps BY ZenonT(60), <2>5, <3>2 DEF Apps
      <4> QED BY <2>5, <3>2, <4>1 DEF Apps
    <3>4. Queued(d) BY <2>3, <3>3 DEF Still, Queued, Waits
    <3>5. Telling(d) /\ Counted(d)
      BY <2>4, <3>3 DEF Telling, Counted, IngestDue, HistogramDue, Answered
    <3>6. Headed(d) BY <2>3, <3>3 DEF Headed, Inspector, Title, Seen
    <3>7. Opened(d)
      <4>1. e # None => db.extent # None BY <2>6, <3>1 DEF Opened
      <4>2. e = None => a.extent = None BY <2>6, <3>1 DEF Opened
      <4>3. a.extent = None => d.pending["detail"] = None /\ d.pending["ledger"] = None
        BY <2>3, <2>6, <3>3 DEF Opened, Slot
      <4>4. d.pending["extent"] = None BY <2>3, <3>3
      <4> QED BY <3>3, <4>1, <4>2, <4>3, <4>4 DEF Opened
    <3>8. d.anchor # None => d.anchor <= now BY <2>3, <3>3 DEF Still, Anchored
    <3>9. CASE e = None
      <4>1. b = [d EXCEPT !.start = 0, !.layers = None, !.strip = None, !.raw = None]
        BY <1>2, <2>1, <2>8, <3>1, <3>2, <3>9 DEF TakeExtent
      <4>2. b \in Apps
        <5>1. PICK x : x = [d EXCEPT !.start = 0, !.layers = None] OBVIOUS
        <5>2. x \in Apps BY ZenonT(60), <3>3, <5>1 DEF Apps
        <5>3. b = [x EXCEPT !.strip = None, !.raw = None] BY <3>3, <4>1, <5>1 DEF Apps
        <5> QED BY ZenonT(60), <5>2, <5>3 DEF Apps
      <4>3. /\ b.pending = d.pending /\ b.queue = d.queue /\ b.missed = d.missed
            /\ b.extent = None /\ b.selected = d.selected /\ b.detail = d.detail
            /\ b.ledger = d.ledger /\ b.anchor = d.anchor
        BY <3>3, <3>9, <4>1 DEF Apps
      <4>4. Queued(b) BY <3>4, <4>3 DEF Queued, Waits
      <4>5. Telling(b) BY <3>5, <4>3 DEF Telling, IngestDue, Answered
      <4>6. Opened(b) BY <3>3, <3>7, <3>9, <4>3 DEF Opened
      <4>7. Headed(b) BY <3>6, <4>3 DEF Headed, Inspector, Title, Seen
      <4>8. Over(b) /\ Anchored(b) BY <3>8, <4>3 DEF Over, Anchored
      <4>9. Counted(b)
        <5>1. ~IngestDue(b) => ~IngestDue(a) BY <2>4, <3>3, <4>3 DEF IngestDue
        <5>2. Answered(a, "extent")
          <6>1. a.pending["extent"] \in Reply BY <2>2, <2>6 DEF Apps
          <6> QED BY <1>2, <2>8, <6>1 DEF Ready, Failed, Answered, Reply
        <5>3. ~IngestDue(a) => db.extent = None
          BY <3>1, <3>9, <5>2 DEF Holds, Kept, Telling
        <5> QED BY <5>1, <5>3 DEF Counted
      <4>10. Current(b) BY <4>3 DEF Current, Due
      <4> QED BY <4>2, <4>4, <4>5, <4>6, <4>7, <4>8, <4>9, <4>10 DEF Holds, Kept, Still
    <3>10. CASE e # None
      <4>1. PICK f : f = IF c.follow THEN SyncWindowToNow(d)
                         ELSE [d EXCEPT !.start =
                           Clamp(@, 0, Greatest(Total(e) - Least(a.len, Total(e)), 0))]
        OBVIOUS
      <4>2. f \in Apps /\ SameReplies(d, f) /\ Anchored(f)
        <5>1. CASE c.follow
          <6>1. Syncing(d, f) BY <3>3, <3>10, <4>1, <5>1, SyncFields
          <6> QED BY <6>1 DEF Syncing
        <5>2. CASE ~c.follow
          <6>1. e \in Int \X Int /\ a.len \in Nat \ {0} /\ d.start \in Nat
            BY <2>6, <3>3, <3>10, ExtentAssumption DEF Apps
          <6>2. PICK m \in Int : m = Total(e) - Least(a.len, Total(e))
            BY <6>1 DEF Total, Greatest, Least
          <6>3. PICK n \in Nat : n = Clamp(d.start, 0, Greatest(m, 0))
            BY <6>1 DEF Clamp, Greatest, Least
          <6>4. f = [d EXCEPT !.start = n]
            BY <3>3, <4>1, <5>2, <6>2, <6>3 DEF Apps
          <6>5. f \in Apps BY ZenonT(60), <3>3, <6>4 DEF Apps
          <6>6. SameReplies(d, f) /\ f.anchor = d.anchor /\ f.follow = d.follow
            BY <3>3, <6>4 DEF Apps, SameReplies
          <6>7. Anchored(f) BY <3>3, <3>8, <5>2, <6>6 DEF Anchored
          <6> QED BY <6>5, <6>6, <6>7
        <5> QED BY <5>1, <5>2
      <4>3. PICK g : g = [f EXCEPT !.dirty = TRUE] OBVIOUS
      <4>4. g \in Apps /\ SameReplies(f, g) /\ SameView(f, g) /\ g.strip = f.strip /\ g.dirty
        <5>1. g \in Apps BY ZenonT(60), <4>2, <4>3 DEF Apps
        <5> QED BY ZenonT(60), <4>2, <4>3, <5>1 DEF Apps, SameReplies, SameView
      <4>5. Anchored(g) BY <4>2, <4>4, OverSame DEF SameReplies
      <4>6. b = RebuildHistogram(g)
        <5>1. SameScreen(a, c) /\ c.follow = a.follow BY <2>3 DEF SameScreen
        <5> QED BY <1>2, <2>1, <2>8, <3>1, <3>2, <3>10, <4>1, <4>3, <5>1 DEF TakeExtent
      <4>7. Rebuilding(g, b) BY <4>4, <4>6, RebuildFields
      <4>8. b \in Apps /\ SameReplies(d, b) /\ Over(b) /\ b.dirty
        BY <4>2, <4>4, <4>7 DEF Rebuilding, SameReplies
      <4>9. Anchored(b)
        <5>1. SameReplies(g, b) /\ SameView(g, b) BY <4>7 DEF Rebuilding
        <5> QED BY <4>5, <5>1 DEF SameView, Anchored, Placed, Width, Reach, Total, MaxStart
      <4>10. Current(b) BY <4>8 DEF Current, Due
      <4> QED BY <3>3, <3>4, <3>5, <3>6, <3>7, <4>8, <4>9, <4>10, RepliesSame
          DEF Holds, Kept, Still
    <3> QED BY <3>9, <3>10
  <2> QED BY <2>7, <2>8
<1> QED BY <1>1, <1>2

\* The counts of the strip, as stored.
LEMMA HistogramStep ==
  ASSUME World, NEW a, Holds(a), NEW b, b = TakeHistogram(a)
  PROVE  Holds(b)
<1>1. CASE ~Ready(a, "histogram") BY <1>1 DEF TakeHistogram
<1>2. CASE Ready(a, "histogram")
  <2>1. PICK c : c = Taken(a, "histogram") OBVIOUS
  <2>2. "histogram" \in Slot \ {"ingest"} /\ "histogram" \in Slot BY DEF Slot
  <2>3. /\ Still(c) /\ Headed(c) /\ SameScreen(a, c) /\ c.pending["histogram"] = None
        /\ \A x \in Slot \ {"histogram"} : c.pending[x] = a.pending[x]
        /\ c.missed = IF Failed(a, "histogram") THEN a.missed \cup {"histogram"} ELSE a.missed
    <3>1. Took(a, "histogram", c) BY <1>2, <2>1, <2>2, TakenStill
    <3> QED BY <3>1 DEF Took
  <2>4. /\ Telling(c) /\ (IngestDue(c) <=> IngestDue(a))
        /\ Failed(a, "histogram") => Counted(c)
    BY <1>2, <2>1, <2>2, TakenTelling
  <2>5. Current(c)
    <3>1. SUFFICES ASSUME ~Due(c), NEW s \in Wanted(c) PROVE Right(c, s) BY DEF Current
    <3>2. s \in Slot \ {"histogram"} BY DEF Wanted, Pane, Inspector, Slot
    <3>3. ~Due(a) /\ s \in Wanted(a)
      BY <2>3, <2>4, <3>1 DEF Due, ExtentDue, SameScreen, Wanted, Slot
    <3>4. Right(a, s) BY <3>3 DEF Holds, Current
    <3>5. c.pending[s] = a.pending[s] /\ (s \in c.missed <=> s \in a.missed) BY <2>3, <3>2
    <3>6. SameView(a, c) /\ Seen(c, s) = Seen(a, s) /\ c.offset = a.offset
      BY <2>3, ScreenView
    <3> QED BY <3>4, <3>5, <3>6, RightSame
  <2>6. CASE Failed(a, "histogram")
    <3>1. b = c BY <1>2, <2>1, <2>6 DEF TakeHistogram
    <3> QED BY <2>3, <2>4, <2>5, <2>6, <3>1 DEF Holds, Kept
  <2>7. CASE ~Failed(a, "histogram")
    <3>1. a.pending["histogram"] \in Reply /\ c \in Apps
      BY <1>2, <2>2, <2>3 DEF Ready, Holds, Kept, Still, Apps
    <3>2. PICK n \in Nat : n = a.pending["histogram"].at.ver BY <3>1 DEF Reply, Stored
    <3>3. PICK d : d = [c EXCEPT !.raw = n] OBVIOUS
    <3>4. d \in Apps BY ZenonT(60), <3>1, <3>3 DEF Apps
    <3>5. /\ d.pending = c.pending /\ d.queue = c.queue /\ d.missed = c.missed
          /\ d.extent = c.extent /\ d.raw = n /\ d.selected = c.selected
          /\ d.detail = c.detail /\ d.ledger = c.ledger /\ d.layers = c.layers
          /\ d.offset = c.offset /\ d.dirty = c.dirty /\ SameView(c, d)
      BY <3>1, <3>3, <3>4 DEF Apps, SameView
    <3>6. b = RebuildHistogram(d) BY <1>2, <2>1, <2>7, <3>2, <3>3 DEF TakeHistogram
    <3>7. Rebuilding(d, b) BY <3>4, <3>6, RebuildFields
    <3>8. b \in Apps /\ Over(b) BY <3>7 DEF Rebuilding
    <3>9. /\ b.pending = c.pending /\ b.queue = c.queue /\ b.missed = c.missed
          /\ b.extent = c.extent /\ b.raw = n /\ b.selected = c.selected
          /\ b.detail = c.detail /\ b.ledger = c.ledger /\ b.layers = c.layers
          /\ b.offset = c.offset /\ b.dirty = c.dirty /\ SameView(c, b)
      BY <3>5, <3>7 DEF Rebuilding, SameReplies, SameView
    <3>10. Queued(b) BY <2>3, <3>9 DEF Still, Queued, Waits
    <3>11. Telling(b) /\ (IngestDue(b) <=> IngestDue(c))
      BY <2>4, <3>9 DEF Telling, IngestDue, Answered
    <3>12. Opened(b) BY <2>3, <3>9 DEF Still, Opened
    <3>13. Anchored(b)
      BY <2>3, <3>9 DEF Still, SameView, Anchored, Placed, Width, Reach, Total, MaxStart
    <3>14. Headed(b) BY <2>3, <3>9 DEF Headed, Inspector, Title, Seen
    <3>15. Counted(b)
      <4>1. Answered(a, "histogram")
        BY <1>2, <2>7, <3>1 DEF Ready, Failed, Answered, Reply
      <4>2. ~IngestDue(a) => n = db.ver BY <3>2, <4>1 DEF Holds, Kept, Telling
      <4> QED BY <2>4, <3>9, <3>11, <4>2 DEF Counted
    <3>16. Current(b)
      <4>1. SUFFICES ASSUME ~Due(b), NEW s \in Wanted(b) PROVE Right(b, s) BY DEF Current
      <4>2. ~Due(c) /\ s \in Wanted(c)
        BY <3>9, <3>11, <4>1 DEF Due, ExtentDue, Wanted
      <4>3. Right(c, s) BY <2>5, <4>2 DEF Current
      <4>4. Seen(b, s) = Seen(c, s) BY <3>9 DEF Seen
      <4> QED BY <3>9, <4>3, <4>4, RightSame
    <3> QED BY <3>8, <3>10, <3>11, <3>12, <3>13, <3>14, <3>15, <3>16 DEF Holds, Kept, Still
  <2> QED BY <2>6, <2>7
<1> QED BY <1>1, <1>2

\* A pane shows the reply that came, or what it showed if the query failed.
Showing(a, s, b) ==
  /\ b \in Apps /\ Queued(b) /\ SameView(a, b)
  /\ b.missed = IF Failed(a, s) THEN a.missed \cup {s} ELSE a.missed
  /\ b.pending[s] = None /\ \A x \in Slot \ {s} : b.pending[x] = a.pending[x]
  /\ b.strip = a.strip /\ b.raw = a.raw /\ b.offset = a.offset /\ b.dirty = a.dirty
  /\ b.selected = a.selected
  /\ \A x \in Pane : Seen(b, x) = IF x = s /\ ~Failed(a, s) THEN Shown(a, s) ELSE Seen(a, x)
LEMMA ShowStep ==
  ASSUME NEW a, Holds(a), NEW s \in Pane, Ready(a, s), NEW b, Showing(a, s, b)
  PROVE  Holds(b)
<1> USE DEF Showing
<1>1. a \in Apps /\ Opened(a) /\ Over(a) /\ Anchored(a) /\ Telling(a) /\ Counted(a)
      /\ Current(a) /\ Headed(a)
  BY DEF Holds, Kept, Still
<1>2. s \in Slot /\ s \notin {"ingest", "extent", "histogram"} /\ Pane \subseteq Slot
  BY DEF Pane, Inspector, Slot
<1>3. a.pending[s] \in Reply /\ a.pending[s].done # "no" BY <1>1, <1>2 DEF Ready, Apps
<1>4. \A x \in {"ingest", "extent", "histogram"} :
        b.pending[x] = a.pending[x] /\ (x \in b.missed <=> x \in a.missed)
  BY <1>2 DEF Slot
<1>5. (IngestDue(b) <=> IngestDue(a)) /\ (ExtentDue(b) <=> ExtentDue(a))
      /\ (HistogramDue(b) <=> HistogramDue(a))
  BY <1>4 DEF IngestDue, ExtentDue, HistogramDue
<1>6. Telling(b) BY <1>1, <1>4, <1>5 DEF Telling, Answered
<1>7. Counted(b) BY <1>1, <1>5 DEF Counted
<1>8. Opened(b)
  <2>1. \A x \in Slot : b.pending[x] = None \/ b.pending[x] = a.pending[x] BY <1>2
  <2>2. b.extent = a.extent BY DEF SameView
  <2> QED BY <1>1, <1>4, <2>1, <2>2 DEF Opened, Slot
<1>9. Over(b) /\ Anchored(b) BY <1>1, OverSame
<1>10. Shown(a, s) # None
  <2>1. Shown(a, s) \in View BY <1>3 DEF Shown, View, Reply, Stored
  <2> QED BY <2>1, NoneAssumption
<1>11. Current(b)
  <2>1. SUFFICES ASSUME ~Due(b), NEW x \in Wanted(b) PROVE Right(b, x) BY DEF Current
  <2>2. ~Due(a) /\ x \in Wanted(a) /\ x \in Pane
    BY <1>5, <2>1 DEF Due, SameView, Wanted
  <2>3. Right(a, x) BY <1>1, <2>2 DEF Current
  <2>4. CASE x # s
    <3>1. Seen(b, x) = Seen(a, x) /\ b.pending[x] = a.pending[x] BY <1>2, <2>2, <2>4
    <3>2. x \in b.missed <=> x \in a.missed BY <2>4
    <3> QED BY <2>3, <3>1, <3>2, RightSame
  <2>5. CASE x = s /\ Failed(a, s)
    <3>1. x \in b.missed BY <2>5
    <3> QED BY <3>1 DEF Right
  <2>6. CASE x = s /\ ~Failed(a, s)
    <3>1. a.pending[s].done = "ok" /\ a.pending[s] # None
      BY <1>3, <2>6, NoneAssumption DEF Failed, Reply
    <3>2. b.missed = a.missed /\ b.pending[s] = None /\ Seen(b, s) = Shown(a, s)
      BY <2>6
    <3>3. Seen(b, s).query = a.pending[s].query /\ Seen(b, s).ver = a.pending[s].at.ver
      BY <3>2 DEF Shown
    <3>4. s \notin a.missed =>
            Fits(a, s, a.pending[s].query) /\ a.pending[s].at.ver = db.ver
      BY <2>3, <2>6, <3>1 DEF Right
    <3>5. Fits(a, s, a.pending[s].query) => Fits(b, s, a.pending[s].query)
      BY DEF SameView, Fits, Within, SinceOf, Window, Width, Reach, Total
    <3> QED BY <1>10, <2>6, <3>2, <3>3, <3>4, <3>5 DEF Right
  <2> QED BY <2>4, <2>5, <2>6
<1>12. Headed(b)
  <2>1. SUFFICES ASSUME NEW x \in Inspector PROVE Title(b, x) BY DEF Headed
  <2>2. Title(a, x) /\ x \in Pane /\ x \in Slot BY <1>1, <1>2 DEF Headed, Pane
  <2>3. b.pending[x] = None \/ b.pending[x] = a.pending[x] BY <2>2
  <2>4. CASE Seen(b, x) = Seen(a, x) BY <2>2, <2>3, <2>4 DEF Title
  <2>5. CASE x = s /\ Seen(b, x) = Shown(a, x)
    <3>1. a.pending[x] # None BY <2>5 DEF Ready
    <3>2. Seen(b, x).query = a.pending[x].query BY <2>5 DEF Shown
    <3> QED BY <2>2, <2>3, <3>1, <3>2 DEF Title
  <2> QED BY <2>2, <2>4, <2>5
<1> QED BY <1>6, <1>7, <1>8, <1>9, <1>11, <1>12 DEF Holds, Kept, Still

\* What a reply shows has the type of what a pane shows.
LEMMA ShownType ==
  ASSUME NEW a \in Apps, NEW s \in Pane, Ready(a, s)
  PROVE  Shown(a, s) \in View
<1>1. s \in Slot BY DEF Pane, Inspector, Slot
<1>2. a.pending[s] \in Reply BY <1>1 DEF Ready, Apps
<1> QED BY <1>2 DEF Shown, View, Reply, Stored

\* Each pane takes its reply.
LEMMA LayersStep ==
  ASSUME NEW a, Holds(a), NEW b, b = TakeLayers(a)
  PROVE  Holds(b)
<1>1. CASE ~Ready(a, "layers") BY <1>1 DEF TakeLayers
<1>2. CASE Ready(a, "layers")
  <2>1. PICK c : c = Taken(a, "layers") OBVIOUS
  <2>2. "layers" \in Pane /\ "layers" \in Slot BY DEF Pane, Slot
  <2>3. a \in Apps /\ Queued(a) BY DEF Holds, Kept, Still
  <2>4. Taking(a, "layers", c) BY <1>2, <2>1, <2>2, <2>3, TakenFields
  <2>5. Shown(a, "layers") \in View BY <1>2, <2>2, <2>3, ShownType
  <2>6. PICK v \in View \cup {None} :
          v = IF Failed(a, "layers") THEN c.layers ELSE Shown(a, "layers")
    BY <2>4, <2>5 DEF Taking, Apps
  <2>7. b = [c EXCEPT !.layers = v]
    BY <1>2, <2>1, <2>4, <2>6 DEF TakeLayers, Taking, Apps
  <2>8. c \in Apps BY <2>4 DEF Taking
  <2>9. b \in Apps BY ZenonT(60), <2>7, <2>8 DEF Apps
  <2>10. /\ b.pending = c.pending /\ b.queue = c.queue /\ b.missed = c.missed
         /\ SameView(c, b) /\ b.strip = c.strip /\ b.raw = c.raw /\ b.offset = c.offset
         /\ b.dirty = c.dirty /\ b.selected = c.selected /\ b.layers = v
         /\ b.detail = c.detail /\ b.ledger = c.ledger
    BY <2>7, <2>8, <2>9 DEF Apps, SameView
  <2>11. Showing(a, "layers", b)
    <3>1. Queued(b) BY <2>4, <2>10 DEF Taking, Queued, Waits
    <3>2. SameScreen(a, c) BY <2>4 DEF Taking
    <3>3. SameView(a, b) BY <2>10, <3>2 DEF SameScreen, SameView
    <3>4. \A x \in Pane : Seen(b, x) = IF x = "layers" /\ ~Failed(a, "layers")
                                      THEN Shown(a, "layers") ELSE Seen(a, x)
      BY <2>6, <2>10, <3>2 DEF Seen, SameScreen, Pane, Inspector
    <3> QED BY <2>4, <2>9, <2>10, <3>1, <3>2, <3>3, <3>4 DEF Taking, Showing, SameScreen
  <2> QED BY <1>2, <2>2, <2>11, ShowStep
<1> QED BY <1>1, <1>2

LEMMA DetailStep ==
  ASSUME NEW a, Holds(a), NEW b, b = TakeDetail(a)
  PROVE  Holds(b)
<1>1. CASE ~Ready(a, "detail") BY <1>1 DEF TakeDetail
<1>2. CASE Ready(a, "detail")
  <2>1. PICK c : c = Taken(a, "detail") OBVIOUS
  <2>2. "detail" \in Pane /\ "detail" \in Slot BY DEF Pane, Inspector, Slot
  <2>3. a \in Apps /\ Queued(a) BY DEF Holds, Kept, Still
  <2>4. Taking(a, "detail", c) BY <1>2, <2>1, <2>2, <2>3, TakenFields
  <2>5. Shown(a, "detail") \in View BY <1>2, <2>2, <2>3, ShownType
  <2>6. PICK v \in View \cup {None} :
          v = IF Failed(a, "detail") THEN c.detail ELSE Shown(a, "detail")
    BY <2>4, <2>5 DEF Taking, Apps
  <2>7. b = [c EXCEPT !.detail = v]
    BY <1>2, <2>1, <2>4, <2>6 DEF TakeDetail, Taking, Apps
  <2>8. c \in Apps BY <2>4 DEF Taking
  <2>9. b \in Apps BY ZenonT(60), <2>7, <2>8 DEF Apps
  <2>10. /\ b.pending = c.pending /\ b.queue = c.queue /\ b.missed = c.missed
         /\ SameView(c, b) /\ b.strip = c.strip /\ b.raw = c.raw /\ b.offset = c.offset
         /\ b.dirty = c.dirty /\ b.selected = c.selected /\ b.layers = c.layers
         /\ b.detail = v /\ b.ledger = c.ledger
    BY <2>7, <2>8, <2>9 DEF Apps, SameView
  <2>11. Showing(a, "detail", b)
    <3>1. Queued(b) BY <2>4, <2>10 DEF Taking, Queued, Waits
    <3>2. SameScreen(a, c) BY <2>4 DEF Taking
    <3>3. SameView(a, b) BY <2>10, <3>2 DEF SameScreen, SameView
    <3>4. \A x \in Pane : Seen(b, x) = IF x = "detail" /\ ~Failed(a, "detail")
                                      THEN Shown(a, "detail") ELSE Seen(a, x)
      BY <2>6, <2>10, <3>2 DEF Seen, SameScreen, Pane, Inspector
    <3> QED BY <2>4, <2>9, <2>10, <3>1, <3>2, <3>3, <3>4 DEF Taking, Showing, SameScreen
  <2> QED BY <1>2, <2>2, <2>11, ShowStep
<1> QED BY <1>1, <1>2

LEMMA LedgerStep ==
  ASSUME NEW a, Holds(a), NEW b, b = TakeLedger(a)
  PROVE  Holds(b)
<1>1. CASE ~Ready(a, "ledger") BY <1>1 DEF TakeLedger
<1>2. CASE Ready(a, "ledger")
  <2>1. PICK c : c = Taken(a, "ledger") OBVIOUS
  <2>2. "ledger" \in Pane /\ "ledger" \in Slot BY DEF Pane, Inspector, Slot
  <2>3. a \in Apps /\ Queued(a) BY DEF Holds, Kept, Still
  <2>4. Taking(a, "ledger", c) BY <1>2, <2>1, <2>2, <2>3, TakenFields
  <2>5. Shown(a, "ledger") \in View BY <1>2, <2>2, <2>3, ShownType
  <2>6. PICK v \in View \cup {None} :
          v = IF Failed(a, "ledger") THEN c.ledger ELSE Shown(a, "ledger")
    BY <2>4, <2>5 DEF Taking, Apps
  <2>7. b = [c EXCEPT !.ledger = v]
    BY <1>2, <2>1, <2>4, <2>6 DEF TakeLedger, Taking, Apps
  <2>8. c \in Apps BY <2>4 DEF Taking
  <2>9. b \in Apps BY ZenonT(60), <2>7, <2>8 DEF Apps
  <2>10. /\ b.pending = c.pending /\ b.queue = c.queue /\ b.missed = c.missed
         /\ SameView(c, b) /\ b.strip = c.strip /\ b.raw = c.raw /\ b.offset = c.offset
         /\ b.dirty = c.dirty /\ b.selected = c.selected /\ b.layers = c.layers
         /\ b.detail = c.detail /\ b.ledger = v
    BY <2>7, <2>8, <2>9 DEF Apps, SameView
  <2>11. Showing(a, "ledger", b)
    <3>1. Queued(b) BY <2>4, <2>10 DEF Taking, Queued, Waits
    <3>2. SameScreen(a, c) BY <2>4 DEF Taking
    <3>3. SameView(a, b) BY <2>10, <3>2 DEF SameScreen, SameView
    <3>4. \A x \in Pane : Seen(b, x) = IF x = "ledger" /\ ~Failed(a, "ledger")
                                      THEN Shown(a, "ledger") ELSE Seen(a, x)
      BY <2>6, <2>10, <3>2 DEF Seen, SameScreen, Pane, Inspector
    <3> QED BY <2>4, <2>9, <2>10, <3>1, <3>2, <3>3, <3>4 DEF Taking, Showing, SameScreen
  <2> QED BY <1>2, <2>2, <2>11, ShowStep
<1> QED BY <1>1, <1>2

LEMMA PollStep ==
  ASSUME World, NEW a, Holds(a), NEW b, b = PollAsync(a)
  PROVE  Holds(b)
<1>1. PICK a1 : a1 = SubmitBatch(a) OBVIOUS
<1>2. PICK a2 : a2 = TakeIngest(a1) OBVIOUS
<1>3. PICK a3 : a3 = TakeExtent(a2) OBVIOUS
<1>4. PICK a4 : a4 = TakeHistogram(a3) OBVIOUS
<1>5. PICK a5 : a5 = TakeLayers(a4) OBVIOUS
<1>6. PICK a6 : a6 = TakeDetail(a5) OBVIOUS
<1>7. b = TakeLedger(a6) BY <1>1, <1>2, <1>3, <1>4, <1>5, <1>6 DEF PollAsync
<1>8. Holds(a2) BY <1>1, <1>2, SubmitStep, IngestStep
<1>9. Holds(a4) BY <1>3, <1>4, <1>8, ExtentStep, HistogramStep
<1>10. Holds(a6) BY <1>5, <1>6, <1>9, LayersStep, DetailStep
<1> QED BY <1>7, <1>10, LedgerStep

-----------------------------------------------------------------------------
\* The frame.

\* The playback moves the window and marks the map dirty.
LEMMA PlaybackStep ==
  ASSUME World, NEW a, Holds(a), NEW b \in AdvancePlayback(a)
  PROVE  Holds(b)
<1>1. CASE b = a BY <1>1
<1>2. CASE b # a
  <2>1. a \in Apps /\ Over(a) /\ a.extent # None
    BY <1>2 DEF Holds, Kept, Still, AdvancePlayback
  <2>2. PICK n \in Nat : n = IF a.start + 1 > MaxStart(a) THEN 0 ELSE a.start + 1
    BY <2>1 DEF Apps
  <2>3. b = [a EXCEPT !.start = n, !.dirty = TRUE, !.anchor = None]
    BY <1>2, <2>2 DEF AdvancePlayback
  <2>4. b \in Apps BY ZenonT(60), <2>1, <2>3 DEF Apps
  <2>5. /\ SameReplies(a, b) /\ b.dirty /\ b.range = a.range /\ b.strip = a.strip
        /\ b.anchor = None
    BY <2>1, <2>3 DEF Apps, SameReplies
  <2>6. Over(b) BY <2>1, <2>5 DEF SameReplies, Over, SinceOf, Reach
  <2>7. Anchored(b) BY <2>5, NoneAssumption DEF Anchored, World
  <2> QED BY <2>4, <2>5, <2>6, <2>7, MoveStep
<1> QED BY <1>1, <1>2

\* The page clamps a start that lies beyond the reach: what was asked for such a
\* window is not within the reach.
LEMMA DrawStep ==
  ASSUME World, NEW a, Holds(a), NEW b, b = Draw(a)
  PROVE  Holds(b)
<1>1. CASE a.page # "map" \/ a.extent = None BY <1>1 DEF Draw
<1>2. CASE ~(a.page # "map" \/ a.extent = None)
  <2>1. a \in Apps /\ a.start \in Nat BY DEF Holds, Kept, Still, Apps
  <2>2. MaxStart(a) \in Nat /\ Placed(a) \in 0 .. MaxStart(a) BY <1>2, <2>1, Spans
  <2>3. PICK n \in Nat : /\ n = Clamp(a.start, 0, MaxStart(a))
                         /\ a.start <= MaxStart(a) => n = a.start
    <3>1. PICK m \in Nat : m = MaxStart(a) BY <2>2
    <3>2. Clamp(a.start, 0, m) \in Nat /\ (a.start <= m => Clamp(a.start, 0, m) = a.start)
      BY <2>1 DEF Clamp, Greatest, Least
    <3> QED BY <3>1, <3>2
  <2>4. b = [a EXCEPT !.start = n] BY <1>2, <2>3 DEF Draw
  <2>5. CASE a.start <= MaxStart(a)
    <3>1. n = a.start BY <2>3, <2>5
    <3>2. b = a BY <2>1, <2>4, <3>1 DEF Apps
    <3> QED BY <3>2
  <2>6. CASE a.start > MaxStart(a)
    <3>1. b \in Apps BY ZenonT(60), <2>1, <2>4 DEF Apps
    <3>2. /\ SameReplies(a, b) /\ b.dirty = a.dirty /\ b.range = a.range /\ b.len = a.len
          /\ b.strip = a.strip /\ b.anchor = a.anchor /\ b.follow = a.follow
          /\ b.filter = a.filter /\ b.layers = a.layers /\ b.offset = a.offset
      BY <2>1, <2>4 DEF Apps, SameReplies
    <3>3. Reach(b) = Reach(a) BY <3>2 DEF SameReplies, Reach
    <3>4. ~(a.follow /\ a.anchor = now)
      BY <1>2, <2>1, <2>2, <2>6 DEF Holds, Kept, Still, Anchored
    <3>5. Over(b) BY <3>2, <3>3 DEF SameReplies, Holds, Kept, Still, Over, SinceOf
    <3>6. Anchored(b) BY <3>2, <3>4 DEF Holds, Kept, Still, Anchored
    <3>7. ASSUME NEW q, NEW s, Fits(a, s, q) PROVE Fits(b, s, q)
      <4>1. ~Within(a, q)
        <5>1. Window(a)[2] > Reach(a)[1] + Total(Reach(a))
          BY <1>2, <2>1, <2>6, Spans
        <5>2. /\ Window(a)[2] \in Int /\ Reach(a)[1] + Total(Reach(a)) \in Int
          BY <1>2, <2>1, Spans DEF Span
        <5> QED BY <3>7, <5>1, <5>2 DEF Fits, Within
      <4>2. ~Within(b, q) BY <3>2, <3>3, <4>1 DEF Within, SinceOf
      <4> QED BY <3>2, <3>4, <3>7, <4>2 DEF Fits
    <3>8. Current(b)
      <4>1. SUFFICES ASSUME ~Due(b), NEW s \in Wanted(b) PROVE Right(b, s) BY DEF Current
      <4>2. ~Due(a) /\ s \in Wanted(a)
        BY <3>2, <4>1 DEF SameReplies, Due, IngestDue, ExtentDue, Wanted
      <4>3. Right(a, s) BY <4>2 DEF Holds, Current
      <4>4. /\ Seen(b, s) = Seen(a, s) /\ b.pending[s] = a.pending[s]
            /\ s \in b.missed <=> s \in a.missed
        BY <3>2 DEF Seen, SameReplies
      <4>5. CASE a.pending[s] # None BY <3>7, <4>3, <4>4, <4>5 DEF Right
      <4>6. CASE a.pending[s] = None BY <3>7, <4>3, <4>4, <4>6 DEF Right
      <4> QED BY <4>5, <4>6
    <3> QED BY <3>1, <3>2, <3>5, <3>6, <3>8, RepliesSame DEF Holds, Kept, Still
  <2> QED BY <2>1, <2>2, <2>5, <2>6
<1> QED BY <1>1, <1>2

\* A pane asks for what its heading says.
Asks(a, s, b) ==
  /\ b \in Apps /\ Kept(b) /\ SameScreen(a, b) /\ Right(b, s)
  /\ \A x \in Pane \ {s} : (Right(a, x) => Right(b, x)) /\ (Title(a, x) => Title(b, x))
  /\ Due(b) <=> Due(a)
LEMMA AskPane ==
  ASSUME World, NEW a, Kept(a), a.extent # None, NEW s \in Pane, NEW q \in Query,
         Fits(a, s, q),
         s \in Inspector /\ a.selected # None =>
           q.cell = a.selected /\ (Seen(a, s) # None => Seen(a, s).query.cell = a.selected),
         NEW b, b = Ask(a, s, q)
  PROVE  Asks(a, s, b) /\ (s \in Inspector => Title(b, s))
<1>1. /\ a \in Apps /\ Queued(a) /\ Opened(a) /\ Still(a) /\ Telling(a) /\ Counted(a)
  BY DEF Kept, Still
<1>2. s \in Slot /\ s \notin {"ingest", "extent", "histogram"} /\ Pane \subseteq Slot
  BY DEF Pane, Inspector, Slot
<1>3. Asking(a, s, q, b) BY <1>1, <1>2, AskFields
<1>4. /\ b \in Apps /\ SameScreen(a, b) /\ b.missed = a.missed \ {s}
      /\ b.pending[s] = [query |-> q, done |-> "no", at |-> db]
      /\ \A x \in Slot \ {s} : b.pending[x] = a.pending[x]
  BY <1>3 DEF Asking
<1>5. Queued(b) BY <1>1, <1>2, AskQueued
<1>6. \A x \in {"ingest", "extent", "histogram"} :
        b.pending[x] = a.pending[x] /\ (x \in b.missed <=> x \in a.missed)
  BY <1>2, <1>4 DEF Slot
<1>7. /\ IngestDue(b) <=> IngestDue(a)
      /\ ExtentDue(b) <=> ExtentDue(a)
      /\ HistogramDue(b) <=> HistogramDue(a)
  BY <1>6 DEF IngestDue, ExtentDue, HistogramDue
<1>8. Opened(b) BY <1>1, <1>4, <1>6 DEF Opened, SameScreen
<1>9. Still(b) BY <1>1, <1>4, <1>5, <1>8, StillSame
<1>10. Telling(b) BY <1>1, <1>6, <1>7 DEF Telling, Answered
<1>11. Counted(b) BY <1>1, <1>4, <1>7 DEF Counted, SameScreen
<1>12. SameView(a, b) /\ b.offset = a.offset /\ \A x : Seen(b, x) = Seen(a, x)
  BY <1>4, ScreenView
<1>13. b.pending[s] # None
  <2>1. [query |-> q, done |-> "no", at |-> db] \in Reply BY DEF World, Reply
  <2> QED BY <1>4, <2>1, NoneAssumption
<1>14. Right(b, s)
  <2>1. Fits(b, s, q)
    BY <1>12 DEF SameView, Fits, Within, SinceOf, Window, Width, Reach, Total
  <2>2. b.pending[s].query = q /\ b.pending[s].done # "ok" BY <1>4
  <2> QED BY <1>13, <2>1, <2>2 DEF Right
<1>15. s \in Inspector => Title(b, s) BY <1>4, <1>12 DEF Title, SameScreen
<1>16. ASSUME NEW x \in Pane \ {s}
       PROVE  (Right(a, x) => Right(b, x)) /\ (Title(a, x) => Title(b, x))
  <2>1. b.pending[x] = a.pending[x] /\ (x \in b.missed <=> x \in a.missed) BY <1>2, <1>4
  <2>2. Right(a, x) => Right(b, x) BY <1>12, <2>1, RightSame
  <2>3. Title(a, x) => Title(b, x) BY <1>4, <1>12, <2>1 DEF Title, SameScreen
  <2> QED BY <2>2, <2>3
<1>17. Due(b) <=> Due(a) BY <1>4, <1>7 DEF Due, SameScreen
<1> QED BY <1>4, <1>9, <1>10, <1>11, <1>14, <1>15, <1>16, <1>17 DEF Asks, Kept

\* The detail and the ledger are asked for (fire_region_queries).
Regions(a, b) ==
  /\ Kept(b) /\ SameScreen(a, b) /\ Headed(b)
  /\ (Due(b) <=> Due(a)) /\ \A s \in Inspector : Right(b, s)
  /\ Right(a, "layers") => Right(b, "layers")
LEMMA RegionStep ==
  ASSUME World, NEW a, Kept(a), a.extent # None, a.selected # None,
         \A s \in Inspector : Seen(a, s) # None => Seen(a, s).query.cell = a.selected,
         NEW b, b = FireRegionQueries(a)
  PROVE  Regions(a, b)
<1>1. a \in Apps BY DEF Kept, Still
<1>2. PICK w \in Span : w = Window(a) BY <1>1, Spans
<1>3. a.selected \in Cell /\ a.offset \in Nat /\ now \in Int BY <1>1 DEF Apps, World
<1>4. PICK q : q = [cell |-> a.selected, win |-> w, now |-> now] OBVIOUS
<1>5. q \in Query BY <1>2, <1>3, <1>4 DEF Query
<1>6. PICK p : p = [cell |-> a.selected, win |-> w, off |-> a.offset, now |-> now] OBVIOUS
<1>7. p \in Query BY <1>2, <1>3, <1>6 DEF Query
<1>8. PICK c : c = Ask(a, "detail", q) OBVIOUS
<1>9. "detail" \in Pane /\ "ledger" \in Pane /\ Inspector = {"detail", "ledger"}
      /\ "layers" \in Pane
  BY DEF Pane, Inspector
<1>10. Fits(a, "detail", q) BY <1>2, <1>3, <1>4 DEF Fits
<1>11. Asks(a, "detail", c) /\ Title(c, "detail")
  BY <1>4, <1>5, <1>8, <1>9, <1>10, AskPane
<1>12. SameScreen(a, c) /\ Kept(c) /\ c \in Apps BY <1>11 DEF Asks
<1>13. SameView(a, c) /\ c.offset = a.offset /\ \A s : Seen(c, s) = Seen(a, s)
  BY <1>12, ScreenView
<1>14. c.selected = a.selected /\ c.extent = a.extent BY <1>12 DEF SameScreen
<1>15. Window(c) = w BY <1>2, <1>13 DEF SameView, Window, Width, Reach, Total
<1>16. b = Ask(c, "ledger", p)
  <2>1. b = AskLedger(c) BY <1>2, <1>4, <1>8 DEF FireRegionQueries
  <2> QED BY <1>6, <1>13, <1>14, <1>15, <2>1 DEF AskLedger
<1>17. Fits(c, "ledger", p) BY <1>3, <1>6, <1>13, <1>15 DEF Fits
<1>18. Asks(c, "ledger", b) /\ Title(b, "ledger")
  <2>1. p.cell = c.selected BY <1>6, <1>14
  <2>2. Seen(c, "ledger") # None => Seen(c, "ledger").query.cell = c.selected
    BY <1>9, <1>13, <1>14
  <2> QED BY <1>7, <1>9, <1>12, <1>14, <1>16, <1>17, <2>1, <2>2, AskPane
<1>19. Title(b, "detail") /\ Right(b, "detail") BY <1>9, <1>11, <1>18 DEF Asks
<1>20. Right(a, "layers") => Right(b, "layers") BY <1>9, <1>11, <1>18 DEF Asks
<1>21. SameScreen(a, b) BY <1>12, <1>18 DEF Asks, SameScreen
<1> QED BY <1>9, <1>11, <1>18, <1>19, <1>20, <1>21 DEF Asks, Regions, Headed

\* The queries are fired (fire_queries): what is on the screen is asked for.
LEMMA FireStep ==
  ASSUME World, NEW a, Kept(a), Headed(a), NEW b, b = FireQueries(a)
  PROVE  Holds(b)
<1>1. a \in Apps BY DEF Kept, Still
<1>2. CASE a.extent = None
  <2>1. b = a BY <1>2 DEF FireQueries
  <2> QED BY <1>2, <2>1 DEF Holds, Current, Due
<1>3. CASE a.extent # None
  <2>1. PICK w \in Span : w = Window(a) BY <1>1, <1>3, Spans
  <2>2. PICK q : q = [win |-> w, filter |-> a.filter, now |-> now] OBVIOUS
  <2>3. q \in Query /\ now \in Int BY <1>1, <2>1, <2>2 DEF Query, Apps, World
  <2>4. PICK c : c = Ask(a, "layers", q) OBVIOUS
  <2>5. "layers" \in Pane /\ "layers" \notin Inspector /\ Inspector \subseteq Pane
    BY DEF Pane, Inspector
  <2>6. Fits(a, "layers", q) BY <2>1, <2>2, <2>3 DEF Fits
  <2>7. Asks(a, "layers", c) BY <1>3, <2>3, <2>4, <2>5, <2>6, AskPane
  <2>8. Kept(c) /\ c \in Apps /\ SameScreen(a, c) /\ Right(c, "layers") BY <2>7 DEF Asks
  <2>9. Headed(c) BY <2>5, <2>7 DEF Asks, Headed
  <2>10. CASE a.selected = None
    <3>1. b = c BY <1>3, <2>1, <2>2, <2>4, <2>10 DEF FireQueries
    <3>2. c.selected = None BY <2>8, <2>10 DEF SameScreen
    <3>3. Current(c) BY <2>8, <3>2 DEF Current, Wanted
    <3> QED BY <2>8, <2>9, <3>1, <3>3 DEF Holds
  <2>11. CASE a.selected # None
    <3>1. PICK d : d = [c EXCEPT !.offset = 0] OBVIOUS
    <3>2. d \in Apps BY ZenonT(60), <2>8, <3>1 DEF Apps
    <3>3. /\ SameReplies(c, d) /\ SameView(c, d) /\ d.strip = c.strip /\ d.layers = c.layers
          /\ d.dirty = c.dirty
      BY <2>8, <3>1 DEF Apps, SameReplies, SameView
    <3>4. Kept(d)
      <4>1. Over(d) /\ Anchored(d) BY <2>8, <3>3, OverSame DEF SameReplies, Kept, Still
      <4> QED BY <2>8, <3>2, <3>3, <4>1, RepliesSame DEF Kept, Still
    <3>5. Headed(d) BY <2>9, <3>2, <3>3, RepliesSame
    <3>6. Right(d, "layers")
      <4>1. Seen(d, "layers") = Seen(c, "layers") BY <3>3 DEF Seen
      <4> QED BY <2>8, <3>3, <4>1, RightSame DEF SameReplies
    <3>7. d.extent # None /\ d.selected # None
      BY <1>3, <2>8, <2>11, <3>3 DEF SameReplies, SameScreen
    <3>8. b = FireRegionQueries(d)
      BY <1>3, <2>1, <2>2, <2>4, <2>11, <3>1 DEF FireQueries
    <3>9. Regions(d, b)
      <4>1. \A s \in Inspector : Seen(d, s) # None => Seen(d, s).query.cell = d.selected
        BY <3>5, <3>7 DEF Headed, Title
      <4> QED BY <3>4, <3>7, <3>8, <4>1, RegionStep
    <3>10. Kept(b) /\ Headed(b) BY <3>9 DEF Regions
    <3>11. \A s \in Pane : Right(b, s) BY <3>6, <3>9 DEF Regions, Pane
    <3>12. Current(b) BY <3>11 DEF Current, Wanted
    <3> QED BY <3>10, <3>12 DEF Holds
  <2> QED BY <2>10, <2>11
<1> QED BY <1>2, <1>3

\* The end of a frame.
LEMMA EndStep ==
  ASSUME World, NEW a, Holds(a), NEW b, b = EndFrame(a)
  PROVE  Holds(b)
<1>1. CASE ~(a.dirty /\ a.phase = "ready") BY <1>1 DEF EndFrame
<1>2. CASE a.dirty /\ a.phase = "ready"
  <2>1. PICK c : c = [a EXCEPT !.dirty = FALSE] OBVIOUS
  <2>2. a \in Apps BY DEF Holds, Kept, Still
  <2>3. c \in Apps BY ZenonT(60), <2>1, <2>2 DEF Apps
  <2>4. SameReplies(a, c) /\ SameView(a, c) /\ c.strip = a.strip
    BY <2>1, <2>2 DEF Apps, SameReplies, SameView
  <2>5. Over(c) /\ Anchored(c) BY <2>4, OverSame DEF SameReplies, Holds, Kept, Still
  <2>6. Kept(c) /\ Headed(c) BY <2>3, <2>4, <2>5, RepliesSame DEF Holds, Kept, Still
  <2>7. b = FireQueries(c) BY <1>2, <2>1 DEF EndFrame
  <2> QED BY <2>6, <2>7, FireStep
<1> QED BY <1>1, <1>2

-----------------------------------------------------------------------------
\* The actions.  What holds of a value holds of the app that becomes it.
LEMMA CarryView ==
  ASSUME NEW y, app' = y, now' = now
  PROVE  /\ Over(y) => Over(app)'
         /\ Anchored(y) => Anchored(app)'
         /\ \A q, s : Fits(y, s, q) => Fits(app, s, q)'
<1>1. Reach(app)' = Reach(y) BY DEF Reach
<1>2. Over(y) => Over(app)' BY <1>1 DEF Over, SinceOf
<1>3. Width(app)' = Width(y) BY <1>1 DEF Width
<1>4. MaxStart(app)' = MaxStart(y) BY <1>1, <1>3 DEF MaxStart
<1>5. Placed(app)' = Placed(y) BY <1>1, <1>3, <1>4 DEF Placed
<1>6. Anchored(y) => Anchored(app)' BY <1>5 DEF Anchored
<1>7. Window(app)' = Window(y) BY <1>1, <1>3 DEF Window
<1>8. \A q, s : Fits(y, s, q) => Fits(app, s, q)'
  BY <1>1, <1>7 DEF Fits, Within, SinceOf
<1> QED BY <1>2, <1>6, <1>8

LEMMA Carry ==
  ASSUME World, NEW y, Holds(y), app' = y, UNCHANGED <<now, db>>
  PROVE  IInv'
<1>1. now' = now /\ db' = db OBVIOUS
<1>2. World' BY <1>1 DEF World
<1>3. app' \in Apps /\ Queued(app)' /\ Headed(app)'
  BY DEF Holds, Kept, Still, Queued, Waits, Headed, Title, Seen
<1>4. Opened(app)' BY <1>1 DEF Holds, Kept, Still, Opened
<1>5. Over(app)' /\ Anchored(app)' BY <1>1, CarryView DEF Holds, Kept, Still
<1>6. Telling(app)' BY <1>1 DEF Holds, Kept, Telling, IngestDue, Answered
<1>7. Counted(app)' BY <1>1 DEF Holds, Kept, Counted, IngestDue, HistogramDue
<1>8. \A q, s : Fits(y, s, q) => Fits(app, s, q)' BY <1>1, CarryView
<1>9. Current(app)'
  BY <1>1, <1>8 DEF Holds, Current, Due, IngestDue, ExtentDue, Wanted, Right, Seen
<1> QED BY <1>2, <1>3, <1>4, <1>5, <1>6, <1>7, <1>9 DEF IInv, Holds, Kept, Still

\* The frame up to the user's input.
LEMMA FrameStep ==
  ASSUME World, Holds(app)
  PROVE  /\ \A a \in Polled : Holds(a)
         /\ \A a \in Drawn : Holds(a)
<1>1. PICK p : p = PollAsync(app) OBVIOUS
<1>2. Holds(p) BY <1>1, PollStep
<1>3. ASSUME NEW a \in Polled PROVE Holds(a)
  <2>1. a \in AdvancePlayback(p) BY <1>1, <1>3 DEF Polled
  <2> QED BY <1>2, <2>1, PlaybackStep
<1>4. ASSUME NEW d \in Drawn PROVE Holds(d)
  <2>1. PICK a \in Polled : d = Draw(a) BY <1>4 DEF Drawn
  <2>2. Holds(a) BY <1>3
  <2> QED BY <2>1, <2>2, DrawStep
<1> QED BY <1>3, <1>4

LEMMA Ended ==
  ASSUME World, NEW a, Holds(a), app' = EndFrame(a), UNCHANGED <<now, db>>
  PROVE  IInv'
<1>1. PICK b : b = EndFrame(a) OBVIOUS
<1>2. Holds(b) BY <1>1, EndStep
<1> QED BY <1>1, <1>2, Carry

LEMMA IdleStep == ASSUME IInv, Idle PROVE IInv'
<1>1. World /\ Holds(app) /\ UNCHANGED <<now, db>> BY DEF IInv, Idle
<1>2. PICK a \in Drawn : app' = EndFrame(a) BY DEF Idle
<1>3. Holds(a) BY <1>1, FrameStep
<1> QED BY <1>1, <1>2, <1>3, Ended

LEMMA GoToStep ==
  ASSUME IInv, NEW page \in {"map", "other"}, GoTo(page) PROVE IInv'
<1>1. World /\ Holds(app) /\ UNCHANGED <<now, db>> BY DEF IInv, GoTo, Input
<1>2. PICK a \in Polled : app' = EndFrame(Draw([a EXCEPT !.page = page])) BY DEF GoTo
<1>3. Holds(a) /\ a \in Apps BY <1>1, FrameStep DEF Holds, Kept, Still
<1>4. PICK b : b = [a EXCEPT !.page = page] OBVIOUS
<1>5. b \in Apps BY ZenonT(60), <1>3, <1>4 DEF Apps
<1>6. /\ SameReplies(a, b) /\ SameView(a, b) /\ b.strip = a.strip /\ b.layers = a.layers
      /\ b.offset = a.offset /\ b.dirty = a.dirty
  BY <1>3, <1>4 DEF Apps, SameReplies, SameView
<1>7. Holds(b) BY <1>3, <1>5, <1>6, KeepStep
<1>8. PICK d : d = Draw(b) OBVIOUS
<1>9. Holds(d) BY <1>1, <1>7, <1>8, DrawStep
<1>10. app' = EndFrame(d) BY <1>2, <1>4, <1>8
<1> QED BY <1>1, <1>9, <1>10, Ended

LEMMA FilterStep ==
  ASSUME IInv, NEW f \in Filter, ChangeFilter(f) PROVE IInv'
<1>1. World /\ Holds(app) /\ UNCHANGED <<now, db>> BY DEF IInv, ChangeFilter, Input
<1>2. PICK a \in Drawn : app' = EndFrame([a EXCEPT !.filter = f, !.dirty = TRUE])
  BY DEF ChangeFilter, OnMap
<1>3. Holds(a) /\ a \in Apps /\ Over(a) /\ Anchored(a)
  BY <1>1, FrameStep DEF Holds, Kept, Still
<1>4. PICK b : b = [a EXCEPT !.filter = f, !.dirty = TRUE] OBVIOUS
<1>5. b \in Apps BY ZenonT(60), <1>3, <1>4 DEF Apps
<1>6. /\ SameReplies(a, b) /\ b.dirty /\ b.strip = a.strip /\ b.start = a.start
      /\ b.len = a.len /\ b.range = a.range /\ b.follow = a.follow /\ b.anchor = a.anchor
  BY <1>3, <1>4 DEF Apps, SameReplies
<1>7. Over(b) /\ Anchored(b)
  BY <1>3, <1>6 DEF SameReplies, Over, Anchored, Placed, SinceOf, Width, Reach, Total, MaxStart
<1>8. Holds(b) BY <1>3, <1>5, <1>6, <1>7, MoveStep
<1> QED BY <1>1, <1>2, <1>4, <1>8, Ended

\* Playing lets go of the clock.
LEMMA PlayStep == ASSUME IInv, TogglePlay PROVE IInv'
<1>1. World /\ Holds(app) /\ UNCHANGED <<now, db>> BY DEF IInv, TogglePlay, Input
<1>2. PICK a \in Drawn :
        app' = EndFrame([a EXCEPT !.playing = ~@, !.follow = a.follow /\ a.playing])
  BY DEF TogglePlay, OnTimeline, OnMap
<1>3. Holds(a) /\ a \in Apps /\ Over(a) /\ Anchored(a) /\ Current(a)
  BY <1>1, FrameStep DEF Holds, Kept, Still
<1>4. PICK p \in BOOLEAN : p = ~a.playing BY <1>3 DEF Apps
<1>5. PICK o \in BOOLEAN : o = (a.follow /\ a.playing) BY <1>3 DEF Apps
<1>6. PICK b : b = [a EXCEPT !.playing = p, !.follow = o] OBVIOUS
<1>7. app' = EndFrame(b)
  <2>1. b = [a EXCEPT !.playing = ~@, !.follow = a.follow /\ a.playing]
    BY <1>3, <1>4, <1>5, <1>6
  <2> QED BY <1>2, <2>1
<1>8. b \in Apps
  <2>1. a \in Apps /\ p \in BOOLEAN /\ o \in BOOLEAN BY <1>3
  <2>2. PICK c : c = [a EXCEPT !.playing = p] OBVIOUS
  <2>3. c \in Apps BY ZenonT(60), <2>1, <2>2 DEF Apps
  <2>4. b = [c EXCEPT !.follow = o] BY <1>6, <2>1, <2>2 DEF Apps
  <2> QED BY ZenonT(60), <2>1, <2>3, <2>4 DEF Apps
<1>9. /\ SameReplies(a, b) /\ b.strip = a.strip /\ b.start = a.start /\ b.len = a.len
      /\ b.range = a.range /\ b.follow = o /\ b.anchor = a.anchor /\ b.filter = a.filter
      /\ b.layers = a.layers /\ b.offset = a.offset /\ b.dirty = a.dirty
  BY <1>3, <1>6 DEF Apps, SameReplies
<1>10. b.follow => a.follow BY <1>5, <1>9
<1>11. Over(b) /\ Anchored(b)
  BY <1>3, <1>9, <1>10
     DEF SameReplies, Over, Anchored, Placed, SinceOf, Width, Reach, Total, MaxStart
<1>12. Current(b)
  <2>1. SUFFICES ASSUME ~Due(b), NEW s \in Wanted(b) PROVE Right(b, s) BY DEF Current
  <2>2. Right(a, s)
    BY <1>3, <1>9, <2>1 DEF Current, SameReplies, Due, IngestDue, ExtentDue, Wanted
  <2>3. ASSUME NEW q, Fits(a, s, q) PROVE Fits(b, s, q)
    <3>1. Reach(b) = Reach(a) BY <1>9 DEF SameReplies, Reach
    <3>2. Window(b) = Window(a) BY <1>9, <3>1 DEF Window, Width
    <3> QED BY <1>9, <1>10, <2>3, <3>1, <3>2 DEF Fits, Within, SinceOf
  <2>4. /\ Seen(b, s) = Seen(a, s) /\ b.pending[s] = a.pending[s]
        /\ s \in b.missed <=> s \in a.missed
    BY <1>9 DEF Seen, SameReplies
  <2>5. CASE a.pending[s] # None BY <2>2, <2>3, <2>4, <2>5 DEF Right
  <2>6. CASE a.pending[s] = None BY <2>2, <2>3, <2>4, <2>6 DEF Right
  <2> QED BY <2>5, <2>6
<1>13. Holds(b) BY <1>3, <1>8, <1>9, <1>11, <1>12, RepliesSame DEF Holds, Kept, Still
<1> QED BY <1>1, <1>7, <1>13, Ended

\* The reach is opened or closed, and the window follows or is clamped to it.
LEMMA RangeStep ==
  ASSUME IInv, NEW r \in {"recent", "full"}, SetRange(r) PROVE IInv'
<1>1. World /\ Holds(app) /\ UNCHANGED <<now, db>> BY DEF IInv, SetRange, Input
<1>2. PICK a \in OnTimeline :
        LET b == [a EXCEPT !.range = r, !.dirty = TRUE]
        IN  app' = EndFrame(RebuildHistogram(
                     IF a.follow THEN SyncWindowToNow(b)
                     ELSE [b EXCEPT !.start = Clamp(@, 0, MaxStart(b))]))
  BY DEF SetRange
<1>3. a \in Drawn /\ a.extent # None BY DEF OnTimeline, OnMap
<1>4. Holds(a) /\ a \in Apps /\ Anchored(a) BY <1>1, <1>3, FrameStep DEF Holds, Kept, Still
<1>5. PICK b : b = [a EXCEPT !.range = r, !.dirty = TRUE] OBVIOUS
<1>6. b \in Apps BY ZenonT(60), <1>4, <1>5 DEF Apps
<1>7. /\ SameReplies(a, b) /\ b.dirty /\ b.follow = a.follow /\ b.anchor = a.anchor
      /\ b.start = a.start
  BY <1>4, <1>5 DEF Apps, SameReplies
<1>8. PICK c : c = IF a.follow THEN SyncWindowToNow(b)
                   ELSE [b EXCEPT !.start = Clamp(@, 0, MaxStart(b))]
  OBVIOUS
<1>9. b.extent # None BY <1>3, <1>7 DEF SameReplies
<1>10. c \in Apps /\ SameReplies(a, c) /\ c.dirty /\ Anchored(c)
  <2>1. CASE a.follow
    <3>1. Syncing(b, c) BY <1>1, <1>6, <1>8, <1>9, <2>1, SyncFields
    <3> QED BY <1>7, <3>1 DEF Syncing, SameReplies
  <2>2. CASE ~a.follow
    <3>1. MaxStart(b) \in Nat /\ b.start \in Nat BY <1>1, <1>6, <1>9, Spans DEF Apps
    <3>2. PICK n \in Nat : n = Clamp(b.start, 0, MaxStart(b))
      BY <3>1 DEF Clamp, Greatest, Least
    <3>3. c = [b EXCEPT !.start = n] BY <1>8, <2>2, <3>2
    <3>4. c \in Apps BY ZenonT(60), <1>6, <3>3 DEF Apps
    <3>5. SameReplies(b, c) /\ c.dirty = b.dirty /\ c.follow = b.follow /\ c.anchor = b.anchor
      BY <1>6, <3>3 DEF Apps, SameReplies
    <3>6. Anchored(c) BY <1>4, <1>7, <2>2, <3>5 DEF Anchored
    <3> QED BY <1>7, <3>4, <3>5, <3>6 DEF SameReplies
  <2> QED BY <2>1, <2>2
<1>11. PICK d : d = RebuildHistogram(c) OBVIOUS
<1>12. Rebuilding(c, d) BY <1>1, <1>10, <1>11, RebuildFields
<1>13. d \in Apps /\ SameReplies(a, d) /\ d.dirty /\ Over(d)
  BY <1>10, <1>12 DEF Rebuilding, SameReplies
<1>14. Anchored(d)
  BY <1>10, <1>12
     DEF Rebuilding, SameView, Anchored, Placed, Width, Reach, Total, MaxStart
<1>15. Holds(d) BY <1>4, <1>13, <1>14, MoveStep
<1>16. app' = EndFrame(d) BY <1>2, <1>5, <1>8, <1>11
<1> QED BY <1>1, <1>15, <1>16, Ended

\* A new length, from the clock on or from the start.
LEMMA LengthStep ==
  ASSUME IInv, NEW n \in Length, SetLength(n) PROVE IInv'
<1>1. World /\ Holds(app) /\ UNCHANGED <<now, db>> BY DEF IInv, SetLength, Input
<1>2. PICK a \in Drawn : a.extent # None /\ app' = EndFrame(WithLength(a, n))
  BY DEF SetLength, OnTimeline, OnMap
<1>3. Holds(a) /\ a \in Apps /\ Over(a) /\ Anchored(a)
  BY <1>1, FrameStep DEF Holds, Kept, Still
<1>4. PICK b : b = [a EXCEPT !.len = n, !.dirty = TRUE] OBVIOUS
<1>5. b \in Apps BY ZenonT(60), <1>3, <1>4, LengthAssumption DEF Apps
<1>6. /\ SameReplies(a, b) /\ b.dirty /\ b.follow = a.follow /\ b.anchor = a.anchor
      /\ b.start = a.start /\ b.strip = a.strip /\ b.range = a.range
  BY <1>3, <1>4 DEF Apps, SameReplies
<1>7. Over(b) BY <1>3, <1>6 DEF SameReplies, Over, SinceOf, Reach
<1>8. b.extent # None BY <1>2, <1>6 DEF SameReplies
<1>9. PICK c : c = WithLength(a, n) OBVIOUS
<1>10. c \in Apps /\ SameReplies(a, c) /\ c.dirty /\ Anchored(c) /\ Over(c)
  <2>1. CASE a.follow
    <3>1. c = SyncWindowToNow(b) BY <1>4, <1>9, <2>1 DEF WithLength
    <3>2. Syncing(b, c) BY <1>1, <1>5, <1>8, <3>1, SyncFields
    <3> QED BY <1>6, <1>7, <3>2 DEF Syncing, SameReplies
  <2>2. CASE ~a.follow
    <3>1. MaxStart(b) \in Nat /\ b.start \in Nat BY <1>1, <1>5, <1>8, Spans DEF Apps
    <3>2. PICK m \in Nat : m = Least(b.start, MaxStart(b)) BY <3>1 DEF Least
    <3>3. c = [b EXCEPT !.start = m] BY <1>4, <1>9, <2>2, <3>2 DEF WithLength
    <3>4. c \in Apps BY ZenonT(60), <1>5, <3>3 DEF Apps
    <3>5. /\ SameReplies(b, c) /\ c.dirty = b.dirty /\ c.follow = b.follow
          /\ c.anchor = b.anchor /\ c.strip = b.strip /\ c.range = b.range
      BY <1>5, <3>3 DEF Apps, SameReplies
    <3>6. Anchored(c) BY <1>3, <1>6, <2>2, <3>5 DEF Anchored
    <3>7. Over(c) BY <1>7, <3>5 DEF SameReplies, Over, SinceOf, Reach
    <3> QED BY <1>6, <3>4, <3>5, <3>6, <3>7 DEF SameReplies
  <2> QED BY <2>1, <2>2
<1>11. Holds(c) BY <1>3, <1>10, MoveStep
<1> QED BY <1>1, <1>2, <1>9, <1>11, Ended

\* The window follows the clock from here on.
LEMMA NowStep == ASSUME IInv, Now PROVE IInv'
<1>1. World /\ Holds(app) /\ UNCHANGED <<now, db>> BY DEF IInv, Now, Input
<1>2. PICK a \in Drawn :
        /\ a.extent # None
        /\ app' = EndFrame([SyncWindowToNow(a) EXCEPT !.follow = TRUE, !.dirty = TRUE])
  BY DEF Now, OnTimeline, OnMap
<1>3. Holds(a) /\ a \in Apps /\ Over(a) BY <1>1, FrameStep DEF Holds, Kept, Still
<1>4. PICK n \in Nat : n = Placed(a)
  <2>1. Placed(a) \in 0 .. MaxStart(a) /\ MaxStart(a) \in Nat BY <1>1, <1>2, <1>3, Spans
  <2> QED BY <2>1
<1>5. PICK c : c = SyncWindowToNow(a) OBVIOUS
<1>6. c = [a EXCEPT !.start = n, !.anchor = now]
  BY <1>2, <1>4, <1>5 DEF SyncWindowToNow, Placed
<1>7. Syncing(a, c) BY <1>1, <1>2, <1>3, <1>5, SyncFields
<1>8. c \in Apps /\ SameReplies(a, c) /\ c.anchor = now /\ c.start = n /\ c.len = a.len
      /\ c.range = a.range /\ c.strip = a.strip /\ Over(c)
  <2>1. c.anchor = now /\ c.start = n /\ c.len = a.len BY <1>3, <1>6 DEF Apps
  <2> QED BY <1>3, <1>7, <2>1 DEF Syncing
<1>9. PICK b : b = [c EXCEPT !.follow = TRUE, !.dirty = TRUE] OBVIOUS
<1>10. b \in Apps BY ZenonT(60), <1>8, <1>9 DEF Apps
<1>11. /\ SameReplies(c, b) /\ b.dirty /\ b.anchor = now /\ b.start = n /\ b.len = a.len
       /\ b.range = a.range /\ b.strip = c.strip
  BY <1>8, <1>9 DEF Apps, SameReplies
<1>12. SameReplies(a, b) BY <1>8, <1>11 DEF SameReplies
<1>13. Reach(b) = Reach(a) BY <1>11, <1>12 DEF SameReplies, Reach
<1>14. Placed(b) = n BY <1>4, <1>11, <1>13 DEF Placed, Width, MaxStart
<1>15. Anchored(b) BY <1>1, <1>11, <1>14 DEF Anchored, World
<1>16. Over(b) BY <1>8, <1>11 DEF SameReplies, Over, SinceOf, Reach
<1>17. Holds(b) BY <1>3, <1>10, <1>11, <1>12, <1>15, <1>16, MoveStep
<1> QED BY <1>1, <1>2, <1>5, <1>9, <1>17, Ended

LEMMA ScrubStep ==
  ASSUME IInv, NEW start \in Nat, Scrub(start) PROVE IInv'
<1>1. World /\ Holds(app) /\ UNCHANGED <<now, db>> BY DEF IInv, Scrub, Input
<1>2. PICK a \in Drawn :
        app' = EndFrame([a EXCEPT !.start = start, !.follow = FALSE, !.dirty = TRUE])
  BY DEF Scrub, OnTimeline, OnMap
<1>3. Holds(a) /\ a \in Apps /\ Over(a) /\ Anchored(a)
  BY <1>1, FrameStep DEF Holds, Kept, Still
<1>4. PICK b : b = [a EXCEPT !.start = start, !.follow = FALSE, !.dirty = TRUE] OBVIOUS
<1>5. b \in Apps
  <2>1. PICK c : c = [a EXCEPT !.start = start, !.follow = FALSE] OBVIOUS
  <2>2. c \in Apps BY ZenonT(60), <1>3, <2>1 DEF Apps
  <2>3. b = [c EXCEPT !.dirty = TRUE] BY <1>3, <1>4, <2>1 DEF Apps
  <2> QED BY ZenonT(60), <2>2, <2>3 DEF Apps
<1>6. /\ SameReplies(a, b) /\ b.dirty /\ b.strip = a.strip /\ b.range = a.range
      /\ ~b.follow /\ b.anchor = a.anchor
  BY <1>3, <1>4 DEF Apps, SameReplies
<1>7. Over(b) /\ Anchored(b)
  BY <1>3, <1>6 DEF SameReplies, Over, Anchored, SinceOf, Reach
<1>8. Holds(b) BY <1>3, <1>5, <1>6, <1>7, MoveStep
<1> QED BY <1>1, <1>2, <1>4, <1>8, Ended

\* What was typed is at least a bucket of the extent.
LEMMA TypedSpan ==
  ASSUME NEW w \in Typed, NEW e \in Extent
  PROVE  CustomRange(w, e)[1] \in Nat /\ CustomRange(w, e)[2] \in Nat \ {0}
<1>1. w[1] \in Int /\ w[2] \in Int /\ e[1] \in Int /\ e[2] \in Int /\ e[1] < e[2]
  BY ExtentAssumption
<1>2. PICK t \in Nat \ {0} : t = Total(e) BY <1>1 DEF Total, Greatest
<1>3. PICK f \in 0 .. t - 1 : f = Clamp(w[1] - e[1], 0, t - 1)
  BY <1>1, <1>2 DEF Clamp, Greatest, Least
<1>4. PICK l \in f + 1 .. t : l = Clamp(w[2] - e[1], f + 1, t)
  BY <1>1, <1>2, <1>3 DEF Clamp, Greatest, Least
<1>5. CustomRange(w, e) = <<f, l - f>> BY <1>2, <1>3, <1>4 DEF CustomRange
<1> QED BY <1>2, <1>3, <1>4, <1>5

LEMMA CustomStep ==
  ASSUME IInv, NEW w \in Typed, ApplyCustomRange(w) PROVE IInv'
<1>1. World /\ Holds(app) /\ UNCHANGED <<now, db>> BY DEF IInv, ApplyCustomRange, Input
<1>2. PICK a \in OnTimeline :
        LET r == CustomRange(w, a.extent)
        IN  app' = EndFrame(RebuildHistogram(
                     [a EXCEPT !.range = "full", !.start = r[1], !.len = r[2],
                               !.follow = FALSE, !.dirty = TRUE]))
  BY DEF ApplyCustomRange
<1>3. a \in Drawn /\ a.extent # None BY DEF OnTimeline, OnMap
<1>4. Holds(a) /\ a \in Apps /\ Anchored(a) BY <1>1, <1>3, FrameStep DEF Holds, Kept, Still
<1>5. PICK f \in Nat, l \in Nat \ {0} :
        f = CustomRange(w, a.extent)[1] /\ l = CustomRange(w, a.extent)[2]
  <2>1. a.extent \in Extent BY <1>3, <1>4 DEF Apps
  <2> QED BY <2>1, TypedSpan
<1>6. PICK b : b = [a EXCEPT !.range = "full", !.start = f, !.len = l, !.follow = FALSE,
                             !.dirty = TRUE]
  OBVIOUS
<1>7. b \in Apps
  <2>1. PICK c : c = [a EXCEPT !.range = "full", !.start = f, !.len = l] OBVIOUS
  <2>2. c \in Apps BY ZenonT(60), <1>4, <2>1 DEF Apps
  <2>3. b = [c EXCEPT !.follow = FALSE, !.dirty = TRUE] BY <1>4, <1>6, <2>1 DEF Apps
  <2>4. PICK d : d = [c EXCEPT !.follow = FALSE] OBVIOUS
  <2>5. d \in Apps BY ZenonT(60), <2>2, <2>4 DEF Apps
  <2>6. b = [d EXCEPT !.dirty = TRUE] BY <2>2, <2>3, <2>4 DEF Apps
  <2> QED BY ZenonT(60), <2>5, <2>6 DEF Apps
<1>8. SameReplies(a, b) /\ b.dirty /\ ~b.follow /\ b.anchor = a.anchor
  BY <1>4, <1>6 DEF Apps, SameReplies
<1>9. PICK d : d = RebuildHistogram(b) OBVIOUS
<1>10. Rebuilding(b, d) BY <1>1, <1>7, <1>9, RebuildFields
<1>11. d \in Apps /\ SameReplies(a, d) /\ d.dirty /\ Over(d) /\ ~d.follow
       /\ d.anchor = a.anchor
  BY <1>8, <1>10 DEF Rebuilding, SameReplies, SameView
<1>12. Anchored(d) BY <1>4, <1>11 DEF Anchored
<1>13. Holds(d) BY <1>4, <1>11, <1>12, MoveStep
<1>14. app' = EndFrame(d) BY <1>2, <1>5, <1>6, <1>9
<1> QED BY <1>1, <1>13, <1>14, Ended

\* What is kept does not depend on the selection or the page of the ledger.
LEMMA HeadingStep ==
  ASSUME NEW a, Kept(a), NEW b \in Apps, SameView(a, b),
         b.pending = a.pending, b.queue = a.queue, b.missed = a.missed, b.raw = a.raw,
         b.strip = a.strip
  PROVE  Kept(b)
<1>1. b.extent = a.extent BY DEF SameView
<1>2. Queued(b) BY DEF Kept, Still, Queued, Waits
<1>3. Telling(b) BY DEF Kept, Telling, IngestDue, Answered
<1>4. Opened(b) BY <1>1 DEF Kept, Still, Opened
<1>5. Counted(b) BY DEF Kept, Counted, IngestDue, HistogramDue
<1>6. Over(b) /\ Anchored(b) BY OverSame DEF Kept, Still
<1> QED BY <1>2, <1>3, <1>4, <1>5, <1>6 DEF Kept, Still

\* Another cell: its pane is empty, and what is asked for is of that cell.
LEMMA SelectStep ==
  ASSUME IInv, NEW c \in Cell, SelectCell(c) PROVE IInv'
<1>1. World /\ Holds(app) /\ UNCHANGED <<now, db>> BY DEF IInv, SelectCell, Input
<1>2. PICK a \in OnMap :
        LET b == [a EXCEPT !.selected = c, !.detail = None, !.ledger = None, !.offset = 0]
        IN  app' = EndFrame(IF a.extent = None THEN b ELSE FireRegionQueries(b))
  BY DEF SelectCell
<1>3. a \in Drawn BY DEF OnMap
<1>4. Holds(a) /\ a \in Apps /\ Kept(a) BY <1>1, <1>3, FrameStep DEF Holds, Kept, Still
<1>5. PICK b : b = [a EXCEPT !.selected = c, !.detail = None, !.ledger = None, !.offset = 0]
  OBVIOUS
<1>6. b \in Apps
  <2>1. PICK d : d = [a EXCEPT !.selected = c, !.detail = None] OBVIOUS
  <2>2. d \in Apps BY ZenonT(60), <1>4, <2>1 DEF Apps
  <2>3. b = [d EXCEPT !.ledger = None, !.offset = 0] BY <1>4, <1>5, <2>1 DEF Apps
  <2> QED BY ZenonT(60), <2>2, <2>3 DEF Apps
<1>7. /\ SameView(a, b) /\ b.pending = a.pending /\ b.queue = a.queue /\ b.missed = a.missed
      /\ b.raw = a.raw /\ b.strip = a.strip /\ b.layers = a.layers /\ b.dirty = a.dirty
      /\ b.selected = c /\ b.detail = None /\ b.ledger = None
  BY <1>4, <1>5 DEF Apps, SameView
<1>8. Kept(b) BY <1>4, <1>6, <1>7, HeadingStep
<1>9. c # None BY NoneAssumption
<1>10. CASE a.extent = None
  <2>1. b.extent = None BY <1>7, <1>10 DEF SameView
  <2>2. Current(b) BY <2>1 DEF Current, Due
  <2>3. b.pending["detail"] = None /\ b.pending["ledger"] = None
    BY <1>8, <2>1 DEF Kept, Still, Opened
  <2>4. Headed(b) BY <1>7, <2>3 DEF Headed, Inspector, Title, Seen
  <2>5. Holds(b) BY <1>8, <2>2, <2>4 DEF Holds
  <2> QED BY <1>1, <1>2, <1>5, <1>10, <2>5, Ended
<1>11. CASE a.extent # None
  <2>1. PICK d : d = FireRegionQueries(b) OBVIOUS
  <2>2. Regions(b, d)
    <3>1. b.extent # None /\ b.selected # None BY <1>7, <1>9, <1>11 DEF SameView
    <3>2. \A s \in Inspector : Seen(b, s) = None BY <1>7 DEF Inspector, Seen
    <3> QED BY <1>1, <1>8, <2>1, <3>1, <3>2, RegionStep
  <2>3. Current(d)
    <3>1. SUFFICES ASSUME ~Due(d) PROVE \A s \in Pane : Right(d, s)
      BY DEF Current, Wanted
    <3>2. ~Due(b) BY <2>2, <3>1 DEF Regions
    <3>3. ~Due(a) BY <1>7, <3>2 DEF Due, IngestDue, ExtentDue, SameView
    <3>4. Right(a, "layers") BY <1>4, <3>3 DEF Holds, Current, Wanted, Pane
    <3>5. Seen(b, "layers") = Seen(a, "layers") BY <1>7 DEF Seen
    <3>6. Right(b, "layers") BY <1>7, <3>4, <3>5, RightSame
    <3> QED BY <2>2, <3>6 DEF Regions, Pane
  <2>4. Holds(d) BY <2>2, <2>3 DEF Holds, Regions
  <2> QED BY <1>1, <1>2, <1>5, <1>11, <2>1, <2>4, Ended
<1> QED BY <1>10, <1>11

LEMMA ClearStep == ASSUME IInv, ClearSelection PROVE IInv'
<1>1. World /\ Holds(app) /\ UNCHANGED <<now, db>> BY DEF IInv, ClearSelection, Input
<1>2. PICK a \in Drawn : app' = EndFrame([a EXCEPT !.selected = None, !.detail = None])
  BY DEF ClearSelection, OnMap
<1>3. Holds(a) /\ a \in Apps /\ Kept(a) BY <1>1, FrameStep DEF Holds, Kept, Still
<1>4. PICK b : b = [a EXCEPT !.selected = None, !.detail = None] OBVIOUS
<1>5. b \in Apps BY ZenonT(60), <1>3, <1>4 DEF Apps
<1>6. /\ SameView(a, b) /\ b.pending = a.pending /\ b.queue = a.queue /\ b.missed = a.missed
      /\ b.raw = a.raw /\ b.strip = a.strip /\ b.layers = a.layers /\ b.dirty = a.dirty
      /\ b.selected = None
  BY <1>3, <1>4 DEF Apps, SameView
<1>7. Kept(b) BY <1>3, <1>5, <1>6, HeadingStep
<1>8. Headed(b) BY <1>6 DEF Headed, Title
<1>9. Current(b)
  <2>1. SUFFICES ASSUME ~Due(b) PROVE Right(b, "layers") BY <1>6 DEF Current, Wanted
  <2>2. ~Due(a) BY <1>6, <2>1 DEF Due, IngestDue, ExtentDue, SameView
  <2>3. Right(a, "layers") BY <1>3, <2>2 DEF Holds, Current, Wanted, Pane
  <2>4. Seen(b, "layers") = Seen(a, "layers") BY <1>6 DEF Seen
  <2> QED BY <1>6, <2>3, <2>4, RightSame
<1>10. Holds(b) BY <1>7, <1>8, <1>9 DEF Holds
<1> QED BY <1>1, <1>2, <1>4, <1>10, Ended

\* A page is turned: the ledger is asked for from there.
LEMMA PageStep ==
  ASSUME IInv, NEW off \in Nat, TurnPage(off) PROVE IInv'
<1>1. World /\ Holds(app) /\ UNCHANGED <<now, db>> BY DEF IInv, TurnPage, Input
<1>2. PICK a \in OnMap :
        LET b == [a EXCEPT !.offset = off]
        IN  /\ a.selected # None
            /\ app' = EndFrame(IF a.extent = None THEN b ELSE AskLedger(b))
  BY DEF TurnPage
<1>3. a \in Drawn BY DEF OnMap
<1>4. Holds(a) /\ a \in Apps /\ Kept(a) /\ Headed(a) /\ Current(a)
  BY <1>1, <1>3, FrameStep DEF Holds, Kept, Still
<1>5. PICK b : b = [a EXCEPT !.offset = off] OBVIOUS
<1>6. b \in Apps BY ZenonT(60), <1>4, <1>5 DEF Apps
<1>7. /\ SameView(a, b) /\ SameReplies(a, b) /\ b.strip = a.strip /\ b.layers = a.layers
      /\ b.dirty = a.dirty /\ b.offset = off
  BY <1>4, <1>5 DEF Apps, SameView, SameReplies
<1>8. Kept(b) BY <1>4, <1>6, <1>7, HeadingStep DEF SameReplies
<1>9. Headed(b) BY <1>4, <1>6, <1>7, RepliesSame
<1>10. CASE a.extent = None
  <2>1. b.extent = None BY <1>7, <1>10 DEF SameView
  <2>2. Current(b) BY <2>1 DEF Current, Due
  <2>3. Holds(b) BY <1>8, <1>9, <2>2 DEF Holds
  <2> QED BY <1>1, <1>2, <1>5, <1>10, <2>3, Ended
<1>11. CASE a.extent # None
  <2>1. b.extent # None /\ b.selected # None /\ b.selected \in Cell
    BY <1>2, <1>6, <1>7, <1>11 DEF SameReplies, Apps
  <2>2. PICK w \in Span : w = Window(b) BY <1>1, <1>6, <2>1, Spans
  <2>3. PICK q : q = [cell |-> b.selected, win |-> w, off |-> off, now |-> now] OBVIOUS
  <2>4. q \in Query /\ now \in Int BY <1>1, <2>1, <2>2, <2>3 DEF World, Query
  <2>5. Fits(b, "ledger", q) BY <1>7, <2>2, <2>3, <2>4 DEF Fits
  <2>6. PICK d : d = Ask(b, "ledger", q) OBVIOUS
  <2>7. "ledger" \in Pane /\ "ledger" \in Inspector BY DEF Pane, Inspector
  <2>8. Asks(b, "ledger", d) /\ Title(d, "ledger")
    <3>1. q.cell = b.selected BY <2>3
    <3>2. Seen(b, "ledger") # None => Seen(b, "ledger").query.cell = b.selected
      BY <1>9, <2>1, <2>7 DEF Headed, Title
    <3> QED BY <1>1, <1>8, <2>1, <2>4, <2>5, <2>6, <2>7, <3>1, <3>2, AskPane
  <2>9. app' = EndFrame(d)
    BY <1>2, <1>5, <1>7, <1>11, <2>2, <2>3, <2>6 DEF AskLedger
  <2>10. Headed(d) BY <1>9, <2>8 DEF Asks, Headed, Pane
  <2>11. Current(d)
    <3>1. SUFFICES ASSUME ~Due(d), NEW s \in Wanted(d) PROVE Right(d, s) BY DEF Current
    <3>2. ~Due(b) /\ d.selected = b.selected /\ s \in Pane
      BY <2>8, <3>1 DEF Asks, SameScreen, Wanted
    <3>3. ~Due(a) /\ s \in Wanted(a)
      BY <1>7, <3>1, <3>2 DEF Due, IngestDue, ExtentDue, SameView, SameReplies, Wanted
    <3>4. CASE s = "ledger" BY <2>8, <3>4 DEF Asks
    <3>5. CASE s # "ledger"
      <4>1. Right(a, s) BY <1>4, <3>3 DEF Current
      <4>2. Seen(b, s) = Seen(a, s) BY <1>7 DEF Seen, SameReplies
      <4>3. Right(b, s) BY <1>7, <3>5, <4>1, <4>2, RightSame DEF SameReplies
      <4> QED BY <2>8, <3>2, <3>5, <4>3 DEF Asks
    <3> QED BY <3>4, <3>5
  <2>12. Holds(d) BY <2>8, <2>10, <2>11 DEF Asks, Holds
  <2> QED BY <1>1, <2>9, <2>12, Ended
<1> QED BY <1>10, <1>11

LEMMA BatchStep == ASSUME IInv, Batch PROVE IInv'
<1>1. World /\ Holds(app) /\ UNCHANGED <<now, db>> /\ app \in Apps
  BY DEF IInv, Batch, Holds, Kept, Still
<1>2. PICK n \in Nat : n = app.inbox + 1 BY <1>1 DEF Apps
<1>3. PICK b : b = [app EXCEPT !.inbox = n] OBVIOUS
<1>4. b \in Apps BY ZenonT(60), <1>1, <1>3 DEF Apps
<1>5. /\ SameReplies(app, b) /\ SameView(app, b) /\ b.strip = app.strip
      /\ b.layers = app.layers /\ b.offset = app.offset /\ b.dirty = app.dirty
  BY <1>1, <1>3 DEF Apps, SameReplies, SameView
<1>6. Holds(b) BY <1>1, <1>4, <1>5, KeepStep
<1>7. app' = b BY <1>2, <1>3 DEF Batch
<1> QED BY <1>1, <1>6, <1>7, Carry

LEMMA FailStep == ASSUME IInv, CycleFails PROVE IInv'
<1>1. World /\ Holds(app) /\ UNCHANGED <<now, db>> /\ app \in Apps
  BY DEF IInv, CycleFails, Holds, Kept, Still
<1>2. PICK b : b = [app EXCEPT !.phase = "error"] OBVIOUS
<1>3. Holds(b) BY <1>1, <1>2, PhaseField, KeepStep
<1>4. app' = b BY <1>2 DEF CycleFails
<1> QED BY <1>1, <1>3, <1>4, Carry

\* A bucket passes: what was placed or asked for in another is held to less.
LEMMA TickStep == ASSUME IInv, Tick PROVE IInv'
<1>1. /\ World /\ app \in Apps /\ Queued(app) /\ Telling(app) /\ Opened(app) /\ Over(app)
      /\ Counted(app) /\ Anchored(app) /\ Current(app) /\ Headed(app)
  BY DEF IInv, Holds, Kept, Still
<1>2. now' = now + 1 /\ db' = db /\ app' = app /\ now \in Int BY <1>1 DEF Tick, World
<1>3. World' BY <1>1, <1>2 DEF World
<1>4. Queued(app)' /\ Headed(app)' BY <1>1, <1>2 DEF Queued, Waits, Headed, Title, Seen
<1>5. Telling(app)' BY <1>1, <1>2 DEF Telling, IngestDue, Answered
<1>6. Opened(app)' BY <1>1, <1>2 DEF Opened
<1>7. Counted(app)' BY <1>1, <1>2 DEF Counted, IngestDue, HistogramDue
<1>8. app.range = "full" => Reach(app)' = Reach(app) BY <1>2 DEF Reach
<1>9. Over(app)'
  <2>1. SUFFICES ASSUME app.extent # None
        PROVE  /\ app.strip # None /\ app.strip.ver = app.raw /\ app.strip.now <= now + 1
               /\ app.range = "full" \/ app.strip.now = now + 1
                    => app.strip.reach = Reach(app)'
    BY <1>2 DEF Over, SinceOf
  <2>2. app.strip \in Strip BY <1>1, <2>1 DEF Over, Apps
  <2>3. app.strip.now \in Int /\ app.strip.now <= now
    BY <1>1, <2>1, <2>2 DEF Over, Strip
  <2>4. app.strip.now # now + 1 BY <1>2, <2>3
  <2> QED BY <1>1, <1>2, <1>8, <2>1, <2>3, <2>4 DEF Over, SinceOf
<1>10. app.anchor # now + 1 /\ (app.anchor # None => app.anchor <= now + 1)
  <2>1. CASE app.anchor = None BY <1>2, <2>1, NoneAssumption
  <2>2. CASE app.anchor # None
    <3>1. app.anchor \in Int /\ app.anchor <= now BY <1>1, <2>2 DEF Anchored, Apps
    <3> QED BY <1>2, <3>1
  <2> QED BY <2>1, <2>2
<1>11. Anchored(app)' BY <1>2, <1>10 DEF Anchored
<1>12. ASSUME NEW q, NEW s, Fits(app, s, q) PROVE Fits(app, s, q)'
  <2>1. q.now <= now + 1 /\ q.now # now + 1 BY <1>2, <1>12 DEF Fits
  <2>2. Within(app, q)' => app.range = "full" BY <1>2, <2>1 DEF Within, SinceOf
  <2>3. app.range = "full" => Window(app)' = Window(app) BY <1>2, <1>8 DEF Window, Width
  <2>4. Within(app, q)' => Within(app, q) BY <1>2, <1>8, <2>2 DEF Within, SinceOf
  <2>5. Within(app, q)' => q.win = Window(app)' BY <1>12, <2>2, <2>3, <2>4 DEF Fits
  <2> QED BY <1>2, <1>10, <1>12, <2>1, <2>5 DEF Fits
<1>13. Current(app)'
  <2>1. SUFFICES ASSUME ~Due(app), NEW s \in Wanted(app) PROVE Right(app, s)'
    BY <1>2 DEF Current, Due, IngestDue, ExtentDue, Wanted
  <2>2. Right(app, s) /\ s \in Pane BY <1>1, <2>1 DEF Current, Wanted
  <2>3. SUFFICES ASSUME s \notin app.missed
        PROVE  IF app.pending[s] # None
               THEN /\ Fits(app, s, app.pending[s].query)'
                    /\ app.pending[s].done = "ok" => app.pending[s].at.ver = db.ver
               ELSE /\ Seen(app, s) # None /\ Fits(app, s, Seen(app, s).query)'
                    /\ Seen(app, s).ver = db.ver
    BY <1>2 DEF Right, Seen
  <2>4. CASE app.pending[s] # None
    <3>1. PICK q : q = app.pending[s].query OBVIOUS
    <3>2. Fits(app, s, q) BY <2>2, <2>3, <2>4, <3>1 DEF Right
    <3>3. Fits(app, s, q)' BY <1>12, <3>2
    <3>4. Fits(app, s, app.pending[s].query)' BY <1>2, <3>1, <3>3
    <3> QED BY <2>2, <2>3, <2>4, <3>4 DEF Right
  <2>5. CASE app.pending[s] = None
    <3>1. PICK q : q = Seen(app, s).query OBVIOUS
    <3>2. Seen(app, s) # None /\ Fits(app, s, q) BY <2>2, <2>3, <2>5, <3>1 DEF Right
    <3>3. Fits(app, s, q)' BY <1>12, <3>2
    <3>4. q = Seen(app, s).query' BY <1>2, <3>1 DEF Seen
    <3>5. Fits(app, s, Seen(app, s).query)' BY <3>3, <3>4
    <3> QED BY <2>2, <2>3, <2>5, <3>2, <3>5 DEF Right
  <2> QED BY <2>4, <2>5
<1> QED BY <1>1, <1>2, <1>3, <1>4, <1>5, <1>6, <1>7, <1>9, <1>11, <1>13
    DEF IInv, Holds, Kept, Still

\* The command at the head of the queue is taken from it.
Popping(q, s, t) ==
  /\ s \in Slot /\ t \in Seq(Slot) /\ Asked(q, s)
  /\ \A x \in Slot \ {s} : Asked(t, x) <=> Asked(q, x)
  /\ Asked(t, s) <=> ~(\A i \in 2 .. Len(q) : q[i] # s)
LEMMA Popped ==
  ASSUME NEW q \in Seq(Slot), q # <<>>, NEW s, s = Head(q), NEW t, t = Tail(q)
  PROVE  Popping(q, s, t)
<1>1. PICK n \in Nat \ {0} : n = Len(q) BY LenProperties
<1>2. s = q[1] /\ s \in Slot /\ t \in Seq(Slot) BY HeadTailProperties
<1>3. Len(t) = n - 1 /\ \A i \in 1 .. n - 1 : t[i] = q[i + 1] BY <1>1, HeadTailProperties
<1>4. Asked(q, s) BY <1>1, <1>2 DEF Asked
<1>5. ASSUME NEW x \in Slot PROVE Asked(t, x) <=> \E i \in 2 .. n : q[i] = x
  <2>1. ASSUME Asked(t, x) PROVE \E i \in 2 .. n : q[i] = x
    <3>1. PICK i \in 1 .. n - 1 : t[i] = x BY <1>3, <2>1 DEF Asked
    <3>2. i + 1 \in 2 .. n /\ q[i + 1] = x BY <1>3, <3>1
    <3> QED BY <3>2
  <2>2. ASSUME NEW i \in 2 .. n, q[i] = x PROVE Asked(t, x)
    <3>1. i - 1 \in 1 .. n - 1 /\ t[i - 1] = q[(i - 1) + 1] /\ (i - 1) + 1 = i BY <1>3
    <3> QED BY <1>3, <2>2, <3>1 DEF Asked
  <2> QED BY <2>1, <2>2
<1>6. ASSUME NEW x \in Slot \ {s} PROVE Asked(t, x) <=> Asked(q, x)
  <2>1. Asked(q, x) => \E i \in 2 .. n : q[i] = x
    <3>1. SUFFICES ASSUME NEW i \in 1 .. n, q[i] = x PROVE i \in 2 .. n BY <1>1 DEF Asked
    <3>2. i # 1 BY <1>2, <3>1
    <3> QED BY <3>2
  <2>2. (\E i \in 2 .. n : q[i] = x) => Asked(q, x) BY <1>1 DEF Asked
  <2> QED BY <1>5, <2>1, <2>2
<1>7. Asked(t, s) <=> ~(\A i \in 2 .. Len(q) : q[i] # s) BY <1>1, <1>2, <1>5
<1> QED BY <1>2, <1>4, <1>6, <1>7 DEF Popping

\* Storage answers its next command: a reply someone holds tells what is stored
\* from then on, and only an ingest changes that.
Answering(s, held, done) ==
  /\ app.queue # <<>> /\ s = Head(app.queue)
  /\ held <=> \A i \in 2 .. Len(app.queue) : app.queue[i] # s
  /\ \/ s # "ingest" /\ db' = db
     \/ s = "ingest" /\ \E e \in Extent : db' = [extent |-> e, ver |-> db.ver + 1]
  /\ app' = [app EXCEPT !.queue = Tail(@),
               !.pending[s] = IF held THEN [@ EXCEPT !.done = done, !.at = db'] ELSE @]
  /\ now' = now

LEMMA AnswerStep == ASSUME IInv, Answer PROVE IInv'
<1>1. PICK s, held, done : done \in {"ok", "failed"} /\ Answering(s, held, done)
  <2>1. PICK done \in {"ok", "failed"} :
          app' = [app EXCEPT !.queue = Tail(@),
                    !.pending[Head(app.queue)] =
                      IF \A i \in 2 .. Len(app.queue) : app.queue[i] # Head(app.queue)
                      THEN [@ EXCEPT !.done = done, !.at = db'] ELSE @]
    BY DEF Answer
  <2>2. PICK s : s = Head(app.queue) OBVIOUS
  <2>3. PICK held : held = \A i \in 2 .. Len(app.queue) : app.queue[i] # s OBVIOUS
  <2>4. Answering(s, held, done) BY <2>1, <2>2, <2>3 DEF Answer, Answering
  <2> QED BY <2>4
<1>2. World /\ Holds(app) /\ app \in Apps /\ Queued(app) /\ Opened(app)
  BY DEF IInv, Holds, Kept, Still
<1>3. app.queue \in Seq(Slot) /\ app.pending \in [Slot -> Reply \cup {None}] BY <1>2 DEF Apps
<1>4. PICK t : t = Tail(app.queue) OBVIOUS
<1>5. /\ s \in Slot /\ t \in Seq(Slot) /\ Asked(app.queue, s)
      /\ \A x \in Slot \ {s} : Asked(t, x) <=> Asked(app.queue, x)
      /\ Asked(t, s) <=> ~held
  <2>1. app.queue # <<>> /\ s = Head(app.queue) BY <1>1 DEF Answering
  <2>2. held <=> (\A i \in 2 .. Len(app.queue) : app.queue[i] # s) BY <1>1 DEF Answering
  <2>3. Popping(app.queue, s, t) BY <1>3, <1>4, <2>1, Popped
  <2> QED BY <2>2, <2>3 DEF Popping
<1>6. Waits(app, s) BY <1>2, <1>5 DEF Queued
<1>7. app.pending[s] \in Reply /\ app.pending[s].done = "no"
  BY <1>3, <1>5, <1>6 DEF Waits
<1>8. World'
  <2>1. now' = now /\ (db' = db \/ \E e \in Extent : db' = [extent |-> e, ver |-> db.ver + 1])
    BY <1>1 DEF Answering
  <2> QED BY <1>2, <2>1 DEF World, Stored
<1>9. PICK r : r = IF held THEN [app.pending[s] EXCEPT !.done = done, !.at = db']
                   ELSE app.pending[s]
  OBVIOUS
<1>10. /\ r \in Reply /\ r.query = app.pending[s].query
       /\ held => r.done = done /\ r.at = db'
       /\ ~held => r = app.pending[s]
  <2>1. CASE held
    <3>1. r = [app.pending[s] EXCEPT !.done = done, !.at = db'] BY <1>9, <2>1
    <3>2. db' \in Stored /\ done \in {"ok", "failed"} BY <1>1, <1>8 DEF World
    <3> QED BY <1>7, <2>1, <3>1, <3>2 DEF Reply
  <2>2. CASE ~held BY <1>7, <1>9, <2>2
  <2> QED BY <2>1, <2>2
<1>11. PICK p : p = [app.pending EXCEPT ![s] = r] OBVIOUS
<1>12. /\ p \in [Slot -> Reply \cup {None}] /\ p[s] = r
       /\ \A x \in Slot \ {s} : p[x] = app.pending[x]
  BY <1>3, <1>5, <1>10, <1>11
<1>13. app' = [app EXCEPT !.queue = t, !.pending = p]
  <2>1. app' = [app EXCEPT !.queue = t, !.pending[s] = r]
    BY <1>1, <1>4, <1>9 DEF Answering
  <2> QED BY <1>11, <2>1
<1>14. app' \in Apps BY ZenonT(60), <1>2, <1>5, <1>12, <1>13 DEF Apps
<1>15. SameScreen(app, app') /\ app'.pending = p /\ app'.queue = t /\ app'.missed = app.missed
  BY <1>2, <1>13 DEF Apps, SameScreen
<1>16. PICK b : b = app' OBVIOUS
<1>17. \A x \in Slot : /\ b.pending[x] = None <=> app.pending[x] = None
                       /\ app.pending[x] # None => b.pending[x].query = app.pending[x].query
                       /\ x # s \/ ~held => b.pending[x] = app.pending[x]
                       /\ x = s /\ held => b.pending[x].done = done /\ b.pending[x].at = db'
  <2>1. r # None /\ app.pending[s] # None BY <1>7, <1>10, NoneAssumption
  <2> QED BY <1>10, <1>12, <1>15, <1>16, <2>1
<1>18. /\ IngestDue(b) <=> IngestDue(app)
       /\ ExtentDue(b) <=> ExtentDue(app)
       /\ HistogramDue(b) <=> HistogramDue(app)
  BY <1>15, <1>16, <1>17 DEF IngestDue, ExtentDue, HistogramDue, Slot
<1>19. Queued(b)
  <2>1. SUFFICES ASSUME NEW x \in Slot PROVE Asked(t, x) <=> Waits(b, x)
    BY <1>15, <1>16 DEF Queued
  <2>2. Asked(app.queue, x) <=> Waits(app, x) BY <1>2 DEF Queued
  <2>3. CASE x = s /\ held BY <1>1, <1>5, <1>17, <2>3 DEF Waits
  <2>4. CASE x = s /\ ~held BY <1>5, <1>6, <1>17, <2>4 DEF Waits
  <2>5. CASE x # s BY <1>5, <1>17, <2>2, <2>5 DEF Waits
  <2> QED BY <2>3, <2>4, <2>5
<1>20. Headed(b)
  <2>1. \A x \in Inspector : Title(app, x) /\ x \in Slot
    BY <1>2 DEF Holds, Headed, Inspector, Slot
  <2>2. b.selected = app.selected /\ \A x : Seen(b, x) = Seen(app, x)
    BY <1>15, <1>16, ScreenView DEF SameScreen
  <2> QED BY <1>17, <2>1, <2>2 DEF Headed, Title
<1>21. SameView(app, b) /\ b.strip = app.strip /\ b.raw = app.raw /\ b.offset = app.offset
       /\ \A x : Seen(b, x) = Seen(app, x)
  BY <1>15, <1>16, ScreenView
<1>22. Over(b) /\ Anchored(b) BY <1>2, <1>21, OverSame DEF Holds, Kept, Still
<1>23. CASE s = "ingest"
  <2>1. PICK e \in Extent : db' = [extent |-> e, ver |-> db.ver + 1]
    BY <1>1, <1>23 DEF Answering
  <2>2. e # None BY NoneAssumption, ExtentAssumption DEF Span
  <2>3. b.extent = app.extent BY <1>21 DEF SameView
  <2>4. Opened(b)'
    <3>1. b.pending["extent"] = app.pending["extent"] BY <1>17, <1>23 DEF Slot
    <3>2. /\ b.pending["detail"] = app.pending["detail"]
          /\ b.pending["ledger"] = app.pending["ledger"]
      BY <1>17, <1>23 DEF Slot
    <3> QED BY <1>2, <2>1, <2>2, <2>3, <3>1, <3>2 DEF Opened
  <2>5. Opened(app)' BY <1>16, <2>4 DEF Opened
  <2>6. IngestDue(b) BY <1>7, <1>17, <1>18, <1>23, NoneAssumption DEF IngestDue
  <2>7. IngestDue(app)' BY <1>16, <2>6 DEF IngestDue
  <2>8. Telling(app)' /\ Counted(app)' /\ Current(app)'
    BY <2>7 DEF Telling, Counted, Current, Due
  <2>9. Queued(app)' /\ Headed(app)'
    BY <1>16, <1>19, <1>20 DEF Queued, Waits, Headed, Title, Seen
  <2>10. Over(app)' /\ Anchored(app)' BY <1>1, <1>16, <1>22, CarryView DEF Answering
  <2> QED BY <1>8, <1>14, <2>5, <2>8, <2>9, <2>10 DEF IInv, Holds, Kept, Still
<1>24. CASE s # "ingest"
  <2>1. UNCHANGED <<now, db>> BY <1>1, <1>24 DEF Answering
  <2>2. Telling(b)
    <3>1. SUFFICES ASSUME ~IngestDue(b), NEW x \in {"extent", "histogram"}, Answered(b, x)
          PROVE  b.pending[x].at = db
      BY DEF Telling
    <3>2. CASE x = s /\ held BY <1>5, <1>17, <2>1, <3>2
    <3>3. CASE x # s \/ ~held
      <4>1. b.pending[x] = app.pending[x] BY <1>17, <3>3 DEF Slot
      <4> QED BY <1>2, <1>18, <3>1, <4>1 DEF Holds, Kept, Telling, Answered
    <3> QED BY <3>2, <3>3
  <2>3. Counted(b) BY <1>2, <1>18, <1>21 DEF Holds, Kept, Counted
  <2>4. Opened(b)
    <3>1. b.extent = app.extent BY <1>21 DEF SameView
    <3>2. CASE s = "extent" /\ held
      <4>1. b.pending["extent"].at = db BY <1>5, <1>17, <2>1, <3>2
      <4>2. app.extent = None => b.pending["detail"] = None /\ b.pending["ledger"] = None
        BY <1>2, <1>17 DEF Opened, Slot
      <4> QED BY <1>2, <3>1, <4>1, <4>2 DEF Opened
    <3>3. CASE ~(s = "extent" /\ held)
      <4>1. b.pending["extent"] = app.pending["extent"] BY <1>17, <3>3 DEF Slot
      <4>2. app.extent = None => b.pending["detail"] = None /\ b.pending["ledger"] = None
        BY <1>2, <1>17 DEF Opened, Slot
      <4> QED BY <1>2, <3>1, <4>1, <4>2 DEF Opened
    <3> QED BY <3>2, <3>3
  <2>5. Current(b)
    <3>1. SUFFICES ASSUME ~Due(b), NEW x \in Wanted(b) PROVE Right(b, x) BY DEF Current
    <3>2. ~Due(app) /\ x \in Wanted(app) /\ x \in Slot
      BY <1>15, <1>16, <1>18, <3>1 DEF Due, SameScreen, Wanted, Pane, Inspector, Slot
    <3>3. Right(app, x) BY <1>2, <3>2 DEF Holds, Current
    <3>4. x \in b.missed <=> x \in app.missed BY <1>15, <1>16
    <3>5. CASE x # s \/ ~held
      <4>1. b.pending[x] = app.pending[x] BY <1>17, <3>2, <3>5
      <4> QED BY <1>21, <3>3, <3>4, <4>1, RightSame
    <3>6. CASE x = s /\ held
      <4>1. b.pending[x] # None /\ app.pending[x] # None
        BY <1>7, <1>17, <3>2, <3>6, NoneAssumption
      <4>2. b.pending[x].query = app.pending[x].query /\ b.pending[x].at = db
        BY <1>17, <2>1, <3>2, <3>6, <4>1
      <4>3. PICK q : q = app.pending[x].query OBVIOUS
      <4>4. x \notin app.missed => Fits(app, x, q) BY <3>3, <4>1, <4>3 DEF Right
      <4>5. Fits(app, x, q) => Fits(b, x, q)
        BY <1>21 DEF SameView, Fits, Within, SinceOf, Window, Width, Reach, Total
      <4> QED BY <3>4, <4>1, <4>2, <4>3, <4>4, <4>5 DEF Right
    <3> QED BY <3>5, <3>6
  <2>6. b \in Apps BY <1>14, <1>16
  <2>7. Holds(b)
    BY <1>19, <1>20, <1>22, <2>2, <2>3, <2>4, <2>5, <2>6 DEF Holds, Kept, Still
  <2> QED BY <1>2, <1>16, <2>1, <2>7, Carry
<1> QED BY <1>23, <1>24

-----------------------------------------------------------------------------
\* At launch nothing is there, and the extent and the histogram are asked for.
LEMMA InitStep == ASSUME Init PROVE IInv
<1>1. PICK f \in Filter : f = CHOOSE g \in Filter : TRUE BY StartAssumption
<1>2. PICK a : a =
        [page |-> "map", phase |-> "loading", extent |-> None,
         start |-> 0, len |-> 4, range |-> "recent", follow |-> TRUE, playing |-> FALSE,
         filter |-> f, selected |-> None, offset |-> 0, dirty |-> FALSE,
         layers |-> None, raw |-> None, anchor |-> Start, strip |-> None, detail |-> None,
         ledger |-> None, pending |-> [s \in Slot |-> None], missed |-> {}, queue |-> <<>>,
         inbox |-> 0]
  OBVIOUS
<1>3. World BY StartAssumption DEF Init, World, Stored
<1>4. a \in Apps
  <2>1. <<>> \in Seq(Slot) BY EmptySeq
  <2> QED BY <1>1, <1>2, <2>1, StartAssumption DEF Apps
<1>5. /\ a.extent = None /\ a.selected = None /\ a.queue = <<>> /\ a.anchor = Start
      /\ \A s \in Slot : a.pending[s] = None
  BY <1>2
<1>6. Queued(a)
  <2>1. \A s \in Slot : ~Asked(a.queue, s) BY <1>5, EmptySeq DEF Asked
  <2> QED BY <1>5, <2>1 DEF Queued, Waits
<1>7. Opened(a) BY <1>5 DEF Opened, Slot
<1>8. Over(a) /\ Anchored(a) BY <1>5, StartAssumption DEF Over, Anchored, Init
<1>9. Headed(a) BY <1>5 DEF Headed, Title
<1>10. Still(a) BY <1>4, <1>6, <1>7, <1>8 DEF Still
<1>11. PICK b : b = RefreshMetadata(a) OBVIOUS
<1>12. Holds(b) BY <1>3, <1>9, <1>10, <1>11, RefreshStep
<1>13. app = b BY <1>1, <1>2, <1>11 DEF Init, NewApp
<1> QED BY <1>3, <1>12, <1>13 DEF IInv

LEMMA NextStep == ASSUME IInv, [Next]_vars PROVE IInv'
<1>1. CASE Idle BY <1>1, IdleStep
<1>2. CASE Batch BY <1>2, BatchStep
<1>3. CASE CycleFails BY <1>3, FailStep
<1>4. CASE Answer BY <1>4, AnswerStep
<1>5. CASE Tick BY <1>5, TickStep
<1>6. ASSUME NEW page \in {"map", "other"}, GoTo(page) PROVE IInv' BY <1>6, GoToStep
<1>7. ASSUME NEW f \in Filter, ChangeFilter(f) PROVE IInv' BY <1>7, FilterStep
<1>8. CASE TogglePlay BY <1>8, PlayStep
<1>9. CASE Now BY <1>9, NowStep
<1>10. ASSUME NEW r \in {"recent", "full"}, SetRange(r) PROVE IInv' BY <1>10, RangeStep
<1>11. ASSUME NEW n \in Length, SetLength(n) PROVE IInv' BY <1>11, LengthStep
<1>12. ASSUME NEW start \in UNION {0 .. Total(e) : e \in Extent}, Scrub(start) PROVE IInv'
  <2>1. start \in Nat
    <3>1. PICK e \in Extent : start \in 0 .. Total(e) BY <1>12
    <3>2. Total(e) \in Nat BY ExtentAssumption DEF Total, Greatest
    <3> QED BY <3>1, <3>2
  <2> QED BY <1>12, <2>1, ScrubStep
<1>13. ASSUME NEW w \in Typed, ApplyCustomRange(w) PROVE IInv' BY <1>13, CustomStep
<1>14. ASSUME NEW c \in Cell, SelectCell(c) PROVE IInv' BY <1>14, SelectStep
<1>15. CASE ClearSelection BY <1>15, ClearStep
<1>16. ASSUME NEW off \in 0 .. Pages, TurnPage(off) PROVE IInv'
  <2>1. off \in Nat OBVIOUS
  <2> QED BY <1>16, <2>1, PageStep
<1>17. CASE UNCHANGED vars
  <2>1. World /\ Holds(app) /\ app' = app /\ UNCHANGED <<now, db>> BY <1>17 DEF IInv, vars
  <2> QED BY <2>1, Carry
<1> QED BY <1>1, <1>2, <1>3, <1>4, <1>5, <1>6, <1>7, <1>8, <1>9, <1>10, <1>11, <1>12,
           <1>13, <1>14, <1>15, <1>16, <1>17 DEF Next

\* The invariant holds in every state of every behaviour.
THEOREM TimelineInvariant == Spec => []IInv
<1>1. Init => IInv BY InitStep
<1>2. IInv /\ [Next]_vars => IInv' BY NextStep
<1> QED BY <1>1, <1>2, PTL DEF Spec

-----------------------------------------------------------------------------
\* Once settled, nothing is due.
LEMMA SettledShows ==
  ASSUME IInv, Settled
  PROVE  /\ ~Due(app) /\ app.extent # None
         /\ \A s \in Wanted(app) : s \notin app.missed =>
              /\ Seen(app, s) # None /\ Fits(app, s, Seen(app, s).query)
              /\ Seen(app, s).ver = db.ver
<1>1. \A s \in Slot : app.pending[s] = None BY DEF Settled
<1>2. ~Due(app) /\ app.extent # None
  BY <1>1 DEF Settled, Due, IngestDue, ExtentDue, Slot
<1>3. ASSUME NEW s \in Wanted(app) PROVE Right(app, s) /\ app.pending[s] = None
  <2>1. s \in Slot BY DEF Wanted, Pane, Inspector, Slot
  <2> QED BY <1>1, <1>2, <2>1 DEF IInv, Holds, Current
<1> QED BY <1>2, <1>3 DEF Right

\* Once every command has its answer, the layers show the window and the filters
\* on the screen, and the strip the reach, from the events as last stored
\* (poll_async, fire_queries, rebuild_histogram).
THEOREM TimelineMapIsCurrent == Spec => []MapIsCurrent
<1>1. ASSUME IInv PROVE MapIsCurrent
  <2>1. SUFFICES ASSUME Settled
        PROVE  /\ "layers" \notin app.missed
                  => /\ app.layers.ver = db.ver /\ app.layers.query.filter = app.filter
                     /\ InReach(app.layers.query) => app.layers.query.win = Window(app)
               /\ "histogram" \notin app.missed
                  => /\ app.strip.ver = db.ver
                     /\ Since(app.strip.now) => app.strip.reach = Reach(app)
    BY DEF MapIsCurrent
  <2>2. "layers" \in Wanted(app) BY DEF Wanted, Pane
  <2>3. Seen(app, "layers") = app.layers BY DEF Seen
  <2>4. "layers" \notin app.missed =>
          Fits(app, "layers", app.layers.query) /\ app.layers.ver = db.ver
    BY <1>1, <2>1, <2>2, <2>3, SettledShows
  <2>5. \A q : InReach(q) <=> Within(app, q) BY DEF InReach, Since, Within, SinceOf
  <2>6. Over(app) /\ Counted(app) /\ Opened(app) BY <1>1 DEF IInv, Holds, Kept, Still
  <2>7. ~IngestDue(app) /\ app.extent # None BY <1>1, <2>1, SettledShows DEF Due
  <2>8. db.extent # None BY <2>6, <2>7 DEF Opened
  <2>9. "histogram" \notin app.missed => ~HistogramDue(app)
    BY <2>1 DEF Settled, HistogramDue, Slot
  <2>10. "histogram" \notin app.missed => app.strip.ver = db.ver
    BY <2>6, <2>7, <2>8, <2>9 DEF Over, Counted
  <2>11. Since(app.strip.now) => app.strip.reach = Reach(app)
    BY <2>6, <2>7 DEF Over, Since, SinceOf
  <2> QED BY <2>4, <2>5, <2>10, <2>11 DEF Fits
<1> QED BY <1>1, TimelineInvariant, PTL

\* The inspector shows nothing of a cell under another's heading, and once every
\* command has its answer it shows the window and the page of the ledger on the
\* screen (select_cell, fire_region_queries, set_ledger_offset).
THEOREM TimelineInspectorIsCurrent == Spec => []InspectorIsCurrent
<1>1. ASSUME IInv PROVE InspectorIsCurrent
  <2>1. SUFFICES ASSUME app.selected # None
        PROVE  /\ app.detail # None => app.detail.query.cell = app.selected
               /\ app.ledger # None => app.ledger.query.cell = app.selected
               /\ Settled /\ "detail" \notin app.missed
                  => /\ app.detail.ver = db.ver
                     /\ InReach(app.detail.query) => app.detail.query.win = Window(app)
               /\ Settled /\ "ledger" \notin app.missed
                  => /\ app.ledger.ver = db.ver /\ app.ledger.query.off = app.offset
                     /\ InReach(app.ledger.query) => app.ledger.query.win = Window(app)
    BY DEF InspectorIsCurrent
  <2>2. Seen(app, "detail") = app.detail /\ Seen(app, "ledger") = app.ledger BY DEF Seen
  <2>3. Title(app, "detail") /\ Title(app, "ledger")
    BY <1>1 DEF IInv, Holds, Headed, Inspector
  <2>4. /\ app.detail # None => app.detail.query.cell = app.selected
        /\ app.ledger # None => app.ledger.query.cell = app.selected
    BY <2>1, <2>2, <2>3 DEF Title
  <2>5. "detail" \in Wanted(app) /\ "ledger" \in Wanted(app)
    BY <2>1 DEF Wanted, Pane, Inspector
  <2>6. \A q : InReach(q) <=> Within(app, q) BY DEF InReach, Since, Within, SinceOf
  <2>7. Settled /\ "detail" \notin app.missed =>
          Fits(app, "detail", app.detail.query) /\ app.detail.ver = db.ver
    BY <1>1, <2>2, <2>5, SettledShows
  <2>8. Settled /\ "ledger" \notin app.missed =>
          Fits(app, "ledger", app.ledger.query) /\ app.ledger.ver = db.ver
    BY <1>1, <2>2, <2>5, SettledShows
  <2> QED BY <2>4, <2>6, <2>7, <2>8 DEF Fits
<1> QED BY <1>1, TimelineInvariant, PTL

\* A window that follows, in the bucket it was placed in, holds the clock
\* (sync_window_to_now in every refresh, resize and change of the reach).
THEOREM TimelineFollowsNow == Spec => []FollowsNow
<1>1. ASSUME IInv PROVE FollowsNow
  <2>1. SUFFICES ASSUME Settled, app.follow, "layers" \notin app.missed, app.anchor = now,
                        Reach(app)[1] <= now, now < Reach(app)[2]
        PROVE  app.layers.query.win[1] <= now /\ now < app.layers.query.win[2]
    BY DEF FollowsNow
  <2>2. app \in Apps /\ World /\ Anchored(app) BY <1>1 DEF IInv, Holds, Kept, Still
  <2>3. app.extent # None BY <2>1 DEF Settled
  <2>4. app.layers.query.win = Window(app)
    <3>1. "layers" \in Wanted(app) /\ Seen(app, "layers") = app.layers
      BY DEF Wanted, Pane, Seen
    <3> QED BY <1>1, <2>1, <3>1, SettledShows DEF Fits
  <2>5. app.start = Placed(app) BY <2>1, <2>2, <2>3 DEF Anchored
  <2>6. PICK f \in Int, e \in Int : Reach(app)[1] = f /\ Reach(app)[2] = e
    BY <2>2, <2>3, Spans
  <2>7. now \in Int BY <2>2 DEF World
  <2>8. Total(Reach(app)) = e - f BY <2>1, <2>6, <2>7 DEF Total, Greatest
  <2>9. PICK w \in 1 .. e - f : w = Width(app) BY <2>2, <2>3, <2>8, Spans
  <2>10. MaxStart(app) = e - f - w BY <2>2, <2>3, <2>8, <2>9, Spans
  <2>11. PICK s \in Nat : s = app.start BY <2>2 DEF Apps
  <2>12. s = Clamp(now + 1 - w - f, 0, e - f - w)
    BY <2>5, <2>6, <2>9, <2>10, <2>11 DEF Placed
  <2>13. f + s <= now /\ now < f + s + w
    BY <2>1, <2>6, <2>7, <2>9, <2>12 DEF Clamp, Greatest, Least
  <2>14. Window(app) = <<f + s, f + s + w>> BY <2>6, <2>9, <2>11 DEF Window
  <2> QED BY <2>4, <2>13, <2>14
<1> QED BY <1>1, TimelineInvariant, PTL
=============================================================================
