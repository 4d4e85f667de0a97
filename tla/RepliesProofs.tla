---------------------------- MODULE RepliesProofs ---------------------------
(***************************************************************************)
(* Two workers of the desktop whose answers come when they come.           *)
(*                                                                         *)
(* The digest worker: however days are selected, digests started and       *)
(* abandoned, and whatever fails, one paid call is in flight at a time and *)
(* nothing is shown under another day's heading: for every set of days and *)
(* every bound.                                                            *)
(*                                                                         *)
(* The tile worker: whatever the user pans to, no request leaves during a  *)
(* cooldown or inside a tile's back-off, for every set of tiles, every     *)
(* view and every limit.                                                   *)
(***************************************************************************)
EXTENDS DigestPage, Tiles, SequenceTheorems, TLAPS

-----------------------------------------------------------------------------
\* The invariant.

Digests == [day : Day \cup {None}, ver : Nat]
Slots == [st : {"none", "waiting", "ok", "err"}, ans : Digests]
Commands == [op : {"days", "load", "facts", "store"}, day : Day \cup {None}, ver : Nat,
             live : BOOLEAN]
Pages == [day : Day \cup {None}, digest : Digests, error : BOOLEAN, generating : Day \cup {None},
          load : Slots, facts : Slots, listing : {"none", "waiting", "ok"},
          listed : SUBSET Day, loaded : BOOLEAN, marks : SUBSET Day]

TypeOK ==
  /\ page \in Pages /\ cached \in [Day -> Nat]
  /\ queue \in Seq(Commands) /\ jobs \in Seq(Day) /\ rx \in Seq([day : Day, ver : Nat])
  /\ calls \in Nat /\ faults \in Nat

Live(c, op) == c.live /\ c.op = op

\* What the storage actor is asked of a day names one.
Named(q) == \A i \in 1 .. Len(q) : q[i].op # "days" => q[i].day \in Day

\* The page knows of the call in flight, and asks for no facts meanwhile.
InFlight ==
  /\ page.generating = None => Len(jobs) + Len(rx) = 0
  /\ page.generating # None => Len(jobs) + Len(rx) = 1 /\ page.facts = Empty

\* One query for facts is answered, and only while the page waits for it; what
\* it brings names the day the call is for.
OneQuery(q, p) ==
  /\ \A i \in 1 .. Len(q) : Live(q[i], "facts") => p.facts = Waiting
  /\ \A i, j \in 1 .. Len(q) : Live(q[i], "facts") /\ Live(q[j], "facts") => i = j
  /\ p.facts.st = "ok" => p.facts.ans.day \in Day

\* What is shown, what has come and what is still asked for are of the day.
OfTheDay(q, p) ==
  /\ p.digest # NoDigest => p.digest.day = p.day
  /\ p.load.ans # NoDigest => p.load.ans.day = p.day
  /\ \A i \in 1 .. Len(q) : Live(q[i], "load") => q[i].day = p.day

Kept(q, p) == Named(q) /\ OneQuery(q, p) /\ OfTheDay(q, p)

IInv == TypeOK /\ InFlight /\ Kept(queue, page)

-----------------------------------------------------------------------------
\* Dropping a reply takes the answer from its commands and leaves the rest.
LEMMA Drops ==
  ASSUME NEW q \in Seq(Commands), NEW op, NEW r, r = Dropped(q, op)
  PROVE  /\ r \in Seq(Commands) /\ Len(r) = Len(q)
         /\ \A i \in 1 .. Len(q) :
              /\ r[i].op = q[i].op /\ r[i].day = q[i].day
              /\ r[i].live => q[i].live /\ q[i].op # op
<1>1. Len(q) \in Nat /\ DOMAIN q = 1 .. Len(q) /\ \A i \in 1 .. Len(q) : q[i] \in Commands
  BY LenProperties, ElementOfSeq
<1>2. r = [i \in 1 .. Len(q) |-> IF q[i].op = op THEN [q[i] EXCEPT !.live = FALSE] ELSE q[i]]
  BY <1>1 DEF Dropped
<1>3. ASSUME NEW i \in 1 .. Len(q)
      PROVE  /\ r[i] \in Commands /\ r[i].op = q[i].op /\ r[i].day = q[i].day
             /\ r[i].live => q[i].live /\ q[i].op # op
  <2>1. PICK c \in Commands : c = q[i] BY <1>1
  <2>2. CASE c.op = op
    <3>1. r[i] = [c EXCEPT !.live = FALSE] BY <1>2, <2>1, <2>2
    <3> QED BY <2>1, <3>1 DEF Commands
  <2>3. CASE c.op # op
    <3>1. r[i] = c BY <1>2, <2>1, <2>3
    <3> QED BY <2>1, <2>3, <3>1
  <2> QED BY <2>2, <2>3
<1>4. r \in [1 .. Len(q) -> Commands] BY <1>2, <1>3
<1>5. r \in Seq(Commands) BY <1>1, <1>4
<1>6. Len(r) = Len(q) BY <1>1, <1>2
<1> QED BY <1>3, <1>5, <1>6

\* Dropping a reply leaves the queue in order.
LEMMA DropKeeps ==
  ASSUME NEW q \in Seq(Commands), NEW op, NEW p, Kept(q, p)
  PROVE  Dropped(q, op) \in Seq(Commands) /\ Kept(Dropped(q, op), p)
<1>1. PICK r : r = Dropped(q, op) OBVIOUS
<1>2. /\ r \in Seq(Commands) /\ Len(r) = Len(q)
      /\ \A i \in 1 .. Len(q) :
           r[i].op = q[i].op /\ r[i].day = q[i].day /\ (r[i].live => q[i].live)
  BY <1>1, Drops
<1>3. Named(r) BY <1>2 DEF Kept, Named
<1>4. OneQuery(r, p) BY <1>2 DEF Kept, OneQuery, Live
<1>5. OfTheDay(r, p) BY <1>2 DEF Kept, OfTheDay, Live
<1> QED BY <1>1, <1>2, <1>3, <1>4, <1>5 DEF Kept

\* A command at the end of the queue.
LEMMA Appended ==
  ASSUME NEW q \in Seq(Commands), NEW c \in Commands, NEW r, r = Append(q, c)
  PROVE  /\ r \in Seq(Commands) /\ Len(q) \in Nat
         /\ \A i \in 1 .. Len(r) :
              (i \in 1 .. Len(q) /\ r[i] = q[i]) \/ (i = Len(q) + 1 /\ r[i] = c)
<1>1. /\ r \in Seq(Commands) /\ Len(r) = Len(q) + 1 /\ r[Len(q) + 1] = c
      /\ \A i \in 1 .. Len(q) : r[i] = q[i]
  BY AppendProperties
<1>2. Len(q) \in Nat BY LenProperties
<1> QED BY <1>1, <1>2

\* So does a command, other than a query for facts, that names the day it is of.
LEMMA AppendKeeps ==
  ASSUME NEW q \in Seq(Commands), NEW p, Kept(q, p), NEW c \in Commands, ~Live(c, "facts"),
         c.op # "days" => c.day \in Day, Live(c, "load") => c.day = p.day
  PROVE  Append(q, c) \in Seq(Commands) /\ Kept(Append(q, c), p)
<1>1. PICK r : r = Append(q, c) OBVIOUS
<1>2. /\ r \in Seq(Commands)
      /\ \A i \in 1 .. Len(r) : (i \in 1 .. Len(q) /\ r[i] = q[i]) \/ r[i] = c
  BY <1>1, Appended
<1>3. Named(r) BY <1>2 DEF Kept, Named
<1>4. OneQuery(r, p) BY <1>2 DEF Kept, OneQuery
<1>5. OfTheDay(r, p) BY <1>2 DEF Kept, OfTheDay
<1> QED BY <1>1, <1>2, <1>3, <1>4, <1>5 DEF Kept

\* The commands of the page.
LEMMA Asking ==
  ASSUME NEW op \in {"days", "load", "facts", "store"},
         NEW day \in Day \cup {None}, NEW ver \in Nat,
         NEW c, c = Cmd(op, day, ver)
  PROVE  c \in Commands /\ c.op = op /\ c.day = day /\ c.live
BY DEF Cmd, Commands

\* Nothing is asked for at the start.
LEMMA InitInvariant == Init => IInv
<1> SUFFICES ASSUME Init PROVE IInv OBVIOUS
<1>1. /\ page = PageInit /\ cached \in [Day -> {None}] /\ queue = <<>> /\ jobs = <<>> /\ rx = <<>>
      /\ calls = 0 /\ faults = 0
  BY DEF Init
<1>2. PageInit \in Pages /\ PageInit.digest = NoDigest /\ PageInit.generating = None
      /\ PageInit.facts = Empty /\ PageInit.load = Empty
  BY DEF PageInit, Pages, Slots, Digests, None, NoDigest, Empty
<1>3. TypeOK
  <2>1. cached \in [Day -> Nat] BY <1>1 DEF None
  <2> QED BY <1>1, <1>2, <2>1 DEF TypeOK
<1>4. Empty.st # "ok" /\ Empty.ans = NoDigest BY DEF Empty
<1>5. InFlight BY <1>1, <1>2 DEF InFlight
<1>6. Kept(queue, page)
  BY <1>1, <1>2, <1>4 DEF Kept, Named, OneQuery, OfTheDay
<1> QED BY <1>3, <1>5, <1>6 DEF IInv

\* The list of days is asked for.
LEMMA EnterPageStep == IInv /\ EnterPage => IInv'
<1> SUFFICES ASSUME IInv, EnterPage PROVE IInv' OBVIOUS
<1>0. PICK c : c = Cmd("days", None, None) OBVIOUS
<1>1. /\ page' = [page EXCEPT !.listing = "waiting"] /\ queue' = Append(queue, c)
      /\ UNCHANGED <<cached, jobs, rx, calls, faults>>
  BY <1>0 DEF EnterPage
<1>2. page \in Pages /\ queue \in Seq(Commands) BY DEF IInv, TypeOK
<1>3. c \in Commands /\ c.op = "days" BY <1>0, Asking DEF None
<1>4. /\ page' \in Pages /\ page'.day = page.day /\ page'.digest = page.digest
      /\ page'.generating = page.generating /\ page'.load = page.load /\ page'.facts = page.facts
  BY <1>1, <1>2 DEF Pages
<1>5. queue' \in Seq(Commands) /\ Kept(queue', page)
  BY <1>1, <1>2, <1>3, AppendKeeps DEF IInv, Live
<1>6. Kept(queue', page') BY <1>4, <1>5 DEF Kept, OneQuery, OfTheDay
<1>7. TypeOK' BY <1>1, <1>4, <1>5 DEF IInv, TypeOK
<1>8. InFlight' BY <1>1, <1>4 DEF IInv, InFlight
<1> QED BY <1>6, <1>7, <1>8 DEF IInv

\* Another day: the answers on their way for the last one go nowhere.
LEMMA SelectDayStep == ASSUME IInv, NEW d \in Day, SelectDay(d) PROVE IInv'
<1>0. PICK c : c = Cmd("load", d, None) OBVIOUS
<1>a. PICK p : p = page' OBVIOUS
<1>1. /\ page' = [page EXCEPT !.day = d, !.digest = NoDigest, !.error = FALSE,
                              !.load = Waiting, !.facts = Empty]
      /\ queue' = Append(Dropped(Dropped(queue, "load"), "facts"), c)
      /\ UNCHANGED <<cached, jobs, rx, calls, faults>>
  BY <1>0 DEF SelectDay
<1>2. page \in Pages /\ queue \in Seq(Commands) BY DEF IInv, TypeOK
<1>3. c \in Commands /\ c.op = "load" /\ c.day = d BY <1>0, Asking DEF None
<1>4. /\ p \in Pages /\ p.day = d /\ p.digest = NoDigest
      /\ p.generating = page.generating /\ p.load = Waiting /\ p.facts = Empty
  <2>1. NoDigest \in Digests /\ Waiting \in Slots /\ Empty \in Slots
    BY DEF Digests, Slots, NoDigest, Waiting, Empty, None
  <2> QED BY <1>a, <1>1, <1>2, <2>1 DEF Pages
<1>5. PICK q : q = Dropped(queue, "load") OBVIOUS
<1>6. PICK r : r = Dropped(q, "facts") OBVIOUS
<1>7. /\ q \in Seq(Commands) /\ Len(q) = Len(queue)
      /\ \A i \in 1 .. Len(queue) : q[i].op = queue[i].op /\ q[i].day = queue[i].day
                                    /\ (q[i].live => queue[i].op # "load")
  BY <1>2, <1>5, Drops
<1>8. /\ r \in Seq(Commands) /\ Len(r) = Len(q)
      /\ \A i \in 1 .. Len(q) : r[i].op = q[i].op /\ r[i].day = q[i].day
                                /\ (r[i].live => q[i].live /\ q[i].op # "facts")
  BY <1>7, <1>6, Drops
<1>9. Kept(r, p)
  <2>1. Named(r) BY <1>7, <1>8 DEF IInv, Kept, Named
  <2>2. \A i \in 1 .. Len(r) : ~Live(r[i], "facts") /\ ~Live(r[i], "load")
    BY <1>7, <1>8 DEF Live
  <2>3. Empty.st # "ok" /\ Waiting.ans = NoDigest BY DEF Empty, Waiting
  <2>4. OneQuery(r, p) BY <1>4, <2>2, <2>3 DEF OneQuery
  <2>5. OfTheDay(r, p) BY <1>4, <2>2, <2>3 DEF OfTheDay
  <2> QED BY <2>1, <2>4, <2>5 DEF Kept
<1>10. queue' \in Seq(Commands) /\ Kept(queue', page')
  <2>1. ~Live(c, "facts") BY <1>3 DEF Live
  <2>2. Append(r, c) \in Seq(Commands) /\ Kept(Append(r, c), p)
    BY <1>3, <1>4, <1>8, <1>9, <2>1, AppendKeeps
  <2> QED BY <1>a, <1>1, <1>5, <1>6, <2>2
<1>11. TypeOK' BY <1>a, <1>1, <1>4, <1>10 DEF IInv, TypeOK
<1>12. InFlight' BY <1>a, <1>1, <1>4 DEF IInv, InFlight
<1> QED BY <1>10, <1>11, <1>12 DEF IInv

\* A digest is asked for: nothing was in flight, and nothing is yet.
LEMMA StartDigestStep == IInv /\ StartDigest => IInv'
<1> SUFFICES ASSUME IInv, StartDigest PROVE IInv' OBVIOUS
<1>0. PICK c : c = Cmd("facts", page.day, None) OBVIOUS
<1>a. PICK p : p = page' OBVIOUS
<1>1. /\ page.day # None /\ page.generating = None /\ page.facts = Empty
      /\ page' = [page EXCEPT !.error = FALSE, !.facts = Waiting]
      /\ queue' = Append(queue, c)
      /\ UNCHANGED <<cached, jobs, rx, calls, faults>>
  BY <1>0 DEF StartDigest, Busy
<1>2. page \in Pages /\ queue \in Seq(Commands) /\ page.day \in Day
  BY <1>1 DEF IInv, TypeOK, Pages
<1>3. c \in Commands /\ c.op = "facts" /\ c.day \in Day BY <1>0, <1>2, Asking DEF None
<1>4. /\ p \in Pages /\ p.day = page.day /\ p.digest = page.digest
      /\ p.generating = page.generating /\ p.load = page.load /\ p.facts = Waiting
  <2>1. Waiting \in Slots BY DEF Digests, Slots, NoDigest, Waiting, None
  <2> QED BY <1>a, <1>1, <1>2, <2>1 DEF Pages
<1>5. PICK r : r = queue' OBVIOUS
<1>6. /\ r \in Seq(Commands) /\ Len(queue) \in Nat
      /\ \A i \in 1 .. Len(r) : \/ i \in 1 .. Len(queue) /\ r[i] = queue[i]
                                \/ i = Len(queue) + 1 /\ r[i] = c
  BY <1>1, <1>2, <1>3, <1>5, Appended
<1>7. \A i \in 1 .. Len(queue) : ~Live(queue[i], "facts")
  <2>1. Empty # Waiting BY DEF Empty, Waiting
  <2> QED BY <1>1, <2>1 DEF IInv, Kept, OneQuery
<1>8. Kept(r, p)
  <2>1. Named(r) BY <1>3, <1>6 DEF IInv, Kept, Named
  <2>2. \A i \in 1 .. Len(r) : Live(r[i], "facts") => i = Len(queue) + 1 BY <1>6, <1>7
  <2>3. OneQuery(r, p)
    <3>1. Waiting.st # "ok" BY DEF Waiting
    <3> QED BY <1>4, <2>2, <3>1 DEF OneQuery
  <2>4. OfTheDay(r, p) BY <1>3, <1>4, <1>6 DEF IInv, Kept, OfTheDay, Live
  <2> QED BY <2>1, <2>3, <2>4 DEF Kept
<1>9. TypeOK' BY <1>a, <1>1, <1>4, <1>5, <1>6 DEF IInv, TypeOK
<1>10. InFlight' BY <1>a, <1>1, <1>4 DEF IInv, InFlight
<1> QED BY <1>a, <1>5, <1>8, <1>9, <1>10 DEF IInv

-----------------------------------------------------------------------------
\* A frame.

\* What a message of the worker makes of the page and the queue.
LEMMA OnMessageKeeps ==
  ASSUME NEW p \in Pages, NEW q \in Seq(Commands), Kept(q, p), NEW m \in [day : Day, ver : Nat],
         NEW r, r = OnMessage([page |-> p, queue |-> q], m)
  PROVE  /\ r.page \in Pages /\ r.queue \in Seq(Commands) /\ Kept(r.queue, r.page)
         /\ r.page.generating = None /\ r.page.facts = p.facts
<1>0. m.day \in Day /\ m.ver \in Nat OBVIOUS
<1>1. CASE m.ver = None
  <2>1. PICK e \in BOOLEAN : e = (p.error \/ p.day = m.day) BY DEF Pages
  <2>2. PICK n : n = [p EXCEPT !.generating = None, !.error = e] OBVIOUS
  <2>3. r.page = n /\ r.queue = q BY <1>1, <2>1, <2>2 DEF OnMessage
  <2>4. /\ n \in Pages /\ n.generating = None /\ n.facts = p.facts /\ n.day = p.day
        /\ n.digest = p.digest /\ n.load = p.load
    BY <2>2 DEF Pages
  <2>5. Kept(q, n) BY <2>4 DEF Kept, OneQuery, OfTheDay
  <2> QED BY <2>3, <2>4, <2>5
<1>2. CASE m.ver # None
  <2>1. PICK g : g = IF p.day = m.day THEN m ELSE p.digest OBVIOUS
  <2>2. PICK n : n = [p EXCEPT !.generating = None, !.listing = "waiting", !.digest = g] OBVIOUS
  <2>3. PICK a : a = Cmd("store", m.day, m.ver) OBVIOUS
  <2>4. PICK b : b = Cmd("days", None, None) OBVIOUS
  <2>5. PICK t : t = Dropped(q, "days") OBVIOUS
  <2>6. r.page = n /\ r.queue = t \o <<a, b>> BY <1>2, <2>1, <2>2, <2>3, <2>4, <2>5 DEF OnMessage
  <2>7. a \in Commands /\ a.op = "store" /\ a.day = m.day /\ b \in Commands /\ b.op = "days"
    BY <1>0, <2>3, <2>4, Asking DEF None
  <2>8. g \in Digests /\ (g # NoDigest => g.day = p.day)
    <3>1. p.digest \in Digests /\ m \in Digests BY DEF Pages, Digests
    <3>2. p.digest # NoDigest => p.digest.day = p.day BY DEF Kept, OfTheDay
    <3> QED BY <2>1, <3>1, <3>2
  <2>9. /\ n \in Pages /\ n.generating = None /\ n.facts = p.facts /\ n.day = p.day
        /\ n.digest = g /\ n.load = p.load
    BY <2>2, <2>8 DEF Pages
  <2>10. t \in Seq(Commands) /\ Kept(t, p) BY <2>5, DropKeeps
  <2>11. Kept(t, n) BY <2>8, <2>9, <2>10 DEF Kept, OneQuery, OfTheDay
  <2>12. PICK u : u = Append(t, a) OBVIOUS
  <2>13. u \in Seq(Commands) /\ Kept(u, n)
    BY <1>0, <2>7, <2>10, <2>11, <2>12, AppendKeeps DEF Live
  <2>14. Append(u, b) \in Seq(Commands) /\ Kept(Append(u, b), n)
    BY <2>7, <2>13, AppendKeeps DEF Live
  <2>15. t \o <<a, b>> = Append(u, b)
    <3>1. u = t \o <<a>> BY <2>7, <2>10, <2>12, AppendIsConcat
    <3>2. Append(u, b) = u \o <<b>> BY <2>7, <2>13, AppendIsConcat
    <3>3. <<a>> \in Seq(Commands) /\ <<b>> \in Seq(Commands) BY <2>7
    <3>4. (t \o <<a>>) \o <<b>> = t \o (<<a>> \o <<b>>) BY <2>10, <3>3, ConcatAssociative
    <3>5. <<a>> \o <<b>> = <<a, b>>
      <4>1. <<a>> \o <<b>> = Append(<<a>>, b) BY <2>7, <3>3, AppendIsConcat
      <4>2. PICK v, w : v = Append(<<a>>, b) /\ w = <<a, b>> OBVIOUS
      <4>3. v \in Seq(Commands) /\ Len(v) = 2 /\ v[1] = a /\ v[2] = b
        <5>1. <<a>> \in Seq(Commands) /\ Len(<<a>>) = 1 /\ <<a>>[1] = a BY <2>7
        <5>2. PICK t1 \in Seq(Commands) : t1 = <<a>> /\ Len(t1) = 1 /\ t1[1] = a BY <5>1
        <5>3. v = Append(t1, b) BY <4>2, <5>2
        <5> QED BY <2>7, <5>2, <5>3, AppendProperties
      <4>4. w \in Seq(Commands) /\ Len(w) = 2 /\ w[1] = a /\ w[2] = b BY <2>7, <4>2
      <4>5. \A i \in 1 .. Len(v) : v[i] = w[i] BY <4>3, <4>4
      <4>6. v = w BY <4>3, <4>4, <4>5, SeqEqual
      <4> QED BY <4>1, <4>2, <4>6
    <3> QED BY <3>1, <3>2, <3>4, <3>5
  <2> QED BY <2>6, <2>9, <2>14, <2>15
<1> QED BY <1>1, <1>2

\* The messages taken in a frame: one at most has come.
LEMMA ReceivedIs ==
  ASSUME IInv
  PROVE  /\ Received.page \in Pages /\ Received.queue \in Seq(Commands)
         /\ Kept(Received.queue, Received.page) /\ Received.page.facts = page.facts
         /\ rx # <<>> => Received.page.generating = None /\ page.generating # None
                         /\ jobs = <<>>
         /\ rx = <<>> => Received.page = page
<1>1. /\ page \in Pages /\ queue \in Seq(Commands) /\ Kept(queue, page)
      /\ rx \in Seq([day : Day, ver : Nat]) /\ jobs \in Seq(Day)
  BY DEF IInv, TypeOK
<1>2. Len(rx) \in Nat /\ Len(jobs) \in Nat BY <1>1, LenProperties
<1>3. PICK b : b = [page |-> page, queue |-> queue] OBVIOUS
<1>4. CASE rx = <<>>
  <2>1. Len(rx) = 0 BY <1>4
  <2>2. [n \in 0 .. 0 |-> b] = [n \in 0 .. 0 |-> IF n = 0 THEN b
                                 ELSE OnMessage([i \in 0 .. 0 |-> b][n - 1], rx[n])]
    OBVIOUS
  <2> DEFINE Is(f) == f = [n \in 0 .. Len(rx) |-> IF n = 0 THEN b ELSE OnMessage(f[n - 1], rx[n])]
  <2>3. Is([n \in 0 .. 0 |-> b]) BY <2>1, <2>2
  <2>4. PICK f : f = CHOOSE g : Is(g) OBVIOUS
  <2>5. Is(f) BY <2>3, <2>4
  <2>6. Received = f[0] BY <1>3, <2>1, <2>4 DEF Received
  <2>7. f[0] = b BY <2>1, <2>5
  <2> QED BY <1>1, <1>3, <1>4, <2>6, <2>7
<1>5. CASE rx # <<>>
  <2>1. Len(rx) = 1 /\ Len(jobs) = 0 /\ page.generating # None
    <3>1. Len(rx) # 0 BY <1>1, <1>5, EmptySeq
    <3>2. /\ page.generating = None => Len(jobs) + Len(rx) = 0
          /\ page.generating # None => Len(jobs) + Len(rx) = 1
      BY DEF IInv, InFlight
    <3>3. page.generating # None BY <1>2, <3>1, <3>2
    <3>4. Len(jobs) + Len(rx) = 1 BY <3>2, <3>3
    <3>5. \A k, n \in Nat : k + n = 1 /\ n # 0 => n = 1 /\ k = 0 OBVIOUS
    <3>6. Len(rx) = 1 /\ Len(jobs) = 0 BY <1>2, <3>1, <3>4, <3>5
    <3> QED BY <3>3, <3>6
  <2>2. PICK m \in [day : Day, ver : Nat] : m = rx[1]
    <3>1. 1 \in 1 .. Len(rx) BY <2>1
    <3>2. rx[1] \in [day : Day, ver : Nat] BY <1>1, <3>1, ElementOfSeq
    <3> QED BY <3>2
  <2>3. PICK h : h = [n \in 0 .. 1 |-> IF n = 0 THEN b ELSE OnMessage(b, m)] OBVIOUS
  <2> DEFINE Is(f) == f = [n \in 0 .. Len(rx) |-> IF n = 0 THEN b ELSE OnMessage(f[n - 1], rx[n])]
  <2>4. Is(h)
    <3>1. \A n \in 0 .. 1 : n = 0 \/ (n = 1 /\ n - 1 = 0) OBVIOUS
    <3>2. h[0] = b /\ h[1] = OnMessage(b, m) BY <2>3
    <3>3. ASSUME NEW n \in 0 .. 1
          PROVE  h[n] = IF n = 0 THEN b ELSE OnMessage(h[n - 1], rx[n])
      <4>1. CASE n = 0 BY <3>2, <4>1
      <4>2. CASE n = 1
        <5>1. h[n - 1] = b /\ rx[n] = m BY <2>2, <3>2, <4>2
        <5> QED BY <3>2, <4>2, <5>1
      <4> QED BY <3>1, <4>1, <4>2
    <3>4. h = [n \in 0 .. 1 |-> h[n]] BY <2>3
    <3> QED BY <2>1, <3>3, <3>4
  <2>5. PICK f : f = CHOOSE g : Is(g) OBVIOUS
  <2>6. Is(f) BY <2>4, <2>5
  <2>7. Received = f[1] BY <1>3, <2>1, <2>5 DEF Received
  <2>8. f[1] = OnMessage(b, m)
    <3>1. 0 \in 0 .. Len(rx) /\ 1 \in 0 .. Len(rx) /\ 1 - 1 = 0 BY <2>1
    <3>2. f[0] = b BY <2>6, <3>1
    <3>3. f[1] = OnMessage(f[1 - 1], rx[1]) BY <2>6, <3>1
    <3> QED BY <2>2, <3>1, <3>2, <3>3
  <2>9. PICK r : r = OnMessage([page |-> page, queue |-> queue], m) OBVIOUS
  <2>10. /\ r.page \in Pages /\ r.queue \in Seq(Commands) /\ Kept(r.queue, r.page)
         /\ r.page.generating = None /\ r.page.facts = page.facts
    BY <1>1, <2>2, <2>9, OnMessageKeeps
  <2>11. Received = r BY <1>3, <2>7, <2>8, <2>9
  <2>12. jobs = <<>> BY <1>1, <2>1, EmptySeq
  <2> QED BY <1>5, <2>1, <2>10, <2>11, <2>12
<1> QED BY <1>4, <1>5

\* The replies that have come.
LEMMA TakeListKeeps ==
  ASSUME NEW p \in Pages, NEW q, Kept(q, p), NEW n, n = TakeList(p)
  PROVE  n \in Pages /\ Kept(q, n) /\ n.generating = p.generating /\ n.facts = p.facts
<1>1. /\ n \in Pages /\ n.generating = p.generating /\ n.facts = p.facts /\ n.day = p.day
      /\ n.digest = p.digest /\ n.load = p.load
  BY DEF TakeList, Pages
<1> QED BY <1>1 DEF Kept, OneQuery, OfTheDay

\* What the cache holds of the day becomes what is shown.
LEMMA TakeLoadKeeps ==
  ASSUME NEW p \in Pages, NEW q, Kept(q, p), NEW n, n = TakeLoad(p)
  PROVE  n \in Pages /\ Kept(q, n) /\ n.generating = p.generating /\ n.facts = p.facts
<1>0. Empty \in Slots /\ Empty.ans = NoDigest
  BY DEF Digests, Slots, NoDigest, Empty, None
<1>a. p.load \in Slots /\ p.load.ans \in Digests BY DEF Pages, Slots
<1>1. CASE p.load.st = "ok"
  <2>1. n = [p EXCEPT !.load = Empty, !.digest = p.load.ans] BY <1>1 DEF TakeLoad
  <2>2. /\ n \in Pages /\ n.generating = p.generating /\ n.facts = p.facts /\ n.day = p.day
        /\ n.digest = p.load.ans /\ n.load = Empty
    BY <1>0, <1>a, <2>1 DEF Pages
  <2> QED BY <1>0, <2>2 DEF Kept, OneQuery, OfTheDay
<1>2. CASE p.load.st = "err"
  <2>1. n = [p EXCEPT !.load = Empty, !.error = TRUE] BY <1>2 DEF TakeLoad
  <2>2. /\ n \in Pages /\ n.generating = p.generating /\ n.facts = p.facts /\ n.day = p.day
        /\ n.digest = p.digest /\ n.load = Empty
    BY <1>0, <2>1 DEF Pages
  <2> QED BY <1>0, <2>2 DEF Kept, OneQuery, OfTheDay
<1>3. CASE p.load.st \notin {"ok", "err"}
  <2>1. n = p BY <1>3 DEF TakeLoad
  <2> QED BY <2>1
<1> QED BY <1>1, <1>2, <1>3

\* Facts that have come start the call; no query for them is left.
LEMMA TakeFactsKeeps ==
  ASSUME NEW p \in Pages, NEW q, Kept(q, p), NEW n, n = TakeFacts(p)
  PROVE  /\ n \in Pages /\ Kept(q, n)
         /\ p.facts.st = "ok" => n.generating = p.facts.ans.day /\ n.generating \in Day
                                 /\ n.facts = Empty
         /\ p.facts.st # "ok" => n.generating = p.generating
         /\ p.facts = Empty => n.facts = Empty
<1>0. Empty \in Slots /\ Empty.st = "none" /\ Waiting.st = "waiting"
  BY DEF Digests, Slots, NoDigest, Empty, Waiting, None
<1>1. CASE p.facts.st = "ok"
  <2>1. p.facts.ans.day \in Day BY <1>1 DEF Kept, OneQuery
  <2>2. n = [p EXCEPT !.facts = Empty, !.generating = p.facts.ans.day] BY <1>1 DEF TakeFacts
  <2>3. /\ n \in Pages /\ n.generating = p.facts.ans.day /\ n.facts = Empty /\ n.day = p.day
        /\ n.digest = p.digest /\ n.load = p.load
    BY <1>0, <2>1, <2>2 DEF Pages
  <2>4. p.facts # Waiting BY <1>0, <1>1
  <2> QED BY <1>0, <1>1, <2>1, <2>3, <2>4 DEF Kept, OneQuery, OfTheDay
<1>2. CASE p.facts.st = "err"
  <2>1. n = [p EXCEPT !.facts = Empty, !.error = TRUE] BY <1>2 DEF TakeFacts
  <2>2. /\ n \in Pages /\ n.generating = p.generating /\ n.facts = Empty /\ n.day = p.day
        /\ n.digest = p.digest /\ n.load = p.load
    BY <1>0, <2>1 DEF Pages
  <2>3. p.facts # Waiting BY <1>0, <1>2
  <2> QED BY <1>0, <1>2, <2>2, <2>3 DEF Kept, OneQuery, OfTheDay
<1>3. CASE p.facts.st \notin {"ok", "err"}
  <2>1. n = p BY <1>3 DEF TakeFacts
  <2> QED BY <1>3, <2>1
<1> QED BY <1>1, <1>2, <1>3

\* A frame: a call ends or begins, and never both.
LEMMA PollStep == IInv /\ Poll => IInv'
<1> SUFFICES ASSUME IInv, Poll PROVE IInv' OBVIOUS
<1>0. PICK a, g : a = Received.page /\ g = Received.queue OBVIOUS
<1>1. PICK b : b = TakeList(a) OBVIOUS
<1>2. PICK c : c = TakeLoad(b) OBVIOUS
<1>3. PICK d : d = TakeFacts(c) OBVIOUS
<1>4. /\ page' = d /\ queue' = g /\ rx' = <<>>
      /\ jobs' = IF a.facts.st = "ok" THEN Append(jobs, a.facts.ans.day) ELSE jobs
      /\ UNCHANGED <<cached, calls, faults>>
  BY <1>0, <1>1, <1>2, <1>3 DEF Poll
<1>5. /\ a \in Pages /\ g \in Seq(Commands) /\ Kept(g, a) /\ a.facts = page.facts
      /\ rx # <<>> => a.generating = None /\ page.generating # None /\ jobs = <<>>
      /\ rx = <<>> => a = page
  BY <1>0, ReceivedIs
<1>6. b \in Pages /\ Kept(g, b) /\ b.generating = a.generating /\ b.facts = a.facts
  BY <1>1, <1>5, TakeListKeeps
<1>7. c \in Pages /\ Kept(g, c) /\ c.generating = a.generating /\ c.facts = a.facts
  BY <1>2, <1>6, TakeLoadKeeps
<1>8. /\ d \in Pages /\ Kept(g, d)
      /\ a.facts.st = "ok" => d.generating = a.facts.ans.day /\ d.generating \in Day
                              /\ d.facts = Empty
      /\ a.facts.st # "ok" => d.generating = a.generating
      /\ a.facts = Empty => d.facts = Empty
  BY <1>3, <1>7, TakeFactsKeeps
<1>9. Empty.st # "ok" BY DEF Empty
<1>10. /\ rx \in Seq([day : Day, ver : Nat]) /\ jobs \in Seq(Day)
       /\ Len(rx) \in Nat /\ Len(jobs) \in Nat
  BY LenProperties DEF IInv, TypeOK
<1>11. /\ page.generating = None => Len(jobs) + Len(rx) = 0
       /\ page.generating # None => Len(jobs) + Len(rx) = 1 /\ page.facts = Empty
  BY DEF IInv, InFlight
<1>12. CASE a.facts.st = "ok"
  <2>1. page.generating = None BY <1>5, <1>9, <1>11, <1>12
  <2>2. jobs = <<>> /\ rx = <<>>
    <3>1. Len(jobs) = 0 /\ Len(rx) = 0 BY <1>10, <1>11, <2>1
    <3> QED BY <1>10, <3>1, EmptySeq
  <2>3. jobs' \in Seq(Day) /\ Len(jobs') = 1
    <3>1. jobs' = Append(jobs, d.generating) BY <1>4, <1>8, <1>12
    <3>2. d.generating \in Day BY <1>8, <1>12
    <3>3. jobs' \in Seq(Day) /\ Len(jobs') = Len(jobs) + 1 BY <1>10, <3>1, <3>2, AppendProperties
    <3> QED BY <2>2, <3>3
  <2>4. d.generating # None BY <1>8, <1>12, DayAssumption DEF None
  <2>5. TypeOK' BY <1>4, <1>5, <1>8, <2>3 DEF IInv, TypeOK
  <2>6. InFlight' BY <1>4, <1>8, <1>12, <2>3, <2>4 DEF InFlight
  <2> QED BY <1>4, <1>8, <2>5, <2>6 DEF IInv
<1>13. CASE a.facts.st # "ok"
  <2>1. jobs' = jobs /\ d.generating = a.generating BY <1>4, <1>8, <1>13
  <2>2. TypeOK' BY <1>4, <1>5, <1>8, <1>10, <2>1 DEF IInv, TypeOK
  <2>3. InFlight'
    <3>1. CASE rx = <<>>
      <4>1. a = page BY <1>5, <3>1
      <4> QED BY <1>4, <1>8, <1>11, <2>1, <3>1, <4>1 DEF InFlight
    <3>2. CASE rx # <<>>
      <4>1. d.generating = None /\ jobs' = <<>> BY <1>5, <2>1, <3>2
      <4>2. page'.generating = None BY <1>4, <4>1
      <4>3. jobs' = <<>> /\ rx' = <<>> BY <1>4, <4>1
      <4>4. Len(<<>>) = 0 OBVIOUS
      <4>5. Len(jobs') = 0 /\ Len(rx') = 0 BY <4>3, <4>4
      <4>6. Len(jobs') + Len(rx') = 0 BY <4>5
      <4> QED BY <4>2, <4>6 DEF InFlight
    <3> QED BY <3>1, <3>2
  <2> QED BY <1>4, <1>8, <2>2, <2>3 DEF IInv
<1> QED BY <1>12, <1>13

-----------------------------------------------------------------------------
\* The worker: the call stays in flight until its message is taken.
LEMMA WorkerStep == IInv /\ (WorkerWrites \/ WorkerFails) => IInv'
<1> SUFFICES ASSUME IInv, WorkerWrites \/ WorkerFails PROVE IInv' OBVIOUS
<1>0. jobs \in Seq(Day) /\ rx \in Seq([day : Day, ver : Nat]) /\ calls \in Nat /\ faults \in Nat
  BY DEF IInv, TypeOK
<1>1. PICK ver \in Nat :
        /\ jobs # <<>> /\ jobs' = Tail(jobs)
        /\ rx' = Append(rx, [day |-> Head(jobs), ver |-> ver])
        /\ calls' \in Nat /\ faults' \in Nat
        /\ UNCHANGED <<page, cached, queue>>
  <2>1. CASE WorkerWrites
    <3>1. calls' = calls + 1 /\ calls + 1 \in Nat BY <1>0, <2>1 DEF WorkerWrites
    <3>2. rx' = Append(rx, [day |-> Head(jobs), ver |-> calls + 1]) BY <2>1, <3>1 DEF WorkerWrites
    <3> QED BY <1>0, <2>1, <3>1, <3>2 DEF WorkerWrites
  <2>2. CASE WorkerFails
    <3>1. None \in Nat /\ faults' = faults + 1 BY <2>2 DEF None, WorkerFails
    <3> QED BY <1>0, <2>2, <3>1 DEF WorkerFails
  <2> QED BY <2>1, <2>2
<1>2. Head(jobs) \in Day /\ Tail(jobs) \in Seq(Day) /\ Len(Tail(jobs)) = Len(jobs) - 1
  BY <1>0, <1>1, HeadTailProperties
<1>3. PICK m \in [day : Day, ver : Nat] : m = [day |-> Head(jobs), ver |-> ver] BY <1>2
<1>4. rx' \in Seq([day : Day, ver : Nat]) /\ Len(rx') = Len(rx) + 1
  BY <1>0, <1>1, <1>3, AppendProperties
<1>5. TypeOK' BY <1>1, <1>2, <1>4 DEF IInv, TypeOK
<1>6. InFlight'
  <2>1. Len(jobs) \in Nat /\ Len(rx) \in Nat /\ Len(jobs') = Len(jobs) - 1
    BY <1>0, <1>1, <1>2, LenProperties
  <2>2. Len(jobs') + Len(rx') = Len(jobs) + Len(rx) BY <1>4, <2>1
  <2> QED BY <1>1, <2>2 DEF IInv, InFlight
<1> QED BY <1>1, <1>5, <1>6 DEF IInv

\* What an answer of the store puts in its slot.
LEMMA AnswerIs ==
  ASSUME page \in Pages, cached \in [Day -> Nat], NEW c \in Commands,
         c.op # "days" => c.day \in Day, NEW ok \in BOOLEAN, NEW p, p = Answer(c, ok)
  PROVE  /\ p \in Pages /\ p.day = page.day /\ p.digest = page.digest
         /\ p.generating = page.generating
         /\ ~Live(c, "facts") => p.facts = page.facts
         /\ Live(c, "facts") /\ p.facts.st = "ok" => p.facts.ans.day \in Day
         /\ ~Live(c, "load") => p.load = page.load
         /\ Live(c, "load") /\ p.load.ans # NoDigest => p.load.ans.day = c.day
<1>0. NoDigest \in Digests BY DEF NoDigest, Digests, None
<1>1. CASE ~c.live \/ c.op = "store"
  <2>1. p = page
    <3>1. CASE ~c.live BY <3>1 DEF Answer
    <3>2. CASE c.op = "store" BY <3>2 DEF Answer
    <3> QED BY <1>1, <3>1, <3>2
  <2> QED BY <1>1, <2>1 DEF Live
<1>2. CASE Live(c, "load")
  <2>1. PICK h : h = IF cached[c.day] = None THEN NoDigest
                     ELSE [day |-> c.day, ver |-> cached[c.day]]
    OBVIOUS
  <2>2. h \in Digests /\ (h # NoDigest => h.day = c.day)
    <3>1. c.day \in Day /\ cached[c.day] \in Nat BY <1>2 DEF Live
    <3> QED BY <1>0, <2>1, <3>1 DEF Digests
  <2>3. PICK s : s = IF ok THEN [st |-> "ok", ans |-> h] ELSE [st |-> "err", ans |-> NoDigest]
    OBVIOUS
  <2>4. s \in Slots /\ (s.ans # NoDigest => s.ans.day = c.day)
    BY <1>0, <2>2, <2>3 DEF Slots
  <2>5. p = [page EXCEPT !.load = s] BY <1>2, <2>1, <2>3 DEF Answer, Live
  <2>6. /\ p \in Pages /\ p.day = page.day /\ p.digest = page.digest
        /\ p.generating = page.generating /\ p.facts = page.facts /\ p.load = s
    BY <2>4, <2>5 DEF Pages
  <2>7. ~Live(c, "facts") BY <1>2 DEF Live
  <2> QED BY <1>2, <2>4, <2>6, <2>7
<1>3. CASE Live(c, "facts")
  <2>1. PICK h : h = [day |-> c.day, ver |-> None] OBVIOUS
  <2>2. h \in Digests /\ h.day \in Day
    <3>1. c.day \in Day BY <1>3 DEF Live
    <3> QED BY <2>1, <3>1 DEF Digests, None
  <2>3. PICK s : s = IF ok THEN [st |-> "ok", ans |-> h] ELSE [st |-> "err", ans |-> NoDigest]
    OBVIOUS
  <2>4. s \in Slots /\ (s.st = "ok" => s.ans.day \in Day)
    BY <1>0, <2>2, <2>3 DEF Slots
  <2>5. p = [page EXCEPT !.facts = s] BY <1>3, <2>1, <2>3 DEF Answer, Live
  <2>6. /\ p \in Pages /\ p.day = page.day /\ p.digest = page.digest
        /\ p.generating = page.generating /\ p.load = page.load /\ p.facts = s
    BY <2>4, <2>5 DEF Pages
  <2>7. ~Live(c, "load") BY <1>3 DEF Live
  <2> QED BY <1>3, <2>4, <2>6, <2>7
<1>4. CASE Live(c, "days")
  <2>1. PICK l \in SUBSET Day : l = {d \in Day : cached[d] # None} OBVIOUS
  <2>2. p = IF ok THEN [page EXCEPT !.listing = "ok", !.listed = l]
            ELSE [page EXCEPT !.listing = "none"]
    BY <1>4, <2>1 DEF Answer, Live
  <2>3. /\ p \in Pages /\ p.day = page.day /\ p.digest = page.digest
        /\ p.generating = page.generating /\ p.load = page.load /\ p.facts = page.facts
    <3>1. CASE ok
      <4>1. p = [page EXCEPT !.listing = "ok", !.listed = l] BY <2>2, <3>1
      <4> QED BY <4>1 DEF Pages
    <3>2. CASE ~ok
      <4>1. p = [page EXCEPT !.listing = "none"] BY <2>2, <3>2
      <4> QED BY <4>1 DEF Pages
    <3> QED BY <3>1, <3>2
  <2>4. ~Live(c, "load") /\ ~Live(c, "facts") BY <1>4 DEF Live
  <2> QED BY <2>3, <2>4
<1>5. c.op \in {"days", "load", "facts", "store"} BY DEF Commands
<1> QED BY <1>1, <1>2, <1>3, <1>4, <1>5 DEF Live

\* The storage actor takes the next command: its answer lands in a slot that
\* still waits for it, or nowhere.
LEMMA AnswerStep ==
  ASSUME IInv, queue # <<>>, queue' = Tail(queue), NEW ok \in BOOLEAN,
         page' = Answer(Head(queue), ok), cached' \in [Day -> Nat], faults' \in Nat,
         UNCHANGED <<jobs, rx, calls>>
  PROVE  IInv'
<1>0. PICK c, q, p : c = Head(queue) /\ q = Tail(queue) /\ p = page' OBVIOUS
<1>1. page \in Pages /\ cached \in [Day -> Nat] /\ queue \in Seq(Commands) /\ Kept(queue, page)
  BY DEF IInv, TypeOK
<1>2. /\ c = queue[1] /\ c \in Commands /\ q \in Seq(Commands) /\ Len(queue) \in Nat \ {0}
      /\ \A i \in 1 .. Len(q) : i + 1 \in 1 .. Len(queue) /\ q[i] = queue[i + 1]
  <2>1. Len(queue) \in Nat \ {0} BY <1>1, LenProperties, EmptySeq
  <2>2. /\ c = queue[1] /\ c \in Commands /\ q \in Seq(Commands) /\ Len(q) = Len(queue) - 1
        /\ \A i \in 1 .. Len(q) : q[i] = queue[i + 1]
    BY <1>0, <1>1, HeadTailProperties
  <2>3. \A i \in 1 .. Len(q) : i + 1 \in 1 .. Len(queue) BY <2>1, <2>2
  <2> QED BY <2>1, <2>2, <2>3
<1>3. 1 \in 1 .. Len(queue) BY <1>2
<1>4. c.op # "days" => c.day \in Day BY <1>1, <1>2, <1>3 DEF Kept, Named
<1>5. /\ p \in Pages /\ p.day = page.day /\ p.digest = page.digest
      /\ p.generating = page.generating
      /\ ~Live(c, "facts") => p.facts = page.facts
      /\ Live(c, "facts") /\ p.facts.st = "ok" => p.facts.ans.day \in Day
      /\ ~Live(c, "load") => p.load = page.load
      /\ Live(c, "load") /\ p.load.ans # NoDigest => p.load.ans.day = c.day
  BY <1>0, <1>1, <1>2, <1>4, AnswerIs
<1>6. Live(c, "facts") => page.facts = Waiting /\ \A i \in 1 .. Len(q) : ~Live(q[i], "facts")
  <2> SUFFICES ASSUME Live(c, "facts")
               PROVE  page.facts = Waiting /\ \A i \in 1 .. Len(q) : ~Live(q[i], "facts")
    OBVIOUS
  <2>1. page.facts = Waiting BY <1>1, <1>2, <1>3 DEF Kept, OneQuery
  <2>2. ASSUME NEW i \in 1 .. Len(q), Live(q[i], "facts") PROVE FALSE
    <3>1. i + 1 = 1 BY <1>1, <1>2, <1>3, <2>2 DEF Kept, OneQuery
    <3> QED BY <3>1
  <2> QED BY <2>1, <2>2
<1>7. Named(q) BY <1>1, <1>2 DEF Kept, Named
<1>8. OneQuery(q, p)
  <2>1. \A i \in 1 .. Len(q) : Live(q[i], "facts") => p.facts = Waiting
    BY <1>1, <1>2, <1>5, <1>6 DEF Kept, OneQuery
  <2>2. ASSUME NEW i \in 1 .. Len(q), NEW j \in 1 .. Len(q),
               Live(q[i], "facts"), Live(q[j], "facts")
        PROVE  i = j
    <3>1. i + 1 = j + 1 BY <1>1, <1>2, <2>2 DEF Kept, OneQuery
    <3>2. i \in Int /\ j \in Int OBVIOUS
    <3> QED BY <3>1, <3>2
  <2>3. p.facts.st = "ok" => p.facts.ans.day \in Day BY <1>1, <1>5 DEF Kept, OneQuery
  <2> QED BY <2>1, <2>2, <2>3 DEF OneQuery
<1>9. OfTheDay(q, p)
  <2>1. Live(c, "load") => c.day = page.day BY <1>1, <1>2, <1>3 DEF Kept, OfTheDay
  <2>2. \A i \in 1 .. Len(q) : Live(q[i], "load") => q[i].day = p.day
    BY <1>1, <1>2, <1>5 DEF Kept, OfTheDay
  <2>3. p.load.ans # NoDigest => p.load.ans.day = p.day BY <1>1, <1>5, <2>1 DEF Kept, OfTheDay
  <2>4. p.digest # NoDigest => p.digest.day = p.day BY <1>1, <1>5 DEF Kept, OfTheDay
  <2> QED BY <2>2, <2>3, <2>4 DEF OfTheDay
<1>10. TypeOK' BY <1>0, <1>2, <1>5 DEF IInv, TypeOK
<1>11. InFlight'
  <2>1. Empty # Waiting BY DEF Empty, Waiting
  <2>2. page.generating # None => page.facts = Empty BY DEF IInv, InFlight
  <2>3. p.generating # None => p.facts = Empty BY <1>5, <1>6, <2>1, <2>2
  <2> QED BY <1>0, <1>5, <2>3 DEF IInv, InFlight
<1> QED BY <1>0, <1>7, <1>8, <1>9, <1>10, <1>11 DEF IInv, Kept

\* What a command, or its first half, leaves in the cache.
LEMMA Caches ==
  ASSUME IInv, NEW i \in 1 .. Len(queue)
  PROVE  Stored(queue[i]) \in [Day -> Nat] /\ HalfStored(queue[i]) \in [Day -> Nat]
<1>1. queue[i] \in Commands BY ElementOfSeq DEF IInv, TypeOK
<1>2. cached \in [Day -> Nat] BY DEF IInv, TypeOK
<1>3. PICK c \in Commands : c = queue[i] BY <1>1
<1>4. c.ver \in Nat /\ None \in Nat BY DEF Commands, None
<1>5. Stored(c) \in [Day -> Nat] BY <1>2, <1>4 DEF Stored
<1>6. HalfStored(c) \in [Day -> Nat] BY <1>2, <1>4 DEF HalfStored
<1> QED BY <1>3, <1>5, <1>6

\* The storage actor runs a command, or a statement of it fails.
LEMMA ActorStep == IInv /\ (ActorRuns \/ ActorFails) => IInv'
<1> SUFFICES ASSUME IInv, ActorRuns \/ ActorFails PROVE IInv' OBVIOUS
<1>1. queue # <<>> /\ queue' = Tail(queue) /\ UNCHANGED <<jobs, rx, calls>>
  BY DEF ActorRuns, ActorFails
<1>2. queue \in Seq(Commands) /\ cached \in [Day -> Nat] /\ faults \in Nat BY DEF IInv, TypeOK
<1>3. Head(queue) = queue[1] /\ 1 \in 1 .. Len(queue) BY <1>1, <1>2, LenProperties, EmptySeq
<1>4. Stored(Head(queue)) \in [Day -> Nat] /\ HalfStored(Head(queue)) \in [Day -> Nat]
  BY <1>3, Caches
<1>5. CASE ActorRuns
  <2>1. page' = Answer(Head(queue), TRUE) /\ cached' \in [Day -> Nat] /\ faults' \in Nat
    BY <1>2, <1>4, <1>5 DEF ActorRuns
  <2> QED BY <1>1, <2>1, AnswerStep
<1>6. CASE ActorFails
  <2>1. page' = Answer(Head(queue), FALSE) /\ cached' \in [Day -> Nat] /\ faults' \in Nat
    BY <1>2, <1>4, <1>6 DEF ActorFails
  <2> QED BY <1>1, <2>1, AnswerStep
<1> QED BY <1>5, <1>6

\* A crash takes every query with it.
LEMMA CrashStep == IInv /\ Crash => IInv'
<1> SUFFICES ASSUME IInv, Crash PROVE IInv' OBVIOUS
<1>1. /\ page' = PageInit /\ queue' = <<>> /\ jobs' = <<>> /\ rx' = <<>> /\ calls' = calls
      /\ faults' = faults + 1
      /\ cached' \in {cached} \cup {HalfStored(queue[i]) : i \in DOMAIN queue \cap {1}}
  BY DEF Crash
<1>2. queue \in Seq(Commands) /\ cached \in [Day -> Nat] /\ faults \in Nat /\ calls \in Nat
  BY DEF IInv, TypeOK
<1>3. cached' \in [Day -> Nat]
  <2>1. DOMAIN queue = 1 .. Len(queue) BY <1>2, LenProperties
  <2> QED BY <1>1, <1>2, <2>1, Caches
<1>4. PageInit \in Pages /\ PageInit.digest = NoDigest /\ PageInit.generating = None
      /\ PageInit.facts = Empty /\ PageInit.load = Empty
  BY DEF PageInit, Pages, Slots, Digests, None, NoDigest, Empty
<1>5. TypeOK' BY <1>1, <1>2, <1>3, <1>4 DEF TypeOK
<1>6. Empty.st # "ok" /\ Empty.ans = NoDigest BY DEF Empty
<1>7. InFlight' BY <1>1, <1>4 DEF InFlight
<1>8. Kept(queue', page')
  BY <1>1, <1>4, <1>6 DEF Kept, Named, OneQuery, OfTheDay
<1> QED BY <1>5, <1>7, <1>8 DEF IInv

\* Nothing happens.
LEMMA StutterStep == IInv /\ UNCHANGED vars => IInv'
BY DEF vars, IInv, TypeOK, InFlight

-----------------------------------------------------------------------------
\* The inductive invariant of the page, its worker and its queries.
THEOREM DigestInvariance == Spec => []IInv
<1>1. IInv /\ [Next]_vars => IInv'
  BY EnterPageStep, SelectDayStep, StartDigestStep, PollStep, WorkerStep, ActorStep, CrashStep,
     StutterStep DEF Next
<1> QED BY <1>1, InitInvariant, PTL DEF Spec

\* One paid call is in flight at a time, and the page knows of it (start_digest).
THEOREM DigestOnePaidCall == Spec => []OnePaidCall
<1>1. IInv => OnePaidCall
  <2> SUFFICES ASSUME IInv PROVE OnePaidCall OBVIOUS
  <2>1. Len(jobs) + Len(rx) \in {0, 1} BY DEF IInv, InFlight
  <2> QED BY <2>1 DEF IInv, InFlight, OnePaidCall
<1> QED BY <1>1, DigestInvariance, PTL

\* What is shown under a day's heading was written for that day
\* (select_digest_day, poll_digest).
THEOREM DigestShownUnderItsHeading == Spec => []ShownUnderItsHeading
<1>1. IInv => ShownUnderItsHeading BY DEF IInv, Kept, OfTheDay, ShownUnderItsHeading
<1> QED BY <1>1, DigestInvariance, PTL

-----------------------------------------------------------------------------
(***************************************************************************)
(* The tile worker (Tiles.tla).                                            *)
(***************************************************************************)

\* What a top-up sets off was wanted, in no back-off, and outside a cooldown.
LEMMA StartedIsReady ==
  ASSUME NEW w, NEW flying, NEW off, NEW cool, NEW t \in Started(w, flying, off, cool)
  PROVE  ~cool /\ t \notin off
BY DEF Started, Room, Ready

\* One iteration of the worker's loop: `flying` is what the finished fetch leaves
\* in flight, `off` and `cool` how its outcome leaves the back-offs.
LEMMA TopUpBacksOff ==
  ASSUME NEW flying \in SUBSET inFlight, NEW off, NEW cool, TopUp(flying, off, cool),
         NEW t \in inFlight' \ inFlight
  PROVE  ~cooldown' /\ t \notin backoff'
<1>1. t \in Started(wanted', flying, off, cool) BY DEF TopUp
<1>2. ~cool /\ t \notin off BY <1>1, StartedIsReady
<1> QED BY <1>2 DEF TopUp

\* A step that starts a fetch is an iteration of the worker's loop, and takes
\* place outside the cooldown and outside the tile's own back-off, as they are
\* after the fetch that finished has been accounted for: a tile is not retried by
\* the very step in which it failed, nor another fetched on the 429 itself.
THEOREM TilesBackOff == TilesSpec => BacksOff
<1>1. ASSUME [TilesNext]_tilesVars, NEW t \in inFlight' \ inFlight
      PROVE  ~cooldown' /\ t \notin backoff'
  <2>1. CASE \E v \in View, shown \in BOOLEAN, on \in BOOLEAN : Frame(v, shown, on)
    BY <1>1, <2>1 DEF Frame, worker
  <2>2. ASSUME NEW x \in Tile, FetchOk(x) PROVE ~cooldown' /\ t \notin backoff'
    <3>1. TopUp(inFlight \ {x}, backoff \ {x}, cooldown) BY <2>2 DEF FetchOk
    <3> QED BY <1>1, <3>1, TopUpBacksOff
  <2>3. ASSUME NEW x \in Tile, FetchLimited(x) PROVE ~cooldown' /\ t \notin backoff'
    <3>1. TopUp(inFlight \ {x}, backoff, TRUE) BY <2>3 DEF FetchLimited
    <3> QED BY <1>1, <3>1, TopUpBacksOff
  <2>4. ASSUME NEW x \in Tile, FetchFailed(x) PROVE ~cooldown' /\ t \notin backoff'
    <3>1. TopUp(inFlight \ {x}, backoff \cup {x}, cooldown) BY <2>4 DEF FetchFailed
    <3> QED BY <1>1, <3>1, TopUpBacksOff
  <2>5. CASE SetVisible
    <3>1. TopUp(inFlight, backoff, cooldown) BY <2>5 DEF SetVisible
    <3> QED BY <1>1, <3>1, TopUpBacksOff
  <2>6. CASE CooldownElapses \/ (\E x \in Tile : BackoffElapses(x)) \/ UNCHANGED tilesVars
    BY <1>1, <2>6 DEF CooldownElapses, BackoffElapses, tilesVars, worker
  <2> QED BY <1>1, <2>1, <2>2, <2>3, <2>4, <2>5, <2>6 DEF TilesNext
<1>2. [TilesNext]_tilesVars
      => [\A t \in inFlight' \ inFlight : ~(cooldown /\ cooldown')
                                          /\ t \notin (backoff \cap backoff')]_tilesVars
  BY <1>1
<1> QED BY <1>2, PTL DEF TilesSpec, BacksOff
=============================================================================
