---------------------------- MODULE PollingProofs ---------------------------
(***************************************************************************)
(* The two loops that poll the sources.                                    *)
(*                                                                         *)
(* The desktop's ingest worker: however the switches are thrown while      *)
(* cycles are awaited, what the user last asked for is what happens and    *)
(* what is shown, and every batch reaches storage once and in order: for   *)
(* every set of sources, every choice of credentials and saved switches,   *)
(* and every bound.                                                        *)
(*                                                                         *)
(* The headless worker: LedgerHonest and TwiceOnlyInFlight hold whatever   *)
(* the dumps, the budget of a pass, the clock and the number of faults;    *)
(* and a backfill's windows tile the range they are asked for.             *)
(***************************************************************************)
EXTENDS Ingest, Worker, SequenceTheorems, FiniteSetTheorems, WellFoundedInduction, TLAPS

-----------------------------------------------------------------------------
\* The invariant.

Commands == [op : {"online"}, on : BOOLEAN] \cup [op : {"source"}, source : Source, on : BOOLEAN]
              \cup {FetchNow}
Messages == [kind : {"status"}, source : Source, line : Line] \cup [kind : {"batch"}, number : Nat]

TypeOK ==
  /\ asked \in [online : BOOLEAN, enabled : SUBSET Source] /\ appOnline \in BOOLEAN
  /\ ctl \in Seq(Commands) /\ online \in BOOLEAN /\ enabled \in SUBSET Source
  /\ next \in [Source -> {"due", "cadence", "backoff"}] /\ busy \in Source \cup {Nobody}
  /\ status \in [Source -> Line] /\ shown \in [Source -> Line] /\ socket \in BOOLEAN
  /\ rx \in Seq(Messages)
  /\ queue \in Seq(Nat) /\ pending \in Seq(Nat) /\ stored \in Seq(Nat)
  /\ reported \in Nat /\ lost \in SUBSET Nat /\ userOn \in SUBSET Source /\ clicks \in Nat

\* What the worker will have heard when the commands q are through is what was
\* last asked: the last command of each kind says it, or none is on its way.
AsksOnline(q, on) ==
  /\ (\A i \in 1 .. Len(q) : q[i].op # "online") => (on <=> asked.online)
  /\ \A i \in 1 .. Len(q) :
       q[i].op = "online" /\ (\A j \in 1 .. Len(q) : j > i => q[j].op # "online")
         => (q[i].on <=> asked.online)
Switches(c, s) == c.op = "source" /\ c.source = s
AsksEach(q, e) ==
  \A s \in Source :
    /\ (\A i \in 1 .. Len(q) : ~Switches(q[i], s)) => (s \in e <=> s \in asked.enabled)
    /\ \A i \in 1 .. Len(q) :
         Switches(q[i], s) /\ (\A j \in 1 .. Len(q) : j > i => ~Switches(q[j], s))
           => (q[i].on <=> s \in asked.enabled)

\* A source that was never switched on is still to be switched off before the
\* worker goes online.
OffFirst(q, e, on, u) ==
  /\ on => e \subseteq u
  /\ \A i \in 1 .. Len(q) : q[i].op = "source" /\ q[i].on => q[i].source \in u
  /\ \A s \in e \ u :
       \E i \in 1 .. Len(q) :
         /\ Switches(q[i], s) /\ ~q[i].on
         /\ \A j \in 1 .. Len(q) : q[j].op = "online" => i < j

\* The worker's own lines and socket follow its switches.
LinesHonest(st, on, e) ==
  \A s \in Source :
    /\ st[s].online <=> on /\ s \in e /\ s \in Available
    /\ on => IF s \notin e THEN st[s].detail = "off"
             ELSE s \in Available => st[s].detail \in {"fetching", "ok", "failed"}
SocketFollows == socket <=> Synced(online)
CycleRuns == busy # Nobody => Running(busy)

\* What is shown of a source, or the last line on its way, is the worker's line.
Says(m, s) == m.kind = "status" /\ m.source = s
Arrives(r, st) ==
  \A s \in Source :
    /\ (\A i \in 1 .. Len(r) : ~Says(r[i], s)) => shown[s] = st[s]
    /\ \A i \in 1 .. Len(r) :
         Says(r[i], s) /\ (\A j \in 1 .. Len(r) : j > i => ~Says(r[j], s)) => r[i].line = st[s]

\* The box is the aggregate of the lines shown, unless a click or a line is on
\* its way.
Boxed(q, r) ==
  (\A i \in 1 .. Len(q) : q[i].op # "online") /\ (\A i \in 1 .. Len(r) : r[i].kind # "status")
    => (appOnline <=> \E s \in Source : shown[s].online)

\* The batches past the UI's queue, and those still among the messages.
Handed == stored \o pending \o queue
InOrder(t, r, n, l) ==
  /\ l \subseteq 1 .. n
  /\ \A i, j \in 1 .. Len(t) : i < j => t[i] < t[j]
  /\ \A i, j \in 1 .. Len(r) : i < j /\ r[i].kind = "batch" /\ r[j].kind = "batch"
                                 => r[i].number < r[j].number
  /\ \A i \in 1 .. Len(t), j \in 1 .. Len(r) : r[j].kind = "batch" => t[i] < r[j].number
  /\ \A k \in Nat : k \in (1 .. n) \ l
       <=> \/ \E i \in 1 .. Len(t) : t[i] = k
           \/ \E j \in 1 .. Len(r) : r[j].kind = "batch" /\ r[j].number = k

IInv ==
  /\ TypeOK
  /\ AsksOnline(ctl, online) /\ AsksEach(ctl, enabled) /\ OffFirst(ctl, enabled, online, userOn)
  /\ LinesHonest(status, online, enabled) /\ SocketFollows /\ CycleRuns
  /\ Arrives(rx, status) /\ Boxed(ctl, rx)
  /\ Len(pending) <= 1 /\ InOrder(Handed, rx, reported, lost)

-----------------------------------------------------------------------------
\* Sequences.

\* A sequence and another after it.
LEMMA Concat ==
  ASSUME NEW S, NEW q \in Seq(S), NEW t \in Seq(S), NEW r, r = q \o t
  PROVE  /\ r \in Seq(S) /\ Len(q) \in Nat /\ Len(t) \in Nat /\ Len(r) = Len(q) + Len(t)
         /\ \A i \in 1 .. Len(q) : i \in 1 .. Len(r) /\ r[i] = q[i]
         /\ \A j \in 1 .. Len(t) : Len(q) + j \in 1 .. Len(r) /\ r[Len(q) + j] = t[j]
         /\ \A i \in 1 .. Len(r) :
              i \in 1 .. Len(q) \/ (i - Len(q) \in 1 .. Len(t) /\ r[i] = t[i - Len(q)])
<1>1. Len(q) \in Nat /\ Len(t) \in Nat BY LenProperties
<1>2. PICK m \in Nat : m = Len(q) BY <1>1
<1>3. PICK n \in Nat : n = Len(t) BY <1>1
<1>4. /\ r \in Seq(S) /\ Len(r) = m + n
      /\ \A i \in 1 .. m + n : r[i] = IF i <= m THEN q[i] ELSE t[i - m]
  BY <1>2, <1>3, ConcatProperties
<1>5. \A i \in 1 .. m : i \in 1 .. m + n /\ r[i] = q[i] BY <1>4
<1>6. \A j \in 1 .. n : m + j \in 1 .. m + n /\ r[m + j] = t[j]
  <2> SUFFICES ASSUME NEW j \in 1 .. n PROVE m + j \in 1 .. m + n /\ r[m + j] = t[j] OBVIOUS
  <2>1. m + j \in 1 .. m + n /\ ~(m + j <= m) /\ (m + j) - m = j OBVIOUS
  <2>2. r[m + j] = t[(m + j) - m] BY <1>4, <2>1
  <2> QED BY <2>1, <2>2
<1>7. ASSUME NEW i \in 1 .. m + n, i \notin 1 .. m PROVE i - m \in 1 .. n /\ r[i] = t[i - m]
  <2>1. i - m \in 1 .. n /\ ~(i <= m) BY <1>7
  <2> QED BY <1>4, <2>1
<1> QED BY <1>2, <1>3, <1>4, <1>5, <1>6, <1>7

\* A sequence and an element after it.
LEMMA Appended ==
  ASSUME NEW S, NEW q \in Seq(S), NEW c \in S, NEW r, r = Append(q, c)
  PROVE  /\ r \in Seq(S) /\ Len(q) \in Nat /\ Len(r) = Len(q) + 1
         /\ Len(r) \in 1 .. Len(r) /\ r[Len(r)] = c
         /\ \A i \in 1 .. Len(q) : i \in 1 .. Len(r) /\ r[i] = q[i] /\ i < Len(r)
         /\ \A i \in 1 .. Len(r) : i \in 1 .. Len(q) \/ i = Len(r)
<1>1. Len(q) \in Nat BY LenProperties
<1>2. /\ r \in Seq(S) /\ Len(r) = Len(q) + 1 /\ r[Len(q) + 1] = c
      /\ \A i \in 1 .. Len(q) : r[i] = q[i]
  BY AppendProperties
<1> QED BY <1>1, <1>2

\* A sequence without its head.
LEMMA Tailed ==
  ASSUME NEW S, NEW q \in Seq(S), q # <<>>, NEW r, r = Tail(q)
  PROVE  /\ r \in Seq(S) /\ Len(q) \in Nat /\ Len(r) \in Nat /\ Len(q) = Len(r) + 1
         /\ Head(q) \in S /\ 1 \in 1 .. Len(q) /\ q[1] = Head(q)
         /\ \A i \in 1 .. Len(r) : i + 1 \in 1 .. Len(q) /\ r[i] = q[i + 1]
         /\ \A i \in 1 .. Len(q) : i = 1 \/ (i - 1 \in 1 .. Len(r) /\ q[i] = r[i - 1])
<1>1. Len(q) \in Nat \ {0} BY EmptySeq
<1>2. PICK n \in Nat : Len(q) = n + 1
  <2>1. Len(q) - 1 \in Nat /\ Len(q) = (Len(q) - 1) + 1 BY <1>1
  <2> QED BY <2>1
<1>3. /\ r \in Seq(S) /\ Len(r) = Len(q) - 1 /\ Head(q) \in S /\ Head(q) = q[1]
      /\ \A i \in 1 .. Len(r) : r[i] = q[i + 1]
  BY HeadTailProperties
<1>4. Len(r) = n BY <1>2, <1>3
<1>5. \A i \in 1 .. n : i + 1 \in 1 .. n + 1 OBVIOUS
<1>6. ASSUME NEW i \in 1 .. n + 1, i # 1 PROVE i - 1 \in 1 .. n /\ q[i] = r[i - 1]
  <2>1. i - 1 \in 1 .. n /\ (i - 1) + 1 = i BY <1>6
  <2> QED BY <1>3, <1>4, <2>1
<1> QED BY <1>2, <1>3, <1>4, <1>5, <1>6

\* A finite set as a sequence.
LEMMA Listed ==
  ASSUME NEW S, IsFiniteSet(S), NEW f, f = SetToSeq(S)
  PROVE  /\ f \in Seq(S) /\ Len(f) \in Nat
         /\ \A x \in S : \E i \in 1 .. Len(f) : f[i] = x
<1>1. PICK n \in Nat : n = Cardinality(S) BY FS_CardinalityType
<1>2. ExistsBijection(1 .. n, S) BY <1>1, FS_CardinalityType
<1>3. \E g \in [1 .. n -> S] : IsInjective(g) 
  BY <1>2 DEF ExistsBijection, Bijection, Injection, IsInjective
<1>4. f \in [1 .. n -> S] /\ IsInjective(f) BY <1>1, <1>3 DEF SetToSeq
<1>5. f \in Injection(1 .. n, S) BY <1>4 DEF Injection
<1>6. Cardinality(1 .. n) = n
  <2>1. n \in Int /\ 1 \in Int OBVIOUS
  <2>2. Cardinality(1 .. n) = IF 1 > n THEN 0 ELSE n - 1 + 1 BY <2>1, FS_Interval
  <2> QED BY <2>2
<1>7. f \in Surjection(1 .. n, S) BY <1>1, <1>5, <1>6, FS_Injection
<1>8. f \in Seq(S) /\ Len(f) = n BY <1>4
<1> QED BY <1>7, <1>8 DEF Surjection

-----------------------------------------------------------------------------
\* The status lines of some sources, in an order.
LEMMA StatusesAre ==
  ASSUME NEW ss \in SUBSET Source, NEW st \in [Source -> Line], NEW t, t = Statuses(ss, st)
  PROVE  /\ t \in Seq(Messages) /\ Len(t) \in Nat
         /\ \A i \in 1 .. Len(t) : t[i].kind = "status" /\ t[i].source \in ss
                                   /\ t[i].line = st[t[i].source]
<1>1. IsFiniteSet(ss) BY SourceAssumption, FS_Subset
<1>2. PICK f : f = SetToSeq(ss) OBVIOUS
<1>3. f \in Seq(ss) /\ Len(f) \in Nat
  BY <1>1, <1>2, Listed
<1>4. t = [i \in 1 .. Len(f) |-> Status(f[i], st[f[i]])] BY <1>2 DEF Statuses
<1>5. \A i \in 1 .. Len(f) : f[i] \in ss BY <1>3, ElementOfSeq
<1>6. ASSUME NEW i \in 1 .. Len(f)
      PROVE  /\ t[i] \in Messages /\ t[i].kind = "status" /\ t[i].source = f[i]
             /\ t[i].line = st[f[i]]
  <2>1. PICK s \in Source : s = f[i] BY <1>5
  <2>2. PICK l \in Line : l = st[s] OBVIOUS
  <2>3. t[i] = [kind |-> "status", source |-> s, line |-> l]
    BY <1>4, <2>1, <2>2 DEF Status
  <2> QED BY <2>1, <2>2, <2>3 DEF Messages
<1>7. t \in [1 .. Len(f) -> Messages] BY <1>4, <1>6
<1>8. t \in Seq(Messages) /\ Len(t) = Len(f) BY <1>3, <1>7
<1> QED BY <1>3, <1>5, <1>6, <1>8

\* Each of them has a line.
LEMMA EveryLineIs ==
  ASSUME NEW ss \in SUBSET Source, NEW st \in [Source -> Line], NEW t, t = Statuses(ss, st),
         NEW x \in ss
  PROVE  \E i \in 1 .. Len(t) : t[i].source = x
<1>1. IsFiniteSet(ss) BY SourceAssumption, FS_Subset
<1>2. PICK f : f = SetToSeq(ss) OBVIOUS
<1>3. f \in Seq(ss) /\ Len(f) \in Nat BY <1>1, <1>2, Listed
<1>4. PICK i \in 1 .. Len(f) : f[i] = x BY <1>1, <1>2, Listed
<1>5. t = [j \in 1 .. Len(f) |-> Status(f[j], st[f[j]])] BY <1>2 DEF Statuses
<1>6. t[i].source = x BY <1>4, <1>5 DEF Status
<1>7. t \in [1 .. Len(f) -> {Status(f[j], st[f[j]]) : j \in 1 .. Len(f)}] BY <1>5
<1>8. Len(t) = Len(f) BY <1>3, <1>7
<1> QED BY <1>4, <1>6, <1>8

\* The saved switches are sent first.
LEMMA OffSwitchesAre ==
  ASSUME NEW o, o = OffSwitches
  PROVE  /\ o \in Seq(Commands) /\ Len(o) \in Nat
         /\ \A i \in 1 .. Len(o) : o[i].op = "source" /\ ~o[i].on /\ o[i].source \in SavedOff
         /\ \A s \in SavedOff : \E i \in 1 .. Len(o) : o[i].source = s
<1>1. IsFiniteSet(SavedOff) BY SourceAssumption, FS_Subset
<1>2. PICK f : f = SetToSeq(SavedOff) OBVIOUS
<1>3. f \in Seq(SavedOff) /\ Len(f) \in Nat /\ \A s \in SavedOff : \E i \in 1 .. Len(f) : f[i] = s
  BY <1>1, <1>2, Listed
<1>4. o = [i \in 1 .. Len(f) |-> SetEnabled(f[i], FALSE)] BY <1>2 DEF OffSwitches
<1>5. \A i \in 1 .. Len(f) : f[i] \in SavedOff /\ f[i] \in Source
  BY <1>3, ElementOfSeq, SourceAssumption
<1>6. ASSUME NEW i \in 1 .. Len(f)
      PROVE  o[i] \in Commands /\ o[i].op = "source" /\ ~o[i].on /\ o[i].source = f[i]
  <2>1. PICK s \in Source : s = f[i] BY <1>5
  <2>2. o[i] = [op |-> "source", source |-> s, on |-> FALSE] BY <1>4, <2>1 DEF SetEnabled
  <2> QED BY <2>1, <2>2 DEF Commands
<1>7. o \in [1 .. Len(f) -> Commands] BY <1>4, <1>6
<1>8. o \in Seq(Commands) /\ Len(o) = Len(f) BY SMTT(30), <1>3, <1>7
<1> QED BY <1>3, <1>5, <1>6, <1>8

\* At the start the worker is offline and told of the switches before it hears
\* that it is not.
LEMMA InitInvariant == Init => IInv
<1> SUFFICES ASSUME Init PROVE IInv OBVIOUS
<1>1. PICK b \in BOOLEAN :
        /\ asked = [online |-> b, enabled |-> Source \ SavedOff] /\ appOnline = b
        /\ ctl = StartupCtl(b)
  BY DEF Init
<1>2. /\ online = FALSE /\ enabled = Source /\ busy = Nobody /\ socket = FALSE /\ reported = 0
      /\ next = [s \in Source |-> IF s = Stream THEN "cadence" ELSE "due"]
      /\ status = [s \in Source |-> Offline(s)]
      /\ rx = Statuses(Source \ Available, status) /\ shown = status
      /\ queue = <<>> /\ pending = <<>> /\ stored = <<>> /\ lost = {}
      /\ clicks = 0 /\ userOn = Source \ SavedOff
  BY DEF Init
<1>3. PICK o : o = OffSwitches OBVIOUS
<1>4. /\ o \in Seq(Commands) /\ Len(o) \in Nat
      /\ \A i \in 1 .. Len(o) : o[i].op = "source" /\ ~o[i].on /\ o[i].source \in SavedOff
      /\ \A s \in SavedOff : \E i \in 1 .. Len(o) : o[i].source = s
  BY <1>3, OffSwitchesAre
<1>5. PICK c : c = SetOnline(b) OBVIOUS
<1>6. c \in Commands /\ c.op = "online" /\ (c.on <=> b) BY <1>5 DEF SetOnline, Commands
<1>7. ctl = Append(o, c)
  <2>1. ctl = o \o <<c>> BY <1>1, <1>3, <1>5 DEF StartupCtl
  <2> QED BY <1>4, <1>6, <2>1, AppendIsConcat
<1>8. /\ ctl \in Seq(Commands) /\ Len(ctl) = Len(o) + 1
      /\ Len(ctl) \in 1 .. Len(ctl) /\ ctl[Len(ctl)] = c
      /\ \A i \in 1 .. Len(o) : i \in 1 .. Len(ctl) /\ ctl[i] = o[i] /\ i < Len(ctl)
      /\ \A i \in 1 .. Len(ctl) : i \in 1 .. Len(o) \/ i = Len(ctl)
  BY <1>4, <1>6, <1>7, Appended
<1>9. \A i \in 1 .. Len(ctl) : ctl[i].op = "online" => i = Len(ctl) BY <1>4, <1>8
<1>10. AsksOnline(ctl, online)
  <2>1. asked.online = b BY <1>1
  <2>2. ctl[Len(ctl)].op = "online" /\ (ctl[Len(ctl)].on <=> b) BY <1>6, <1>8
  <2> QED BY <1>8, <1>9, <2>1, <2>2 DEF AsksOnline
<1>11. \A i \in 1 .. Len(ctl), s \in Source :
         Switches(ctl[i], s) => i \in 1 .. Len(o) /\ s \in SavedOff /\ ~ctl[i].on
  BY <1>4, <1>6, <1>8 DEF Switches
<1>12. ASSUME NEW s \in SavedOff
       PROVE  \E i \in 1 .. Len(o) : i \in 1 .. Len(ctl) /\ Switches(ctl[i], s) /\ ~ctl[i].on
  <2>1. PICK i \in 1 .. Len(o) : o[i].source = s BY <1>4
  <2>2. i \in 1 .. Len(ctl) /\ ctl[i] = o[i] BY <1>8
  <2>3. o[i].op = "source" /\ ~o[i].on BY <1>4
  <2> QED BY <2>1, <2>2, <2>3 DEF Switches
<1>13. AsksEach(ctl, enabled)
  <2> SUFFICES ASSUME NEW s \in Source
               PROVE  /\ (\A i \in 1 .. Len(ctl) : ~Switches(ctl[i], s)) => s \in asked.enabled
                      /\ \A i \in 1 .. Len(ctl) : Switches(ctl[i], s)
                                                    => ~ctl[i].on /\ s \notin asked.enabled
    BY <1>2 DEF AsksEach
  <2>1. asked.enabled = Source \ SavedOff BY <1>1
  <2>2. s \in SavedOff => \E i \in 1 .. Len(ctl) : Switches(ctl[i], s) BY <1>12
  <2> QED BY <1>11, <2>1, <2>2
<1>14. OffFirst(ctl, enabled, online, userOn)
  <2>1. \A i \in 1 .. Len(ctl) : ctl[i].op = "source" => ~ctl[i].on BY <1>4, <1>6, <1>8
  <2>2. ASSUME NEW s \in enabled \ userOn
        PROVE  \E i \in 1 .. Len(ctl) :
                 /\ Switches(ctl[i], s) /\ ~ctl[i].on
                 /\ \A j \in 1 .. Len(ctl) : ctl[j].op = "online" => i < j
    <3>1. s \in SavedOff BY <1>2
    <3>2. PICK i \in 1 .. Len(o) : i \in 1 .. Len(ctl) /\ Switches(ctl[i], s) /\ ~ctl[i].on
      BY <1>12, <3>1
    <3>3. \A j \in 1 .. Len(ctl) : ctl[j].op = "online" => i < j BY <1>8, <1>9, <3>2
    <3> QED BY <3>2, <3>3
  <2> QED BY <1>2, <2>1, <2>2 DEF OffFirst
<1>15. status \in [Source -> Line] /\ \A s \in Source : status[s].online = FALSE
  <2>1. ASSUME NEW s \in Source PROVE Offline(s) \in Line /\ Offline(s).online = FALSE
    BY DEF Offline, Line, Details
  <2> QED BY <1>2, <2>1
<1>16. LinesHonest(status, online, enabled) BY <1>2, <1>15 DEF LinesHonest
<1>17. SocketFollows /\ CycleRuns BY <1>2 DEF SocketFollows, Synced, CycleRuns
<1>18. /\ rx \in Seq(Messages) /\ Len(rx) \in Nat
       /\ \A i \in 1 .. Len(rx) : rx[i].kind = "status" /\ rx[i].line = status[rx[i].source]
  <2>1. PICK ss \in SUBSET Source : ss = Source \ Available OBVIOUS
  <2>2. PICK st \in [Source -> Line] : st = status BY <1>15
  <2>3. rx = Statuses(ss, st) BY <1>2, <2>1, <2>2
  <2>4. /\ rx \in Seq(Messages) /\ Len(rx) \in Nat
        /\ \A i \in 1 .. Len(rx) : rx[i].kind = "status" /\ rx[i].source \in ss
                                   /\ rx[i].line = st[rx[i].source]
    BY <2>3, StatusesAre
  <2> QED BY <2>2, <2>4
<1>19. Arrives(rx, status) BY <1>2, <1>18 DEF Arrives, Says
<1>20. Boxed(ctl, rx) BY <1>6, <1>8 DEF Boxed
<1>21. Handed = <<>> /\ Len(<<>>) = 0
  <2>1. <<>> \in Seq(Nat) OBVIOUS
  <2> QED BY <1>2, <2>1, ConcatEmptySeq DEF Handed
<1>22. InOrder(Handed, rx, reported, lost)
  <2>1. \A i \in 1 .. Len(rx) : rx[i].kind # "batch" BY <1>18
  <2>2. 1 .. 0 = {} /\ 1 .. Len(Handed) = {} BY <1>21
  <2> QED BY <1>2, <2>1, <2>2 DEF InOrder
<1>23. TypeOK
  <2>1. asked \in [online : BOOLEAN, enabled : SUBSET Source] BY <1>1
  <2>2. next \in [Source -> {"due", "cadence", "backoff"}] BY <1>2
  <2>3. <<>> \in Seq(Nat) /\ {} \in SUBSET Nat OBVIOUS
  <2>4. /\ queue \in Seq(Nat) /\ pending \in Seq(Nat) /\ stored \in Seq(Nat)
        /\ reported \in Nat /\ lost \in SUBSET Nat /\ clicks \in Nat
    BY <1>2, <2>3
  <2>5. /\ online \in BOOLEAN /\ enabled \in SUBSET Source /\ busy \in Source \cup {Nobody}
        /\ socket \in BOOLEAN /\ userOn \in SUBSET Source /\ shown \in [Source -> Line]
    BY <1>2, <1>15
  <2>6. appOnline \in BOOLEAN BY <1>1
  <2> QED BY <1>8, <1>15, <1>18, <2>1, <2>2, <2>4, <2>5, <2>6 DEF TypeOK
<1>24. Len(pending) <= 1 BY <1>2, <1>21
<1> QED BY <1>10, <1>13, <1>14, <1>16, <1>17, <1>19, <1>20, <1>22, <1>23, <1>24 DEF IInv

-----------------------------------------------------------------------------
\* The user: a command goes to the worker after those that are on their way.

\* What no click touches.
Ours == <<online, enabled, next, busy, status, socket, reported, rx, shown,
          queue, pending, stored, lost>>

\* A command after the others leaves the last of the switches what it was.
LEMMA SentKeepsEach ==
  ASSUME ctl \in Seq(Commands), AsksEach(ctl, enabled), NEW c \in Commands, c.op # "source",
         ctl' = Append(ctl, c), asked'.enabled = asked.enabled, UNCHANGED enabled
  PROVE  AsksEach(ctl, enabled)'
<1>1. PICK q : q = ctl' OBVIOUS
<1>2. /\ Len(q) \in 1 .. Len(q) /\ q[Len(q)] = c
      /\ \A i \in 1 .. Len(ctl) : i \in 1 .. Len(q) /\ q[i] = ctl[i] /\ i < Len(q)
      /\ \A i \in 1 .. Len(q) : i \in 1 .. Len(ctl) \/ i = Len(q)
  BY <1>1, Appended
<1>3. ASSUME NEW s \in Source
      PROVE  /\ (\A i \in 1 .. Len(q) : ~Switches(q[i], s))
                  => (s \in enabled <=> s \in asked.enabled)
             /\ \A i \in 1 .. Len(q) :
                  Switches(q[i], s) /\ (\A j \in 1 .. Len(q) : j > i => ~Switches(q[j], s))
                    => (q[i].on <=> s \in asked.enabled)
  <2>1. ~Switches(c, s) BY DEF Switches
  <2>2. /\ (\A i \in 1 .. Len(ctl) : ~Switches(ctl[i], s))
             => (s \in enabled <=> s \in asked.enabled)
        /\ \A i \in 1 .. Len(ctl) :
             Switches(ctl[i], s) /\ (\A j \in 1 .. Len(ctl) : j > i => ~Switches(ctl[j], s))
               => (ctl[i].on <=> s \in asked.enabled)
    BY DEF AsksEach
  <2>3. ASSUME NEW i \in 1 .. Len(q), Switches(q[i], s),
               \A j \in 1 .. Len(q) : j > i => ~Switches(q[j], s)
        PROVE  q[i].on <=> s \in asked.enabled
    <3>1. i \in 1 .. Len(ctl) /\ q[i] = ctl[i] BY <1>2, <2>1, <2>3
    <3>2. \A j \in 1 .. Len(ctl) : j > i => ~Switches(ctl[j], s) BY <1>2, <2>3
    <3> QED BY <2>2, <2>3, <3>1, <3>2
  <2>4. (\A i \in 1 .. Len(q) : ~Switches(q[i], s))
          => \A i \in 1 .. Len(ctl) : ~Switches(ctl[i], s)
    BY <1>2
  <2> QED BY <2>2, <2>3, <2>4
<1> QED BY <1>1, <1>3 DEF AsksEach, Switches

\* So does one that is not for the whole worker.
LEMMA SentKeepsOnline ==
  ASSUME ctl \in Seq(Commands), AsksOnline(ctl, online), NEW c \in Commands, c.op # "online",
         ctl' = Append(ctl, c), asked'.online = asked.online, UNCHANGED online
  PROVE  AsksOnline(ctl, online)'
<1>1. PICK q : q = ctl' OBVIOUS
<1>2. /\ Len(q) \in 1 .. Len(q) /\ q[Len(q)] = c
      /\ \A i \in 1 .. Len(ctl) : i \in 1 .. Len(q) /\ q[i] = ctl[i] /\ i < Len(q)
      /\ \A i \in 1 .. Len(q) : i \in 1 .. Len(ctl) \/ i = Len(q)
  BY <1>1, Appended
<1>3. /\ (\A i \in 1 .. Len(ctl) : ctl[i].op # "online") => (online <=> asked.online)
      /\ \A i \in 1 .. Len(ctl) :
           ctl[i].op = "online" /\ (\A j \in 1 .. Len(ctl) : j > i => ctl[j].op # "online")
             => (ctl[i].on <=> asked.online)
  BY DEF AsksOnline
<1>4. (\A i \in 1 .. Len(q) : q[i].op # "online") => \A i \in 1 .. Len(ctl) : ctl[i].op # "online"
  BY <1>2
<1>5. ASSUME NEW i \in 1 .. Len(q), q[i].op = "online",
             \A j \in 1 .. Len(q) : j > i => q[j].op # "online"
      PROVE  q[i].on <=> asked.online
  <2>1. i \in 1 .. Len(ctl) /\ q[i] = ctl[i] BY <1>2, <1>5
  <2>2. \A j \in 1 .. Len(ctl) : j > i => ctl[j].op # "online" BY <1>2, <1>5
  <2> QED BY <1>3, <1>5, <2>1, <2>2
<1> QED BY <1>1, <1>3, <1>4, <1>5 DEF AsksOnline

\* A command of the user comes after the saved switches.
LEMMA SentKeepsOff ==
  ASSUME ctl \in Seq(Commands), OffFirst(ctl, enabled, online, userOn), NEW c \in Commands,
         ctl' = Append(ctl, c), userOn \subseteq userOn',
         c.op = "source" /\ c.on => c.source \in userOn', UNCHANGED <<enabled, online>>
  PROVE  OffFirst(ctl, enabled, online, userOn)'
<1>1. PICK q : q = ctl' OBVIOUS
<1>2. /\ Len(q) \in 1 .. Len(q) /\ q[Len(q)] = c
      /\ \A i \in 1 .. Len(ctl) : i \in 1 .. Len(q) /\ q[i] = ctl[i] /\ i < Len(q)
      /\ \A i \in 1 .. Len(q) : i \in 1 .. Len(ctl) \/ i = Len(q)
  BY <1>1, Appended
<1>3. online => enabled \subseteq userOn' BY DEF OffFirst
<1>4. \A i \in 1 .. Len(q) : q[i].op = "source" /\ q[i].on => q[i].source \in userOn'
  <2>1. \A i \in 1 .. Len(ctl) : ctl[i].op = "source" /\ ctl[i].on => ctl[i].source \in userOn'
    BY DEF OffFirst
  <2> QED BY <1>2, <2>1
<1>5. ASSUME NEW s \in enabled \ userOn'
      PROVE  \E i \in 1 .. Len(q) :
               /\ Switches(q[i], s) /\ ~q[i].on
               /\ \A j \in 1 .. Len(q) : q[j].op = "online" => i < j
  <2>1. PICK i \in 1 .. Len(ctl) :
          /\ Switches(ctl[i], s) /\ ~ctl[i].on
          /\ \A j \in 1 .. Len(ctl) : ctl[j].op = "online" => i < j
    BY DEF OffFirst
  <2>2. i \in 1 .. Len(q) /\ q[i] = ctl[i] BY <1>2
  <2>3. \A j \in 1 .. Len(q) : q[j].op = "online" => i < j BY <1>2, <2>1
  <2> QED BY <2>1, <2>2, <2>3
<1> QED BY <1>1, <1>3, <1>4, <1>5 DEF OffFirst, Switches

\* What a click leaves alone.
LEMMA ClickKeeps ==
  ASSUME IInv, UNCHANGED Ours
  PROVE  /\ LinesHonest(status, online, enabled)' /\ SocketFollows' /\ CycleRuns'
         /\ Arrives(rx, status)' /\ (Len(pending) <= 1)' /\ InOrder(Handed, rx, reported, lost)'
<1>1. PICK t : t = Handed OBVIOUS
<1>2. Handed' = t BY <1>1 DEF Handed, Ours
<1>3. InOrder(t, rx, reported, lost) BY <1>1 DEF IInv
<1>4. InOrder(Handed, rx, reported, lost)' BY <1>2, <1>3 DEF InOrder, Ours
<1>5. Arrives(rx, status)' BY DEF IInv, Arrives, Says, Ours
<1>6. LinesHonest(status, online, enabled)' BY DEF IInv, LinesHonest, Ours
<1>7. SocketFollows' BY DEF IInv, SocketFollows, Synced, Ours
<1>8. CycleRuns' BY DEF IInv, CycleRuns, Running, Ours
<1> QED BY <1>4, <1>5, <1>6, <1>7, <1>8 DEF IInv, Ours

\* The box is clicked.
LEMMA ToggleOnlineStep == IInv /\ ToggleOnline => IInv'
<1> SUFFICES ASSUME IInv, ToggleOnline PROVE IInv' OBVIOUS
<1>1. /\ ctl \in Seq(Commands) /\ appOnline \in BOOLEAN /\ clicks \in Nat
      /\ asked \in [online : BOOLEAN, enabled : SUBSET Source]
      /\ AsksEach(ctl, enabled) /\ OffFirst(ctl, enabled, online, userOn)
  BY DEF IInv, TypeOK
<1>2. PICK b \in BOOLEAN : b = ~appOnline OBVIOUS
<1>3. PICK c : c = SetOnline(b) OBVIOUS
<1>4. c \in Commands /\ c.op = "online" /\ (c.on <=> b) BY <1>3 DEF SetOnline, Commands
<1>5. /\ appOnline' = b /\ asked' = [asked EXCEPT !.online = b] /\ ctl' = Append(ctl, c)
      /\ clicks' = clicks + 1 /\ userOn' = userOn /\ UNCHANGED Ours
  BY <1>2, <1>3 DEF ToggleOnline, Click, Send, workerVars, storeVars, Ours
<1>6. /\ asked' \in [online : BOOLEAN, enabled : SUBSET Source]
      /\ (asked'.online <=> b) /\ asked'.enabled = asked.enabled
  BY <1>1, <1>5
<1>7. PICK q : q = ctl' OBVIOUS
<1>8. /\ q \in Seq(Commands) /\ Len(q) \in 1 .. Len(q) /\ q[Len(q)] = c
      /\ \A i \in 1 .. Len(ctl) : i \in 1 .. Len(q) /\ q[i] = ctl[i] /\ i < Len(q)
      /\ \A i \in 1 .. Len(q) : i \in 1 .. Len(ctl) \/ i = Len(q)
  BY <1>1, <1>4, <1>5, <1>7, Appended
<1>9. AsksOnline(ctl, online)'
  <2>1. q[Len(q)].op = "online" /\ (q[Len(q)].on <=> asked'.online) BY <1>4, <1>6, <1>8
  <2>2. ASSUME NEW i \in 1 .. Len(q), \A j \in 1 .. Len(q) : j > i => q[j].op # "online"
        PROVE  i = Len(q)
    <3>1. i \in 1 .. Len(ctl) => Len(q) > i BY <1>8
    <3> QED BY <1>8, <2>1, <2>2, <3>1
  <2> QED BY <1>7, <1>8, <2>1, <2>2 DEF AsksOnline
<1>10. AsksEach(ctl, enabled)' BY <1>1, <1>4, <1>5, <1>6, SentKeepsEach DEF Ours
<1>11. OffFirst(ctl, enabled, online, userOn)' BY <1>1, <1>4, <1>5, SentKeepsOff DEF Ours
<1>12. Boxed(ctl, rx)'
  <2>1. \E i \in 1 .. Len(q) : q[i].op = "online" BY <1>4, <1>8
  <2> QED BY <1>7, <2>1 DEF Boxed
<1>13. TypeOK'
  <2>1. clicks' \in Nat BY <1>1, <1>5
  <2> QED BY <1>5, <1>6, <1>7, <1>8, <2>1 DEF IInv, TypeOK, Ours
<1> QED BY <1>5, <1>9, <1>10, <1>11, <1>12, <1>13, ClickKeeps DEF IInv

\* A source is switched.
LEMMA ToggleSourceStep == ASSUME IInv, NEW s \in Source, ToggleSource(s) PROVE IInv'
<1>1. /\ ctl \in Seq(Commands) /\ clicks \in Nat /\ userOn \in SUBSET Source
      /\ asked \in [online : BOOLEAN, enabled : SUBSET Source]
      /\ AsksOnline(ctl, online) /\ AsksEach(ctl, enabled)
      /\ OffFirst(ctl, enabled, online, userOn)
  BY DEF IInv, TypeOK
<1>2. PICK b \in BOOLEAN : b = (s \notin asked.enabled) OBVIOUS
<1>3. PICK c : c = SetEnabled(s, b) OBVIOUS
<1>4. c \in Commands /\ c.op = "source" /\ c.source = s /\ (c.on <=> b)
  BY <1>3 DEF SetEnabled, Commands
<1>5. PICK e : e = IF b THEN asked.enabled \cup {s} ELSE asked.enabled \ {s} OBVIOUS
<1>6. /\ asked' = [asked EXCEPT !.enabled = e] /\ ctl' = Append(ctl, c)
      /\ clicks' = clicks + 1 /\ userOn' = (IF b THEN userOn \cup {s} ELSE userOn)
      /\ UNCHANGED appOnline /\ UNCHANGED Ours
  BY <1>2, <1>3, <1>5 DEF ToggleSource, Click, Send, workerVars, storeVars, Ours
<1>7. e \in SUBSET Source /\ (s \in e <=> b)
      /\ \A x \in Source : x # s => (x \in e <=> x \in asked.enabled)
  BY <1>1, <1>5
<1>8. /\ asked' \in [online : BOOLEAN, enabled : SUBSET Source]
      /\ asked'.online = asked.online /\ asked'.enabled = e
  BY <1>1, <1>6, <1>7
<1>9. PICK q : q = ctl' OBVIOUS
<1>10. /\ q \in Seq(Commands) /\ Len(q) \in 1 .. Len(q) /\ q[Len(q)] = c
       /\ \A i \in 1 .. Len(ctl) : i \in 1 .. Len(q) /\ q[i] = ctl[i] /\ i < Len(q)
       /\ \A i \in 1 .. Len(q) : i \in 1 .. Len(ctl) \/ i = Len(q)
  BY <1>1, <1>4, <1>6, <1>9, Appended
<1>11. AsksOnline(ctl, online)' BY <1>1, <1>4, <1>6, <1>8, SentKeepsOnline DEF Ours
<1>12. ASSUME NEW x \in Source
       PROVE  /\ (\A i \in 1 .. Len(q) : ~Switches(q[i], x)) => (x \in enabled <=> x \in e)
              /\ \A i \in 1 .. Len(q) :
                   Switches(q[i], x) /\ (\A j \in 1 .. Len(q) : j > i => ~Switches(q[j], x))
                     => (q[i].on <=> x \in e)
  <2>1. CASE x = s
    <3>1. Switches(q[Len(q)], x) /\ (q[Len(q)].on <=> x \in e)
      BY <1>4, <1>7, <1>10, <2>1 DEF Switches
    <3>2. ASSUME NEW i \in 1 .. Len(q), \A j \in 1 .. Len(q) : j > i => ~Switches(q[j], x)
          PROVE  i = Len(q)
      <4>1. i \in 1 .. Len(ctl) => Len(q) > i BY <1>10
      <4> QED BY <1>10, <3>1, <3>2, <4>1
    <3> QED BY <1>10, <3>1, <3>2
  <2>2. CASE x # s
    <3>1. ~Switches(c, x) BY <1>4, <2>2 DEF Switches
    <3>2. x \in e <=> x \in asked.enabled BY <1>7, <2>2
    <3>3. /\ (\A i \in 1 .. Len(ctl) : ~Switches(ctl[i], x))
               => (x \in enabled <=> x \in asked.enabled)
          /\ \A i \in 1 .. Len(ctl) :
               Switches(ctl[i], x) /\ (\A j \in 1 .. Len(ctl) : j > i => ~Switches(ctl[j], x))
                 => (ctl[i].on <=> x \in asked.enabled)
      BY <1>1 DEF AsksEach
    <3>4. ASSUME NEW i \in 1 .. Len(q), Switches(q[i], x),
                 \A j \in 1 .. Len(q) : j > i => ~Switches(q[j], x)
          PROVE  q[i].on <=> x \in asked.enabled
      <4>1. i \in 1 .. Len(ctl) /\ q[i] = ctl[i] BY <1>10, <3>1, <3>4
      <4>2. \A j \in 1 .. Len(ctl) : j > i => ~Switches(ctl[j], x) BY <1>10, <3>4
      <4> QED BY <3>3, <3>4, <4>1, <4>2
    <3>5. (\A i \in 1 .. Len(q) : ~Switches(q[i], x))
            => \A i \in 1 .. Len(ctl) : ~Switches(ctl[i], x)
      BY <1>10
    <3> QED BY <3>2, <3>3, <3>4, <3>5
  <2> QED BY <2>1, <2>2
<1>13. AsksEach(ctl, enabled)'
  <2>1. enabled' = enabled BY <1>6 DEF Ours
  <2> QED BY <1>8, <1>9, <1>12, <2>1 DEF AsksEach, Switches
<1>14. OffFirst(ctl, enabled, online, userOn)'
  <2>1. userOn \subseteq userOn' BY <1>6
  <2>2. c.on => c.source \in userOn' BY <1>4, <1>6
  <2> QED BY <1>1, <1>4, <1>6, <2>1, <2>2, SentKeepsOff DEF Ours
<1>15. Boxed(ctl, rx)'
  <2>1. (\A i \in 1 .. Len(q) : q[i].op # "online") => \A i \in 1 .. Len(ctl) : ctl[i].op # "online"
    BY <1>10
  <2>2. Boxed(ctl, rx) BY DEF IInv
  <2>3. rx' = rx /\ shown' = shown /\ appOnline' = appOnline BY <1>6 DEF Ours
  <2> QED BY <1>9, <2>1, <2>2, <2>3 DEF Boxed
<1>16. TypeOK'
  <2>1. clicks' \in Nat BY <1>1, <1>6
  <2>2. userOn' \in SUBSET Source BY <1>1, <1>6
  <2> QED BY <1>6, <1>8, <1>9, <1>10, <2>1, <2>2 DEF IInv, TypeOK, Ours
<1> QED BY <1>6, <1>11, <1>13, <1>14, <1>15, <1>16, ClickKeeps DEF IInv

\* "Fetch now" asks for nothing that lasts.
LEMMA AskFetchStep == IInv /\ AskFetch => IInv'
<1> SUFFICES ASSUME IInv, AskFetch PROVE IInv' OBVIOUS
<1>1. /\ ctl \in Seq(Commands) /\ clicks \in Nat
      /\ AsksOnline(ctl, online) /\ AsksEach(ctl, enabled)
      /\ OffFirst(ctl, enabled, online, userOn)
  BY DEF IInv, TypeOK
<1>2. FetchNow \in Commands /\ FetchNow.op = "fetch" BY DEF FetchNow, Commands
<1>3. /\ ctl' = Append(ctl, FetchNow) /\ clicks' = clicks + 1
      /\ UNCHANGED <<appOnline, asked, userOn>> /\ UNCHANGED Ours
  BY DEF AskFetch, Click, Send, workerVars, storeVars, Ours
<1>4. PICK q : q = ctl' OBVIOUS
<1>5. q \in Seq(Commands) /\ \A i \in 1 .. Len(ctl) : i \in 1 .. Len(q) /\ q[i] = ctl[i]
  BY <1>1, <1>2, <1>3, <1>4, Appended
<1>6. AsksOnline(ctl, online)' BY <1>1, <1>2, <1>3, SentKeepsOnline DEF Ours
<1>7. AsksEach(ctl, enabled)' BY <1>1, <1>2, <1>3, SentKeepsEach DEF Ours
<1>8. OffFirst(ctl, enabled, online, userOn)' BY <1>1, <1>2, <1>3, SentKeepsOff DEF Ours
<1>9. Boxed(ctl, rx)'
  <2>1. (\A i \in 1 .. Len(q) : q[i].op # "online") => \A i \in 1 .. Len(ctl) : ctl[i].op # "online"
    BY <1>5
  <2>2. Boxed(ctl, rx) BY DEF IInv
  <2>3. rx' = rx /\ shown' = shown /\ appOnline' = appOnline BY <1>3 DEF Ours
  <2> QED BY <1>4, <2>1, <2>2, <2>3 DEF Boxed
<1>10. TypeOK'
  <2>1. clicks' \in Nat BY <1>1, <1>3
  <2> QED BY <1>3, <1>4, <1>5, <2>1 DEF IInv, TypeOK, Ours
<1> QED BY <1>3, <1>6, <1>7, <1>8, <1>9, <1>10, ClickKeeps DEF IInv

-----------------------------------------------------------------------------
\* The worker hears a command.

\* What is heard is no longer on its way, and the rest still says what was asked.
LEMMA HeardOnline ==
  ASSUME ctl \in Seq(Commands), ctl # <<>>, AsksOnline(ctl, online), NEW c, c = Head(ctl),
         NEW q, q = Tail(ctl), NEW on \in BOOLEAN, c.op = "online" => (on <=> c.on),
         c.op # "online" => on = online
  PROVE  AsksOnline(q, on)
<1>1. /\ 1 \in 1 .. Len(ctl) /\ ctl[1] = c /\ Len(ctl) = Len(q) + 1 /\ Len(q) \in Nat
      /\ \A i \in 1 .. Len(q) : i + 1 \in 1 .. Len(ctl) /\ q[i] = ctl[i + 1]
      /\ \A i \in 1 .. Len(ctl) : i = 1 \/ (i - 1 \in 1 .. Len(q) /\ ctl[i] = q[i - 1])
  BY Tailed
<1>2. /\ (\A i \in 1 .. Len(ctl) : ctl[i].op # "online") => (online <=> asked.online)
      /\ \A i \in 1 .. Len(ctl) :
           ctl[i].op = "online" /\ (\A j \in 1 .. Len(ctl) : j > i => ctl[j].op # "online")
             => (ctl[i].on <=> asked.online)
  BY DEF AsksOnline
<1>3. ASSUME \A i \in 1 .. Len(q) : q[i].op # "online" PROVE on <=> asked.online
  <2>1. ASSUME NEW j \in 1 .. Len(ctl), j > 1 PROVE ctl[j].op # "online"
    <3>1. j - 1 \in 1 .. Len(q) /\ ctl[j] = q[j - 1] BY <1>1, <2>1
    <3> QED BY <1>3, <3>1
  <2>2. CASE c.op = "online" BY <1>1, <1>2, <2>1, <2>2
  <2>3. CASE c.op # "online"
    <3>1. \A j \in 1 .. Len(ctl) : ctl[j].op # "online" BY <1>1, <1>3, <2>3
    <3> QED BY <1>2, <2>3, <3>1
  <2> QED BY <2>2, <2>3
<1>4. ASSUME NEW i \in 1 .. Len(q), q[i].op = "online",
             \A j \in 1 .. Len(q) : j > i => q[j].op # "online"
      PROVE  q[i].on <=> asked.online
  <2>1. i + 1 \in 1 .. Len(ctl) /\ ctl[i + 1] = q[i] BY <1>1
  <2>2. ASSUME NEW j \in 1 .. Len(ctl), j > i + 1 PROVE ctl[j].op # "online"
    <3>1. j # 1 /\ j - 1 > i BY <2>2
    <3>2. j - 1 \in 1 .. Len(q) /\ ctl[j] = q[j - 1] BY <1>1, <3>1
    <3> QED BY <1>4, <3>1, <3>2
  <2> QED BY <1>2, <1>4, <2>1, <2>2
<1> QED BY <1>3, <1>4 DEF AsksOnline

\* The same of each switch.
LEMMA HeardEach ==
  ASSUME ctl \in Seq(Commands), ctl # <<>>, AsksEach(ctl, enabled), NEW c, c = Head(ctl),
         NEW q, q = Tail(ctl), NEW e \in SUBSET Source,
         \A x \in Source : Switches(c, x) => (x \in e <=> c.on),
         \A x \in Source : ~Switches(c, x) => (x \in e <=> x \in enabled)
  PROVE  AsksEach(q, e)
<1>1. /\ 1 \in 1 .. Len(ctl) /\ ctl[1] = c /\ Len(ctl) = Len(q) + 1 /\ Len(q) \in Nat
      /\ \A i \in 1 .. Len(q) : i + 1 \in 1 .. Len(ctl) /\ q[i] = ctl[i + 1]
      /\ \A i \in 1 .. Len(ctl) : i = 1 \/ (i - 1 \in 1 .. Len(q) /\ ctl[i] = q[i - 1])
  BY Tailed
<1> SUFFICES ASSUME NEW s \in Source
             PROVE  /\ (\A i \in 1 .. Len(q) : ~Switches(q[i], s))
                         => (s \in e <=> s \in asked.enabled)
                    /\ \A i \in 1 .. Len(q) :
                         Switches(q[i], s) /\ (\A j \in 1 .. Len(q) : j > i => ~Switches(q[j], s))
                           => (q[i].on <=> s \in asked.enabled)
  BY DEF AsksEach
<1>2. /\ (\A i \in 1 .. Len(ctl) : ~Switches(ctl[i], s)) => (s \in enabled <=> s \in asked.enabled)
      /\ \A i \in 1 .. Len(ctl) :
           Switches(ctl[i], s) /\ (\A j \in 1 .. Len(ctl) : j > i => ~Switches(ctl[j], s))
             => (ctl[i].on <=> s \in asked.enabled)
  BY DEF AsksEach
<1>3. ASSUME \A i \in 1 .. Len(q) : ~Switches(q[i], s) PROVE s \in e <=> s \in asked.enabled
  <2>1. \A j \in 1 .. Len(ctl) : j > 1 => ~Switches(ctl[j], s) BY <1>1, <1>3
  <2>2. CASE Switches(c, s) BY <1>1, <1>2, <2>1, <2>2
  <2>3. CASE ~Switches(c, s)
    <3>1. \A j \in 1 .. Len(ctl) : ~Switches(ctl[j], s) BY <1>1, <1>3, <2>3
    <3> QED BY <1>2, <2>3, <3>1
  <2> QED BY <2>2, <2>3
<1>4. ASSUME NEW i \in 1 .. Len(q), Switches(q[i], s),
             \A j \in 1 .. Len(q) : j > i => ~Switches(q[j], s)
      PROVE  q[i].on <=> s \in asked.enabled
  <2>1. i + 1 \in 1 .. Len(ctl) /\ ctl[i + 1] = q[i] BY <1>1
  <2>2. ASSUME NEW j \in 1 .. Len(ctl), j > i + 1 PROVE ~Switches(ctl[j], s)
    <3>1. j # 1 /\ j - 1 > i BY <2>2
    <3>2. j - 1 \in 1 .. Len(q) /\ ctl[j] = q[j - 1] BY <1>1, <3>1
    <3> QED BY <1>4, <3>1, <3>2
  <2> QED BY <1>2, <1>4, <2>1, <2>2
<1> QED BY <1>3, <1>4

\* A source still to be switched off is, before the worker goes online.
LEMMA HeardOff ==
  ASSUME ctl \in Seq(Commands), ctl # <<>>, OffFirst(ctl, enabled, online, userOn),
         enabled \in SUBSET Source, NEW c, c = Head(ctl), NEW q, q = Tail(ctl),
         NEW on \in BOOLEAN, c.op # "online" => on = online, NEW e \in SUBSET Source,
         \A x \in Source : Switches(c, x) => (x \in e <=> c.on),
         \A x \in Source : ~Switches(c, x) => (x \in e <=> x \in enabled)
  PROVE  OffFirst(q, e, on, userOn)
<1>1. /\ 1 \in 1 .. Len(ctl) /\ ctl[1] = c /\ Len(ctl) = Len(q) + 1 /\ Len(q) \in Nat
      /\ \A i \in 1 .. Len(q) : i + 1 \in 1 .. Len(ctl) /\ q[i] = ctl[i + 1]
      /\ \A i \in 1 .. Len(ctl) : i = 1 \/ (i - 1 \in 1 .. Len(q) /\ ctl[i] = q[i - 1])
  BY Tailed
<1>2. /\ online => enabled \subseteq userOn
      /\ \A i \in 1 .. Len(ctl) : ctl[i].op = "source" /\ ctl[i].on => ctl[i].source \in userOn
      /\ \A s \in enabled \ userOn :
           \E i \in 1 .. Len(ctl) :
             /\ Switches(ctl[i], s) /\ ~ctl[i].on
             /\ \A j \in 1 .. Len(ctl) : ctl[j].op = "online" => i < j
  BY DEF OffFirst
<1>3. \A s \in e \ userOn : s \in enabled \ userOn /\ ~Switches(c, s)
  <2> SUFFICES ASSUME NEW s \in e \ userOn PROVE s \in enabled \ userOn /\ ~Switches(c, s) OBVIOUS
  <2>1. ~Switches(c, s)
    <3>1. SUFFICES ASSUME Switches(c, s) PROVE FALSE OBVIOUS
    <3>2. c.op = "source" /\ c.on /\ c.source = s BY <3>1 DEF Switches
    <3> QED BY <1>1, <1>2, <3>2
  <2> QED BY <2>1
<1>4. on => e \subseteq userOn
  <2>1. CASE c.op = "online"
    <3>1. ASSUME NEW s \in e \ userOn PROVE FALSE
      <4>1. PICK i \in 1 .. Len(ctl) : \A j \in 1 .. Len(ctl) : ctl[j].op = "online" => i < j
        BY <1>2, <1>3
      <4>2. i < 1 BY <1>1, <2>1, <4>1
      <4> QED BY <4>2
    <3> QED BY <3>1
  <2>2. CASE c.op # "online" BY <1>2, <1>3, <2>2
  <2> QED BY <2>1, <2>2
<1>5. \A i \in 1 .. Len(q) : q[i].op = "source" /\ q[i].on => q[i].source \in userOn BY <1>1, <1>2
<1>6. ASSUME NEW s \in e \ userOn
      PROVE  \E i \in 1 .. Len(q) :
               /\ Switches(q[i], s) /\ ~q[i].on
               /\ \A j \in 1 .. Len(q) : q[j].op = "online" => i < j
  <2>1. PICK i \in 1 .. Len(ctl) :
          /\ Switches(ctl[i], s) /\ ~ctl[i].on
          /\ \A j \in 1 .. Len(ctl) : ctl[j].op = "online" => i < j
    BY <1>2, <1>3
  <2>2. i # 1 BY <1>1, <1>3, <2>1
  <2>3. i - 1 \in 1 .. Len(q) /\ q[i - 1] = ctl[i] BY <1>1, <2>2
  <2>4. ASSUME NEW j \in 1 .. Len(q), q[j].op = "online" PROVE i - 1 < j
    <3>1. j + 1 \in 1 .. Len(ctl) /\ ctl[j + 1].op = "online" BY <1>1, <2>4
    <3>2. i < j + 1 BY <2>1, <3>1
    <3> QED BY <3>2
  <2> QED BY <2>1, <2>3, <2>4
<1> QED BY <1>4, <1>5, <1>6 DEF OffFirst

\* Lines sent for the sources whose line changed are the last ones there.
LEMMA LinesSent ==
  ASSUME NEW q \in Seq(Messages), NEW st \in [Source -> Line], Arrives(q, st),
         NEW nw \in [Source -> Line], NEW ss \in SUBSET Source,
         \A s \in Source \ ss : nw[s] = st[s], NEW t \in Seq(Messages),
         \A j \in 1 .. Len(t) : t[j].kind = "status"
                                  => t[j].source \in ss /\ t[j].line = nw[t[j].source],
         \A s \in ss : \E j \in 1 .. Len(t) : Says(t[j], s), NEW r, r = q \o t
  PROVE  Arrives(r, nw)
<1>1. /\ Len(q) \in Nat /\ Len(t) \in Nat
      /\ \A i \in 1 .. Len(q) : i \in 1 .. Len(r) /\ r[i] = q[i]
      /\ \A j \in 1 .. Len(t) : Len(q) + j \in 1 .. Len(r) /\ r[Len(q) + j] = t[j]
      /\ \A i \in 1 .. Len(r) :
           i \in 1 .. Len(q) \/ (i - Len(q) \in 1 .. Len(t) /\ r[i] = t[i - Len(q)])
  <2>2. r = q \o t OBVIOUS
  <2>3. Len(q) \in Nat /\ Len(t) \in Nat BY LenProperties
  <2>4. \A i \in 1 .. Len(q) : i \in 1 .. Len(r) /\ r[i] = q[i] BY <2>2, Concat
  <2>5. \A j \in 1 .. Len(t) : Len(q) + j \in 1 .. Len(r) /\ r[Len(q) + j] = t[j]
    BY <2>2, Concat
  <2>6. \A i \in 1 .. Len(r) :
          i \in 1 .. Len(q) \/ (i - Len(q) \in 1 .. Len(t) /\ r[i] = t[i - Len(q)])
    BY <2>2, Concat
  <2> QED BY <2>3, <2>4, <2>5, <2>6
<1> SUFFICES ASSUME NEW s \in Source
             PROVE  /\ (\A i \in 1 .. Len(r) : ~Says(r[i], s)) => shown[s] = nw[s]
                    /\ \A i \in 1 .. Len(r) :
                         Says(r[i], s) /\ (\A j \in 1 .. Len(r) : j > i => ~Says(r[j], s))
                           => r[i].line = nw[s]
  BY DEF Arrives
<1>2. /\ (\A i \in 1 .. Len(q) : ~Says(q[i], s)) => shown[s] = st[s]
      /\ \A i \in 1 .. Len(q) :
           Says(q[i], s) /\ (\A j \in 1 .. Len(q) : j > i => ~Says(q[j], s))
             => q[i].line = st[s]
  BY DEF Arrives
<1>3. \A j \in 1 .. Len(t) : Says(t[j], s) => s \in ss /\ t[j].line = nw[s] BY DEF Says
<1>4. CASE s \in ss
  <2>1. PICK k \in 1 .. Len(t) : Says(t[k], s) BY <1>4
  <2>2. Len(q) + k \in 1 .. Len(r) /\ Says(r[Len(q) + k], s) BY <1>1, <2>1
  <2>3. ASSUME NEW i \in 1 .. Len(r), Says(r[i], s),
               \A j \in 1 .. Len(r) : j > i => ~Says(r[j], s)
        PROVE  r[i].line = nw[s]
    <3>1. ~(Len(q) + k > i) BY <2>2, <2>3
    <3>2. i \notin 1 .. Len(q) BY <1>1, <3>1
    <3>3. i - Len(q) \in 1 .. Len(t) /\ r[i] = t[i - Len(q)] BY <1>1, <3>2
    <3>4. PICK j \in 1 .. Len(t) : r[i] = t[j] BY <3>3
    <3> QED BY <1>3, <2>3, <3>4
  <2> QED BY <2>2, <2>3
<1>5. CASE s \notin ss
  <2>1. nw[s] = st[s] BY <1>5
  <2>2. \A j \in 1 .. Len(t) : ~Says(t[j], s) BY <1>3, <1>5
  <2>3. (\A i \in 1 .. Len(r) : ~Says(r[i], s)) => \A i \in 1 .. Len(q) : ~Says(q[i], s)
    BY <1>1
  <2>4. ASSUME NEW i \in 1 .. Len(r), Says(r[i], s),
               \A j \in 1 .. Len(r) : j > i => ~Says(r[j], s)
        PROVE  r[i].line = nw[s]
    <3>1. i \in 1 .. Len(q) /\ r[i] = q[i] BY <1>1, <2>2, <2>4
    <3>2. \A j \in 1 .. Len(q) : j > i => ~Says(q[j], s) BY <1>1, <2>4
    <3> QED BY <1>2, <2>1, <2>4, <3>1, <3>2
  <2> QED BY <1>2, <2>1, <2>3, <2>4
<1> QED BY <1>4, <1>5

\* Lines among the messages leave the batches where they are.
LEMMA LinesKeepOrder ==
  ASSUME NEW q \in Seq(Messages), NEW t, NEW n, NEW l, InOrder(t, q, n, l), NEW u \in Seq(Messages),
         \A j \in 1 .. Len(u) : u[j].kind = "status", NEW r, r = q \o u
  PROVE  InOrder(t, r, n, l)
<1>1. /\ Len(q) \in Nat /\ Len(u) \in Nat
      /\ \A i \in 1 .. Len(q) : i \in 1 .. Len(r) /\ r[i] = q[i]
      /\ \A j \in 1 .. Len(u) : Len(q) + j \in 1 .. Len(r) /\ r[Len(q) + j] = u[j]
      /\ \A i \in 1 .. Len(r) :
           i \in 1 .. Len(q) \/ (i - Len(q) \in 1 .. Len(u) /\ r[i] = u[i - Len(q)])
  BY Concat
<1>2. \A i \in 1 .. Len(r) : r[i].kind = "batch" => i \in 1 .. Len(q) /\ r[i] = q[i] BY <1>1
<1>3. \A k \in Nat : (\E j \in 1 .. Len(r) : r[j].kind = "batch" /\ r[j].number = k)
               <=> (\E j \in 1 .. Len(q) : q[j].kind = "batch" /\ q[j].number = k)
  BY <1>1, <1>2
<1>4. \A i, j \in 1 .. Len(r) : i < j /\ r[i].kind = "batch" /\ r[j].kind = "batch"
                                  => r[i].number < r[j].number
  BY <1>2 DEF InOrder
<1>5. \A i \in 1 .. Len(t), j \in 1 .. Len(r) : r[j].kind = "batch" => t[i] < r[j].number
  BY <1>2 DEF InOrder
<1>6. \A k \in Nat : k \in (1 .. n) \ l
        <=> \/ \E i \in 1 .. Len(t) : t[i] = k
            \/ \E j \in 1 .. Len(q) : q[j].kind = "batch" /\ q[j].number = k
  BY DEF InOrder
<1>7. \A k \in Nat : k \in (1 .. n) \ l
        <=> \/ \E i \in 1 .. Len(t) : t[i] = k
            \/ \E j \in 1 .. Len(r) : r[j].kind = "batch" /\ r[j].number = k
  BY <1>3, <1>6
<1>8. l \subseteq 1 .. n /\ \A i, j \in 1 .. Len(t) : i < j => t[i] < t[j] BY DEF InOrder
<1> QED BY <1>4, <1>5, <1>7, <1>8 DEF InOrder

\* What is common to the three commands.
LEMMA HearKeeps ==
  ASSUME IInv, busy = Nobody, ctl # <<>>, ctl' = Tail(ctl), NEW c, c = Head(ctl),
         UNCHANGED <<appOnline, shown, userVars, storeVars, busy, reported>>,
         online' \in BOOLEAN, c.op = "online" => (online' <=> c.on), c.op # "online" => online' = online,
         enabled' \in SUBSET Source, \A x \in Source : Switches(c, x) => (x \in enabled' <=> c.on),
         \A x \in Source : ~Switches(c, x) => (x \in enabled' <=> x \in enabled),
         next' \in [Source -> {"due", "cadence", "backoff"}], status' \in [Source -> Line],
         socket' \in BOOLEAN, NEW t \in Seq(Messages), rx' = rx \o t,
         \A i \in 1 .. Len(t) : t[i].kind = "status"
  PROVE  /\ TypeOK' /\ CycleRuns' /\ (Len(pending) <= 1)' /\ InOrder(Handed, rx, reported, lost)'
         /\ AsksOnline(ctl, online)' /\ AsksEach(ctl, enabled)'
         /\ OffFirst(ctl, enabled, online, userOn)'
<1>1. /\ ctl \in Seq(Commands) /\ rx \in Seq(Messages) /\ enabled \in SUBSET Source
      /\ AsksOnline(ctl, online) /\ AsksEach(ctl, enabled)
      /\ OffFirst(ctl, enabled, online, userOn) /\ InOrder(Handed, rx, reported, lost)
  BY DEF IInv, TypeOK
<1>2. PICK q, on, e : q = ctl' /\ on = online' /\ e = enabled' OBVIOUS
<1>3. q \in Seq(Commands) BY <1>1, <1>2, Tailed
<1>4. AsksOnline(q, on) BY <1>1, <1>2, HeardOnline
<1>5. AsksEach(q, e) BY <1>1, <1>2, HeardEach
<1>6. OffFirst(q, e, on, userOn) BY <1>1, <1>2, HeardOff
<1>7. PICK r, o : r = rx' /\ o = Handed OBVIOUS
<1>8. r \in Seq(Messages) BY <1>1, <1>7, Concat
<1>9. InOrder(o, r, reported, lost) BY <1>1, <1>7, LinesKeepOrder
<1>10. Handed' = o BY <1>7 DEF Handed, storeVars
<1>11. InOrder(Handed, rx, reported, lost)'
  <2>1. InOrder(Handed', rx', reported', lost')
    <3>1. Handed' = o /\ rx' = r /\ reported' = reported /\ lost' = lost BY <1>7, <1>10 DEF storeVars
    <3> QED BY <1>9, <3>1
  <2> QED BY <2>1 DEF InOrder
<1>12. asked' = asked /\ userOn' = userOn BY DEF userVars
<1>13. AsksOnline(ctl, online)' BY <1>2, <1>4, <1>12 DEF AsksOnline
<1>14. AsksEach(ctl, enabled)'
  <2>1. PICK v : v = asked.enabled OBVIOUS
  <2>2. asked'.enabled = v BY <1>12, <2>1
  <2>3. \A s \in Source :
          /\ (\A i \in 1 .. Len(q) : ~Switches(q[i], s)) => (s \in e <=> s \in v)
          /\ \A i \in 1 .. Len(q) :
               Switches(q[i], s) /\ (\A j \in 1 .. Len(q) : j > i => ~Switches(q[j], s))
                 => (q[i].on <=> s \in v)
    BY <1>5, <2>1 DEF AsksEach
  <2>4. \A s \in Source :
          /\ (\A i \in 1 .. Len(ctl') : ~Switches(ctl'[i], s))
               => (s \in enabled' <=> s \in asked'.enabled)
          /\ \A i \in 1 .. Len(ctl') :
               Switches(ctl'[i], s) /\ (\A j \in 1 .. Len(ctl') : j > i => ~Switches(ctl'[j], s))
                 => (ctl'[i].on <=> s \in asked'.enabled)
    <3>1. q = ctl' /\ e = enabled' /\ v = asked'.enabled BY <1>2, <2>2
    <3> QED BY <2>3, <3>1, Zenon
  <2> QED BY <2>4, Zenon DEF AsksEach, Switches
<1>15. OffFirst(ctl, enabled, online, userOn)'
  <2>1. PICK u : u = userOn OBVIOUS
  <2>2. /\ on => e \subseteq u
        /\ \A i \in 1 .. Len(q) : q[i].op = "source" /\ q[i].on => q[i].source \in u
        /\ \A s \in e \ u :
             \E i \in 1 .. Len(q) :
               /\ Switches(q[i], s) /\ ~q[i].on
               /\ \A j \in 1 .. Len(q) : q[j].op = "online" => i < j
    BY <1>6, <2>1, Zenon DEF OffFirst
  <2>3. q = ctl' /\ on = online' /\ e = enabled' /\ u = userOn' BY <1>2, <1>12, <2>1
  <2>4. /\ online' => enabled' \subseteq userOn'
        /\ \A i \in 1 .. Len(ctl') :
             ctl'[i].op = "source" /\ ctl'[i].on => ctl'[i].source \in userOn'
        /\ \A s \in enabled' \ userOn' :
             \E i \in 1 .. Len(ctl') :
               /\ Switches(ctl'[i], s) /\ ~ctl'[i].on
               /\ \A j \in 1 .. Len(ctl') : ctl'[j].op = "online" => i < j
    BY <2>2, <2>3, Zenon
  <2> QED BY <2>4, Zenon DEF OffFirst, Switches
<1>16. TypeOK' BY <1>2, <1>3, <1>7, <1>8 DEF IInv, TypeOK, userVars, storeVars
<1>17. CycleRuns' BY DEF CycleRuns
<1>18. (Len(pending) <= 1)' BY DEF IInv, storeVars
<1> QED BY <1>11, <1>13, <1>14, <1>15, <1>16, <1>17, <1>18

\* SetOnline: every line is sent.
LEMMA HearOnlineStep ==
  ASSUME IInv, Hear, Head(ctl).op = "online"
  PROVE  IInv'
<1>1. PICK c : c = Head(ctl) OBVIOUS
<1>2. ctl \in Seq(Commands) /\ ctl # <<>> /\ busy = Nobody /\ ctl' = Tail(ctl)
  BY DEF IInv, TypeOK, Hear
<1>3. c \in Commands /\ c.op = "online" BY <1>1, <1>2, Tailed
<1>4. c \in [op : {"online"}, on : BOOLEAN] BY <1>3 DEF Commands, FetchNow
<1>5. PICK b \in BOOLEAN : b = c.on BY <1>4
<1>6. HearOnline(b) /\ UNCHANGED <<appOnline, shown, userVars, storeVars>>
  BY <1>1, <1>3, <1>5 DEF Hear
<1>7. PICK nw : nw = AfterOnline(b) OBVIOUS
<1>8. PICK t : t = Statuses(Source, nw) OBVIOUS
<1>9. /\ online' = b /\ status' = nw /\ socket' = Synced(b) /\ rx' = rx \o t
      /\ next' = [s \in Source |-> IF b /\ s \in enabled /\ s \in Available THEN Restarted(s)
                                   ELSE next[s]]
      /\ UNCHANGED <<enabled, busy, reported>>
  BY <1>6, <1>7, <1>8 DEF HearOnline
<1>10. /\ enabled \in SUBSET Source /\ status \in [Source -> Line] /\ rx \in Seq(Messages)
       /\ next \in [Source -> {"due", "cadence", "backoff"}] /\ Arrives(rx, status)
  BY DEF IInv, TypeOK
<1>11. ASSUME NEW s \in Source
       PROVE  /\ nw[s] \in Line /\ (nw[s].online <=> b /\ s \in enabled /\ s \in Available)
              /\ b => IF s \notin enabled THEN nw[s].detail = "off"
                      ELSE s \in Available => nw[s].detail = "fetching"
  <2>1. PICK old \in Line : old = status[s] BY <1>10
  <2>2. PICK live \in BOOLEAN : live = (b /\ s \in enabled /\ s \in Available) OBVIOUS
  <2>3. PICK d \in BOOLEAN : d = (b /\ old.degraded) OBVIOUS
  <2>4. PICK h \in BOOLEAN : h = (b /\ s \in enabled /\ old.scheduled) OBVIOUS
  <2>5. PICK x : x = IF ~b THEN "paused" ELSE IF s \notin enabled THEN "off"
                     ELSE IF live THEN "fetching" ELSE old.detail
    OBVIOUS
  <2>6. nw[s] = [online |-> live, degraded |-> d, scheduled |-> h, detail |-> x]
    BY <1>7, <2>1, <2>2, <2>3, <2>4, <2>5 DEF AfterOnline
  <2>7. x \in Details BY <2>5 DEF Line, Details
  <2>8. nw[s] \in Line BY <2>6, <2>7 DEF Line
  <2>9. nw[s].online = live /\ nw[s].detail = x BY <2>6
  <2> QED BY <2>2, <2>5, <2>8, <2>9
<1>12. nw \in [Source -> Line] BY <1>7, <1>11 DEF AfterOnline
<1>13. /\ t \in Seq(Messages) /\ Len(t) \in Nat
       /\ \A i \in 1 .. Len(t) : t[i].kind = "status" /\ t[i].source \in Source
                                 /\ t[i].line = nw[t[i].source]
       /\ \A s \in Source : \E i \in 1 .. Len(t) : t[i].source = s
  <2>1. PICK ss \in SUBSET Source : ss = Source OBVIOUS
  <2>2. PICK st \in [Source -> Line] : st = nw BY <1>12
  <2>3. t = Statuses(ss, st) BY <1>8, <2>1, <2>2
  <2>4. /\ t \in Seq(Messages) /\ Len(t) \in Nat
        /\ \A i \in 1 .. Len(t) : t[i].kind = "status" /\ t[i].source \in ss
                                  /\ t[i].line = st[t[i].source]
    BY <2>3, StatusesAre
  <2>5. ASSUME NEW s \in ss PROVE \E i \in 1 .. Len(t) : t[i].source = s BY <2>3, EveryLineIs
  <2> QED BY <2>1, <2>2, <2>4, <2>5
<1>14. \A x \in Source : ~Switches(c, x) BY <1>3 DEF Switches
<1>15. next' \in [Source -> {"due", "cadence", "backoff"}] BY <1>9, <1>10 DEF Restarted
<1>16. socket' \in BOOLEAN /\ SocketFollows'
  <2>1. Synced(b)' <=> Synced(b) BY <1>9 DEF Synced
  <2> QED BY <1>9, <2>1 DEF Synced, SocketFollows
<1>17. /\ TypeOK' /\ CycleRuns' /\ (Len(pending) <= 1)' /\ InOrder(Handed, rx, reported, lost)'
       /\ AsksOnline(ctl, online)' /\ AsksEach(ctl, enabled)'
       /\ OffFirst(ctl, enabled, online, userOn)'
  BY <1>1, <1>2, <1>3, <1>5, <1>6, <1>9, <1>10, <1>12, <1>13, <1>14, <1>15, <1>16, HearKeeps
<1>18. LinesHonest(status, online, enabled)' BY <1>9, <1>11 DEF LinesHonest
<1>19. PICK r : r = rx' OBVIOUS
<1>20. \A s \in Source : \E i \in 1 .. Len(t) : Says(t[i], s) BY <1>13 DEF Says
<1>21. Arrives(r, nw) BY <1>9, <1>10, <1>12, <1>13, <1>19, <1>20, LinesSent
<1>22. Arrives(rx, status)' BY <1>6, <1>9, <1>19, <1>21 DEF Arrives, Says
<1>23. Boxed(ctl, rx)'
  <2>1. \A j \in 1 .. Len(t) : Len(rx) + j \in 1 .. Len(r) /\ r[Len(rx) + j] = t[j]
    BY <1>9, <1>10, <1>13, <1>19, Concat
  <2>2. PICK i \in 1 .. Len(t) : t[i].source = Gdelt BY <1>13, SourceAssumption
  <2>3. Len(rx) + i \in 1 .. Len(r) /\ r[Len(rx) + i].kind = "status"
    <3>1. Len(rx) + i \in 1 .. Len(r) /\ r[Len(rx) + i] = t[i] BY <2>1
    <3>2. t[i].kind = "status" BY <1>13
    <3> QED BY <3>1, <3>2
  <2>4. \E n \in 1 .. Len(r) : r[n].kind = "status" BY <2>3
  <2> QED BY <1>19, <2>4 DEF Boxed
<1> QED BY <1>16, <1>17, <1>18, <1>22, <1>23 DEF IInv

\* Nothing is sent: the lines and the box stay what they were.
LEMMA NothingSent ==
  ASSUME IInv, ctl # <<>>, ctl' = Tail(ctl), Head(ctl).op # "online",
         UNCHANGED <<rx, shown, status, appOnline>>
  PROVE  Arrives(rx, status)' /\ Boxed(ctl, rx)'
<1>1. ctl \in Seq(Commands) /\ Arrives(rx, status) /\ Boxed(ctl, rx) BY DEF IInv, TypeOK
<1>2. PICK q : q = ctl' OBVIOUS
<1>3. /\ ctl[1] = Head(ctl)
      /\ \A i \in 1 .. Len(ctl) : i = 1 \/ (i - 1 \in 1 .. Len(q) /\ ctl[i] = q[i - 1])
  BY <1>1, <1>2, Tailed
<1>4. (\A i \in 1 .. Len(q) : q[i].op # "online") => \A i \in 1 .. Len(ctl) : ctl[i].op # "online"
  <2> SUFFICES ASSUME \A i \in 1 .. Len(q) : q[i].op # "online", NEW i \in 1 .. Len(ctl)
               PROVE  ctl[i].op # "online"
    OBVIOUS
  <2>1. CASE i = 1 BY <1>3, <2>1
  <2>2. CASE i # 1
    <3>1. i - 1 \in 1 .. Len(q) /\ ctl[i] = q[i - 1] BY <1>3, <2>2
    <3> QED BY <3>1
  <2> QED BY <2>1, <2>2
<1>5. Boxed(ctl, rx)' BY <1>1, <1>2, <1>4 DEF Boxed
<1>6. Arrives(rx, status)' BY <1>1 DEF Arrives, Says
<1> QED BY <1>5, <1>6

\* SetSourceEnabled: the line of the source is sent, if the switch moves.
LEMMA HearEnabledStep ==
  ASSUME IInv, Hear, Head(ctl).op = "source"
  PROVE  IInv'
<1>1. PICK c : c = Head(ctl) OBVIOUS
<1>2. ctl \in Seq(Commands) /\ ctl # <<>> /\ busy = Nobody /\ ctl' = Tail(ctl)
  BY DEF IInv, TypeOK, Hear
<1>3. c \in Commands /\ c.op = "source" BY <1>1, <1>2, Tailed
<1>4. c \in [op : {"source"}, source : Source, on : BOOLEAN] BY <1>3 DEF Commands, FetchNow
<1>5. PICK b \in BOOLEAN, s \in Source : b = c.on /\ s = c.source BY <1>4
<1>6. HearEnabled(s, b) /\ UNCHANGED <<appOnline, shown, userVars, storeVars>>
  BY <1>1, <1>3, <1>5 DEF Hear
<1>7. /\ enabled \in SUBSET Source /\ status \in [Source -> Line] /\ rx \in Seq(Messages)
      /\ online \in BOOLEAN /\ socket \in BOOLEAN
      /\ next \in [Source -> {"due", "cadence", "backoff"}] /\ Arrives(rx, status)
      /\ Boxed(ctl, rx) /\ LinesHonest(status, online, enabled) /\ SocketFollows
  BY DEF IInv, TypeOK
<1>8. \A x \in Source : Switches(c, x) <=> x = s BY <1>3, <1>5 DEF Switches
<1>9. CASE (s \in enabled) = b
  <2>1. UNCHANGED <<workerVars, rx>> BY <1>6, <1>9 DEF HearEnabled
  <2>2. PICK t \in Seq(Messages) : t = <<>> BY EmptySeq
  <2>3. rx' = rx \o t /\ Len(t) = 0 BY <1>7, <2>1, <2>2, ConcatEmptySeq
  <2>4. enabled' = enabled /\ \A x \in Source : Switches(c, x) => (x \in enabled' <=> c.on)
    BY <1>5, <1>8, <1>9, <2>1 DEF workerVars
  <2>5. /\ TypeOK' /\ CycleRuns' /\ (Len(pending) <= 1)' /\ InOrder(Handed, rx, reported, lost)'
        /\ AsksOnline(ctl, online)' /\ AsksEach(ctl, enabled)'
        /\ OffFirst(ctl, enabled, online, userOn)'
    <3>1. \A i \in 1 .. Len(t) : t[i].kind = "status" BY <2>3
    <3>2. /\ online' = online /\ enabled' = enabled /\ next' = next /\ status' = status
          /\ socket' = socket /\ busy' = busy /\ reported' = reported
      BY <2>1 DEF workerVars
    <3>3. c.op # "online" BY <1>3
    <3> QED BY <1>1, <1>2, <1>6, <1>7, <2>3, <2>4, <3>1, <3>2, <3>3, HearKeeps
  <2>6. Arrives(rx, status)' /\ Boxed(ctl, rx)'
    BY <1>1, <1>2, <1>3, <1>6, <2>1, NothingSent DEF workerVars
  <2>7. LinesHonest(status, online, enabled)' BY <1>7, <2>1 DEF LinesHonest, workerVars
  <2>8. SocketFollows' BY <1>7, <2>1 DEF SocketFollows, Synced, workerVars
  <2> QED BY <2>5, <2>6, <2>7, <2>8 DEF IInv
<1>10. CASE (s \in enabled) # b
  <2>1. PICK live \in BOOLEAN : live = (b /\ online /\ s \in Available) OBVIOUS
  <2>2. PICK e : e = IF b THEN enabled \cup {s} ELSE enabled \ {s} OBVIOUS
  <2>3. PICK nw : nw = [status EXCEPT ![s] =
                         [online |-> live, degraded |-> FALSE, scheduled |-> live /\ @.scheduled,
                          detail |-> IF ~b THEN "off" ELSE IF live THEN "fetching" ELSE "waiting"]]
    OBVIOUS
  <2>x. PICK ss \in SUBSET Source : ss = {s} OBVIOUS
  <2>4. PICK t : t = Statuses(ss, nw) OBVIOUS
  <2>5. /\ enabled' = e /\ status' = nw /\ rx' = rx \o t
        /\ next' = (IF live THEN [next EXCEPT ![s] = Restarted(s)] ELSE next)
        /\ socket' = (IF s = Stream /\ Stream \in Available THEN b /\ online ELSE socket)
        /\ UNCHANGED <<online, busy, reported>>
    BY <1>6, <1>10, <2>1, <2>2, <2>3, <2>x, <2>4 DEF HearEnabled
  <2>6. e \in SUBSET Source /\ (s \in e <=> b) /\ \A x \in Source \ {s} : x \in e <=> x \in enabled
    BY <1>7, <2>2
  <2>7. /\ nw \in [Source -> Line] /\ \A x \in Source \ {s} : nw[x] = status[x]
        /\ (nw[s].online <=> live)
        /\ nw[s].detail = IF ~b THEN "off" ELSE IF live THEN "fetching" ELSE "waiting"
    <3>1. PICK old \in Line : old = status[s] BY <1>7
    <3>2. PICK h \in BOOLEAN : h = (live /\ old.scheduled) OBVIOUS
    <3>3. PICK d \in Details : d = IF ~b THEN "off" ELSE IF live THEN "fetching" ELSE "waiting"
      BY DEF Details
    <3>4. PICK l : l = [online |-> live, degraded |-> FALSE, scheduled |-> h, detail |-> d] OBVIOUS
    <3>5. l \in Line /\ l.online = live /\ l.detail = d BY <3>4 DEF Line
    <3>6. nw = [status EXCEPT ![s] = l] BY <2>3, <3>1, <3>2, <3>3, <3>4
    <3>7. nw \in [Source -> Line] BY <1>7, <3>5, <3>6
    <3>8. nw[s] = l BY <1>7, <3>6
    <3>9. \A x \in Source \ {s} : nw[x] = status[x] BY <1>7, <3>6
    <3> QED BY <3>3, <3>5, <3>7, <3>8, <3>9
  <2>8. /\ t \in Seq(Messages) /\ Len(t) \in Nat
        /\ \A i \in 1 .. Len(t) : t[i].kind = "status" /\ t[i].source \in {s}
                                  /\ t[i].line = nw[t[i].source]
        /\ \A x \in {s} : \E i \in 1 .. Len(t) : t[i].source = x
    <3>1. PICK st \in [Source -> Line] : st = nw BY <2>7
    <3>2. t = Statuses(ss, st) BY <2>4, <3>1
    <3>3. /\ t \in Seq(Messages) /\ Len(t) \in Nat
          /\ \A i \in 1 .. Len(t) : t[i].kind = "status" /\ t[i].source \in ss
                                    /\ t[i].line = st[t[i].source]
      BY <3>2, StatusesAre
    <3>4. \E i \in 1 .. Len(t) : t[i].source = s
      <4>1. s \in ss BY <2>x
      <4> QED BY <3>2, <4>1, EveryLineIs
    <3> QED BY <2>x, <3>1, <3>3, <3>4
  <2>9. next' \in [Source -> {"due", "cadence", "backoff"}] BY <1>7, <2>5 DEF Restarted
  <2>10. socket' \in BOOLEAN BY <1>7, <2>5
  <2>11. /\ TypeOK' /\ CycleRuns' /\ (Len(pending) <= 1)' /\ InOrder(Handed, rx, reported, lost)'
         /\ AsksOnline(ctl, online)' /\ AsksEach(ctl, enabled)'
         /\ OffFirst(ctl, enabled, online, userOn)'
    <3>1. /\ enabled' \in SUBSET Source
          /\ \A x \in Source : Switches(c, x) => (x \in enabled' <=> c.on)
          /\ \A x \in Source : ~Switches(c, x) => (x \in enabled' <=> x \in enabled)
      BY <1>5, <1>8, <2>5, <2>6
    <3>2. online' \in BOOLEAN /\ online' = online /\ c.op # "online" BY <1>3, <1>7, <2>5
    <3>3. status' \in [Source -> Line] BY <2>5, <2>7
    <3>4. \A i \in 1 .. Len(t) : t[i].kind = "status" BY <2>8
    <3>5. UNCHANGED <<appOnline, shown, userVars, storeVars, busy, reported>> BY <1>6, <2>5
    <3> QED BY <1>1, <1>2, <2>5, <2>8, <2>9, <2>10, <3>1, <3>2, <3>3, <3>4, <3>5, HearKeeps
  <2>12. LinesHonest(status, online, enabled)'
    <3>1. ASSUME NEW x \in Source
          PROVE  /\ nw[x].online <=> online /\ x \in e /\ x \in Available
                 /\ online => IF x \notin e THEN nw[x].detail = "off"
                              ELSE x \in Available => nw[x].detail \in {"fetching", "ok", "failed"}
      <4>1. CASE x = s BY <2>1, <2>6, <2>7, <4>1
      <4>2. CASE x # s
        <5>1. nw[x] = status[x] /\ (x \in e <=> x \in enabled) BY <2>6, <2>7, <4>2
        <5> QED BY <1>7, <5>1 DEF LinesHonest
      <4> QED BY <4>1, <4>2
    <3> QED BY <2>5, <3>1 DEF LinesHonest
  <2>13. SocketFollows'
    <3>1. socket <=> Stream \in Available /\ online /\ Stream \in enabled
      BY <1>7 DEF SocketFollows, Synced
    <3>2. socket' <=> Stream \in Available /\ online /\ Stream \in e
      <4>1. CASE s = Stream /\ Stream \in Available BY <2>5, <2>6, <4>1
      <4>2. CASE ~(s = Stream /\ Stream \in Available)
        <5>1. socket' = socket BY <2>5, <4>2
        <5>2. Stream \in Available => (Stream \in e <=> Stream \in enabled)
          BY <2>6, <4>2, SourceAssumption
        <5> QED BY <3>1, <5>1, <5>2
      <4> QED BY <4>1, <4>2
    <3> QED BY <2>5, <3>2 DEF SocketFollows, Synced
  <2>14. PICK r : r = rx' OBVIOUS
  <2>15. Arrives(r, nw)
    <3>2. \A x \in ss : \E i \in 1 .. Len(t) : Says(t[i], x) BY <2>8, <2>x DEF Says
    <3>3. \A x \in Source \ ss : nw[x] = status[x] BY <2>7, <2>x
    <3>4. \A j \in 1 .. Len(t) : t[j].kind = "status" => t[j].source \in ss /\ t[j].line = nw[t[j].source]
      BY <2>8, <2>x
    <3> QED BY <1>7, <2>5, <2>7, <2>8, <2>14, <3>2, <3>3, <3>4, LinesSent
  <2>16. Arrives(rx, status)' BY <1>6, <2>5, <2>14, <2>15 DEF Arrives, Says
  <2>17. Boxed(ctl, rx)'
    <3>1. \A j \in 1 .. Len(t) : Len(rx) + j \in 1 .. Len(r) /\ r[Len(rx) + j] = t[j]
      BY <1>7, <2>5, <2>8, <2>14, Concat
    <3>2. PICK i \in 1 .. Len(t) : t[i].source = s BY <2>8
    <3>3. Len(rx) + i \in 1 .. Len(r) /\ r[Len(rx) + i].kind = "status"
      <4>1. Len(rx) + i \in 1 .. Len(r) /\ r[Len(rx) + i] = t[i] BY <3>1
      <4>2. t[i].kind = "status" BY <2>8
      <4> QED BY <4>1, <4>2
    <3>4. \E n \in 1 .. Len(r) : r[n].kind = "status" BY <3>3
    <3> QED BY <2>14, <3>4 DEF Boxed
  <2> QED BY <2>11, <2>12, <2>13, <2>16, <2>17 DEF IInv
<1> QED BY <1>9, <1>10

\* FetchNow: timers only.
LEMMA HearFetchStep ==
  ASSUME IInv, Hear, Head(ctl).op = "fetch"
  PROVE  IInv'
<1>1. PICK c : c = Head(ctl) OBVIOUS
<1>2. ctl \in Seq(Commands) /\ ctl # <<>> /\ busy = Nobody /\ ctl' = Tail(ctl)
  BY DEF IInv, TypeOK, Hear
<1>3. HearFetch /\ UNCHANGED <<appOnline, shown, userVars, storeVars>> BY DEF Hear
<1>4. /\ next' = [s \in Source |-> IF Running(s) THEN "due" ELSE next[s]]
      /\ UNCHANGED <<online, enabled, busy, status, socket, reported, rx>>
  BY <1>3 DEF HearFetch
<1>5. /\ enabled \in SUBSET Source /\ status \in [Source -> Line] /\ rx \in Seq(Messages)
      /\ online \in BOOLEAN /\ socket \in BOOLEAN
      /\ next \in [Source -> {"due", "cadence", "backoff"}]
      /\ LinesHonest(status, online, enabled) /\ SocketFollows
  BY DEF IInv, TypeOK
<1>6. next' \in [Source -> {"due", "cadence", "backoff"}] BY <1>4, <1>5
<1>7. \A x \in Source : ~Switches(c, x) BY <1>1 DEF Switches
<1>8. PICK t \in Seq(Messages) : t = <<>> BY EmptySeq
<1>9. rx' = rx \o t /\ \A i \in 1 .. Len(t) : t[i].kind = "status"
  <2>1. rx \o t = rx /\ Len(t) = 0 BY <1>5, <1>8, ConcatEmptySeq
  <2> QED BY <1>4, <2>1
<1>10. /\ TypeOK' /\ CycleRuns' /\ (Len(pending) <= 1)' /\ InOrder(Handed, rx, reported, lost)'
       /\ AsksOnline(ctl, online)' /\ AsksEach(ctl, enabled)'
       /\ OffFirst(ctl, enabled, online, userOn)'
  <2>1. c.op # "online" BY <1>1
  <2>2. \A x \in Source : ~Switches(c, x) => (x \in enabled' <=> x \in enabled) BY <1>4
  <2>3. UNCHANGED <<appOnline, shown, userVars, storeVars, busy, reported>> BY <1>3, <1>4
  <2> QED BY <1>1, <1>2, <1>4, <1>5, <1>6, <1>7, <1>9, <2>1, <2>2, <2>3, HearKeeps
<1>11. Arrives(rx, status)' /\ Boxed(ctl, rx)' BY <1>2, <1>3, <1>4, NothingSent
<1>12. LinesHonest(status, online, enabled)' BY <1>4, <1>5 DEF LinesHonest
<1>13. SocketFollows' BY <1>4, <1>5 DEF SocketFollows, Synced
<1> QED BY <1>10, <1>11, <1>12, <1>13 DEF IInv

\* The three commands.
LEMMA HearStep == IInv /\ Hear => IInv'
<1> SUFFICES ASSUME IInv, Hear PROVE IInv' OBVIOUS
<1>1. ctl \in Seq(Commands) /\ ctl # <<>> BY DEF IInv, TypeOK, Hear
<1>2. PICK c \in Commands : c = Head(ctl) BY <1>1, Tailed
<1>3. c.op \in {"online", "source", "fetch"} BY DEF Commands, FetchNow
<1> QED BY <1>2, <1>3, HearOnlineStep, HearEnabledStep, HearFetchStep

-----------------------------------------------------------------------------
\* Timers and cycles.

\* A timer touches nothing the invariant speaks of.
LEMMA ElapseStep == ASSUME IInv, NEW s \in Source, Elapse(s) PROVE IInv'
<1>1. /\ next' = [next EXCEPT ![s] = "due"]
      /\ UNCHANGED <<appOnline, ctl, rx, shown, userVars, storeVars,
                     online, enabled, busy, status, socket, reported>>
  BY DEF Elapse
<1>2. next' \in [Source -> {"due", "cadence", "backoff"}] BY <1>1 DEF IInv, TypeOK
<1>3. TypeOK' BY <1>1, <1>2 DEF IInv, TypeOK, userVars, storeVars
<1>4. AsksOnline(ctl, online)' BY <1>1 DEF IInv, AsksOnline, userVars
<1>5. AsksEach(ctl, enabled)' BY <1>1 DEF IInv, AsksEach, Switches, userVars
<1>6. OffFirst(ctl, enabled, online, userOn)' BY <1>1 DEF IInv, OffFirst, Switches, userVars
<1>7. Boxed(ctl, rx)' BY <1>1 DEF IInv, Boxed
<1>8. LinesHonest(status, online, enabled)' BY <1>1 DEF IInv, LinesHonest
<1>9. SocketFollows' /\ CycleRuns' BY <1>1 DEF IInv, SocketFollows, Synced, CycleRuns, Running
<1>10. Arrives(rx, status)' BY <1>1 DEF IInv, Arrives, Says
<1>11. InOrder(Handed, rx, reported, lost)' /\ (Len(pending) <= 1)'
  BY <1>1 DEF IInv, InOrder, Handed, storeVars
<1> QED BY <1>3, <1>4, <1>5, <1>6, <1>7, <1>8, <1>9, <1>10, <1>11 DEF IInv

\* A cycle starts only for a source that runs.
LEMMA StartCycleStep == ASSUME IInv, NEW s \in Source, StartCycle(s) PROVE IInv'
<1>1. /\ Running(s) /\ busy' = s
      /\ UNCHANGED <<appOnline, ctl, rx, shown, userVars, storeVars,
                     online, enabled, next, status, socket, reported>>
  BY DEF StartCycle
<1>3. TypeOK' BY <1>1 DEF IInv, TypeOK, userVars, storeVars
<1>4. AsksOnline(ctl, online)' BY <1>1 DEF IInv, AsksOnline, userVars
<1>5. AsksEach(ctl, enabled)' BY <1>1 DEF IInv, AsksEach, Switches, userVars
<1>6. OffFirst(ctl, enabled, online, userOn)' BY <1>1 DEF IInv, OffFirst, Switches, userVars
<1>7. Boxed(ctl, rx)' BY <1>1 DEF IInv, Boxed
<1>8. LinesHonest(status, online, enabled)' BY <1>1 DEF IInv, LinesHonest
<1>9. SocketFollows' BY <1>1 DEF IInv, SocketFollows, Synced
<1>10. CycleRuns' BY <1>1 DEF CycleRuns, Running
<1>11. Arrives(rx, status)' BY <1>1 DEF IInv, Arrives, Says
<1>12. InOrder(Handed, rx, reported, lost)' /\ (Len(pending) <= 1)'
  BY <1>1 DEF IInv, InOrder, Handed, storeVars
<1> QED BY <1>3, <1>4, <1>5, <1>6, <1>7, <1>8, <1>9, <1>10, <1>11, <1>12 DEF IInv

\* A batch is numbered after all that came before.
LEMMA BatchKeepsOrder ==
  ASSUME NEW q \in Seq(Messages), NEW t \in Seq(Nat), NEW n \in Nat, NEW l, InOrder(t, q, n, l),
         NEW r, r = Append(q, Loaded(n + 1))
  PROVE  r \in Seq(Messages) /\ InOrder(t, r, n + 1, l)
<1>1. PICK m : m = Loaded(n + 1) OBVIOUS
<1>2. m \in Messages /\ m.kind = "batch" /\ m.number = n + 1 BY <1>1 DEF Loaded, Messages
<1>3. /\ r \in Seq(Messages) /\ Len(q) \in Nat
      /\ Len(r) \in 1 .. Len(r) /\ r[Len(r)] = m
      /\ \A i \in 1 .. Len(q) : i \in 1 .. Len(r) /\ r[i] = q[i] /\ i < Len(r)
      /\ \A i \in 1 .. Len(r) : i \in 1 .. Len(q) \/ i = Len(r)
  BY <1>1, <1>2, Appended
<1>4. /\ l \subseteq 1 .. n
      /\ \A i, j \in 1 .. Len(t) : i < j => t[i] < t[j]
      /\ \A i, j \in 1 .. Len(q) : i < j /\ q[i].kind = "batch" /\ q[j].kind = "batch"
                                     => q[i].number < q[j].number
      /\ \A i \in 1 .. Len(t), j \in 1 .. Len(q) : q[j].kind = "batch" => t[i] < q[j].number
      /\ \A k \in Nat : k \in (1 .. n) \ l
           <=> \/ \E i \in 1 .. Len(t) : t[i] = k
               \/ \E j \in 1 .. Len(q) : q[j].kind = "batch" /\ q[j].number = k
  BY DEF InOrder
<1>5. \A i \in 1 .. Len(t) : t[i] \in Nat /\ t[i] <= n
  <2>1. ASSUME NEW i \in 1 .. Len(t) PROVE t[i] \in Nat /\ t[i] <= n
    <3>1. t[i] \in Nat BY ElementOfSeq
    <3>2. t[i] \in (1 .. n) \ l BY <1>4, <3>1
    <3> QED BY <3>1, <3>2
  <2> QED BY <2>1
<1>6. \A j \in 1 .. Len(q) : q[j].kind = "batch" => q[j].number \in Nat /\ q[j].number <= n
  <2>1. ASSUME NEW j \in 1 .. Len(q), q[j].kind = "batch" PROVE q[j].number \in Nat /\ q[j].number <= n
    <3>1. q[j] \in Messages BY ElementOfSeq
    <3>2. q[j].number \in Nat BY <2>1, <3>1 DEF Messages
    <3>3. q[j].number \in (1 .. n) \ l BY <1>4, <2>1, <3>2
    <3> QED BY <3>2, <3>3
  <2> QED BY <2>1
<1>7. l \subseteq 1 .. n + 1 BY <1>4
<1>8. ASSUME NEW i \in 1 .. Len(r), NEW j \in 1 .. Len(r), i < j,
             r[i].kind = "batch", r[j].kind = "batch"
      PROVE  r[i].number < r[j].number
  <2>1. i \in 1 .. Len(q) /\ r[i] = q[i]
    <3>1. i # Len(r) BY <1>3, <1>8
    <3> QED BY <1>3, <3>1
  <2>2. CASE j \in 1 .. Len(q) BY <1>3, <1>4, <1>8, <2>1, <2>2
  <2>3. CASE j = Len(r)
    <3>1. r[j].number = n + 1 BY <1>2, <1>3, <2>3
    <3>2. r[i].number \in Nat /\ r[i].number <= n BY <1>6, <1>8, <2>1
    <3> QED BY <3>1, <3>2
  <2> QED BY <1>3, <2>2, <2>3
<1>9. ASSUME NEW i \in 1 .. Len(t), NEW j \in 1 .. Len(r), r[j].kind = "batch"
      PROVE  t[i] < r[j].number
  <2>1. CASE j \in 1 .. Len(q) BY <1>3, <1>4, <1>9, <2>1
  <2>2. CASE j = Len(r)
    <3>1. r[j].number = n + 1 BY <1>2, <1>3, <2>2
    <3> QED BY <1>5, <3>1
  <2> QED BY <1>3, <2>1, <2>2
<1>10. ASSUME NEW k \in Nat
       PROVE  k \in (1 .. n + 1) \ l
         <=> \/ \E i \in 1 .. Len(t) : t[i] = k
             \/ \E j \in 1 .. Len(r) : r[j].kind = "batch" /\ r[j].number = k
  <2>1. k \in (1 .. n + 1) \ l <=> k \in (1 .. n) \ l \/ k = n + 1 BY <1>4
  <2>2. (\E j \in 1 .. Len(r) : r[j].kind = "batch" /\ r[j].number = k)
          <=> (\E j \in 1 .. Len(q) : q[j].kind = "batch" /\ q[j].number = k) \/ k = n + 1
    BY <1>2, <1>3
  <2> QED BY <1>4, <2>1, <2>2
<1>11. n + 1 \in Nat OBVIOUS
<1> QED BY <1>3, <1>4, <1>7, <1>8, <1>9, <1>10, <1>11 DEF InOrder

\* A batch says nothing of a source.
LEMMA BatchKeepsLines ==
  ASSUME NEW q \in Seq(Messages), NEW st \in [Source -> Line], Arrives(q, st), NEW n \in Nat,
         NEW r, r = Append(q, Loaded(n))
  PROVE  Arrives(r, st)
<1>1. PICK m : m = Loaded(n) OBVIOUS
<1>2. m \in Messages /\ m.kind = "batch" BY <1>1 DEF Loaded, Messages
<1>3. PICK t \in Seq(Messages) : t = <<m>>
  <2>1. <<m>> \in Seq(Messages) BY <1>2
  <2> QED BY <2>1
<1>4. Len(t) = 1 /\ t[1] = m BY <1>3
<1>5. r = q \o t BY <1>1, <1>2, <1>3, AppendIsConcat
<1>6. PICK ss \in SUBSET Source : ss = {} OBVIOUS
<1>7. \A j \in 1 .. Len(t) : t[j].kind # "status" BY <1>2, <1>4
<1> QED BY <1>5, <1>6, <1>7, LinesSent

\* A cycle ends: its batch is sent, then its line.
LEMMA FinishCycleStep == ASSUME IInv, NEW outcome \in Outcomes, FinishCycle(outcome) PROVE IInv'
<1>1. PICK s : s = busy OBVIOUS
<1>2. s \in Source /\ Running(s) BY <1>1 DEF IInv, TypeOK, CycleRuns, FinishCycle
<1>3. PICK l : l = FinishedLine(outcome) OBVIOUS
<1>4. PICK nw : nw = [status EXCEPT ![s] = l] OBVIOUS
<1>5. PICK m : m = Status(s, l) OBVIOUS
<1>6. /\ status \in [Source -> Line] /\ rx \in Seq(Messages) /\ reported \in Nat
      /\ stored \in Seq(Nat) /\ pending \in Seq(Nat) /\ queue \in Seq(Nat)
      /\ next \in [Source -> {"due", "cadence", "backoff"}]
      /\ Arrives(rx, status) /\ InOrder(Handed, rx, reported, lost)
      /\ LinesHonest(status, online, enabled)
  BY DEF IInv, TypeOK
<1>7. /\ l \in Line /\ l.online = status[s].online /\ l.detail \in {"ok", "failed"}
  <2>1. PICK old \in Line : old = status[s] BY <1>2, <1>6
  <2>2. PICK d \in BOOLEAN : d = (outcome = "failed") OBVIOUS
  <2>3. PICK x : x = IF outcome = "failed" THEN "failed" ELSE "ok" OBVIOUS
  <2>4. l = [online |-> old.online, degraded |-> d, scheduled |-> TRUE, detail |-> x]
    BY <1>1, <1>3, <2>1, <2>2, <2>3 DEF FinishedLine
  <2>5. x \in {"ok", "failed"} BY <2>3
  <2> QED BY <2>1, <2>4, <2>5 DEF Line, Details
<1>8. nw \in [Source -> Line] /\ nw[s] = l /\ \A x \in Source \ {s} : nw[x] = status[x]
  BY <1>2, <1>4, <1>6, <1>7
<1>9. m \in Messages /\ m.kind = "status" /\ m.source = s /\ m.line = l
  BY <1>2, <1>5, <1>7 DEF Status, Messages
<1>10. PICK b : b = IF Reports(s, outcome) /\ reported < MaxBatches THEN <<Loaded(reported + 1)>>
                    ELSE <<>>
  OBVIOUS
<1>11. /\ next' = [next EXCEPT ![s] = IF outcome = "failed" THEN "backoff" ELSE "cadence"]
       /\ status' = nw /\ rx' = rx \o b \o <<m>> /\ reported' = reported + Len(b)
       /\ busy' = Nobody
       /\ UNCHANGED <<appOnline, ctl, shown, userVars, storeVars, online, enabled, socket>>
  <2>1. /\ next' = [next EXCEPT ![s] = IF outcome = "failed" THEN "backoff" ELSE "cadence"]
        /\ status' = nw /\ reported' = reported + Len(b) /\ busy' = Nobody
        /\ UNCHANGED <<appOnline, ctl, shown, userVars, storeVars, online, enabled, socket>>
    BY <1>1, <1>3, <1>4, <1>10 DEF FinishCycle
  <2>2. rx' = rx \o b \o <<Status(s, status'[s])>> BY <1>1, <1>10 DEF FinishCycle
  <2>3. status'[s] = l BY <1>8, <2>1
  <2> QED BY <1>5, <2>1, <2>2, <2>3
<1>12. PICK o \in Seq(Nat) : o = Handed
  <2>1. stored \o pending \in Seq(Nat) BY <1>6, ConcatProperties
  <2>2. Handed \in Seq(Nat) BY <1>6, <2>1, ConcatProperties DEF Handed
  <2> QED BY <2>2
<1>13. PICK r, n : r = rx \o b /\ n = reported + Len(b) OBVIOUS
<1>14. r \in Seq(Messages) /\ n \in Nat /\ InOrder(o, r, n, lost) /\ Arrives(r, status)
  <2>1. CASE Reports(s, outcome) /\ reported < MaxBatches
    <3>1. b = <<Loaded(reported + 1)>> /\ Len(b) = 1 BY <1>10, <2>1
    <3>2. reported + 1 \in Nat /\ Loaded(reported + 1) \in Messages
      BY <1>6 DEF Loaded, Messages
    <3>3. r = Append(rx, Loaded(reported + 1)) /\ n = reported + 1
      BY <1>6, <1>13, <3>1, <3>2, AppendIsConcat
    <3> QED BY <1>6, <1>12, <3>2, <3>3, BatchKeepsOrder, BatchKeepsLines
  <2>2. CASE ~(Reports(s, outcome) /\ reported < MaxBatches)
    <3>1. b = <<>> /\ Len(b) = 0 BY <1>10, <2>2
    <3>2. r = rx /\ n = reported BY <1>6, <1>13, <3>1, ConcatEmptySeq
    <3> QED BY <1>6, <1>12, <3>2
  <2> QED BY <2>1, <2>2
<1>15. PICK t \in Seq(Messages) : t = <<m>>
  <2>1. <<m>> \in Seq(Messages) BY <1>9
  <2> QED BY <2>1
<1>16. Len(t) = 1 /\ t[1] = m BY <1>15
<1>17. \A j \in 1 .. Len(t) : t[j] = m BY <1>16
<1>18. PICK z : z = r \o t OBVIOUS
<1>19. rx' = z BY <1>11, <1>13, <1>15, <1>18
<1>20. z \in Seq(Messages) BY <1>14, <1>18, ConcatProperties
<1>21. InOrder(o, z, n, lost)
  <2>1. \A j \in 1 .. Len(t) : t[j].kind = "status" BY <1>9, <1>17
  <2> QED BY <1>14, <1>18, <2>1, LinesKeepOrder
<1>22. Arrives(z, nw)
  <2>1. PICK ss \in SUBSET Source : ss = {s} BY <1>2
  <2>2. \A j \in 1 .. Len(t) : t[j].source \in ss /\ t[j].line = nw[t[j].source]
    BY <1>8, <1>9, <1>17, <2>1
  <2>3. \A x \in ss : \E j \in 1 .. Len(t) : Says(t[j], x)
    <3>1. 1 \in 1 .. Len(t) /\ Says(t[1], s) BY <1>9, <1>16 DEF Says
    <3> QED BY <2>1, <3>1
  <2>4. \A x \in Source \ ss : nw[x] = status[x] BY <1>8, <2>1
  <2> QED BY <1>6, <1>8, <1>14, <1>18, <2>2, <2>3, <2>4, LinesSent
<1>23. Arrives(rx, status)'
  <2>1. shown' = shown /\ rx' = z /\ status' = nw BY <1>8, <1>11, <1>19
  <2> QED BY <1>22, <2>1 DEF Arrives, Says
<1>24. InOrder(Handed, rx, reported, lost)'
  <2>1. Handed' = o BY <1>11, <1>12 DEF Handed, storeVars
  <2>2. InOrder(Handed', rx', reported', lost')
    <3>1. rx' = z /\ reported' = n /\ lost' = lost BY <1>11, <1>13, <1>19 DEF storeVars
    <3> QED BY <1>21, <2>1, <3>1
  <2> QED BY <2>2 DEF InOrder
<1>25. LinesHonest(status, online, enabled)'
  <2>1. ASSUME NEW x \in Source
        PROVE  /\ nw[x].online <=> online /\ x \in enabled /\ x \in Available
               /\ online => IF x \notin enabled THEN nw[x].detail = "off"
                            ELSE x \in Available => nw[x].detail \in {"fetching", "ok", "failed"}
    <3>1. CASE x = s
      <4>1. nw[x].online = status[x].online /\ nw[x].detail \in {"ok", "failed"} /\ x \in enabled
        BY <1>2, <1>7, <1>8, <3>1 DEF Running
      <4> QED BY <1>6, <4>1 DEF LinesHonest
    <3>2. CASE x # s BY <1>6, <1>8, <3>2 DEF LinesHonest
    <3> QED BY <3>1, <3>2
  <2> QED BY <1>11, <2>1 DEF LinesHonest
<1>26. SocketFollows' BY <1>11 DEF IInv, SocketFollows, Synced
<1>27. CycleRuns' BY <1>11 DEF CycleRuns
<1>28. Boxed(ctl, rx)'
  <2>1. \A j \in 1 .. Len(t) : Len(r) + j \in 1 .. Len(z) /\ z[Len(r) + j] = t[j]
    BY <1>14, <1>18, Concat
  <2>2. 1 \in 1 .. Len(t) BY <1>16
  <2>3. Len(r) + 1 \in 1 .. Len(z) /\ z[Len(r) + 1] = t[1] BY <2>1, <2>2
  <2>4. \E j \in 1 .. Len(z) : z[j].kind = "status" BY <1>9, <1>16, <2>3
  <2> QED BY <1>19, <2>4 DEF Boxed
<1>29. AsksOnline(ctl, online)' BY <1>11 DEF IInv, AsksOnline, userVars
<1>30. AsksEach(ctl, enabled)' BY <1>11 DEF IInv, AsksEach, Switches, userVars
<1>31. OffFirst(ctl, enabled, online, userOn)' BY <1>11 DEF IInv, OffFirst, Switches, userVars
<1>32. TypeOK'
  <2>1. next' \in [Source -> {"due", "cadence", "backoff"}] BY <1>2, <1>6, <1>11
  <2>2. rx' \in Seq(Messages) /\ reported' \in Nat /\ status' \in [Source -> Line]
    BY <1>8, <1>11, <1>13, <1>14, <1>19, <1>20
  <2> QED BY <1>11, <2>1, <2>2 DEF IInv, TypeOK, userVars, storeVars
<1>33. (Len(pending) <= 1)' BY <1>11 DEF IInv, storeVars
<1> QED BY <1>23, <1>24, <1>25, <1>26, <1>27, <1>28, <1>29, <1>30, <1>31, <1>32, <1>33 DEF IInv

-----------------------------------------------------------------------------
\* The batches among the messages: a recursive function, so its properties are
\* proved by the least number at which they would fail.

Less == {ss \in Nat \X Nat : ss[1] < ss[2]}

\* Every set of naturals has a least member (the library's WFMin).
LEMMA LeastNat ==
  ASSUME NEW T, T \subseteq Nat, T # {}
  PROVE  \E m \in T : \A k \in T : m <= k
<1>1. OpToRel(<, Nat) = Less BY DEF OpToRel, Less
<1>2. IsWellFoundedOn(Less, Nat) BY <1>1, NatLessThanWellFounded
<1>3. PICK m \in T : \A k \in T : <<k, m>> \notin Less BY <1>2, WFMin
<1>4. ASSUME NEW k \in T PROVE m <= k
  <2>1. k \in Nat /\ m \in Nat OBVIOUS
  <2>2. <<k, m>> \in Nat \X Nat /\ <<k, m>>[1] = k /\ <<k, m>>[2] = m BY <2>1
  <2>3. ~(k < m) BY <1>3, <2>2 DEF Less
  <2> QED BY <2>1, <2>3
<1> QED BY <1>4

Took(b, m) == IF m.kind = "batch" THEN Append(b, m.number) ELSE b
Takes(f, n) == f = [i \in 0 .. n |-> IF i = 0 THEN <<>> ELSE Took(f[i - 1], rx[i])]

\* The function that Batches chooses satisfies its equation.
LEMMA BatchesEquation ==
  ASSUME rx \in Seq(Messages)
  PROVE  \E f : Takes(f, Len(rx)) /\ Batches = f[Len(rx)]
<1>1. \E f : Takes(f, 0)
  <2>1. [i \in 0 .. 0 |-> <<>>] = [i \in 0 .. 0 |-> IF i = 0 THEN <<>> ELSE
            Took([j \in 0 .. 0 |-> <<>>][i - 1], rx[i])]
    OBVIOUS
  <2> QED BY <2>1 DEF Takes
<1>2. ASSUME NEW n \in Nat, n > 0, NEW f, Takes(f, n - 1) PROVE \E g : Takes(g, n)
  <2> DEFINE g == [i \in 0 .. n |-> IF i = n THEN Took(f[n - 1], rx[n]) ELSE f[i]]
  <2>1. \A i \in 0 .. n - 1 : f[i] = IF i = 0 THEN <<>> ELSE Took(f[i - 1], rx[i])
    BY <1>2 DEF Takes
  <2>2. ASSUME NEW i \in 0 .. n PROVE g[i] = IF i = 0 THEN <<>> ELSE Took(g[i - 1], rx[i])
    <3>1. CASE i = n BY <3>1, <1>2
    <3>2. CASE i = 0 BY <3>2, <2>1, <1>2
    <3>3. CASE i # n /\ i # 0
      <4>1. g[i] = f[i] /\ g[i - 1] = f[i - 1] /\ i \in 0 .. n - 1 BY <3>3, <1>2
      <4> QED BY <4>1, <2>1, <3>3
    <3> QED BY <3>1, <3>2, <3>3
  <2>3. Takes(g, n)
    <3>1. g = [i \in 0 .. n |-> g[i]] OBVIOUS
    <3> HIDE DEF g
    <3> QED BY <3>1, <2>2 DEF Takes
  <2> HIDE DEF g
  <2> QED BY <2>3
<1> DEFINE T == {n \in Nat : ~ \E f : Takes(f, n)}
<1>3. T = {}
  <2> SUFFICES ASSUME T # {} PROVE FALSE OBVIOUS
  <2>1. PICK n \in T : \A k \in T : n <= k BY LeastNat
  <2>2. n \in Nat /\ n # 0 BY <2>1, <1>1
  <2>3. n - 1 \notin T /\ n - 1 \in Nat BY <2>1, <2>2
  <2>4. PICK f : Takes(f, n - 1) BY <2>3
  <2>5. \E g : Takes(g, n) BY <2>4, <2>2, <1>2
  <2> QED BY <2>5, <2>1
<1>4. Len(rx) \in Nat BY LenProperties
<1>5. PICK f : Takes(f, Len(rx)) BY <1>3, <1>4
<1>6. Takes(CHOOSE x : Takes(x, Len(rx)), Len(rx)) BY <1>5
<1>7. Batches = (CHOOSE x : Takes(x, Len(rx)))[Len(rx)] BY DEF Batches, Takes, Took
<1> QED BY <1>6, <1>7

\* The batches of the first n messages, in their order.
AreBatches(b, n) ==
  /\ b \in Seq(Nat)
  /\ \A i, j \in 1 .. Len(b) : i < j => b[i] < b[j]
  /\ \A i \in 1 .. Len(b) : \E k \in 1 .. n : rx[k].kind = "batch" /\ rx[k].number = b[i]
  /\ \A k \in 1 .. n : rx[k].kind = "batch" => \E i \in 1 .. Len(b) : b[i] = rx[k].number

\* One message more, and the batch it carries.
LEMMA OneMore ==
  ASSUME rx \in Seq(Messages), NEW n \in Nat, n > 0, n <= Len(rx), NEW b, AreBatches(b, n - 1),
         \A i, j \in 1 .. Len(rx) : i < j /\ rx[i].kind = "batch" /\ rx[j].kind = "batch"
                                      => rx[i].number < rx[j].number
  PROVE  AreBatches(Took(b, rx[n]), n)
<1>1. Len(rx) \in Nat /\ n \in 1 .. Len(rx) BY LenProperties
<1>2. PICK m \in Messages : m = rx[n] BY <1>1, ElementOfSeq
<1>3. \A k \in 1 .. n - 1 : k \in 1 .. n /\ k \in 1 .. Len(rx) /\ k < n BY <1>1
<1>4. \A k \in 1 .. n : k \in 1 .. n - 1 \/ k = n BY <1>1
<1>5. /\ b \in Seq(Nat)
      /\ \A i, j \in 1 .. Len(b) : i < j => b[i] < b[j]
      /\ \A i \in 1 .. Len(b) : \E k \in 1 .. n - 1 : rx[k].kind = "batch" /\ rx[k].number = b[i]
      /\ \A k \in 1 .. n - 1 : rx[k].kind = "batch" => \E i \in 1 .. Len(b) : b[i] = rx[k].number
  BY DEF AreBatches
<1>6. CASE m.kind = "batch"
  <2>1. PICK x \in Nat : x = m.number BY <1>6 DEF Messages
  <2>2. PICK c : c = Append(b, x) OBVIOUS
  <2>3. /\ c \in Seq(Nat) /\ Len(b) \in Nat /\ Len(c) \in 1 .. Len(c) /\ c[Len(c)] = x
        /\ \A i \in 1 .. Len(b) : i \in 1 .. Len(c) /\ c[i] = b[i] /\ i < Len(c)
        /\ \A i \in 1 .. Len(c) : i \in 1 .. Len(b) \/ i = Len(c)
    <3>1. b \in Seq(Nat) BY <1>5
    <3> QED BY <2>2, <3>1, Appended
  <2>4. \A i \in 1 .. Len(b) : b[i] < x
    <3> SUFFICES ASSUME NEW i \in 1 .. Len(b) PROVE b[i] < x OBVIOUS
    <3>1. PICK k \in 1 .. n - 1 : rx[k].kind = "batch" /\ rx[k].number = b[i] BY <1>5
    <3>2. rx[k].number < rx[n].number BY <1>1, <1>2, <1>3, <1>6, <3>1
    <3> QED BY <1>2, <2>1, <3>1, <3>2
  <2>5. ASSUME NEW i \in 1 .. Len(c), NEW j \in 1 .. Len(c), i < j PROVE c[i] < c[j]
    <3>1. i \in 1 .. Len(b) /\ c[i] = b[i]
      <4>1. i # Len(c) BY <2>3, <2>5
      <4> QED BY <2>3, <4>1
    <3>2. CASE j \in 1 .. Len(b) BY <1>5, <2>3, <2>5, <3>1, <3>2
    <3>3. CASE j = Len(c) BY <2>3, <2>4, <3>1, <3>3
    <3> QED BY <2>3, <3>2, <3>3
  <2>6. ASSUME NEW i \in 1 .. Len(c)
        PROVE  \E k \in 1 .. n : rx[k].kind = "batch" /\ rx[k].number = c[i]
    <3>1. CASE i \in 1 .. Len(b)
      <4>1. c[i] = b[i] BY <2>3, <3>1
      <4>2. PICK k \in 1 .. n - 1 : rx[k].kind = "batch" /\ rx[k].number = b[i] BY <1>5, <3>1
      <4>3. k \in 1 .. n BY <1>3
      <4> QED BY <4>1, <4>2, <4>3
    <3>2. CASE i = Len(c)
      <4>1. n \in 1 .. n /\ rx[n].kind = "batch" /\ rx[n].number = c[i]
        BY <1>2, <1>6, <2>1, <2>3, <3>2
      <4> QED BY <4>1
    <3> QED BY <2>3, <3>1, <3>2
  <2>7. ASSUME NEW k \in 1 .. n, rx[k].kind = "batch"
        PROVE  \E i \in 1 .. Len(c) : c[i] = rx[k].number
    <3>1. CASE k \in 1 .. n - 1
      <4>1. PICK i \in 1 .. Len(b) : b[i] = rx[k].number BY <1>5, <2>7, <3>1
      <4>2. i \in 1 .. Len(c) /\ c[i] = b[i] BY <2>3
      <4> QED BY <4>1, <4>2
    <3>2. CASE k = n BY <1>2, <2>1, <2>3, <3>2
    <3> QED BY <1>4, <3>1, <3>2
  <2>8. Took(b, rx[n]) = c BY <1>2, <1>6, <2>1, <2>2 DEF Took
  <2>9. AreBatches(c, n) BY <2>3, <2>5, <2>6, <2>7 DEF AreBatches
  <2> QED BY <2>8, <2>9
<1>7. CASE m.kind # "batch"
  <2>1. Took(b, rx[n]) = b BY <1>2, <1>7 DEF Took
  <2>2. \A k \in 1 .. n : rx[k].kind = "batch" => k \in 1 .. n - 1 BY <1>2, <1>4, <1>7
  <2>3. AreBatches(b, n) BY <1>3, <1>5, <2>2 DEF AreBatches
  <2> QED BY <2>1, <2>3
<1> QED BY <1>6, <1>7

\* What the UI takes is every batch of the messages, in their order.
LEMMA BatchesAre ==
  ASSUME rx \in Seq(Messages),
         \A i, j \in 1 .. Len(rx) : i < j /\ rx[i].kind = "batch" /\ rx[j].kind = "batch"
                                      => rx[i].number < rx[j].number
  PROVE  AreBatches(Batches, Len(rx))
<1>1. Len(rx) \in Nat BY LenProperties
<1>2. PICK f : Takes(f, Len(rx)) /\ Batches = f[Len(rx)] BY BatchesEquation
<1> DEFINE T == {n \in Nat : n <= Len(rx) /\ ~AreBatches(f[n], n)}
<1>3. \A n \in 0 .. Len(rx) : f[n] = IF n = 0 THEN <<>> ELSE Took(f[n - 1], rx[n])
  BY <1>2 DEF Takes
<1>4. AreBatches(f[0], 0)
  <2>1. f[0] = <<>> BY <1>1, <1>3
  <2>2. <<>> \in Seq(Nat) /\ Len(<<>>) = 0 /\ 1 .. 0 = {} BY EmptySeq
  <2> QED BY <2>1, <2>2 DEF AreBatches
<1>5. T = {}
  <2> SUFFICES ASSUME T # {} PROVE FALSE OBVIOUS
  <2>1. PICK n \in T : \A k \in T : n <= k BY LeastNat
  <2>2. n \in Nat /\ n > 0 /\ n <= Len(rx) BY <2>1, <1>4
  <2>3. n - 1 \in Nat /\ n - 1 \notin T /\ n - 1 <= Len(rx) BY <1>1, <2>1, <2>2
  <2>4. AreBatches(f[n - 1], n - 1) BY <2>3
  <2>5. AreBatches(Took(f[n - 1], rx[n]), n) BY <2>2, <2>4, OneMore
  <2>6. f[n] = Took(f[n - 1], rx[n]) BY <1>3, <2>2
  <2> QED BY <2>1, <2>5, <2>6
<1> QED BY <1>1, <1>2, <1>5

-----------------------------------------------------------------------------
\* The UI's frame.

\* The last line received for a source is the worker's line.
LEMMA UpsertedIs ==
  ASSUME rx \in Seq(Messages), Arrives(rx, status), NEW s \in Source
  PROVE  Upserted(s) = status[s]
<1>1. Len(rx) \in Nat BY LenProperties
<1>2. PICK lines \in SUBSET (1 .. Len(rx)) : lines = LinesOf(s) BY DEF LinesOf
<1>3. \A i \in 1 .. Len(rx) : i \in lines <=> Says(rx[i], s) BY <1>2 DEF LinesOf, Says
<1>4. /\ (\A i \in 1 .. Len(rx) : ~Says(rx[i], s)) => shown[s] = status[s]
      /\ \A i \in 1 .. Len(rx) :
           Says(rx[i], s) /\ (\A j \in 1 .. Len(rx) : j > i => ~Says(rx[j], s))
             => rx[i].line = status[s]
  BY DEF Arrives
<1>5. CASE lines = {} BY <1>2, <1>3, <1>4, <1>5 DEF Upserted
<1>6. CASE lines # {}
  <2> DEFINE Latest(i) == \A j \in lines : j <= i
  <2>1. PICK z \in Nat : z = Len(rx) BY <1>1
  <2>2. \A i \in lines : i \in 1 .. z BY <2>1
  <2>3. PICK T : T = {k \in Nat : z - k \in lines} OBVIOUS
  <2>4. T \subseteq Nat /\ T # {}
    <3>1. PICK i \in lines : TRUE BY <1>6
    <3>2. z - i \in Nat /\ z - (z - i) = i BY <2>2
    <3> QED BY <2>3, <3>1, <3>2
  <2>5. PICK m \in T : \A k \in T : m <= k BY <2>4, LeastNat
  <2>6. z - m \in lines /\ Latest(z - m)
    <3>1. m \in Nat /\ z - m \in lines BY <2>3
    <3>2. ASSUME NEW j \in lines PROVE j <= z - m
      <4>1. z - j \in Nat /\ z - (z - j) = j BY <2>2
      <4>2. m <= z - j BY <2>3, <2>5, <4>1
      <4> QED BY <2>2, <3>1, <4>2
    <3> QED BY <3>1, <3>2
  <2>7. PICK n \in lines : n = (CHOOSE x \in lines : Latest(x)) /\ Latest(n) BY <2>6
  <2>8. n \in 1 .. Len(rx) /\ Says(rx[n], s) BY <1>3
  <2>9. \A j \in 1 .. Len(rx) : j > n => ~Says(rx[j], s)
    <3> SUFFICES ASSUME NEW j \in 1 .. Len(rx), j > n PROVE j \notin lines BY <1>3
    <3>1. j \in lines => j <= n BY <2>7
    <3>2. n \in 1 .. z /\ j \in 1 .. z BY <2>1, <2>2
    <3> QED BY <3>1, <3>2
  <2>10. rx[n].line = status[s] BY <1>4, <2>8, <2>9
  <2>11. Upserted(s) = rx[n].line BY <1>2, <1>6, <2>7 DEF Upserted
  <2> QED BY <2>10, <2>11
<1> QED BY <1>5, <1>6

\* The messages are taken: their batches are behind those taken before.
LEMMA TakenKeepsOrder ==
  ASSUME NEW t \in Seq(Nat), NEW n, NEW l, rx \in Seq(Messages), InOrder(t, rx, n, l),
         NEW b, AreBatches(b, Len(rx)), NEW u, u = t \o b
  PROVE  u \in Seq(Nat) /\ InOrder(u, <<>>, n, l)
<1>1. /\ b \in Seq(Nat)
      /\ \A i, j \in 1 .. Len(b) : i < j => b[i] < b[j]
      /\ \A i \in 1 .. Len(b) : \E k \in 1 .. Len(rx) : rx[k].kind = "batch" /\ rx[k].number = b[i]
      /\ \A k \in 1 .. Len(rx) : rx[k].kind = "batch" => \E i \in 1 .. Len(b) : b[i] = rx[k].number
  BY DEF AreBatches
<1>2. b \in Seq(Nat) BY <1>1
<1>3. /\ u \in Seq(Nat) /\ Len(t) \in Nat /\ Len(b) \in Nat
      /\ \A i \in 1 .. Len(t) : i \in 1 .. Len(u) /\ u[i] = t[i]
      /\ \A j \in 1 .. Len(b) : Len(t) + j \in 1 .. Len(u) /\ u[Len(t) + j] = b[j]
      /\ \A i \in 1 .. Len(u) :
           i \in 1 .. Len(t) \/ (i - Len(t) \in 1 .. Len(b) /\ u[i] = b[i - Len(t)])
  BY <1>2, Concat
<1>4. /\ l \subseteq 1 .. n
      /\ \A i, j \in 1 .. Len(t) : i < j => t[i] < t[j]
      /\ \A i \in 1 .. Len(t), j \in 1 .. Len(rx) : rx[j].kind = "batch" => t[i] < rx[j].number
      /\ \A k \in Nat : k \in (1 .. n) \ l
           <=> \/ \E i \in 1 .. Len(t) : t[i] = k
               \/ \E j \in 1 .. Len(rx) : rx[j].kind = "batch" /\ rx[j].number = k
  BY DEF InOrder
<1>5. \A i \in 1 .. Len(t), j \in 1 .. Len(b) : t[i] < b[j] BY <1>1, <1>4
<1>6. ASSUME NEW i \in 1 .. Len(u), NEW j \in 1 .. Len(u), i < j PROVE u[i] < u[j]
  <2>1. CASE j \in 1 .. Len(t)
    <3>1. i \in 1 .. Len(t) BY <1>3, <1>6, <2>1
    <3> QED BY <1>3, <1>4, <1>6, <2>1, <3>1
  <2>2. CASE j \notin 1 .. Len(t)
    <3>1. PICK m \in 1 .. Len(b) : m = j - Len(t) /\ u[j] = b[m] BY <1>3, <2>2
    <3>2. CASE i \in 1 .. Len(t)
      <4>1. u[i] = t[i] BY <1>3, <3>2
      <4> QED BY <1>5, <3>1, <3>2, <4>1
    <3>3. CASE i \notin 1 .. Len(t)
      <4>1. PICK h \in 1 .. Len(b) : h = i - Len(t) /\ u[i] = b[h] BY <1>3, <3>3
      <4>2. h < m BY <1>3, <1>6, <3>1, <4>1
      <4> QED BY <1>1, <3>1, <4>1, <4>2
    <3> QED BY <3>2, <3>3
  <2> QED BY <2>1, <2>2
<1>7. ASSUME NEW k \in Nat
      PROVE  k \in (1 .. n) \ l <=> \E i \in 1 .. Len(u) : u[i] = k
  <2>1. ASSUME NEW i \in 1 .. Len(u), u[i] = k PROVE k \in (1 .. n) \ l
    <3>1. CASE i \in 1 .. Len(t)
      <4>1. t[i] = k BY <1>3, <2>1, <3>1
      <4> QED BY <1>4, <3>1, <4>1
    <3>2. CASE i \notin 1 .. Len(t)
      <4>1. PICK m \in 1 .. Len(b) : u[i] = b[m] BY <1>3, <3>2
      <4>2. PICK j \in 1 .. Len(rx) : rx[j].kind = "batch" /\ rx[j].number = b[m] BY <1>1
      <4>3. rx[j].number = k BY <2>1, <4>1, <4>2
      <4> QED BY <1>4, <4>2, <4>3
    <3> QED BY <3>1, <3>2
  <2>2. ASSUME k \in (1 .. n) \ l PROVE \E i \in 1 .. Len(u) : u[i] = k
    <3>1. CASE \E i \in 1 .. Len(t) : t[i] = k
      <4>1. PICK i \in 1 .. Len(t) : t[i] = k BY <3>1
      <4>2. i \in 1 .. Len(u) /\ u[i] = t[i] BY <1>3
      <4> QED BY <4>1, <4>2
    <3>2. CASE \E j \in 1 .. Len(rx) : rx[j].kind = "batch" /\ rx[j].number = k
      <4>1. PICK j \in 1 .. Len(rx) : rx[j].kind = "batch" /\ rx[j].number = k BY <3>2
      <4>2. PICK m \in 1 .. Len(b) : b[m] = k BY <1>1, <4>1
      <4>3. Len(t) + m \in 1 .. Len(u) /\ u[Len(t) + m] = b[m] BY <1>3
      <4> QED BY <4>2, <4>3
    <3> QED BY <1>4, <2>2, <3>1, <3>2
  <2> QED BY <2>1, <2>2
<1>8. Len(<<>>) = 0 /\ 1 .. 0 = {} OBVIOUS
<1>9. l \subseteq 1 .. n BY <1>4
<1> QED BY <1>3, <1>6, <1>7, <1>8, <1>9 DEF InOrder

\* Concatenation associates.
LEMMA Assoc ==
  ASSUME NEW x \in Seq(Nat), NEW y \in Seq(Nat), NEW z \in Seq(Nat)
  PROVE  (x \o y) \o z = x \o (y \o z)
<1>1. PICK S : S = Nat OBVIOUS
<1>2. x \in Seq(S) /\ y \in Seq(S) /\ z \in Seq(S) BY <1>1
<1> QED BY SMTT(30), <1>2, ConcatAssociative

\* A sequence is its head and the rest.
LEMMA HeadFirst ==
  ASSUME NEW q \in Seq(Nat), q # <<>>
  PROVE  <<Head(q)>> \in Seq(Nat) /\ Len(<<Head(q)>>) = 1 /\ Tail(q) \in Seq(Nat)
         /\ <<Head(q)>> \o Tail(q) = q
<1>1. PICK r : r = Tail(q) OBVIOUS
<1>2. /\ r \in Seq(Nat) /\ Len(q) \in Nat /\ Len(r) \in Nat /\ Len(q) = Len(r) + 1
      /\ Head(q) \in Nat /\ q[1] = Head(q)
      /\ \A i \in 1 .. Len(q) : i = 1 \/ (i - 1 \in 1 .. Len(r) /\ q[i] = r[i - 1])
  BY <1>1, Tailed
<1>3. PICK t \in Seq(Nat) : t = <<Head(q)>>
  <2>1. <<Head(q)>> \in Seq(Nat) BY <1>2
  <2> QED BY <2>1
<1>4. Len(t) = 1 /\ t[1] = q[1] BY <1>2, <1>3
<1>5. PICK z : z = t \o r OBVIOUS
<1>6. /\ z \in Seq(Nat) /\ Len(z) = 1 + Len(r)
      /\ \A i \in 1 .. 1 + Len(r) : z[i] = IF i <= 1 THEN t[i] ELSE r[i - 1]
  <2>1. r \in Seq(Nat) BY <1>2
  <2>2. /\ z \in Seq(Nat) /\ Len(z) = Len(t) + Len(r)
        /\ \A i \in 1 .. Len(t) + Len(r) : z[i] = IF i <= Len(t) THEN t[i] ELSE r[i - Len(t)]
    BY <1>5, <2>1, ConcatProperties
  <2> QED BY <1>4, <2>2
<1>7. \A i \in 1 .. Len(q) : z[i] = q[i]
  <2> SUFFICES ASSUME NEW i \in 1 .. Len(q) PROVE z[i] = q[i] OBVIOUS
  <2>1. i \in 1 .. 1 + Len(r) BY <1>2
  <2>2. CASE i = 1 BY <1>4, <1>6, <2>1, <2>2
  <2>3. CASE i # 1
    <3>1. ~(i <= 1) BY <1>2, <2>3
    <3> QED BY <1>2, <1>6, <2>1, <2>3, <3>1
  <2> QED BY <2>2, <2>3
<1>8. z = q
  <2>1. Len(z) = Len(q) /\ z \in Seq(Nat) BY <1>2, <1>6
  <2> QED BY <1>7, <2>1, SeqEqual
<1> QED BY <1>1, <1>2, <1>3, <1>4, <1>5, <1>8

\* Poll: everything sent is shown and queued, and at most one batch goes to storage.
LEMMA PollStep == IInv /\ Poll => IInv'
<1> SUFFICES ASSUME IInv, Poll PROVE IInv' OBVIOUS
<1>1. /\ shown' = [s \in Source |-> Upserted(s)]
      /\ appOnline' = IF \E i \in DOMAIN rx : rx[i].kind = "status"
                      THEN \E s \in Source : shown'[s].online ELSE appOnline
      /\ rx' = <<>> /\ UNCHANGED <<ctl, userVars, workerVars, stored, lost>>
  BY DEF Poll, Frame
<1>2. /\ status \in [Source -> Line] /\ rx \in Seq(Messages) /\ appOnline \in BOOLEAN
      /\ stored \in Seq(Nat) /\ pending \in Seq(Nat) /\ queue \in Seq(Nat)
      /\ Arrives(rx, status) /\ Boxed(ctl, rx) /\ InOrder(Handed, rx, reported, lost)
      /\ Len(pending) <= 1
  BY DEF IInv, TypeOK
<1>3. shown' = status
  <2>1. \A s \in Source : Upserted(s) = status[s] BY <1>2, UpsertedIs
  <2> QED BY <1>1, <1>2, <2>1
<1>4. PICK b : b = Batches OBVIOUS
<1>5. AreBatches(b, Len(rx))
  <2>1. \A i, j \in 1 .. Len(rx) : i < j /\ rx[i].kind = "batch" /\ rx[j].kind = "batch"
                                     => rx[i].number < rx[j].number
    BY <1>2 DEF InOrder
  <2> QED BY <1>2, <1>4, <2>1, BatchesAre
<1>6. b \in Seq(Nat) BY <1>5 DEF AreBatches
<1>7. PICK q : q = queue \o b OBVIOUS
<1>8. q \in Seq(Nat) BY <1>2, <1>6, <1>7, ConcatProperties
<1>9. IF pending = <<>> /\ q # <<>>
      THEN pending' = Append(pending, Head(q)) /\ queue' = Tail(q)
      ELSE queue' = q /\ pending' = pending
  BY <1>4, <1>7 DEF Poll, Frame
<1>10. PICK sp \in Seq(Nat) : sp = stored \o pending BY <1>2, ConcatProperties
<1>11. Handed = sp \o queue /\ Handed \in Seq(Nat) /\ Handed \o b = sp \o q
  <2>1. Handed = sp \o queue BY <1>10 DEF Handed
  <2>2. (sp \o queue) \o b = sp \o (queue \o b)
    <3>1. queue \in Seq(Nat) BY <1>2
    <3> QED BY <1>6, <3>1, Assoc
  <2>3. sp \o queue \in Seq(Nat) BY <1>2, ConcatProperties
  <2> QED BY <1>7, <2>1, <2>2, <2>3
<1>12. /\ pending' \in Seq(Nat) /\ queue' \in Seq(Nat) /\ Len(pending') <= 1
       /\ (stored \o pending') \o queue' = sp \o q
  <2>1. CASE pending = <<>> /\ q # <<>>
    <3>1. pending' = Append(pending, Head(q)) /\ queue' = Tail(q) BY <1>9, <2>1
    <3>2. /\ <<Head(q)>> \in Seq(Nat) /\ Len(<<Head(q)>>) = 1 /\ Tail(q) \in Seq(Nat)
          /\ <<Head(q)>> \o Tail(q) = q
      BY <1>8, <2>1, HeadFirst
    <3>3. pending' = <<Head(q)>>
      <4>1. Head(q) \in Nat BY <1>8, <2>1, HeadTailProperties
      <4>2. Append(pending, Head(q)) = pending \o <<Head(q)>> BY <1>2, <4>1, AppendIsConcat
      <4>3. <<>> \o <<Head(q)>> = <<Head(q)>> BY <3>2, ConcatEmptySeq
      <4> QED BY <2>1, <3>1, <4>2, <4>3
    <3>4. sp = stored BY <1>2, <1>10, <2>1, ConcatEmptySeq
    <3>5. (stored \o <<Head(q)>>) \o Tail(q) = stored \o (<<Head(q)>> \o Tail(q))
      <4>1. stored \in Seq(Nat) /\ <<Head(q)>> \in Seq(Nat) /\ Tail(q) \in Seq(Nat) BY <1>2, <3>2
      <4> QED BY <4>1, Assoc
    <3>6. Len(pending') <= 1 BY <3>2, <3>3
    <3>7. (stored \o pending') \o queue' = sp \o q BY <3>1, <3>2, <3>3, <3>4, <3>5, Zenon
    <3> QED BY <3>1, <3>2, <3>3, <3>6, <3>7
  <2>2. CASE ~(pending = <<>> /\ q # <<>>)
    <3>1. queue' = q /\ pending' = pending BY <1>9, <2>2
    <3> QED BY <1>2, <1>8, <1>10, <3>1
  <2> QED BY <2>1, <2>2
<1>13. InOrder(Handed, rx, reported, lost)'
  <2>1. Handed' = Handed \o b BY <1>1, <1>11, <1>12 DEF Handed
  <2>2. PICK t \in Seq(Nat) : t = Handed BY <1>11
  <2>3. InOrder(Handed \o b, <<>>, reported, lost) BY <1>2, <1>5, <2>2, TakenKeepsOrder
  <2>4. rx' = <<>> /\ reported' = reported /\ lost' = lost BY <1>1 DEF workerVars
  <2>5. InOrder(Handed', rx', reported', lost') BY <2>1, <2>3, <2>4
  <2> QED BY <2>5 DEF InOrder
<1>14. Len(<<>>) = 0 /\ 1 .. 0 = {} /\ <<>> \in Seq(Messages) OBVIOUS
<1>15. Arrives(rx, status)'
  <2>1. \A s \in Source : shown'[s] = status'[s] BY <1>1, <1>3 DEF workerVars
  <2>2. 1 .. Len(rx') = {} BY <1>1, <1>14
  <2> QED BY <2>1, <2>2 DEF Arrives
<1>16. Boxed(ctl, rx)'
  <2> SUFFICES ASSUME \A i \in 1 .. Len(ctl) : ctl[i].op # "online"
               PROVE  appOnline' <=> \E s \in Source : shown'[s].online
    BY <1>1 DEF Boxed
  <2>1. DOMAIN rx = 1 .. Len(rx) BY <1>2, LenProperties
  <2>2. CASE \E i \in DOMAIN rx : rx[i].kind = "status" BY <1>1, <2>2
  <2>3. CASE ~ \E i \in DOMAIN rx : rx[i].kind = "status"
    <3>1. appOnline' = appOnline BY <1>1, <2>3
    <3>2. appOnline <=> \E s \in Source : shown[s].online BY <1>2, <2>1, <2>3 DEF Boxed
    <3>3. \A s \in Source : shown[s] = status[s] BY <1>2, <2>1, <2>3 DEF Arrives, Says
    <3> QED BY <1>3, <3>1, <3>2, <3>3
  <2> QED BY <2>2, <2>3
<1>17. TypeOK'
  <2>1. /\ ctl' = ctl /\ asked' = asked /\ clicks' = clicks /\ userOn' = userOn
        /\ online' = online /\ enabled' = enabled /\ next' = next /\ busy' = busy
        /\ status' = status /\ socket' = socket /\ reported' = reported
        /\ stored' = stored /\ lost' = lost /\ rx' = <<>>
    BY <1>1 DEF userVars, workerVars
  <2>2. appOnline' \in BOOLEAN BY <1>1, <1>2
  <2> QED BY <1>2, <1>3, <1>12, <1>14, <2>1, <2>2 DEF IInv, TypeOK
<1>18. AsksOnline(ctl, online)' BY <1>1 DEF IInv, AsksOnline, userVars, workerVars
<1>19. AsksEach(ctl, enabled)' BY <1>1 DEF IInv, AsksEach, Switches, userVars, workerVars
<1>20. OffFirst(ctl, enabled, online, userOn)'
  BY <1>1 DEF IInv, OffFirst, Switches, userVars, workerVars
<1>21. LinesHonest(status, online, enabled)' BY <1>1 DEF IInv, LinesHonest, workerVars
<1>22. SocketFollows' /\ CycleRuns'
  BY <1>1 DEF IInv, SocketFollows, Synced, CycleRuns, Running, workerVars
<1>23. (Len(pending) <= 1)' BY <1>12
<1> QED BY <1>13, <1>15, <1>16, <1>17, <1>18, <1>19, <1>20, <1>21, <1>22, <1>23 DEF IInv

-----------------------------------------------------------------------------
\* Storage answers.

\* A sequence t, and the sequence u without its element p, at h.
Without(u, t, h, p) ==
  /\ t \in Seq(Nat) /\ u \in Seq(Nat) /\ h \in 1 .. Len(t) /\ t[h] = p
  /\ \A i, j \in 1 .. Len(u) : i < j =>
       \E x, y \in 1 .. Len(t) : x < y /\ t[x] = u[i] /\ t[y] = u[j]
  /\ \A i \in 1 .. Len(u) : \E x \in 1 .. Len(t) : x # h /\ t[x] = u[i]
  /\ \A x \in 1 .. Len(t) : x # h => \E i \in 1 .. Len(u) : u[i] = t[x]

\* A batch taken out from between the others.
LEMMA TakenOut ==
  ASSUME NEW a \in Seq(Nat), NEW c \in Seq(Nat), Len(c) = 1, NEW d \in Seq(Nat),
         NEW t, t = (a \o c) \o d, NEW u, u = a \o d, NEW h, h = Len(a) + 1,
         NEW p, p = c[1]
  PROVE  Without(u, t, h, p)
<1>1. Len(a) \in Nat /\ Len(d) \in Nat BY LenProperties
<1>2. PICK A \in Nat : A = Len(a) BY <1>1
<1>3. PICK D \in Nat : D = Len(d) BY <1>1
<1>4. PICK e \in Seq(Nat) : e = a \o c BY ConcatProperties
<1>5. Len(e) = A + 1 /\ \A i \in 1 .. A + 1 : e[i] = IF i <= A THEN a[i] ELSE c[i - A]
  <2>1. /\ Len(e) = Len(a) + Len(c)
        /\ \A i \in 1 .. Len(a) + Len(c) : e[i] = IF i <= Len(a) THEN a[i] ELSE c[i - Len(a)]
    BY <1>4, ConcatProperties
  <2> QED BY <1>2, <2>1
<1>6. PICK T \in Seq(Nat) : T = t
  <2>1. t \in Seq(Nat) BY <1>4, ConcatProperties
  <2> QED BY <2>1
<1>7. Len(T) = A + 1 + D /\ \A i \in 1 .. A + 1 + D : T[i] = IF i <= A + 1 THEN e[i] ELSE d[i - (A + 1)]
  <2>1. /\ Len(t) = Len(e) + Len(d)
        /\ \A i \in 1 .. Len(e) + Len(d) : t[i] = IF i <= Len(e) THEN e[i] ELSE d[i - Len(e)]
    BY <1>4, ConcatProperties
  <2> QED BY <1>3, <1>5, <1>6, <2>1
<1>8. PICK U \in Seq(Nat) : U = u
  <2>1. u \in Seq(Nat) BY ConcatProperties
  <2> QED BY <2>1
<1>9. Len(U) = A + D /\ \A i \in 1 .. A + D : U[i] = IF i <= A THEN a[i] ELSE d[i - A]
  BY <1>2, <1>3, <1>8, ConcatProperties
<1>11. T[A + 1] = p
  <2>1. A + 1 \in 1 .. A + 1 /\ A + 1 \in 1 .. A + 1 + D /\ ~(A + 1 <= A) /\ (A + 1) - A = 1
    OBVIOUS
  <2>2. e[A + 1] = c[1] BY <1>5, <2>1
  <2>3. T[A + 1] = e[A + 1] BY <1>7, <2>1
  <2> QED BY <2>2, <2>3
<1> DEFINE g(i) == IF i <= A THEN i ELSE i + 1
<1>12. ASSUME NEW i \in 1 .. A + D
       PROVE  g(i) \in 1 .. A + 1 + D /\ g(i) # A + 1 /\ T[g(i)] = U[i]
  <2>1. CASE i <= A
    <3>1. i \in 1 .. A + 1 /\ i \in 1 .. A + 1 + D /\ i <= A + 1 /\ i # A + 1 BY <2>1
    <3>2. T[i] = a[i] BY <1>5, <1>7, <2>1, <3>1
    <3> QED BY <1>9, <2>1, <3>1, <3>2
  <2>2. CASE ~(i <= A)
    <3>1. i + 1 \in 1 .. A + 1 + D /\ ~(i + 1 <= A + 1) /\ (i + 1) - (A + 1) = i - A /\ i + 1 # A + 1
      BY <2>2
    <3>2. T[i + 1] = d[i - A] BY SMTT(30), <1>7, <3>1
    <3> QED BY <1>9, <2>2, <3>1, <3>2
  <2> QED BY <2>1, <2>2
<1>13. ASSUME NEW i \in 1 .. A + 1 + D, i # A + 1 PROVE \E j \in 1 .. A + D : U[j] = T[i]
  <2>1. CASE i <= A
    <3>1. i \in 1 .. A + D /\ g(i) = i BY <2>1
    <3> QED BY <1>12, <3>1
  <2>2. CASE ~(i <= A)
    <3>1. i - 1 \in 1 .. A + D /\ g(i - 1) = i BY <1>13, <2>2
    <3>2. U[i - 1] = T[i] BY <1>12, <3>1
    <3> QED BY <3>1, <3>2
  <2> QED BY <2>1, <2>2
<1>14. \A i, j \in 1 .. A + D : i < j => g(i) < g(j) OBVIOUS
<1> HIDE DEF g
<1>15. ASSUME NEW i \in 1 .. A + D, NEW j \in 1 .. A + D, i < j
       PROVE  \E x, y \in 1 .. A + 1 + D : x < y /\ T[x] = U[i] /\ T[y] = U[j]
  <2>1. g(i) \in 1 .. A + 1 + D /\ T[g(i)] = U[i] BY <1>12
  <2>2. g(j) \in 1 .. A + 1 + D /\ T[g(j)] = U[j] BY <1>12
  <2>3. g(i) < g(j) BY <1>14, <1>15
  <2> QED BY <2>1, <2>2, <2>3
<1>16. \A i \in 1 .. A + D : \E x \in 1 .. A + 1 + D : x # A + 1 /\ T[x] = U[i] BY <1>12
<1>17. A + 1 \in 1 .. A + 1 + D OBVIOUS
<1>18. Without(U, T, A + 1, p)
  <2>1. T \in Seq(Nat) /\ U \in Seq(Nat) /\ Len(T) = A + 1 + D /\ Len(U) = A + D
    BY <1>6, <1>7, <1>8, <1>9
  <2>2. \A i, j \in 1 .. Len(U) : i < j =>
          \E x, y \in 1 .. Len(T) : x < y /\ T[x] = U[i] /\ T[y] = U[j]
    <3> SUFFICES ASSUME NEW i \in 1 .. Len(U), NEW j \in 1 .. Len(U), i < j
                 PROVE  \E x, y \in 1 .. Len(T) : x < y /\ T[x] = U[i] /\ T[y] = U[j]
      OBVIOUS
    <3>1. i \in 1 .. A + D /\ j \in 1 .. A + D BY <2>1
    <3>2. PICK x, y \in 1 .. A + 1 + D : x < y /\ T[x] = U[i] /\ T[y] = U[j] BY <1>15, <3>1
    <3>3. x \in 1 .. Len(T) /\ y \in 1 .. Len(T) BY <2>1
    <3> QED BY <3>2, <3>3
  <2>3. \A i \in 1 .. Len(U) : \E x \in 1 .. Len(T) : x # A + 1 /\ T[x] = U[i] BY <1>16, <2>1
  <2>4. \A x \in 1 .. Len(T) : x # A + 1 => \E i \in 1 .. Len(U) : U[i] = T[x] BY <1>13, <2>1
  <2>5. A + 1 \in 1 .. Len(T) BY <1>17, <2>1
  <2> QED BY <1>11, <2>1, <2>2, <2>3, <2>4, <2>5, Zenon DEF Without
<1> QED BY <1>2, <1>6, <1>8, <1>18

\* A batch that is lost leaves the others in their order.
LEMMA DropKeepsOrder ==
  ASSUME NEW u, NEW t, NEW h, NEW p, Without(u, t, h, p), NEW r \in Seq(Messages), NEW n \in Nat,
         NEW l, InOrder(t, r, n, l)
  PROVE  InOrder(u, r, n, l \cup {p})
<1>1. t \in Seq(Nat) /\ u \in Seq(Nat) /\ h \in 1 .. Len(t) BY DEF Without
<1>2. p \in Nat /\ p = t[h] BY <1>1, ElementOfSeq DEF Without
<1>3. Len(t) \in Nat BY <1>1, LenProperties
<1>4. l \subseteq 1 .. n BY DEF InOrder
<1>5. \A i, j \in 1 .. Len(t) : i < j => t[i] < t[j] BY DEF InOrder
<1>6. \A i, j \in 1 .. Len(r) : i < j /\ r[i].kind = "batch" /\ r[j].kind = "batch"
                                  => r[i].number < r[j].number
  BY DEF InOrder
<1>7. \A i \in 1 .. Len(t), j \in 1 .. Len(r) : r[j].kind = "batch" => t[i] < r[j].number
  BY DEF InOrder
<1>8. \A k \in Nat : k \in (1 .. n) \ l
        <=> \/ \E i \in 1 .. Len(t) : t[i] = k
            \/ \E j \in 1 .. Len(r) : r[j].kind = "batch" /\ r[j].number = k
  BY DEF InOrder
<1>9. p \in 1 .. n
  <2>1. p \in (1 .. n) \ l BY <1>1, <1>2, <1>8
  <2> QED BY <2>1
<1>10. ASSUME NEW i \in 1 .. Len(t), i # h PROVE t[i] # p
  <2>1. PICK x \in Nat : x = t[i] BY <1>1, ElementOfSeq
  <2>2. i < h \/ h < i BY <1>1, <1>3, <1>10
  <2>3. t[i] < t[h] \/ t[h] < t[i] BY <1>1, <1>5, <2>2
  <2>4. x < p \/ p < x BY <1>2, <2>1, <2>3
  <2>5. x # p BY <2>4
  <2> QED BY <2>1, <2>5
<1>11. ASSUME NEW j \in 1 .. Len(r), r[j].kind = "batch" PROVE r[j].number # p
  <2>1. p < r[j].number BY <1>1, <1>2, <1>7, <1>11
  <2>2. ~(p < p) BY <1>2
  <2> QED BY <2>1, <2>2
<1>12. ASSUME NEW i \in 1 .. Len(u), NEW j \in 1 .. Len(u), i < j PROVE u[i] < u[j]
  <2>1. PICK x, y \in 1 .. Len(t) : x < y /\ t[x] = u[i] /\ t[y] = u[j] BY <1>12 DEF Without
  <2> QED BY <1>5, <2>1
<1>13. ASSUME NEW i \in 1 .. Len(u), NEW j \in 1 .. Len(r), r[j].kind = "batch"
       PROVE  u[i] < r[j].number
  <2>1. PICK x \in 1 .. Len(t) : t[x] = u[i] BY DEF Without
  <2> QED BY <1>7, <1>13, <2>1
<1>14. ASSUME NEW k \in Nat
       PROVE  (\E i \in 1 .. Len(u) : u[i] = k) <=> (\E i \in 1 .. Len(t) : t[i] = k) /\ k # p
  <2>1. ASSUME NEW i \in 1 .. Len(u), u[i] = k
        PROVE  (\E x \in 1 .. Len(t) : t[x] = k) /\ k # p
    <3>1. PICK x \in 1 .. Len(t) : x # h /\ t[x] = u[i] BY DEF Without
    <3> QED BY <1>10, <2>1, <3>1
  <2>2. ASSUME NEW x \in 1 .. Len(t), t[x] = k, k # p
        PROVE  \E i \in 1 .. Len(u) : u[i] = k
    <3>1. x # h BY <1>2, <2>2
    <3>2. \E i \in 1 .. Len(u) : u[i] = t[x] BY <3>1 DEF Without
    <3> QED BY <2>2, <3>2
  <2> QED BY <2>1, <2>2
<1>15. ASSUME NEW k \in Nat
       PROVE  k \in (1 .. n) \ (l \cup {p})
         <=> \/ \E i \in 1 .. Len(u) : u[i] = k
             \/ \E j \in 1 .. Len(r) : r[j].kind = "batch" /\ r[j].number = k
  <2>1. k \in (1 .. n) \ (l \cup {p}) <=> k \in (1 .. n) \ l /\ k # p OBVIOUS
  <2>2. (\E j \in 1 .. Len(r) : r[j].kind = "batch" /\ r[j].number = k) => k # p BY <1>11
  <2> QED BY <1>8, <1>14, <2>1, <2>2
<1>16. l \cup {p} \subseteq 1 .. n BY <1>4, <1>9
<1> QED BY <1>6, <1>12, <1>13, <1>15, <1>16 DEF InOrder

\* Storage's answer: the batch is stored, or it is lost.
LEMMA IngestedStep == ASSUME IInv, NEW ok \in BOOLEAN, Ingested(ok) PROVE IInv'
<1>1. /\ pending # <<>> /\ pending' = <<>>
      /\ stored' = IF ok THEN stored \o pending ELSE stored
      /\ lost' = IF ok THEN lost ELSE lost \cup ToSet(pending)
      /\ UNCHANGED <<appOnline, ctl, rx, shown, userVars, workerVars, queue>>
  BY DEF Ingested
<1>2. /\ stored \in Seq(Nat) /\ pending \in Seq(Nat) /\ queue \in Seq(Nat)
      /\ InOrder(Handed, rx, reported, lost) /\ Len(pending) <= 1
      /\ rx \in Seq(Messages) /\ reported \in Nat /\ lost \in SUBSET Nat
  BY DEF IInv, TypeOK
<1>3. Len(pending) = 1
  <2>1. pending \in Seq(Nat) /\ pending # <<>> /\ Len(pending) <= 1 BY <1>1, <1>2
  <2>2. PICK n \in Nat : n = Len(pending) BY <2>1, LenProperties
  <2>3. n # 0 BY <2>1, <2>2, EmptySeq
  <2>4. n <= 1 BY <2>1, <2>2
  <2>5. n = 1 BY <2>3, <2>4
  <2> QED BY <2>2, <2>5
<1>4. PICK p \in Nat : p = pending[1]
  <2>1. 1 \in 1 .. Len(pending) BY <1>3
  <2> QED BY <1>2, <2>1, ElementOfSeq
<1>5. ToSet(pending) = {p}
  <2>1. DOMAIN pending = 1 .. 1 BY <1>2, <1>3, LenProperties
  <2> QED BY <1>4, <2>1 DEF ToSet
<1>6. <<>> \in Seq(Nat) /\ Len(<<>>) = 0 BY EmptySeq
<1>7. PICK sp \in Seq(Nat) : sp = stored \o pending BY <1>2, ConcatProperties
<1>8. InOrder(Handed, rx, reported, lost)' /\ stored' \in Seq(Nat) /\ lost' \in SUBSET Nat
  <2>1. CASE ok
    <3>1. stored' = sp /\ lost' = lost BY <1>1, <1>7, <2>1
    <3>2. Handed' = (sp \o <<>>) \o queue BY <1>1, <3>1 DEF Handed
    <3>3. sp \o <<>> = sp BY <1>7, ConcatEmptySeq
    <3>4. Handed' = Handed BY <1>7, <3>2, <3>3 DEF Handed
    <3>5. rx' = rx /\ reported' = reported BY <1>1 DEF workerVars
    <3>6. InOrder(Handed', rx', reported', lost') BY <1>2, <3>1, <3>4, <3>5
    <3> QED BY <1>2, <1>7, <3>1, <3>6 DEF InOrder
  <2>2. CASE ~ok
    <3>1. stored' = stored /\ lost' = lost \cup {p} BY <1>1, <1>5, <2>2
    <3>2. Handed' = (stored \o <<>>) \o queue BY <1>1, <3>1 DEF Handed
    <3>3. stored \o <<>> = stored BY <1>2, ConcatEmptySeq
    <3>4. Handed' = stored \o queue BY <3>2, <3>3
    <3>5. rx' = rx /\ reported' = reported BY <1>1 DEF workerVars
    <3>6. PICK t : t = Handed OBVIOUS
    <3>7. t = (stored \o pending) \o queue BY <3>6 DEF Handed
    <3>8. InOrder(t, rx, reported, lost) BY <1>2, <3>6
    <3>9. InOrder(stored \o queue, rx, reported, lost \cup {p})
      <4>1. PICK a, c, d \in Seq(Nat) : a = stored /\ c = pending /\ d = queue BY <1>2
      <4>2. Len(c) = 1 /\ c[1] = p /\ t = (a \o c) \o d BY <1>3, <1>4, <3>7, <4>1
      <4>3. PICK u : u = a \o d OBVIOUS
      <4>4. PICK h : h = Len(a) + 1 OBVIOUS
      <4>5. Without(u, t, h, p)
        <5>1. a \in Seq(Nat) /\ c \in Seq(Nat) /\ d \in Seq(Nat) BY <4>1
        <5>2. Len(c) = 1 /\ p = c[1] BY <4>2
        <5>3. t = (a \o c) \o d BY <4>2
        <5> QED BY <4>3, <4>4, <5>1, <5>2, <5>3, TakenOut
      <4>6. InOrder(u, rx, reported, lost \cup {p}) BY <1>2, <3>8, <4>5, DropKeepsOrder
      <4> QED BY <4>1, <4>3, <4>6
    <3>10. InOrder(Handed', rx', reported', lost') BY <3>1, <3>4, <3>5, <3>9
    <3> QED BY <1>2, <1>4, <3>1, <3>10 DEF InOrder
  <2> QED BY <2>1, <2>2
<1>9. TypeOK'
  <2>1. /\ ctl' = ctl /\ asked' = asked /\ clicks' = clicks /\ userOn' = userOn
        /\ online' = online /\ enabled' = enabled /\ next' = next /\ busy' = busy
        /\ status' = status /\ socket' = socket /\ reported' = reported
        /\ appOnline' = appOnline /\ shown' = shown /\ rx' = rx /\ queue' = queue
    BY <1>1 DEF userVars, workerVars
  <2> QED BY <1>1, <1>6, <1>8, <2>1 DEF IInv, TypeOK
<1>10. Arrives(rx, status)' BY <1>1 DEF IInv, Arrives, Says, workerVars
<1>11. Boxed(ctl, rx)' BY <1>1 DEF IInv, Boxed
<1>12. AsksOnline(ctl, online)' BY <1>1 DEF IInv, AsksOnline, userVars, workerVars
<1>13. AsksEach(ctl, enabled)' BY <1>1 DEF IInv, AsksEach, Switches, userVars, workerVars
<1>14. OffFirst(ctl, enabled, online, userOn)'
  BY <1>1 DEF IInv, OffFirst, Switches, userVars, workerVars
<1>15. LinesHonest(status, online, enabled)' BY <1>1 DEF IInv, LinesHonest, workerVars
<1>16. SocketFollows' /\ CycleRuns'
  BY <1>1 DEF IInv, SocketFollows, Synced, CycleRuns, Running, workerVars
<1>17. (Len(pending) <= 1)' BY <1>1, <1>6
<1> QED BY <1>8, <1>9, <1>10, <1>11, <1>12, <1>13, <1>14, <1>15, <1>16, <1>17 DEF IInv

-----------------------------------------------------------------------------
\* The theorems.

\* A step that changes nothing.
LEMMA StutterStep == IInv /\ UNCHANGED vars => IInv'
<1> SUFFICES ASSUME IInv, UNCHANGED vars PROVE IInv' OBVIOUS
<1> USE DEF vars, userVars, workerVars, storeVars
<1>1. TypeOK' BY DEF IInv, TypeOK
<1>2. AsksOnline(ctl, online)' BY DEF IInv, AsksOnline
<1>3. AsksEach(ctl, enabled)' BY DEF IInv, AsksEach, Switches
<1>4. OffFirst(ctl, enabled, online, userOn)' BY DEF IInv, OffFirst, Switches
<1>5. LinesHonest(status, online, enabled)' BY DEF IInv, LinesHonest
<1>6. SocketFollows' /\ CycleRuns' BY DEF IInv, SocketFollows, Synced, CycleRuns, Running
<1>7. Arrives(rx, status)' BY DEF IInv, Arrives, Says
<1>8. Boxed(ctl, rx)' BY DEF IInv, Boxed
<1>9. InOrder(Handed, rx, reported, lost)' /\ (Len(pending) <= 1)' BY DEF IInv, InOrder, Handed
<1> QED BY <1>1, <1>2, <1>3, <1>4, <1>5, <1>6, <1>7, <1>8, <1>9 DEF IInv

\* The invariant holds of every state: a step of the user, the worker, the UI or
\* storage preserves each of its parts.
THEOREM IngestInvariance == Spec => []IInv
<1>1. IInv /\ [Next]_vars => IInv'
  <2> SUFFICES ASSUME IInv, [Next]_vars PROVE IInv' OBVIOUS
  <2>1. CASE ToggleOnline BY <2>1, ToggleOnlineStep
  <2>2. CASE AskFetch BY <2>2, AskFetchStep
  <2>3. CASE \E s \in Source : ToggleSource(s) BY <2>3, ToggleSourceStep
  <2>4. CASE Hear BY <2>4, HearStep
  <2>5. CASE \E s \in Source : Elapse(s) \/ StartCycle(s) BY <2>5, ElapseStep, StartCycleStep
  <2>6. CASE \E outcome \in Outcomes : FinishCycle(outcome) BY <2>6, FinishCycleStep
  <2>7. CASE Poll BY <2>7, PollStep
  <2>8. CASE \E ok \in BOOLEAN : Ingested(ok) BY <2>8, IngestedStep
  <2>9. CASE UNCHANGED vars BY <2>9, StutterStep
  <2> QED BY <2>1, <2>2, <2>3, <2>4, <2>5, <2>6, <2>7, <2>8, <2>9 DEF Next
<1> QED BY InitInvariant, <1>1, PTL DEF Spec

\* When every command, line and batch has crossed, the lines, the box, the socket
\* and the cycles are what the user last asked for (set_online, set_source_enabled,
\* sync_stream, poll_async).
THEOREM IngestSwitchesSettle == Spec => []SwitchesSettle
<1>1. IInv => SwitchesSettle
  <2> SUFFICES ASSUME IInv PROVE SwitchesSettle OBVIOUS
  <2>1. 1 .. Len(<<>>) = {} OBVIOUS
  <2>2. /\ asked \in [online : BOOLEAN, enabled : SUBSET Source] /\ appOnline \in BOOLEAN
        /\ shown \in [Source -> Line] /\ Available \subseteq Source
    BY SourceAssumption DEF IInv, TypeOK
  <2>3. ctl = <<>> => (online <=> asked.online) /\ \A s \in Source : s \in enabled <=> s \in asked.enabled
    BY <2>1 DEF IInv, AsksOnline, AsksEach
  <2>4. ASSUME Settled, NEW s \in Source
        PROVE  /\ shown[s].online <=> asked.online /\ s \in asked.enabled /\ s \in Available
               /\ asked.online => IF s \notin asked.enabled THEN shown[s].detail = "off"
                                  ELSE s \in Available => shown[s].detail \in {"fetching", "ok", "failed"}
    <3>1. ctl = <<>> /\ rx = <<>> BY <2>4 DEF Settled
    <3>2. shown[s] = status[s] BY <2>1, <3>1 DEF IInv, Arrives
    <3>3. /\ status[s].online <=> online /\ s \in enabled /\ s \in Available
          /\ online => IF s \notin enabled THEN status[s].detail = "off"
                       ELSE s \in Available => status[s].detail \in {"fetching", "ok", "failed"}
      BY DEF IInv, LinesHonest
    <3> QED BY <2>3, <3>1, <3>2, <3>3
  <2>5. ASSUME NEW s \in Source PROVE shown[s].online \in BOOLEAN
    <3>1. shown[s] \in Line BY <2>2
    <3> QED BY <3>1 DEF Line
  <2>6. ASSUME Settled, asked.enabled \cap Available # {} PROVE appOnline = asked.online
    <3>1. appOnline <=> \E s \in Source : shown[s].online
      <4>1. ctl = <<>> /\ rx = <<>> BY <2>6 DEF Settled
      <4> QED BY <2>1, <4>1 DEF IInv, Boxed
    <3>2. PICK s \in Source : s \in asked.enabled /\ s \in Available BY <2>2, <2>6
    <3>3. (\E x \in Source : shown[x].online) <=> asked.online BY <2>4, <2>6, <3>2
    <3>4. asked.online \in BOOLEAN BY <2>2
    <3> QED BY <2>2, <3>1, <3>3, <3>4
  <2>7. ctl = <<>> => (socket <=> asked.online /\ Stream \in asked.enabled /\ Stream \in Available)
    <3>1. socket <=> Stream \in Available /\ online /\ Stream \in enabled
      BY DEF IInv, SocketFollows, Synced
    <3>2. Stream \in Source BY SourceAssumption
    <3> QED BY <2>3, <3>1, <3>2
  <2>8. busy # Nobody => busy \in userOn
    <3>1. busy # Nobody => online /\ busy \in enabled BY DEF IInv, CycleRuns, Running
    <3>2. online => enabled \subseteq userOn BY DEF IInv, OffFirst
    <3> QED BY <3>1, <3>2
  <2>9. Settled => \A s \in Source :
          /\ shown[s].online = (asked.online /\ s \in asked.enabled /\ s \in Available)
          /\ asked.online => IF s \notin asked.enabled THEN shown[s].detail = "off"
                             ELSE s \in Available => shown[s].detail \in {"fetching", "ok", "failed"}
    BY <2>4, <2>5
  <2> QED BY <2>6, <2>7, <2>8, <2>9 DEF SwitchesSettle
<1> QED BY <1>1, IngestInvariance, PTL

\* Every batch the worker reported is in one place, the places hold the batches in
\* the order reported, and only one whose ingest failed is gone (poll_async,
\* apply_ingest).
THEOREM IngestInOrderOnce == Spec => []InOrderOnce
<1>1. IInv => InOrderOnce
  <2> SUFFICES ASSUME IInv PROVE InOrderOnce OBVIOUS
  <2>1. /\ rx \in Seq(Messages) /\ stored \in Seq(Nat) /\ pending \in Seq(Nat) /\ queue \in Seq(Nat)
        /\ InOrder(Handed, rx, reported, lost) /\ reported \in Nat
    BY DEF IInv, TypeOK
  <2>2. PICK t \in Seq(Nat) : t = Handed
    <3>1. stored \o pending \in Seq(Nat) BY <2>1, ConcatProperties
    <3>2. Handed \in Seq(Nat) BY <2>1, <3>1, ConcatProperties DEF Handed
    <3> QED BY <3>2
  <2>3. AreBatches(Batches, Len(rx))
    <3>1. \A i, j \in 1 .. Len(rx) : i < j /\ rx[i].kind = "batch" /\ rx[j].kind = "batch"
                                       => rx[i].number < rx[j].number
      BY <2>1 DEF InOrder
    <3> QED BY <2>1, <3>1, BatchesAre
  <2>4. PICK all : all = Handed \o Batches OBVIOUS
  <2>5. all \in Seq(Nat) /\ InOrder(all, <<>>, reported, lost)
    BY <2>1, <2>2, <2>3, <2>4, TakenKeepsOrder
  <2>6. Len(<<>>) = 0 /\ 1 .. 0 = {} OBVIOUS
  <2>7. /\ \A i, j \in 1 .. Len(all) : i < j => all[i] < all[j]
        /\ \A k \in Nat : k \in (1 .. reported) \ lost <=> \E i \in 1 .. Len(all) : all[i] = k
    BY <2>5, <2>6 DEF InOrder
  <2>8. DOMAIN all = 1 .. Len(all) BY <2>5, LenProperties
  <2>9. ToSet(all) = (1 .. reported) \ lost
    <3>1. \A i \in 1 .. Len(all) : all[i] \in Nat BY <2>5, ElementOfSeq
    <3>2. \A k : k \in ToSet(all) <=> \E i \in 1 .. Len(all) : all[i] = k BY <2>8 DEF ToSet
    <3>3. \A k : k \in (1 .. reported) \ lost => k \in Nat BY <2>1
    <3> QED BY <2>7, <3>1, <3>2, <3>3
  <2>10. all = stored \o pending \o queue \o Batches BY <2>4 DEF Handed
  <2> QED BY <2>7, <2>8, <2>9, <2>10 DEF InOrderOnce
<1> QED BY <1>1, IngestInvariance, PTL

-----------------------------------------------------------------------------
(***************************************************************************)
(* The headless worker (Worker.tla).                                       *)
(***************************************************************************)

\* What \div yields: the number of windows is the least that reaches the end.
LEMMA CeilingFacts ==
  ASSUME NEW length \in Nat \ {0}, NEW step \in Nat \ {0}
  PROVE  LET n == (length + step - 1) \div step
         IN  n \in Nat \ {0} /\ (n - 1) * step < length /\ length <= n * step
<1> DEFINE a == length + step - 1
           n == a \div step
           r == a % step
<1>1. a \in Nat OBVIOUS
<1>2. n \in Int /\ r \in 0 .. step - 1 /\ a = step * n + r BY <1>1
<1>3. n >= 0 BY <1>1
<1>4. step * n = n * step /\ (n - 1) * step = n * step - step BY <1>2
<1>5. n # 0 BY <1>2
<1> QED BY <1>2, <1>3, <1>4, <1>5

\* The start of a later window lies no earlier.
LEMMA TimesMonotone ==
  ASSUME NEW step \in Nat \ {0}, NEW i \in Int, NEW j \in Int, i <= j
  PROVE  i * step <= j * step
<1>1. (j - i) * step >= 0 OBVIOUS
<1>2. (j - i) * step = j * step - i * step OBVIOUS
<1>3. i * step \in Int /\ j * step \in Int OBVIOUS
<1> QED BY <1>1, <1>2, <1>3

\* backfill_windows leaves nothing of the range out and takes nothing twice:
\* the first window starts where the range does, each next one where the last
\* ended, the last ends with the range, and none is longer than a step.
THEOREM WindowsTile ==
  ASSUME NEW from \in Nat, NEW to \in Nat, NEW step \in Nat \ {0}, from < to
  PROVE  LET w == BackfillWindows(from, to, step)
         IN  /\ Len(w) >= 1 /\ w[1].start = from /\ w[Len(w)].end = to
             /\ \A i \in 1 .. Len(w) - 1 : w[i].end = w[i + 1].start
             /\ \A i \in 1 .. Len(w) : w[i].start < w[i].end /\ w[i].end <= w[i].start + step
<1> DEFINE length == to - from
           n == (length + step - 1) \div step
           w == BackfillWindows(from, to, step)
<1>1. length \in Nat \ {0} OBVIOUS
<1>2. n \in Nat \ {0} /\ (n - 1) * step < length /\ length <= n * step
  BY <1>1, CeilingFacts
<1>3. w = [i \in 1 .. n |-> Interval(from + (i - 1) * step, Smaller(from + i * step, to))]
  BY DEF BackfillWindows
<1>4. Len(w) = n BY <1>2, <1>3
<1> HIDE DEF n, length
<1>5. ASSUME NEW i \in 1 .. n
      PROVE  /\ w[i].start = from + (i - 1) * step
             /\ w[i].end = Smaller(from + i * step, to)
             /\ i * step = (i - 1) * step + step
             /\ i * step \in Int /\ (i - 1) * step \in Int
             /\ (i - 1) * step <= (n - 1) * step
  <2>1. i \in Int /\ n \in Int /\ i - 1 <= n - 1 BY <1>2
  <2>2. (i - 1) * step <= (n - 1) * step BY <2>1, TimesMonotone
  <2>3. i * step = (i - 1) * step + step BY <2>1
  <2>4. i * step \in Int /\ (i - 1) * step \in Int BY <2>1
  <2> QED BY <1>3, <2>2, <2>3, <2>4 DEF Interval
<1>6. w[1].start = from
  BY <1>2, <1>5
<1>7. w[n].end = to
  <2>1. n \in 1 .. n BY <1>2
  <2>2. w[n].end = Smaller(from + n * step, to) /\ n * step \in Int BY <1>5, <2>1
  <2> QED BY <1>2, <2>2 DEF Smaller, length
<1>8. ASSUME NEW i \in 1 .. n - 1
      PROVE  w[i].end = w[i + 1].start
  <2>1. i \in 1 .. n /\ i + 1 \in 1 .. n /\ (i + 1) - 1 = i BY <1>2
  <2>2. w[i].end = Smaller(from + i * step, to) /\ i * step \in Int BY <1>5, <2>1
  <2>3. w[i + 1].start = from + i * step /\ i * step <= (n - 1) * step BY <1>5, <2>1
  <2>4. (n - 1) * step \in Int BY <1>2
  <2> QED BY <1>2, <2>2, <2>3, <2>4 DEF Smaller, length
<1>9. ASSUME NEW i \in 1 .. n
      PROVE  w[i].start < w[i].end /\ w[i].end <= w[i].start + step
  <2>1. /\ w[i].start = from + (i - 1) * step /\ w[i].end = Smaller(from + i * step, to)
        /\ i * step = (i - 1) * step + step /\ (i - 1) * step <= (n - 1) * step
        /\ i * step \in Int /\ (i - 1) * step \in Int
    BY <1>5
  <2>2. (n - 1) * step \in Int BY <1>2
  <2>3. from + (i - 1) * step < to BY <1>2, <2>1, <2>2 DEF length
  <2>4. CASE from + i * step < to
    <3>1. w[i].end = from + i * step BY <2>1, <2>4 DEF Smaller
    <3> QED BY <2>1, <3>1
  <2>5. CASE ~ from + i * step < to
    <3>1. w[i].end = to BY <2>1, <2>5 DEF Smaller
    <3> QED BY <2>1, <2>3, <2>5, <3>1
  <2> QED BY <2>4, <2>5
<1> QED BY <1>2, <1>4, <1>6, <1>7, <1>8, <1>9

-----------------------------------------------------------------------------
\* until_next_slot from any moment of any clock: the wait is longer than the lag
\* and at most an interval more, and it ends lag past a boundary, the first one
\* to come - so that no boundary is skipped and the loop never spins.
THEOREM SlotIsNext ==
  ASSUME NEW now \in Nat, NEW interval \in Nat \ {0}, NEW lag \in Nat
  PROVE  LET wait == UntilNextSlot(now, interval, lag)
         IN  /\ lag < wait /\ wait <= lag + interval
             /\ now + wait - lag = (now \div interval + 1) * interval
<1> DEFINE q == now \div interval
           r == now % interval
<1>1. q \in Int /\ r \in 0 .. interval - 1 /\ now = interval * q + r OBVIOUS
<1>2. interval * q = q * interval /\ (q + 1) * interval = q * interval + interval BY <1>1
<1>3. q * interval \in Int BY <1>1
<1>4. UntilNextSlot(now, interval, lag) = (q + 1) * interval + lag - now BY DEF UntilNextSlot
<1> HIDE DEF q, r
<1> QED BY <1>1, <1>2, <1>3, <1>4 DEF q

-----------------------------------------------------------------------------
\* What makes LedgerHonest inductive: a window about to be recorded has its
\* rows in, and those of a live cycle are on their way as long as nothing failed.
Landed == pc = "record" => Rows(Head(todo).start) \subseteq events

\* What the live loop holds and has not ingested yet.
Coming == IF pc = "live ingest" THEN cycle.rows ELSE {}

OnTheirWay ==
  /\ pc \in {"fetch events", "fetch gkg"} => DOMAIN cycle = DOMAIN NoCycle
  /\ faults \in Nat
  /\ faults = 0 => \A r \in ledger : r.status = "ok" => Rows(r.start) \subseteq events \cup Coming
  /\ pc \in {"fetch events", "fetch gkg"} => cycle.cover = {}
  /\ pc = "cover" => \A r \in cycle.cover : Rows(r.start) \subseteq cycle.rows

LedgerIInv == Landed /\ (\A s \in byBackfill : Rows(s) \subseteq events) /\ OnTheirWay

\* The invariant holds at the start.
LEMMA LedgerInit == WorkerInit => LedgerIInv
BY DEF WorkerInit, LedgerIInv, Landed, OnTheirWay

\* Nothing takes a row out of the store.
LEMMA RowsStay ==
  ASSUME [WorkerNext]_headlessVars
  PROVE  events \subseteq events'
BY DEF WorkerNext, Start, Seed, SeedPublish, Plan, FetchWindow, FetchWindowFails, BackfillIngest,
       BackfillRecord, BackfillRecordFailed, BackfillEnds, BackfillPublish, BackfillErrs,
       FetchDoc, FetchEvents, FetchGkg, Cover, OtherCycle, LiveIngest, LivePublish, LiveErrs,
       Stop, Die, Ends, Tick, Goto, Return, time, disk, process, headlessVars

\* A fault counts.
LEMMA Counted == ASSUME NEW n \in Nat PROVE n + 1 \in Nat /\ n + 1 # 0
OBVIOUS

\* The invariant is inductive: rows are landed before the ledger claims them.
LEMMA LedgerStep == LedgerIInv /\ [WorkerNext]_headlessVars => LedgerIInv'
<1> SUFFICES ASSUME LedgerIInv, [WorkerNext]_headlessVars PROVE LedgerIInv'
  OBVIOUS
<1> USE DEF Goto, Return, time, disk, process
<1>1. events \subseteq events' BY RowsStay
<1>0. ASSUME UNCHANGED <<ledger, faults>>, pc # "live ingest",
             pc' \notin {"fetch events", "fetch gkg", "cover", "live ingest"}
      PROVE  OnTheirWay'
  BY <1>0, <1>1 DEF LedgerIInv, OnTheirWay, Coming, Rows
<1>9. ASSUME UNCHANGED ledger, faults \in Nat, faults' = faults + 1,
             pc' \notin {"fetch events", "fetch gkg", "cover"}
      PROVE  OnTheirWay'
  <2>1. faults' \in Nat /\ faults' # 0 BY <1>9, Counted, Zenon
  <2> QED BY <1>9, <2>1 DEF OnTheirWay
<1>2. ASSUME NEW s \in Stamp, FetchWindow(s) PROVE LedgerIInv'
  <2>1. /\ s = Head(todo).start /\ todo' = todo /\ events' = events /\ byBackfill' = byBackfill
        /\ UNCHANGED <<ledger, faults>> /\ pc = "backfill" /\ pc' = AfterFetch(s)
    BY <1>2 DEF FetchWindow
  <2>2. pc' \in {"record", "ingest"} BY <2>1 DEF AfterFetch
  <2>3. OnTheirWay' BY <1>0, <2>1, <2>2
  <2>4. Landed'
    <3>1. CASE Rows(s) = {} BY <2>1, <3>1 DEF Landed, Rows
    <3>2. CASE Rows(s) # {}
      <4>1. pc' = "ingest" BY <2>1, <3>2 DEF AfterFetch
      <4> QED BY <4>1 DEF Landed
    <3> QED BY <3>1, <3>2
  <2> QED BY <2>1, <2>3, <2>4 DEF LedgerIInv, Rows
<1>3. CASE BackfillIngest
  <2>1. OnTheirWay' BY <1>0, <1>3 DEF BackfillIngest
  <2> QED BY <1>1, <1>3, <2>1 DEF BackfillIngest, LedgerIInv, Landed, Rows
<1>4. CASE BackfillRecord
  <2>1. /\ Rows(Head(todo).start) \subseteq events /\ events' = events /\ pc' = "backfill"
        /\ faults' = faults /\ pc = "record"
    BY <1>4 DEF BackfillRecord, LedgerIInv, Landed
  <2>2. /\ byBackfill' = byBackfill \cup {Head(todo).start}
        /\ ledger' = ledger \cup {Row(Head(todo).start, "ok")}
    BY <1>4 DEF BackfillRecord
  <2>3. OnTheirWay' BY <2>1, <2>2 DEF LedgerIInv, OnTheirWay, Coming, Row, Rows
  <2> QED BY <2>1, <2>2, <2>3 DEF LedgerIInv, Landed, Rows
<1>5. CASE BackfillRecordFailed
  <2>1. /\ ledger' = ledger \cup {Row(Head(todo).start, "failed")}
        /\ UNCHANGED <<faults, events, byBackfill>> /\ pc = "record failed" /\ pc' = "backfill"
    BY <1>5 DEF BackfillRecordFailed
  <2>2. Row(Head(todo).start, "failed").status # "ok" BY DEF Row
  <2>3. \A r \in ledger' : r.status = "ok" => r \in ledger BY <2>1, <2>2
  <2>4. OnTheirWay'
    <3>1. Coming = {} /\ Coming' = {} BY <2>1 DEF Coming
    <3> QED BY <2>1, <2>3, <3>1 DEF LedgerIInv, OnTheirWay, Rows
  <2> QED BY <2>1, <2>4 DEF LedgerIInv, Landed, Rows
<1>6. CASE \/ \E seeding \in BOOLEAN : Start(seeding)
           \/ Seed \/ SeedPublish \/ Plan \/ FetchWindowFails \/ BackfillEnds \/ BackfillPublish
           \/ LivePublish \/ Stop
  <2>1. /\ pc' \notin {"record", "fetch events", "fetch gkg", "cover", "live ingest"}
        /\ byBackfill' = byBackfill
        /\ UNCHANGED <<ledger, faults>> /\ pc # "live ingest"
    BY <1>6 DEF Start, Seed, SeedPublish, Plan, FetchWindowFails, BackfillEnds,
                BackfillPublish, LivePublish, Stop, Ends
  <2> QED BY <1>0, <1>1, <2>1 DEF LedgerIInv, Landed, Rows
<1>7. CASE BackfillErrs \/ LiveErrs \/ Die
  <2>1. /\ pc' \notin {"record", "fetch events", "fetch gkg", "cover"}
        /\ UNCHANGED <<ledger, byBackfill>> /\ faults' = faults + 1
    BY <1>7 DEF BackfillErrs, LiveErrs, Die, Ends, Fault
  <2>2. faults \in Nat BY DEF LedgerIInv, OnTheirWay
  <2> QED BY <1>1, <1>9, <2>1, <2>2 DEF LedgerIInv, Landed, Rows
<1>8. ASSUME \/ \E doc \in Answers : FetchDoc(doc)
             \/ \E ev \in Answers : FetchEvents(ev)
      PROVE  LedgerIInv'
  <2>1. /\ UNCHANGED <<ledger, events, byBackfill, faults>>
        /\ pc # "live ingest" /\ pc' \in {"fetch events", "fetch gkg"}
    BY <1>8 DEF FetchDoc, FetchEvents
  <2>2. cycle'.cover = {} /\ DOMAIN cycle' = DOMAIN NoCycle
    <3>1. CASE \E doc \in Answers : FetchDoc(doc) BY <3>1 DEF FetchDoc, NoCycle
    <3>2. ASSUME NEW ev \in Answers, FetchEvents(ev) PROVE cycle'.cover = {} /\ DOMAIN cycle' = DOMAIN NoCycle
      <4>1. DOMAIN cycle = DOMAIN NoCycle /\ cycle.cover = {}
        BY <3>2 DEF FetchEvents, LedgerIInv, OnTheirWay
      <4>2. cycle' = [cycle EXCEPT !.rows = @ \cup ev.rows, !.events = ev.errors, !.asked = Newest]
        BY <3>2 DEF FetchEvents
      <4> QED BY <4>1, <4>2 DEF NoCycle
    <3> QED BY <1>8, <3>1, <3>2
  <2> QED BY <2>1, <2>2 DEF LedgerIInv, Landed, OnTheirWay, Coming, Rows
<1>14. ASSUME NEW gkg \in SUBSET Newest, FetchGkg(gkg) PROVE LedgerIInv'
  <2>1. /\ pc = "fetch gkg" /\ pc' = "cover" /\ UNCHANGED <<ledger, events, byBackfill, faults>>
        /\ cycle' = [cycle EXCEPT !.rows = @ \cup UNION {Rows(s) : s \in gkg},
                                  !.cover = {Row(s, "ok") : s \in gkg},
                                  !.asked = @ \cup Newest]
    BY <1>14 DEF FetchGkg
  <2>4. /\ cycle'.cover = {Row(s, "ok") : s \in gkg}
        /\ cycle'.rows = cycle.rows \cup UNION {Rows(s) : s \in gkg}
    BY <2>1 DEF LedgerIInv, OnTheirWay, NoCycle
  <2>2. ASSUME NEW r \in cycle'.cover PROVE Rows(r.start) \subseteq cycle'.rows
    <3>1. PICK s \in gkg : r = Row(s, "ok") BY <2>4
    <3>2. r.start = s BY <3>1 DEF Row
    <3>3. Rows(s) \subseteq UNION {Rows(t) : t \in gkg} OBVIOUS
    <3> QED BY <2>4, <3>2, <3>3
  <2>3. OnTheirWay' BY <2>1, <2>2 DEF LedgerIInv, OnTheirWay, Coming, Rows
  <2> QED BY <2>1, <2>3 DEF LedgerIInv, Landed, Rows
<1>10. ASSUME NEW ok \in BOOLEAN, Cover(ok) PROVE LedgerIInv'
  <2>1. /\ pc = "cover" /\ UNCHANGED <<events, byBackfill>>
        /\ pc' = IF cycle.rows = {} THEN "live" ELSE "live ingest"
    BY <1>10 DEF Cover
  <2>2. Landed' BY <2>1 DEF Landed
  <2>5. Coming' = cycle.rows
    BY <1>10, <2>1 DEF Coming, Cover, NoCycle
  <2>3. CASE ok
    <3>1. ledger' = ledger \cup cycle.cover /\ faults' = faults BY <1>10, <2>3 DEF Cover
    <3> QED BY <2>1, <2>2, <2>5, <3>1 DEF LedgerIInv, OnTheirWay, Coming, Rows
  <2>4. CASE ~ ok
    <3>1. ledger' = ledger /\ faults' = faults + 1 BY <1>10, <2>4 DEF Cover, Fault
    <3> QED BY <1>9, <2>1, <2>2, <3>1 DEF LedgerIInv, OnTheirWay, Rows
  <2> QED BY <2>3, <2>4
<1>11. CASE OtherCycle
  <2>1. pc = "live" /\ pc' = "live ingest" /\ UNCHANGED <<ledger, events, byBackfill, faults>>
    BY <1>11 DEF OtherCycle
  <2> QED BY <2>1 DEF LedgerIInv, Landed, OnTheirWay, Coming, Rows
<1>12. CASE LiveIngest
  <2>1. /\ pc = "live ingest" /\ pc' = "live publish" /\ events' = events \cup cycle.rows
        /\ UNCHANGED <<ledger, byBackfill, faults>>
    BY <1>12 DEF LiveIngest
  <2> QED BY <2>1 DEF LedgerIInv, Landed, OnTheirWay, Coming, Rows
<1>13. CASE Tick \/ UNCHANGED headlessVars
  <2>1. UNCHANGED <<pc, todo, events, byBackfill, ledger, faults, cycle>> BY <1>13 DEF Tick, headlessVars
  <2> QED BY <2>1 DEF LedgerIInv, Landed, OnTheirWay, Coming, Rows
<1> QED BY <1>2, <1>3, <1>4, <1>5, <1>6, <1>7, <1>8, <1>10, <1>11, <1>12, <1>13, <1>14
     DEF WorkerNext

\* Wherever the worker dies, a window its backfill recorded as ok has its rows
\* in the store, for backfill_gkg ingests before it records; fetch_cycle, which
\* records before it ingests, has them in when nothing has failed.
THEOREM WorkerLedgerHonest == WorkerSpec => []LedgerHonest
<1>1. LedgerIInv => LedgerHonest BY DEF LedgerIInv, OnTheirWay, Coming, LedgerHonest
<1> QED BY <1>1, LedgerInit, LedgerStep, PTL DEF WorkerSpec

-----------------------------------------------------------------------------
\* What \div and % yield.
LEMMA DivFacts ==
  ASSUME NEW a \in Int, NEW d \in Nat \ {0}
  PROVE  /\ a \div d \in Int /\ a % d \in 0 .. d - 1
         /\ a = d * (a \div d) + (a % d)
OBVIOUS

\* A stamp and the boundary after a moment are multiples of the step.
LEMMA NextMultiple ==
  ASSUME NEW s \in Nat, NEW t \in Nat, NEW d \in Nat \ {0}, s % d = 0, s <= t
  PROVE  (s + d) % d = 0 /\ s + d <= (t \div d + 1) * d
<1> DEFINE p == s \div d
           q == t \div d
<1>1. p \in Int /\ s = d * p + (s % d) BY DivFacts
<1>2. q \in Int /\ t % d \in 0 .. d - 1 /\ t = d * q + (t % d) BY DivFacts
<1>3. d * p = p * d /\ d * q = q * d /\ p * d \in Int /\ q * d \in Int BY <1>1, <1>2
<1>4. (q + 1) * d = q * d + d /\ (p + 1) * d = p * d + d BY <1>1, <1>2
<1> HIDE DEF p, q
<1>5. s = p * d /\ s < (q + 1) * d BY <1>1, <1>2, <1>3, <1>4
<1>6. p < q + 1
  <2>1. q + 1 <= p => (q + 1) * d <= p * d BY <1>1, <1>2, TimesMonotone
  <2> QED BY <1>1, <1>2, <1>3, <1>4, <1>5, <2>1
<1>7. (p + 1) * d <= (q + 1) * d BY <1>1, <1>2, <1>6, TimesMonotone
<1>8. s + d = d * (p + 1)
  <2>1. d * (p + 1) = (p + 1) * d BY <1>1
  <2> QED BY <1>4, <1>5, <2>1
<1>9. (d * (p + 1)) % d = 0
  <2> DEFINE a == d * (p + 1)
             r == a % d
             k == a \div d
  <2>1. a \in Int BY <1>1
  <2>2. k \in Int /\ r \in 0 .. d - 1 /\ a = d * k + r BY <2>1, DivFacts
  <2>3. d * k = k * d /\ a = (p + 1) * d /\ k * d \in Int BY <1>1, <2>2
  <2>4. (k + 1) * d = k * d + d BY <2>2
  <2> HIDE DEF a, r, k
  <2>5. CASE k < p + 1
    <3>1. (k + 1) * d <= (p + 1) * d BY <1>1, <2>2, <2>5, TimesMonotone
    <3> QED BY <2>2, <2>3, <2>4, <3>1, <1>4, <1>3
  <2>6. CASE p + 1 <= k
    <3>1. (p + 1) * d <= k * d BY <1>1, <2>2, <2>6, TimesMonotone
    <3> QED BY <2>2, <2>3, <3>1, <1>3, <1>4 DEF r, a
  <2>7. k < p + 1 \/ p + 1 <= k BY <1>1, <2>2
  <2> QED BY <2>5, <2>6, <2>7
<1> QED BY <1>3, <1>4, <1>5, <1>7, <1>8, <1>9 DEF q

-----------------------------------------------------------------------------
\* What makes TwiceOnlyInFlight hold: after a poll that was answered the next is
\* not due before the slot after its `now`, however long its legs took...
Slot(t) == (t \div Step + 1) * Step + FeedLag

\* ...and every dump a cycle in flight asked for is at least as new as all that
\* were out when it began.
Legs == {"fetch events", "fetch gkg", "cover"}
InFlight ==
  /\ DOMAIN cycle = DOMAIN NoCycle
  /\ cycle.at \in Nat /\ cycle.at <= clock
  /\ polled # Never => Slot(polled.at) <= cycle.at
  /\ \A s \in cycle.asked : /\ s \in Stamp
                            /\ \A u \in Stamp \ Lacking : u + Lag <= cycle.at => u <= s

SlotKept ==
  /\ clock \in 0 .. MaxTime
  /\ polled # Never => polled.at \in Nat /\ nextAt \in Int /\ Slot(polled.at) <= nextAt
  /\ pc \in Legs => InFlight

\* The slot after a moment is a number.
LEMMA SlotFacts ==
  ASSUME NEW t \in Nat
  PROVE  Slot(t) \in Int /\ t + UntilNextSlot(t, Step, FeedLag) = Slot(t)
         /\ UntilNextSlot(t, Step, FeedLag) \in Int
<1>1. Step \in Nat \ {0} /\ FeedLag \in Nat BY WorkerAssumption
<1>2. t \div Step \in Int BY <1>1
<1>3. (t \div Step + 1) * Step \in Int BY <1>1, <1>2
<1> QED BY <1>1, <1>3 DEF UntilNextSlot, Slot

\* What the pointer names is newer than all that was out before.
LEMMA NewestDominates ==
  ASSUME SlotKept, NEW at \in Nat, at <= clock, NEW s \in Newest
  PROVE  s \in Stamp /\ \A u \in Stamp \ Lacking : u + Lag <= at => u <= s
<1>1. Lag \in Nat /\ clock \in Nat /\ MaxTime \in Nat BY WorkerAssumption DEF SlotKept
<1>2. \A u \in Stamp : u \in Nat BY <1>1 DEF Stamp
<1> QED BY <1>1, <1>2 DEF Newest, Out

\* Every leg keeps the bound, and so does the wait.
LEMMA StepSlotKept == SlotKept /\ [WorkerNext]_headlessVars => SlotKept'
<1> SUFFICES ASSUME SlotKept, [WorkerNext]_headlessVars PROVE SlotKept'
  OBVIOUS
<1>0. clock \in Nat /\ MaxTime \in Nat /\ clock <= MaxTime BY WorkerAssumption DEF SlotKept
<1>1. ASSUME NEW doc \in Answers, FetchDoc(doc) PROVE SlotKept'
  <2>1. /\ UNCHANGED <<clock, nextAt, polled>> /\ nextAt <= clock
        /\ cycle' = [NoCycle EXCEPT !.gdelt = TRUE, !.at = clock, !.rows = doc.rows,
                                    !.doc = doc.errors]
    BY <1>1 DEF FetchDoc, time
  <2>2. cycle'.at = clock /\ cycle'.asked = {} /\ DOMAIN cycle' = DOMAIN NoCycle
    BY <2>1 DEF NoCycle
  <2>3. polled # Never => Slot(polled.at) <= clock
    BY <1>0, <2>1, SlotFacts DEF SlotKept
  <2> QED BY <1>0, <2>1, <2>2, <2>3 DEF SlotKept, InFlight, Slot
<1>2. ASSUME \/ \E ev \in Answers : FetchEvents(ev)
             \/ \E gkg \in SUBSET Newest : FetchGkg(gkg)
      PROVE  SlotKept'
  <2>1. UNCHANGED <<clock, nextAt, polled>> /\ pc \in Legs
    BY <1>2 DEF FetchEvents, FetchGkg, time, Legs
  <2>2. InFlight BY <2>1 DEF SlotKept
  <2>3. /\ DOMAIN cycle' = DOMAIN cycle /\ cycle'.at = cycle.at
        /\ cycle'.asked \subseteq cycle.asked \cup Newest
    BY <1>2, <2>2 DEF FetchEvents, FetchGkg, InFlight, NoCycle
  <2>4. ASSUME NEW s \in cycle'.asked
        PROVE  s \in Stamp /\ \A u \in Stamp \ Lacking : u + Lag <= cycle.at => u <= s
    <3>1. CASE s \in cycle.asked BY <2>2, <3>1 DEF InFlight
    <3>2. CASE s \in Newest BY <2>2, <3>2, NewestDominates DEF InFlight
    <3> QED BY <2>3, <3>1, <3>2
  <2>5. InFlight'
    BY <2>1, <2>2, <2>3, <2>4 DEF InFlight, Slot, Stamp
  <2> QED BY <2>1, <2>5 DEF SlotKept, Slot
<1>3. ASSUME NEW ok \in BOOLEAN, Cover(ok) PROVE SlotKept'
  <2>1. clock' = clock /\ pc' \notin Legs
    BY <1>3 DEF Cover, Return, Legs
  <2>2. InFlight BY <1>3 DEF Cover, SlotKept, Legs
  <2>3. CASE cycle.doc # {} /\ cycle.events # {}
    <3>1. polled' = Never BY <1>3, <2>3 DEF Cover
    <3> QED BY <2>1, <3>1 DEF SlotKept
  <2>4. CASE ~ (cycle.doc # {} /\ cycle.events # {})
    <3>0. /\ polled' = [at |-> cycle.at, asked |-> cycle.asked]
          /\ nextAt' = clock + UntilNextSlot(cycle.at, Step, FeedLag)
      BY <1>3, <2>4, Zenon DEF Cover
    <3>1. polled'.at = cycle.at /\ nextAt' = clock + UntilNextSlot(cycle.at, Step, FeedLag)
      BY <3>0
    <3>2. nextAt' \in Int /\ Slot(cycle.at) <= nextAt' BY <1>0, <2>2, <3>1, SlotFacts DEF InFlight
    <3> QED BY <2>1, <2>2, <3>1, <3>2 DEF SlotKept, Slot, InFlight
  <2> QED BY <2>3, <2>4
<1>4. CASE Stop \/ Die
  <2>1. clock' = clock /\ polled' = Never /\ pc' = "down"
    BY <1>4 DEF Stop, Die, Ends, Return
  <2> QED BY <2>1 DEF SlotKept, Never, Legs
<1>5. CASE Tick
  <2>1. /\ clock' = clock + 1 /\ clock < MaxTime
        /\ UNCHANGED <<polled, pc, cycle>> /\ nextAt' \in {nextAt, nextAt + 1}
    BY <1>5 DEF Tick, process
  <2>2. clock' \in 0 .. MaxTime BY <1>0, <2>1
  <2>3. polled # Never => nextAt' \in Int /\ Slot(polled.at) <= nextAt'
    BY <2>1, SlotFacts DEF SlotKept
  <2>4. pc \in Legs => InFlight'
    BY <1>0, <2>1 DEF SlotKept, InFlight, Slot, Stamp
  <2> QED BY <2>1, <2>2, <2>3, <2>4 DEF SlotKept, Slot
<1>6. CASE UNCHANGED time /\ (pc' \notin Legs \/ UNCHANGED <<pc, cycle>>)
  BY <1>6 DEF time, SlotKept, Slot, InFlight, Stamp
<1>7. [WorkerNext]_headlessVars =>
        \/ \E doc \in Answers : FetchDoc(doc)
        \/ \E ev \in Answers : FetchEvents(ev)
        \/ \E gkg \in SUBSET Newest : FetchGkg(gkg)
        \/ \E ok \in BOOLEAN : Cover(ok)
        \/ Stop \/ Die \/ Tick
        \/ UNCHANGED time /\ (pc' \notin Legs \/ UNCHANGED <<pc, cycle>>)
  <2>1. ASSUME NEW s \in Stamp, FetchWindow(s) PROVE UNCHANGED time /\ pc' \notin Legs
    BY <2>1 DEF FetchWindow, Goto, AfterFetch, Legs
  <2> QED
    BY <2>1 DEF WorkerNext, Start, Seed, SeedPublish, Plan, FetchWindowFails, BackfillIngest,
         BackfillRecord, BackfillRecordFailed, BackfillEnds, BackfillPublish, BackfillErrs,
         OtherCycle, LiveIngest, LivePublish, LiveErrs, Goto, Return, Legs, process,
         headlessVars
<1> QED BY <1>1, <1>2, <1>3, <1>4, <1>5, <1>6, <1>7

\* In every worker, whatever its cycles take and wherever a leg straddles the
\* moment a dump comes out: only such a dump, or one GDELT has put out nothing
\* after, is asked for by two polls in a row.
THEOREM WorkerTwiceOnlyInFlight == WorkerSpec => []TwiceOnlyInFlight
<1>1. WorkerInit => SlotKept
  BY WorkerAssumption DEF WorkerInit, SlotKept, Never, Legs
<1>2. ASSUME SlotKept, pc = "cover", NEW s \in polled.asked \cap cycle.asked
      PROVE  s + Lag > polled.at \/ s + Step \in Lacking
  <2>1. polled # Never BY <1>2 DEF Never
  <2>2. InFlight BY <1>2 DEF SlotKept, Legs
  <2>3. /\ s \in Stamp /\ cycle.at \in Nat /\ cycle.at <= clock /\ Slot(polled.at) <= cycle.at
        /\ \A u \in Stamp \ Lacking : u + Lag <= cycle.at => u <= s
    BY <1>2, <2>1, <2>2 DEF InFlight
  <2>4. /\ Step \in Nat \ {0} /\ Lag \in Nat /\ FeedLag \in Nat /\ Lag <= FeedLag
        /\ MaxTime \in Nat /\ polled.at \in Nat /\ clock \in 0 .. MaxTime
    BY <1>2, <2>1, WorkerAssumption DEF SlotKept
  <2>5. s \in Nat /\ s % Step = 0 BY <2>3, <2>4 DEF Stamp
  <2>6. SUFFICES ASSUME s + Lag <= polled.at PROVE s + Step \in Lacking
    BY <2>4, <2>5
  <2>7. (s + Step) % Step = 0 /\ s + Step + FeedLag <= Slot(polled.at)
    <3>1. s <= polled.at BY <2>4, <2>5, <2>6
    <3>2. (s + Step) % Step = 0 /\ s + Step <= (polled.at \div Step + 1) * Step
      BY <2>4, <2>5, <3>1, NextMultiple
    <3>3. (polled.at \div Step + 1) * Step \in Int
      <4>1. polled.at \div Step \in Int BY <2>4
      <4> QED BY <2>4, <4>1
    <3> QED BY <2>4, <2>5, <3>2, <3>3 DEF Slot
  <2>8. s + Step + Lag <= cycle.at /\ s + Step <= MaxTime
    BY <2>3, <2>4, <2>5, <2>7, SlotFacts
  <2>9. s + Step \in Stamp BY <2>4, <2>5, <2>7, <2>8 DEF Stamp
  <2> QED BY <2>3, <2>4, <2>5, <2>8, <2>9
<1>3. SlotKept => TwiceOnlyInFlight BY <1>2 DEF TwiceOnlyInFlight
<1> QED BY <1>1, <1>3, StepSlotKept, PTL DEF WorkerSpec
=============================================================================
