------------------------------- MODULE Digest -------------------------------
(***************************************************************************)
(* The facts a day's digest is written from (crates/storage: digest_facts  *)
(* and below) and crates/daily-digest: what of them is sent, and what of   *)
(* the answer is kept.                                                     *)
(***************************************************************************)
EXTENDS Reads

CONSTANT MaxPlaces,       \* MAX_PLACES
         MaxHeadlines,    \* MAX_HEADLINES: the query takes four times as many
         MaxNotable       \* MAX_NOTABLE: the query takes twenty times as many groups

ASSUME DigestAssumption == MaxPlaces \in Nat /\ MaxHeadlines \in Nat /\ MaxNotable \in Nat

\* row_level_permitted
\* Mutant: every source's rows may be forwarded.
AnySource(source) == source \in SourceId
RowLevelPermitted(source) == source \in {"gdelt", "noaa", "ioda"}

DayWindow(day) == [start |-> 24 * day, end |-> 24 * (day + 1)]
Volume(E) == MapThenSumSet(LAMBDA e : e.volume, E)

AttentionOf(E, day) == {e \in In(E, DayWindow(day)) : e.family = "media_attention"}
EventsOf(E, day) == EventHalf(In(E, DayWindow(day)))

\* do_digest_days: the days that have rows, newest first, the halves counted
\* apart.
DigestDays(E, limit) ==
  Take(Ordered({[day |-> e.ts \div 24,
                 attention |-> Cardinality(AttentionOf(E, e.ts \div 24)),
                 events |-> Cardinality(EventsOf(E, e.ts \div 24))] : e \in E},
               LAMBDA a, b : a.day > b.day), limit)

\* top_places: by articles and records, or by records alone.
TopPlaces(E, articles) ==
  LET of(c) == {e \in E : e.country = c}
  IN  Take(Ordered({[country |-> c, records |-> Cardinality(of(c)),
                     articles |-> IF articles THEN Volume(of(c)) ELSE 0] :
                      c \in {e.country : e \in E}},
                   LAMBDA a, b : \/ a.articles > b.articles
                                 \/ a.articles = b.articles /\ a.records > b.records
                                 \/ a.articles = b.articles /\ a.records = b.records
                                    /\ a.country < b.country), MaxPlaces)

\* digest_attention: the over-fetched headlines pass the licence afterwards.
DigestAttention(E, day) ==
  LET att == AttentionOf(E, day)
      titled == Take(Ordered({e \in att : e.headline # 0},
                             LAMBDA a, b : a.volume > b.volume
                                           \/ (a.volume = b.volume /\ Newer(a, b))),
                     4 * MaxHeadlines)
  IN  [records |-> Cardinality(att), articles |-> Volume(att),
       outlets |-> Cardinality(UNION {e.outlets : e \in att}),
       places |-> TopPlaces(att, TRUE),
       headlines |-> Take(Only(titled, {i \in DOMAIN titled : RowLevelPermitted(titled[i].source)}),
                          MaxHeadlines)]

-----------------------------------------------------------------------------
\* digest_events.  Identical rows are one group; groups with a label come
\* first, then the severer, then the larger (a last key stands for the order
\* the query leaves open).
Groups(E) ==
  {LET of == {x \in E : x.country = e.country /\ x.kind = e.kind /\ x.source = e.source
                        /\ x.headline = e.headline}
   IN  [country |-> e.country, kind |-> e.kind, source |-> e.source, label |-> e.headline,
        severity |-> Max({x.sev : x \in of}), n |-> Cardinality(of),
        key |-> Min({x.id : x \in of})] : e \in E}

Labelled(g) == IF g.label # 0 THEN 1 ELSE 0
Ranks(a, b) ==
  \/ Labelled(a) > Labelled(b)
  \/ Labelled(a) = Labelled(b) /\ a.severity > b.severity
  \/ Labelled(a) = Labelled(b) /\ a.severity = b.severity /\ a.n > b.n
  \/ Labelled(a) = Labelled(b) /\ a.severity = b.severity /\ a.n = b.n /\ a.key < b.key

\* The round-robin over the sources, in the order they first appear: the
\* groups of the first rounds, as many as there is room for.
RoundRobin(groups, room) ==
  LET permitted == Only(groups, {i \in DOMAIN groups : RowLevelPermitted(groups[i].source)})
      at(i) == Cardinality({j \in 1 .. i - 1 : permitted[j].source = permitted[i].source})
      queue(i) == Min({j \in DOMAIN permitted : permitted[j].source = permitted[i].source})
      picks == Take(Ordered(DOMAIN permitted,
                            LAMBDA i, j : at(i) < at(j)
                                          \/ (at(i) = at(j) /\ queue(i) < queue(j))), room)
  IN  {permitted[picks[k]] : k \in DOMAIN picks}

Notable(E) ==
  Ordered(RoundRobin(Take(Ordered(Groups(E), Ranks), 20 * MaxNotable), MaxNotable), Ranks)

DigestEvents(E, day) ==
  LET evt == EventsOf(E, day)
      by(s) == Cardinality({e \in evt : e.source = s})
  IN  [records |-> Cardinality(evt),
       alerts |-> Cardinality({e \in evt : e.family = "official_alert"}),
       byKind |-> [k \in {e.kind : e \in evt} |-> Cardinality({e \in evt : e.kind = k})],
       bySource |-> [s \in {e.source : e \in evt} |-> by(s)],
       places |-> TopPlaces(evt, FALSE),
       notable |-> Notable(evt),
       countsOnly |-> [s \in {e.source : e \in evt} \ {s \in SourceId : RowLevelPermitted(s)}
                         |-> by(s)]]

DigestFacts(E, day) ==
  [day |-> day, attention |-> DigestAttention(E, day), events |-> DigestEvents(E, day)]

-----------------------------------------------------------------------------
\* is_empty: a day with nothing in either half costs no call.
NothingToSay(facts) == facts.attention.records = 0 /\ facts.events.records = 0

\* render_facts and request_body: the counts, and these rows word for word.
Sent(facts) ==
  {facts.attention.headlines[i].source : i \in DOMAIN facts.attention.headlines}
    \cup {facts.events.notable[i].source : i \in DOMAIN facts.events.notable}

\* parse_response.  A block is named before any text is read; an answer cut at
\* the token limit is no answer; both sections must be there.  `text` is what
\* the unflagged parts hold.
ParseResponse(body) ==
  IF body.blocked THEN "refused"
  ELSE IF ~ body.candidate \/ body.finish = "MAX_TOKENS" THEN "parse"
  ELSE IF body.finish \notin {"", "STOP"} THEN "refused"
  ELSE IF body.text # "both" THEN "parse"
  ELSE "ok"

\* GeminiDigester::generate.  `came` is how far the reply came: not at all, its
\* head, or all of it; the body of a refusal is only quoted, read or not.
Generate(facts, resp) ==
  IF NothingToSay(facts) THEN "no_data"
  ELSE IF resp.came = "none" THEN "http"
  ELSE IF resp.status = 429 THEN "limited"
  ELSE IF resp.status \notin 200 .. 299 THEN "api"
  ELSE IF resp.came # "all" THEN "http"
  ELSE IF ~ resp.body.json THEN "parse"
  ELSE ParseResponse(resp.body)
=============================================================================
