------------------------------ MODULE Matchers ------------------------------
(***************************************************************************)
(* What a post is about (crates/chatter: tokenize, find_window, script,    *)
(* place, topic and ChatterAccumulator::observe).  A text is a sequence of *)
(* clauses between spaces, each one word of letters or a run of glyphs of  *)
(* a script that does not delimit words; a glyph goes by its name.  The    *)
(* tables are kept to a few rows of each kind, every row that collides     *)
(* with another among them.                                                *)
(***************************************************************************)
EXTENDS Gazetteer, Signal, FiniteSetsExt, SequencesExt

CONSTANTS Features,   \* the two bundled files: [countries, cities], sequences of features
          IsoNumber,  \* the number a country goes by in Signal
          WindowHours \* bound: the length of a rollup window

-----------------------------------------------------------------------------
\* place.rs: spellings, never coordinates.
COUNTRY_ALIASES ==
  {<<<<"united", "states">>, "USA">>, <<<<"america">>, "USA">>, <<<<"gaza">>, "PSE">>,
   <<<<"gaza", "strip">>, "PSE">>, <<<<"west", "bank">>, "PSE">>,
   <<<<"republic", "of", "congo">>, "COG">>,
   <<<<"democratic", "republic", "of", "congo">>, "COD">>}
COUNTRY_ADJECTIVES == {<<<<"jordanian">>, "JOR">>, <<<<"burmese">>, "MMR">>}
CITY_ALIASES == {<<<<"rangoon">>, <<"yangon">>>>}
AMBIGUOUS_TOKENS == {<<"male">>, <<"chad">>, <<"jordan">>, <<"georgia">>}
SCRIPT_COUNTRY_TOKENS ==
  <<<<<<"ma", "medial ra", "na", "asat", "ma", "aa">>, "MMR">>, <<<<"ri", "ben">>, "JPN">>,
    <<<<"zhong", "guo">>, "CHN">>>>
SCRIPT_CITY_TOKENS ==
  <<<<<<"dong", "jing">>, <<"tokyo">>>>, <<<<"jing", "du">>, <<"kyoto">>>>,
    <<<<"bei", "jing">>, <<"beijing">>>>>>

\* topic.rs: the topics in their order, with the words that name them.
TOPICS ==
  <<[label |-> "protest", keywords |-> {<<"protest">>, <<"protests">>, <<"riot">>}],
    [label |-> "unrest", keywords |-> {<<"clashes">>, <<"tear", "gas">>, <<"riot", "police">>}],
    [label |-> "conflict", keywords |-> {<<"shelling">>, <<"drone", "strike">>}],
    [label |-> "flood", keywords |-> {<<"flood">>}],
    [label |-> "earthquake", keywords |-> {<<"earthquake">>, <<"aftershock">>}],
    [label |-> "strike", keywords |-> {<<"strike">>, <<"general", "strike">>}],
    [label |-> "outage", keywords |-> {<<"blackout">>, <<"internet", "shutdown">>}]>>
SCRIPT_TOPIC_KEYWORDS ==
  <<<<<<"nga", "la", "medial ya", "nga", "asat">>, "earthquake">>,
    <<<<"di", "zhen">>, "earthquake">>, <<<<"yu", "zhen">>, "earthquake">>,
    <<<<"hong", "shui">>, "flood">>, <<<<"de", "mo">>, "protest">>>>

-----------------------------------------------------------------------------
\* tokenize: a clause in another script is one word, which no table holds.
IsWord(clause) == clause.glyphs = <<>>
Tokenize(text) == Mapped(text, LAMBDA clause : IF IsWord(clause) THEN clause.word ELSE "")

\* Leftmost, and the longest there: of the windows of `words` the table holds,
\* the first in reading order.
\* Mutant: the shortest first.
FindWindowShortest(words, maxWords, table) ==
  LET hits == {h \in (1 .. Len(words)) \X (1 .. maxWords) :
                 /\ h[1] + h[2] - 1 <= Len(words)
                 /\ SubSeq(words, h[1], h[1] + h[2] - 1) \in DOMAIN table}
      first == CHOOSE h \in hits :
                 \A g \in hits : h[1] < g[1] \/ (h[1] = g[1] /\ h[2] <= g[2])
  IN  IF hits = {} THEN {} ELSE {table[SubSeq(words, first[1], first[1] + first[2] - 1)]}
FindWindow(words, maxWords, table) ==
  LET hits == {h \in (1 .. Len(words)) \X (1 .. maxWords) :
                 /\ h[1] + h[2] - 1 <= Len(words)
                 /\ SubSeq(words, h[1], h[1] + h[2] - 1) \in DOMAIN table}
      first == CHOOSE h \in hits :
                 \A g \in hits : h[1] < g[1] \/ (h[1] = g[1] /\ h[2] >= g[2])
  IN  IF hits = {} THEN {} ELSE {table[SubSeq(words, first[1], first[1] + first[2] - 1)]}

-----------------------------------------------------------------------------
\* script.rs.  class_of: punctuation is of no script.
MYANMAR == {"ma", "na", "nga", "la", "medial ra", "medial ya", "asat", "aa", "virama"}
CJK == {"ri", "ben", "zhong", "guo", "dong", "jing", "du", "bei", "di", "zhen", "yu",
        "hong", "shui", "de", "mo", "voicing"}
ClassOf(g) ==
  CASE g \in MYANMAR -> "Myanmar" [] g \in CJK -> "Cjk" [] OTHER -> "none"
IsClusterExtender(g) == g \in {"medial ra", "medial ya", "asat", "aa", "virama", "voicing"}
IsForwardBinder(g) == g = "virama"

\* runs: the maximal runs of one script.
RunsOf(glyphs) ==
  LET same(i, j) == \A k \in i .. j : ClassOf(glyphs[k]) = ClassOf(glyphs[i])
      pos == DOMAIN glyphs
      spans == {s \in pos \X pos :
                  /\ s[1] <= s[2] /\ ClassOf(glyphs[s[1]]) # "none" /\ same(s[1], s[2])
                  /\ s[1] - 1 \in pos => ~ same(s[1] - 1, s[1])
                  /\ s[2] + 1 \in pos => ~ same(s[1], s[2] + 1)}
  IN  Mapped(Ordered(spans, LAMBDA a, b : a[1] < b[1]), LAMBDA s : SubSeq(glyphs, s[1], s[2]))
Runs(text) == FoldLeft(LAMBDA runs, clause : runs \o RunsOf(clause.glyphs), <<>>, text)

\* keyword_class, insert: a keyword that mixes scripts is left out, and one
\* that is there keeps what it stands for.
KeywordClass(keyword) ==
  IF Cardinality({ClassOf(keyword[i]) : i \in DOMAIN keyword}) = 1 THEN ClassOf(keyword[1])
  ELSE "none"
Inserted(entries) ==
  {entries[i] : i \in {k \in DOMAIN entries :
     /\ KeywordClass(entries[k][1]) # "none"
     /\ \A j \in 1 .. k - 1 : entries[j][1] # entries[k][1]}}

\* ScriptMatcher::find: a match begins and ends between syllables.
ReadsAt(run, o, keyword) ==
  /\ ~ IsClusterExtender(run[o])
  /\ ~ (o > 1 /\ IsForwardBinder(run[o - 1]))
  /\ o + Len(keyword) - 1 <= Len(run) /\ SubSeq(run, o, o + Len(keyword) - 1) = keyword
  /\ ~ (o + Len(keyword) <= Len(run) /\ IsClusterExtender(run[o + Len(keyword)]))
FindInRuns(scripts, runs) ==
  LET spots == UNION {({r} \X DOMAIN runs[r]) \X scripts : r \in DOMAIN runs}
      reads == {x \in spots : ReadsAt(runs[x[1][1]], x[1][2], x[2][1])}
      before(a, b) == \/ a[1][1] < b[1][1]
                      \/ a[1][1] = b[1][1] /\ a[1][2] < b[1][2]
                      \/ a[1] = b[1] /\ Len(a[2][1]) > Len(b[2][1])
  IN  {x[2][2] : x \in {x \in reads : ~ \E y \in reads : before(y, x)}}

-----------------------------------------------------------------------------
\* PlaceMatcher::from_indexes: the places are the cities and then the countries
\* that have a centroid.
Cities == CityIndex(Features.cities)
Countries == WithCentroid(CountryIndex(Features.countries))
Place(i) ==
  IF i <= Len(Cities)
  THEN [name |-> Cities[i].name, iso |-> Cities[i].iso_a3, prec |-> "city",
        cell |-> Cities[i].cell]
  ELSE LET c == Countries[i - Len(Cities)]
       IN  [name |-> c.name, iso |-> c.iso_a3, prec |-> "country",
            cell |-> CHOOSE cell \in c.centroid : TRUE]

Named(table, key) == {row[1] : row \in {r \in table : r[2] = key}}
CityTokens(city) == {city.name} \cup city.alt_names \cup Named(CITY_ALIASES, city.name)
CountryTokens(country) ==
  {country.name} \cup Named(COUNTRY_ALIASES \cup COUNTRY_ADJECTIVES, country.iso_a3)

\* A token goes to the first city that has it, unless a country has it: then to
\* the last one.  The ambiguous ones go when the table is built.
PlaceTokens ==
  LET cities(t) == {i \in DOMAIN Cities : t \in CityTokens(Cities[i])}
      countries(t) == {i \in DOMAIN Countries : t \in CountryTokens(Countries[i])}
      tokens == UNION {CityTokens(Cities[i]) : i \in DOMAIN Cities} \cup
                UNION {CountryTokens(Countries[i]) : i \in DOMAIN Countries}
  IN  [t \in tokens \ AMBIGUOUS_TOKENS |->
         IF countries(t) # {} THEN Len(Cities) + Max(countries(t)) ELSE Min(cities(t))]

\* The script tables, for the places the bundled files have.
ScriptPlaces ==
  LET city(i) == SelectSeq(SCRIPT_CITY_TOKENS, LAMBDA row : row[2] = Cities[i].name)
      country(i) == SelectSeq(SCRIPT_COUNTRY_TOKENS, LAMBDA row : row[2] = Countries[i].iso_a3)
      rows == [i \in DOMAIN Cities |-> Mapped(city(i), LAMBDA row : <<row[1], i>>)]
              \o [i \in DOMAIN Countries |->
                   Mapped(country(i), LAMBDA row : <<row[1], Len(Cities) + i>>)]
  IN  Inserted(FlattenSeq(rows))

\* TopicMatcher::new: a keyword two topics claim is the first one's.
TopicNamed(label) == CHOOSE i \in DOMAIN TOPICS : TOPICS[i].label = label
TopicTokens ==
  [t \in UNION {TOPICS[i].keywords : i \in DOMAIN TOPICS} |->
     Min({i \in DOMAIN TOPICS : t \in TOPICS[i].keywords})]
ScriptTopics ==
  Inserted(Mapped(SelectSeq(SCRIPT_TOPIC_KEYWORDS,
                            LAMBDA row : \E i \in DOMAIN TOPICS : TOPICS[i].label = row[2]),
                  LAMBDA row : <<row[1], TopicNamed(row[2])>>))

LongestToken(table) == Max({1} \cup {Len(t) : t \in DOMAIN table})

\* find, and find_in_runs only where the words name none.
Found(text, table, scripts) ==
  LET byWord == FindWindow(Tokenize(text), LongestToken(table), table)
  IN  IF byWord # {} THEN byWord ELSE FindInRuns(scripts, Runs(text))

\* observe: one place and one topic, or the post is not counted.
Observe(text) == Found(text, PlaceTokens, ScriptPlaces) \X Found(text, TopicTokens, ScriptTopics)

\* A topic's label is one of an event's themes.
TopicTheme(i) == 100 + i

\* The accumulator of a sequence of posts, drained: a rollup for every place,
\* topic, class and window that has a post (rollups_from).
ClassRank ==
  [c \in ChannelClass |-> CHOOSE n \in 1 .. 6 :
     <<"unspecified", "monitor", "outlet", "partisan", "combatant", "state">>[n] = c]
WindowStart(ts) == (ts \div WindowHours) * WindowHours
Rollups(posts) ==
  LET keys == [i \in DOMAIN posts |->
                 {<<m[1], m[2], posts[i].class, WindowStart(posts[i].ts)>> : m \in Observe(posts[i].text)}]
      before(a, b) == \E n \in 1 .. 4 :
        /\ \A m \in 1 .. n - 1 : a[m] = b[m]
        /\ IF n = 3 THEN ClassRank[a[3]] < ClassRank[b[3]] ELSE a[n] < b[n]
      rollup(k) ==
        [form |-> "rollup", place |-> Place(k[1]).name, topic |-> TopicTheme(k[2]),
         class |-> k[3], window |-> k[4], cell |-> Place(k[1]).cell,
         country |-> IsoNumber[Place(k[1]).iso], prec |-> Place(k[1]).prec,
         count |-> Cardinality({i \in DOMAIN posts : k \in keys[i]})]
  IN  Mapped(Ordered(UNION {keys[i] : i \in DOMAIN posts}, before), rollup)
=============================================================================
