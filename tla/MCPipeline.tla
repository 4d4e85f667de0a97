----------------------------- MODULE MCPipeline -----------------------------
(***************************************************************************)
(* Eleven answers of six providers over four days: articles and a rejected *)
(* query, one article with two places, unrest rows old enough to be a      *)
(* baseline, alerts with and without a polygon, licensed records that tie  *)
(* in time, ten posts of two classes, and synthetic files.                 *)
(***************************************************************************)
EXTENDS Pipeline

\* The bundled files: five cities, eight countries one of which is a gap, and
\* a coast line.  The two Congos and Jordan have each a code and no more.
City(name, ascii, alts, iso, cell) ==
  [geometry |-> "point", gaps |-> {}, cell |-> cell,
   props |-> ("name" :> name) @@ ("nameascii" :> ascii) @@ ("namealt" :> alts)
             @@ ("adm0_a3" :> iso)]
Country(name, iso3, iso2, cell) ==
  [geometry |-> "multipolygon", gaps |-> IF iso3 = "FRA" THEN {"ISO_A3"} ELSE {},
   centroid |-> IF cell = 0 THEN {} ELSE {cell},
   props |-> ("NAME" :> name) @@ ("ISO_A3" :> IF iso3 = "FRA" THEN "-99" ELSE iso3)
             @@ ("ADM0_A3" :> iso3) @@ ("ISO_A2" :> iso2)]
MCFeatures ==
  [cities |-> <<City(<<"tokyo">>, <<"tokyo">>, {}, "JPN", 3),
                City(<<"yangon">>, <<"yangon">>, {<<"ran", "gun">>}, "MMR", 1),
                City(<<"malé">>, <<"male">>, {}, "MDV", 2),
                City(<<"djibouti">>, <<"djibouti">>, {}, "DJI", 2),
                [geometry |-> "line", gaps |-> {}, cell |-> 1, props |-> "name" :> <<"coast">>]>>,
   countries |-> <<Country(<<"palestine">>, "PSE", "PS", 2), Country(<<"djibouti">>, "DJI", "DJ", 1),
                   Country(<<"congo">>, "COG", "CG", 1), Country(<<"dem", "rep", "congo">>, "COD", "CD", 3),
                   Country(<<"chad">>, "TCD", "TD", 2), Country(<<"france">>, "FRA", "FR", 3),
                   Country(<<"jordan">>, "JOR", "JO", 0), Country(<<"japan">>, "JPN", "JP", 3)>>]
MCIsoNumber == [iso \in {"PSE", "COG", "COD", "DJI", "MMR", "JPN", "TCD", "FRA", "MDV"} |->
                  CASE iso \in {"PSE", "MDV", "TCD"} -> 2 [] iso \in {"JPN", "COD", "FRA"} -> 3 [] OTHER -> 1]
MCCodes == <<"DJ", "PS", "JP">>
MCKnown == {n \in 1 .. 3 : CentroidByIsoA2(CountryIndex(MCFeatures.countries), MCCodes[n]) = {n}}
MCNumeric == (804 :> 1) @@ (404 :> 2)
MCHighSignal == {5, 11}

\* event_id: a number of its own for every source and own id.
Index(s, seq) == CHOOSE i \in DOMAIN seq : seq[i] = s
Classes == <<"unspecified", "monitor", "outlet", "partisan", "combatant", "state">>
Names == <<<<"palestine">>, <<"djibouti">>, <<"dem", "rep", "congo">>, <<"tokyo">>, <<"yangon">>,
           <<"congo">>, <<"chad">>, <<"malé">>, <<"japan">>>>
MCHash(source, native) ==
  1000 * Index(source, <<"fixtures", "gdelt", "acled", "noaa", "ioda", "bluesky", "telegram">>)
  + CASE source = "gdelt" /\ native[1] = "event" -> 100 + native[2]
      [] source = "gdelt" /\ native[1] = "gkg" -> 200 + 10 * native[2] + native[3]
      [] source = "gdelt" /\ native[1] = "doc" -> 300 + native[2]
      [] source = "ioda" -> native[1]
      [] source = "telegram" ->
           200 * Index(native[1], Names) + 20 * (native[2] - 100) + 2 * Index(native[3], Classes)
           + (native[4] % 2)
      [] OTHER -> native

-----------------------------------------------------------------------------
Resp(status, body, recs) == [status |-> status, body |-> body, rows |-> recs]
Truth(source, leg, matches, broken, events) ==
  [source |-> source, leg |-> leg, matches |-> matches, broken |-> broken, events |-> events]

Article(url, name, ts) ==
  [form |-> "doc", url |-> url, sourcecountry |-> name, seendate |-> ts, title |-> 10 + url,
   domain |-> 20 + url, themes |-> {}]
UnrestRow(id, root, geo, cell, ts) ==
  [form |-> "events", cols |-> 61, id |-> id, root |-> root, geo |-> geo, cell |-> cell,
   fips |-> cell, added |-> ts, sqldate |-> 0, articles |-> 3, goldstein |-> -10, doc |-> id]
Mention(pos, geo, cell) == [pos |-> pos, geo |-> geo, cell |-> cell, fips |-> cell]
GkgRow(id, cols, mentions) ==
  [form |-> "gkg", cols |-> cols, id |-> id, date |-> 98, mentions |-> mentions,
   themes |-> {11}, title |-> 30, domain |-> 31, doc |-> 32]
Alert(id, vertices, cell, label) ==
  [form |-> "noaa", properties |-> TRUE, geometry |-> [vertices |-> vertices, cell |-> cell],
   id |-> id, times |-> <<99>>, label |-> label, severity |-> "Severe", url |-> 40 + id]
Incident(id, cell) ==
  [form |-> "acled", id |-> id, day |-> 4, cell |-> cell, type |-> "Protests", geo |-> 1,
   iso |-> 804, fatalities |-> 2, labels |-> {12}, title |-> 50, sources |-> {51, 52}]

Granted(access) ==
  [status |-> 200, json |-> TRUE, access |-> access, refresh |-> TRUE, life |-> 3]

\* Posts, with what a reader says each is about: a cell and a topic, or nothing.
Word(w) == [word |-> w, glyphs |-> <<>>]
Run(glyphs) == [word |-> "", glyphs |-> glyphs]
Post(text, class, about) == [text |-> text, class |-> class, ts |-> 97, about |-> about]
Latin(words) == Mapped(words, Word)
MCPosts ==
  <<Post(Latin(<<"shelling", "in", "gaza", "strip">>), "monitor", <<2, 103>>),
    Post(Latin(<<"shelling", "west", "of", "gaza", "near", "djibouti">>), "state", <<2, 103>>),
    Post(Latin(<<"riot", "police", "in", "gaza">>), "monitor", <<2, 102>>),
    Post(Latin(<<"democratic", "republic", "of", "congo", "clashes">>), "monitor", <<3, 102>>),
    Post(Latin(<<"chad", "joined", "the", "protest">>), "monitor", <<>>),
    Post(Latin(<<"male", "driver", "caught", "in", "flood">>), "monitor", <<>>),
    Post(Latin(<<"djibouti", "blackout">>), "monitor", <<1, 107>>),
    Post(<<Run(<<"dong", "jing", "du", ".", "di", "zhen">>)>>, "monitor", <<3, 105>>),
    Post(<<Run(<<"dong", "jing", "de", "mo", "voicing">>)>>, "monitor", <<>>),
    Post(<<Word("rangoon"), Run(<<"nga", "la", "medial ya", "nga", "asat">>)>>, "monitor",
         <<1, 105>>)>>
Synthetic(id, ts) ==
  [form |-> "fixture", shape |-> "acled_event", id |-> id, ts |-> ts, country |-> 2, cell |-> 2,
   geo |-> 1, type |-> "Battles", volume |-> 1, fatalities |-> 0, themes |-> {5}, title |-> 60,
   domains |-> {}, urls |-> {}]

Lines(leg) == [status |-> 200, lines |-> <<[wellFormed |-> TRUE, leg |-> leg, window |-> 96]>>]
Query == [query |-> <<"q">>, themes |-> {11}]

AllAnswers ==
  {Truth("gdelt", "doc", 2, 1, 1) @@ [query |-> Query,
     resp |-> Resp(200, "list", <<Article(1, 101, 98), Article(2, 0, 98)>>)],
   Truth("gdelt", "doc", 2, 0, 0) @@ [query |-> Query, resp |-> Resp(200, "sentence", <<>>)],
   Truth("gdelt", "doc", 2, 0, 0) @@ [query |-> Query, resp |-> Resp(429, "other", <<>>)],
   Truth("gdelt", "gkg", 2, 1, 2) @@ [pointer |-> Lines("gkg"),
     resp |-> Resp(200, "zip",
       <<GkgRow(1, 24, <<Mention(1, 3, 1), Mention(5, 4, 2), Mention(5, 4, 2), Mention(9, 0, 3)>>),
         GkgRow(2, 23, <<>>)>>)],
   Truth("gdelt", "events", 3, 0, 2) @@ [pointer |-> Lines("events"),
     resp |-> Resp(200, "zip",
       <<UnrestRow(1, 14, 3, 1, 97), UnrestRow(2, 18, 1, 2, 97), UnrestRow(3, 4, 3, 1, 97)>>)],
   Truth("gdelt", "events", 2, 1, 1) @@ [pointer |-> Lines("events"),
     resp |-> Resp(200, "zip", <<UnrestRow(4, 14, 3, 1, 50), UnrestRow(0, 14, 3, 1, 50)>>)],
   Truth("noaa", "noaa", 3, 0, 2) @@ [resp |-> Resp(200, "list",
     <<Alert(1, 5, 3, 70), Alert(2, 5, 3, 71), Alert(3, 0, 3, 72)>>)],
   Truth("acled", "acled", 3, 0, 3) @@ [window |-> [start |-> 80, end |-> 97], server |->
     Resp(200, "list", <<Incident(1, 1), Incident(2, 1), Incident(3, 2)>>)
     @@ [live |-> <<{7}, {9}>>, grants |-> <<Granted(7), Granted(9)>>]],
   Truth("acled", "acled", 1, 0, 1) @@ [window |-> [start |-> 72, end |-> 96], server |->
     Resp(200, "list", <<Incident(1, 1), [Incident(4, 2) EXCEPT !.day = 3]>>)
     @@ [live |-> <<{8, 9}, {8, 9}>>, grants |-> <<[status |-> 403], Granted(8)>>]],
   Truth("telegram", "rollup", 7, 0, 7) @@ [posts |-> MCPosts, rows |-> Rollups(MCPosts)],
   Truth("fixtures", "fixture", 1, 0, 1) @@ [window |-> [start |-> 0, end |-> 100],
     files |-> <<[schema |-> TRUE, rows |-> <<Synthetic(1, 74), Synthetic(2, 150)>>]>>]}

\* The same, each compared with itself: that puts it in the normal form in which
\* TLC's workers can share it.
MCAnswers == {a \in AllAnswers : a \in AllAnswers}

Body(blocked, finish, text, whole) ==
  [json |-> TRUE, blocked |-> blocked, candidate |-> ~ blocked, finish |-> finish,
   text |-> text, whole |-> whole]
Reply(came, status, body) == [came |-> came, status |-> status, body |-> body]
MCModels ==
  {Reply("all", 200, Body(FALSE, "STOP", "both", TRUE)),
   Reply("all", 200, Body(FALSE, "RECITATION", "both", FALSE)),
   Reply("all", 200, Body(FALSE, "MAX_TOKENS", "one", FALSE)),
   Reply("all", 200, Body(TRUE, "", "none", FALSE)),
   Reply("all", 200, [Body(FALSE, "STOP", "both", FALSE) EXCEPT !.json = FALSE]),
   Reply("all", 503, Body(FALSE, "STOP", "both", FALSE)),
   Reply("head", 200, Body(FALSE, "STOP", "both", FALSE)),
   Reply("none", 0, Body(FALSE, "", "none", FALSE))}

\* The whole span, and two windows that begin and end inside a bucket.
MCWindows == {[start |-> 24, end |-> 120], [start |-> 75, end |-> 99],
              [start |-> 50, end |-> 101]}
=============================================================================
