------------------------------- MODULE Gdelt --------------------------------
(***************************************************************************)
(* The GDELT adapter (source-gdelt): what a response of each of its three  *)
(* legs is worth, and the events one row of each becomes.  A response is   *)
(* its status and the shape of its body; a row is a record of the columns  *)
(* the code reads, 0 where a column is empty or does not parse.            *)
(***************************************************************************)
EXTENDS Signal

CONSTANT KnownCountries  \* the rows of country.rs: numbers; 0 and others are unknown

\* resolve: an outlet's country by name, through the aliases, to the cell of
\* its centroid (cells and countries share their numbers here).
Aliases == [c \in KnownCountries |-> c] @@ [c \in {c + 100 : c \in KnownCountries} |-> c - 100]
Resolve(name) == IF name \in DOMAIN Aliases THEN Some(Aliases[name]) ELSE {}

\* iso3_from_fips: a code outside the table leaves the country empty.
CountryFromFips(fips) == IF fips \in KnownCountries THEN fips ELSE 0

-----------------------------------------------------------------------------
\* The HTTP half.  What a fetch answers: rows, or the error the scheduler
\* backs off on.
Fetched(rows) == [err |-> "none", rows |-> rows]
Failed(err) == [err |-> err, rows |-> <<>>]

\* get: 429 is a rate limit, anything else outside 2xx an HTTP error; then what
\* was read of the body counts.
Get(resp, read) ==
  IF resp.status = 429 THEN Failed("limited")
  ELSE IF resp.status \notin 200 .. 299 THEN Failed("http")
  ELSE read

\* doc::articles.  DOC answers a rejected query with 200 and a sentence, which
\* is named as what it is; a body with no `articles` is a quiet answer.
Articles(resp) ==
  CASE resp.body = "list" -> Fetched(resp.rows)
    [] resp.body = "absent" -> Fetched(<<>>)
    [] resp.body = "sentence" -> Failed("rejected")
    [] OTHER -> Failed("other")

\* doc_query: a theme filter replaces the configured query and its tags.
DocQuery(query, filter) ==
  IF filter # {} THEN [query |-> <<"theme", filter>>, themes |-> filter] ELSE query

\* to_url and fetch: an empty query never leaves; every article is stamped
\* with the themes of the query that found it.
FetchDoc(query, resp) ==
  IF query.query = <<>> THEN Failed("other")
  ELSE LET got == Get(resp, Articles(resp))
       IN  [got EXCEPT !.rows =
              [i \in DOMAIN got.rows |-> [got.rows[i] EXCEPT !.themes = query.themes]]]

\* parse_lastupdate, export_url and gkg_url: the first well-formed line that
\* names a dump of the leg.
DumpOf(lines, leg) ==
  LET named == SelectSeq(lines, LAMBDA l : l.wellFormed)
      ofLeg == SelectSeq(named, LAMBDA l : l.leg = leg)
  IN  IF ofLeg = <<>> THEN {} ELSE {ofLeg[1]}

\* unzip_csv and rows: a zip that does not open is an error, an empty line
\* is not a row.
Unzip(resp) ==
  IF resp.body # "zip" THEN Failed("other")
  ELSE Fetched(Only(resp.rows, {i \in DOMAIN resp.rows : resp.rows[i].cols > 0}))

\* fetch_events and fetch_gkg: two requests, the pointer and the dump it
\* names; a dump whose name has no window is refused (window_start).
FetchDump(leg, pointer, dump) ==
  LET found == DumpOf(pointer.lines, leg)
  IN  Get(pointer, IF found = {} \/ \E l \in found : l.window = 0 THEN Failed("other")
                   ELSE Get(dump, Unzip(dump)))

-----------------------------------------------------------------------------
\* normalize of the three kinds of row.

\* cameo_kind: protest and material-conflict roots only.
CameoKind(root) ==
  CASE root = 14 -> {"protest"}
    [] root \in {15, 16} -> {"disruption"}
    [] root \in 17 .. 20 -> {"conflict"}
    [] OTHER -> {}

\* geo_precision, shared by the Events and the GKG path.
GeoPrecision(type) ==
  CASE type = 1 -> {[prec |-> "country", conf |-> 40]}
    [] type \in {2, 5} -> {[prec |-> "admin1", conf |-> 60]}
    [] type \in {3, 4} -> {[prec |-> "city", conf |-> 85]}
    [] OTHER -> {}

At(ts, role, geo, cell, country) ==
  [ts |-> ts, role |-> role, prec |-> geo.prec, conf |-> geo.conf,
   cell |-> cell, country |-> country]

\* goldstein_severity: the hostile half of the scale, in percent.
GoldsteinSeverity(g) == IF g >= 0 THEN 0 ELSE IF g <= -10 THEN 100 ELSE -10 * g

\* DATEADDED, else the date alone.
DateAdded(row) == IF row.added # 0 THEN row.added ELSE row.sqldate

\* events::normalize: too few columns is an error before anything is read, a
\* row that is no unrest signal or has no place is skipped, and only then can
\* a missing id, date or coordinate fail it.
NormalizeEventRow(row) ==
  IF row.cols < 61 THEN Err
  ELSE IF CameoKind(row.root) = {} \/ GeoPrecision(row.geo) = {} THEN Ok(<<>>)
  ELSE IF row.id = 0 \/ DateAdded(row) = 0 \/ ~ InRange(row.cell) THEN Err
  ELSE LET kind == CHOOSE k \in CameoKind(row.root) : TRUE
           geo == CHOOSE g \in GeoPrecision(row.geo) : TRUE
       IN  Validated(<<
             GeoTemporalEvent("gdelt", <<"event", row.id>>, kind,
               At(DateAdded(row), "event_site", geo, row.cell, CountryFromFips(row.fips)),
               Carries(row.articles, GoldsteinSeverity(row.goldstein), {}, 0,
                        Some(row.doc), Some(row.doc)))>>)

\* parse_mentions: unusable mentions are skipped, and a position listed twice
\* in an article is one mention.
Mentions(list) ==
  LET usable == {i \in DOMAIN list : GeoPrecision(list[i].geo) # {} /\ InRange(list[i].cell)}
  IN  Only(list, {i \in usable : \A j \in usable : j < i => list[j].pos # list[i].pos})

\* gkg::normalize: one event for every place of the article, all with the
\* article's themes; the index of the mention is part of the id.
\* Mutant: the record id alone.
GkgIdBare(row, i) == <<"gkg", row.id, 0>>
GkgId(row, i) == <<"gkg", row.id, i>>
NormalizeGkgRow(row) ==
  IF row.cols < 24 \/ row.id = 0 \/ row.date = 0 THEN Err
  ELSE LET found == Mentions(row.mentions)
           event(i) ==
             LET geo == CHOOSE g \in GeoPrecision(found[i].geo) : TRUE
             IN  GeoTemporalEvent("gdelt", GkgId(row, i), "news_attention",
                   At(row.date, "mentioned_place", geo, found[i].cell,
                      CountryFromFips(found[i].fips)),
                   Carries(1, -1, row.themes, row.title, Some(row.domain), Some(row.doc)))
       IN  Validated([i \in DOMAIN found |-> event(i)])

\* doc::normalize: the article counts at its outlet's country, at country
\* precision.
NormalizeArticle(row) ==
  IF row.url = 0 \/ row.seendate = 0 \/ Resolve(row.sourcecountry) = {} THEN Err
  ELSE LET country == CHOOSE c \in Resolve(row.sourcecountry) : TRUE
       IN  Validated(<<
             GeoTemporalEvent("gdelt", <<"doc", row.url>>, "news_attention",
               At(row.seendate, "publisher_origin", [prec |-> "country", conf |-> 40],
                  country, country),
               Carries(1, -1, row.themes, row.title, Some(row.domain), {row.url}))>>)

NormalizeGdelt(raw) ==
  CASE raw.form = "doc" -> NormalizeArticle(raw)
    [] raw.form = "events" -> NormalizeEventRow(raw)
    [] raw.form = "gkg" -> NormalizeGkgRow(raw)
    [] OTHER -> Err
=============================================================================
