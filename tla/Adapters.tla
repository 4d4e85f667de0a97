------------------------------ MODULE Adapters ------------------------------
(***************************************************************************)
(* The other adapters (source-acled, source-noaa, source-ioda,             *)
(* source-fixtures, chatter): what a response is worth and the events one  *)
(* record becomes, in the terms of Gdelt.tla; and partition_normalized,    *)
(* which takes a batch through an adapter.                                 *)
(***************************************************************************)
EXTENDS Gdelt

CONSTANT NumericCountries  \* iso3.rs: ISO numeric code -> country

-----------------------------------------------------------------------------
\* NOAA.  The answer is the alerts in force now, whatever the window.
NoaaBody(resp) ==
  CASE resp.body = "list" -> Fetched(resp.rows)
    [] resp.body = "absent" -> Fetched(<<>>)
    [] OTHER -> Failed("other")
FetchNoaa(resp) == Get(resp, NoaaBody(resp))

\* polygon_centroid: a ring of fewer than three vertices, or no polygon, has
\* none; the alert is then zone-scoped.
PolygonCentroid(geometry) == IF geometry.vertices < 3 THEN {} ELSE {geometry.cell}

AlertSeverity(label) ==
  CASE label = "Extreme" -> 100 [] label = "Severe" -> 75
    [] label = "Moderate" -> 50 [] label = "Minor" -> 25 [] OTHER -> -1

\* onset, else effective, else sent: the first that is a string, parsed.
AlertTime(times) == IF times = <<>> THEN 0 ELSE times[1]

\* normalize_alert: no polygon, no event, before the id is looked at.
NormalizeAlert(raw) ==
  IF ~ raw.properties THEN Err
  ELSE IF PolygonCentroid(raw.geometry) = {} THEN Ok(<<>>)
  ELSE IF \/ ~ InRange(raw.geometry.cell)
          \/ 0 \in {raw.id, AlertTime(raw.times), raw.label} THEN Err
  ELSE Validated(<<
         GeoTemporalEvent("noaa", raw.id, "alert",
           At(AlertTime(raw.times), "reporting_jurisdiction",
              [prec |-> "admin1", conf |-> 65], raw.geometry.cell, 1),
           Carries(1, AlertSeverity(raw.severity), {1, 2, raw.label}, raw.label,
                    {901}, Some(raw.url)))>>)

-----------------------------------------------------------------------------
\* IODA.  An error member is looked at before the data.
IodaBody(resp) == IF resp.body = "error" THEN Failed("rejected") ELSE NoaaBody(resp)
FetchIoda(resp) == Get(resp, IodaBody(resp))

\* severity_from_score: 0 up to the floor, 100 from the ceiling on; between
\* them one step for each factor of ten.
SeverityFromScore(score) ==
  IF score < 1000 THEN 0 ELSE IF score < 10000 THEN 33 ELSE IF score < 100000 THEN 66 ELSE 100

\* normalize_event: a country entity, by the centroid of its code.
NormalizeOutage(raw) ==
  IF \/ raw.entity # "country" \/ raw.code \notin KnownCountries
     \/ 0 \in {raw.start, raw.datasource, raw.method, raw.score} THEN Err
  ELSE Validated(<<
         GeoTemporalEvent("ioda", <<raw.code, raw.start, raw.datasource, raw.method>>,
           "disruption",
           At(raw.start, "event_site", [prec |-> "country", conf |-> 55], raw.code, raw.code),
           Carries(1, SeverityFromScore(raw.score), {3, 4, raw.datasource, raw.method}, 800,
                    {902}, {700 + raw.code}))>>)

-----------------------------------------------------------------------------
\* ACLED.
AcledKind(type) ==
  CASE type \in {"Protests", "Riots"} -> "protest"
    [] type \in {"Battles", "Explosions/Remote violence", "Violence against civilians"} ->
         "conflict"
    [] type = "Strategic developments" -> "disruption"
    [] OTHER -> "other"

AcledPrecision(p) ==
  CASE p = 1 -> {[prec |-> "city", conf |-> 90]}
    [] p = 2 -> {[prec |-> "admin1", conf |-> 65]}
    [] p = 3 -> {[prec |-> "country", conf |-> 40]}
    [] OTHER -> {}

\* alpha3: a numeric code outside the table leaves the country empty.
Alpha3(n) == IF n \in DOMAIN NumericCountries THEN NumericCountries[n] ELSE 0

\* fatalities * 0.04, at most 1.
Severity(fatalities) == IF fatalities >= 25 THEN 100 ELSE 4 * fatalities

\* parse_event_date: a date lands on its noon.
Noon(day) == 24 * day + 12

\* normalize_event.  Volume is the number of reporting sources; no link leaves.
NormalizeAcled(raw) ==
  IF \/ 0 \in {raw.id, raw.day} \/ ~ InRange(raw.cell) \/ raw.type = "" 
     \/ AcledPrecision(raw.geo) = {} THEN Err
  ELSE LET geo == CHOOSE g \in AcledPrecision(raw.geo) : TRUE
       IN  Validated(<<
             GeoTemporalEvent("acled", raw.id, AcledKind(raw.type),
               At(Noon(raw.day), "event_site", geo, raw.cell, Alpha3(raw.iso)),
               Carries(Cardinality(raw.sources), Severity(raw.fatalities), {5} \cup raw.labels,
                        raw.title, raw.sources, {}))>>)

-----------------------------------------------------------------------------
\* Fixtures: synthetic records in two shapes.  from_dir and load_file: one
\* file of the wrong schema fails the fetch; a record outside the window is
\* left out, one whose time does not parse is kept for normalize to refuse.
FetchFixtures(files, window) ==
  IF \E i \in DOMAIN files : ~ files[i].schema THEN Failed("other")
  ELSE LET of(f) == Only(f.rows, {i \in DOMAIN f.rows :
                             f.rows[i].ts = 0 \/ InWindow(window, f.rows[i].ts)})
           upTo[i \in 0 .. Len(files)] ==
             IF i = 0 THEN <<>> ELSE upTo[i - 1] \o of(files[i])
       IN  Fetched(upTo[Len(files)])

NormalizeFixture(raw) ==
  LET geo == IF raw.shape = "gdelt_doc" THEN GeoPrecision(raw.geo) ELSE AcledPrecision(raw.geo)
      doc == raw.shape = "gdelt_doc"
  IN  IF \/ raw.shape \notin {"gdelt_doc", "acled_event"} \/ 0 \in {raw.id, raw.ts, raw.country}
         \/ ~ InRange(raw.cell) \/ geo = {} THEN Err
      ELSE Validated(<<
             GeoTemporalEvent("fixtures", raw.id,
               IF doc THEN "news_attention" ELSE AcledKind(raw.type),
               At(raw.ts, IF doc THEN "mentioned_place" ELSE "event_site",
                  CHOOSE g \in geo : TRUE, raw.cell, raw.country),
               Carries(raw.volume, IF doc THEN -1 ELSE Severity(raw.fatalities), raw.themes,
                        raw.title, raw.domains, IF doc THEN raw.urls ELSE {}))>>)

-----------------------------------------------------------------------------
\* normalize_rollup: a count of posts is an event of its own class, with no
\* words of any post: no title, no outlet, no link.
RollupId(r) == <<r.place, r.topic, r.class, r.window>>
NormalizeRollup(r, source) ==
  IF ~ InRange(r.cell) \/ r.window = 0 THEN Err
  ELSE IF r.count = 0 THEN Ok(<<>>)
  ELSE Validated(<<
         GeoTemporalEvent(source, RollupId(r), "chatter",
           At(r.window, "mentioned_place", [prec |-> r.prec, conf |-> 50], r.cell, r.country),
           Carries(r.count, -1, {6, r.topic}, 0, {}, {}))>>)

-----------------------------------------------------------------------------
\* SignalSource::normalize: an adapter refuses the records of another.
Normalize(source, raw) ==
  CASE source = "gdelt" -> NormalizeGdelt(raw)
    [] source = "acled" /\ raw.form = "acled" -> NormalizeAcled(raw)
    [] source = "noaa" /\ raw.form = "noaa" -> NormalizeAlert(raw)
    [] source = "ioda" /\ raw.form = "ioda" -> NormalizeOutage(raw)
    [] source = "fixtures" /\ raw.form = "fixture" -> NormalizeFixture(raw)
    [] source \in {"bluesky", "telegram"} /\ raw.form = "rollup" -> NormalizeRollup(raw, source)
    [] OTHER -> Err

\* partition_normalized: the events of a batch in its order, and one failure
\* for every record that had none to give.
PartitionNormalized(source, raws) ==
  LET upTo[i \in 0 .. Len(raws)] ==
        IF i = 0 THEN [events |-> <<>>, failures |-> 0]
        ELSE LET sofar == upTo[i - 1]
                 n == Normalize(source, raws[i])
             IN  [events |-> sofar.events \o n.events,
                  failures |-> sofar.failures + (IF n.ok THEN 0 ELSE 1)]
  IN  upTo[Len(raws)]
=============================================================================
