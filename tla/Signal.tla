------------------------------- MODULE Signal -------------------------------
(***************************************************************************)
(* The vocabulary every crate shares (core-types): sources, families,      *)
(* kinds, location roles and precisions, the normalized event, and what a  *)
(* family or a role admits.  A name is the text the store keeps for it     *)
(* (as_str, parse); a theme, a country, a cell, an outlet or an article is *)
(* a number, 0 where the record has none; an hour is a Nat, 0 where a      *)
(* timestamp does not parse.                                               *)
(***************************************************************************)
EXTENDS Integers, Sequences, FiniteSets, TLC

CONSTANT Hash(_, _)  \* event_id: fnv1a64 over the source and its own id

SourceId == {"fixtures", "gdelt", "acled", "noaa", "ioda", "bluesky", "telegram"}

SignalFamily ==
  {"media_attention", "recorded_event", "official_alert", "chatter", "measurement"}

EventKind == {"news_attention", "protest", "conflict", "disruption", "other",
              "chatter", "alert", "measurement"}

FamilyOf(kind) ==
  CASE kind = "news_attention" -> "media_attention"
    [] kind \in {"protest", "conflict", "disruption", "other"} -> "recorded_event"
    [] kind = "alert" -> "official_alert"
    [] OTHER -> kind

Permits(family, kind) == 
  kind \in CASE family = "media_attention" -> {"news_attention"}
             [] family = "recorded_event" -> {"protest", "conflict", "disruption", "other"}
             [] family = "official_alert" -> {"alert"}
             [] OTHER -> {family}

VolumeUnit(family) ==
  CASE family = "media_attention" -> "articles"
    [] family = "recorded_event" -> "records"
    [] family = "official_alert" -> "alerts"
    [] family = "chatter" -> "posts"
    [] family = "measurement" -> "samples"

EntersAttention(family) == family = "media_attention"
EntersUnrest(family) == family = "recorded_event"
EntersGenericSpike(family) == family \in {"media_attention", "recorded_event"}
InDigest(family) == family \in {"media_attention", "recorded_event", "official_alert"}

LocationRole ==
  {"event_site", "mentioned_place", "publisher_origin", "reporting_jurisdiction"}
IsSpatiallyMeaningful(role) == role # "publisher_origin"

LocationPrecision == {"country", "admin1", "city", "exact"}
RendersAsPoint(prec) == prec \in {"city", "exact"}

ChannelClass == {"unspecified", "monitor", "outlet", "partisan", "combatant", "state"}
IsNeutralLane(class) == class \in {"unspecified", "monitor", "outlet"}

\* TimeWindow: half open.
InWindow(window, ts) == window.start <= ts /\ ts < window.end

\* What the text of a record carries (title, outlets, links), its themes, its
\* volume and its severity in percent (-1: none stated).
Carries(volume, sev, themes, headline, outlets, urls) ==
  [volume |-> volume, sev |-> sev, themes |-> themes,
   headline |-> headline, outlets |-> outlets, urls |-> urls]

\* GeoTemporalEvent.  `native` is the source's own id: the id of the event is
\* the hash of both, taken to be injective.
GeoTemporalEvent(source, native, kind, at, of) ==
  [id |-> Hash(source, native), source |-> source, kind |-> kind, family |-> FamilyOf(kind),
   ts |-> at.ts, role |-> at.role, prec |-> at.prec, conf |-> at.conf,
   cell |-> at.cell, country |-> at.country,
   volume |-> of.volume, sev |-> of.sev, themes |-> of.themes,
   headline |-> of.headline, outlets |-> of.outlets, urls |-> of.urls]

-----------------------------------------------------------------------------
\* What normalize answers: the events of a record, or why it has none.
Ok(events) == [ok |-> TRUE, events |-> events]
Err == [ok |-> FALSE, events |-> <<>>]

\* validate: a kind outside its family never leaves an adapter.
Validated(events) ==
  IF \A i \in DOMAIN events : Permits(events[i].family, events[i].kind)
  THEN Ok(events) ELSE Err

\* A coordinate pair, by the cell it falls in: 0 does not parse, -1 is out of
\* range.  cell_for_latlon assigns every pair in range to a cell.
InRange(cell) == cell > 0

Some(n) == IF n = 0 THEN {} ELSE {n}

\* The elements of S in a strict total order, and the first n of a list.
Ordered(S, Before(_, _)) ==
  LET rank == [x \in S |-> Cardinality({y \in S : Before(y, x)})]
  IN  [i \in 1 .. Cardinality(S) |-> CHOOSE x \in S : rank[x] = i - 1]
Take(seq, n) == SubSeq(seq, 1, IF n < Len(seq) THEN n ELSE Len(seq))

\* The elements of a list at these places of it, in its order.
Only(seq, at) ==
  LET kept == Ordered(at, LAMBDA i, j : i < j) IN [k \in 1 .. Cardinality(at) |-> seq[kept[k]]]
=============================================================================
