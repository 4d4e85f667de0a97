----------------------------- MODULE Gazetteer -----------------------------
(***************************************************************************)
(* The bundled Natural Earth files as the program reads them (geo-utils:   *)
(* CountryIndex, CityIndex).  A feature is its geometry and a function of  *)
(* the properties that are there and are text; a name is a sequence of     *)
(* words; a position is the cell it falls in, a centroid none or one.       *)
(***************************************************************************)
EXTENDS Integers, Sequences, FiniteSets

\* The first of the properties that is there and says something.
Prop(f, keys, otherwise) ==
  LET has == SelectSeq(keys, LAMBDA k : k \in DOMAIN f.props \ f.gaps)
  IN  IF has = <<>> THEN otherwise ELSE f.props[has[1]]

Mapped(seq, op(_)) == [i \in DOMAIN seq |-> op(seq[i])]

\* CountryIndex::from_geojson_str: what is not an outline is passed over.  The
\* gaps are the codes Natural Earth gives as "-99".
IsOutline(f) == f.geometry \in {"polygon", "multipolygon"}
CountryInfo(f) ==
  LET iso == Prop(f, <<"ISO_A3", "ADM0_A3">>, "UNK")
  IN  [iso_a3 |-> iso, iso_a2 |-> Prop(f, <<"ISO_A2">>, ""),
       name |-> Prop(f, <<"NAME", "ADMIN">>, <<iso>>), centroid |-> f.centroid]
CountryIndex(features) == Mapped(SelectSeq(features, IsOutline), CountryInfo)

\* centroid_by_iso_a2: a country without a code or a centroid has none.
CentroidByIsoA2(index, code) ==
  LET named == SelectSeq(index, LAMBDA c : c.iso_a2 # "" /\ c.iso_a2 = code)
  IN  IF named = <<>> THEN {} ELSE named[1].centroid

\* iter_with_centroid
WithCentroid(index) == SelectSeq(index, LAMBDA c : c.centroid # {})

\* CityIndex::from_geojson_str: a point with a name, and its other spellings,
\* each once and none of them the name.
IsCity(f) == f.geometry = "point" /\ "name" \in DOMAIN f.props
Spellings(f) ==
  ({Prop(f, <<"nameascii">>, <<>>)} \cup Prop(f, <<"namealt">>, {})) \ {<<>>, f.props["name"]}
CityInfo(f) ==
  [name |-> f.props["name"], alt_names |-> Spellings(f),
   iso_a3 |-> Prop(f, <<"adm0_a3">>, "UNK"), cell |-> f.cell]
CityIndex(features) == Mapped(SelectSeq(features, IsCity), CityInfo)
=============================================================================
