----------------------------- MODULE MCTimeline -----------------------------
(***************************************************************************)
(* The reach is three buckets; the stored events may begin before it, in   *)
(* it, or be ahead of the clock.                                           *)
(***************************************************************************)
EXTENDS Timeline, TLC

MCExtent == {<<2, 6>>, <<0, 7>>}
MCTyped == {<<6, 9>>}
MCLength == {1, 99}
MCSymmetry == Permutations(Cell)
=============================================================================
