------------------------------ MODULE MCTiles ------------------------------
(***************************************************************************)
(* Three tiles in overlapping views.  The cache holds as many as the       *)
(* largest view, so a tile that comes into view evicts one; the code's     *)
(* holds 96, and a view has at most 48.                                    *)
(***************************************************************************)
EXTENDS Tiles

MCTile == 1 .. 3
MCView == {<<1, 2>>, <<2, 3>>, <<3>>}
MCOutcome == {"ok", "limited", "failed"}
=============================================================================
