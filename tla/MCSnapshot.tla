----------------------------- MODULE MCSnapshot -----------------------------
(* A handful of publishes, with and without pruning, against one client     *)
(* that keeps asking.                                                       *)
EXTENDS Snapshot

MCKeep == {0, 2}
=============================================================================
