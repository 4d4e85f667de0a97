------------------------------ MODULE MCActor ------------------------------
(***************************************************************************)
(* Three rows of three days, a batch that brings the oldest and the newest *)
(* of them, a purge, a retention of one day and a query, three calls to a  *)
(* process and two deaths, over every file an older build may have left.   *)
(***************************************************************************)
EXTENDS Actor

MCRow == 1 .. 3
MCOp == {[op |-> "ingest", rows |-> {1, 3}], [op |-> "purge", rows |-> {2}],
         [op |-> "retention", days |-> 1], [op |-> "read"]}
=============================================================================
