------------------------------ MODULE MCWorker ------------------------------
(***************************************************************************)
(* Three dumps, one without rows and one GDELT never put out, and a pass   *)
(* of two windows.                                                         *)
(***************************************************************************)
EXTENDS Worker

MCQuiet == {6}
MCLacking == {0}
=============================================================================
