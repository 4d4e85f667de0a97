------------------------------ MODULE MCIngest ------------------------------
(***************************************************************************)
(* GDELT, the Bluesky stream found switched off, and ACLED without         *)
(* credentials.                                                            *)
(***************************************************************************)
EXTENDS Ingest

MCSource == {"gdelt", "bluesky", "acled"}
MCAvailable == {"gdelt", "bluesky"}
MCSavedOff == {"bluesky"}
=============================================================================
