------------------------------ MODULE MCStore ------------------------------
(***************************************************************************)
(* Small stores: five records over five days and a window of two days, so   *)
(* that an ingest can land inside, before and past the baseline window of  *)
(* what is already there.                                                  *)
(***************************************************************************)
EXTENDS Store

R(i, s, c, t, f) == [id |-> i, source |-> s, cell |-> c, ts |-> t, family |-> f]

MCId == 1 .. 4
MCSource == {"gdelt", "fixtures"}
MCCell == {"a", "b"}

\* Day 0: an event and, later the same day, chatter in one cell; day 2: the
\* same slot in the other cell; days 3 and 4: the recent slice.  Id 4 comes in
\* two revisions, a day apart.
MCRecord == {R(1, "gdelt", "a", 2, "recorded_event"),
             R(2, "gdelt", "a", 8, "chatter"),
             R(3, "fixtures", "b", 50, "media_attention"),
             R(4, "gdelt", "a", 74, "media_attention"),
             R(4, "gdelt", "b", 98, "media_attention")}

MCRetention == {0, 2}
=============================================================================
