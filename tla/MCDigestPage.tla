---------------------------- MODULE MCDigestPage ----------------------------
(* Two days, three paid calls: a regeneration while another day is on screen.*)
EXTENDS DigestPage

MCDay == 1 .. 2
=============================================================================
