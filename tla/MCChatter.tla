----------------------------- MODULE MCChatter -----------------------------
(***************************************************************************)
(* Two Telegram channels of different classes, or the firehose, over two   *)
(* windows that can close.                                                 *)
(***************************************************************************)
EXTENDS Chatter

CONSTANTS monitor, partisan, liveuamap, other

MCChannels == <<liveuamap, other>>
MCClassOf == [c \in {liveuamap, other} |-> IF c = other THEN partisan ELSE monitor]
=============================================================================
