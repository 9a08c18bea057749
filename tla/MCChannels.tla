------------------------------ MODULE MCChannels ------------------------------
(* Instance: the clients are model values. *)
EXTENDS Channels
=============================================================================
