------------------------------- MODULE MCReplay -------------------------------
(* Instances are given by their cfg alone. *)
EXTENDS Replay
=============================================================================
