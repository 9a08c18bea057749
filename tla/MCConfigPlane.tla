---------------------------- MODULE MCConfigPlane ----------------------------
(* Instance: the constants are plain numbers, given in the configurations. *)
EXTENDS ConfigPlane
=============================================================================
