--------------------------- MODULE MCEndpointPool ---------------------------
(* Instance: the callers are model values. *)
EXTENDS EndpointPool
=============================================================================
