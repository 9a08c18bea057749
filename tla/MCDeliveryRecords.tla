-------------------------- MODULE MCDeliveryRecords --------------------------
(* Instances are given by their cfg alone. *)
EXTENDS DeliveryRecords
=============================================================================
