--------------------------- MODULE MCUpsShipments ---------------------------
(* Instances of UpsShipments for TLC.  The bounds are constants of the cfg. *)
EXTENDS UpsShipments
=============================================================================
