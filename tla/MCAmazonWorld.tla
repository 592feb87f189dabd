---------------------------- MODULE MCAmazonWorld ----------------------------
(* An instance of AmazonWorld for TLC.  The bounds are constants of the cfg. *)
EXTENDS AmazonWorld
=============================================================================
