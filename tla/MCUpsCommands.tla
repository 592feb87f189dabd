--------------------------- MODULE MCUpsCommands ---------------------------
(* Instances of UpsCommands for TLC.  The bounds are constants of the cfg. *)
EXTENDS UpsCommands

=============================================================================
