---------------------------- MODULE MCUpsSession ----------------------------
(* Instances of UpsSession for TLC.  The bounds are constants of the cfg.  *)
EXTENDS UpsSession
=============================================================================
