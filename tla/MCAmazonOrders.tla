--------------------------- MODULE MCAmazonOrders ---------------------------
(***************************************************************************)
(* AmazonOrders for TLC.  Trucks only differ by name.                      *)
(***************************************************************************)
EXTENDS AmazonOrders, TLC

SameTrucks == Permutations(Trucks)
=============================================================================
