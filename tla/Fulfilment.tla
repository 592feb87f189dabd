----------------------------- MODULE Fulfilment -----------------------------
(***************************************************************************)
(* What Amazon, UPS and the world together do to the goods of an order,    *)
(* whatever fails or is repeated on the way: the flow of the Amazon        *)
(* README and of ups/docs/protocol-starter.md.  Only the order is kept: an *)
(* event that happens again changes nothing here.  AmazonOrders            *)
(* implements it.                                                          *)
(***************************************************************************)
CONSTANT Packages

VARIABLE happened   \* per package, what has happened to it so far

Events == {"bought", "packed", "met", "loaded", "released", "delivered"}

\* A package is packed from what was bought for it, loaded when it is packed
\* and its truck has come, and it leaves when it is loaded.
Needs(e) == CASE e = "packed"    -> {"bought"}
              [] e = "loaded"    -> {"packed", "met"}
              [] e = "released"  -> {"loaded"}
              [] e = "delivered" -> {"released"}
              [] OTHER           -> {}

Init == happened = [p \in Packages |-> {}]

Possible(p) == LET h == happened[p] IN {e \in Events \ h : Needs(e) \subseteq h}

Next ==
  \E p \in Packages : \E e \in Possible(p) :
    happened' = [happened EXCEPT ![p] = @ \cup {e}]

Spec == Init /\ [][Next]_happened
=============================================================================
