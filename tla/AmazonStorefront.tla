-------------------------- MODULE AmazonStorefront --------------------------
(***************************************************************************)
(* Carts, orders and package ids of the Amazon web server: app/api/cart.py *)
(* and submit_order of app/api/orders.py with the services they call,      *)
(* cart_service.py, package_id_service.py and create_order.                *)
(*                                                                         *)
(* A request runs in a thread with a database session of its own and       *)
(* commits more than once: a checkout after each order and after clearing  *)
(* the cart.  Between two commits other requests run.  The database reads  *)
(* what is committed, keeps the counter row locked from its update to the  *)
(* commit, and refuses a package id that exists.  What becomes of an order *)
(* is the subject of AmazonOrders.                                         *)
(***************************************************************************)
EXTENDS Integers, FiniteSets, Sequences, FiniteSetsExt

CONSTANTS
  Customers,    \* customers who are signed in
  Products,
  Threads,      \* request threads of the web server
  None,         \* no customer (POST /orders asks for none), no thread
  Quantities,   \* bound: quantities that forms are sent with
  MaxQuantity,  \* the most that an order may have (1000)
  MaxAsked,     \* bound: what a customer puts into the cart of a product
  MaxItems,     \* bound: cart items that are ever inserted
  MaxOrders,    \* bound: orders
  MaxFaults     \* bound: requests that die

ASSUME AmazonStorefrontAssumption ==
  /\ None \notin Customers /\ None \notin Threads
  /\ Quantities \subseteq Nat
  /\ MaxQuantity \in Nat \ {0}
  /\ MaxAsked \in Nat /\ MaxItems \in Nat /\ MaxOrders \in Nat /\ MaxFaults \in Nat

VARIABLES
  counter,     \* package_counters: next_value
  locked,      \* the thread that has updated that row and not committed
  orders,      \* orders with their shipments
  cart,        \* cart_items
  nextItem,    \* the id of the next cart item
  thread,      \* requests in progress
  asked,       \* history: what customers have put into their carts
  overlapped,  \* history: customers who had two requests in progress
  halted,      \* history: customers with a checkout that broke off
  faults

vars == <<counter, locked, orders, cart, nextItem, thread, asked, overlapped, halted, faults>>
carts == <<cart, nextItem, asked>>

Free == [op |-> "free", cust |-> None, items |-> <<>>, n |-> 0]

Init ==
  /\ counter = 1 /\ locked = None
  /\ orders = {} /\ cart = {} /\ nextItem = 1
  /\ thread = [h \in Threads |-> Free]
  /\ asked = [c \in Customers |-> [p \in Products |-> 0]]
  /\ overlapped = {} /\ halted = {}
  /\ faults = 0

-----------------------------------------------------------------------------
Active(c) == {h \in Threads : thread[h].cust = c}

\* A request of c begins.
Begins(c) == overlapped' = IF Active(c) = {} THEN overlapped ELSE overlapped \cup {c}

AtLeastOne(q) == IF q < 1 THEN 1 ELSE q

(* The cart.                                                               *)

\* add_to_cart reads the item of the product, if there is one.
BeginAdd(h, c, p, q) ==
  /\ thread[h] = Free
  /\ asked[c][p] + AtLeastOne(q) <= MaxAsked /\ nextItem <= MaxItems
  /\ \E i \in {x \in cart : x.cust = c /\ x.prod = p} \cup
              (IF \E x \in cart : x.cust = c /\ x.prod = p THEN {}
               ELSE {[id |-> 0, cust |-> c, prod |-> p, qty |-> 0]}) :
       thread' = [thread EXCEPT ![h] =
         [op |-> "add", cust |-> c, n |-> AtLeastOne(q),
          items |-> <<[i EXCEPT !.qty = @ + AtLeastOne(q)]>>]]
  /\ Begins(c)
  /\ UNCHANGED <<counter, locked, orders, carts, halted, faults>>

\* It inserts the item, or writes the sum to the row it has read; when that
\* is gone the request fails.
EndAdd(h) ==
  LET i == thread[h].items[1]
      gone == i.id # 0 /\ \A x \in cart : x.id # i.id
  IN  /\ thread[h].op = "add"
      /\ cart' = IF gone THEN cart
                 ELSE IF i.id = 0 THEN cart \cup {[i EXCEPT !.id = nextItem]}
                 ELSE {x \in cart : x.id # i.id} \cup {i}
      /\ nextItem' = IF i.id = 0 THEN nextItem + 1 ELSE nextItem
      /\ asked' = IF gone THEN asked ELSE [asked EXCEPT ![i.cust][i.prod] = @ + thread[h].n]
      /\ thread' = [thread EXCEPT ![h] = Free]
      /\ UNCHANGED <<counter, locked, orders, overlapped, halted, faults>>

\* remove_cart_item
RemoveItem(i) ==
  /\ i \in cart
  /\ cart' = cart \ {i}
  /\ asked' = [asked EXCEPT ![i.cust][i.prod] = @ - i.qty]
  /\ Begins(i.cust)
  /\ UNCHANGED <<counter, locked, orders, nextItem, thread, halted, faults>>

-----------------------------------------------------------------------------
(* Orders.                                                                 *)

Unplaced == MapThenSumSet(LAMBDA h : Len(thread[h].items), {h \in Threads : thread[h].op # "add"})
Room(n) == Cardinality(orders) + Unplaced + n <= MaxOrders

\* POST /orders.  What the order is for does not matter here.
Submit(h, q) ==
  /\ thread[h] = Free /\ Room(1)
  /\ q \in 1..MaxQuantity
  /\ thread' = [thread EXCEPT ![h] = [op |-> "order", cust |-> None, n |-> 0,
       items |-> <<[id |-> 0, cust |-> None, prod |-> None, qty |-> q]>>]]
  /\ UNCHANGED <<counter, locked, orders, carts, overlapped, halted, faults>>

\* list_cart_items: the rows in descending order of created_at, which is that
\* of their ids.
NewestFirst(items) ==
  {s \in [1..Cardinality(items) -> items] : \A i, j \in DOMAIN s : i < j => s[i].id > s[j].id}

\* Wrong on purpose: the items are taken out of the cart to be ordered.
CheckoutTaking(h, c) ==
  LET items == {x \in cart : x.cust = c}
  IN  /\ thread[h] = Free
      /\ items # {} /\ Room(Cardinality(items))
      /\ \E s \in NewestFirst(items) :
           thread' = [thread EXCEPT ![h] = [op |-> "order", cust |-> c, n |-> 0, items |-> s]]
      /\ cart' = cart \ items
      /\ Begins(c)
      /\ UNCHANGED <<counter, locked, orders, nextItem, asked, halted, faults>>

\* checkout_cart lists the items, the newest first.
Checkout(h, c) ==
  LET items == {x \in cart : x.cust = c}
  IN  /\ thread[h] = Free
      /\ items # {} /\ Room(Cardinality(items))
      /\ \E s \in NewestFirst(items) :
           thread' = [thread EXCEPT ![h] = [op |-> "order", cust |-> c, n |-> 0, items |-> s]]
      /\ Begins(c)
      /\ UNCHANGED <<counter, locked, orders, carts, halted, faults>>

\* Wrong on purpose: the transaction of a failed request stays open.
FailOpen(h) ==
  /\ thread' = [thread EXCEPT ![h] = Free]
  /\ locked' = locked
  /\ halted' = IF thread[h].op = "add" THEN halted ELSE halted \cup ({thread[h].cust} \ {None})

\* A request ends in an exception, and its session is rolled back.
Fail(h) ==
  /\ thread' = [thread EXCEPT ![h] = Free]
  /\ locked' = IF locked = h THEN None ELSE locked
  /\ halted' = IF thread[h].op = "add" THEN halted ELSE halted \cup ({thread[h].cust} \ {None})

\* OrderCreate refuses a quantity above the limit; carts have none.
TooMany(h) ==
  /\ thread[h].op = "order" /\ Head(thread[h].items).qty > MaxQuantity
  /\ Fail(h)
  /\ UNCHANGED <<counter, orders, carts, overlapped, faults>>

\* next_package_id reads the counter ...
ReadCounter(h) ==
  /\ thread[h].op = "order" /\ Head(thread[h].items).qty <= MaxQuantity
  /\ thread' = [thread EXCEPT ![h].op = "reserve", ![h].n = counter]
  /\ UNCHANGED <<counter, locked, orders, carts, overlapped, halted, faults>>

\* ... and writes the next value, once no other thread has the row locked.
Reserve(h) ==
  /\ thread[h].op = "reserve" /\ locked = None
  /\ locked' = h
  /\ thread' = [thread EXCEPT ![h].op = "commit"]
  /\ UNCHANGED <<counter, orders, carts, overlapped, halted, faults>>

Taken(n) == \E o \in orders : o.id = n

\* The order, its shipment and the counter are committed together.
Place(h) ==
  LET i == Head(thread[h].items)
      rest == Tail(thread[h].items)
  IN  /\ thread[h].op = "commit" /\ ~Taken(thread[h].n)
      /\ orders' = orders \cup {[id |-> thread[h].n, cust |-> i.cust, prod |-> i.prod, qty |-> i.qty]}
      /\ counter' = thread[h].n + 1
      /\ locked' = None
      /\ thread' = [thread EXCEPT ![h] =
           IF rest = <<>> /\ @.cust = None THEN Free
           ELSE [op |-> IF rest = <<>> THEN "clear" ELSE "order",
                 cust |-> @.cust, items |-> rest, n |-> @.n]]
      /\ UNCHANGED <<carts, overlapped, halted, faults>>

\* Wrong on purpose: the counter is committed before the order is inserted.
ClashCounted(h) ==
  /\ thread[h].op = "commit" /\ Taken(thread[h].n)
  /\ Fail(h)
  /\ counter' = thread[h].n + 1
  /\ UNCHANGED <<orders, carts, overlapped, faults>>

\* Another order has got the package id since the counter was read.
Clash(h) ==
  /\ thread[h].op = "commit" /\ Taken(thread[h].n)
  /\ Fail(h)
  /\ UNCHANGED <<counter, orders, carts, overlapped, faults>>

\* Wrong on purpose: only the items of one product are deleted.
ClearProduct(h) ==
  /\ thread[h].op = "clear"
  /\ \E p \in Products : cart' = {x \in cart : x.cust # thread[h].cust \/ x.prod # p}
  /\ thread' = [thread EXCEPT ![h] = Free]
  /\ UNCHANGED <<counter, locked, orders, nextItem, asked, overlapped, halted, faults>>

\* clear_cart lists the items again and deletes them all.
ClearCart(h) ==
  /\ thread[h].op = "clear"
  /\ cart' = {x \in cart : x.cust # thread[h].cust}
  /\ thread' = [thread EXCEPT ![h] = Free]
  /\ UNCHANGED <<counter, locked, orders, nextItem, asked, overlapped, halted, faults>>

\* The request dies, wherever it is.
Die(h) ==
  /\ thread[h] # Free /\ faults < MaxFaults
  /\ faults' = faults + 1
  /\ Fail(h)
  /\ UNCHANGED <<counter, orders, carts, overlapped>>

Continue(h) ==
  \/ EndAdd(h) \/ TooMany(h) \/ ReadCounter(h) \/ Reserve(h)
  \/ Place(h) \/ Clash(h) \/ ClearCart(h)

Next ==
  \/ \E h \in Threads :
       \/ \E c \in Customers, p \in Products, q \in Quantities : BeginAdd(h, c, p, q)
       \/ \E q \in Quantities : Submit(h, q)
       \/ \E c \in Customers : Checkout(h, c)
       \/ Continue(h) \/ Die(h)
  \/ \E i \in cart : RemoveItem(i)

Spec == Init /\ [][Next]_vars

-----------------------------------------------------------------------------
(* Properties.                                                             *)

Item == [id : Nat, cust : Customers \cup {None}, prod : Products \cup {None}, qty : Nat]

\* Every variable keeps its type; the lock is with the one thread that is
\* about to commit.
TypeOK ==
  /\ counter \in Nat \ {0}
  /\ orders \subseteq Item /\ cart \subseteq Item /\ nextItem \in Nat
  /\ thread \in [Threads -> [op : {"free", "add", "order", "reserve", "commit", "clear"},
                             cust : Customers \cup {None}, items : Seq(Item), n : Nat]]
  /\ \A h \in Threads : thread[h].op = "commit" <=> locked = h
  /\ locked \in Threads \cup {None}
  /\ asked \in [Customers -> [Products -> Int]]
  /\ overlapped \subseteq Customers /\ halted \subseteq Customers
  /\ faults \in 0..MaxFaults

\* Package ids are never used twice and never skipped, and the counter is the
\* next of them, however threads read and write it: an order that fails takes
\* its write of the counter with it, so a clash does not come again.
IdsDense ==
  /\ {o.id : o \in orders} = 1..(counter - 1)
  /\ \A o, u \in orders : o.id = u.id => o = u

Total(rows, c, p) ==
  MapThenSumSet(LAMBDA r : r.qty, {r \in rows : r.cust = c /\ r.prod = p})

\* Nothing that a customer has put into the cart disappears before it is
\* ordered, whatever fails, as long as the customer makes one request at a
\* time: clear_cart deletes what it did not order.
NothingLost ==
  \A c \in Customers \ overlapped, p \in Products :
    asked[c][p] <= Total(cart, c, p) + Total(orders, c, p)

\* Between requests nothing is ordered that was not asked for, and nothing is
\* both ordered and in the cart, for a customer whose checkouts all went
\* through: each one that breaks off leaves the cart as it was.
NothingTwice ==
  \A c \in Customers \ (overlapped \cup halted), p \in Products :
    Active(c) = {} => Total(cart, c, p) + Total(orders, c, p) <= asked[c][p]
=============================================================================
