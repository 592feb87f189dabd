----------------------- MODULE AmazonStorefront_proofs -----------------------
(***************************************************************************)
(* The storefront, for any number of customers, products, threads, items   *)
(* and orders: the types, the package ids, and the account of what is in   *)
(* the carts and in the orders.  The account needs that a sum over a       *)
(* finite set grows by what a new row adds, which is proved first.         *)
(***************************************************************************)
EXTENDS AmazonStorefront, FiniteSetTheorems, TLAPS

-----------------------------------------------------------------------------
(* Sums.                                                                   *)

\* The rows of a customer and a product, and the sum of quantities.
RowsOf(rows, c, p) == {r \in rows : r.cust = c /\ r.prod = p}
Sum(rows) == MapThenSumSet(LAMBDA r : r.qty, rows)
Counts(S) == IsFiniteSet(S) /\ \A r \in S : r.qty \in Nat

\* Induction over subsets: a set of subsets that is not empty has a smallest
\* member.
LEMMA SmallestSubset ==
  ASSUME NEW S, IsFiniteSet(S), NEW B, B \subseteq SUBSET S, B # {}
  PROVE  \E x \in B : \A y \in B : y \subseteq x => y = x
<1> DEFINE R == StrictSubsetOrdering(S)
<1>1. IsWellFoundedOn(R, SUBSET S)
  BY FS_StrictSubsetOrderingWellFounded, FS_FiniteSubsetsOfFinite
<1>2. \E x \in B : \A y \in B : ~(<<y, x>> \in R)
  <2> HIDE DEF R
  <2> QED BY <1>1, WFMin
<1> QED BY <1>2 DEF StrictSubsetOrdering

Picked(s) == CHOOSE r \in s : TRUE
Less(s) == s \ {Picked(s)}

\* What the sum of the quantities of rows, and of every part of them, obeys.
Adds(g, rows) ==
  g = [s \in SUBSET rows |-> IF s = {} THEN 0 ELSE Picked(s).qty + g[Less(s)]]

LEMMA PickedIsIn ==
  ASSUME NEW s, s # {}
  PROVE  Picked(s) \in s /\ Less(s) \subseteq s /\ Less(s) # s
BY DEF Picked, Less

LEMMA SumAdds ==
  ASSUME NEW S
  PROVE  Sum(S) = (CHOOSE g : Adds(g, S))[S]
BY DEF Sum, MapThenSumSet, MapThenFoldSet, Adds, Picked, Less

LEMMA AddsUnfolds ==
  ASSUME NEW S, NEW g, Adds(g, S), NEW s \in SUBSET S
  PROVE  g[s] = IF s = {} THEN 0 ELSE Picked(s).qty + g[Less(s)]
BY DEF Adds

LEMMA AddsIsUnique ==
  ASSUME NEW S, NEW T, IsFiniteSet(S), NEW g, NEW h, Adds(g, S), Adds(h, T)
  PROVE  \A s \in SUBSET S : s \subseteq T => g[s] = h[s]
<1> DEFINE B == {s \in SUBSET S : s \subseteq T /\ g[s] # h[s]}
<1>1. SUFFICES ASSUME B # {} PROVE FALSE
  OBVIOUS
<1>2. B \subseteq SUBSET S
  OBVIOUS
<1>3. PICK s \in B : \A u \in B : u \subseteq s => u = s
  <2> HIDE DEF B
  <2> QED BY <1>1, <1>2, SmallestSubset
<1>4. /\ g[s] = IF s = {} THEN 0 ELSE Picked(s).qty + g[Less(s)]
      /\ h[s] = IF s = {} THEN 0 ELSE Picked(s).qty + h[Less(s)]
  BY AddsUnfolds
<1>5. s # {}
  BY <1>4
<1>6. Less(s) \in SUBSET S /\ Less(s) \subseteq T /\ Less(s) \notin B
  BY <1>3, <1>5, PickedIsIn
<1> QED BY <1>4, <1>5, <1>6

\* The function that adds up the parts of rows exists.
LEMMA AddsExists ==
  ASSUME NEW S, IsFiniteSet(S)
  PROVE  \E g : Adds(g, S)
<1> DEFINE B == {t \in SUBSET S : ~ \E g : Adds(g, t)}
<1>1. SUFFICES ASSUME B # {} PROVE FALSE
  OBVIOUS
<1>2. B \subseteq SUBSET S
  OBVIOUS
<1>3. PICK t \in B : \A u \in B : u \subseteq t => u = t
  <2> HIDE DEF B
  <2> QED BY <1>1, <1>2, SmallestSubset
<1> DEFINE G(u) == CHOOSE g : Adds(g, u)
           h == [s \in SUBSET t |-> IF s = {} THEN 0 ELSE Picked(s).qty + G(Less(s))[Less(s)]]
<1>4. \A u \in SUBSET t : u # t => Adds(G(u), u)
  BY <1>3
<1>5. \A v, w : v \in SUBSET t /\ v # t /\ w \in SUBSET v => G(v)[w] = G(w)[w]
  <2> SUFFICES ASSUME NEW v \in SUBSET t, v # t, NEW w \in SUBSET v
               PROVE  G(v)[w] = G(w)[w]
    OBVIOUS
  <2>1. Adds(G(v), v) /\ Adds(G(w), w)
    BY <1>4
  <2>2. IsFiniteSet(v)
    BY <1>2, FS_Subset
  <2> HIDE DEF G
  <2> QED BY <2>1, <2>2, AddsIsUnique
<1>6. \A s \in SUBSET t : s # {} => h[Less(s)] = G(Less(s))[Less(s)]
  <2> SUFFICES ASSUME NEW s \in SUBSET t, s # {}
               PROVE  h[Less(s)] = G(Less(s))[Less(s)]
    OBVIOUS
  <2> DEFINE v == Less(s)
  <2>1. v \in SUBSET t /\ v # t
    BY PickedIsIn
  <2> HIDE DEF v
  <2>2. h[v] = IF v = {} THEN 0 ELSE Picked(v).qty + G(Less(v))[Less(v)]
    BY <2>1
  <2>3. Adds(G(v), v)
    BY <2>1, <1>4
  <2> HIDE DEF G, h
  <2>4. G(v)[v] = IF v = {} THEN 0 ELSE Picked(v).qty + G(v)[Less(v)]
    BY <2>3, AddsUnfolds
  <2>5. v # {} => G(v)[Less(v)] = G(Less(v))[Less(v)]
    BY <2>1, <1>5, PickedIsIn
  <2>6. h[v] = G(v)[v]
    BY <2>2, <2>4, <2>5
  <2> QED BY <2>6 DEF v
<1>7. Adds(h, t)
  <2>1. \A s \in SUBSET t : h[s] = IF s = {} THEN 0 ELSE Picked(s).qty + h[Less(s)]
    <3>1. \A s \in SUBSET t : h[s] = IF s = {} THEN 0 ELSE Picked(s).qty + G(Less(s))[Less(s)]
      OBVIOUS
    <3> HIDE DEF h, G
    <3> QED BY <3>1, <1>6
  <2>2. h = [s \in SUBSET t |-> h[s]]
    OBVIOUS
  <2> HIDE DEF h
  <2> QED BY <2>1, <2>2 DEF Adds
<1> QED BY <1>3, <1>7

LEMMA SumUnfolds ==
  ASSUME NEW S, IsFiniteSet(S)
  PROVE  Sum(S) = IF S = {} THEN 0 ELSE Picked(S).qty + Sum(Less(S))
<1> DEFINE G(u) == CHOOSE g : Adds(g, u)
<1>1. \A u \in SUBSET S : Adds(G(u), u)
  BY FS_Subset, AddsExists
<1>2. \A u \in SUBSET S : Sum(u) = G(u)[u]
  BY SumAdds
<1> HIDE DEF G
<1>3. \A u \in SUBSET S : G(S)[u] = G(u)[u]
  BY <1>1, AddsIsUnique
<1>4. S \in SUBSET S /\ (S # {} => Less(S) \in SUBSET S)
  BY PickedIsIn
<1>5. G(S)[S] = IF S = {} THEN 0 ELSE Picked(S).qty + G(S)[Less(S)]
  BY <1>1, <1>4, AddsUnfolds
<1> QED BY <1>2, <1>3, <1>4, <1>5

LEMMA SumType ==
  ASSUME NEW S, Counts(S)
  PROVE  Sum(S) \in Nat
<1> DEFINE B == {t \in SUBSET S : Sum(t) \notin Nat}
<1>1. SUFFICES ASSUME B # {} PROVE FALSE
  OBVIOUS
<1>2. B \subseteq SUBSET S /\ IsFiniteSet(S)
  BY DEF Counts
<1>3. PICK t \in B : \A u \in B : u \subseteq t => u = t
  <2> HIDE DEF B
  <2> QED BY <1>1, <1>2, SmallestSubset
<1>4. IsFiniteSet(t)
  BY <1>2, FS_Subset
<1>5. Sum(t) = IF t = {} THEN 0 ELSE Picked(t).qty + Sum(Less(t))
  BY <1>4, SumUnfolds
<1>6. t # {}
  BY <1>5
<1>7. Picked(t).qty \in Nat
  BY <1>6, PickedIsIn DEF Counts
<1>8. Less(t) \in SUBSET S /\ Less(t) \notin B
  BY <1>3, <1>6, PickedIsIn
<1> QED BY <1>5, <1>6, <1>7, <1>8

\* The order in which rows are added does not matter.
LEMMA SumOfOneMore ==
  ASSUME NEW S, Counts(S), NEW x \in S
  PROVE  Sum(S) = x.qty + Sum(S \ {x})
<1> DEFINE Splits(t) == \A y \in t : Sum(t) = y.qty + Sum(t \ {y})
           B == {t \in SUBSET S : ~Splits(t)}
<1>1. SUFFICES ASSUME B # {} PROVE FALSE
  OBVIOUS
<1>2. B \subseteq SUBSET S /\ IsFiniteSet(S)
  BY DEF Counts
<1>3. PICK t \in B : \A u \in B : u \subseteq t => u = t
  <2> HIDE DEF B
  <2> QED BY <1>1, <1>2, SmallestSubset
<1>4. PICK y \in t : Sum(t) # y.qty + Sum(t \ {y})
  OBVIOUS
<1> DEFINE z == Picked(t)
<1>5. z \in t /\ Less(t) = t \ {z}
  BY <1>4, PickedIsIn DEF Less
<1>6. Sum(t) = z.qty + Sum(t \ {z})
  BY <1>2, <1>5, FS_Subset, SumUnfolds
<1>7. y # z
  BY <1>4, <1>6
<1>8. Splits(t \ {z}) /\ Splits(t \ {y})
  BY <1>3, <1>4, <1>5
<1> HIDE DEF z
<1>9. Sum(t \ {z}) = y.qty + Sum(t \ {y, z})
  <2>1. (t \ {z}) \ {y} = t \ {y, z}
    OBVIOUS
  <2> QED BY <1>4, <1>7, <1>8, <2>1
<1>10. Sum(t \ {y}) = z.qty + Sum(t \ {y, z})
  <2>1. (t \ {y}) \ {z} = t \ {y, z}
    OBVIOUS
  <2> QED BY <1>5, <1>7, <1>8, <2>1
<1>11. y.qty \in Nat /\ z.qty \in Nat /\ Sum(t \ {y, z}) \in Nat
  <2>1. y \in S /\ z \in S
    BY <1>4, <1>5
  <2>2. t \ {y, z} \in SUBSET S
    OBVIOUS
  <2>3. Counts(t \ {y, z})
    BY <2>2, FS_Subset DEF Counts
  <2> QED BY <2>1, <2>3, SumType DEF Counts
<1> QED BY <1>4, <1>6, <1>9, <1>10, <1>11

LEMMA TotalIsSum ==
  ASSUME NEW rows, NEW c, NEW p
  PROVE  Total(rows, c, p) = Sum(RowsOf(rows, c, p))
BY DEF Total, Sum, RowsOf

LEMMA RowsCount ==
  ASSUME NEW rows, IsFiniteSet(rows), rows \subseteq Item, NEW c, NEW p
  PROVE  Counts(RowsOf(rows, c, p))
BY FS_Subset DEF RowsOf, Counts, Item

LEMMA TotalType ==
  ASSUME NEW rows, IsFiniteSet(rows), rows \subseteq Item, NEW c, NEW p
  PROVE  Total(rows, c, p) \in Nat
BY RowsCount, SumType, TotalIsSum

LEMMA TotalOfNone ==
  ASSUME NEW rows, NEW c, NEW p, \A r \in rows : ~(r.cust = c /\ r.prod = p)
  PROVE  Total(rows, c, p) = 0
<1>1. RowsOf(rows, c, p) = {}
  BY DEF RowsOf
<1>2. Sum({}) = 0
  BY SumUnfolds, FS_EmptySet
<1> QED BY <1>1, <1>2, TotalIsSum

LEMMA TotalOfSame ==
  ASSUME NEW S, NEW T, NEW c, NEW p, RowsOf(S, c, p) = RowsOf(T, c, p)
  PROVE  Total(S, c, p) = Total(T, c, p)
BY TotalIsSum

\* One row more.
LEMMA TotalOfMore ==
  ASSUME NEW rows, IsFiniteSet(rows), rows \subseteq Item, NEW r \in Item, r \notin rows,
         NEW c, NEW p
  PROVE  Total(rows \cup {r}, c, p) =
           Total(rows, c, p) + (IF r.cust = c /\ r.prod = p THEN r.qty ELSE 0)
<1> DEFINE T == rows \cup {r}
<1>1. CASE r.cust = c /\ r.prod = p
  <2>1. IsFiniteSet(T) /\ T \subseteq Item
    BY FS_AddElement
  <2>2. r \in RowsOf(T, c, p) /\ RowsOf(T, c, p) \ {r} = RowsOf(rows, c, p)
    BY <1>1 DEF RowsOf
  <2>3. Counts(RowsOf(T, c, p))
    BY <2>1, RowsCount
  <2> HIDE DEF T
  <2>4. Total(T, c, p) = r.qty + Sum(RowsOf(rows, c, p))
    BY <2>2, <2>3, SumOfOneMore, TotalIsSum
  <2>5. r.qty \in Nat /\ Total(rows, c, p) \in Nat
    BY TotalType DEF Item
  <2> QED BY <1>1, <2>4, <2>5, TotalIsSum DEF T
<1>2. CASE ~(r.cust = c /\ r.prod = p)
  <2>1. RowsOf(T, c, p) = RowsOf(rows, c, p)
    BY <1>2 DEF RowsOf
  <2>2. Total(T, c, p) = Total(rows, c, p)
    BY <2>1, TotalOfSame
  <2> QED BY <1>2, <2>2, TotalType
<1> QED BY <1>1, <1>2

\* One row less.
LEMMA TotalOfLess ==
  ASSUME NEW rows, IsFiniteSet(rows), rows \subseteq Item, NEW r \in rows, NEW c, NEW p
  PROVE  Total(rows, c, p) =
           Total(rows \ {r}, c, p) + (IF r.cust = c /\ r.prod = p THEN r.qty ELSE 0)
<1> DEFINE T == rows \ {r}
<1>1. IsFiniteSet(T) /\ T \subseteq Item /\ r \in Item /\ r \notin T /\ T \cup {r} = rows
  BY FS_Subset
<1> HIDE DEF T
<1>2. Total(T \cup {r}, c, p) =
           Total(T, c, p) + (IF r.cust = c /\ r.prod = p THEN r.qty ELSE 0)
  BY <1>1, TotalOfMore
<1> QED BY <1>1, <1>2 DEF T

-----------------------------------------------------------------------------
(* Types.                                                                  *)

Request == [op : {"free", "add", "order", "reserve", "commit", "clear"},
            cust : Customers \cup {None}, items : Seq(Item), n : Nat]

\* Requests that order: checkouts and POST /orders.
Ordering(r) == r.op \in {"order", "reserve", "commit"}

\* A request that has something to do has an item to do it with.
Sound(r) ==
  /\ r.op = "add" \/ Ordering(r) => r.items # <<>>
  /\ \A k \in DOMAIN r.items : r.items[k].cust = r.cust
  /\ r.op = "clear" => r.items = <<>>
  /\ r.op \in {"add", "clear"} => r.cust \in Customers

\* The row that add_to_cart has read, or is to insert.
SoundRead(r) ==
  r.op = "add" =>
    /\ r.items[1].id \in 0..(nextItem - 1) /\ r.items[1].prod \in Products
    /\ \A x \in cart : x.id = r.items[1].id => x.cust = r.cust /\ x.prod = r.items[1].prod

\* Ids of cart items are used once, and a row keeps its customer and product:
\* whoever writes a row it has read writes none of another customer.
CartInv ==
  /\ IsFiniteSet(cart) /\ IsFiniteSet(orders) /\ nextItem \in Nat \ {0}
  /\ \A x \in cart : x.id \in 1..(nextItem - 1) /\ x.cust \in Customers /\ x.prod \in Products
  /\ \A x, y \in cart : x.id = y.id => x = y

RequestInv == \A h \in Threads : Sound(thread[h]) /\ SoundRead(thread[h])

TypeInv == TypeOK /\ CartInv /\ RequestInv

LEMMA FreeIsSound ==
  Free \in Request /\ Sound(Free) /\ SoundRead(Free) /\ Free.op = "free" /\ Free.cust = None
BY DEF Free, Request, Sound, SoundRead, Ordering

LEMMA ThreadTypes ==
  ASSUME TypeInv
  PROVE  /\ thread \in [Threads -> Request]
         /\ \A h \in Threads : thread[h] \in Request
BY DEF TypeInv, TypeOK, Request

LEMMA InitTypeInv == Init => TypeInv
<1> SUFFICES ASSUME Init PROVE TypeInv
  OBVIOUS
<1>1. thread \in [Threads -> Request] /\ \A h \in Threads : thread[h] = Free
  BY FreeIsSound DEF Init
<1>2. TypeOK
  BY <1>1, FreeIsSound, AmazonStorefrontAssumption DEF Init, TypeOK, Request
<1>3. CartInv
  BY FS_EmptySet DEF Init, CartInv
<1>4. RequestInv
  BY <1>1, FreeIsSound DEF RequestInv
<1> QED BY <1>2, <1>3, <1>4 DEF TypeInv

\* One thread has a new request, and no table is written.
LEMMA RequestKeepsTypes ==
  ASSUME TypeInv, NEW h \in Threads, NEW r \in Request, Sound(r), SoundRead(r),
         thread' = [thread EXCEPT ![h] = r],
         UNCHANGED <<counter, orders, carts>>,
         locked' \in Threads \cup {None}, r.op = "commit" <=> locked' = h,
         \A g \in Threads : g # h => (locked' = g <=> locked = g),
         overlapped' \subseteq Customers, halted' \subseteq Customers,
         faults' \in 0..MaxFaults
  PROVE  TypeInv'
<1>1. /\ thread' \in [Threads -> Request]
      /\ \A g \in Threads : thread'[g] = IF g = h THEN r ELSE thread[g]
  BY ThreadTypes
<1>2. TypeOK'
  BY <1>1 DEF TypeInv, TypeOK, Request, carts
<1>3. CartInv'
  BY DEF TypeInv, CartInv, carts
<1>4. RequestInv'
  BY <1>1 DEF TypeInv, RequestInv, Sound, SoundRead, Ordering, carts
<1> QED BY <1>2, <1>3, <1>4 DEF TypeInv

LEMMA BeginAddKeepsTypes ==
  ASSUME TypeInv, NEW h \in Threads, NEW c \in Customers, NEW p \in Products,
         NEW q \in Quantities, BeginAdd(h, c, p, q)
  PROVE  TypeInv'
<1>1. AtLeastOne(q) \in Nat
  BY AmazonStorefrontAssumption DEF AtLeastOne
<1>2. PICK i : /\ \/ i \in cart /\ i.cust = c /\ i.prod = p
                  \/ i = [id |-> 0, cust |-> c, prod |-> p, qty |-> 0]
               /\ thread' = [thread EXCEPT ![h] =
                    [op |-> "add", cust |-> c, n |-> AtLeastOne(q),
                     items |-> <<[i EXCEPT !.qty = @ + AtLeastOne(q)]>>]]
  BY DEF BeginAdd
<1> DEFINE j == [i EXCEPT !.qty = @ + AtLeastOne(q)]
           r == [op |-> "add", cust |-> c, n |-> AtLeastOne(q), items |-> <<j>>]
<1>3. i \in Item
  BY <1>2 DEF TypeInv, TypeOK, Item
<1>4. j \in Item /\ j.id = i.id /\ j.cust = c /\ j.prod = p
  BY <1>1, <1>2, <1>3 DEF Item
<1> HIDE DEF j
<1>5. r \in Request /\ Sound(r)
  BY <1>1, <1>4 DEF Request, Sound, Ordering
<1>6. SoundRead(r)
  BY <1>2, <1>4 DEF TypeInv, CartInv, SoundRead
<1>7. r.op # "commit" /\ locked # h
  BY FreeIsSound DEF BeginAdd, TypeInv, TypeOK
<1>8. /\ UNCHANGED <<counter, locked, orders, carts, halted, faults>>
      /\ overlapped' \subseteq Customers
  BY DEF BeginAdd, Begins, TypeInv, TypeOK
<1>9. thread' = [thread EXCEPT ![h] = r]
  BY <1>2 DEF j
<1> HIDE DEF r
<1> QED BY <1>5, <1>6, <1>7, <1>8, <1>9, RequestKeepsTypes DEF TypeInv, TypeOK

LEMMA SubmitKeepsTypes ==
  ASSUME TypeInv, NEW h \in Threads, NEW q \in Quantities, Submit(h, q)
  PROVE  TypeInv'
<1> DEFINE i == [id |-> 0, cust |-> None, prod |-> None, qty |-> q]
           r == [op |-> "order", cust |-> None, n |-> 0, items |-> <<i>>]
<1>1. i \in Item /\ i.cust = None
  BY AmazonStorefrontAssumption DEF Item
<1> HIDE DEF i
<1>2. r \in Request /\ Sound(r) /\ SoundRead(r)
  BY <1>1 DEF Request, Sound, SoundRead, Ordering
<1>3. r.op # "commit" /\ locked # h
  BY FreeIsSound DEF Submit, TypeInv, TypeOK
<1>4. /\ UNCHANGED <<counter, locked, orders, carts, overlapped, halted, faults>>
      /\ thread' = [thread EXCEPT ![h] = r]
  BY DEF Submit, i
<1> HIDE DEF r
<1> QED BY <1>2, <1>3, <1>4, RequestKeepsTypes DEF TypeInv, TypeOK

\* checkout_cart lists every item of the customer, each of them once.
LEMMA ListIsComplete ==
  ASSUME NEW items, IsFiniteSet(items), items \subseteq Item, NEW s \in NewestFirst(items)
  PROVE  /\ s \in Seq(Item)
         /\ items # {} => s # <<>>
         /\ \A k \in DOMAIN s : s[k] \in items
         /\ \A x \in items : \E k \in DOMAIN s : s[k] = x
         /\ \A j, k \in DOMAIN s : s[j] = s[k] => j = k
<1> DEFINE n == Cardinality(items)
<1>1. n \in Nat
  BY FS_CardinalityType
<1>2. s \in [1..n -> items] /\ \A j, k \in 1..n : j < k => s[j].id > s[k].id
  BY DEF NewestFirst
<1>3. \A k \in 1..n : s[k].id \in Nat
  BY <1>2 DEF Item
<1>4. \A j, k \in 1..n : s[j] = s[k] => j = k
  <2> SUFFICES ASSUME NEW j \in 1..n, NEW k \in 1..n, s[j] = s[k], j # k PROVE FALSE
    OBVIOUS
  <2>1. j < k \/ k < j
    BY <1>1
  <2> HIDE DEF n
  <2> QED BY <1>2, <1>3, <2>1
<1>5. IsFiniteSet(1..n) /\ Cardinality(1..n) = n
  <2> HIDE DEF n
  <2> QED BY <1>1, FS_Interval
<1>6. s \in Surjection(1..n, items)
  <2>1. s \in Injection(1..n, items)
    <3> HIDE DEF n
    <3> QED BY <1>2, <1>4 DEF Injection, IsInjective
  <2> QED BY <1>5, <2>1, FS_Injection
<1>7. \A x \in items : \E k \in 1..n : s[k] = x
  <2> HIDE DEF n
  <2> QED BY <1>6 DEF Surjection
<1>8. s \in Seq(Item) /\ DOMAIN s = 1..n
  <2> HIDE DEF n
  <2> QED BY <1>1, <1>2
<1>9. items # {} => s # <<>>
  <2>1. s = <<>> => DOMAIN s = {}
    OBVIOUS
  <2> HIDE DEF n
  <2> QED BY <1>7, <1>8, <2>1
<1> QED BY <1>2, <1>4, <1>7, <1>8, <1>9

LEMMA CheckoutKeepsTypes ==
  ASSUME TypeInv, NEW h \in Threads, NEW c \in Customers, Checkout(h, c)
  PROVE  TypeInv'
<1> DEFINE items == {x \in cart : x.cust = c}
<1>1. PICK s \in NewestFirst(items) :
        thread' = [thread EXCEPT ![h] = [op |-> "order", cust |-> c, n |-> 0, items |-> s]]
  BY DEF Checkout
<1>2. IsFiniteSet(items) /\ items \subseteq Item /\ items # {}
  BY FS_Subset DEF Checkout, TypeInv, TypeOK, CartInv
<1> DEFINE r == [op |-> "order", cust |-> c, n |-> 0, items |-> s]
<1>3. /\ s \in Seq(Item) /\ s # <<>>
      /\ \A k \in DOMAIN s : s[k].cust = c
  <2>1. \A x \in items : x.cust = c
    OBVIOUS
  <2> HIDE DEF items
  <2> QED BY <1>2, <2>1, ListIsComplete
<1>4. r \in Request /\ Sound(r) /\ SoundRead(r)
  BY <1>3 DEF Request, Sound, SoundRead, Ordering
<1>5. r.op # "commit" /\ locked # h
  BY FreeIsSound DEF Checkout, TypeInv, TypeOK
<1>6. /\ UNCHANGED <<counter, locked, orders, carts, halted, faults>>
      /\ overlapped' \subseteq Customers
  BY DEF Checkout, Begins, TypeInv, TypeOK
<1> HIDE DEF r, items
<1> QED BY <1>1, <1>4, <1>5, <1>6, RequestKeepsTypes DEF TypeInv, TypeOK, r

LEMMA FailKeepsTypes ==
  ASSUME TypeInv, NEW h \in Threads, Fail(h),
         UNCHANGED <<counter, orders, carts, overlapped>>, faults' \in 0..MaxFaults
  PROVE  TypeInv'
<1>1. /\ locked' \in Threads \cup {None} /\ locked' # h
      /\ \A g \in Threads : g # h => (locked' = g <=> locked = g)
  BY AmazonStorefrontAssumption DEF Fail, TypeInv, TypeOK
<1>2. halted' \subseteq Customers
  BY ThreadTypes DEF Fail, TypeInv, TypeOK, Request
<1>3. thread' = [thread EXCEPT ![h] = Free] /\ overlapped' \subseteq Customers
  BY DEF Fail, TypeInv, TypeOK
<1> QED BY <1>1, <1>2, <1>3, FreeIsSound, RequestKeepsTypes

LEMMA StepKeepsTypes ==
  ASSUME TypeInv, NEW h \in Threads, ReadCounter(h) \/ Reserve(h)
  PROVE  TypeInv'
<1> DEFINE t == thread[h]
<1>1. t \in Request /\ Sound(t) /\ Ordering(t)
  BY ThreadTypes DEF TypeInv, RequestInv, ReadCounter, Reserve, Ordering
<1>2. CASE ReadCounter(h)
  <2> DEFINE r == [t EXCEPT !.op = "reserve", !.n = counter]
  <2>1. r \in Request /\ Sound(r) /\ SoundRead(r) /\ r.op # "commit"
    BY <1>1 DEF Request, Sound, SoundRead, Ordering, TypeInv, TypeOK
  <2>2. locked # h /\ UNCHANGED <<counter, locked, orders, carts, overlapped, halted, faults>>
    BY <1>2 DEF ReadCounter, TypeInv, TypeOK
  <2>3. thread' = [thread EXCEPT ![h] = r]
    BY <1>2, ThreadTypes DEF ReadCounter, Request
  <2> HIDE DEF r
  <2> QED BY <2>1, <2>2, <2>3, RequestKeepsTypes DEF TypeInv, TypeOK
<1>3. CASE Reserve(h)
  <2> DEFINE r == [t EXCEPT !.op = "commit"]
  <2>1. r \in Request /\ Sound(r) /\ SoundRead(r) /\ r.op = "commit"
    BY <1>1 DEF Request, Sound, SoundRead, Ordering
  <2>2. /\ locked' = h /\ UNCHANGED <<counter, orders, carts, overlapped, halted, faults>>
        /\ \A g \in Threads : g # h => (locked' = g <=> locked = g)
    BY <1>3, AmazonStorefrontAssumption DEF Reserve
  <2>3. thread' = [thread EXCEPT ![h] = r]
    BY <1>3, ThreadTypes DEF Reserve, Request
  <2> HIDE DEF r
  <2> QED BY <2>1, <2>2, <2>3, RequestKeepsTypes DEF TypeInv, TypeOK
<1> QED BY <1>2, <1>3

\* The three outcomes of EndAdd for the cart: nothing, a new row, the row that
\* was read with another quantity.
LEMMA EndAddCases ==
  ASSUME TypeInv, NEW h \in Threads, EndAdd(h)
  PROVE  LET i == thread[h].items[1]
             new == [i EXCEPT !.id = nextItem]
         IN  /\ i \in Item /\ i.cust = thread[h].cust /\ i.cust \in Customers /\ i.prod \in Products
             /\ i.id \in 0..(nextItem - 1)
             /\ \/ /\ i.id # 0 /\ \A x \in cart : x.id # i.id
                   /\ UNCHANGED <<cart, nextItem, asked>>
                \/ /\ i.id = 0 /\ new \in Item /\ new \notin cart
                   /\ new.id = nextItem /\ new.cust = i.cust /\ new.prod = i.prod /\ new.qty = i.qty
                   /\ cart' = cart \cup {new} /\ nextItem' = nextItem + 1
                   /\ asked' = [asked EXCEPT ![i.cust][i.prod] = @ + thread[h].n]
                \/ /\ nextItem' = nextItem
                   /\ asked' = [asked EXCEPT ![i.cust][i.prod] = @ + thread[h].n]
                   /\ \E x \in cart : /\ x.id = i.id /\ x.cust = i.cust /\ x.prod = i.prod
                                      /\ i \notin cart \ {x}
                                      /\ cart' = (cart \ {x}) \cup {i}
<1> DEFINE i == thread[h].items[1]
           new == [i EXCEPT !.id = nextItem]
           gone == i.id # 0 /\ \A x \in cart : x.id # i.id
<1>1. thread[h] \in Request /\ thread[h].op = "add" /\ Sound(thread[h]) /\ SoundRead(thread[h])
  BY ThreadTypes DEF EndAdd, TypeInv, RequestInv
<1>2. thread[h].items \in Seq(Item) /\ thread[h].items # <<>>
  BY <1>1 DEF Request, Sound
<1>3. i \in Item /\ i.cust = thread[h].cust /\ i.cust \in Customers
  BY <1>1, <1>2 DEF Sound
<1>4. /\ i.id \in 0..(nextItem - 1) /\ i.prod \in Products
      /\ \A x \in cart : x.id = i.id => x.cust = i.cust /\ x.prod = i.prod
  BY <1>1, <1>3 DEF SoundRead
<1>5. /\ cart' = IF gone THEN cart
                 ELSE IF i.id = 0 THEN cart \cup {new}
                 ELSE {x \in cart : x.id # i.id} \cup {i}
      /\ nextItem' = IF i.id = 0 THEN nextItem + 1 ELSE nextItem
      /\ asked' = IF gone THEN asked ELSE [asked EXCEPT ![i.cust][i.prod] = @ + thread[h].n]
  BY DEF EndAdd
<1>6. nextItem \in Nat \ {0} /\ (\A x \in cart : x.id \in 1..(nextItem - 1))
      /\ \A x, y \in cart : x.id = y.id => x = y
  BY DEF TypeInv, CartInv
<1>7. CASE gone
  BY <1>3, <1>4, <1>5, <1>7
<1>8. CASE ~gone /\ i.id = 0
  <2>1. /\ new \in Item /\ new.id = nextItem
        /\ new.cust = i.cust /\ new.prod = i.prod /\ new.qty = i.qty
    BY <1>3, <1>6 DEF Item
  <2> HIDE DEF i, new
  <2>2. new \notin cart
    BY <1>6, <2>1
  <2> QED BY <1>3, <1>4, <1>5, <1>8, <2>1, <2>2 DEF i, new
<1>9. CASE ~gone /\ i.id # 0
  <2>1. PICK x \in cart : x.id = i.id
    BY <1>9
  <2>2. {y \in cart : y.id # i.id} = cart \ {x}
    BY <1>6, <2>1
  <2>3. i \notin cart \ {x}
    BY <2>2
  <2>4. /\ cart' = (cart \ {x}) \cup {i} /\ nextItem' = nextItem
        /\ asked' = [asked EXCEPT ![i.cust][i.prod] = @ + thread[h].n]
    BY <1>5, <1>9, <2>2
  <2> QED BY <1>3, <1>4, <2>1, <2>3, <2>4
<1> QED BY <1>7, <1>8, <1>9

LEMMA EndAddKeepsTypes ==
  ASSUME TypeInv, NEW h \in Threads, EndAdd(h)
  PROVE  TypeInv'
<1> DEFINE i == thread[h].items[1]
           new == [i EXCEPT !.id = nextItem]
<1>1. /\ i \in Item /\ i.cust = thread[h].cust /\ i.cust \in Customers /\ i.prod \in Products
      /\ i.id \in 0..(nextItem - 1)
      /\ \/ /\ i.id # 0 /\ \A x \in cart : x.id # i.id
            /\ UNCHANGED <<cart, nextItem, asked>>
         \/ /\ i.id = 0 /\ new \in Item /\ new \notin cart
            /\ new.id = nextItem /\ new.cust = i.cust /\ new.prod = i.prod /\ new.qty = i.qty
            /\ cart' = cart \cup {new} /\ nextItem' = nextItem + 1
            /\ asked' = [asked EXCEPT ![i.cust][i.prod] = @ + thread[h].n]
         \/ /\ nextItem' = nextItem
            /\ asked' = [asked EXCEPT ![i.cust][i.prod] = @ + thread[h].n]
            /\ \E x \in cart : /\ x.id = i.id /\ x.cust = i.cust /\ x.prod = i.prod
                               /\ i \notin cart \ {x}
                               /\ cart' = (cart \ {x}) \cup {i}
  BY EndAddCases
<1>2. /\ thread' = [thread EXCEPT ![h] = Free] /\ thread[h].op = "add"
      /\ UNCHANGED <<counter, locked, orders, overlapped, halted, faults>>
  BY DEF EndAdd
<1>3. /\ thread' \in [Threads -> Request]
      /\ \A g \in Threads : thread'[g] = IF g = h THEN Free ELSE thread[g]
  BY <1>2, ThreadTypes, FreeIsSound
<1>4. asked' \in [Customers -> [Products -> Int]]
  <2>1. thread[h].n \in Nat /\ asked \in [Customers -> [Products -> Int]]
    BY ThreadTypes DEF Request, TypeInv, TypeOK
  <2> HIDE DEF i, new
  <2> QED BY <1>1, <2>1
<1> HIDE DEF i, new
<1>5. CartInv'
  <2> USE DEF TypeInv, CartInv
  <2>1. IsFiniteSet(cart')
    <3>1. IsFiniteSet(cart)
      OBVIOUS
    <3>2. \A x : IsFiniteSet(cart \cup {x}) /\ IsFiniteSet((cart \ {x}) \cup {i})
      BY <3>1, FS_AddElement, FS_RemoveElement
    <3>3. CASE cart' = cart
      BY <3>1, <3>3
    <3>4. CASE cart' = cart \cup {new}
      BY <3>2, <3>4
    <3>5. CASE \E x : cart' = (cart \ {x}) \cup {i}
      BY <3>2, <3>5
    <3>6. \/ cart' = cart \/ cart' = cart \cup {new}
          \/ \E x : cart' = (cart \ {x}) \cup {i}
      BY <1>1
    <3> HIDE DEF TypeInv, CartInv
    <3> QED BY <3>3, <3>4, <3>5, <3>6
  <2>2. IsFiniteSet(orders') /\ nextItem' \in Nat \ {0}
    BY <1>1, <1>2
  <2>3. \A x \in cart' : x.id \in 1..(nextItem' - 1) /\ x.cust \in Customers /\ x.prod \in Products
    BY <1>1
  <2>4. \A x, y \in cart' : x.id = y.id => x = y
    BY <1>1
  <2> QED BY <2>1, <2>2, <2>3, <2>4
<1>6. TypeOK'
  <2>1. cart' \subseteq Item /\ nextItem' \in Nat
    BY <1>1, <1>5 DEF TypeInv, TypeOK, CartInv
  <2>2. \A g \in Threads : thread'[g].op = "commit" <=> locked' = g
    BY <1>2, <1>3, FreeIsSound DEF TypeInv, TypeOK
  <2> QED BY <1>2, <1>3, <1>4, <2>1, <2>2 DEF TypeInv, TypeOK, Request
<1>7. RequestInv'
  <2> SUFFICES ASSUME NEW g \in Threads PROVE (Sound(thread[g]) /\ SoundRead(thread[g]))'
    BY DEF RequestInv
  <2>1. CASE g = h
    BY <1>3, <2>1 DEF Free, Sound, SoundRead, Ordering
  <2>2. CASE g # h
    <3>1. thread'[g] = thread[g] /\ Sound(thread[g]) /\ SoundRead(thread[g])
      BY <1>3, <2>2 DEF TypeInv, RequestInv
    <3>2. Sound(thread[g])'
      BY <3>1 DEF Sound, Ordering
    <3>3. SoundRead(thread[g])'
      <4> SUFFICES ASSUME thread[g].op = "add"
                   PROVE  /\ thread[g].items[1].id \in 0..(nextItem' - 1)
                          /\ thread[g].items[1].prod \in Products
                          /\ \A x \in cart' : x.id = thread[g].items[1].id =>
                               x.cust = thread[g].cust /\ x.prod = thread[g].items[1].prod
        BY <3>1 DEF SoundRead
      <4> DEFINE j == thread[g].items[1]
      <4>1. /\ j.id \in 0..(nextItem - 1) /\ j.prod \in Products
            /\ \A x \in cart : x.id = j.id => x.cust = thread[g].cust /\ x.prod = j.prod
        BY <3>1 DEF SoundRead
      <4> HIDE DEF j
      <4>2. j.id \in 0..(nextItem' - 1)
        BY <1>1, <4>1 DEF TypeInv, CartInv
      <4>3. \A x \in cart' : x.id = j.id => x.cust = thread[g].cust /\ x.prod = j.prod
        BY <1>1, <4>1 DEF TypeInv, CartInv
      <4> QED BY <4>1, <4>2, <4>3 DEF j
    <3> QED BY <3>2, <3>3
  <2> QED BY <2>1, <2>2
<1> QED BY <1>5, <1>6, <1>7 DEF TypeInv

\* Rows are taken out of the cart, and at most one thread becomes free.
LEMMA LessCartKeepsTypes ==
  ASSUME TypeInv, cart' \subseteq cart,
         \A g \in Threads : thread'[g] = thread[g] \/ (thread'[g] = Free /\ thread[g].op = "clear"),
         thread' \in [Threads -> Request],
         asked' \in [Customers -> [Products -> Int]], overlapped' \subseteq Customers,
         UNCHANGED <<counter, locked, orders, nextItem, halted, faults>>
  PROVE  TypeInv'
<1>1. CartInv'
  BY FS_Subset DEF TypeInv, CartInv
<1>2. TypeOK'
  <2>1. \A g \in Threads : thread'[g].op = "commit" <=> locked' = g
    BY FreeIsSound DEF TypeInv, TypeOK
  <2> QED BY <2>1 DEF TypeInv, TypeOK, Request
<1>3. RequestInv'
  BY DEF TypeInv, RequestInv, Sound, SoundRead, Ordering, Free
<1> QED BY <1>1, <1>2, <1>3 DEF TypeInv

LEMMA RemoveKeepsTypes ==
  ASSUME TypeInv, NEW i \in cart, RemoveItem(i)
  PROVE  TypeInv'
<1>1. i.cust \in Customers /\ i.prod \in Products /\ i.qty \in Nat
  BY DEF TypeInv, TypeOK, CartInv, Item
<1>2. asked' \in [Customers -> [Products -> Int]]
  BY <1>1 DEF RemoveItem, TypeInv, TypeOK
<1>3. overlapped' \subseteq Customers
  BY <1>1 DEF RemoveItem, Begins, TypeInv, TypeOK
<1>4. cart' \subseteq cart /\ UNCHANGED <<counter, locked, orders, nextItem, thread, halted, faults>>
  BY DEF RemoveItem
<1> QED BY <1>2, <1>3, <1>4, ThreadTypes, LessCartKeepsTypes

LEMMA ClearKeepsTypes ==
  ASSUME TypeInv, NEW h \in Threads, ClearCart(h)
  PROVE  TypeInv'
<1>1. /\ cart' \subseteq cart /\ thread[h].op = "clear" /\ thread' = [thread EXCEPT ![h] = Free]
      /\ UNCHANGED <<counter, locked, orders, nextItem, asked, overlapped, halted, faults>>
  BY DEF ClearCart
<1>2. /\ thread' \in [Threads -> Request]
      /\ \A g \in Threads : thread'[g] = IF g = h THEN Free ELSE thread[g]
  BY <1>1, ThreadTypes, FreeIsSound
<1>3. asked' \in [Customers -> [Products -> Int]] /\ overlapped' \subseteq Customers
  BY <1>1 DEF TypeInv, TypeOK
<1> QED BY <1>1, <1>2, <1>3, LessCartKeepsTypes

\* The order that Place inserts, and what is left of the request.
LEMMA PlaceParts ==
  ASSUME TypeInv, NEW h \in Threads, Place(h)
  PROVE  LET i == Head(thread[h].items)
             rest == Tail(thread[h].items)
             new == [id |-> thread[h].n, cust |-> i.cust, prod |-> i.prod, qty |-> i.qty]
         IN  /\ thread[h].op = "commit" /\ thread[h] \in Request
             /\ i = thread[h].items[1] /\ i \in Item /\ i.cust = thread[h].cust
             /\ 1 \in DOMAIN thread[h].items
             /\ new \in Item /\ new \notin orders
             /\ new.cust = i.cust /\ new.prod = i.prod /\ new.qty = i.qty
             /\ orders' = orders \cup {new}
             /\ rest \in Seq(Item)
             /\ \A k \in DOMAIN rest : k + 1 \in DOMAIN thread[h].items
                                       /\ rest[k] = thread[h].items[k + 1]
             /\ \A k \in DOMAIN thread[h].items : k # 1 => k - 1 \in DOMAIN rest
             /\ thread' = [thread EXCEPT ![h] =
                  IF rest = <<>> /\ thread[h].cust = None THEN Free
                  ELSE [op |-> IF rest = <<>> THEN "clear" ELSE "order",
                        cust |-> thread[h].cust, items |-> rest, n |-> thread[h].n]]
<1> DEFINE t == thread[h]
           i == Head(t.items)
           rest == Tail(t.items)
           new == [id |-> t.n, cust |-> i.cust, prod |-> i.prod, qty |-> i.qty]
<1>1. t.op = "commit" /\ t \in Request /\ Sound(t)
  BY ThreadTypes DEF Place, TypeInv, RequestInv
<1>2. t.items \in Seq(Item) /\ t.items # <<>> /\ t.n \in Nat
  BY <1>1 DEF Request, Sound, Ordering
<1>3. i = t.items[1] /\ i \in Item /\ 1 \in DOMAIN t.items
  BY <1>2
<1>4. i.cust = t.cust
  BY <1>1, <1>3 DEF Sound
<1>5. new \in Item /\ new.cust = i.cust /\ new.prod = i.prod /\ new.qty = i.qty /\ new.id = t.n
  BY <1>2, <1>3 DEF Item
<1>6. new \notin orders
  BY <1>5 DEF Place, Taken
<1>7. /\ rest \in Seq(Item)
      /\ \A k \in DOMAIN rest : k + 1 \in DOMAIN t.items /\ rest[k] = t.items[k + 1]
      /\ \A k \in DOMAIN t.items : k # 1 => k - 1 \in DOMAIN rest
  BY <1>2
<1>8. orders' = orders \cup {new}
  BY DEF Place
<1>9. thread' = [thread EXCEPT ![h] =
         IF rest = <<>> /\ t.cust = None THEN Free
         ELSE [op |-> IF rest = <<>> THEN "clear" ELSE "order",
               cust |-> t.cust, items |-> rest, n |-> t.n]]
  BY DEF Place
<1> HIDE DEF i, rest, new
<1> QED BY <1>1, <1>3, <1>4, <1>5, <1>6, <1>7, <1>8, <1>9 DEF i, rest, new

LEMMA PlaceKeepsTypes ==
  ASSUME TypeInv, NEW h \in Threads, Place(h)
  PROVE  TypeInv'
<1> DEFINE t == thread[h]
           i == Head(t.items)
           rest == Tail(t.items)
           new == [id |-> t.n, cust |-> i.cust, prod |-> i.prod, qty |-> i.qty]
           r == IF rest = <<>> /\ t.cust = None THEN Free
                ELSE [op |-> IF rest = <<>> THEN "clear" ELSE "order",
                      cust |-> t.cust, items |-> rest, n |-> t.n]
<1>1. /\ t.op = "commit" /\ t \in Request
      /\ new \in Item /\ orders' = orders \cup {new}
      /\ rest \in Seq(Item)
      /\ \A k \in DOMAIN rest : k + 1 \in DOMAIN t.items /\ rest[k] = t.items[k + 1]
      /\ thread' = [thread EXCEPT ![h] = r]
  BY PlaceParts
<1>2. Sound(t)
  BY DEF TypeInv, RequestInv
<1> HIDE DEF rest, new
<1>3. r \in Request /\ Sound(r) /\ SoundRead(r) /\ r.op # "commit"
  <2>1. CASE rest = <<>> /\ t.cust = None
    BY <2>1, FreeIsSound
  <2>2. CASE ~(rest = <<>> /\ t.cust = None)
    BY <1>1, <1>2, <2>2 DEF Request, Sound, SoundRead, Ordering
  <2> QED BY <2>1, <2>2
<1> HIDE DEF r
<1>4. /\ thread' \in [Threads -> Request]
      /\ \A g \in Threads : thread'[g] = IF g = h THEN r ELSE thread[g]
  BY <1>1, <1>3, ThreadTypes
<1>5. locked' = None /\ counter' = t.n + 1 /\ UNCHANGED <<carts, overlapped, halted, faults>>
  BY DEF Place
<1>6. TypeOK'
  <2>1. \A g \in Threads : thread'[g].op = "commit" <=> locked' = g
    BY <1>1, <1>3, <1>4, <1>5, AmazonStorefrontAssumption DEF TypeInv, TypeOK
  <2>2. counter' \in Nat \ {0} /\ orders' \subseteq Item
    BY <1>1, <1>5 DEF Request, TypeInv, TypeOK
  <2> QED BY <1>4, <1>5, <2>1, <2>2 DEF TypeInv, TypeOK, Request, carts
<1>7. CartInv'
  BY <1>1, <1>5, FS_AddElement DEF TypeInv, CartInv, carts
<1>8. RequestInv'
  BY <1>3, <1>4, <1>5 DEF TypeInv, RequestInv, Sound, SoundRead, Ordering, carts
<1> QED BY <1>6, <1>7, <1>8 DEF TypeInv

LEMMA NextKeepsTypes == TypeInv /\ [Next]_vars => TypeInv'
<1> SUFFICES ASSUME TypeInv, [Next]_vars PROVE TypeInv'
  OBVIOUS
<1>1. CASE UNCHANGED vars
  BY <1>1 DEF vars, carts, TypeInv, TypeOK, CartInv, RequestInv, Sound, SoundRead, Ordering
<1>2. ASSUME NEW h \in Threads, TooMany(h) \/ Clash(h) \/ Die(h) PROVE TypeInv'
  <2>1. Fail(h) /\ UNCHANGED <<counter, orders, carts, overlapped>>
    BY <1>2 DEF TooMany, Clash, Die
  <2>2. faults' \in 0..MaxFaults
    BY <1>2, AmazonStorefrontAssumption DEF TooMany, Clash, Die, TypeInv, TypeOK
  <2> QED BY <2>1, <2>2, FailKeepsTypes
<1> QED
  BY <1>1, <1>2, BeginAddKeepsTypes, SubmitKeepsTypes, CheckoutKeepsTypes, StepKeepsTypes,
     EndAddKeepsTypes, RemoveKeepsTypes, ClearKeepsTypes, PlaceKeepsTypes DEF Next, Continue

\* Carts, orders and requests keep their types, and the lock on the counter is
\* with the one thread that is about to commit (TypeOK).
THEOREM StorefrontTypeCorrect == Spec => []TypeOK
<1>1. TypeInv => TypeOK
  BY DEF TypeInv
<1> QED BY InitTypeInv, NextKeepsTypes, <1>1, PTL DEF Spec

-----------------------------------------------------------------------------
(* Package ids.                                                            *)

\* A package id that a thread has read is not beyond the counter: the counter
\* never falls, so whoever finds the id unused has the next one.
ReadsAreOld ==
  \A h \in Threads : thread[h].op \in {"reserve", "commit"} => thread[h].n \in 1..counter

IdsInv == TypeInv /\ ReadsAreOld /\ IdsDense

LEMMA InitIds == Init => IdsInv
<1>1. SUFFICES ASSUME Init PROVE IdsInv
  OBVIOUS
<1>2. ReadsAreOld
  BY <1>1 DEF Init, Free, ReadsAreOld
<1>3. IdsDense
  BY <1>1 DEF Init, IdsDense
<1> QED BY <1>1, <1>2, <1>3, InitTypeInv DEF IdsInv

\* Orders and counter are left alone, and threads have read nothing that they
\* had not read before.
LEMMA QuietKeepsIds ==
  ASSUME IdsInv, TypeInv', UNCHANGED <<counter, orders>>,
         \A g \in Threads :
           \/ thread'[g].op \notin {"reserve", "commit"}
           \/ thread'[g].n = thread[g].n /\ thread[g].op \in {"reserve", "commit"}
           \/ thread'[g].n = counter
  PROVE  IdsInv'
<1>1. counter \in Nat \ {0} /\ counter' = counter
  BY DEF IdsInv, TypeInv, TypeOK
<1>2. ReadsAreOld'
  BY <1>1 DEF IdsInv, ReadsAreOld
<1>3. IdsDense'
  BY DEF IdsInv, IdsDense
<1> QED BY <1>2, <1>3 DEF IdsInv

\* The order that is placed has the id at the counter.
LEMMA PlaceKeepsIds ==
  ASSUME IdsInv, TypeInv', NEW h \in Threads, Place(h)
  PROVE  IdsInv'
<1> DEFINE t == thread[h]
           i == Head(t.items)
           rest == Tail(t.items)
           new == [id |-> t.n, cust |-> i.cust, prod |-> i.prod, qty |-> i.qty]
           r == IF rest = <<>> /\ t.cust = None THEN Free
                ELSE [op |-> IF rest = <<>> THEN "clear" ELSE "order",
                      cust |-> t.cust, items |-> rest, n |-> t.n]
<1>1. /\ t.op = "commit" /\ ~Taken(t.n) /\ counter' = t.n + 1
      /\ orders' = orders \cup {new} /\ thread' = [thread EXCEPT ![h] = r]
  BY DEF Place
<1>2. t.n = counter
  <2>1. t.n \in 1..counter /\ counter \in Nat \ {0}
    BY <1>1 DEF IdsInv, ReadsAreOld, TypeInv, TypeOK
  <2>2. t.n \notin {o.id : o \in orders}
    BY <1>1 DEF Taken
  <2> QED BY <2>1, <2>2 DEF IdsInv, IdsDense
<1>3. counter' = counter + 1 /\ counter \in Nat \ {0}
  BY <1>1, <1>2 DEF IdsInv, TypeInv, TypeOK
<1>4. new.id = counter
  BY <1>2
<1> HIDE DEF new
<1>5. IdsDense'
  <2>1. {o.id : o \in orders'} = {o.id : o \in orders} \cup {counter}
    BY <1>1, <1>4
  <2>2. 1..(counter - 1) \cup {counter} = 1..(counter' - 1)
    BY <1>3
  <2>3. \A o \in orders : o.id # counter
    BY <1>1, <1>2 DEF Taken
  <2>4. \A o, u \in orders' : o.id = u.id => o = u
    BY <1>1, <1>4, <2>3 DEF IdsInv, IdsDense
  <2> QED BY <2>1, <2>2, <2>4 DEF IdsInv, IdsDense
<1>6. ReadsAreOld'
  <2>1. r.op \notin {"reserve", "commit"}
    BY DEF Free
  <2> HIDE DEF r
  <2>2. \A g \in Threads : thread'[g] = IF g = h THEN r ELSE thread[g]
    BY <1>1, ThreadTypes DEF IdsInv
  <2> QED BY <1>3, <2>1, <2>2 DEF IdsInv, ReadsAreOld
<1> QED BY <1>5, <1>6 DEF IdsInv

LEMMA NextKeepsIds == IdsInv /\ [Next]_vars => IdsInv'
<1> SUFFICES ASSUME IdsInv, [Next]_vars PROVE IdsInv'
  OBVIOUS
<1> USE ThreadTypes
<1>1. TypeInv /\ TypeInv'
  BY NextKeepsTypes DEF IdsInv
<1>2. CASE UNCHANGED vars
  BY <1>1, <1>2, QuietKeepsIds DEF vars
<1>3. ASSUME NEW h \in Threads, NEW c \in Customers, NEW p \in Products,
             NEW q \in Quantities, BeginAdd(h, c, p, q)
      PROVE  IdsInv'
  BY <1>1, <1>3, QuietKeepsIds DEF BeginAdd
<1>4. ASSUME NEW h \in Threads, NEW q \in Quantities, Submit(h, q)
      PROVE  IdsInv'
  BY <1>1, <1>4, QuietKeepsIds DEF Submit
<1>5. ASSUME NEW h \in Threads, NEW c \in Customers, Checkout(h, c)
      PROVE  IdsInv'
  BY <1>1, <1>5, QuietKeepsIds DEF Checkout
<1>6. ASSUME NEW h \in Threads, EndAdd(h) \/ ClearCart(h)
      PROVE  IdsInv'
  BY <1>1, <1>6, FreeIsSound, QuietKeepsIds DEF EndAdd, ClearCart
<1>7. ASSUME NEW h \in Threads, TooMany(h) \/ Clash(h) \/ Die(h)
      PROVE  IdsInv'
  BY <1>1, <1>7, FreeIsSound, QuietKeepsIds DEF TooMany, Clash, Die, Fail
<1>8. ASSUME NEW h \in Threads, ReadCounter(h)
      PROVE  IdsInv'
  BY <1>1, <1>8, QuietKeepsIds DEF ReadCounter, Request
<1>9. ASSUME NEW h \in Threads, Reserve(h)
      PROVE  IdsInv'
  BY <1>1, <1>9, QuietKeepsIds DEF Reserve, Request
<1>10. ASSUME NEW i \in cart, RemoveItem(i)
      PROVE  IdsInv'
  BY <1>1, <1>10, QuietKeepsIds DEF RemoveItem
<1> QED
  BY <1>1, <1>2, <1>3, <1>4, <1>5, <1>6, <1>7, <1>8, <1>9, <1>10, PlaceKeepsIds DEF Next, Continue

\* Package ids are never used twice and never skipped (IdsDense): the unique
\* column and the rollback of the counter suffice, the lock is not needed.
THEOREM PackageIdsAreDense == Spec => []IdsDense
<1>1. IdsInv => IdsDense
  BY DEF IdsInv
<1> QED BY InitIds, NextKeepsIds, <1>1, PTL DEF Spec

-----------------------------------------------------------------------------
(* What customers hold.                                                    *)

\* What a thread has read is still in the cart.
ReadIsCurrent(r) ==
  r.op = "add" /\ r.cust \notin overlapped =>
    IF r.items[1].id = 0
    THEN /\ r.items[1].qty = r.n
         /\ \A x \in cart : ~(x.cust = r.cust /\ x.prod = r.items[1].prod)
    ELSE \E x \in cart : x.id = r.items[1].id /\ r.items[1].qty = x.qty + r.n

ListIsCurrent(r) ==
  Ordering(r) /\ r.cust \in Customers \ overlapped =>
    /\ \A k \in DOMAIN r.items : r.items[k] \in cart
    /\ \A j, k \in DOMAIN r.items : r.items[j].prod = r.items[k].prod => j = k

\* While a customer makes one request at a time there is one row for a
\* product, and a request in progress finds what it has read.
OneRequest ==
  \A h, g \in Threads :
    thread[h].cust \in Customers \ overlapped /\ thread[g].cust = thread[h].cust => h = g

OneRow ==
  \A x, y \in cart : x.cust \notin overlapped /\ x.cust = y.cust /\ x.prod = y.prod => x = y

CalmInv ==
  /\ OneRequest /\ OneRow
  /\ \A h \in Threads : ReadIsCurrent(thread[h]) /\ ListIsCurrent(thread[h])

\* A checkout of c is under way that has ordered all that it will of p.
DoneBy(r, c, p) ==
  /\ r.cust = c /\ (Ordering(r) \/ r.op = "clear")
  /\ \A k \in DOMAIN r.items : r.items[k].prod # p
Done(c, p) == \E h \in Threads : DoneBy(thread[h], c, p)

\* What is in the cart counts until its checkout has ordered it.
Held(c, p) == (IF Done(c, p) THEN 0 ELSE Total(cart, c, p)) + Total(orders, c, p)

AccountInv ==
  \A c \in Customers \ overlapped, p \in Products :
    /\ asked[c][p] <= Held(c, p)
    /\ c \notin halted => Held(c, p) <= asked[c][p]

LEMMA Totals ==
  ASSUME TypeInv, NEW c, NEW p
  PROVE  Total(cart, c, p) \in Nat /\ Total(orders, c, p) \in Nat
BY TotalType DEF TypeInv, TypeOK, CartInv

LEMMA FreeIsCalm ==
  /\ ReadIsCurrent(Free) /\ ListIsCurrent(Free)
  /\ \A c, p : ~DoneBy(Free, c, p)
BY DEF Free, ReadIsCurrent, ListIsCurrent, Ordering, DoneBy

LEMMA InitCalm == Init => CalmInv /\ AccountInv
<1> SUFFICES ASSUME Init PROVE CalmInv /\ AccountInv
  OBVIOUS
<1>1. \A h \in Threads : thread[h] = Free
  BY DEF Init
<1>2. CalmInv
  BY <1>1, FreeIsCalm, FreeIsSound, AmazonStorefrontAssumption
  DEF CalmInv, OneRequest, OneRow, Init
<1>3. AccountInv
  <2> SUFFICES ASSUME NEW c \in Customers, NEW p \in Products
               PROVE  asked[c][p] = 0 /\ Held(c, p) = 0
    BY DEF AccountInv
  <2>1. ~Done(c, p)
    BY <1>1, FreeIsCalm DEF Done
  <2>2. Total({}, c, p) = 0
    BY TotalOfNone
  <2> QED BY <2>1, <2>2 DEF Held, Init
<1> QED BY <1>2, <1>3

\* One thread has a new request, and the cart is not written.
LEMMA RequestKeepsCalm ==
  ASSUME TypeInv, CalmInv, NEW h \in Threads, NEW r,
         thread' = [thread EXCEPT ![h] = r], cart' = cart, overlapped \subseteq overlapped',
         r.cust \in Customers \ overlapped' => \A g \in Threads : g # h => thread[g].cust # r.cust,
         ReadIsCurrent(r)', ListIsCurrent(r)'
  PROVE  CalmInv'
<1>1. \A g \in Threads : thread'[g] = IF g = h THEN r ELSE thread[g]
  BY ThreadTypes
<1>2. OneRequest'
  BY <1>1 DEF CalmInv, OneRequest
<1>3. OneRow'
  BY DEF CalmInv, OneRow
<1>4. \A g \in Threads : (ReadIsCurrent(thread[g]) /\ ListIsCurrent(thread[g]))'
  BY <1>1 DEF CalmInv, ReadIsCurrent, ListIsCurrent, Ordering
<1> QED BY <1>2, <1>3, <1>4 DEF CalmInv

\* Rows of one customer change, whose requests are over.
LEMMA CartKeepsCalm ==
  ASSUME TypeInv, CalmInv, NEW c \in Customers,
         \A x : x.cust # c => (x \in cart' <=> x \in cart),
         overlapped \subseteq overlapped',
         \A g \in Threads : thread'[g] = thread[g] \/ thread'[g] = Free,
         c \in overlapped' \/ \A g \in Threads : thread'[g].cust # c,
         c \notin overlapped' =>
           \A x, y \in cart' : x.cust = c /\ y.cust = c /\ x.prod = y.prod => x = y
  PROVE  CalmInv'
<1>1. OneRequest'
  BY FreeIsSound, AmazonStorefrontAssumption DEF CalmInv, OneRequest
<1>2. OneRow'
  BY DEF CalmInv, OneRow
<1>3. ASSUME NEW g \in Threads PROVE (ReadIsCurrent(thread[g]) /\ ListIsCurrent(thread[g]))'
  <2>1. CASE thread'[g] = Free
    BY <2>1 DEF Free, ReadIsCurrent, ListIsCurrent, Ordering
  <2>2. CASE thread'[g] = thread[g]
    <3> DEFINE t == thread[g]
    <3>1. Sound(t) /\ SoundRead(t) /\ ReadIsCurrent(t) /\ ListIsCurrent(t) /\ t.items \in Seq(Item)
      BY ThreadTypes DEF TypeInv, RequestInv, CalmInv, Request
    <3>2. t' = t /\ (t.cust # c \/ c \in overlapped')
      BY <2>2
    <3> HIDE DEF t
    <3>3. CASE t.cust # c
      <4>1. ReadIsCurrent(t)'
        BY <3>1, <3>2, <3>3 DEF ReadIsCurrent, SoundRead
      <4>2. ListIsCurrent(t)'
        BY <3>1, <3>2, <3>3 DEF ListIsCurrent, Sound, Ordering
      <4> QED BY <4>1, <4>2 DEF t
    <3>4. CASE t.cust = c /\ c \in overlapped'
      BY <2>2, <3>4 DEF t, ReadIsCurrent, ListIsCurrent, Ordering
    <3> QED BY <3>2, <3>3, <3>4
  <2> QED BY <2>1, <2>2
<1> QED BY <1>1, <1>2, <1>3 DEF CalmInv

\* A step that moves nothing into or out of what a customer holds.
LEMMA SameHeld ==
  ASSUME AccountInv, asked' = asked, overlapped \subseteq overlapped', halted \subseteq halted',
         \A c \in Customers \ overlapped', p \in Products : Held(c, p)' = Held(c, p)
  PROVE  AccountInv'
BY DEF AccountInv

LEMMA RequestKeepsAccount ==
  ASSUME TypeInv, AccountInv, NEW h \in Threads, NEW r,
         thread' = [thread EXCEPT ![h] = r], UNCHANGED <<cart, orders, asked>>,
         overlapped \subseteq overlapped', halted \subseteq halted',
         \A c \in Customers \ overlapped', p \in Products :
           DoneBy(r, c, p) <=> DoneBy(thread[h], c, p)
  PROVE  AccountInv'
<1>1. \A g \in Threads : thread'[g] = IF g = h THEN r ELSE thread[g]
  BY ThreadTypes
<1>2. ASSUME NEW c \in Customers \ overlapped', NEW p \in Products
      PROVE  Held(c, p)' = Held(c, p)
  <2>1. Done(c, p)' <=> Done(c, p)
    BY <1>1, <1>2 DEF Done, DoneBy, Ordering
  <2> QED BY <2>1 DEF Held
<1> QED BY <1>2, SameHeld

CalmStep == CalmInv' /\ AccountInv'

\* The customer of a request that begins is busy with nothing else.
LEMMA BeginsAlone ==
  ASSUME TypeInv, NEW c \in Customers, Begins(c)
  PROVE  /\ overlapped \subseteq overlapped'
         /\ c \notin overlapped' => \A g \in Threads : thread[g].cust # c
         /\ \A d : d # c => (d \in overlapped' <=> d \in overlapped)
BY DEF Begins, Active

LEMMA BeginAddIsCalm ==
  ASSUME TypeInv, CalmInv, AccountInv, NEW h \in Threads, NEW c \in Customers,
         NEW p \in Products, NEW q \in Quantities, BeginAdd(h, c, p, q)
  PROVE  CalmStep
<1>1. AtLeastOne(q) \in Nat
  BY AmazonStorefrontAssumption DEF AtLeastOne
<1>2. PICK i : /\ \/ i \in cart /\ i.cust = c /\ i.prod = p
                  \/ /\ i = [id |-> 0, cust |-> c, prod |-> p, qty |-> 0]
                     /\ ~ \E x \in cart : x.cust = c /\ x.prod = p
               /\ thread' = [thread EXCEPT ![h] =
                    [op |-> "add", cust |-> c, n |-> AtLeastOne(q),
                     items |-> <<[i EXCEPT !.qty = @ + AtLeastOne(q)]>>]]
  BY DEF BeginAdd
<1> DEFINE j == [i EXCEPT !.qty = @ + AtLeastOne(q)]
           r == [op |-> "add", cust |-> c, n |-> AtLeastOne(q), items |-> <<j>>]
<1>3. i \in Item
  BY <1>2 DEF TypeInv, TypeOK, Item
<1>4. j.id = i.id /\ j.qty = i.qty + AtLeastOne(q) /\ j.prod = p
  BY <1>2, <1>3 DEF Item
<1>5. /\ thread[h] = Free /\ Begins(c) /\ UNCHANGED <<cart, orders, asked, halted>>
  BY DEF BeginAdd, carts
<1>6. ReadIsCurrent(r)' /\ ListIsCurrent(r)'
  <2>1. r.op = "add" /\ r.cust = c /\ r.n = AtLeastOne(q) /\ r.items[1] = j
    OBVIOUS
  <2> HIDE DEF r, j
  <2>2. CASE i \in cart
    <3>1. j.id # 0
      BY <1>4, <2>2 DEF TypeInv, CartInv
    <3> QED BY <1>4, <1>5, <2>1, <2>2, <3>1 DEF ReadIsCurrent, ListIsCurrent, Ordering
  <2>3. CASE i \notin cart
    <3>1. i.id = 0 /\ i.qty = 0 /\ ~ \E x \in cart : x.cust = c /\ x.prod = p
      BY <1>2, <2>3
    <3> QED BY <1>1, <1>4, <1>5, <2>1, <3>1 DEF ReadIsCurrent, ListIsCurrent, Ordering
  <2> QED BY <2>2, <2>3
<1>7. /\ thread' = [thread EXCEPT ![h] = r] /\ r.cust = c
      /\ \A d, s : ~DoneBy(r, d, s) /\ ~DoneBy(thread[h], d, s)
  BY <1>2, <1>5, FreeIsCalm DEF DoneBy, Ordering
<1> HIDE DEF r, j
<1>8. CalmInv'
  BY <1>5, <1>6, <1>7, BeginsAlone, RequestKeepsCalm
<1>9. AccountInv'
  BY <1>5, <1>7, BeginsAlone, RequestKeepsAccount
<1> QED BY <1>8, <1>9 DEF CalmStep

LEMMA SubmitIsCalm ==
  ASSUME TypeInv, CalmInv, AccountInv, NEW h \in Threads, NEW q \in Quantities, Submit(h, q)
  PROVE  CalmStep
<1> DEFINE r == [op |-> "order", cust |-> None, n |-> 0,
                 items |-> <<[id |-> 0, cust |-> None, prod |-> None, qty |-> q]>>]
<1>1. /\ thread[h] = Free /\ thread' = [thread EXCEPT ![h] = r]
      /\ UNCHANGED <<cart, orders, asked, overlapped, halted>>
  BY DEF Submit, carts
<1>2. r.op = "order" /\ r.cust = None /\ None \notin Customers
  BY AmazonStorefrontAssumption
<1> HIDE DEF r
<1>3. ReadIsCurrent(r)' /\ ListIsCurrent(r)'
  BY <1>2 DEF ReadIsCurrent, ListIsCurrent
<1>4. \A c, p : c \in Customers => ~DoneBy(r, c, p) /\ ~DoneBy(thread[h], c, p)
  BY <1>1, <1>2, FreeIsCalm DEF DoneBy
<1>5. CalmInv'
  BY <1>1, <1>2, <1>3, RequestKeepsCalm
<1>6. AccountInv'
  BY <1>1, <1>4, RequestKeepsAccount
<1> QED BY <1>5, <1>6 DEF CalmStep

LEMMA CheckoutIsCalm ==
  ASSUME TypeInv, CalmInv, AccountInv, NEW h \in Threads, NEW c \in Customers, Checkout(h, c)
  PROVE  CalmStep
<1> DEFINE items == {x \in cart : x.cust = c}
<1>1. PICK s \in NewestFirst(items) :
        thread' = [thread EXCEPT ![h] = [op |-> "order", cust |-> c, n |-> 0, items |-> s]]
  BY DEF Checkout
<1> DEFINE r == [op |-> "order", cust |-> c, n |-> 0, items |-> s]
<1>2. /\ thread[h] = Free /\ Begins(c) /\ UNCHANGED <<cart, nextItem, orders, asked, halted>>
  BY DEF Checkout, carts
<1>3. /\ \A k \in DOMAIN s : s[k] \in cart /\ s[k].cust = c
      /\ \A x \in cart : x.cust = c => \E k \in DOMAIN s : s[k] = x
      /\ \A j, k \in DOMAIN s : s[j] = s[k] => j = k
  <2>1. IsFiniteSet(items) /\ items \subseteq Item
    BY FS_Subset DEF TypeInv, TypeOK, CartInv
  <2>2. \A x : x \in items <=> x \in cart /\ x.cust = c
    OBVIOUS
  <2> HIDE DEF items
  <2> QED BY <2>1, <2>2, ListIsComplete
<1>4. r.op = "order" /\ r.cust = c /\ r.items = s /\ thread' = [thread EXCEPT ![h] = r]
  BY <1>1
<1> HIDE DEF r, items
<1>5. ReadIsCurrent(r)'
  BY <1>4 DEF ReadIsCurrent
<1>6. ListIsCurrent(r)'
  <2>1. c \notin overlapped' => \A x, y \in cart : x.cust = c /\ y.cust = c /\ x.prod = y.prod => x = y
    BY <1>2, BeginsAlone DEF CalmInv, OneRow
  <2> QED BY <1>2, <1>3, <1>4, <2>1 DEF ListIsCurrent
<1>7. CalmInv'
  BY <1>2, <1>4, <1>5, <1>6, BeginsAlone, RequestKeepsCalm
<1>8. ASSUME NEW d \in Customers \ overlapped', NEW p \in Products
      PROVE  Held(d, p)' = Held(d, p)
  <2>1. \A g \in Threads : thread'[g] = IF g = h THEN r ELSE thread[g]
    BY <1>4, ThreadTypes
  <2>2. CASE d # c
    <3>1. ~DoneBy(r, d, p) /\ ~DoneBy(thread[h], d, p)
      BY <1>2, <1>4, <2>2, FreeIsCalm DEF DoneBy
    <3>2. Done(d, p)' <=> Done(d, p)
      BY <2>1, <3>1 DEF Done, DoneBy, Ordering
    <3> QED BY <1>2, <3>2 DEF Held
  <2>3. CASE d = c
    <3>1. ~Done(c, p)
      BY <1>8, <1>2, <2>3, BeginsAlone DEF Done, DoneBy
    <3>2. CASE \E k \in DOMAIN s : s[k].prod = p
      <4>1. ~Done(c, p)'
        BY <1>2, <1>4, <1>8, <2>1, <2>3, <3>2, BeginsAlone DEF Done, DoneBy
      <4> QED BY <1>2, <2>3, <3>1, <4>1 DEF Held
    <3>3. CASE \A k \in DOMAIN s : s[k].prod # p
      <4>1. Total(cart, c, p) = 0
        BY <1>3, <3>3, TotalOfNone
      <4> QED BY <1>2, <2>3, <3>1, <4>1, Totals DEF Held
    <3> QED BY <3>2, <3>3
  <2> QED BY <2>2, <2>3
<1>9. AccountInv'
  BY <1>2, <1>8, BeginsAlone, SameHeld
<1> QED BY <1>7, <1>9 DEF CalmStep

\* Done, before and after one thread has a new request.
LEMMA DoneByOne ==
  ASSUME NEW h \in Threads, NEW r, NEW c, NEW p,
         \A g \in Threads : thread'[g] = IF g = h THEN r ELSE thread[g]
  PROVE  /\ Done(c, p) <=> DoneBy(thread[h], c, p)
                           \/ \E g \in Threads : g # h /\ DoneBy(thread[g], c, p)
         /\ Done(c, p)' <=> DoneBy(r, c, p)
                           \/ \E g \in Threads : g # h /\ DoneBy(thread[g], c, p)
<1>1. Done(c, p) <=> DoneBy(thread[h], c, p)
                     \/ \E g \in Threads : g # h /\ DoneBy(thread[g], c, p)
  BY DEF Done
<1>2. Done(c, p)' <=> DoneBy(r, c, p)
                     \/ \E g \in Threads : g # h /\ DoneBy(thread[g], c, p)
  BY DEF Done, DoneBy, Ordering
<1> QED BY <1>1, <1>2

LEMMA EndAddIsCalm ==
  ASSUME TypeInv, CalmInv, AccountInv, NEW h \in Threads, EndAdd(h)
  PROVE  CalmStep
<1> DEFINE i == thread[h].items[1]
           new == [i EXCEPT !.id = nextItem]
           c == thread[h].cust
           n == thread[h].n
<1>1. /\ i \in Item /\ i.cust = c /\ c \in Customers /\ i.prod \in Products
      /\ i.id \in 0..(nextItem - 1)
      /\ \/ /\ i.id # 0 /\ \A x \in cart : x.id # i.id
            /\ UNCHANGED <<cart, nextItem, asked>>
         \/ /\ i.id = 0 /\ new \in Item /\ new \notin cart
            /\ new.id = nextItem /\ new.cust = i.cust /\ new.prod = i.prod /\ new.qty = i.qty
            /\ cart' = cart \cup {new} /\ nextItem' = nextItem + 1
            /\ asked' = [asked EXCEPT ![i.cust][i.prod] = @ + thread[h].n]
         \/ /\ nextItem' = nextItem
            /\ asked' = [asked EXCEPT ![i.cust][i.prod] = @ + thread[h].n]
            /\ \E x \in cart : /\ x.id = i.id /\ x.cust = i.cust /\ x.prod = i.prod
                               /\ i \notin cart \ {x}
                               /\ cart' = (cart \ {x}) \cup {i}
  BY EndAddCases
<1>2. /\ thread' = [thread EXCEPT ![h] = Free] /\ thread[h].op = "add"
      /\ UNCHANGED <<orders, overlapped, halted>>
  BY DEF EndAdd
<1>3. /\ \A g \in Threads : thread'[g] = IF g = h THEN Free ELSE thread[g]
      /\ n \in Nat
  BY <1>2, ThreadTypes, FreeIsSound DEF Request
<1>4. ReadIsCurrent(thread[h])
  BY DEF CalmInv
<1>5. c \notin overlapped => \A g \in Threads : g # h => thread[g].cust # c
  BY <1>1 DEF CalmInv, OneRequest
<1> HIDE DEF new
<1>6. CalmInv'
  <2>1. \A x : x.cust # c => (x \in cart' <=> x \in cart)
    BY <1>1
  <2>2. c \in overlapped' \/ \A g \in Threads : thread'[g].cust # c
    BY <1>1, <1>2, <1>3, <1>5, FreeIsSound, AmazonStorefrontAssumption
  <2>3. c \notin overlapped' =>
          \A x, y \in cart' : x.cust = c /\ y.cust = c /\ x.prod = y.prod => x = y
    <3> SUFFICES ASSUME c \notin overlapped
                 PROVE  \A x, y \in cart' : x.cust = c /\ y.cust = c /\ x.prod = y.prod => x = y
      BY <1>2
    <3>1. \A x, y \in cart : x.cust = c /\ y.cust = c /\ x.prod = y.prod => x = y
      BY DEF CalmInv, OneRow
    <3>2. i.id = 0 => \A x \in cart : ~(x.cust = c /\ x.prod = i.prod)
      BY <1>2, <1>4 DEF ReadIsCurrent
    <3> HIDE DEF c, i
    <3> QED BY <1>1, <3>1, <3>2
  <2>4. c \in Customers /\ overlapped \subseteq overlapped'
    BY <1>1, <1>2
  <2>5. \A g \in Threads : thread'[g] = thread[g] \/ thread'[g] = Free
    BY <1>3
  <2> HIDE DEF c
  <2> QED BY <2>1, <2>2, <2>3, <2>4, <2>5, CartKeepsCalm
<1>7. ASSUME NEW d \in Customers \ overlapped', NEW p \in Products
      PROVE  /\ Total(cart', d, p) = Total(cart, d, p) + (IF d = c /\ p = i.prod THEN n ELSE 0)
             /\ asked'[d][p] = asked[d][p] + (IF d = c /\ p = i.prod THEN n ELSE 0)
             /\ Done(d, p)' <=> Done(d, p)
             /\ d = c => ~Done(d, p)
             /\ asked[d][p] \in Int
  <2>1. asked \in [Customers -> [Products -> Int]] /\ IsFiniteSet(cart) /\ cart \subseteq Item
    BY DEF TypeInv, TypeOK, CartInv
  <2>2. Done(d, p)' <=> Done(d, p)
    <3>1. ~DoneBy(thread[h], d, p) /\ ~DoneBy(Free, d, p)
      BY <1>2, FreeIsCalm DEF DoneBy, Ordering
    <3> QED BY <1>3, <3>1, DoneByOne
  <2>3. d = c => ~Done(d, p)
    BY <1>2, <1>5 DEF Done, DoneBy, Ordering
  <2>4. CASE d # c
    <3>1. RowsOf(cart', d, p) = RowsOf(cart, d, p)
      BY <1>1, <2>4 DEF RowsOf
    <3>2. asked'[d][p] = asked[d][p]
      BY <1>1, <2>1, <2>4
    <3> HIDE DEF c, i, n
    <3> QED BY <2>1, <2>2, <2>4, <3>1, <3>2, TotalOfSame, TotalType
  <2>5. CASE d = c
    <3>1. c \notin overlapped
      BY <1>2, <2>5
    <3>2. IF i.id = 0 THEN i.qty = n ELSE \E x \in cart : x.id = i.id /\ i.qty = x.qty + n
      BY <1>2, <1>4, <3>1 DEF ReadIsCurrent
    <3>3. asked'[d][p] = asked[d][p] + (IF d = c /\ p = i.prod THEN n ELSE 0)
      <4>1. asked' = [asked EXCEPT ![c][i.prod] = @ + n]
        BY <1>1, <3>2 DEF TypeInv, CartInv
      <4> HIDE DEF c, i, n
      <4> QED BY <1>3, <2>1, <2>5, <4>1
    <3>4. Total(cart', d, p) = Total(cart, d, p) + (IF d = c /\ p = i.prod THEN n ELSE 0)
      <4>1. CASE i.id = 0
        <5>1. /\ cart' = cart \cup {new} /\ new \in Item /\ new \notin cart
              /\ new.cust = c /\ new.prod = i.prod /\ new.qty = n
          BY <1>1, <3>2, <4>1 DEF TypeInv, CartInv
        <5> HIDE DEF c, i, n
        <5>2. Total(cart \cup {new}, d, p) =
                Total(cart, d, p) + (IF new.cust = d /\ new.prod = p THEN new.qty ELSE 0)
          BY <2>1, <5>1, TotalOfMore
        <5> QED BY <2>5, <5>1, <5>2
      <4>2. CASE i.id # 0
        <5>1. PICK x \in cart : /\ x.id = i.id /\ x.cust = c /\ x.prod = i.prod
                                /\ i \notin cart \ {x}
                                /\ cart' = (cart \ {x}) \cup {i}
          BY <1>1, <3>2, <4>2
        <5>2. i.qty = x.qty + n
          BY <3>2, <4>2, <5>1 DEF TypeInv, CartInv
        <5>3. i \in Item /\ i.cust = c /\ n \in Nat /\ x.qty \in Nat
          BY <1>1, <1>3, <2>1 DEF Item
        <5> DEFINE R == cart \ {x}
        <5>4. IsFiniteSet(R) /\ R \subseteq Item
          BY <2>1, FS_Subset
        <5> HIDE DEF c, i, n
        <5>5. Total(cart, d, p) = Total(R, d, p) + (IF x.cust = d /\ x.prod = p THEN x.qty ELSE 0)
          BY <2>1, TotalOfLess
        <5>6. i \notin R /\ cart' = R \cup {i}
          BY <5>1
        <5> HIDE DEF R
        <5>7. Total(R \cup {i}, d, p) =
                Total(R, d, p) + (IF i.cust = d /\ i.prod = p THEN i.qty ELSE 0)
          BY <5>3, <5>4, <5>6, TotalOfMore
        <5>8. Total(R, d, p) \in Nat
          BY <5>4, TotalType
        <5> QED BY <2>5, <5>1, <5>2, <5>3, <5>5, <5>6, <5>7, <5>8
      <4> QED BY <4>1, <4>2
    <3> HIDE DEF c, i, n
    <3> QED BY <2>1, <2>2, <2>3, <3>3, <3>4
  <2> QED BY <2>4, <2>5
<1>8. AccountInv'
  <2> SUFFICES ASSUME NEW d \in Customers \ overlapped', NEW p \in Products
               PROVE  /\ asked'[d][p] <= Held(d, p)'
                      /\ d \notin halted => Held(d, p)' <= asked'[d][p]
    BY <1>2 DEF AccountInv
  <2>1. asked[d][p] <= Held(d, p) /\ (d \notin halted => Held(d, p) <= asked[d][p])
    BY <1>2 DEF AccountInv
  <2>2. Held(d, p)' = (IF Done(d, p)' THEN 0 ELSE Total(cart', d, p)) + Total(orders, d, p)
    BY <1>2 DEF Held
  <2>3. Held(d, p) = (IF Done(d, p) THEN 0 ELSE Total(cart, d, p)) + Total(orders, d, p)
    BY DEF Held
  <2>4. Total(cart, d, p) \in Nat /\ Total(orders, d, p) \in Nat
    BY Totals
  <2> HIDE DEF c, i, n
  <2> QED BY <1>3, <1>7, <2>1, <2>2, <2>3, <2>4
<1> QED BY <1>6, <1>8 DEF CalmStep

LEMMA RemoveIsCalm ==
  ASSUME TypeInv, CalmInv, AccountInv, NEW i \in cart, RemoveItem(i)
  PROVE  CalmStep
<1>1. /\ i.cust \in Customers /\ i.prod \in Products /\ i.qty \in Nat
      /\ asked \in [Customers -> [Products -> Int]] /\ IsFiniteSet(cart) /\ cart \subseteq Item
  BY DEF TypeInv, TypeOK, CartInv, Item
<1>2. /\ cart' = cart \ {i} /\ Begins(i.cust)
      /\ asked' = [asked EXCEPT ![i.cust][i.prod] = @ - i.qty]
      /\ UNCHANGED <<orders, thread, halted>>
  BY DEF RemoveItem
<1>3. /\ overlapped \subseteq overlapped'
      /\ i.cust \notin overlapped' => \A g \in Threads : thread[g].cust # i.cust
  BY <1>1, <1>2, BeginsAlone
<1>4. CalmInv'
  <2>1. \A x : x.cust # i.cust => (x \in cart' <=> x \in cart)
    BY <1>2
  <2>2. i.cust \notin overlapped' =>
          \A x, y \in cart' : x.cust = i.cust /\ y.cust = i.cust /\ x.prod = y.prod => x = y
    BY <1>2, <1>3 DEF CalmInv, OneRow
  <2> QED BY <1>1, <1>2, <1>3, <2>1, <2>2, CartKeepsCalm
<1>5. AccountInv'
  <2> SUFFICES ASSUME NEW d \in Customers \ overlapped', NEW p \in Products
               PROVE  /\ asked'[d][p] <= Held(d, p)'
                      /\ d \notin halted => Held(d, p)' <= asked'[d][p]
    BY <1>2 DEF AccountInv
  <2> DEFINE q == IF i.cust = d /\ i.prod = p THEN i.qty ELSE 0
  <2>1. asked[d][p] <= Held(d, p) /\ (d \notin halted => Held(d, p) <= asked[d][p])
    BY <1>3 DEF AccountInv
  <2>2. asked'[d][p] = asked[d][p] - q /\ asked[d][p] \in Int
    BY <1>1, <1>2
  <2>3. Total(cart, d, p) = Total(cart', d, p) + q
    BY <1>1, <1>2, TotalOfLess
  <2>4. Total(cart', d, p) \in Nat /\ Total(orders, d, p) \in Nat
    BY <1>1, <1>2, FS_Subset, TotalType, Totals
  <2>5. (Done(d, p)' <=> Done(d, p)) /\ (d = i.cust => ~Done(d, p))
    BY <1>2, <1>3 DEF Done, DoneBy, Ordering
  <2>6. q \in Nat /\ (d # i.cust => q = 0)
    BY <1>1
  <2>7. Held(d, p)' = (IF Done(d, p)' THEN 0 ELSE Total(cart', d, p)) + Total(orders, d, p)
    BY <1>2 DEF Held
  <2>8. Held(d, p) = (IF Done(d, p) THEN 0 ELSE Total(cart, d, p)) + Total(orders, d, p)
    BY DEF Held
  <2> HIDE DEF q
  <2> QED BY <2>1, <2>2, <2>3, <2>4, <2>5, <2>6, <2>7, <2>8
<1> QED BY <1>4, <1>5 DEF CalmStep

\* A request that breaks off: what it had ordered may be ordered again.
LEMMA FailIsCalm ==
  ASSUME TypeInv, CalmInv, AccountInv, NEW h \in Threads, Fail(h),
         UNCHANGED <<orders, cart, asked, overlapped>>
  PROVE  CalmStep
<1>1. /\ thread' = [thread EXCEPT ![h] = Free]
      /\ halted' = IF thread[h].op = "add" THEN halted ELSE halted \cup ({thread[h].cust} \ {None})
  BY DEF Fail
<1>2. CalmInv'
  <2>1. ReadIsCurrent(Free)' /\ ListIsCurrent(Free)' /\ Free.cust \notin Customers
    BY AmazonStorefrontAssumption DEF Free, ReadIsCurrent, ListIsCurrent, Ordering
  <2> QED BY <1>1, <2>1, RequestKeepsCalm
<1>3. AccountInv'
  <2> SUFFICES ASSUME NEW d \in Customers \ overlapped, NEW p \in Products
               PROVE  /\ asked[d][p] <= Held(d, p)'
                      /\ d \notin halted' => Held(d, p)' <= asked[d][p]
    BY DEF AccountInv
  <2>1. /\ asked[d][p] <= Held(d, p) /\ (d \notin halted => Held(d, p) <= asked[d][p])
        /\ asked[d][p] \in Int
    BY DEF AccountInv, TypeInv, TypeOK
  <2>2. \A g \in Threads : thread'[g] = IF g = h THEN Free ELSE thread[g]
    BY <1>1, ThreadTypes
  <2>3. Done(d, p)' => Done(d, p)
    BY <2>2, FreeIsCalm, DoneByOne
  <2>4. d \notin halted' => (Done(d, p)' <=> Done(d, p)) /\ d \notin halted
    <3>1. d # None
      BY AmazonStorefrontAssumption
    <3>2. d \notin halted' => ~DoneBy(thread[h], d, p) /\ d \notin halted
      BY <1>1, <3>1 DEF DoneBy, Ordering
    <3>3. Done(d, p)' <=> DoneBy(Free, d, p)
                          \/ \E g \in Threads : g # h /\ DoneBy(thread[g], d, p)
      BY <2>2, DoneByOne
    <3>4. Done(d, p) <=> DoneBy(thread[h], d, p)
                         \/ \E g \in Threads : g # h /\ DoneBy(thread[g], d, p)
      BY <2>2, DoneByOne
    <3> QED BY <3>2, <3>3, <3>4, FreeIsCalm
  <2>5. Held(d, p)' = (IF Done(d, p)' THEN 0 ELSE Total(cart, d, p)) + Total(orders, d, p)
    BY DEF Held
  <2>6. Held(d, p) = (IF Done(d, p) THEN 0 ELSE Total(cart, d, p)) + Total(orders, d, p)
    BY DEF Held
  <2> QED BY <2>1, <2>3, <2>4, <2>5, <2>6, Totals
<1> QED BY <1>2, <1>3 DEF CalmStep

LEMMA StepIsCalm ==
  ASSUME TypeInv, CalmInv, AccountInv, NEW h \in Threads, ReadCounter(h) \/ Reserve(h)
  PROVE  CalmStep
<1> DEFINE t == thread[h]
<1>1. Ordering(t) /\ t \in Request /\ UNCHANGED <<cart, orders, asked, overlapped, halted>>
  BY ThreadTypes DEF ReadCounter, Reserve, Ordering, carts
<1>2. PICK r : /\ thread' = [thread EXCEPT ![h] = r]
               /\ Ordering(r) /\ r.op # "add" /\ r.cust = t.cust /\ r.items = t.items
  <2>1. CASE ReadCounter(h)
    <3> DEFINE r == [t EXCEPT !.op = "reserve", !.n = counter]
    <3>1. thread' = [thread EXCEPT ![h] = r]
      BY <2>1, ThreadTypes DEF ReadCounter, Request
    <3>2. Ordering(r) /\ r.op # "add" /\ r.cust = t.cust /\ r.items = t.items
      BY <1>1 DEF Request, Ordering
    <3> QED BY <3>1, <3>2
  <2>2. CASE Reserve(h)
    <3> DEFINE r == [t EXCEPT !.op = "commit"]
    <3>1. thread' = [thread EXCEPT ![h] = r]
      BY <2>2, ThreadTypes DEF Reserve, Request
    <3>2. Ordering(r) /\ r.op # "add" /\ r.cust = t.cust /\ r.items = t.items
      BY <1>1 DEF Request, Ordering
    <3> QED BY <3>1, <3>2
  <2> QED BY <2>1, <2>2
<1>3. ReadIsCurrent(r)' /\ ListIsCurrent(r)'
  BY <1>1, <1>2 DEF ReadIsCurrent, ListIsCurrent, Ordering, CalmInv
<1>4. r.cust \in Customers \ overlapped' => \A g \in Threads : g # h => thread[g].cust # r.cust
  BY <1>1, <1>2 DEF CalmInv, OneRequest
<1>5. \A c, p : DoneBy(r, c, p) <=> DoneBy(t, c, p)
  BY <1>1, <1>2 DEF DoneBy
<1>6. CalmInv'
  BY <1>1, <1>2, <1>3, <1>4, RequestKeepsCalm
<1>7. AccountInv'
  BY <1>1, <1>2, <1>5, RequestKeepsAccount
<1> QED BY <1>6, <1>7 DEF CalmStep

LEMMA ClearIsCalm ==
  ASSUME TypeInv, CalmInv, AccountInv, NEW h \in Threads, ClearCart(h)
  PROVE  CalmStep
<1> DEFINE c == thread[h].cust
<1>1. /\ thread[h].op = "clear" /\ thread' = [thread EXCEPT ![h] = Free]
      /\ cart' = {x \in cart : x.cust # c} /\ UNCHANGED <<orders, asked, overlapped, halted>>
  BY DEF ClearCart
<1>2. c \in Customers /\ thread[h].items = <<>>
  BY <1>1 DEF TypeInv, RequestInv, Sound
<1>3. \A g \in Threads : thread'[g] = IF g = h THEN Free ELSE thread[g]
  BY <1>1, ThreadTypes
<1>4. c \notin overlapped => \A g \in Threads : g # h => thread[g].cust # c
  BY <1>2 DEF CalmInv, OneRequest
<1>5. CalmInv'
  <2>1. c \in overlapped' \/ \A g \in Threads : thread'[g].cust # c
    BY <1>1, <1>2, <1>3, <1>4, FreeIsSound, AmazonStorefrontAssumption
  <2>2. /\ \A x : x.cust # c => (x \in cart' <=> x \in cart)
        /\ \A x \in cart' : x.cust # c
    BY <1>1
  <2> HIDE DEF c
  <2> QED BY <1>1, <1>2, <1>3, <2>1, <2>2, CartKeepsCalm
<1>6. ASSUME NEW d \in Customers \ overlapped', NEW p \in Products
      PROVE  Held(d, p)' = Held(d, p)
  <2>1. Held(d, p)' = (IF Done(d, p)' THEN 0 ELSE Total(cart', d, p)) + Total(orders, d, p)
    BY <1>1 DEF Held
  <2>2. Held(d, p) = (IF Done(d, p) THEN 0 ELSE Total(cart, d, p)) + Total(orders, d, p)
    BY DEF Held
  <2>3. CASE d = c
    <3>1. Done(d, p)
      BY <1>1, <1>2, <2>3 DEF Done, DoneBy
    <3>2. Total(cart', d, p) = 0
      BY <1>1, <2>3, TotalOfNone
    <3> QED BY <2>1, <2>2, <3>1, <3>2, Totals
  <2>4. CASE d # c
    <3>1. RowsOf(cart', d, p) = RowsOf(cart, d, p)
      BY <1>1, <2>4 DEF RowsOf
    <3>2. Total(cart', d, p) = Total(cart, d, p)
      BY <3>1, TotalOfSame
    <3>3. Done(d, p)' <=> Done(d, p)
      <4>1. ~DoneBy(thread[h], d, p)
        BY <2>4 DEF DoneBy
      <4>2. Done(d, p)' <=> DoneBy(Free, d, p)
                            \/ \E g \in Threads : g # h /\ DoneBy(thread[g], d, p)
        BY <1>3, DoneByOne
      <4>3. Done(d, p) <=> DoneBy(thread[h], d, p)
                           \/ \E g \in Threads : g # h /\ DoneBy(thread[g], d, p)
        BY <1>3, DoneByOne
      <4> QED BY <4>1, <4>2, <4>3, FreeIsCalm
    <3> QED BY <2>1, <2>2, <3>2, <3>3
  <2> QED BY <2>3, <2>4
<1>7. AccountInv'
  BY <1>1, <1>6, SameHeld
<1> QED BY <1>5, <1>7 DEF CalmStep

\* An item that is ordered moves from the cart to the orders of its customer.
LEMMA PlaceIsCalm ==
  ASSUME TypeInv, CalmInv, AccountInv, NEW h \in Threads, Place(h)
  PROVE  CalmStep
<1> DEFINE t == thread[h]
           i == Head(t.items)
           rest == Tail(t.items)
           new == [id |-> t.n, cust |-> i.cust, prod |-> i.prod, qty |-> i.qty]
           left == IF rest = <<>> /\ t.cust = None THEN Free
                   ELSE [op |-> IF rest = <<>> THEN "clear" ELSE "order",
                         cust |-> t.cust, items |-> rest, n |-> t.n]
<1>1. /\ t.op = "commit" /\ t \in Request
      /\ i = t.items[1] /\ i \in Item /\ i.cust = t.cust /\ 1 \in DOMAIN t.items
      /\ new \in Item /\ new \notin orders
      /\ new.cust = i.cust /\ new.prod = i.prod /\ new.qty = i.qty
      /\ orders' = orders \cup {new}
      /\ rest \in Seq(Item)
      /\ \A k \in DOMAIN rest : k + 1 \in DOMAIN t.items /\ rest[k] = t.items[k + 1]
      /\ \A k \in DOMAIN t.items : k # 1 => k - 1 \in DOMAIN rest
      /\ thread' = [thread EXCEPT ![h] = left]
  BY PlaceParts
<1>2. UNCHANGED <<cart, nextItem, asked, overlapped, halted>>
  BY DEF Place, carts
<1>3. \A k \in DOMAIN rest : k \in Nat \ {0}
  BY <1>1
<1>4. ListIsCurrent(t) /\ Ordering(t)
  BY <1>1 DEF CalmInv, Ordering
<1>5. t.cust \in Customers \ overlapped => \A g \in Threads : g # h => thread[g].cust # t.cust
  BY DEF CalmInv, OneRequest
<1> HIDE DEF i, rest, new
<1>6. PICK r : r = left
  OBVIOUS
<1>7. /\ r.op # "add"
      /\ t.cust \in Customers => /\ r.cust = t.cust /\ r.items = rest
                                 /\ Ordering(r) \/ r.op = "clear"
      /\ t.cust \notin Customers => r.cust = None
      /\ r.cust \in Customers => r.cust = t.cust
  <2>1. t.cust \in Customers \cup {None}
    BY <1>1 DEF Request
  <2> QED BY <1>6, <2>1, AmazonStorefrontAssumption DEF Free, Ordering
<1>8. \A g \in Threads : thread'[g] = IF g = h THEN r ELSE thread[g]
  BY <1>1, <1>6, ThreadTypes
<1>9. thread' = [thread EXCEPT ![h] = r]
  BY <1>1, <1>6
<1> HIDE DEF left
<1>10. CalmInv'
  <2>1. ReadIsCurrent(r)'
    BY <1>7 DEF ReadIsCurrent
  <2>2. ListIsCurrent(r)'
    <3> SUFFICES ASSUME r.cust \in Customers \ overlapped
                 PROVE  /\ \A k \in DOMAIN r.items : r.items[k] \in cart
                        /\ \A j, k \in DOMAIN r.items : r.items[j].prod = r.items[k].prod => j = k
      BY <1>2 DEF ListIsCurrent
    <3>1. r.items = rest /\ t.cust \in Customers \ overlapped
      BY <1>7
    <3>2. /\ \A k \in DOMAIN t.items : t.items[k] \in cart
          /\ \A j, k \in DOMAIN t.items : t.items[j].prod = t.items[k].prod => j = k
      BY <1>4, <3>1 DEF ListIsCurrent
    <3> HIDE DEF t
    <3> QED BY <1>1, <1>3, <3>1, <3>2
  <2>3. r.cust \in Customers \ overlapped' => \A g \in Threads : g # h => thread[g].cust # r.cust
    BY <1>2, <1>5, <1>7
  <2> QED BY <1>2, <1>9, <2>1, <2>2, <2>3, RequestKeepsCalm
<1>11. ASSUME NEW d \in Customers \ overlapped', NEW p \in Products
      PROVE  Held(d, p)' = Held(d, p)
  <2>1. IsFiniteSet(orders) /\ orders \subseteq Item
    BY DEF TypeInv, TypeOK, CartInv
  <2>2. Total(orders', d, p) =
          Total(orders, d, p) + (IF new.cust = d /\ new.prod = p THEN new.qty ELSE 0)
    <3>1. new \in Item /\ new \notin orders /\ orders' = orders \cup {new}
      BY <1>1
    <3>2. Total(orders \cup {new}, d, p) =
            Total(orders, d, p) + (IF new.cust = d /\ new.prod = p THEN new.qty ELSE 0)
      BY <2>1, <3>1, TotalOfMore
    <3> QED BY <3>1, <3>2
  <2>3. Total(cart, d, p) \in Nat /\ Total(orders, d, p) \in Nat
    BY Totals
  <2>4. Held(d, p)' = (IF Done(d, p)' THEN 0 ELSE Total(cart, d, p)) + Total(orders', d, p)
    BY <1>2 DEF Held
  <2>5. Held(d, p) = (IF Done(d, p) THEN 0 ELSE Total(cart, d, p)) + Total(orders, d, p)
    BY DEF Held
  <2>6. CASE d # t.cust
    <3>1. ~DoneBy(r, d, p) /\ ~DoneBy(t, d, p)
      BY <1>7, <2>6 DEF DoneBy
    <3>2. Done(d, p)' <=> Done(d, p)
      BY <1>8, <3>1, DoneByOne
    <3> QED BY <1>1, <2>2, <2>3, <2>4, <2>5, <2>6, <3>2
  <2>7. CASE d = t.cust
    <3>1. d \notin overlapped /\ (\A g \in Threads : g # h => thread[g].cust # d)
      BY <1>2, <1>5, <2>7
    <3>2. /\ \A k \in DOMAIN t.items : t.items[k] \in cart
          /\ \A j, k \in DOMAIN t.items : t.items[j].prod = t.items[k].prod => j = k
      BY <1>4, <2>7, <3>1 DEF ListIsCurrent
    <3>3. Done(d, p) <=> \A k \in DOMAIN t.items : t.items[k].prod # p
      BY <1>4, <2>7, <3>1 DEF Done, DoneBy
    <3>4. Done(d, p)' <=> \A k \in DOMAIN rest : rest[k].prod # p
      <4>1. r.cust = d /\ r.items = rest /\ (Ordering(r) \/ r.op = "clear")
        BY <1>7, <2>7
      <4>2. DoneBy(r, d, p) <=> \A k \in DOMAIN rest : rest[k].prod # p
        BY <4>1 DEF DoneBy
      <4>3. \A g \in Threads : g # h => ~DoneBy(thread[g], d, p)
        BY <3>1 DEF DoneBy
      <4> QED BY <1>8, <4>2, <4>3, DoneByOne
    <3>5. CASE p = i.prod
      <4>1. ~Done(d, p)
        BY <1>1, <3>3, <3>5
      <4>2. \A k \in DOMAIN rest : rest[k].prod # p
        <5> SUFFICES ASSUME NEW k \in DOMAIN rest, rest[k].prod = p PROVE FALSE
          OBVIOUS
        <5>1. k + 1 \in DOMAIN t.items /\ 1 \in DOMAIN t.items /\ k + 1 # 1
          BY <1>1, <1>3
        <5>2. t.items[k + 1].prod = t.items[1].prod
          BY <1>1, <3>5
        <5> QED BY <3>2, <5>1, <5>2
      <4>3. i \in cart /\ i.cust = d
        BY <1>1, <2>7, <3>2
      <4>4. Total(cart, d, p) = i.qty
        <5>1. \A x \in cart : x.cust = d /\ x.prod = p => x = i
          BY <3>1, <3>5, <4>3 DEF CalmInv, OneRow
        <5>2. IsFiniteSet(cart) /\ cart \subseteq Item
          BY DEF TypeInv, TypeOK, CartInv
        <5>3. Total(cart, d, p) = Total(cart \ {i}, d, p) + (IF i.cust = d /\ i.prod = p THEN i.qty ELSE 0)
          BY <4>3, <5>2, TotalOfLess
        <5>4. Total(cart \ {i}, d, p) = 0
          BY <5>1, TotalOfNone
        <5>5. i.qty \in Nat
          BY <1>1 DEF Item
        <5> QED BY <3>5, <4>3, <5>3, <5>4, <5>5
      <4> QED BY <1>1, <2>2, <2>3, <2>4, <2>5, <3>4, <3>5, <4>1, <4>2, <4>3, <4>4
    <3>6. CASE p # i.prod
      <4>1. Done(d, p)' <=> Done(d, p)
        <5>1. ASSUME NEW k \in DOMAIN t.items, t.items[k].prod = p
              PROVE  \E j \in DOMAIN rest : rest[j].prod = p
          <6>1. k # 1 /\ k \in Nat
            BY <1>1, <3>6, <5>1 DEF Request
          <6>2. k - 1 \in DOMAIN rest /\ rest[k - 1] = t.items[(k - 1) + 1]
            BY <1>1, <6>1
          <6> QED BY <5>1, <6>1, <6>2
        <5>2. ASSUME NEW k \in DOMAIN rest, rest[k].prod = p
              PROVE  \E j \in DOMAIN t.items : t.items[j].prod = p
          BY <1>1, <5>2
        <5> QED BY <3>3, <3>4, <5>1, <5>2
      <4> QED BY <1>1, <2>2, <2>3, <2>4, <2>5, <3>6, <4>1
    <3> QED BY <3>5, <3>6
  <2> QED BY <2>6, <2>7
<1>12. AccountInv'
  BY <1>2, <1>11, SameHeld
<1> QED BY <1>10, <1>12 DEF CalmStep

CartsInv == TypeInv /\ CalmInv /\ AccountInv

LEMMA InitCarts == Init => CartsInv
BY InitTypeInv, InitCalm DEF CartsInv

LEMMA NextKeepsCarts == CartsInv /\ [Next]_vars => CartsInv'
<1> SUFFICES ASSUME TypeInv, CalmInv, AccountInv, [Next]_vars PROVE CalmStep
  BY NextKeepsTypes DEF CartsInv, CalmStep
<1>1. CASE UNCHANGED vars
  BY <1>1 DEF vars, carts, CalmStep, CalmInv, OneRequest, OneRow, ReadIsCurrent, ListIsCurrent,
     Ordering, AccountInv, Held, Done, DoneBy
<1>2. ASSUME NEW h \in Threads, TooMany(h) \/ Clash(h) \/ Die(h) PROVE CalmStep
  <2>1. Fail(h) /\ UNCHANGED <<orders, cart, asked, overlapped>>
    BY <1>2 DEF TooMany, Clash, Die, carts
  <2> QED BY <2>1, FailIsCalm
<1> QED
  BY <1>1, <1>2, BeginAddIsCalm, SubmitIsCalm, CheckoutIsCalm, StepIsCalm, EndAddIsCalm,
     RemoveIsCalm, ClearIsCalm, PlaceIsCalm DEF Next, Continue

\* Nothing that a customer has put into the cart disappears before it is
\* ordered, whatever requests fail and wherever they die, as long as the
\* customer makes one request at a time (NothingLost).
THEOREM NothingLostHolds == Spec => []NothingLost
<1>1. CartsInv => NothingLost
  <2> SUFFICES ASSUME CartsInv, NEW c \in Customers \ overlapped, NEW p \in Products
               PROVE  asked[c][p] <= Total(cart, c, p) + Total(orders, c, p)
    BY DEF NothingLost
  <2>1. asked[c][p] <= Held(c, p) /\ asked[c][p] \in Int
    BY DEF CartsInv, AccountInv, TypeInv, TypeOK
  <2>2. Total(cart, c, p) \in Nat /\ Total(orders, c, p) \in Nat
    BY Totals DEF CartsInv
  <2> QED BY <2>1, <2>2 DEF Held
<1> QED BY InitCarts, NextKeepsCarts, <1>1, PTL DEF Spec

\* Between requests nothing is both ordered and in the cart, and nothing is
\* ordered that was not asked for, for a customer who makes one request at a
\* time and whose checkouts all went through (NothingTwice).
THEOREM NothingTwiceHolds == Spec => []NothingTwice
<1>1. CartsInv => NothingTwice
  <2> SUFFICES ASSUME CartsInv, NEW c \in Customers \ (overlapped \cup halted),
                      NEW p \in Products, Active(c) = {}
               PROVE  Total(cart, c, p) + Total(orders, c, p) <= asked[c][p]
    BY DEF NothingTwice
  <2>1. Held(c, p) <= asked[c][p]
    BY DEF CartsInv, AccountInv
  <2>2. ~Done(c, p)
    BY DEF Active, Done, DoneBy
  <2> QED BY <2>1, <2>2 DEF Held
<1> QED BY InitCarts, NextKeepsCarts, <1>1, PTL DEF Spec
=============================================================================
