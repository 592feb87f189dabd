------------------------ MODULE AmazonOrders_proofs ------------------------
(***************************************************************************)
(* What holds of orders at Amazon for any number of packages, addresses,   *)
(* trucks, threads, attempts and faults, and that AmazonOrders implements  *)
(* Fulfilment.                                                             *)
(***************************************************************************)
EXTENDS AmazonOrders, FiniteSetTheorems, TLAPS

Loops == {"pickup", "inventory", "pack", "load", "notice"}
Cycle == [at : {"rest", "last", "first"} \cup Loops, todo : SUBSET Packages,
           on : Packages \cup {None}, tries : 0..Attempts,
           reply : Trucks \cup {None, "error"}]
Request == [op : {"free", "save", "ask", "truck_arrived", "delivered"},
            pkg : Packages \cup {None}, seen : Row, arg : Dests \cup Trucks \cup {None}]
Shipment == [status : {"none", "enroute", "waiting", "out", "delivered"},
             truck : Trucks \cup {None}, dest : Dests \cup {None},
             leaving : BOOLEAN, did : SUBSET {"met", "released", "delivered"},
             told : SUBSET {"truck_arrived", "delivered"}]

\* The status of a row names a milestone that the row has passed.
Backed(r) ==
  r.status \notin {"none", "created", "failed"} => FlagsFor(r.status) \cap r.done # {}

\* The order exists.
Ordered(p) == row[p].status # "none"

RowInv ==
  /\ row \in [Packages -> Row]
  /\ \A p \in Packages : Backed(row[p]) /\ (Ordered(p) \/ row[p] = NoOrder)

\* What a session holds of an order lags behind the row: it has passed no
\* milestone that the row has not.
SessionInv ==
  /\ session \in [Packages -> Row \cup {None}]
  /\ \A p \in Packages : session[p] # None => Ordered(p) /\ session[p].done \subseteq row[p].done

\* Lists and calls exist only inside the loops.
WorkerInv ==
  /\ worker \in Cycle
  /\ worker.at \notin Loops => worker.todo = {}
  /\ worker.on \in worker.todo \cup {None}
  /\ worker.reply # None => worker.on # None
  /\ worker.on # None => worker.at \in {"pickup", "notice"}
  /\ worker.reply = None => worker.tries < Attempts
  /\ \A p \in worker.todo : session[p] # None

\* The same of what a thread has read.
ThreadInv ==
  /\ thread \in [Threads -> Request]
  /\ \A h \in Threads : thread[h] # Free =>
       /\ thread[h].op # "free"
       /\ thread[h].pkg \in Packages /\ Ordered(thread[h].pkg)
       /\ thread[h].seen.done \subseteq row[thread[h].pkg].done
       /\ thread[h].op \in {"save", "ask"} => thread[h].arg \in Dests
       /\ thread[h].op = "truck_arrived" => thread[h].arg \in Trucks \cup {None}

\* Commands go from the queue to the world, are carried out and reported.
CommandInv ==
  /\ pending \subseteq Commands /\ fresh \subseteq pending /\ torn \in BOOLEAN
  /\ sent \subseteq Commands /\ made \subseteq Commands /\ reports \subseteq made
  /\ \A c \in pending \cup sent \cup made : Ordered(c[2])

UpsInv ==
  /\ ups \in [Packages -> Shipment]
  /\ \A p \in Packages : Ordered(p) \/ (ups[p].status = "none" /\ ~ups[p].leaving)

MiscInv ==
  /\ stock \in Nat /\ recent \in [Packages -> SUBSET (Dests \cup {None})]
  /\ repeated \in BOOLEAN /\ restarted \in BOOLEAN /\ stranded \subseteq Packages
  /\ faults \in 0..MaxFaults

TypeInv ==
  RowInv /\ SessionInv /\ WorkerInv /\ ThreadInv /\ CommandInv /\ UpsInv /\ MiscInv

\* Rows keep their milestones, and orders do not disappear.
Grown ==
  \A p \in Packages : /\ row[p].done \subseteq row'[p].done
                      /\ Ordered(p) => Ordered(p)'

-----------------------------------------------------------------------------
(* The derived status.                                                     *)

LEMMA LastOf ==
  ASSUME NEW S \in SUBSET (1..8), S # {}
  PROVE  \E i \in S : \A j \in S : j <= i
<1>1. \A j \in S : j = 1 \/ j = 2 \/ j = 3 \/ j = 4 \/ j = 5 \/ j = 6 \/ j = 7 \/ j = 8
  OBVIOUS
<1>2. CASE 8 \in S \/ 7 \in S \/ 6 \in S \/ 5 \in S
  BY <1>1, <1>2
<1>3. CASE 8 \notin S /\ 7 \notin S /\ 6 \notin S /\ 5 \notin S
  <2>1. \A j \in S : j = 1 \/ j = 2 \/ j = 3 \/ j = 4
    BY <1>1, <1>3
  <2>2. CASE 4 \in S \/ 3 \in S
    BY <2>1, <2>2
  <2>3. CASE 4 \notin S /\ 3 \notin S
    <3>1. \A j \in S : j = 1 \/ j = 2
      BY <2>1, <2>3
    <3>2. CASE 2 \in S
      BY <3>1, <3>2
    <3>3. CASE 2 \notin S
      <4>1. S = {1}
        BY <3>1, <3>3
      <4> QED BY <4>1
    <3> QED BY <3>2, <3>3
  <2> QED BY <2>2, <2>3
<1> QED BY <1>2, <1>3

LEMMA StatusesAre ==
  Statuses = {"pickup_requested", "packing_requested", "packed", "truck_arrived",
              "loading_requested", "loaded", "out_for_delivery", "delivered",
              "created", "failed"}
<1>1. DOMAIN Flow = {1, 2, 3, 4, 5, 6, 7, 8}
  BY DEF Flow
<1>2. /\ Flow[1] = "pickup_requested" /\ Flow[2] = "packing_requested"
      /\ Flow[3] = "packed" /\ Flow[4] = "truck_arrived" /\ Flow[5] = "loading_requested"
      /\ Flow[6] = "loaded" /\ Flow[7] = "out_for_delivery" /\ Flow[8] = "delivered"
  BY DEF Flow
<1> QED BY <1>1, <1>2 DEF Statuses

\* The status that is derived from flags names one of them (_apply_status).
LEMMA StatusOfIs ==
  ASSUME NEW done \in SUBSET Flags, NEW e \in BOOLEAN
  PROVE  /\ StatusOf(done, e) \in Statuses \ {"none"}
         /\ StatusOf(done, e) \notin {"created", "failed"} =>
              FlagsFor(StatusOf(done, e)) \cap done # {}
<1> DEFINE passed == {i \in DOMAIN Flow : FlagsFor(Flow[i]) \cap done # {}}
           last == CHOOSE i \in passed : \A j \in passed : j <= i
<1>1. DOMAIN Flow = 1..8
  BY DEF Flow
<1>2. "none" \notin Statuses
  BY StatusesAre
<1>3. CASE passed = {}
  BY <1>2, <1>3 DEF StatusOf, Statuses
<1>4. CASE passed # {}
  <2>1. \E i \in passed : \A j \in passed : j <= i
    BY <1>1, <1>4, LastOf
  <2>2. last \in passed
    BY <2>1
  <2>3. StatusOf(done, e) = Flow[last]
    BY <1>4 DEF StatusOf
  <2> QED BY <1>2, <2>2, <2>3 DEF Statuses
<1> QED BY <1>3, <1>4

\* n is r after a mark_*: the flags are set, and perhaps a truck.
Marks(n, r, flags) ==
  \/ n = Marked(r, flags)
  \/ \E t \in Trucks \cup {None} : n = [Marked(r, flags) EXCEPT !.truck = t]

LEMMA MarkedIs ==
  ASSUME NEW r \in Row, NEW flags \in SUBSET Flags, NEW n, Marks(n, r, flags)
  PROVE  /\ n \in Row /\ n.done = r.done \cup flags /\ n.dest = r.dest /\ n.error = FALSE
         /\ n.status # "none" /\ Backed(n)
<1> DEFINE s == StatusOf(r.done \cup flags, FALSE)
           m == [r EXCEPT !.done = @ \cup flags, !.error = FALSE, !.status = s]
<1>1. r.done \cup flags \in SUBSET Flags
  BY DEF Row
<1>2. s \in Statuses \ {"none"}
      /\ (s \notin {"created", "failed"} => FlagsFor(s) \cap (r.done \cup flags) # {})
  BY <1>1, StatusOfIs
<1>3. m = Marked(r, flags)
  BY DEF Marked
<1> HIDE DEF s
<1>4. /\ m \in Row /\ m.done = r.done \cup flags /\ m.dest = r.dest /\ m.error = FALSE
      /\ m.status = s
  BY <1>1, <1>2 DEF Row
<1> HIDE DEF m
<1>5. CASE n = m
  BY <1>2, <1>4, <1>5 DEF Backed
<1>6. CASE n # m
  <2>1. PICK t \in Trucks \cup {None} : n = [m EXCEPT !.truck = t]
    BY <1>3, <1>6 DEF Marks
  <2>2. /\ n \in Row /\ n.done = m.done /\ n.dest = m.dest /\ n.status = m.status
    BY <1>4, <2>1 DEF Row
  <2>3. n.error = m.error
    BY <1>4, <2>1 DEF Row
  <2> QED BY <1>2, <1>4, <2>2, <2>3 DEF Backed
<1> QED BY <1>5, <1>6

-----------------------------------------------------------------------------
(* Commits.                                                                *)

LEMMA WrittenIs ==
  ASSUME NEW now \in Row, NEW old \in Row, NEW new \in Row, NEW w, w = Written(now, old, new)
  PROVE  /\ w \in Row /\ w.done = now.done \cup (new.done \ old.done)
         /\ w.status = now.status \/ (w.status = new.status /\ new.status # old.status)
         /\ w.error \in {now.error, new.error}
         /\ new.error = old.error => w.error = now.error
         /\ w.dest \in {now.dest, new.dest}
         /\ new.dest = old.dest => w.dest = now.dest
<1>1. w.status = now.status \/ (w.status = new.status /\ new.status # old.status)
  BY DEF Written
<1>2. w.done = now.done \cup (new.done \ old.done)
  BY DEF Written
<1>3. w.error \in {now.error, new.error} /\ (new.error = old.error => w.error = now.error)
  BY DEF Written
<1>4. w.dest \in {now.dest, new.dest} /\ (new.dest = old.dest => w.dest = now.dest)
  BY DEF Written
<1>5. w \in Row
  BY DEF Written, Row
<1> QED BY <1>1, <1>2, <1>3, <1>4, <1>5

\* A commit of an object that lagged behind the row loses no milestone of it.
LEMMA CommitMoves ==
  ASSUME RowInv, NEW p \in Packages, Ordered(p), NEW old \in Row, NEW new \in Row,
         old.done \subseteq row[p].done, old.done \subseteq new.done,
         new.status = old.status \/ (new.status # "none" /\ Backed(new)),
         row' = [row EXCEPT ![p] = Written(row[p], old, new)]
  PROVE  /\ RowInv' /\ Grown
         /\ \A q \in Packages \ {p} : row'[q] = row[q]
         /\ row'[p].done = row[p].done \cup (new.done \ old.done)
         /\ row'[p].error \in {row[p].error, new.error}
         /\ new.error = old.error => row'[p].error = row[p].error
         /\ new.dest = old.dest => row'[p].dest = row[p].dest
         /\ row'[p].dest \in {row[p].dest, new.dest}
<1> DEFINE w == Written(row[p], old, new)
<1>1. row[p] \in Row
  BY DEF RowInv
<1>2. /\ w \in Row /\ w.done = row[p].done \cup (new.done \ old.done)
      /\ w.status = row[p].status \/ (w.status = new.status /\ new.status # old.status)
      /\ w.error \in {row[p].error, new.error}
      /\ new.error = old.error => w.error = row[p].error
      /\ w.dest \in {row[p].dest, new.dest}
      /\ new.dest = old.dest => w.dest = row[p].dest
  BY <1>1, WrittenIs
<1>3. row' = [row EXCEPT ![p] = w]
  OBVIOUS
<1> HIDE DEF w
<1>4. row'[p] = w /\ row' \in [Packages -> Row] /\ \A q \in Packages \ {p} : row'[q] = row[q]
  BY <1>2, <1>3 DEF RowInv
<1>5. new.done \subseteq w.done /\ row[p].done \subseteq w.done
  BY <1>2
<1>6. Backed(w) /\ w.status # "none"
  BY <1>2, <1>5 DEF Backed, RowInv, Ordered
<1>7. RowInv' /\ Grown
  BY <1>4, <1>5, <1>6 DEF RowInv, Grown, Ordered
<1> QED BY <1>2, <1>4, <1>7

\* mark_*: the row passes the milestones, whatever the object had missed.
LEMMA MarkMoves ==
  ASSUME RowInv, NEW p \in Packages, Ordered(p), NEW old \in Row, NEW flags \in SUBSET Flags,
         old.done \subseteq row[p].done, NEW new, Marks(new, old, flags),
         row' = [row EXCEPT ![p] = Written(row[p], old, new)]
  PROVE  /\ RowInv' /\ Grown
         /\ \A q \in Packages \ {p} : row'[q] = row[q]
         /\ row'[p].done = row[p].done \cup flags
         /\ row'[p].error => row[p].error
         /\ row'[p].dest = row[p].dest
<1>1. /\ new \in Row /\ new.done = old.done \cup flags /\ new.dest = old.dest
      /\ new.error = FALSE /\ new.status # "none" /\ Backed(new)
  BY MarkedIs
<1>2. old.done \subseteq new.done
  BY <1>1
<1>3. /\ RowInv' /\ Grown
      /\ \A q \in Packages \ {p} : row'[q] = row[q]
      /\ row'[p].done = row[p].done \cup (new.done \ old.done)
      /\ row'[p].error \in {row[p].error, new.error}
      /\ new.dest = old.dest => row'[p].dest = row[p].dest
  BY <1>1, <1>2, CommitMoves, ZenonT(30)
<1>4. row'[p].done = row[p].done \cup flags
  BY <1>1, <1>3
<1>5. row'[p].error => row[p].error
  BY <1>1, <1>3
<1> QED BY <1>1, <1>3, <1>4, <1>5

\* The object of a shipment, read from the table if need be.
Known(p) == IF session[p] = None THEN row[p] ELSE session[p]

\* What the session holds after a commit.
SessionMoved(p) ==
  /\ session' \in [Packages -> Row \cup {None}]
  /\ session'[p] # None /\ session'[p].done \subseteq row'[p].done
  /\ session'[p].dest = Known(p).dest
  /\ \A q \in Packages \ {p} : session'[q] = session[q]

LEMMA SaveMoves ==
  ASSUME RowInv, SessionInv, NEW p \in Packages, session[p] # None,
         NEW flags \in SUBSET Flags, NEW new, Marks(new, session[p], flags), Save(p, new)
  PROVE  /\ RowInv' /\ Grown /\ SessionMoved(p)
         /\ \A q \in Packages \ {p} : row'[q] = row[q]
         /\ row'[p].done = row[p].done \cup flags
         /\ row'[p].error => row[p].error
         /\ row'[p].dest = row[p].dest
<1>1. session[p] \in Row /\ session[p].done \subseteq row[p].done /\ Ordered(p)
  BY DEF SessionInv
<1>2. /\ new \in Row /\ new.done = session[p].done \cup flags
      /\ new.dest = session[p].dest
  <2>1. \A r \in Row : Marks(new, r, flags) =>
          new \in Row /\ new.done = r.done \cup flags /\ new.dest = r.dest
    BY MarkedIs, Zenon
  <2> QED BY <1>1, <2>1, Zenon
<1>3. /\ row' = [row EXCEPT ![p] = Written(row[p], session[p], new)]
      /\ session' = [session EXCEPT ![p] = new]
  BY DEF Save, RowInv
<1>4. /\ RowInv' /\ Grown
      /\ \A q \in Packages \ {p} : row'[q] = row[q]
      /\ row'[p].done = row[p].done \cup flags
      /\ row'[p].error => row[p].error
      /\ row'[p].dest = row[p].dest
  BY <1>1, <1>3, MarkMoves
<1>5. SessionMoved(p)
  BY <1>1, <1>2, <1>3, <1>4, NoneIsNoRow DEF SessionMoved, Known, SessionInv
<1> QED BY <1>4, <1>5

LEMMA FailureMoves ==
  ASSUME RowInv, SessionInv, NEW p \in Packages, Ordered(p), SaveFailure(p)
  PROVE  /\ RowInv' /\ Grown /\ SessionMoved(p)
         /\ \A q \in Packages \ {p} : row'[q] = row[q]
         /\ row'[p].done = row[p].done
         /\ row'[p].dest = row[p].dest
<1> DEFINE old == Known(p)
           new == [old EXCEPT !.error = TRUE, !.status = "failed"]
           saved == Written(row[p], old, new)
           worded == [saved EXCEPT !.error = TRUE]
<1>1. old \in Row /\ old.done \subseteq row[p].done /\ row[p] \in Row
  BY DEF SessionInv, RowInv, Known
<1>2. /\ new \in Row /\ new.done = old.done /\ new.dest = old.dest
      /\ new.status = "failed"
  BY <1>1, StatusesAre DEF Row
<1>3. /\ row' = [row EXCEPT ![p] = saved] \/ row' = [row EXCEPT ![p] = worded]
      /\ session' = [session EXCEPT ![p] = new]
  BY DEF SaveFailure, Known
<1> HIDE DEF old, new
<1>4. /\ saved \in Row /\ saved.done = row[p].done /\ saved.dest = row[p].dest
      /\ saved.status = row[p].status \/ saved.status = "failed"
  <2>1. saved \in Row
    BY <1>1, <1>2, WrittenIs
  <2>2. saved.done = row[p].done
    <3>1. saved.done = row[p].done \cup (new.done \ old.done)
      BY <1>1, <1>2, WrittenIs
    <3> QED BY <1>2, <3>1
  <2>3. saved.dest = row[p].dest
    BY <1>1, <1>2, WrittenIs
  <2>4. saved.status = row[p].status \/ saved.status = "failed"
    BY <1>1, <1>2, WrittenIs
  <2> QED BY <2>1, <2>2, <2>3, <2>4
<1> HIDE DEF saved
<1>5. /\ worded \in Row /\ worded.done = saved.done /\ worded.dest = saved.dest
      /\ worded.status = saved.status
  BY <1>4 DEF Row
<1> HIDE DEF worded
<1>6. PICK w \in Row : /\ row' = [row EXCEPT ![p] = w]
                       /\ w.done = row[p].done /\ w.dest = row[p].dest
                       /\ w.status = row[p].status \/ w.status = "failed"
  BY <1>3, <1>4, <1>5
<1>7. row'[p] = w /\ row' \in [Packages -> Row] /\ \A q \in Packages \ {p} : row'[q] = row[q]
  BY <1>6 DEF RowInv
<1>8. Backed(w) /\ w.status # "none"
  BY <1>1, <1>6 DEF Backed, RowInv, Ordered
<1>9. RowInv' /\ Grown
  BY <1>6, <1>7, <1>8 DEF RowInv, Grown, Ordered
<1>10. SessionMoved(p)
  <2>1. session' \in [Packages -> Row \cup {None}]
    BY <1>2, <1>3 DEF SessionInv
  <2>2. session'[p] = new /\ \A q \in Packages \ {p} : session'[q] = session[q]
    BY <1>3 DEF SessionInv
  <2>3. new.dest = Known(p).dest
    BY <1>2 DEF old
  <2> QED BY <1>1, <1>2, <1>6, <1>7, <2>1, <2>2, <2>3, NoneIsNoRow DEF SessionMoved
<1> QED BY <1>6, <1>7, <1>9, <1>10

-----------------------------------------------------------------------------
(* What the actions do to the rows.                                        *)

LEMMA CreateMoves ==
  ASSUME TypeInv, NEW p \in Packages, CreateOrder(p)
  PROVE  /\ RowInv' /\ Grown
         /\ \A q \in Packages \ {p} : row'[q] = row[q]
         /\ row[p].done = {} /\ row'[p].done = {}
         /\ row[p].status = "none" /\ row'[p].dest = Home /\ ~row'[p].error
<1> DEFINE new == [NoOrder EXCEPT !.status = "created", !.dest = Home]
<1>0. new.error = FALSE
  BY DEF NoOrder
<1>1. new \in Row /\ new.done = {} /\ new.status = "created" /\ new.dest = Home
  BY AmazonOrdersAssumption, StatusesAre DEF Row, NoOrder
<1>2. row' = [row EXCEPT ![p] = new] /\ row[p] = NoOrder
  BY DEF CreateOrder
<1> HIDE DEF new
<1>3. row'[p] = new /\ row' \in [Packages -> Row] /\ \A q \in Packages \ {p} : row'[q] = row[q]
  BY <1>1, <1>2 DEF TypeInv, RowInv
<1>4. row[p].done = {} /\ row[p].status = "none"
  BY <1>2 DEF NoOrder
<1>5. Backed(new)
  BY <1>1 DEF Backed
<1>6. RowInv' /\ Grown
  BY <1>1, <1>3, <1>4, <1>5 DEF TypeInv, RowInv, Grown, Ordered
<1> QED BY <1>0, <1>1, <1>3, <1>4, <1>6

LEMMA SaveRedirectMoves ==
  ASSUME TypeInv, NEW h \in Threads, SaveRedirect(h)
  PROVE  /\ RowInv' /\ Grown /\ thread[h].pkg \in Packages
         /\ \A q \in Packages \ {thread[h].pkg} : row'[q] = row[q]
         /\ row'[thread[h].pkg].done = row[thread[h].pkg].done
         /\ row'[thread[h].pkg].error = row[thread[h].pkg].error
<1> DEFINE p == thread[h].pkg
           d == thread[h].arg
<1>1. PICK old \in {row[p], thread[h].seen} :
        row' = [row EXCEPT ![p] = Written(@, old, [old EXCEPT !.dest = d])]
  BY DEF SaveRedirect
<1>2. thread[h].op = "save"
  BY DEF SaveRedirect
<1>3. thread[h] \in Request
  BY DEF TypeInv, ThreadInv
<1>4. /\ p \in Packages /\ Ordered(p) /\ thread[h].seen.done \subseteq row[p].done
      /\ d \in Dests
  BY <1>2 DEF TypeInv, ThreadInv, Free
<1>5. old \in Row /\ old.done \subseteq row[p].done
  BY <1>3, <1>4 DEF Request, TypeInv, RowInv
<1> DEFINE new == [old EXCEPT !.dest = d]
<1>6. new \in Row /\ new.done = old.done /\ new.status = old.status
  BY <1>4, <1>5 DEF Row
<1>7. new.error = old.error
  BY <1>4, <1>5 DEF Row
<1>8. row' = [row EXCEPT ![p] = Written(row[p], old, new)]
  BY <1>1, <1>4 DEF TypeInv, RowInv
<1>9. RowInv
  BY DEF TypeInv
<1> HIDE DEF new, p, d
<1>10. /\ RowInv' /\ Grown
       /\ \A q \in Packages \ {p} : row'[q] = row[q]
       /\ row'[p].done = row[p].done \cup (new.done \ old.done)
       /\ new.error = old.error => row'[p].error = row[p].error
  <2>1. old.done \subseteq new.done
    BY <1>6
  <2> QED BY <1>4, <1>5, <1>6, <1>8, <1>9, <2>1, CommitMoves
<1>11. row'[p].done = row[p].done
  BY <1>6, <1>10
<1> QED BY <1>4, <1>7, <1>10, <1>11 DEF p

\* The milestones that the actions mark are flags.
LEMMA FlagsAre ==
  /\ \A l \in DOMAIN Asks : {Asks[l].flag} \in SUBSET Flags
                            /\ Asks[l].flag \notin {"inventory_arrived", "packed", "loaded",
                                                    "truck_arrived"}
  /\ \A k \in Kinds : {Reported[k]} \in SUBSET Flags
  /\ DOMAIN Asks = {"inventory", "pack", "load"}
BY DEF Asks, Reported, Kinds, Flags

LEMMA ReportMoves ==
  ASSUME TypeInv, NEW c \in Commands, HandleReport(c)
  PROVE  /\ RowInv' /\ Grown /\ SessionMoved(c[2]) /\ c[2] \in Packages /\ c[1] \in Kinds
         /\ \A q \in Packages \ {c[2]} : row'[q] = row[q]
         /\ row'[c[2]].done = row[c[2]].done \cup {Reported[c[1]]}
         /\ row'[c[2]].error => row[c[2]].error
         /\ row'[c[2]].dest = row[c[2]].dest
<1>1. c[2] \in Packages /\ c[1] \in Kinds
  BY DEF Commands
<1>2. {Reported[c[1]]} \in SUBSET Flags
  BY <1>1, FlagsAre
<1> DEFINE new == Marked(session[c[2]], {Reported[c[1]]})
<1>3. Save(c[2], new) /\ session[c[2]] # None
  BY DEF HandleReport
<1>4. Marks(new, session[c[2]], {Reported[c[1]]})
  BY DEF Marks
<1>5. RowInv /\ SessionInv
  BY DEF TypeInv
<1> HIDE DEF new
<1> QED BY <1>1, <1>2, <1>3, <1>4, <1>5, SaveMoves

LEMMA ErrorMoves ==
  ASSUME TypeInv, NEW c \in Commands, HandleError(c)
  PROVE  /\ RowInv' /\ Grown
         /\ UNCHANGED session \/ \E p \in Packages : SessionMoved(p) /\ Ordered(p)
         /\ \A q \in Packages : row'[q].done = row[q].done /\ row'[q].dest = row[q].dest
         /\ \A q \in Packages : row'[q] # row[q] => Ordered(q)
<1>1. RowInv /\ SessionInv
  BY DEF TypeInv
<1>2. CASE UNCHANGED <<row, session>>
  BY <1>1, <1>2 DEF RowInv, Grown, Ordered, Backed
<1>3. ASSUME NEW x \in Meant(c), SaveFailure(x[2])
      PROVE  /\ RowInv' /\ Grown /\ SessionMoved(x[2]) /\ x[2] \in Packages /\ Ordered(x[2])
             /\ \A q \in Packages : row'[q].done = row[q].done /\ row'[q].dest = row[q].dest
             /\ \A q \in Packages : row'[q] # row[q] => Ordered(q)
  <2>1. x \in pending
    BY DEF Meant
  <2>2. Ordered(x[2]) /\ x[2] \in Packages
    BY <2>1 DEF TypeInv, CommandInv, Commands
  <2> QED BY <1>1, <1>3, <2>2, FailureMoves
<1> QED BY <1>2, <1>3 DEF HandleError

LEMMA QueueMoves ==
  ASSUME TypeInv, NEW p \in Packages, QueueCommand(p)
  PROVE  /\ RowInv' /\ Grown
         /\ SessionMoved(p) \/ UNCHANGED session
         /\ \A q \in Packages \ {p} : row'[q] = row[q]
         /\ row'[p].done = row[p].done \/ row'[p].done = row[p].done \cup {Asks[worker.at].flag}
         /\ row'[p].error => row[p].error
         /\ row'[p].dest = row[p].dest
<1> DEFINE l == worker.at
           new == Marked(session[p], {Asks[l].flag})
<1>1. l \in DOMAIN Asks /\ session[p] # None
  BY DEF QueueCommand, TypeInv, WorkerInv
<1>2. {Asks[l].flag} \in SUBSET Flags
  BY <1>1, FlagsAre
<1>3. UNCHANGED <<row, session>> \/ Save(p, new)
  BY DEF QueueCommand
<1>4. RowInv /\ SessionInv
  BY DEF TypeInv
<1>5. CASE UNCHANGED <<row, session>>
  BY <1>4, <1>5 DEF RowInv, Grown, Ordered, Backed
<1>6. CASE Save(p, new)
  <2>1. Marks(new, session[p], {Asks[l].flag})
    BY DEF Marks
  <2> HIDE DEF new
  <2> QED BY <1>1, <1>2, <1>4, <1>6, <2>1, SaveMoves
<1> QED BY <1>3, <1>5, <1>6

LEMMA ConcludeMoves ==
  ASSUME TypeInv, Conclude
  PROVE  /\ RowInv' /\ Grown /\ SessionMoved(worker.on) /\ worker.on \in worker.todo
         /\ worker.on \in Packages
         /\ \A q \in Packages \ {worker.on} : row'[q] = row[q]
         /\ \E flags \in {{}, {"pickup_requested"}, {"delivery_notified"}} :
              row'[worker.on].done = row[worker.on].done \cup flags
         /\ row'[worker.on].dest = row[worker.on].dest
<1> DEFINE p == worker.on
<1>1. p \in worker.todo /\ p \in Packages /\ session[p] # None /\ worker.reply \in Trucks \cup {None, "error"}
      /\ worker.reply # None
  BY DEF Conclude, TypeInv, WorkerInv, Cycle
<1>2. RowInv /\ SessionInv
  BY DEF TypeInv
<1>3. CASE SaveFailure(p)
  <2>1. Ordered(p)
    BY <1>1 DEF TypeInv, SessionInv
  <2> QED BY <1>1, <1>2, <1>3, <2>1, FailureMoves
<1>4. CASE /\ worker.reply # "error"
           /\ Save(p, [Marked(session[p], {"pickup_requested"}) EXCEPT !.truck = worker.reply])
  <2> DEFINE new == [Marked(session[p], {"pickup_requested"}) EXCEPT !.truck = worker.reply]
  <2>1. Marks(new, session[p], {"pickup_requested"})
    BY <1>1, <1>4 DEF Marks
  <2>2. {"pickup_requested"} \in SUBSET Flags
    BY DEF Flags
  <2>3. Save(p, new)
    BY <1>4
  <2> HIDE DEF new
  <2> QED BY <1>1, <1>2, <2>1, <2>2, <2>3, SaveMoves
<1>5. CASE Save(p, Marked(session[p], {"delivery_notified"}))
  <2> DEFINE new == Marked(session[p], {"delivery_notified"})
  <2>1. Marks(new, session[p], {"delivery_notified"})
    BY DEF Marks
  <2>2. {"delivery_notified"} \in SUBSET Flags
    BY DEF Flags
  <2>3. Save(p, new)
    BY <1>5
  <2> HIDE DEF new
  <2> QED BY <1>1, <1>2, <2>1, <2>2, <2>3, SaveMoves
<1> QED BY <1>3, <1>4, <1>5 DEF Conclude

LEMMA EndMoves ==
  ASSUME TypeInv, NEW h \in Threads, EndArrival(h) \/ EndDelivery(h)
  PROVE  /\ RowInv' /\ Grown /\ thread[h].pkg \in Packages
         /\ \A q \in Packages \ {thread[h].pkg} : row'[q] = row[q]
         /\ row'[thread[h].pkg].done = row[thread[h].pkg].done \cup
              (IF thread[h].op = "truck_arrived" THEN {"truck_arrived"}
               ELSE {"delivered", "delivery_notified"})
         /\ row'[thread[h].pkg].error => row[thread[h].pkg].error
         /\ row'[thread[h].pkg].dest = row[thread[h].pkg].dest
<1> DEFINE p == thread[h].pkg
           flags == IF thread[h].op = "truck_arrived" THEN {"truck_arrived"}
                    ELSE {"delivered", "delivery_notified"}
<1>1. /\ p \in Packages /\ Ordered(p) /\ thread[h].seen.done \subseteq row[p].done
      /\ thread[h].op = "truck_arrived" => thread[h].arg \in Trucks \cup {None}
  BY DEF EndArrival, EndDelivery, TypeInv, ThreadInv, Free
<1>2. thread[h] \in Request
  BY DEF TypeInv, ThreadInv
<1>3. thread[h].seen \in Row
  BY <1>2 DEF Request
<1>4. flags \in SUBSET Flags
  BY DEF Flags
<1>5. PICK new : EndCallback(h, new) /\ Marks(new, thread[h].seen, flags)
  <2>1. CASE EndArrival(h)
    BY <1>1, <2>1 DEF EndArrival, Marks
  <2>2. CASE EndDelivery(h)
    BY <1>1, <2>2 DEF EndDelivery, Marks
  <2> QED BY <2>1, <2>2
<1>6. row' = [row EXCEPT ![p] = Written(row[p], thread[h].seen, new)]
  BY <1>1, <1>5 DEF EndCallback, TypeInv, RowInv
<1>7. RowInv
  BY DEF TypeInv
<1> HIDE DEF p, flags
<1>8. /\ RowInv' /\ Grown
      /\ \A q \in Packages \ {p} : row'[q] = row[q]
      /\ row'[p].done = row[p].done \cup flags
      /\ row'[p].error => row[p].error
      /\ row'[p].dest = row[p].dest
  BY <1>1, <1>3, <1>4, <1>5, <1>6, <1>7, MarkMoves
<1> QED BY <1>1, <1>8 DEF p, flags

-----------------------------------------------------------------------------
(* What a request of the worker does at UPS.                               *)

LEMMA HandledIs ==
  ASSUME TypeInv, NEW p \in Packages, session[p] # None, NEW u \in Handled(p)
  PROVE  /\ u \in [Packages -> Shipment] /\ \A q \in Packages \ {p} : u[q] = ups[q]
         /\ u[p].dest = session[p].dest
         /\ \/ /\ worker.at = "pickup" /\ u[p].status = "enroute"
               /\ u[p].did = ups[p].did /\ u[p].leaving = ups[p].leaving
            \/ /\ worker.at # "pickup" /\ u[p].status = "out"
               /\ u[p].did = ups[p].did \cup {"released"}
<1>1. ups[p] \in Shipment /\ ups \in [Packages -> Shipment]
  BY DEF TypeInv, UpsInv
<1>2. session[p] \in Row
  BY DEF TypeInv, SessionInv
<1>3. session[p].dest \in Dests \cup {None}
  BY <1>2 DEF Row
<1>4. CASE worker.at = "pickup"
  <2>1. PICK t \in Trucks : u = UpsPickup(p, t)
    BY <1>4 DEF Handled
  <2> DEFINE new == [ups[p] EXCEPT !.status = "enroute", !.truck = t, !.dest = session[p].dest]
  <2>2. u = [ups EXCEPT ![p] = new]
    BY <1>1, <2>1 DEF UpsPickup
  <2>3. /\ new \in Shipment /\ new.status = "enroute" /\ new.dest = session[p].dest
        /\ new.did = ups[p].did
    BY <1>1, <1>3 DEF Shipment
  <2>4. new.leaving = ups[p].leaving
    BY <1>1 DEF Shipment
  <2> HIDE DEF new
  <2> QED BY <1>1, <1>4, <2>2, <2>3, <2>4
<1>5. CASE worker.at # "pickup"
  <2>1. u = UpsLoaded(p)
    BY <1>5 DEF Handled
  <2> DEFINE new == [ups[p] EXCEPT !.status = "out", !.dest = session[p].dest,
                                   !.leaving = TRUE, !.did = @ \cup {"released"}]
  <2>2. u = [ups EXCEPT ![p] = new]
    BY <1>1, <2>1 DEF UpsLoaded
  <2>3. /\ new \in Shipment /\ new.status = "out" /\ new.dest = session[p].dest
        /\ new.did = ups[p].did \cup {"released"}
    BY <1>1, <1>3 DEF Shipment
  <2> HIDE DEF new
  <2> QED BY <1>1, <1>5, <2>2, <2>3
<1> QED BY <1>4, <1>5

\* Apart from what it has told, a shipment only has its destination changed,
\* and that before it leaves.
UpsStill ==
  \A p \in Packages :
    /\ ups'[p].status = ups[p].status /\ ups'[p].did = ups[p].did
    /\ ups'[p].leaving = ups[p].leaving
    /\ ups'[p].dest # ups[p].dest => ups[p].status \in {"enroute", "waiting"}

LEMMA StillMoves ==
  ASSUME TypeInv,
         \/ UNCHANGED ups \/ \E p \in Packages : CallbackLost(p)
         \/ \E h \in Threads : AskUps(h) \/ ThreadDies(h) \/ \E p \in Packages : Callback(h, p)
  PROVE  ups' \in [Packages -> Shipment] /\ UpsStill
<1>1. ups \in [Packages -> Shipment]
  BY DEF TypeInv, UpsInv
<1>2. CASE UNCHANGED ups
  BY <1>1, <1>2 DEF UpsStill
<1>3. ASSUME NEW p \in Packages, NEW told \in SUBSET {"truck_arrived", "delivered"},
             ups' = [ups EXCEPT ![p].told = told]
      PROVE  ups' \in [Packages -> Shipment] /\ UpsStill
  <2> DEFINE new == [ups[p] EXCEPT !.told = told]
  <2>1. /\ new \in Shipment /\ new.status = ups[p].status /\ new.did = ups[p].did
        /\ new.dest = ups[p].dest
    BY <1>1 DEF Shipment
  <2>2. new.leaving = ups[p].leaving
    BY <1>1 DEF Shipment
  <2>3. ups' = [ups EXCEPT ![p] = new]
    BY <1>1, <1>3
  <2> HIDE DEF new
  <2> QED BY <1>1, <2>1, <2>2, <2>3 DEF UpsStill
<1>4. ASSUME NEW p \in Packages, CallbackLost(p)
      PROVE  ups' \in [Packages -> Shipment] /\ UpsStill
  <2>1. ups' = [ups EXCEPT ![p].told = ups[p].told \cup Owed(p)]
    BY <1>1, <1>4 DEF CallbackLost
  <2>2. ups[p].told \cup Owed(p) \in SUBSET {"truck_arrived", "delivered"}
    BY <1>1 DEF Shipment, Owed
  <2> QED BY <1>3, <2>1, <2>2
<1>5. ASSUME NEW h \in Threads, ThreadDies(h)
      PROVE  ups' \in [Packages -> Shipment] /\ UpsStill
  <2>1. thread[h].pkg \in Packages
    BY <1>5 DEF ThreadDies, TypeInv, ThreadInv
  <2>2. ups' = [ups EXCEPT ![thread[h].pkg].told = ups[thread[h].pkg].told \ {thread[h].op}]
    BY <1>1, <1>5, <2>1 DEF ThreadDies
  <2>3. ups[thread[h].pkg].told \ {thread[h].op} \in SUBSET {"truck_arrived", "delivered"}
    BY <1>1, <2>1 DEF Shipment
  <2> QED BY <1>3, <2>1, <2>2, <2>3
<1>6. ASSUME NEW h \in Threads, NEW p \in Packages, Callback(h, p)
      PROVE  ups' \in [Packages -> Shipment] /\ UpsStill
  <2>1. PICK o \in Owed(p) : ups' = [ups EXCEPT ![p].told = @ \cup {o}]
    BY <1>6 DEF Callback
  <2>2. ups' = [ups EXCEPT ![p].told = ups[p].told \cup {o}]
    BY <1>1, <2>1
  <2>3. o \in {"truck_arrived", "delivered"}
    BY <2>1 DEF Owed
  <2>4. ups[p].told \cup {o} \in SUBSET {"truck_arrived", "delivered"}
    BY <1>1, <2>3 DEF Shipment
  <2> QED BY <1>3, <2>2, <2>4
<1>7. ASSUME NEW h \in Threads, AskUps(h)
      PROVE  ups' \in [Packages -> Shipment] /\ UpsStill
  <2> DEFINE p == thread[h].pkg
             new == [ups[p] EXCEPT !.dest = thread[h].arg]
  <2>1. p \in Packages /\ thread[h].arg \in Dests
    BY <1>7 DEF AskUps, Free, TypeInv, ThreadInv
  <2>2. CASE ups[p].status \in {"enroute", "waiting"} /\ ups' = [ups EXCEPT ![p].dest = thread[h].arg]
    <3>1. /\ new \in Shipment /\ new.status = ups[p].status /\ new.did = ups[p].did
      BY <1>1, <2>1 DEF Shipment
    <3>2. new.leaving = ups[p].leaving
      BY <1>1, <2>1 DEF Shipment
    <3>3. ups' = [ups EXCEPT ![p] = new]
      BY <1>1, <2>1, <2>2
    <3> HIDE DEF new
    <3> QED BY <1>1, <2>1, <2>2, <3>1, <3>2, <3>3 DEF UpsStill
  <2> QED BY <1>2, <1>7, <2>2 DEF AskUps
<1> QED BY <1>2, <1>4, <1>5, <1>6, <1>7

LEMMA ArrivesMoves ==
  ASSUME TypeInv, NEW p \in Packages, UpsArrives(p)
  PROVE  /\ ups' \in [Packages -> Shipment] /\ \A q \in Packages \ {p} : ups'[q] = ups[q]
         /\ ups'[p].status = "waiting" /\ ups'[p].did = ups[p].did \cup {"met"}
         /\ ups'[p].leaving = ups[p].leaving
<1> DEFINE new == [ups[p] EXCEPT !.status = "waiting", !.did = @ \cup {"met"},
                                 !.told = @ \ {"truck_arrived"}]
<1>1. ups \in [Packages -> Shipment]
  BY DEF TypeInv, UpsInv
<1>2. ups' = [ups EXCEPT ![p] = new]
  BY <1>1 DEF UpsArrives
<1>3. new \in Shipment /\ new.status = "waiting" /\ new.did = ups[p].did \cup {"met"}
  BY <1>1, ZenonT(30) DEF Shipment
<1>4. new.leaving = ups[p].leaving
  BY <1>1 DEF Shipment
<1> HIDE DEF new
<1> QED BY <1>1, <1>2, <1>3, <1>4

LEMMA DeliversMoves ==
  ASSUME TypeInv, NEW p \in Packages, UpsDelivers(p)
  PROVE  /\ ups' \in [Packages -> Shipment] /\ \A q \in Packages \ {p} : ups'[q] = ups[q]
         /\ ups[p].leaving
         /\ ups'[p].status = "delivered" /\ ups'[p].did = ups[p].did \cup {"delivered"}
         /\ ~ups'[p].leaving
<1> DEFINE new == [ups[p] EXCEPT !.status = "delivered", !.leaving = FALSE,
                                 !.did = @ \cup {"delivered"}, !.told = @ \ {"delivered"}]
<1>1. ups \in [Packages -> Shipment]
  BY DEF TypeInv, UpsInv
<1>2. ups' = [ups EXCEPT ![p] = new] /\ ups[p].leaving
  BY <1>1 DEF UpsDelivers
<1>3. new \in Shipment /\ new.status = "delivered" /\ new.did = ups[p].did \cup {"delivered"}
  BY <1>1, ZenonT(30) DEF Shipment
<1>4. new.leaving = FALSE
  BY <1>1 DEF Shipment
<1> HIDE DEF new
<1> QED BY <1>1, <1>2, <1>3, <1>4

-----------------------------------------------------------------------------
(* The invariant, part by part.                                            *)

\* The actions that write a row.
LEMMA RowActions ==
  ASSUME Next
  PROVE  \/ \E p \in Packages : CreateOrder(p) \/ QueueCommand(p)
         \/ \E h \in Threads : SaveRedirect(h) \/ EndArrival(h) \/ EndDelivery(h)
         \/ \E c \in Commands : HandleReport(c) \/ HandleError(c)
         \/ Conclude \/ UNCHANGED row
BY DEF Next, Web, Worker, Outside, Callback, Redirect, AskUps, ThreadDies, StartCycle,
       NextLoop, SyncAgain, Read, Answered, Rejected, AttemptFails, WorkerDies,
       UpsArrives, UpsDelivers, CallbackLost, CarryOut, ReportAgain, PassOver, Tear, ReportNotSaved

LEMMA RowStep ==
  ASSUME TypeInv, Next
  PROVE  RowInv' /\ Grown
<1>1. ASSUME NEW p \in Packages, CreateOrder(p) PROVE RowInv' /\ Grown
  BY <1>1, CreateMoves
<1>2. ASSUME NEW h \in Threads, SaveRedirect(h) PROVE RowInv' /\ Grown
  BY <1>2, SaveRedirectMoves
<1>3. ASSUME NEW h \in Threads, EndArrival(h) \/ EndDelivery(h) PROVE RowInv' /\ Grown
  BY <1>3, EndMoves
<1>4. ASSUME NEW c \in Commands, HandleReport(c) PROVE RowInv' /\ Grown
  BY <1>4, ReportMoves
<1>5. ASSUME NEW c \in Commands, HandleError(c) PROVE RowInv' /\ Grown
  BY <1>5, ErrorMoves
<1>6. ASSUME NEW p \in Packages, QueueCommand(p) PROVE RowInv' /\ Grown
  BY <1>6, QueueMoves
<1>7. CASE Conclude
  BY <1>7, ConcludeMoves
<1>8. CASE UNCHANGED row
  BY <1>8 DEF TypeInv, RowInv, Grown, Ordered, Backed
<1> QED BY <1>1, <1>2, <1>3, <1>4, <1>5, <1>6, <1>7, <1>8, RowActions

\* An action that changes one object of the session, or none.
LEMMA SessionKept ==
  ASSUME TypeInv, Grown, UNCHANGED session \/ \E p \in Packages : SessionMoved(p) /\ Ordered(p)
  PROVE  SessionInv' /\ \A p \in Packages : session[p] # None => session'[p] # None
<1>1. CASE UNCHANGED session
  BY <1>1 DEF TypeInv, SessionInv, Grown, Ordered
<1>2. ASSUME NEW p \in Packages, SessionMoved(p), Ordered(p)
      PROVE  SessionInv' /\ \A q \in Packages : session[q] # None => session'[q] # None
  BY <1>2 DEF TypeInv, SessionInv, SessionMoved, Grown, Ordered
<1> QED BY <1>1, <1>2

\* The actions that change the session.
LEMMA SessionActions ==
  ASSUME Next
  PROVE  \/ \E p \in Packages : Read(p) \/ QueueCommand(p)
         \/ \E c \in Commands : HandleReport(c) \/ HandleError(c)
         \/ Conclude \/ NextLoop \/ session' = Unread \/ UNCHANGED session
BY DEF Next, Web, Worker, Outside, CreateOrder, Redirect, AskUps, SaveRedirect, Callback,
       EndArrival, EndDelivery, EndCallback, ThreadDies, StartCycle, SyncAgain,
       Answered, Rejected, AttemptFails, WorkerDies,
       UpsArrives, UpsDelivers, CallbackLost, CarryOut, ReportAgain, PassOver, Tear, ReportNotSaved

LEMMA SessionStep ==
  ASSUME TypeInv, Next
  PROVE  SessionInv'
<1>1. Grown /\ RowInv'
  BY RowStep
<1>2. CASE UNCHANGED session
  BY <1>1, <1>2, SessionKept
<1>3. ASSUME NEW c \in Commands, HandleReport(c) PROVE SessionInv'
  <2>1. Ordered(c[2])
    BY <1>3 DEF HandleReport, TypeInv, CommandInv
  <2> QED BY <1>1, <1>3, <2>1, SessionKept, ReportMoves
<1>4. ASSUME NEW c \in Commands, HandleError(c) PROVE SessionInv'
  BY <1>1, <1>4, SessionKept, ErrorMoves
<1>5. ASSUME NEW p \in Packages, QueueCommand(p) PROVE SessionInv'
  <2>1. Ordered(p)
    BY <1>5 DEF QueueCommand, TypeInv, WorkerInv, SessionInv
  <2> QED BY <1>1, <1>5, <2>1, SessionKept, QueueMoves
<1>6. CASE Conclude
  <2>1. Ordered(worker.on)
    BY <1>6, ConcludeMoves DEF TypeInv, WorkerInv, SessionInv
  <2> QED BY <1>1, <1>6, <2>1, SessionKept, ConcludeMoves
<1>7. CASE session' = Unread
  BY <1>7 DEF Unread, SessionInv
<1>8. ASSUME NEW p \in Packages, Read(p) PROVE SessionInv'
  <2>1. PICK c \in reports : c[2] = p
    BY <1>8 DEF Read
  <2>2. Ordered(p)
    BY <2>1 DEF TypeInv, CommandInv
  <2>3. session' = [session EXCEPT ![p] = row[p]] /\ row' = row
    BY <1>8 DEF Read
  <2> QED BY <2>2, <2>3 DEF TypeInv, SessionInv, RowInv, Ordered
<1>9. CASE NextLoop
  <2>1. row' = row
    BY <1>9 DEF NextLoop
  <2>2. \A p \in Packages : session'[p] \in {session[p], None} \/ (session'[p] = row[p] /\ Ordered(p))
    BY <1>9 DEF NextLoop, Due, Ordered
  <2>3. DOMAIN session' = Packages /\ session' = [p \in Packages |-> session'[p]]
    BY <1>9 DEF NextLoop
  <2> QED BY <2>1, <2>2, <2>3 DEF TypeInv, SessionInv, RowInv, Ordered
<1> QED BY <1>2, <1>3, <1>4, <1>5, <1>6, <1>7, <1>8, <1>9, SessionActions

\* The actions that change a request.
LEMMA ThreadActions ==
  ASSUME Next
  PROVE  \/ UNCHANGED thread
         \/ \E h \in Threads :
              \/ thread' = [thread EXCEPT ![h] = Free]
              \/ AskUps(h)
              \/ \E p \in Packages : Callback(h, p) \/ \E d \in Dests : Redirect(h, p, d)
BY DEF Next, Web, Worker, Outside, CreateOrder, SaveRedirect, EndArrival, EndDelivery,
       EndCallback, ThreadDies, StartCycle, NextLoop, SyncAgain, Read, QueueCommand,
       HandleReport, HandleError, Conclude, Answered, Rejected, AttemptFails, WorkerDies,
       UpsArrives, UpsDelivers, CallbackLost, CarryOut, ReportAgain, PassOver, Tear, ReportNotSaved

LEMMA ThreadStep ==
  ASSUME TypeInv, Next
  PROVE  ThreadInv'
<1>1. Grown /\ RowInv'
  BY RowStep
<1> DEFINE Fits(r) ==
      r # Free =>
        /\ r.op # "free" /\ r.pkg \in Packages /\ Ordered(r.pkg) /\ r.seen.done \subseteq row[r.pkg].done
        /\ r.op \in {"save", "ask"} => r.arg \in Dests
        /\ r.op = "truck_arrived" => r.arg \in Trucks \cup {None}
<1>2. \A g \in Threads : thread[g] \in Request /\ Fits(thread[g])
  BY DEF TypeInv, ThreadInv
<1>3. ASSUME NEW h \in Threads, NEW r \in Request, Fits(r), thread' = [thread EXCEPT ![h] = r]
      PROVE  ThreadInv'
  BY <1>1, <1>2, <1>3 DEF TypeInv, ThreadInv, Grown
<1>4. Free \in Request /\ Fits(Free)
  BY AmazonOrdersAssumption, StatusesAre DEF Free, Request, Row, NoOrder
<1>5. CASE UNCHANGED thread
  BY <1>1, <1>2, <1>5 DEF TypeInv, ThreadInv, Grown
<1>6. ASSUME NEW h \in Threads, thread' = [thread EXCEPT ![h] = Free] PROVE ThreadInv'
  <2> HIDE DEF Fits
  <2> QED BY <1>3, <1>4, <1>6
<1>7. ASSUME NEW h \in Threads, NEW p \in Packages, NEW d \in Dests, Redirect(h, p, d)
      PROVE  ThreadInv'
  <2> DEFINE seen == [NoOrder EXCEPT !.dest = row[p].dest]
             r == [op |-> IF row[p].status = "created" THEN "save" ELSE "ask",
                   pkg |-> p, seen |-> seen, arg |-> d]
  <2>0. seen \in Row /\ seen.done = {}
    BY AmazonOrdersAssumption DEF TypeInv, RowInv, Row, NoOrder
  <2> HIDE DEF seen
  <2>1. r \in Request /\ Fits(r)
    BY <1>7, <2>0 DEF Redirect, Request, Ordered
  <2>2. thread' = [thread EXCEPT ![h] = r]
    BY <1>7 DEF Redirect, seen
  <2> HIDE DEF Fits, r
  <2> QED BY <1>3, <2>1, <2>2
<1>8. ASSUME NEW h \in Threads, AskUps(h) PROVE ThreadInv'
  <2>1. CASE thread' = [thread EXCEPT ![h] = Free]
    BY <1>6, <2>1
  <2>2. CASE thread' = [thread EXCEPT ![h].op = "save"]
    <3> DEFINE r == [thread[h] EXCEPT !.op = "save"]
    <3>1. thread[h].op = "ask"
      BY <1>8 DEF AskUps
    <3>2. r \in Request /\ Fits(r)
      BY <1>2, <3>1 DEF Request, Free
    <3>3. thread' = [thread EXCEPT ![h] = r]
      BY <2>2 DEF TypeInv, ThreadInv
    <3> HIDE DEF Fits, r
    <3> QED BY <1>3, <3>2, <3>3
  <2> QED BY <1>8, <2>1, <2>2 DEF AskUps
<1>9. ASSUME NEW h \in Threads, NEW p \in Packages, Callback(h, p) PROVE ThreadInv'
  <2>1. PICK o \in Owed(p) :
          thread' = [thread EXCEPT ![h] =
            [op |-> o, pkg |-> p, seen |-> row[p],
             arg |-> IF o = "truck_arrived" THEN ups[p].truck ELSE None]]
    BY <1>9 DEF Callback
  <2> DEFINE r == [op |-> o, pkg |-> p, seen |-> row[p],
                   arg |-> IF o = "truck_arrived" THEN ups[p].truck ELSE None]
  <2>2. o \in {"truck_arrived", "delivered"} /\ ups[p].status # "none"
    BY <2>1 DEF Owed
  <2>3. r \in Request /\ Fits(r)
    BY <2>2 DEF Request, TypeInv, RowInv, UpsInv, Shipment
  <2>4. thread' = [thread EXCEPT ![h] = r]
    BY <2>1
  <2> HIDE DEF Fits, r
  <2> QED BY <1>3, <2>3, <2>4
<1> QED BY <1>5, <1>6, <1>7, <1>8, <1>9, ThreadActions

LEMMA DoneFits ==
  ASSUME TypeInv, NEW p \in Packages
  PROVE  /\ Done(p) \in Cycle /\ Done(p).at = worker.at /\ Done(p).todo = worker.todo \ {p}
         /\ Done(p).on = None /\ Done(p).tries = 0 /\ Done(p).reply = None
<1>1. worker \in Cycle
  BY DEF TypeInv, WorkerInv
<1>2. 0 \in 0..Attempts
  BY AmazonOrdersAssumption
<1> QED BY <1>1, <1>2 DEF Done, Cycle

LEMMA WorkerStep ==
  ASSUME TypeInv, Next
  PROVE  WorkerInv'
<1>1. worker \in Cycle
  BY DEF TypeInv, WorkerInv
<1>2. Grown /\ RowInv'
  BY RowStep
<1>3. ASSUME UNCHANGED worker, UNCHANGED session \/ \E p \in Packages : SessionMoved(p) /\ Ordered(p)
      PROVE  WorkerInv'
  BY <1>2, <1>3, SessionKept DEF TypeInv, WorkerInv, Cycle
<1>4. ASSUME NEW c \in Commands, HandleReport(c) PROVE WorkerInv'
  <2>1. Ordered(c[2]) /\ UNCHANGED worker
    BY <1>4 DEF HandleReport, TypeInv, CommandInv
  <2> QED BY <1>3, <1>4, <2>1, ReportMoves
<1>5. ASSUME NEW c \in Commands, HandleError(c) PROVE WorkerInv'
  <2>1. UNCHANGED worker
    BY <1>5 DEF HandleError
  <2> QED BY <1>3, <1>5, <2>1, ErrorMoves
<1>6. ASSUME NEW p \in Packages, worker' = Done(p), worker.at \in Loops,
             p \in worker.todo, worker.on \in {None, p},
             UNCHANGED session \/ (SessionMoved(p) /\ Ordered(p))
      PROVE  WorkerInv'
  <2>1. \A q \in Packages : session[q] # None => session'[q] # None
    BY <1>2, <1>6, SessionKept
  <2>2. /\ worker' \in Cycle /\ worker'.at = worker.at /\ worker'.todo = worker.todo \ {p}
        /\ worker'.on = None /\ worker'.tries = 0 /\ worker'.reply = None
    BY <1>6, DoneFits
  <2>3. \A q \in worker'.todo : session'[q] # None
    BY <1>1, <2>1, <2>2 DEF TypeInv, WorkerInv, Cycle
  <2>4. 0 < Attempts
    BY AmazonOrdersAssumption
  <2> QED BY <1>6, <2>2, <2>3, <2>4 DEF WorkerInv
<1>7. ASSUME NEW p \in Packages, QueueCommand(p) PROVE WorkerInv'
  <2>1. worker' = Done(p) /\ worker.at \in DOMAIN Asks /\ p \in worker.todo
    BY <1>7 DEF QueueCommand
  <2>2. Ordered(p)
    BY <2>1 DEF TypeInv, WorkerInv, SessionInv
  <2>3. worker.at \in Loops
    BY <2>1, FlagsAre DEF Loops
  <2>4. worker.on = None
    BY <2>1, FlagsAre DEF TypeInv, WorkerInv
  <2> QED BY <1>6, <1>7, <2>1, <2>2, <2>3, <2>4, QueueMoves
<1>8. CASE Conclude
  <2>1. worker' = Done(worker.on) /\ worker.reply # None
    BY <1>8 DEF Conclude
  <2>2. worker.on \in worker.todo /\ worker.on \in Packages /\ SessionMoved(worker.on)
    BY <1>8, ConcludeMoves
  <2>3. Ordered(worker.on)
    BY <2>2 DEF TypeInv, WorkerInv, SessionInv
  <2>4. worker.at \in Loops
    BY <2>1 DEF TypeInv, WorkerInv, Loops
  <2> QED BY <1>6, <2>1, <2>2, <2>3, <2>4
<1>9. CASE StartCycle \/ SyncAgain
  <2>1. worker' = [worker EXCEPT !.at = "first"] \/ worker' = [worker EXCEPT !.at = "last"]
    BY <1>9 DEF StartCycle, SyncAgain
  <2>2. worker.todo = {} /\ worker.on = None
    BY <1>9 DEF StartCycle, SyncAgain, TypeInv, WorkerInv, Loops
  <2>3. worker' \in Cycle /\ worker'.at \in {"first", "last"} /\ worker'.todo = {}
        /\ worker'.on = None /\ worker'.tries = worker.tries /\ worker'.reply = worker.reply
    BY <1>1, <2>1, <2>2 DEF Cycle
  <2> QED BY <2>2, <2>3 DEF TypeInv, WorkerInv, Loops
<1>10. ASSUME NEW p \in Packages, Read(p) PROVE WorkerInv'
  <2>1. worker' = worker /\ worker.todo = {}
    BY <1>10 DEF Read, Syncing, TypeInv, WorkerInv, Loops
  <2> QED BY <2>1 DEF TypeInv, WorkerInv, Cycle
<1>11. CASE NextLoop
  <2> DEFINE l == Following[worker.at]
             todo == worker'.todo
  <2>1. worker.at \in DOMAIN Following \ {"notice"} /\ worker.todo = {} /\ worker.on = None
    BY <1>11 DEF NextLoop
  <2>2. l \in Loops
    BY <2>1 DEF Following, Loops
  <2>3. PICK new \in SUBSET Packages : worker' = [worker EXCEPT !.at = l, !.todo = new]
    BY <1>11 DEF NextLoop
  <2>4. \A p \in new : Due(l, row[p]) /\ session'[p] # None
    <3>1. new = worker'.todo
      BY <1>1, <2>3 DEF Cycle
    <3>2. \A p \in new : p \in Packages /\ Due(l, row[p])
      BY <1>11, <1>1, <3>1 DEF NextLoop, Cycle
    <3>3. \A p \in Packages : row[p] # None
      BY NoneIsNoRow DEF TypeInv, RowInv
    <3>4. PICK kept \in SUBSET {p \in Packages : session[p] # None} :
            session' = [p \in Packages |-> IF p \in kept THEN session[p]
                         ELSE IF p \in {q \in Packages : Due(l, row[q])} THEN row[p] ELSE None]
      BY <1>11 DEF NextLoop
    <3> QED BY <3>2, <3>3, <3>4
  <2>5. /\ worker' \in Cycle /\ worker'.at = l /\ worker'.todo = new
        /\ worker'.on = worker.on /\ worker'.tries = worker.tries /\ worker'.reply = worker.reply
    BY <1>1, <2>2, <2>3 DEF Cycle
  <2> QED BY <2>1, <2>2, <2>4, <2>5 DEF TypeInv, WorkerInv
<1>12. ASSUME NEW p \in Packages, Answered(p) \/ Rejected(p) \/ AttemptFails(p) PROVE WorkerInv'
  <2>1. Calling(p) /\ UNCHANGED session
    BY <1>12 DEF Answered, Rejected, AttemptFails
  <2>2. worker.tries < Attempts /\ p \in worker.todo /\ worker.at \in {"pickup", "notice"}
    BY <2>1 DEF Calling, TypeInv, WorkerInv
  <2>3. worker.tries \in Nat /\ worker.tries + 1 \in 0..Attempts
    BY <1>1, <2>2, AmazonOrdersAssumption DEF Cycle
  <2>4. p # None
    BY AmazonOrdersAssumption
  <2>5. ASSUME NEW n \in 0..Attempts, NEW reply \in Trucks \cup {None, "error"},
               worker' = [worker EXCEPT !.on = p, !.tries = n, !.reply = reply],
               reply = None => n < Attempts
        PROVE  WorkerInv'
    <3>1. /\ worker' \in Cycle /\ worker'.at = worker.at /\ worker'.todo = worker.todo
          /\ worker'.on = p /\ worker'.tries = n /\ worker'.reply = reply
      BY <1>1, <2>5 DEF Cycle
    <3> QED BY <2>1, <2>2, <2>4, <2>5, <3>1 DEF TypeInv, WorkerInv, Loops
  <2>6. CASE AttemptFails(p)
    <3> DEFINE reply == IF worker.tries + 1 = Attempts THEN "error" ELSE None
    <3>1. worker' = [worker EXCEPT !.on = p, !.tries = worker.tries + 1, !.reply = reply]
      BY <1>1, <2>6 DEF AttemptFails, Cycle
    <3>2. reply \in Trucks \cup {None, "error"} /\ (reply = None => worker.tries + 1 < Attempts)
      BY <2>3, AmazonOrdersAssumption
    <3> HIDE DEF reply
    <3> QED BY <2>3, <2>5, <3>1, <3>2
  <2>7. CASE Rejected(p)
    <3>1. worker' = [worker EXCEPT !.on = p, !.reply = "error"]
      BY <2>7 DEF Rejected
    <3>2. worker' = [worker EXCEPT !.on = p, !.tries = worker.tries, !.reply = "error"]
      BY <1>1, <3>1 DEF Cycle
    <3> QED BY <1>1, <2>5, <3>2, AmazonOrdersAssumption DEF Cycle
  <2>8. CASE Answered(p)
    <3>1. ups' \in Handled(p) /\ worker' = [worker EXCEPT !.on = p, !.reply = ups'[p].truck]
      BY <2>8 DEF Answered
    <3>2. worker' = [worker EXCEPT !.on = p, !.tries = worker.tries, !.reply = ups'[p].truck]
      BY <1>1, <3>1 DEF Cycle
    <3>3. ups'[p] \in Shipment
      BY <2>2, <3>1, HandledIs DEF TypeInv, WorkerInv
    <3>4. ups'[p].truck \in Trucks \cup {None}
      BY <3>3 DEF Shipment
    <3> QED BY <1>1, <2>2, <2>5, <3>2, <3>4 DEF Cycle
  <2> QED BY <1>12, <2>6, <2>7, <2>8
<1>13. CASE worker' = Resting
  BY <1>13, AmazonOrdersAssumption DEF Resting, WorkerInv, Cycle, Loops
<1>14. \/ \E p \in Packages : Read(p) \/ QueueCommand(p) \/ Answered(p) \/ Rejected(p) \/ AttemptFails(p)
       \/ \E c \in Commands : HandleReport(c) \/ HandleError(c)
       \/ Conclude \/ NextLoop \/ StartCycle \/ SyncAgain \/ worker' = Resting
       \/ UNCHANGED <<worker, session>>
  BY DEF Next, Web, Worker, Outside, WorkerDies, CreateOrder, Redirect, AskUps, SaveRedirect, Callback,
         EndArrival, EndDelivery, EndCallback, ThreadDies,
         UpsArrives, UpsDelivers, CallbackLost, CarryOut, ReportAgain, PassOver, Tear, ReportNotSaved
<1>15. CASE UNCHANGED <<worker, session>>
  BY <1>3, <1>15
<1> QED BY <1>4, <1>5, <1>7, <1>8, <1>9, <1>10, <1>11, <1>12, <1>13, <1>14, <1>15

LEMMA CommandStep ==
  ASSUME TypeInv, Next
  PROVE  CommandInv'
<1>1. Grown
  BY RowStep
<1>2. \A c \in Commands : c[2] \in Packages
  BY DEF Commands
<1>3. ASSUME pending' \subseteq pending, fresh' \subseteq pending', torn' \in BOOLEAN,
             sent' \subseteq sent \cup fresh, made \subseteq made', made' \subseteq made \cup sent,
             reports' \subseteq made'
      PROVE  CommandInv'
  BY <1>1, <1>2, <1>3 DEF TypeInv, CommandInv, Grown, Ordered
<1>4. /\ pending \subseteq Commands /\ fresh \subseteq pending /\ torn \in BOOLEAN
      /\ sent \subseteq Commands /\ made \subseteq Commands /\ reports \subseteq made
  BY DEF TypeInv, CommandInv
<1>5. CASE StartCycle \/ SyncAgain
  BY <1>3, <1>4, <1>5 DEF StartCycle, SyncAgain, Synchronise
<1>6. ASSUME NEW p \in Packages, QueueCommand(p) PROVE CommandInv'
  <2> DEFINE c == <<Asks[worker.at].kind, p>>
  <2>1. /\ worker.at \in DOMAIN Asks /\ p \in worker.todo /\ pending' = pending \cup {c}
        /\ fresh' = fresh \cup ({c} \ pending) /\ UNCHANGED <<torn, sent, made, reports>>
    BY <1>6 DEF QueueCommand, world
  <2>2. c \in Commands /\ c[2] = p
    BY <2>1 DEF Commands, Kinds, Asks
  <2>3. Ordered(p)
    BY <2>1 DEF TypeInv, WorkerInv, SessionInv
  <2> HIDE DEF c
  <2> QED BY <1>1, <1>2, <2>1, <2>2, <2>3 DEF TypeInv, CommandInv, Grown, Ordered
<1>7. ASSUME NEW c \in Commands, HandleReport(c) \/ HandleError(c) \/ ReportNotSaved(c)
      PROVE  CommandInv'
  <2>1. /\ pending' \subseteq pending /\ fresh' \subseteq pending' /\ UNCHANGED <<torn, made>>
        /\ sent' \subseteq sent /\ reports' \subseteq reports
    BY <1>4, <1>7 DEF HandleReport, HandleError, ReportNotSaved, Complete, queue
  <2> QED BY <1>3, <1>4, <2>1
<1>8. CASE WorkerDies \/ Tear
  BY <1>3, <1>4, <1>8 DEF WorkerDies, Tear, queue, world
<1>9. ASSUME NEW c \in Commands, CarryOut(c) \/ PassOver(c) \/ ReportAgain(c) PROVE CommandInv'
  BY <1>3, <1>4, <1>9 DEF CarryOut, PassOver, ReportAgain, queue
<1>10. CASE UNCHANGED <<queue, world>>
  BY <1>3, <1>4, <1>10 DEF queue, world
<1>11. \/ \E p \in Packages : QueueCommand(p)
       \/ \E c \in Commands : \/ HandleReport(c) \/ HandleError(c) \/ ReportNotSaved(c)
                              \/ CarryOut(c) \/ PassOver(c) \/ ReportAgain(c)
       \/ StartCycle \/ SyncAgain \/ WorkerDies \/ Tear \/ UNCHANGED <<queue, world>>
  BY DEF Next, Web, Worker, Outside, CreateOrder, Redirect, AskUps, SaveRedirect, Callback,
         EndArrival, EndDelivery, EndCallback, ThreadDies, NextLoop, Read, Conclude,
         Answered, Rejected, AttemptFails, UpsArrives, UpsDelivers, CallbackLost
<1> QED BY <1>5, <1>6, <1>7, <1>8, <1>9, <1>10, <1>11

\* The kinds of step at UPS.
LEMMA UpsSteps ==
  ASSUME TypeInv, Next
  PROVE  \/ ups' \in [Packages -> Shipment] /\ UpsStill
         \/ \E p \in Packages :
              \/ UpsArrives(p) \/ UpsDelivers(p)
              \/ /\ Answered(p) \/ AttemptFails(p)
                 /\ Calling(p) /\ session[p] # None /\ ups' \in Handled(p)
                 /\ UNCHANGED <<row, session, thread, pending, sent, made, recent>>
<1>1. \A p \in Packages : Calling(p) => session[p] # None
  BY DEF Calling, TypeInv, WorkerInv
<1>2. \/ UNCHANGED ups
      \/ \E h \in Threads : AskUps(h) \/ ThreadDies(h) \/ \E p \in Packages : Callback(h, p)
      \/ \E p \in Packages : CallbackLost(p) \/ UpsArrives(p) \/ UpsDelivers(p)
           \/ Answered(p) \/ AttemptFails(p)
  BY DEF Next, Web, Worker, Outside, CreateOrder, Redirect, SaveRedirect,
         EndArrival, EndDelivery, EndCallback, NextLoop, Read, Conclude, QueueCommand,
         StartCycle, SyncAgain, HandleReport, HandleError, WorkerDies,
         Rejected, CarryOut, ReportAgain, PassOver, Tear, ReportNotSaved
<1>3. ASSUME NEW p \in Packages, Answered(p) \/ AttemptFails(p)
      PROVE  /\ ups' = ups \/ ups' \in Handled(p)
             /\ Calling(p) /\ UNCHANGED <<row, session, thread, pending, sent, made, recent>>
  BY <1>3 DEF Answered, AttemptFails, queue, world, history
<1> QED BY <1>1, <1>2, <1>3, StillMoves

LEMMA UpsStep ==
  ASSUME TypeInv, Next
  PROVE  UpsInv'
<1>1. Grown
  BY RowStep
<1>2. CASE ups' \in [Packages -> Shipment] /\ UpsStill
  BY <1>1, <1>2 DEF UpsStill, TypeInv, UpsInv, Grown, Ordered
<1>3. ASSUME NEW p \in Packages, UpsArrives(p) \/ UpsDelivers(p) PROVE UpsInv'
  <2>1. Ordered(p)
    BY <1>3 DEF UpsArrives, UpsDelivers, TypeInv, UpsInv
  <2> QED BY <1>1, <1>3, <2>1, ArrivesMoves, DeliversMoves DEF TypeInv, UpsInv, Grown, Ordered
<1>4. ASSUME NEW p \in Packages, Calling(p), session[p] # None, ups' \in Handled(p)
      PROVE  UpsInv'
  <2>1. Ordered(p)
    BY <1>4 DEF TypeInv, SessionInv
  <2> QED BY <1>1, <1>4, <2>1, HandledIs DEF TypeInv, UpsInv, Grown, Ordered
<1> QED BY <1>2, <1>3, <1>4, UpsSteps

LEMMA MiscStep ==
  ASSUME TypeInv, Next
  PROVE  MiscInv'
<1>1. /\ stock \in Nat /\ recent \in [Packages -> SUBSET (Dests \cup {None})]
      /\ repeated \in BOOLEAN /\ restarted \in BOOLEAN /\ stranded \subseteq Packages
      /\ faults \in 0..MaxFaults /\ MaxFaults \in Nat
  BY AmazonOrdersAssumption DEF TypeInv, MiscInv
<1>2. RowInv'
  BY RowStep
<1>3. \A p \in Packages : row[p].dest \in Dests \cup {None} /\ row'[p].dest \in Dests \cup {None}
  BY <1>2 DEF TypeInv, RowInv, Row
<1>4. stock' \in Nat
  <2>1. ASSUME NEW c \in Commands, HandleReport(c) PROVE stock' \in Nat
    BY <1>1, <2>1 DEF HandleReport, StockAfter, Commands, Kinds
  <2>2. UNCHANGED stock \/ \E c \in Commands : HandleReport(c)
    BY DEF Next, Web, Worker, Outside, CreateOrder, Redirect, AskUps, SaveRedirect, Callback,
           EndArrival, EndDelivery, EndCallback, ThreadDies, NextLoop, Read, Conclude,
           QueueCommand, StartCycle, SyncAgain, HandleError, WorkerDies, Answered, Rejected,
           AttemptFails, UpsArrives, UpsDelivers, CallbackLost, CarryOut, ReportAgain, PassOver, Tear, ReportNotSaved, history
  <2> QED BY <1>1, <2>1, <2>2
<1>5. recent' \in [Packages -> SUBSET (Dests \cup {None})]
  <2>1. ASSUME NEW p \in Packages, CreateOrder(p)
        PROVE  recent' \in [Packages -> SUBSET (Dests \cup {None})]
    BY <1>1, <2>1, AmazonOrdersAssumption DEF CreateOrder
  <2>2. ASSUME NEW h \in Threads, SaveRedirect(h)
        PROVE  recent' \in [Packages -> SUBSET (Dests \cup {None})]
    BY <1>1, <1>3, <2>2, SaveRedirectMoves DEF SaveRedirect
  <2>3. CASE StartCycle
    BY <1>3, <2>3 DEF StartCycle
  <2>4. \/ UNCHANGED recent \/ StartCycle
        \/ \E p \in Packages : CreateOrder(p)
        \/ \E h \in Threads : SaveRedirect(h)
    BY DEF Next, Web, Worker, Outside, Redirect, AskUps, Callback,
           EndArrival, EndDelivery, EndCallback, ThreadDies, NextLoop, Read, Conclude,
           QueueCommand, SyncAgain, HandleReport, HandleError, WorkerDies, Answered, Rejected,
           AttemptFails, UpsArrives, UpsDelivers, CallbackLost, CarryOut, ReportAgain, PassOver, Tear, ReportNotSaved, history
  <2> QED BY <1>1, <2>1, <2>2, <2>3, <2>4
<1>6. faults' \in 0..MaxFaults
  <2>1. UNCHANGED faults \/ Fault
    BY DEF Next, Web, Worker, Outside, CreateOrder, Redirect, AskUps, SaveRedirect, Callback,
           EndArrival, EndDelivery, EndCallback, ThreadDies, NextLoop, Read, Conclude,
           QueueCommand, StartCycle, SyncAgain, HandleReport, HandleError, WorkerDies, Answered,
           Rejected, AttemptFails, UpsArrives, UpsDelivers, CallbackLost, CarryOut, ReportAgain, PassOver, Tear, ReportNotSaved, Synchronise, HandleReport
  <2> QED BY <1>1, <2>1 DEF Fault
<1>7. repeated' \in BOOLEAN
  <2>1. UNCHANGED repeated \/ \E c \in Commands : HandleReport(c)
    BY DEF Next, Web, Worker, Outside, CreateOrder, Redirect, AskUps, SaveRedirect, Callback,
           EndArrival, EndDelivery, EndCallback, ThreadDies, NextLoop, Read, Conclude,
           QueueCommand, StartCycle, SyncAgain, HandleError, WorkerDies, Answered, Rejected,
           AttemptFails, UpsArrives, UpsDelivers, CallbackLost, CarryOut, ReportAgain, PassOver, Tear, ReportNotSaved, history
  <2>2. ASSUME NEW c \in Commands, HandleReport(c) PROVE repeated' \in BOOLEAN
    BY <2>2 DEF HandleReport
  <2> QED BY <1>1, <2>1, <2>2
<1>8. restarted' \in BOOLEAN /\ stranded' \subseteq Packages
  <2>1. UNCHANGED restarted \/ restarted' = TRUE
    BY DEF Next, Web, Worker, Outside, CreateOrder, Redirect, AskUps, SaveRedirect, Callback,
           EndArrival, EndDelivery, EndCallback, ThreadDies, NextLoop, Read, Conclude,
           QueueCommand, StartCycle, SyncAgain, HandleReport, HandleError, WorkerDies, Answered,
           Rejected, AttemptFails, UpsArrives, UpsDelivers, CallbackLost, CarryOut, ReportAgain, PassOver, Tear, ReportNotSaved, history
  <2>2. UNCHANGED stranded \/ \E p \in Packages : stranded' = stranded \cup {p}
    BY DEF Next, Web, Worker, Outside, CreateOrder, Redirect, AskUps, SaveRedirect, Callback,
           EndArrival, EndDelivery, EndCallback, ThreadDies, NextLoop, Read, Conclude,
           QueueCommand, StartCycle, SyncAgain, HandleReport, HandleError, WorkerDies, Answered,
           Rejected, AttemptFails, UpsArrives, UpsDelivers, CallbackLost, CarryOut, ReportAgain, PassOver, Tear, ReportNotSaved, history, Commands
  <2> QED BY <1>1, <2>1, <2>2
<1> QED BY <1>4, <1>5, <1>6, <1>7, <1>8 DEF MiscInv

LEMMA TypeStart == Init => TypeInv
<1> SUFFICES ASSUME Init PROVE TypeInv
  OBVIOUS
<1>1. NoOrder \in Row /\ Backed(NoOrder) /\ NoOrder.status = "none"
  BY DEF NoOrder, Row, Backed
<1>2. RowInv
  BY <1>1 DEF Init, RowInv, Ordered
<1>3. SessionInv
  BY DEF Init, Unread, SessionInv
<1>4. WorkerInv
  BY AmazonOrdersAssumption DEF Init, Resting, WorkerInv, Cycle, Loops
<1>5. ThreadInv
  BY <1>1 DEF Init, Free, ThreadInv, Request
<1>6. CommandInv
  BY DEF Init, CommandInv
<1>7. UpsInv
  BY DEF Init, UpsInv, Shipment
<1>8. MiscInv
  <2>1. stock \in Nat /\ faults \in 0..MaxFaults
    BY AmazonOrdersAssumption DEF Init
  <2>2. repeated \in BOOLEAN /\ restarted \in BOOLEAN /\ stranded \subseteq Packages
    BY DEF Init
  <2>3. recent \in [Packages -> SUBSET (Dests \cup {None})]
    BY DEF Init
  <2> QED BY <2>1, <2>2, <2>3 DEF MiscInv
<1> QED BY <1>2, <1>3, <1>4, <1>5, <1>6, <1>7, <1>8 DEF TypeInv

LEMMA TypeStep == TypeInv /\ [Next]_vars => TypeInv'
<1>1. CASE TypeInv /\ Next
  BY <1>1, RowStep, SessionStep, WorkerStep, ThreadStep, CommandStep, UpsStep, MiscStep DEF TypeInv
<1>2. CASE TypeInv /\ UNCHANGED vars
  <2>1. /\ RowInv' /\ SessionInv'
    BY <1>2 DEF vars, TypeInv, RowInv, SessionInv, Ordered, Backed
  <2>2. /\ WorkerInv' /\ ThreadInv'
    BY <1>2 DEF vars, TypeInv, WorkerInv, ThreadInv, Ordered
  <2>3. /\ CommandInv' /\ UpsInv' /\ MiscInv'
    BY <1>2 DEF vars, queue, world, history, TypeInv, CommandInv, UpsInv, MiscInv, Ordered
  <2> QED BY <2>1, <2>2, <2>3 DEF TypeInv
<1> QED BY <1>1, <1>2

LEMMA Typed == Spec => []TypeInv
BY TypeStart, TypeStep, PTL DEF Spec

\* Every variable keeps its type, and the worker holds what is on its list.
THEOREM TypeCorrect == Spec => []TypeOK
<1>1. TypeInv => TypeOK
  <2> SUFFICES ASSUME TypeInv PROVE TypeOK
    OBVIOUS
  <2>1. DOMAIN Following = Loops \cup {"first"}
    BY DEF Following, Loops
  <2>2. worker \in Cycle /\ thread \in [Threads -> Request] /\ ups \in [Packages -> Shipment]
    BY DEF TypeInv, WorkerInv, ThreadInv, UpsInv
  <2> QED BY <2>1, <2>2 DEF TypeInv, TypeOK, Cycle, Loops, Request, Shipment, RowInv,
             SessionInv, WorkerInv, CommandInv, MiscInv
<1> QED BY <1>1, Typed, PTL

\* No status runs ahead of the milestones of its row, whichever stale objects
\* are committed.
THEOREM StatusSound == Spec => []StatusNeverAhead
<1>1. TypeInv => StatusNeverAhead
  BY DEF TypeInv, RowInv, Backed, StatusNeverAhead
<1> QED BY <1>1, Typed, PTL

-----------------------------------------------------------------------------
(* Redirects.                                                              *)

\* The row and the session have an address that the row had in this cycle.
DestInv ==
  \A p \in Packages :
    /\ Ordered(p) => row[p].dest \in recent[p]
    /\ session[p] # None => session[p].dest \in recent[p]

\* Saving a redirect is the only step that changes the address of an order.
LEMMA DestSteps ==
  ASSUME TypeInv, Next, NEW q \in Packages, Ordered(q), row'[q].dest # row[q].dest
  PROVE  \E h \in Threads : SaveRedirect(h) /\ thread[h].pkg = q
<1>1. ASSUME NEW p \in Packages, CreateOrder(p) PROVE row'[q].dest = row[q].dest
  BY <1>1, CreateMoves DEF Ordered
<1>2. ASSUME NEW h \in Threads, SaveRedirect(h)
      PROVE  row'[q].dest = row[q].dest \/ thread[h].pkg = q
  BY <1>2, SaveRedirectMoves
<1>3. ASSUME NEW h \in Threads, EndArrival(h) \/ EndDelivery(h)
      PROVE  row'[q].dest = row[q].dest
  BY <1>3, EndMoves
<1>4. ASSUME NEW c \in Commands, HandleReport(c) PROVE row'[q].dest = row[q].dest
  BY <1>4, ReportMoves
<1>5. ASSUME NEW c \in Commands, HandleError(c) PROVE row'[q].dest = row[q].dest
  <2>1. \A r \in Packages : row'[r].dest = row[r].dest
    BY <1>5, ErrorMoves, Zenon
  <2> QED BY <2>1
<1>6. ASSUME NEW p \in Packages, QueueCommand(p) PROVE row'[q].dest = row[q].dest
  BY <1>6, QueueMoves
<1>7. CASE Conclude
  BY <1>7, ConcludeMoves
<1> QED BY <1>1, <1>2, <1>3, <1>4, <1>5, <1>6, <1>7, RowActions

\* The session takes its addresses from the rows.
LEMMA SessionSteps ==
  ASSUME TypeInv, Next, NEW q \in Packages, session'[q] # None
  PROVE  \/ session[q] # None /\ session'[q].dest = session[q].dest
         \/ Ordered(q) /\ session'[q].dest = row[q].dest
<1> DEFINE Taken == \/ session[q] # None /\ session'[q].dest = session[q].dest
                    \/ Ordered(q) /\ session'[q].dest = row[q].dest
<1>1. ASSUME UNCHANGED session \/ \E p \in Packages : SessionMoved(p) /\ Ordered(p)
      PROVE  Taken
  BY <1>1 DEF SessionMoved, Known
<1>2. ASSUME NEW c \in Commands, HandleReport(c) PROVE Taken
  <2>1. Ordered(c[2])
    BY <1>2 DEF HandleReport, TypeInv, CommandInv
  <2> QED BY <1>1, <1>2, <2>1, ReportMoves
<1>3. ASSUME NEW c \in Commands, HandleError(c) PROVE Taken
  BY <1>1, <1>3, ErrorMoves
<1>4. ASSUME NEW p \in Packages, QueueCommand(p) PROVE Taken
  <2>1. Ordered(p)
    BY <1>4 DEF QueueCommand, TypeInv, WorkerInv, SessionInv
  <2> QED BY <1>1, <1>4, <2>1, QueueMoves
<1>5. CASE Conclude
  <2>1. Ordered(worker.on)
    BY <1>5, ConcludeMoves DEF TypeInv, WorkerInv, SessionInv
  <2> QED BY <1>1, <1>5, <2>1, ConcludeMoves
<1>6. CASE session' = Unread
  BY <1>6 DEF Unread
<1>7. ASSUME NEW p \in Packages, Read(p) PROVE Taken
  <2>1. Ordered(p)
    BY <1>7 DEF Read, TypeInv, CommandInv
  <2> QED BY <1>7, <2>1 DEF Read, TypeInv, SessionInv
<1>8. CASE NextLoop
  <2>1. session'[q] \in {session[q], None} \/ (session'[q] = row[q] /\ Ordered(q))
    BY <1>8 DEF NextLoop, Due, Ordered
  <2> QED BY <2>1
<1> QED BY <1>1, <1>2, <1>3, <1>4, <1>5, <1>6, <1>7, <1>8, SessionActions

\* The history is begun anew with an empty session and otherwise grows.
LEMMA RecentSteps ==
  ASSUME TypeInv, Next
  PROVE  \/ UNCHANGED recent
         \/ /\ recent' = [p \in Packages |-> {row[p].dest}]
            /\ session' = Unread /\ UNCHANGED row
         \/ \E p \in Packages : CreateOrder(p) /\ recent' = [recent EXCEPT ![p] = {Home}]
         \/ \E h \in Threads : /\ SaveRedirect(h)
                               /\ recent' = [recent EXCEPT ![thread[h].pkg] =
                                               @ \cup {row'[thread[h].pkg].dest}]
BY DEF Next, Web, Worker, Outside, CreateOrder, Redirect, AskUps, SaveRedirect, Callback,
       EndArrival, EndDelivery, EndCallback, ThreadDies, NextLoop, Read, Conclude,
       QueueCommand, StartCycle, SyncAgain, HandleReport, HandleError, WorkerDies, Answered,
       Rejected, AttemptFails, UpsArrives, UpsDelivers, CallbackLost, CarryOut, ReportAgain, PassOver, Tear, ReportNotSaved, history

\* Whoever writes the row of an order has found the order there.
LEMMA RowOwners ==
  ASSUME TypeInv, Next, NEW q \in Packages, row'[q] # row[q]
  PROVE  Ordered(q) \/ CreateOrder(q)
<1>1. ASSUME NEW p \in Packages, CreateOrder(p) PROVE p = q
  BY <1>1, CreateMoves
<1>2. ASSUME NEW h \in Threads, SaveRedirect(h) \/ EndArrival(h) \/ EndDelivery(h) PROVE Ordered(q)
  <2>1. thread[h] # Free
    BY <1>2 DEF SaveRedirect, EndArrival, EndDelivery, Free
  <2>2. Ordered(thread[h].pkg)
    BY <2>1 DEF TypeInv, ThreadInv
  <2>3. q = thread[h].pkg
    BY <1>2, SaveRedirectMoves, EndMoves
  <2> QED BY <2>2, <2>3
<1>3. ASSUME NEW p \in Packages, session[p] # None PROVE Ordered(p)
  BY <1>3 DEF TypeInv, SessionInv
<1>4. ASSUME NEW c \in Commands, HandleReport(c) PROVE Ordered(q)
  <2>1. q = c[2] /\ session[c[2]] # None
    BY <1>4, ReportMoves DEF HandleReport
  <2> QED BY <1>3, <2>1
<1>5. ASSUME NEW p \in Packages, QueueCommand(p) PROVE Ordered(q)
  <2>1. q = p /\ session[p] # None
    BY <1>5, QueueMoves DEF QueueCommand, TypeInv, WorkerInv
  <2> QED BY <1>3, <2>1
<1>6. CASE Conclude
  <2>1. q = worker.on /\ session[q] # None
    BY <1>6, ConcludeMoves DEF TypeInv, WorkerInv
  <2> QED BY <1>3, <2>1
<1>7. ASSUME NEW c \in Commands, HandleError(c) PROVE Ordered(q)
  <2>1. \A r \in Packages : row'[r] # row[r] => Ordered(r)
    BY <1>7, ErrorMoves, Zenon
  <2> QED BY <2>1
<1> QED BY <1>1, <1>2, <1>4, <1>5, <1>6, <1>7, RowActions

LEMMA DestStep ==
  ASSUME TypeInv, DestInv, Next
  PROVE  DestInv'
<1>1. recent \in [Packages -> SUBSET (Dests \cup {None})]
  BY DEF TypeInv, MiscInv
<1>2. CASE /\ recent' = [p \in Packages |-> {row[p].dest}]
           /\ session' = Unread /\ UNCHANGED row
  BY <1>2 DEF DestInv, Unread
<1>3. ASSUME NEW p \in Packages, CreateOrder(p)
      PROVE  row'[p].dest \in recent'[p] /\ session'[p] = None
  <2>1. row'[p].dest = Home /\ row[p].status = "none"
    BY <1>3, CreateMoves
  <2>2. recent'[p] = {Home} /\ session' = session
    BY <1>1, <1>3 DEF CreateOrder
  <2>3. session[p] = None
    BY <2>1 DEF TypeInv, SessionInv, Ordered
  <2> QED BY <2>1, <2>2, <2>3
<1>4. ASSUME NEW p \in Packages, recent[p] \subseteq recent'[p]
      PROVE  /\ Ordered(p)' => row'[p].dest \in recent'[p]
             /\ session'[p] # None => session'[p].dest \in recent'[p]
  <2>1. ASSUME NEW h \in Threads, SaveRedirect(h), thread[h].pkg = p
        PROVE  row'[p].dest \in recent'[p]
    BY <1>1, <2>1 DEF SaveRedirect
  <2>2. CASE CreateOrder(p)
    BY <1>3, <2>2
  <2>3. CASE Ordered(p)
    BY <1>4, <2>1, <2>3, DestSteps, SessionSteps DEF DestInv
  <2>4. CASE ~Ordered(p) /\ ~CreateOrder(p)
    <3>1. row'[p] = row[p]
      BY <2>4, RowOwners
    <3>2. session'[p] # None => session'[p].dest \in recent'[p]
      BY <1>4, <2>4, SessionSteps DEF DestInv
    <3> QED BY <2>4, <3>1, <3>2 DEF Ordered
  <2> QED BY <2>2, <2>3, <2>4
<1>5. ASSUME NEW q \in Packages, CreateOrder(q), recent' = [recent EXCEPT ![q] = {Home}]
      PROVE  DestInv'
  <2>1. \A p \in Packages \ {q} : recent[p] \subseteq recent'[p]
    BY <1>1, <1>5
  <2> QED BY <1>3, <1>4, <1>5, <2>1 DEF DestInv
<1>6. CASE \A p \in Packages : recent[p] \subseteq recent'[p]
  BY <1>4, <1>6 DEF DestInv
<1>7. ASSUME NEW h \in Threads, recent' = [recent EXCEPT ![thread[h].pkg] =
                                            @ \cup {row'[thread[h].pkg].dest}]
      PROVE  \A p \in Packages : recent[p] \subseteq recent'[p]
  BY <1>1, <1>7
<1> QED BY <1>2, <1>5, <1>6, <1>7, RecentSteps

\* UPS delivers to an address that the order had since the cycle began.
THEOREM RedirectReaches == Spec => RedirectReachesUps
<1> DEFINE Told == \A p \in Packages :
                     ups'[p].leaving /\ (ups[p].status # "out" \/ ups'[p].dest # ups[p].dest)
                       /\ ups'[p].status = "out"
                     => ups'[p].dest \in recent[p]
<1>1. Init => DestInv
  BY DEF Init, NoOrder, Unread, Ordered, DestInv
<1>2. TypeInv /\ DestInv /\ [Next]_vars => DestInv'
  <2>1. CASE TypeInv /\ DestInv /\ UNCHANGED vars
    BY <2>1 DEF DestInv, Ordered, vars, history
  <2> QED BY <2>1, DestStep
<1>3. TypeInv /\ DestInv /\ [Next]_vars => [Told]_vars
  <2> SUFFICES ASSUME TypeInv, DestInv, Next PROVE Told
    OBVIOUS
  <2>1. CASE UpsStill
    BY <2>1 DEF UpsStill
  <2>2. ASSUME NEW p \in Packages, UpsArrives(p) PROVE Told
    BY <2>2, ArrivesMoves
  <2>3. ASSUME NEW p \in Packages, UpsDelivers(p) PROVE Told
    BY <2>3, DeliversMoves
  <2>4. ASSUME NEW p \in Packages, session[p] # None, ups' \in Handled(p) PROVE Told
    <3>1. ups'[p].dest \in recent[p]
      BY <2>4, HandledIs DEF DestInv
    <3>2. \A q \in Packages \ {p} : ups'[q] = ups[q]
      BY <2>4, HandledIs
    <3> QED BY <3>1, <3>2
  <2> QED BY <2>1, <2>2, <2>3, <2>4, UpsSteps
<1>4. RedirectReachesUps <=> [][Told]_vars
  BY DEF RedirectReachesUps
<1> HIDE DEF Told
<1> QED BY <1>1, <1>2, <1>3, <1>4, Typed, PTL DEF Spec
=============================================================================
