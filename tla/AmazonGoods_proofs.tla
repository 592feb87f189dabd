------------------------- MODULE AmazonGoods_proofs -------------------------
(***************************************************************************)
(* AmazonOrders implements Fulfilment, and what that rests on: the lists   *)
(* of the worker hold what its queries asked for until it comes to them,   *)
(* and no flag of a row, no command and no callback is ahead of the goods. *)
(***************************************************************************)
EXTENDS AmazonOrders_proofs

\* What is on a list was ready for that loop when the loop began and still is.
QueueInv ==
  \A p \in worker.todo : ~row[p].error /\ Wants[worker.at].has \subseteq row[p].done

\* Amazon believes nothing that has not happened, and orders nothing before
\* what it needs is believed.
GoodsInv ==
  /\ \A p \in Packages :
       /\ "inventory_arrived" \in row[p].done => <<"buy", p>> \in made
       /\ "packed" \in row[p].done => <<"pack", p>> \in made
       /\ "loaded" \in row[p].done => <<"load", p>> \in made
       /\ "truck_arrived" \in row[p].done => "met" \in ups[p].did
       /\ <<"pack", p>> \in pending \cup sent \cup made => "inventory_arrived" \in row[p].done
       /\ <<"load", p>> \in pending \cup sent \cup made => {"packed", "truck_arrived"} \subseteq row[p].done
       /\ ups[p].status = "waiting" => "met" \in ups[p].did
       /\ ups[p].leaving => "released" \in ups[p].did
  /\ \A h \in Threads : thread[h].op = "truck_arrived" => "met" \in ups[thread[h].pkg].did

OrderInv == TypeInv /\ QueueInv /\ GoodsInv

-----------------------------------------------------------------------------
(* The lists of the worker.                                                *)

\* Only a failure that is saved puts an error on a row.
LEMMA ErrorSteps ==
  ASSUME TypeInv, Next, NEW q \in Packages, row'[q].error
  PROVE  \/ row[q].error
         \/ \E c \in Commands : HandleError(c)
         \/ Conclude /\ q = worker.on
<1>1. ASSUME NEW p \in Packages, CreateOrder(p) PROVE row[q].error
  BY <1>1, CreateMoves
<1>2. ASSUME NEW h \in Threads, SaveRedirect(h) PROVE row[q].error
  BY <1>2, SaveRedirectMoves
<1>3. ASSUME NEW h \in Threads, EndArrival(h) \/ EndDelivery(h) PROVE row[q].error
  BY <1>3, EndMoves
<1>4. ASSUME NEW c \in Commands, HandleReport(c) PROVE row[q].error
  BY <1>4, ReportMoves
<1>5. ASSUME NEW p \in Packages, QueueCommand(p) PROVE row[q].error
  BY <1>5, QueueMoves
<1>6. CASE Conclude
  BY <1>6, ConcludeMoves
<1>7. \/ \E p \in Packages : CreateOrder(p) \/ QueueCommand(p)
      \/ \E h \in Threads : SaveRedirect(h) \/ EndArrival(h) \/ EndDelivery(h)
      \/ \E c \in Commands : HandleReport(c) \/ HandleError(c)
      \/ Conclude \/ UNCHANGED row
  BY RowActions
<1> QED BY <1>1, <1>2, <1>3, <1>4, <1>5, <1>6, <1>7

\* A list is made at the start of a loop and only becomes shorter.
LEMMA ListSteps ==
  ASSUME TypeInv, Next
  PROVE  \/ worker'.todo = {} \/ NextLoop
         \/ /\ worker'.at = worker.at /\ worker'.todo \subseteq worker.todo
            /\ Conclude => worker.on \notin worker'.todo
            /\ \A c \in Commands : ~HandleError(c)
<1>1. worker \in Cycle
  BY DEF TypeInv, WorkerInv
<1>2. CASE worker' = Resting
  BY <1>2 DEF Resting
<1>3. CASE StartCycle \/ SyncAgain
  <2>1. worker' = [worker EXCEPT !.at = "first"] \/ worker' = [worker EXCEPT !.at = "last"]
    BY <1>3 DEF StartCycle, SyncAgain
  <2>2. worker.todo = {}
    BY <1>3 DEF StartCycle, SyncAgain, TypeInv, WorkerInv, Loops
  <2> QED BY <1>1, <2>1, <2>2 DEF Cycle
<1>4. CASE Syncing /\ UNCHANGED worker
  BY <1>4 DEF Syncing, TypeInv, WorkerInv, Loops
<1>5. ASSUME NEW p \in Packages, QueueCommand(p)
      PROVE  worker'.at = worker.at /\ worker'.todo \subseteq worker.todo /\ ~Conclude
  <2>1. worker' = Done(p) /\ worker.at \in DOMAIN Asks
    BY <1>5 DEF QueueCommand
  <2>2. worker.reply = None
    BY <2>1, FlagsAre DEF TypeInv, WorkerInv
  <2> QED BY <2>1, <2>2, DoneFits DEF Conclude
<1>6. CASE Conclude
  <2>1. worker' = Done(worker.on) /\ worker.on \in Packages
    BY <1>6, ConcludeMoves DEF Conclude
  <2>2. ~Syncing
    BY <1>6, AmazonOrdersAssumption DEF Conclude, Syncing, TypeInv, WorkerInv
  <2> QED BY <2>1, <2>2, DoneFits DEF HandleError
<1>7. ASSUME NEW p \in Packages, Answered(p) \/ Rejected(p) \/ AttemptFails(p)
      PROVE  worker'.at = worker.at /\ worker'.todo = worker.todo /\ ~Conclude
  <2>1. worker.reply = None
    BY <1>7 DEF Answered, Rejected, AttemptFails, Calling
  <2>2. worker'.at = worker.at /\ worker'.todo = worker.todo
    BY <1>1, <1>7 DEF Answered, Rejected, AttemptFails, Cycle
  <2> QED BY <2>1, <2>2 DEF Conclude
<1>8. ASSUME NEW c \in Commands, HandleError(c) PROVE Syncing /\ UNCHANGED worker
  BY <1>8 DEF HandleError
<1>9. CASE UNCHANGED worker /\ ~Conclude
  BY <1>4, <1>8, <1>9
<1>10. \/ \E p \in Packages : QueueCommand(p) \/ Answered(p) \/ Rejected(p) \/ AttemptFails(p)
       \/ Conclude \/ NextLoop \/ StartCycle \/ SyncAgain \/ worker' = Resting \/ UNCHANGED worker
  BY DEF Next, Web, Worker, Outside, WorkerDies, CreateOrder, Redirect, AskUps, SaveRedirect, Callback,
         EndArrival, EndDelivery, EndCallback, ThreadDies, Read, HandleReport, HandleError,
         UpsArrives, UpsDelivers, CallbackLost, CarryOut, ReportAgain, PassOver, Tear, ReportNotSaved
<1> QED BY <1>2, <1>3, <1>4, <1>5, <1>6, <1>7, <1>8, <1>9, <1>10

LEMMA QueueStep ==
  ASSUME TypeInv, QueueInv, Next
  PROVE  QueueInv'
<1>1. Grown /\ TypeInv'
  BY RowStep, TypeStep
<1>2. worker'.todo \subseteq Packages /\ worker.todo \subseteq Packages
  BY <1>1 DEF TypeInv, WorkerInv, Cycle
<1>3. CASE worker'.todo = {}
  BY <1>3 DEF QueueInv
<1>4. CASE NextLoop
  <2>1. /\ UNCHANGED row
        /\ worker'.at = Following[worker.at]
        /\ \A p \in worker'.todo : Due(Following[worker.at], row[p])
    BY <1>4 DEF NextLoop, TypeInv, WorkerInv, Cycle
  <2> QED BY <2>1 DEF QueueInv, Due
<1>5. CASE /\ worker'.at = worker.at /\ worker'.todo \subseteq worker.todo
           /\ Conclude => worker.on \notin worker'.todo
           /\ \A c \in Commands : ~HandleError(c)
  <2>1. \A p \in worker'.todo : ~row'[p].error
    BY <1>2, <1>5, ErrorSteps DEF QueueInv
  <2>2. \A p \in worker'.todo : Wants[worker'.at].has \subseteq row'[p].done
    BY <1>1, <1>2, <1>5 DEF QueueInv, Grown
  <2> QED BY <2>1, <2>2 DEF QueueInv
<1> QED BY <1>3, <1>4, <1>5, ListSteps

\* A shipment that a loop of the worker has still to come to has not failed
\* since the loop began.
THEOREM FailedLeaves == Spec => []FailedLeavesQueues
<1>1. Init => QueueInv
  BY DEF Init, Resting, QueueInv
<1>2. TypeInv /\ QueueInv /\ [Next]_vars => QueueInv'
  <2>1. CASE TypeInv /\ QueueInv /\ UNCHANGED vars
    BY <2>1 DEF QueueInv, vars
  <2> QED BY <2>1, QueueStep
<1>3. QueueInv => FailedLeavesQueues
  BY DEF QueueInv, FailedLeavesQueues
<1> QED BY <1>1, <1>2, <1>3, Typed, PTL DEF Spec

-----------------------------------------------------------------------------
(* What Amazon believes of the goods.                                      *)

\* The milestones that follow from events outside of Amazon.
Beliefs == {"inventory_arrived", "packed", "loaded", "truck_arrived"}

LEMMA BeliefSteps ==
  ASSUME TypeInv, Next, NEW q \in Packages, NEW f \in Beliefs, f \in row'[q].done
  PROVE  \/ f \in row[q].done
         \/ \E c \in reports : c = <<c[1], q>> /\ c[1] \in Kinds /\ f = Reported[c[1]] /\ HandleReport(c)
         \/ \E h \in Threads : EndArrival(h) /\ thread[h].pkg = q /\ f = "truck_arrived"
<1>1. ASSUME NEW p \in Packages, CreateOrder(p) PROVE f \in row[q].done
  BY <1>1, CreateMoves
<1>2. ASSUME NEW h \in Threads, SaveRedirect(h) PROVE f \in row[q].done
  BY <1>2, SaveRedirectMoves
<1>3. ASSUME NEW h \in Threads, EndArrival(h)
      PROVE  f \in row[q].done \/ (thread[h].pkg = q /\ f = "truck_arrived")
  <2>1. thread[h].op = "truck_arrived"
    BY <1>3 DEF EndArrival
  <2> QED BY <1>3, <2>1, EndMoves
<1>4. ASSUME NEW h \in Threads, EndDelivery(h) PROVE f \in row[q].done
  <2>1. thread[h].op = "delivered"
    BY <1>4 DEF EndDelivery
  <2> QED BY <1>4, <2>1, EndMoves DEF Beliefs
<1>5. ASSUME NEW c \in Commands, HandleReport(c)
      PROVE  f \in row[q].done \/
             (c \in reports /\ c = <<c[1], q>> /\ c[1] \in Kinds /\ f = Reported[c[1]])
  <2>1. c \in reports /\ c = <<c[1], c[2]>>
    BY <1>5 DEF HandleReport, Commands
  <2> QED BY <1>5, <2>1, ReportMoves
<1>6. ASSUME NEW c \in Commands, HandleError(c) PROVE f \in row[q].done
  <2>1. row'[q].done = row[q].done
    BY <1>6, ErrorMoves
  <2> QED BY <2>1
<1>7. ASSUME NEW p \in Packages, QueueCommand(p) PROVE f \in row[q].done
  <2>1. worker.at \in DOMAIN Asks
    BY <1>7 DEF QueueCommand
  <2>2. Asks[worker.at].flag \notin Beliefs
    BY <2>1, FlagsAre DEF Beliefs
  <2> QED BY <1>7, <2>2, QueueMoves
<1>8. CASE Conclude
  BY <1>8, ConcludeMoves DEF Beliefs
<1> QED BY <1>1, <1>2, <1>3, <1>4, <1>5, <1>6, <1>7, <1>8, RowActions

\* Commands come from the three loops that queue them.
LEMMA CommandSteps ==
  ASSUME TypeInv, Next
  PROVE  /\ made \subseteq made'
         /\ \A c \in pending' \cup sent' \cup made' :
              \/ c \in pending \cup sent \cup made
              \/ \E p \in Packages : QueueCommand(p) /\ c = <<Asks[worker.at].kind, p>>
         /\ made' = made \/ \E c \in Commands : CarryOut(c)
<1>1. /\ made' = made \/ \E c \in Commands : CarryOut(c)
      /\ \A c \in Commands : CarryOut(c) => c \in sent /\ made' = made \cup {c}
  BY DEF Next, Web, Worker, Outside, CreateOrder, Redirect, AskUps, SaveRedirect, Callback,
         EndArrival, EndDelivery, EndCallback, ThreadDies, NextLoop, Read, Conclude,
         QueueCommand, StartCycle, SyncAgain, HandleReport, HandleError, WorkerDies, Answered,
         Rejected, AttemptFails, UpsArrives, UpsDelivers, CallbackLost, ReportAgain,
         PassOver, Tear, ReportNotSaved, CarryOut, world
<1>2. \/ sent' \subseteq sent \cup pending /\ pending' \subseteq pending
      \/ \E p \in Packages : /\ QueueCommand(p) /\ sent' = sent
                             /\ pending' = pending \cup {<<Asks[worker.at].kind, p>>}
  <2>1. ASSUME NEW p \in Packages, QueueCommand(p)
        PROVE  sent' = sent /\ pending' = pending \cup {<<Asks[worker.at].kind, p>>}
    BY <2>1 DEF QueueCommand, world
  <2>2. CASE StartCycle \/ SyncAgain
    BY <2>2 DEF StartCycle, SyncAgain, Synchronise, TypeInv, CommandInv
  <2>3. CASE WorkerDies \/ \E c \in Commands : \/ HandleReport(c) \/ HandleError(c)
                                              \/ CarryOut(c) \/ PassOver(c)
    BY <2>3 DEF WorkerDies, HandleReport, HandleError, Complete, CarryOut, PassOver, queue, world
  <2>4. CASE UNCHANGED <<sent, pending>>
    BY <2>4
  <2>5. \/ \E p \in Packages : QueueCommand(p)
        \/ StartCycle \/ SyncAgain \/ WorkerDies
        \/ \E c \in Commands : HandleReport(c) \/ HandleError(c) \/ CarryOut(c) \/ PassOver(c)
        \/ UNCHANGED <<sent, pending>>
    BY DEF Next, Web, Worker, Outside, CreateOrder, Redirect, AskUps, SaveRedirect, Callback,
           EndArrival, EndDelivery, EndCallback, ThreadDies, NextLoop, Read, Conclude,
           Answered, Rejected, AttemptFails, UpsArrives, UpsDelivers, CallbackLost,
           ReportAgain, Tear, ReportNotSaved, queue, world
  <2> QED BY <2>1, <2>2, <2>3, <2>4, <2>5
<1> QED BY <1>1, <1>2

\* A shipment only waits where its truck has met it, and leaves when released.
LEMMA ShipmentSteps ==
  ASSUME TypeInv, GoodsInv, Next, NEW q \in Packages
  PROVE  /\ ups[q].did \subseteq ups'[q].did
         /\ ups'[q].status = "waiting" => "met" \in ups'[q].did
         /\ ups'[q].leaving => "released" \in ups'[q].did
<1>1. CASE UpsStill
  BY <1>1 DEF UpsStill, GoodsInv
<1>2. ASSUME NEW p \in Packages, UpsArrives(p)
      PROVE  /\ ups[q].did \subseteq ups'[q].did
             /\ ups'[q].status = "waiting" => "met" \in ups'[q].did
             /\ ups'[q].leaving => "released" \in ups'[q].did
  BY <1>2, ArrivesMoves DEF GoodsInv
<1>3. ASSUME NEW p \in Packages, UpsDelivers(p)
      PROVE  /\ ups[q].did \subseteq ups'[q].did
             /\ ups'[q].status = "waiting" => "met" \in ups'[q].did
             /\ ups'[q].leaving => "released" \in ups'[q].did
  BY <1>3, DeliversMoves DEF GoodsInv
<1>4. ASSUME NEW p \in Packages, session[p] # None, ups' \in Handled(p)
      PROVE  /\ ups[q].did \subseteq ups'[q].did
             /\ ups'[q].status = "waiting" => "met" \in ups'[q].did
             /\ ups'[q].leaving => "released" \in ups'[q].did
  <2>1. CASE q # p
    <3>1. ups'[q] = ups[q]
      BY <1>4, <2>1, HandledIs
    <3> QED BY <3>1 DEF GoodsInv
  <2>2. CASE q = p
    <3>1. \/ /\ ups'[p].status = "enroute" /\ ups'[p].did = ups[p].did
             /\ ups'[p].leaving = ups[p].leaving
          \/ /\ ups'[p].status = "out" /\ ups'[p].did = ups[p].did \cup {"released"}
      BY <1>4, HandledIs
    <3> QED BY <2>2, <3>1 DEF GoodsInv
  <2> QED BY <2>1, <2>2
<1> QED BY <1>1, <1>2, <1>3, <1>4, UpsSteps

LEMMA ThreadSteps ==
  ASSUME TypeInv, GoodsInv, Next, NEW h \in Threads, thread'[h].op = "truck_arrived"
  PROVE  thread'[h].pkg \in Packages /\ "met" \in ups[thread'[h].pkg].did
<1>1. thread \in [Threads -> Request]
  BY DEF TypeInv, ThreadInv
<1>2. CASE thread'[h] = thread[h]
  <2>1. thread[h] # Free
    BY <1>2 DEF Free
  <2> QED BY <1>2, <2>1 DEF GoodsInv, TypeInv, ThreadInv
<1>3. ASSUME NEW g \in Threads, NEW p \in Packages, Callback(g, p)
      PROVE  \/ thread'[h] = thread[h]
             \/ thread'[h].pkg \in Packages /\ "met" \in ups[thread'[h].pkg].did
  <2>1. PICK o \in Owed(p) :
          thread' = [thread EXCEPT ![g] =
            [op |-> o, pkg |-> p, seen |-> row[p],
             arg |-> IF o = "truck_arrived" THEN ups[p].truck ELSE None]]
    BY <1>3 DEF Callback
  <2>2. CASE g # h
    BY <1>1, <2>1, <2>2
  <2>3. CASE g = h
    <3>1. thread'[h].op = o /\ thread'[h].pkg = p
      BY <1>1, <2>1, <2>3
    <3>2. ups[p].status = "waiting"
      BY <2>1, <3>1 DEF Owed
    <3> QED BY <3>1, <3>2 DEF GoodsInv
  <2> QED BY <2>2, <2>3
<1>4. ASSUME NEW g \in Threads, NEW p \in Packages, NEW d \in Dests, Redirect(g, p, d)
      PROVE  thread'[h] = thread[h]
  <2> DEFINE r == [op |-> IF row[p].status = "created" THEN "save" ELSE "ask", pkg |-> p,
                   seen |-> [NoOrder EXCEPT !.dest = row[p].dest], arg |-> d]
  <2>1. thread' = [thread EXCEPT ![g] = r] /\ r.op # "truck_arrived"
    BY <1>4 DEF Redirect
  <2> HIDE DEF r
  <2> QED BY <1>1, <2>1
<1>5. ASSUME NEW g \in Threads, thread' = [thread EXCEPT ![g] = Free] \/ AskUps(g)
      PROVE  thread'[h] = thread[h]
  <2>1. \/ thread' = [thread EXCEPT ![g] = Free]
        \/ thread' = [thread EXCEPT ![g].op = "save"]
    BY <1>5 DEF AskUps
  <2>2. Free.op # "truck_arrived"
    BY DEF Free
  <2>3. [thread[g] EXCEPT !.op = "save"].op = "save"
    BY <1>1 DEF Request
  <2> QED BY <1>1, <2>1, <2>2, <2>3
<1> QED BY <1>2, <1>3, <1>4, <1>5, ThreadActions

LEMMA GoodsStep ==
  ASSUME TypeInv, QueueInv, GoodsInv, Next
  PROVE  GoodsInv'
<1>1. Grown /\ TypeInv'
  BY RowStep, TypeStep
<1>2. \A q \in Packages : ups[q].did \subseteq ups'[q].did
  BY ShipmentSteps
<1>3. made \subseteq made' /\ reports \subseteq made
  BY CommandSteps DEF TypeInv, CommandInv
<1>4. ASSUME NEW q \in Packages, NEW k \in Kinds, Reported[k] \in row'[q].done
      PROVE  <<k, q>> \in made'
  <2>1. Reported[k] \in Beliefs /\ Reported[k] # "truck_arrived"
        /\ \A j \in Kinds : Reported[j] = Reported[k] => j = k
    BY DEF Reported, Kinds, Beliefs
  <2>2. CASE Reported[k] \in row[q].done
    <3>1. <<k, q>> \in made
      <4>1. k = "buy" \/ k = "pack" \/ k = "load"
        BY DEF Kinds
      <4>2. CASE k = "buy"
        BY <2>2, <4>2 DEF GoodsInv, Reported
      <4>3. CASE k = "pack"
        BY <2>2, <4>3 DEF GoodsInv, Reported
      <4>4. CASE k = "load"
        BY <2>2, <4>4 DEF GoodsInv, Reported
      <4> QED BY <4>1, <4>2, <4>3, <4>4
    <3> QED BY <1>3, <3>1
  <2>3. CASE \E c \in reports : c = <<c[1], q>> /\ c[1] \in Kinds /\ Reported[k] = Reported[c[1]]
    BY <1>3, <2>1, <2>3
  <2> QED BY <1>4, <2>1, <2>2, <2>3, BeliefSteps
<1>5. ASSUME NEW q \in Packages, "truck_arrived" \in row'[q].done
      PROVE  "met" \in ups'[q].did
  <2>1. CASE "truck_arrived" \in row[q].done
    BY <1>2, <2>1 DEF GoodsInv
  <2>2. ASSUME NEW h \in Threads, EndArrival(h), thread[h].pkg = q PROVE "met" \in ups'[q].did
    BY <1>2, <2>2 DEF EndArrival, GoodsInv
  <2>3. "truck_arrived" \in Beliefs /\ \A k \in Kinds : Reported[k] # "truck_arrived"
    BY DEF Reported, Kinds, Beliefs
  <2> QED BY <1>5, <2>1, <2>2, <2>3, BeliefSteps
<1>6. ASSUME NEW q \in Packages, NEW l \in DOMAIN Asks,
             <<Asks[l].kind, q>> \in pending' \cup sent' \cup made'
      PROVE  l = "inventory" \/ Wants[l].has \subseteq row'[q].done
  <2>1. CASE <<Asks[l].kind, q>> \in pending \cup sent \cup made
    <3>1. l = "inventory" \/ Wants[l].has \subseteq row[q].done
      <4>1. l = "inventory" \/ l = "pack" \/ l = "load"
        BY FlagsAre
      <4>2. CASE l = "pack"
        <5>1. Asks[l].kind = "pack" /\ Wants[l].has = {"inventory_arrived"}
          BY <4>2 DEF Asks, Wants
        <5> QED BY <2>1, <5>1 DEF GoodsInv
      <4>3. CASE l = "load"
        <5>1. Asks[l].kind = "load" /\ Wants[l].has = {"packed", "truck_arrived"}
          BY <4>3 DEF Asks, Wants
        <5> QED BY <2>1, <5>1 DEF GoodsInv
      <4> QED BY <4>1, <4>2, <4>3
    <3> QED BY <1>1, <3>1 DEF Grown
  <2>2. ASSUME NEW p \in Packages, QueueCommand(p), <<Asks[l].kind, q>> = <<Asks[worker.at].kind, p>>
        PROVE  Wants[l].has \subseteq row'[q].done
    <3>1. worker.at \in DOMAIN Asks /\ p \in worker.todo
      BY <2>2 DEF QueueCommand
    <3>2. q = p /\ l = worker.at
      BY <2>2, <3>1 DEF Asks
    <3> QED BY <1>1, <3>1, <3>2 DEF QueueInv, Grown
  <2> QED BY <1>6, <2>1, <2>2, CommandSteps
<1>7. ASSUME NEW q \in Packages
      PROVE  /\ "inventory_arrived" \in row'[q].done => <<"buy", q>> \in made'
             /\ "packed" \in row'[q].done => <<"pack", q>> \in made'
             /\ "loaded" \in row'[q].done => <<"load", q>> \in made'
  BY <1>4 DEF Kinds, Reported
<1>8. ASSUME NEW q \in Packages
      PROVE  /\ <<"pack", q>> \in pending' \cup sent' \cup made' => "inventory_arrived" \in row'[q].done
             /\ <<"load", q>> \in pending' \cup sent' \cup made' =>
                  {"packed", "truck_arrived"} \subseteq row'[q].done
  <2>1. /\ "pack" \in DOMAIN Asks /\ Asks["pack"].kind = "pack"
        /\ "load" \in DOMAIN Asks /\ Asks["load"].kind = "load"
        /\ Wants["pack"].has = {"inventory_arrived"}
        /\ Wants["load"].has = {"packed", "truck_arrived"}
    BY DEF Asks, Wants
  <2> QED BY <1>6, <2>1
<1>9. ASSUME NEW h \in Threads, thread'[h].op = "truck_arrived"
      PROVE  "met" \in ups'[thread'[h].pkg].did
  BY <1>2, <1>9, ThreadSteps
<1>10. ASSUME NEW q \in Packages
       PROVE  /\ ups'[q].status = "waiting" => "met" \in ups'[q].did
              /\ ups'[q].leaving => "released" \in ups'[q].did
  BY ShipmentSteps
<1> QED BY <1>5, <1>7, <1>8, <1>9, <1>10 DEF GoodsInv

LEMMA OrderStart == Init => OrderInv
<1> SUFFICES ASSUME Init PROVE OrderInv
  OBVIOUS
<1>1. QueueInv
  BY DEF Init, Resting, QueueInv
<1>2. GoodsInv
  BY DEF Init, NoOrder, Free, GoodsInv
<1> QED BY <1>1, <1>2, TypeStart DEF OrderInv

LEMMA OrderStep == OrderInv /\ [Next]_vars => OrderInv'
<1>1. CASE OrderInv /\ Next
  BY <1>1, TypeStep, QueueStep, GoodsStep DEF OrderInv
<1>2. CASE OrderInv /\ UNCHANGED vars
  BY <1>2, TypeStep DEF OrderInv, QueueInv, GoodsInv, vars, queue, world
<1> QED BY <1>1, <1>2

LEMMA Orderly == Spec => []OrderInv
BY OrderStart, OrderStep, PTL DEF Spec

-----------------------------------------------------------------------------
(* The refinement of Fulfilment.                                           *)

Event == [buy |-> "bought", pack |-> "packed", load |-> "loaded"]

\* The events of a package: what the world has carried out, what UPS has done.
GoodsOf(q) == {Event[k] : k \in {j \in Kinds : <<j, q>> \in made}} \cup ups[q].did

LEMMA GoodsAre == Goods = [q \in Packages |-> GoodsOf(q)]
<1> DEFINE KindOf == [bought |-> "buy", packed |-> "pack", loaded |-> "load"]
<1>1. ASSUME NEW q \in Packages
      PROVE  {e \in {"bought", "packed", "loaded"} : <<KindOf[e], q>> \in made}
               = {Event[k] : k \in {j \in Kinds : <<j, q>> \in made}}
  <2>1. KindOf["bought"] = "buy" /\ KindOf["packed"] = "pack" /\ KindOf["loaded"] = "load"
    OBVIOUS
  <2>2. Event["buy"] = "bought" /\ Event["pack"] = "packed" /\ Event["load"] = "loaded"
    BY DEF Event
  <2>3. \A k : k \in Kinds <=> k = "buy" \/ k = "pack" \/ k = "load"
    BY DEF Kinds
  <2> HIDE DEF KindOf
  <2> QED BY <2>1, <2>2, <2>3
<1> QED BY <1>1 DEF Goods, GoodsOf

\* A step that adds one event to one package, in its turn.
LEMMA OneEvent ==
  ASSUME NEW p \in Packages, NEW e \in Abstract!Events,
         Abstract!Needs(e) \subseteq GoodsOf(p),
         GoodsOf(p)' = GoodsOf(p) \cup {e},
         \A q \in Packages \ {p} : GoodsOf(q)' = GoodsOf(q)
  PROVE  [Abstract!Next]_Goods
<1>0. (Goods = [q \in Packages |-> GoodsOf(q)])'
  BY GoodsAre, PTL
<1>1. Goods' = [q \in Packages |-> GoodsOf(q)']
  BY <1>0
<1>2. CASE e \in GoodsOf(p)
  BY <1>1, <1>2, GoodsAre
<1>3. CASE e \notin GoodsOf(p)
  <2>1. e \notin Goods[p] /\ Abstract!Needs(e) \subseteq Goods[p]
    BY <1>3, GoodsAre
  <2>2. Goods' = [Goods EXCEPT ![p] = @ \cup {e}]
    BY <1>1, GoodsAre
  <2>3. e \in Abstract!Possible(p)
    BY <2>1 DEF Abstract!Possible
  <2> QED BY <2>2, <2>3 DEF Abstract!Next
<1> QED BY <1>2, <1>3

LEMMA SameGoods ==
  ASSUME \A q \in Packages : GoodsOf(q)' = GoodsOf(q)
  PROVE  UNCHANGED Goods
<1>0. (Goods = [q \in Packages |-> GoodsOf(q)])'
  BY GoodsAre, PTL
<1>1. Goods' = [q \in Packages |-> GoodsOf(q)']
  BY <1>0
<1> QED BY <1>1, GoodsAre

\* What Amazon believes, in the words of Fulfilment.
LEMMA Believed ==
  ASSUME GoodsInv, NEW q \in Packages
  PROVE  /\ <<"buy", q>> \in made => "bought" \in GoodsOf(q)
         /\ "inventory_arrived" \in row[q].done => "bought" \in GoodsOf(q)
         /\ "packed" \in row[q].done => "packed" \in GoodsOf(q)
         /\ "loaded" \in row[q].done => "loaded" \in GoodsOf(q)
         /\ "truck_arrived" \in row[q].done => "met" \in GoodsOf(q)
<1>1. \A k \in Kinds : <<k, q>> \in made => Event[k] \in GoodsOf(q)
  BY DEF GoodsOf
<1>2. Event["buy"] = "bought" /\ Event["pack"] = "packed" /\ Event["load"] = "loaded"
  BY DEF Event
<1>3. "buy" \in Kinds /\ "pack" \in Kinds /\ "load" \in Kinds
  BY DEF Kinds
<1>4. "met" \in ups[q].did => "met" \in GoodsOf(q)
  BY DEF GoodsOf
<1> QED BY <1>1, <1>2, <1>3, <1>4 DEF GoodsInv

\* The world carries out a command: the event follows what it needs.
LEMMA CarryOutMaps ==
  ASSUME OrderInv, NEW c \in Commands, CarryOut(c)
  PROVE  [Abstract!Next]_Goods
<1> DEFINE k == c[1]
           p == c[2]
<1>1. k \in Kinds /\ p \in Packages /\ c = <<k, p>>
  BY DEF Commands
<1>2. c \in sent /\ made' = made \cup {c} /\ ups' = ups
  BY DEF CarryOut
<1>3. \A q \in Packages \ {p} : GoodsOf(q)' = GoodsOf(q)
  <2>1. ASSUME NEW q \in Packages \ {p}
        PROVE  {j \in Kinds : <<j, q>> \in made'} = {j \in Kinds : <<j, q>> \in made}
    BY <1>1, <1>2
  <2> QED BY <1>2, <2>1 DEF GoodsOf
<1>4. GoodsOf(p)' = GoodsOf(p) \cup {Event[k]}
  <2>1. {j \in Kinds : <<j, p>> \in made'} = {j \in Kinds : <<j, p>> \in made} \cup {k}
    BY <1>1, <1>2
  <2> QED BY <1>2, <2>1 DEF GoodsOf
<1>5. Event[k] \in Abstract!Events
  BY <1>1 DEF Kinds, Event, Abstract!Events
<1>6. Abstract!Needs(Event[k]) \subseteq GoodsOf(p)
  <2>1. CASE k = "buy"
    BY <2>1 DEF Event, Abstract!Needs
  <2>2. CASE k = "pack"
    <3>1. "inventory_arrived" \in row[p].done
      BY <1>1, <1>2, <2>2 DEF OrderInv, GoodsInv
    <3>2. "bought" \in GoodsOf(p)
      BY <1>1, <3>1, Believed DEF OrderInv
    <3>3. Abstract!Needs("packed") = {"bought"} /\ Event["pack"] = "packed"
      BY DEF Abstract!Needs, Event
    <3> QED BY <2>2, <3>2, <3>3
  <2>3. CASE k = "load"
    <3>1. "packed" \in row[p].done /\ "truck_arrived" \in row[p].done
      BY <1>1, <1>2, <2>3 DEF OrderInv, GoodsInv
    <3>2. "packed" \in GoodsOf(p) /\ "met" \in GoodsOf(p)
      BY <1>1, <3>1, Believed DEF OrderInv
    <3>3. Abstract!Needs("loaded") = {"packed", "met"} /\ Event["load"] = "loaded"
      BY DEF Abstract!Needs, Event
    <3> QED BY <2>3, <3>2, <3>3
  <2> QED BY <1>1, <2>1, <2>2, <2>3 DEF Kinds
<1> HIDE DEF k, p
<1> QED BY <1>1, <1>3, <1>4, <1>5, <1>6, OneEvent

\* A step at UPS adds at most one event, in its turn.
LEMMA UpsStepMaps ==
  ASSUME OrderInv, Next, made' = made
  PROVE  [Abstract!Next]_Goods
<1>1. TypeInv /\ QueueInv /\ GoodsInv
  BY DEF OrderInv
<1>2. ASSUME NEW q \in Packages, ups'[q].did = ups[q].did PROVE GoodsOf(q)' = GoodsOf(q)
  BY <1>2 DEF GoodsOf
<1>3. ASSUME NEW p \in Packages, NEW e \in {"met", "released", "delivered"},
             ups'[p].did = ups[p].did \cup {e},
             \A q \in Packages \ {p} : ups'[q] = ups[q],
             Abstract!Needs(e) \subseteq GoodsOf(p)
      PROVE  [Abstract!Next]_Goods
  <2>1. GoodsOf(p)' = GoodsOf(p) \cup {e}
    BY <1>3 DEF GoodsOf
  <2>2. \A q \in Packages \ {p} : GoodsOf(q)' = GoodsOf(q)
    BY <1>2, <1>3
  <2>3. e \in Abstract!Events
    BY DEF Abstract!Events
  <2> QED BY <1>3, <2>1, <2>2, <2>3, OneEvent
<1>4. /\ Abstract!Needs("met") = {} /\ Abstract!Needs("released") = {"loaded"}
      /\ Abstract!Needs("delivered") = {"released"}
  BY DEF Abstract!Needs
<1>5. CASE UpsStill
  BY <1>2, <1>5, SameGoods DEF UpsStill
<1>6. ASSUME NEW p \in Packages, UpsArrives(p) PROVE [Abstract!Next]_Goods
  BY <1>1, <1>3, <1>4, <1>6, ArrivesMoves
<1>7. ASSUME NEW p \in Packages, UpsDelivers(p) PROVE [Abstract!Next]_Goods
  <2>1. "released" \in GoodsOf(p)
    BY <1>1, <1>7, DeliversMoves DEF GoodsInv, GoodsOf
  <2>2. Abstract!Needs("delivered") \subseteq GoodsOf(p)
    BY <1>4, <2>1
  <2>3. /\ ups'[p].did = ups[p].did \cup {"delivered"}
        /\ \A q \in Packages \ {p} : ups'[q] = ups[q]
    BY <1>1, <1>7, DeliversMoves
  <2> QED BY <1>3, <2>2, <2>3
<1>8. ASSUME NEW p \in Packages, Calling(p), session[p] # None, ups' \in Handled(p)
      PROVE  [Abstract!Next]_Goods
  <2>1. \A q \in Packages \ {p} : ups'[q] = ups[q]
    BY <1>1, <1>8, HandledIs
  <2>2. CASE worker.at = "pickup"
    <3>1. ups'[p].did = ups[p].did
      BY <1>1, <1>8, <2>2, HandledIs
    <3> QED BY <1>2, <2>1, <3>1, SameGoods
  <2>3. CASE worker.at # "pickup"
    <3>1. ups'[p].did = ups[p].did \cup {"released"}
      BY <1>1, <1>8, <2>3, HandledIs
    <3>2. worker.at = "notice" /\ p \in worker.todo
      BY <1>8, <2>3 DEF Calling
    <3>3. "loaded" \in row[p].done
      BY <1>1, <3>2 DEF QueueInv, Wants
    <3>4. Abstract!Needs("released") \subseteq GoodsOf(p)
      BY <1>1, <1>4, <3>3, Believed
    <3> QED BY <1>3, <2>1, <3>1, <3>4
  <2> QED BY <2>2, <2>3
<1> QED BY <1>1, <1>5, <1>6, <1>7, <1>8, UpsSteps

\* AmazonOrders implements Fulfilment: whatever is lost, repeated, read from a
\* stale object or for another command, nothing happens to the goods of an
\* order before what it needs.  It may happen again.
THEOREM Fulfils == Spec => Implements
<1>1. Init => Abstract!Init
  <2> SUFFICES ASSUME Init PROVE \A q \in Packages : GoodsOf(q) = {}
    BY GoodsAre DEF Abstract!Init
  <2> QED BY DEF Init, GoodsOf
<1>2. OrderInv /\ [Next]_vars => [Abstract!Next]_Goods
  <2>1. CASE OrderInv /\ Next
    <3>1. made' = made \/ \E c \in Commands : CarryOut(c)
      BY <2>1, CommandSteps DEF OrderInv
    <3> QED BY <2>1, <3>1, CarryOutMaps, UpsStepMaps
  <2>2. CASE UNCHANGED vars
    <3>1. \A q \in Packages : GoodsOf(q)' = GoodsOf(q)
      BY <2>2 DEF vars, world, GoodsOf
    <3> QED BY <3>1, SameGoods
  <2> QED BY <2>1, <2>2
<1> QED BY <1>1, <1>2, Orderly, PTL DEF Spec, Implements, Abstract!Spec

-----------------------------------------------------------------------------
(* The stock.                                                              *)

\* Bought for an order and not packed yet.
Stored == {p \in Packages : "inventory_arrived" \in row[p].done /\ "packed" \notin row[p].done}

StockInv == repeated \/ stock = Cardinality(Stored)

LEMMA StoredFinite == IsFiniteSet(Stored)
BY AmazonOrdersAssumption, FS_Subset DEF Stored

\* Only a report changes what is stored.
LEMMA StoredKept ==
  ASSUME TypeInv, Next, \A c \in Commands : ~HandleReport(c)
  PROVE  Stored' = Stored
<1>1. Grown /\ reports \subseteq Commands
  BY RowStep DEF TypeInv, CommandInv
<1>2. ASSUME NEW q \in Packages, NEW f \in {"inventory_arrived", "packed"}
      PROVE  f \in row'[q].done <=> f \in row[q].done
  BY <1>1, <1>2, BeliefSteps DEF Grown, Beliefs
<1> QED BY <1>2 DEF Stored

LEMMA StockStep ==
  ASSUME OrderInv, StockInv, Next
  PROVE  StockInv'
<1>1. TypeInv /\ GoodsInv /\ stock \in Nat /\ repeated \in BOOLEAN
  BY DEF OrderInv, TypeInv, MiscInv
<1>2. CASE \A c \in Commands : ~HandleReport(c)
  <2>1. UNCHANGED <<stock, repeated>>
    BY <1>2 DEF Next, Web, Worker, Outside, CreateOrder, Redirect, AskUps, SaveRedirect, Callback,
         EndArrival, EndDelivery, EndCallback, ThreadDies, NextLoop, Read, Conclude,
         QueueCommand, StartCycle, SyncAgain, HandleError, WorkerDies, Answered, Rejected,
         AttemptFails, UpsArrives, UpsDelivers, CallbackLost, CarryOut, ReportAgain, PassOver, Tear, ReportNotSaved, history
  <2>2. Stored' = Stored
    BY <1>1, <1>2, StoredKept
  <2> QED BY <2>1, <2>2 DEF StockInv
<1>3. ASSUME NEW c \in Commands, HandleReport(c), ~repeated'
      PROVE  stock' = Cardinality(Stored')
  <2> DEFINE k == c[1]
             p == c[2]
             f == Reported[k]
  <2>1. /\ p \in Packages /\ k \in Kinds /\ c = <<k, p>>
        /\ \A q \in Packages \ {p} : row'[q] = row[q]
        /\ row'[p].done = row[p].done \cup {f}
    BY <1>1, <1>3, ReportMoves DEF Commands
  <2>2. c \in reports /\ stock' = StockAfter(k) /\ ~repeated /\ f \notin row[p].done
    BY <1>1, <1>3 DEF HandleReport
  <2>3. stock = Cardinality(Stored)
    BY <2>2 DEF StockInv
  <2>4. c \in made
    BY <1>1, <2>2 DEF TypeInv, CommandInv
  <2>5. \A q \in Packages \ {p} : q \in Stored' <=> q \in Stored
    BY <2>1 DEF Stored
  <2>6. Stored \subseteq Packages /\ Stored' \subseteq Packages
    BY DEF Stored
  <2>7. IsFiniteSet(Stored)
    BY StoredFinite
  <2>8. CASE k = "buy"
    <3>1. f = "inventory_arrived"
      BY <2>8 DEF Reported
    <3>2. "packed" \notin row[p].done
      <4>1. "packed" \in row[p].done => <<"pack", p>> \in made
        BY <1>1, <2>1 DEF GoodsInv
      <4> QED BY <1>1, <2>1, <2>2, <3>1, <4>1 DEF GoodsInv
    <3>3. p \notin Stored /\ p \in Stored'
      BY <2>1, <2>2, <3>1, <3>2 DEF Stored
    <3>4. Stored' = Stored \cup {p}
      BY <2>5, <2>6, <3>3
    <3>5. Cardinality(Stored \cup {p}) = Cardinality(Stored) + 1
      BY <2>7, <3>3, FS_AddElement
    <3> QED BY <2>2, <2>3, <2>8, <3>4, <3>5 DEF StockAfter
  <2>9. CASE k = "pack"
    <3>1. f = "packed"
      BY <2>9 DEF Reported
    <3>2. "inventory_arrived" \in row[p].done
      BY <1>1, <2>1, <2>4, <2>9, ZenonT(30) DEF GoodsInv
    <3>3. p \in Stored /\ p \notin Stored'
      BY <2>1, <2>2, <3>1, <3>2 DEF Stored
    <3>4. Stored' = Stored \ {p}
      BY <2>5, <2>6, <3>3
    <3>5. Cardinality(Stored \ {p}) = Cardinality(Stored) - 1
      BY <2>7, <3>3, FS_RemoveElement
    <3>6. Cardinality(Stored) # 0
      BY <2>7, <3>3, FS_EmptySet
    <3>7. stock' = stock - 1
      BY <2>2, <2>3, <2>9, <3>6 DEF StockAfter
    <3> QED BY <2>3, <3>4, <3>5, <3>7
  <2>10. CASE k = "load"
    <3>1. f = "loaded" /\ stock' = stock
      BY <2>2, <2>10 DEF Reported, StockAfter
    <3>2. p \in Stored' <=> p \in Stored
      BY <2>1, <3>1 DEF Stored
    <3>3. Stored' = Stored
      BY <2>5, <2>6, <3>2
    <3> QED BY <2>3, <3>1, <3>3
  <2> QED BY <2>1, <2>8, <2>9, <2>10 DEF Kinds
<1>4. repeated' \in BOOLEAN
  BY <1>1, TypeStep DEF TypeInv, MiscInv
<1> QED BY <1>2, <1>3, <1>4 DEF StockInv

\* Without a repeated report the stock is exactly what is bought and not packed.
THEOREM StockCounts == Spec => []StockExact
<1>1. Init => StockInv
  <2> SUFFICES ASSUME Init PROVE StockInv
    OBVIOUS
  <2>1. Stored = {}
    BY DEF Init, NoOrder, Stored
  <2> QED BY <2>1, FS_EmptySet DEF Init, StockInv
<1>2. OrderInv /\ StockInv /\ [Next]_vars => StockInv'
  <2>1. CASE OrderInv /\ StockInv /\ UNCHANGED vars
    BY <2>1 DEF StockInv, Stored, vars, history
  <2> QED BY <2>1, StockStep
<1>3. StockInv => StockExact
  BY DEF StockInv, StockExact, Stored
<1> QED BY <1>1, <1>2, <1>3, Orderly, PTL DEF Spec
=============================================================================
