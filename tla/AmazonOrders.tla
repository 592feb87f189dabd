---------------------------- MODULE AmazonOrders ----------------------------
(***************************************************************************)
(* The life of an order at Amazon: app/services/order_service.py, the      *)
(* fulfilment cycle of app/workers/world_worker.py, the callbacks and the  *)
(* redirect of the web server, the retries of app/integrations.            *)
(*                                                                         *)
(* The worker and the threads of the web server each change an order row   *)
(* through an ORM session of their own.  A session keeps what it has read  *)
(* and does not read it again: a query chooses rows by what the table      *)
(* holds, and returns the objects as the session knows them.  A commit     *)
(* writes the columns that the session has changed.  The worker's session  *)
(* lives for one cycle, a thread's for one request.                        *)
(*                                                                         *)
(* UPS is the subject of UpsShipments and appears here by what it answers  *)
(* and calls; the world is external.                                       *)
(***************************************************************************)
EXTENDS Integers, FiniteSets

CONSTANTS
  Packages,   \* package ids
  Dests,      \* delivery addresses
  Home,       \* bound: the address of every new order, not redirected to
  Trucks,     \* trucks of UPS
  Threads,    \* request threads of the web server
  None,       \* no truck, no package, no row
  Attempts,   \* how often a request to UPS is tried (3)
  MaxFaults   \* bound: lost or repeated messages, world errors, deaths

ASSUME AmazonOrdersAssumption ==
  /\ IsFiniteSet(Packages)
  /\ None \notin Packages /\ None \notin Trucks /\ None \notin Dests
  /\ Home \in Dests
  /\ None # "error"
  /\ Attempts \in Nat \ {0} /\ MaxFaults \in Nat

VARIABLES
  row,       \* the order of a package with its shipment, as committed
  session,   \* what the worker's session knows of it
  stock,     \* the inventory item of the product (each order is for one)
  worker,    \* the worker: where it is, what is left to do, a call to UPS
  thread,    \* requests in progress, with the row as each has read it
  pending,   \* commands that the world client has not seen completed
  fresh,     \* those of them that the world has not received
  torn,      \* the next byte from the world is not the first of a frame
  sent,      \* external: commands the world has received and not carried out
  made,      \* external: commands the world has carried out
  reports,   \* external: reports the world has not seen acknowledged
  ups,       \* the shipment rows of UPS
  recent,    \* history: addresses the row had since the cycle began
  repeated,  \* history: a report has been handled twice
  restarted, \* history: the worker counts its commands from one again
  stranded,  \* history: packages of which nobody will hear something more
  faults     \* faults so far

queue == <<pending, fresh, torn>>
world == <<sent, made, reports>>
history == <<recent, repeated, restarted, stranded>>
vars == <<row, session, stock, worker, queue, thread, world, ups, history, faults>>

Flags == {"pickup_requested", "inventory_requested", "inventory_arrived",
          "pack_requested", "packed", "truck_arrived", "load_requested",
          "loaded", "delivery_notified", "delivered"}
Kinds == {"buy", "pack", "load"}
Commands == Kinds \X Packages

\* Wrong on purpose: a truck is loaded before the package is packed.
WantsAnyTruck == [pickup    |-> [has |-> {}, lacks |-> "pickup_requested"],
          inventory |-> [has |-> {}, lacks |-> "inventory_arrived"],
          pack      |-> [has |-> {"inventory_arrived"}, lacks |-> "packed"],
          load      |-> [has |-> {"truck_arrived"}, lacks |-> "loaded"],
          notice    |-> [has |-> {"loaded"}, lacks |-> "delivery_notified"]]

\* Wrong on purpose: a pack command is not queued again after a restart.
WantsOnce == [pickup    |-> [has |-> {}, lacks |-> "pickup_requested"],
          inventory |-> [has |-> {}, lacks |-> "inventory_arrived"],
          pack      |-> [has |-> {"inventory_arrived"}, lacks |-> "pack_requested"],
          load      |-> [has |-> {"packed", "truck_arrived"}, lacks |-> "loaded"],
          notice    |-> [has |-> {"loaded"}, lacks |-> "delivery_notified"]]

\* What each loop asks of a shipment: flags that are set, one that is not.
Wants == [pickup    |-> [has |-> {}, lacks |-> "pickup_requested"],
          inventory |-> [has |-> {}, lacks |-> "inventory_arrived"],
          pack      |-> [has |-> {"inventory_arrived"}, lacks |-> "packed"],
          load      |-> [has |-> {"packed", "truck_arrived"}, lacks |-> "loaded"],
          notice    |-> [has |-> {"loaded"}, lacks |-> "delivery_notified"]]

Asks == [inventory |-> [kind |-> "buy", flag |-> "inventory_requested"],
         pack      |-> [kind |-> "pack", flag |-> "pack_requested"],
         load      |-> [kind |-> "load", flag |-> "load_requested"]]

Reported == [buy |-> "inventory_arrived", pack |-> "packed", load |-> "loaded"]

Following == [first |-> "pickup", pickup |-> "inventory", inventory |-> "pack",
              pack |-> "load", load |-> "notice", notice |-> "last"]

Flow == <<"pickup_requested", "packing_requested", "packed", "truck_arrived",
          "loading_requested", "loaded", "out_for_delivery", "delivered">>

\* The flags that put an order at a status of the flow.
FlagsFor(s) ==
  CASE s = "packing_requested" -> {"inventory_requested", "pack_requested"}
    [] s = "loading_requested" -> {"load_requested"}
    [] s = "out_for_delivery"  -> {"delivery_notified"}
    [] OTHER                   -> {s}

Statuses == {Flow[i] : i \in DOMAIN Flow} \cup {"created", "failed"}

\* _apply_status: the furthest milestone names the status.
StatusOf(done, error) ==
  LET passed == {i \in DOMAIN Flow : FlagsFor(Flow[i]) \cap done # {}}
  IN  IF passed # {} THEN Flow[CHOOSE i \in passed : \A j \in passed : j <= i]
      ELSE IF error THEN "failed" ELSE "created"

Row == [status : Statuses \cup {"none"}, done : SUBSET Flags, error : BOOLEAN,
        truck : Trucks \cup {None}, dest : Dests \cup {None}]
NoOrder == [status |-> "none", done |-> {}, error |-> FALSE, truck |-> None, dest |-> None]

ASSUME NoneIsNoRow == None \notin Row

Resting == [at |-> "rest", todo |-> {}, on |-> None, tries |-> 0, reply |-> None]
Free == [op |-> "free", pkg |-> None, seen |-> NoOrder, arg |-> None]
Unread == [p \in Packages |-> None]

Init ==
  /\ row = [p \in Packages |-> NoOrder]
  /\ session = Unread
  /\ stock = 0
  /\ worker = Resting
  /\ pending = {} /\ fresh = {} /\ torn = FALSE
  /\ thread = [h \in Threads |-> Free]
  /\ sent = {} /\ made = {} /\ reports = {}
  /\ ups = [p \in Packages |-> [status |-> "none", truck |-> None, dest |-> None,
                                leaving |-> FALSE, did |-> {}, told |-> {}]]
  /\ recent = [p \in Packages |-> {}]
  /\ repeated = FALSE /\ restarted = FALSE /\ stranded = {}
  /\ faults = 0

-----------------------------------------------------------------------------
Fault == faults < MaxFaults /\ faults' = faults + 1

\* A milestone is passed: the flags are set, the error is cleared.
Marked(r, flags) ==
  [r EXCEPT !.done = @ \cup flags, !.error = FALSE,
            !.status = StatusOf(r.done \cup flags, FALSE)]

\* Wrong on purpose: a commit writes all the flags of the object.
WrittenFlags(now, old, new) ==
  LET Column(o, n, c) == IF n # o THEN n ELSE c
  IN  [status |-> Column(old.status, new.status, now.status),
       done   |-> new.done,
       error  |-> Column(old.error, new.error, now.error),
       truck  |-> Column(old.truck, new.truck, now.truck),
       dest   |-> Column(old.dest, new.dest, now.dest)]

\* The row after a commit of an object that was read as old and is now new:
\* only the columns that differ are written.
Written(now, old, new) ==
  LET Column(o, n, c) == IF n # o THEN n ELSE c
  IN  [status |-> Column(old.status, new.status, now.status),
       done   |-> now.done \cup (new.done \ old.done),
       error  |-> Column(old.error, new.error, now.error),
       truck  |-> Column(old.truck, new.truck, now.truck),
       dest   |-> Column(old.dest, new.dest, now.dest)]

\* The worker commits an object of its session.
Save(p, new) ==
  /\ row' = [row EXCEPT ![p] = Written(@, session[p], new)]
  /\ session' = [session EXCEPT ![p] = new]

\* mark_failure, of a shipment that the session may not hold yet.  An error
\* that it holds already is not written again when it has the same words.
SaveFailure(p) ==
  LET old == IF session[p] = None THEN row[p] ELSE session[p]
      new == [old EXCEPT !.error = TRUE, !.status = "failed"]
      saved == Written(row[p], old, new)
  IN  /\ \E r \in {saved, [saved EXCEPT !.error = TRUE]} : row' = [row EXCEPT ![p] = r]
      /\ session' = [session EXCEPT ![p] = new]

\* Wrong on purpose: shipments with an error are listed as well.
DueFailed(l, r) ==
  /\ r.status # "none" /\ "delivered" \notin r.done
  /\ Wants[l].has \subseteq r.done /\ Wants[l].lacks \notin r.done

\* get_shipments_needing_pickup ... get_shipments_needing_delivery_notice
Due(l, r) ==
  /\ r.status # "none" /\ "delivered" \notin r.done /\ ~r.error
  /\ Wants[l].has \subseteq r.done /\ Wants[l].lacks \notin r.done

-----------------------------------------------------------------------------
(* Orders.                                                                 *)

\* create_order, called by /orders and by the checkout of a cart.
CreateOrder(p) ==
  /\ row[p] = NoOrder
  /\ row' = [row EXCEPT ![p] = [NoOrder EXCEPT !.status = "created", !.dest = Home]]
  /\ recent' = [recent EXCEPT ![p] = {Home}]
  /\ UNCHANGED <<session, stock, worker, queue, thread, world, ups, repeated, restarted, stranded, faults>>

\* redirect_order reads the order: a delivered or failed one is refused, UPS
\* is asked about any other that is not as created.  Of what the request has
\* read only the address is used again.
Redirect(h, p, d) ==
  /\ thread[h] = Free /\ row[p].status \notin {"none", "delivered", "failed"}
  /\ thread' = [thread EXCEPT ![h] =
       [op |-> IF row[p].status = "created" THEN "save" ELSE "ask",
        pkg |-> p, seen |-> [NoOrder EXCEPT !.dest = row[p].dest], arg |-> d]]
  /\ UNCHANGED <<row, session, stock, worker, queue, world, ups, history, faults>>

\* UPSClient.redirect_package: UPS moves a shipment that has not left, and
\* refuses the others; a call whose answer is lost may have moved it.
AskUps(h) ==
  LET p == thread[h].pkg
      moved == IF ups[p].status \in {"enroute", "waiting"}
               THEN [ups EXCEPT ![p].dest = thread[h].arg] ELSE ups
  IN  /\ thread[h].op = "ask"
      /\ \/ /\ ups' = moved /\ UNCHANGED faults
            /\ thread' = IF ups[p].status \in {"enroute", "waiting"}
                         THEN [thread EXCEPT ![h].op = "save"]
                         ELSE [thread EXCEPT ![h] = Free]
         \/ /\ Fault /\ ups' \in {ups, moved}
            /\ thread' = [thread EXCEPT ![h] = Free]
      /\ UNCHANGED <<row, session, stock, worker, queue, world, history>>

\* update_order_destination, from the object the request has read before or
\* from a new one; it does not look at the status.
SaveRedirect(h) ==
  LET p == thread[h].pkg
      d == thread[h].arg
  IN  /\ thread[h].op = "save"
      /\ \E old \in {row[p], thread[h].seen} :
           row' = [row EXCEPT ![p] = Written(@, old, [old EXCEPT !.dest = d])]
      /\ recent' = [recent EXCEPT ![p] = @ \cup {row'[p].dest}]
      /\ thread' = [thread EXCEPT ![h] = Free]
      /\ UNCHANGED <<session, stock, worker, queue, world, ups, repeated, restarted, stranded, faults>>

-----------------------------------------------------------------------------
(* The worker.                                                             *)

\* sync_once: whatever the world does not have is sent, unless the connection
\* fails, which closes it.  Commands that are sent again change nothing.
Synchronise ==
  \/ sent' = sent \cup fresh /\ fresh' = {} /\ UNCHANGED <<torn, faults>>
  \/ Fault /\ torn' = FALSE /\ UNCHANGED <<sent, fresh>>

\* Wrong on purpose: one session for the whole life of the worker.
StartCycleKeepingSession ==
  /\ worker.at \in {"rest", "last"}
  /\ worker' = [worker EXCEPT !.at = "first"]
  /\ recent' = [p \in Packages |-> {row[p].dest}]
  /\ Synchronise
  /\ UNCHANGED <<row, session, stock, pending, thread, made, reports, ups, repeated, restarted, stranded>>

\* The last cycle is over: run_once opens a session and synchronises with the
\* world.
StartCycle ==
  /\ worker.at \in {"rest", "last"}
  /\ worker' = [worker EXCEPT !.at = "first"]
  /\ session' = Unread
  /\ recent' = [p \in Packages |-> {row[p].dest}]
  /\ Synchronise
  /\ UNCHANGED <<row, stock, pending, thread, made, reports, ups, repeated, restarted, stranded>>

\* On a torn stream no more frames are read.
Syncing == worker.at \in {"first", "last"} /\ ~torn

\* A mark_* function looks for a shipment the session does not hold.
Read(p) ==
  /\ Syncing /\ session[p] = None /\ \E c \in reports : c[2] = p
  /\ session' = [session EXCEPT ![p] = row[p]]
  /\ UNCHANGED <<row, stock, worker, queue, thread, world, ups, history, faults>>

\* Wrong on purpose: packing takes nothing from the stock.
StockAfterKept(k) == IF k = "buy" THEN stock + 1 ELSE stock

\* Wrong on purpose: the stock has no floor.
StockAfterBelow(k) ==
  CASE k = "buy"  -> stock + 1
    [] k = "pack" -> stock - 1
    [] k = "load" -> stock

\* mark_inventory_arrived adds the order to the stock, mark_packed takes it.
StockAfter(k) ==
  CASE k = "buy"  -> stock + 1
    [] k = "pack" -> IF stock = 0 THEN 0 ELSE stock - 1
    [] k = "load" -> stock

\* _complete of whichever command, or of none.
Complete(gone) == pending' = pending \ gone /\ fresh' = fresh \ gone /\ UNCHANGED torn

\* _handle_responses: the report is marked and acknowledged.  _complete takes
\* the number of the report for that of a command, so it removes whichever
\* command has it, or none.
HandleReport(c) ==
  /\ Syncing /\ c \in reports /\ session[c[2]] # None
  /\ Save(c[2], Marked(session[c[2]], {Reported[c[1]]}))
  /\ stock' = StockAfter(c[1])
  /\ \E gone \in {{}} \cup {{x} : x \in pending} : Complete(gone)
  /\ reports' = reports \ {c}
  /\ repeated' = (repeated \/ Reported[c[1]] \in row[c[2]].done)
  /\ UNCHANGED <<worker, thread, sent, made, ups, recent, restarted, stranded, faults>>

\* The save fails.  The number of the report is noted already, so the world
\* will see it acknowledged; the session is of no more use, and the cycle ends
\* with its next query.
ReportNotSaved(c) ==
  /\ Syncing /\ c \in reports /\ Fault
  /\ reports' = reports \ {c}
  /\ stranded' = stranded \cup {c[2]}
  /\ worker' = Resting /\ session' = Unread
  /\ UNCHANGED <<row, stock, queue, thread, sent, made, ups, recent, repeated, restarted>>

\* The time is up in the middle of a frame, and the socket stays open.
Tear ==
  /\ Syncing /\ Fault
  /\ torn' = TRUE
  /\ UNCHANGED <<row, session, stock, worker, pending, fresh, thread, world, ups, history>>

\* The command that the world means when it refuses c.  After a restart its
\* number may be that of another command.
Meant(c) == IF c \in pending \ fresh THEN {c} ELSE IF restarted THEN pending ELSE {}

\* _handle_error: a command that the world refuses fails its shipment, and is
\* passed over when nothing of its number is queued.
HandleError(c) ==
  /\ Syncing /\ c \in sent /\ Fault
  /\ sent' = sent \ {c}
  /\ \/ \E x \in Meant(c) : SaveFailure(x[2]) /\ Complete({x})
     \/ c \notin pending \ fresh /\ UNCHANGED <<row, session, queue>>
  /\ UNCHANGED <<stock, worker, thread, made, reports, ups, history>>

\* A loop, or the synchronisation before it, is over.  The query of the next
\* loop lists rows as they are; of the objects the session knows, those that
\* no reference has kept alive are read again.  The last two loops pass over
\* an object without a truck.
NextLoop ==
  /\ worker.at \in DOMAIN Following \ {"notice"} /\ worker.todo = {} /\ worker.on = None
  /\ LET l == Following[worker.at]
         listed == {p \in Packages : Due(l, row[p])}
     IN  /\ \E kept \in SUBSET {p \in Packages : session[p] # None} :
              session' = [p \in Packages |-> IF p \in kept THEN session[p]
                                             ELSE IF p \in listed THEN row[p] ELSE None]
         /\ worker' = [worker EXCEPT !.at = l, !.todo =
              {p \in listed : l \in {"load", "notice"} => session'[p].truck # None}]
  /\ UNCHANGED <<row, stock, queue, thread, world, ups, history, faults>>

Done(p) == [worker EXCEPT !.todo = @ \ {p}, !.on = None, !.tries = 0, !.reply = None]

\* The three loops that queue a command, and say so when the object does not.
QueueCommand(p) ==
  LET l == worker.at
  IN  /\ l \in DOMAIN Asks /\ p \in worker.todo
      /\ pending' = pending \cup {<<Asks[l].kind, p>>}
      /\ fresh' = fresh \cup ({<<Asks[l].kind, p>>} \ pending)
      /\ IF Asks[l].flag \in session[p].done THEN UNCHANGED <<row, session>>
         ELSE Save(p, Marked(session[p], {Asks[l].flag}))
      /\ worker' = Done(p)
      /\ UNCHANGED <<stock, torn, thread, world, ups, history, faults>>

\* UPS handles /pickup: a truck is sent, whatever the shipment was doing.
UpsPickup(p, t) ==
  [ups EXCEPT ![p].status = "enroute", ![p].truck = t, ![p].dest = session[p].dest]

\* UPS handles /package-loaded from its own truck: the delivery is queued to
\* the address of the request.
UpsLoaded(p) ==
  [ups EXCEPT ![p].status = "out", ![p].dest = session[p].dest,
              ![p].leaving = TRUE, ![p].did = @ \cup {"released"}]

\* What a request of the worker can do at UPS.
Handled(p) == IF worker.at = "pickup" THEN {UpsPickup(p, t) : t \in Trucks}
              ELSE IF ups[p].truck = session[p].truck THEN {UpsLoaded(p)} ELSE {}

\* The pickup loop and the notice loop work on one shipment after the other.
Calling(p) ==
  /\ worker.at \in {"pickup", "notice"} /\ p \in worker.todo
  /\ worker.on \in {None, p} /\ worker.reply = None

\* The request is handled and answered.
Answered(p) ==
  /\ Calling(p)
  /\ ups' \in Handled(p)
  /\ worker' = [worker EXCEPT !.on = p, !.reply = ups'[p].truck]
  /\ UNCHANGED <<row, session, stock, queue, thread, world, history, faults>>

\* UPS rejects the request: another truck is assigned, or none is to be had.
Rejected(p) ==
  /\ Calling(p)
  /\ Handled(p) = {} \/ worker.at = "pickup"
  /\ IF worker.at = "pickup" THEN Fault ELSE UNCHANGED faults
  /\ worker' = [worker EXCEPT !.on = p, !.reply = "error"]
  /\ UNCHANGED <<row, session, stock, queue, thread, world, ups, history>>

\* An attempt of _post_with_retry fails, before or after UPS has handled it.
AttemptFails(p) ==
  /\ Calling(p) /\ Fault
  /\ ups' \in {ups} \cup Handled(p)
  /\ worker' = [worker EXCEPT !.on = p, !.tries = @ + 1,
                              !.reply = IF worker.tries + 1 = Attempts THEN "error" ELSE None]
  /\ UNCHANGED <<row, session, stock, queue, thread, world, history>>

\* The outcome is saved: mark_pickup_requested, mark_delivery_notified or
\* mark_failure.
Conclude ==
  LET p == worker.on
  IN  /\ worker.reply # None
      /\ \/ worker.reply = "error" /\ SaveFailure(p)
         \/ /\ worker.reply # "error" /\ worker.at = "pickup"
            /\ Save(p, [Marked(session[p], {"pickup_requested"}) EXCEPT !.truck = worker.reply])
         \/ /\ worker.reply # "error" /\ worker.at = "notice"
            /\ Save(p, Marked(session[p], {"delivery_notified"}))
      /\ worker' = Done(p)
      /\ UNCHANGED <<stock, queue, thread, world, ups, history, faults>>

\* After the loops the worker synchronises again.
SyncAgain ==
  /\ worker.at = "notice" /\ worker.todo = {} /\ worker.on = None
  /\ worker' = [worker EXCEPT !.at = "last"]
  /\ Synchronise
  /\ UNCHANGED <<row, session, stock, pending, thread, made, reports, ups, history>>

\* An exception ends the cycle, or the process ends: the next one knows no
\* commands and numbers its own from one.
WorkerDies ==
  /\ worker.at # "rest" /\ Fault
  /\ worker' = Resting /\ session' = Unread
  /\ \/ UNCHANGED <<queue, restarted>>
     \/ pending' = {} /\ fresh' = {} /\ torn' = FALSE /\ restarted' = TRUE
  /\ UNCHANGED <<row, stock, thread, world, ups, recent, repeated, stranded>>

-----------------------------------------------------------------------------
(* UPS and its callbacks.                                                  *)

UpsArrives(p) ==
  /\ ups[p].status = "enroute"
  /\ ups' = [ups EXCEPT ![p].status = "waiting", ![p].did = @ \cup {"met"},
                        ![p].told = @ \ {"truck_arrived"}]
  /\ UNCHANGED <<row, session, stock, worker, queue, thread, world, history, faults>>

UpsDelivers(p) ==
  /\ ups[p].leaving
  /\ ups' = [ups EXCEPT ![p].status = "delivered", ![p].leaving = FALSE,
                        ![p].did = @ \cup {"delivered"}, ![p].told = @ \ {"delivered"}]
  /\ UNCHANGED <<row, session, stock, worker, queue, thread, world, history, faults>>

\* The callback that UPS owes Amazon about a package.
Owed(p) == CASE ups[p].status = "waiting"   -> {"truck_arrived"}
             [] ups[p].status = "delivered" -> {"delivered"}
             [] OTHER                       -> {}

\* POST /truck-arrived and /package-delivered: a thread reads the row.  UPS
\* calls again when it has missed an answer.
Callback(h, p) ==
  /\ thread[h] = Free
  /\ \E o \in Owed(p) :
       /\ IF o \in ups[p].told THEN Fault ELSE UNCHANGED faults
       /\ ups' = [ups EXCEPT ![p].told = @ \cup {o}]
       /\ thread' = [thread EXCEPT ![h] =
            [op |-> o, pkg |-> p, seen |-> row[p],
             arg |-> IF o = "truck_arrived" THEN ups[p].truck ELSE None]]
  /\ UNCHANGED <<row, session, stock, worker, queue, world, history>>

\* A callback commits what its thread has read, marked.
EndCallback(h, new) ==
  LET p == thread[h].pkg
  IN  /\ row' = [row EXCEPT ![p] = Written(@, thread[h].seen, new)]
      /\ thread' = [thread EXCEPT ![h] = Free]
      /\ UNCHANGED <<session, stock, worker, queue, world, ups, history, faults>>

\* mark_truck_arrived
EndArrival(h) ==
  /\ thread[h].op = "truck_arrived"
  /\ EndCallback(h, [Marked(thread[h].seen, {"truck_arrived"}) EXCEPT !.truck = thread[h].arg])

\* mark_delivered
EndDelivery(h) ==
  /\ thread[h].op = "delivered"
  /\ EndCallback(h, Marked(thread[h].seen, {"delivered", "delivery_notified"}))

\* A callback fails in each of its attempts, or UPS dies before it: it is not
\* made again (CallbackSettles of UpsShipments).
CallbackLost(p) ==
  /\ Owed(p) \ ups[p].told # {} /\ Fault
  /\ ups' = [ups EXCEPT ![p].told = @ \cup Owed(p)]
  /\ stranded' = stranded \cup {p}
  /\ UNCHANGED <<row, session, stock, worker, queue, thread, world, recent, repeated, restarted>>

\* The web process dies on a request.  UPS sees its call fail and repeats it.
ThreadDies(h) ==
  /\ thread[h] # Free /\ Fault
  /\ thread' = [thread EXCEPT ![h] = Free]
  /\ ups' = [ups EXCEPT ![thread[h].pkg].told = @ \ {thread[h].op}]
  /\ UNCHANGED <<row, session, stock, worker, queue, world, history>>

-----------------------------------------------------------------------------
(* The world.                                                              *)

\* A command that has come under two numbers is carried out twice.
CarryOut(c) ==
  /\ c \in sent
  /\ sent' = sent \ {c}
  /\ made' = made \cup {c} /\ reports' = reports \cup {c}
  /\ UNCHANGED <<row, session, stock, worker, queue, thread, ups, history, faults>>

\* The number of a command is one that the world has had from the process
\* before: the command is acknowledged and nothing happens.
PassOver(c) ==
  /\ restarted /\ c \in sent \cap (pending \ fresh)
  /\ sent' = sent \ {c}
  /\ stranded' = stranded \cup {c[2]}
  /\ UNCHANGED <<row, session, stock, worker, queue, thread, made, reports, ups,
                 recent, repeated, restarted, faults>>

\* A report is sent again, its acknowledgement being lost.
ReportAgain(c) ==
  /\ c \in made \ reports /\ Fault
  /\ reports' = reports \cup {c}
  /\ UNCHANGED <<row, session, stock, worker, queue, thread, sent, made, ups, history>>

-----------------------------------------------------------------------------
Web ==
  \/ \E p \in Packages : CreateOrder(p)
  \/ \E h \in Threads :
       \/ \E p \in Packages : Callback(h, p) \/ \E d \in Dests \ {Home} : Redirect(h, p, d)
       \/ AskUps(h) \/ SaveRedirect(h) \/ EndArrival(h) \/ EndDelivery(h) \/ ThreadDies(h)

Worker ==
  \/ StartCycle \/ NextLoop \/ SyncAgain \/ Tear
  \/ \E p \in Packages :
       \/ Read(p) \/ QueueCommand(p)
       \/ Answered(p) \/ Rejected(p) \/ AttemptFails(p)
  \/ \E c \in Commands : HandleReport(c) \/ ReportNotSaved(c) \/ HandleError(c)
  \/ Conclude

Outside ==
  \/ \E p \in Packages : UpsArrives(p) \/ UpsDelivers(p) \/ CallbackLost(p)
  \/ \E c \in Commands : CarryOut(c) \/ PassOver(c) \/ ReportAgain(c)

Next == Web \/ Worker \/ WorkerDies \/ Outside

Spec == Init /\ [][Next]_vars

\* Processes go on: the worker cycles for ever, an open report is read in one
\* synchronisation or another, the world and UPS do what they were told, UPS
\* makes its callback, threads finish.
FairSpec ==
  /\ Spec
  /\ WF_vars(\/ StartCycle \/ NextLoop \/ SyncAgain \/ Conclude
             \/ \E p \in Packages : QueueCommand(p) \/ Answered(p) \/ Rejected(p))
  /\ \A p \in Packages :
       /\ SF_vars(Read(p)) /\ SF_vars(\E k \in Kinds : HandleReport(<<k, p>>))
       /\ WF_vars(\E k \in Kinds : CarryOut(<<k, p>>))
       /\ WF_vars(UpsArrives(p) \/ UpsDelivers(p))
       /\ SF_vars(\E h \in Threads : Callback(h, p))
  /\ \A h \in Threads : WF_vars(AskUps(h) \/ SaveRedirect(h) \/ EndArrival(h) \/ EndDelivery(h))

-----------------------------------------------------------------------------
(* Properties.                                                             *)

\* Every variable keeps its type; what the worker has on its list, it has in
\* its session, and a pending command is for a package that was ordered.
TypeOK ==
  /\ row \in [Packages -> Row]
  /\ session \in [Packages -> Row \cup {None}]
  /\ stock \in Nat
  /\ worker \in [at : {"rest", "last"} \cup DOMAIN Following, todo : SUBSET Packages,
                 on : Packages \cup {None}, tries : 0..Attempts,
                 reply : Trucks \cup {None, "error"}]
  /\ \A p \in worker.todo : session[p] # None
  /\ pending \subseteq Commands /\ fresh \subseteq pending /\ torn \in BOOLEAN
  /\ thread \in [Threads -> [op : {"free", "save", "ask", "truck_arrived", "delivered"},
                             pkg : Packages \cup {None}, seen : Row,
                             arg : Dests \cup Trucks \cup {None}]]
  /\ sent \subseteq Commands /\ made \subseteq Commands /\ reports \subseteq Commands
  /\ ups \in [Packages -> [status : {"none", "enroute", "waiting", "out", "delivered"},
                           truck : Trucks \cup {None}, dest : Dests \cup {None},
                           leaving : BOOLEAN, did : SUBSET {"met", "released", "delivered"},
                           told : SUBSET {"truck_arrived", "delivered"}]]
  /\ recent \in [Packages -> SUBSET (Dests \cup {None})]
  /\ repeated \in BOOLEAN /\ restarted \in BOOLEAN /\ stranded \subseteq Packages
  /\ faults \in 0..MaxFaults

\* Whatever was read before whichever commit, and however often things are
\* reported, the status of an order never names a milestone the order has not
\* passed (_apply_status works on objects that may be stale).
StatusNeverAhead ==
  \A p \in Packages :
    row[p].status \notin {"none", "created", "failed"} =>
      FlagsFor(row[p].status) \cap row[p].done # {}

\* A shipment that waits on a list of the worker's cycle carries no error:
\* while the loop works on the others, no commit of its own objects, of a
\* callback or of a redirect fails it.  (In later cycles it may come back:
\* every mark_* function clears the error.)
FailedLeavesQueues == \A p \in worker.todo : ~row[p].error

\* As long as no report has come twice, the stock is what was bought for the
\* orders that are not packed: the floor of mark_packed never hides a gap.
StockExact ==
  ~repeated =>
    stock = Cardinality({p \in Packages :
      "inventory_arrived" \in row[p].done /\ "packed" \notin row[p].done})

\* A redirect that Amazon has saved before a cycle of the worker began is in
\* the /package-loaded of that cycle: the address UPS delivers to is at most
\* one cycle old, although the session never reads an order again.
RedirectReachesUps ==
  [][\A p \in Packages :
       ups'[p].leaving /\ (ups[p].status # "out" \/ ups'[p].dest # ups[p].dest)
         /\ ups'[p].status = "out"
       => ups'[p].dest \in recent[p]]_vars

\* No order stays open for ever, one that has failed and come back neither,
\* over lost and repeated messages, reports read as those of other commands
\* and deaths of the worker and the web server.  What keeps it open: a report
\* whose save failed, a command passed over after a restart, a callback that
\* UPS has given up (stranded), or a stream that is torn and never closed.
OrderSettles ==
  \/ <>[]torn
  \/ \A p \in Packages :
       []<>(row[p] = NoOrder \/ "delivered" \in row[p].done \/ row[p].error \/ p \in stranded)

\* What has happened to the goods, as the world and UPS know it.
Goods ==
  [p \in Packages |->
     {e \in {"bought", "packed", "loaded"} :
        <<[bought |-> "buy", packed |-> "pack", loaded |-> "load"][e], p>> \in made}
     \cup ups[p].did]

\* Nothing happens to the goods of an order before what it needs (it may
\* happen again, see RetriesAreHarmless of AmazonWorld): Amazon decides when,
\* from flags of its own that lag behind and are set by reports and callbacks
\* which come late, twice or never.
Abstract == INSTANCE Fulfilment WITH happened <- Goods
Implements == Abstract!Spec
=============================================================================
