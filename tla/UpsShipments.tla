---------------------------- MODULE UpsShipments ----------------------------
(***************************************************************************)
(* The life of a package at UPS (ups/services.py 169-424 and 434-444, the  *)
(* shipment half of ups/world/client.py, the callback loop of the daemon). *)
(*                                                                         *)
(* Three parties change a shipment row.  Amazon and the users send HTTP    *)
(* requests, each handled by a thread that reads the row once and saves    *)
(* columns of it later; only /pickup runs in a transaction.  The daemon    *)
(* applies what the world reports, one saved object at a time, and calls   *)
(* Amazon back.  The world is external: it numbers its reports itself and  *)
(* repeats each until it is acknowledged.  How a row gets to the world and *)
(* is acknowledged is the subject of UpsCommands; here its status moves in *)
(* single steps.                                                           *)
(***************************************************************************)
EXTENDS Integers, FiniteSets

CONSTANTS
  Packages,      \* package ids, in the order the shipments are created
  Trucks,        \* trucks of the world session
  Dests,         \* delivery addresses
  None,          \* no truck, no address, no row
  Threads,       \* request threads of the web server
  FailureLimit,  \* callback failures after which the daemon stops (5)
  Window,        \* waiting shipments the callback loop looks at (20)
  MaxSeq,        \* bound: rows queued
  MaxFaults      \* bound: lost answers, lost acknowledgements, deaths,
                 \* reports with the number of another row

ASSUME UpsShipmentsAssumption ==
  /\ Packages \subseteq Nat \ {0} /\ IsFiniteSet(Packages)
  /\ None \notin Trucks /\ None \notin Dests /\ None \notin Packages
  /\ None \notin [kind : {"completion", "delivered"}, seq : 1..MaxSeq]
  /\ FailureLimit \in Nat /\ Window \in Nat
  /\ MaxSeq \in Nat /\ MaxFaults \in Nat

VARIABLES
  ship,      \* the shipment rows
  row,       \* the pickup and deliver rows of the world-command table
  next,      \* the next sequence number
  call,      \* requests in progress, with what each thread has read
  daemon,    \* the world report or callback the daemon is working on
  events,    \* ShipmentEvents the daemon counts
  notices,   \* external: reports the world has not seen acknowledged
  at,        \* external: the package a truck is waiting for at a warehouse
  reached,   \* external: rows whose truck reached the warehouse or address
  told,      \* external: the truck Amazon was told has arrived
  reports,   \* history: accepted /package-loaded requests
  retries,   \* history: callbacks made by the callback loop
  faults     \* faults so far

vars == <<ship, row, next, call, daemon, events, notices, at, reached, told,
          reports, retries, faults>>
web == <<ship, row, next, call, reports>>
outside == <<notices, at, reached, told>>

Seqs == 1..MaxSeq
Statuses == {"created", "enroute", "waiting", "loaded", "out", "delivered"}
Redirectable == {"created", "enroute", "waiting", "loaded"}

Shipment == [status : Statuses \cup {"none"}, dest : Dests \cup {None},
             truck : Trucks \cup {None}]
Row == [kind : {"pickup", "deliver", "absent"}, pkg : Packages \cup {None},
        truck : Trucks \cup {None}, dest : Dests \cup {None},
        state : {"open", "acked", "failed"}, completed : BOOLEAN]
Report == [pkg : Packages, truck : Trucks, dest : Dests]
Notice == [kind : {"completion", "delivered"}, seq : Seqs]

Absent == [kind |-> "absent", pkg |-> None, truck |-> None, dest |-> None,
           state |-> "open", completed |-> FALSE]
\* seq is the number taken for a row that is not yet inserted, 0 for none.
Idle == [step |-> "idle", pkg |-> None, truck |-> None, dest |-> None, seq |-> 0]
Resting == [step |-> "idle", pkg |-> None, truck |-> None, dest |-> None,
            seq |-> 0, notice |-> None]

Init ==
  /\ ship = [p \in Packages |-> [status |-> "none", dest |-> None, truck |-> None]]
  /\ row = [n \in Seqs |-> Absent]
  /\ next = 1
  /\ call = [c \in Threads |-> Idle]
  /\ daemon = Resting
  /\ events = [p \in Packages |-> [told |-> FALSE, failed |-> 0]]
  /\ notices = {}
  /\ at = [t \in Trucks |-> None]
  /\ reached = {}
  /\ told = [p \in Packages |-> None]
  /\ reports = {}
  /\ retries = [p \in Packages |-> 0]
  /\ faults = 0

-----------------------------------------------------------------------------
Known(p) == ship[p].status # "none"
OfKind(k) == {n \in Seqs : row[n].kind = k}
RowsOf(k, p) == {n \in OfKind(k) : row[n].pkg = p}
IsFirst(n, S) == n \in S /\ \A m \in S : n <= m

Fault == faults < MaxFaults /\ faults' = faults + 1

\* A request that comes again because its answer was lost counts as a fault.
Repeated(again) == IF again THEN Fault ELSE UNCHANGED faults

\* Wrong on purpose: the incremented counter is not saved.
TakeNumberUnsaved == next \in Seqs /\ next' = next

\* next_sequence_number: the counter is committed on its own, except in
\* /pickup, whose transaction keeps the lock until the row is in.
TakeNumber == next \in Seqs /\ next' = next + 1

\* The INSERT of queue_world_command, for the two kinds of rows that move a
\* package.
InsertRow(n, k, p, t, d) ==
  row' = [row EXCEPT ![n] =
    [kind |-> k, pkg |-> p, truck |-> t, dest |-> d, state |-> "open",
     completed |-> FALSE]]

-----------------------------------------------------------------------------
(* Requests.                                                               *)

\* POST /pickup, create_shipment_from_amazon under its row lock: register or
\* update, choose a truck, queue the pickup, EN_ROUTE whatever the status was.
Pickup(p, t, d) ==
  /\ Repeated(ship[p].status \notin {"none", "created"})
  /\ TakeNumber /\ InsertRow(next, "pickup", p, t, None)
  /\ ship' = [ship EXCEPT ![p] = [status |-> "enroute", dest |-> d, truck |-> t]]
  /\ UNCHANGED <<call, daemon, events, outside, reports, retries>>

\* POST /api/shipments/ with queue_pickup false: registered with no truck; a
\* repeated request may name one for a shipment that has none.
Register(p, t, d) ==
  /\ Repeated(Known(p))
  /\ ship' = [ship EXCEPT
       ![p].dest = d,
       ![p].status = IF Known(p) THEN @ ELSE "created",
       ![p].truck = IF Known(p) /\ @ = None THEN t ELSE @]
  /\ UNCHANGED <<row, next, call, daemon, events, outside, reports, retries>>

\* POST /package-loaded, mark_loaded_from_amazon: the thread reads the row;
\* a truck other than the assigned one is refused with 400.  Amazon reports
\* the truck it was told of.
ReportLoaded(c, p, t, d) ==
  /\ call[c] = Idle /\ Known(p)
  /\ told[p] = t \/ (told[p] = None /\ ship[p].status = "created")
  /\ ship[p].truck \in {None, t}
  /\ Repeated(\E r \in reports : r.pkg = p)
  /\ call' = [call EXCEPT ![c] = [step |-> "assign", pkg |-> p, truck |-> t,
                                  dest |-> d, seq |-> 0]]
  /\ reports' = reports \cup {[pkg |-> p, truck |-> t, dest |-> d]}
  /\ UNCHANGED <<ship, row, next, daemon, events, outside, retries>>

Step(c, from, to) ==
  /\ call[c].step = from
  /\ call' = [call EXCEPT ![c] = IF to = "idle" THEN Idle
                                 ELSE [call[c] EXCEPT !.step = to]]

\* Saves the assigned truck and the reported destination.
SaveAssignment(c) ==
  LET p == call[c].pkg
  IN  /\ Step(c, "assign", "load")
      /\ ship' = [ship EXCEPT ![p].truck = call[c].truck, ![p].dest = call[c].dest]
      /\ UNCHANGED <<row, next, reports, daemon, events, outside, retries, faults>>

\* mark_shipment_loaded
MarkLoaded(c) ==
  /\ Step(c, "load", "queue")
  /\ ship' = [ship EXCEPT ![call[c].pkg].status = "loaded"]
  /\ UNCHANGED <<row, next, reports, daemon, events, outside, retries, faults>>

\* queue_delivery_command, on the way to its row.
TakeDeliveryNumber(c) ==
  /\ call[c].step = "queue" /\ TakeNumber
  /\ call' = [call EXCEPT ![c].step = "insert", ![c].seq = next]
  /\ UNCHANGED <<ship, row, reports, daemon, events, outside, retries, faults>>

\* Wrong on purpose: the shipment is read again instead of using the report.
QueueDeliveryReread(c) ==
  LET p == call[c].pkg
  IN  /\ call[c].step = "insert"
      /\ InsertRow(call[c].seq, "deliver", p, ship[p].truck, ship[p].dest)
      /\ call' = [call EXCEPT ![c].step = "depart", ![c].seq = 0]
      /\ UNCHANGED <<ship, next, reports, daemon, events, outside, retries, faults>>

\* The row carries what the thread has in memory.
QueueDelivery(c) ==
  /\ call[c].step = "insert"
  /\ InsertRow(call[c].seq, "deliver", call[c].pkg, call[c].truck, call[c].dest)
  /\ call' = [call EXCEPT ![c].step = "depart", ![c].seq = 0]
  /\ UNCHANGED <<ship, next, reports, daemon, events, outside, retries, faults>>

MarkOut(c) ==
  /\ Step(c, "depart", "idle")
  /\ ship' = [ship EXCEPT ![call[c].pkg].status = "out"]
  /\ UNCHANGED <<row, next, reports, daemon, events, outside, retries, faults>>

\* (LOADING also permits a redirect, but no code sets it.)
\* redirect_shipment, from the portal or from Amazon: can_redirect is asked
\* of the row as the thread read it, the new destination is saved later.
Redirect(c, p, d) ==
  /\ call[c] = Idle /\ ship[p].status \in Redirectable
  /\ call' = [call EXCEPT ![c] = [step |-> "redirect", pkg |-> p, truck |-> None,
                                  dest |-> d, seq |-> 0]]
  /\ UNCHANGED <<ship, row, next, reports, daemon, events, outside, retries, faults>>

SaveRedirect(c) ==
  /\ Step(c, "redirect", "idle")
  /\ ship' = [ship EXCEPT ![call[c].pkg].dest = call[c].dest]
  /\ UNCHANGED <<row, next, reports, daemon, events, outside, retries, faults>>

\* The web process dies: its requests end where they are.
WebDies ==
  /\ \E c \in Threads : call[c] # Idle
  /\ Fault
  /\ call' = [c \in Threads |-> Idle]
  /\ UNCHANGED <<ship, row, next, reports, daemon, events, outside, retries>>

-----------------------------------------------------------------------------
(* The world.                                                              *)

\* The two ways in which UpsCommands changes the status of a row: the world
\* accepts it; it is rejected or given up, for which something went wrong.
Accept(n) ==
  /\ row[n].kind # "absent" /\ row[n].state # "acked"
  /\ row' = [row EXCEPT ![n].state = "acked"]
  /\ UNCHANGED <<ship, next, call, reports, daemon, events, outside, retries, faults>>

Reject(n) ==
  /\ row[n].kind # "absent" /\ Fault
  /\ \E s \in {"open", "failed"} : row' = [row EXCEPT ![n].state = s]
  /\ UNCHANGED <<ship, next, call, reports, daemon, events, outside, retries>>

\* The truck of a pickup reaches the warehouse of that package.  Some builds
\* push a completion, others only answer queries (client.py:276).
WorldReaches(n) ==
  /\ n \in OfKind("pickup") \ reached
  /\ reached' = reached \cup {n}
  /\ at' = [at EXCEPT ![row[n].truck] = row[n].pkg]
  /\ notices' \in {notices, notices \cup {[kind |-> "completion", seq |-> n]}}
  /\ UNCHANGED <<web, told, daemon, events, retries, faults>>

\* A truck brings a package to its address, and may report itself finished.
WorldDelivers(n) ==
  /\ n \in OfKind("deliver") \ reached
  /\ reached' = reached \cup {n}
  /\ at' = [at EXCEPT ![row[n].truck] = None]
  /\ \E k \in {{"delivered"}, {"delivered", "completion"}} :
       notices' = notices \cup {[kind |-> x, seq |-> n] : x \in k}
  /\ UNCHANGED <<web, told, daemon, events, retries, faults>>

-----------------------------------------------------------------------------
(* The daemon: the handlers of process_world_response, save by save.       *)

Work(s, p, t, m) == [step |-> s, pkg |-> p, truck |-> t, dest |-> None, seq |-> 0,
                     notice |-> m]

\* The end of a handler: UPS acknowledges the report; the world may miss it.
EndReport(m) ==
  /\ daemon' = Resting
  /\ \/ notices' = notices \ {m} /\ UNCHANGED faults
     \/ m # None /\ UNCHANGED notices /\ Fault

\* handle_completion: the row with the number of the report is completed; if it
\* is a pickup its shipment is next, with the truck of the report.  The number
\* is the world's own, so it may be that of the row the report is about, that
\* of another row, or that of no row at all.
HandleCompletion(m, n) ==
  /\ daemon = Resting /\ m \in notices /\ m.kind = "completion"
  /\ row[n].kind # "absent"
  /\ row' = [row EXCEPT ![n].completed = TRUE]
  /\ \/ n = m.seq /\ row[n].kind = "deliver" /\ EndReport(m)
     \/ /\ row[n].kind = "pickup"
        /\ daemon' = Work("waiting", row[n].pkg, row[m.seq].truck, m)
        /\ IF n = m.seq THEN UNCHANGED faults ELSE Fault
        /\ UNCHANGED notices
     \/ /\ n # m.seq /\ row[n].kind = "deliver" /\ Fault
        /\ daemon' = Resting /\ notices' \in {notices, notices \ {m}}
  /\ UNCHANGED <<ship, next, call, reports, events, at, reached, told, retries>>

CompletionOfNothing(m) ==
  /\ daemon = Resting /\ m \in notices /\ m.kind = "completion"
  /\ EndReport(m)
  /\ UNCHANGED <<web, events, at, reached, told, retries>>

\* Wrong on purpose: a pickup that is completed is promoted again.
HandleTruckStatusAgain(t, n) ==
  /\ daemon = Resting /\ at[t] # None
  /\ faults > 0 \/ \A m \in notices : m.kind = "completion" => row[m.seq].truck # t
  /\ IsFirst(n, {k \in OfKind("pickup") : row[k].truck = t /\ row[k].state = "acked"})
  /\ row' = [row EXCEPT ![n].completed = TRUE]
  /\ daemon' = Work("waiting", row[n].pkg, t, None)
  /\ UNCHANGED <<ship, next, call, reports, events, outside, retries, faults>>

\* handle_truck_status, "arrive warehouse": the truck's oldest acknowledged,
\* unfinished pickup is promoted.  As long as nothing is lost or repeated, a
\* completion sent before this answer has been handled before it.
HandleTruckStatus(t, n) ==
  /\ daemon = Resting /\ at[t] # None
  /\ faults > 0 \/ \A m \in notices : m.kind = "completion" => row[m.seq].truck # t
  /\ IsFirst(n, {k \in OfKind("pickup") :
       row[k].truck = t /\ row[k].state = "acked" /\ ~row[k].completed})
  /\ row' = [row EXCEPT ![n].completed = TRUE]
  /\ daemon' = Work("waiting", row[n].pkg, t, None)
  /\ UNCHANGED <<ship, next, call, reports, events, outside, retries, faults>>

\* mark_shipment_waiting saves status and truck unconditionally.
MarkWaiting ==
  /\ daemon.step = "waiting"
  /\ ship' = [ship EXCEPT ![daemon.pkg].status = "waiting",
                          ![daemon.pkg].truck = daemon.truck]
  /\ daemon' = [daemon EXCEPT !.step = "telling"]
  /\ UNCHANGED <<row, next, call, reports, events, outside, retries, faults>>

\* notify_amazon_truck_arrived_for_waiting_shipment: the event says whether
\* the call succeeded; a failed call may have reached Amazon all the same.
TellArrival ==
  LET p == daemon.pkg
  IN  /\ daemon.step = "telling"
      /\ \/ /\ events' = [events EXCEPT ![p].told = TRUE]
            /\ told' = [told EXCEPT ![p] = daemon.truck]
         \/ /\ events' = [events EXCEPT ![p].failed = @ + 1]
            /\ told' \in {told, [told EXCEPT ![p] = daemon.truck]}
      /\ EndReport(daemon.notice)
      /\ UNCHANGED <<web, at, reached, retries>>

\* Wrong on purpose: the report of a shipment that is DELIVERED already counts as
\* dealt with.
HandleDeliveredOnce(m) ==
  LET p == row[m.seq].pkg
  IN  /\ daemon = Resting /\ m \in notices /\ m.kind = "delivered"
      /\ IF ship[p].status = "delivered"
         THEN EndReport(m) /\ UNCHANGED ship
         ELSE /\ daemon' = Work("bringing", p, None, m)
              /\ ship' = [ship EXCEPT ![p].status = "delivered"]
              /\ UNCHANGED <<notices, faults>>
      /\ UNCHANGED <<row, next, call, reports, events, at, reached, told, retries>>

\* handle_delivered, first half: a shipment that is not DELIVERED becomes it.
HandleDelivered(m) ==
  LET p == row[m.seq].pkg
  IN  /\ daemon = Resting /\ m \in notices /\ m.kind = "delivered"
      /\ IF ship[p].status = "delivered"
         THEN /\ daemon' = Work("closing", p, None, m)
              /\ UNCHANGED ship
         ELSE /\ daemon' = Work("bringing", p, None, m)
              /\ ship' = [ship EXCEPT ![p].status = "delivered"]
      /\ UNCHANGED <<row, next, call, reports, events, outside, retries, faults>>

\* The package-delivered callback; a failure shares the counter of arrivals.
TellDelivered ==
  /\ daemon.step = "bringing"
  /\ daemon' = [daemon EXCEPT !.step = "closing"]
  /\ \/ UNCHANGED events
     \/ events' = [events EXCEPT ![daemon.pkg].failed = @ + 1]
  /\ UNCHANGED <<web, outside, retries, faults>>

\* handle_delivered, second half: every delivery row of the package is closed.
CloseDeliveries ==
  /\ daemon.step = "closing"
  /\ row' = [n \in Seqs |-> IF n \in RowsOf("deliver", daemon.pkg)
                            THEN [row[n] EXCEPT !.completed = TRUE] ELSE row[n]]
  /\ EndReport(daemon.notice)
  /\ UNCHANGED <<ship, next, call, reports, events, at, reached, told, retries>>

-----------------------------------------------------------------------------
(* The daemon between reports.                                             *)

Waiting == {p \in Packages : ship[p].status = "waiting" /\ ship[p].truck # None}
InWindow(p) == p \in Waiting /\ Cardinality({q \in Waiting : q < p}) < Window

\* Wrong on purpose: only a callback known to have failed is made again.
RetryCallbackFailed(p) ==
  /\ daemon = Resting /\ InWindow(p)
  /\ ~events[p].told /\ events[p].failed \in 1..(FailureLimit - 1)
  /\ daemon' = Work("telling", p, ship[p].truck, None)
  /\ retries' = [retries EXCEPT ![p] = @ + 1]
  /\ UNCHANGED <<web, events, outside, faults>>

\* Wrong on purpose: the limit is compared one failure too late.
RetryCallbackOneMore(p) ==
  /\ daemon = Resting /\ InWindow(p)
  /\ ~events[p].told /\ events[p].failed <= FailureLimit
  /\ daemon' = Work("telling", p, ship[p].truck, None)
  /\ retries' = [retries EXCEPT ![p] = @ + 1]
  /\ UNCHANGED <<web, events, outside, faults>>

\* _retry_waiting_pickup_callbacks: a waiting shipment whose arrival was not
\* announced, unless too many callbacks have failed.
RetryCallback(p) ==
  /\ daemon = Resting /\ InWindow(p)
  /\ ~events[p].told /\ events[p].failed < FailureLimit
  /\ daemon' = Work("telling", p, ship[p].truck, None)
  /\ retries' = [retries EXCEPT ![p] = @ + 1]
  /\ UNCHANGED <<web, events, outside, faults>>

\* A delivery acknowledged 30 seconds ago and not completed: the shipment is
\* read together with the row, a fresh row is queued from what was read.
FindQuietDelivery(n) ==
  LET p == row[n].pkg
  IN  /\ daemon = Resting /\ n \in OfKind("deliver")
      /\ row[n].state = "acked" /\ ~row[n].completed
      /\ ship[p].status # "delivered"
      /\ ~\E k \in RowsOf("deliver", p) : row[k].state = "open"
      /\ next \in Seqs
      /\ daemon' = [Work("requeue", p, row[n].truck, None) EXCEPT !.dest = ship[p].dest]
      /\ UNCHANGED <<web, events, outside, retries, faults>>

TakeRequeueNumber ==
  /\ daemon.step = "requeue" /\ TakeNumber
  /\ daemon' = [daemon EXCEPT !.step = "reinsert", !.seq = next]
  /\ UNCHANGED <<ship, row, call, reports, events, outside, retries, faults>>

RequeueDelivery ==
  /\ daemon.step = "reinsert"
  /\ InsertRow(daemon.seq, "deliver", daemon.pkg, daemon.truck, daemon.dest)
  /\ daemon' = Resting
  /\ UNCHANGED <<ship, next, call, reports, events, outside, retries, faults>>

\* The daemon dies in the middle of a report and is started again.  A read
\* timeout of a callback is one way to die: Amazon may have taken the call.
DaemonDies ==
  /\ daemon # Resting /\ Fault
  /\ daemon' = Resting
  /\ told' \in {told} \cup
       {[told EXCEPT ![p] = daemon.truck] :
          p \in {q \in Packages : daemon.step = "telling" /\ q = daemon.pkg}}
  /\ UNCHANGED <<web, events, notices, at, reached, retries>>

-----------------------------------------------------------------------------
Requests ==
  \/ \E p \in Packages, d \in Dests :
       Register(p, None, d) \/ \E t \in Trucks : Register(p, t, d) \/ Pickup(p, t, d)
  \/ \E c \in Threads :
       \/ \E p \in Packages, d \in Dests :
            Redirect(c, p, d) \/ \E t \in Trucks : ReportLoaded(c, p, t, d)
       \/ SaveAssignment(c) \/ MarkLoaded(c) \/ TakeDeliveryNumber(c)
       \/ QueueDelivery(c) \/ MarkOut(c) \/ SaveRedirect(c)

World == \E n \in Seqs : Accept(n) \/ Reject(n) \/ WorldReaches(n) \/ WorldDelivers(n)

Daemon ==
  \/ \E m \in notices : \/ \E n \in Seqs : HandleCompletion(m, n)
                        \/ CompletionOfNothing(m) \/ HandleDelivered(m)
  \/ \E t \in Trucks, n \in Seqs : HandleTruckStatus(t, n)
  \/ MarkWaiting \/ TellArrival \/ TellDelivered \/ CloseDeliveries
  \/ \E p \in Packages : RetryCallback(p)
  \/ \E n \in Seqs : FindQuietDelivery(n)
  \/ TakeRequeueNumber \/ RequeueDelivery

Next == Requests \/ WebDies \/ World \/ Daemon \/ DaemonDies

Spec == Init /\ [][Next]_vars

\* The daemon finishes what it works on, and the callback loop opens every
\* poll, so a shipment that stays in its window gets its turn.
FairSpec ==
  /\ Spec
  /\ WF_vars(MarkWaiting) /\ WF_vars(TellArrival) /\ WF_vars(TellDelivered)
  /\ WF_vars(CloseDeliveries) /\ WF_vars(TakeRequeueNumber)
  /\ WF_vars(RequeueDelivery)
  /\ \A p \in Packages : SF_vars(RetryCallback(p))

-----------------------------------------------------------------------------
(* Properties.                                                             *)

\* A number below the next one that some party still holds for a row.
Taken == {n \in 1..(next - 1) : row[n].kind = "absent"}

\* Every variable keeps its type; a number that was taken is a row, or held by
\* one party, or lost with the process that held it.
TypeOK ==
  /\ ship \in [Packages -> Shipment]
  /\ row \in [Seqs -> Row]
  /\ next \in 1..(MaxSeq + 1)
  /\ \A n \in Seqs : row[n].kind # "absent" => n < next
  /\ call \in [Threads ->
       [step : {"idle", "assign", "load", "queue", "insert", "depart", "redirect"},
        pkg : Packages \cup {None}, truck : Trucks \cup {None},
        dest : Dests \cup {None}, seq : Nat]]
  /\ daemon \in
       [step : {"idle", "waiting", "telling", "bringing", "closing", "requeue",
                "reinsert"},
        pkg : Packages \cup {None}, truck : Trucks \cup {None},
        dest : Dests \cup {None}, seq : Nat, notice : Notice \cup {None}]
  /\ \A c \in Threads : call[c].step = "insert" =>
       /\ call[c].seq \in Taken /\ call[c].seq # daemon.seq
       /\ \A b \in Threads \ {c} : call[b].seq # call[c].seq
  /\ daemon.step = "reinsert" => daemon.seq \in Taken
  /\ events \in [Packages -> [told : BOOLEAN, failed : Nat]]
  /\ notices \subseteq Notice
  /\ at \in [Trucks -> Packages \cup {None}]
  /\ reached \subseteq Seqs
  /\ told \in [Packages -> Trucks \cup {None}]
  /\ reports \subseteq Report
  /\ retries \in [Packages -> Nat]
  /\ faults \in 0..MaxFaults

\* "UPS must not queue delivery before receiving /package-loaded"
\* (protocol-starter.md:104): every delivery row, re-enqueued ones included,
\* is for a truck Amazon reported the package on, and the first one goes to
\* the reported address, whatever /pickup, redirects and world reports save
\* between the reads and the saves of the request.
DeliverAsReported ==
  \A n \in OfKind("deliver") :
    \E r \in reports :
      /\ r.pkg = row[n].pkg /\ r.truck = row[n].truck
      /\ IsFirst(n, RowsOf("deliver", row[n].pkg)) => r.dest = row[n].dest

\* However the failures of both callbacks mix and wherever the daemon dies,
\* the first call and those of the callback loop about one package are at most
\* FailureLimit together, one more for each death that hid an outcome.
RetriesBounded ==
  \A p \in Packages : retries[p] > 0 => retries[p] < FailureLimit + faults

Rank == [none |-> 0, created |-> 1, enroute |-> 2, waiting |-> 3, loaded |-> 4,
         out |-> 5, delivered |-> 6]

\* No truck that was sent for the package was sent for another one.
OwnTruck(p) ==
  \A n \in RowsOf("pickup", p), m \in OfKind("pickup") :
    row[m].truck = row[n].truck => row[m].pkg = p

\* While nothing has been lost or repeated and no completion bore the number of
\* another row, no truck sent for it is sent for another package and Amazon
\* reported it only after the arrival, no world report or callback moves a
\* shipment backwards, although mark_shipment_waiting and
\* mark_shipment_delivered save unconditionally.
NeverBackwards ==
  [][\A p \in Packages :
       /\ faults' = 0 /\ call' = call
       /\ OwnTruck(p)
       /\ \A r \in reports : r.pkg = p => told[p] # None
       => Rank[ship'[p].status] >= Rank[ship[p].status]]_vars

\* What the world has brought is never forgotten: a delivery that was carried
\* out has its row closed, or its report is still to come, also when the daemon
\* died after it saved DELIVERED and before the UPDATE of the rows.  An open row
\* without a report would be sent again every 30 seconds as soon as a late save
\* of OUT or of WAITING takes DELIVERED away.
DeliveredIsClosed ==
  \A n \in OfKind("deliver") \cap reached :
    row[n].completed \/ [kind |-> "delivered", seq |-> n] \in notices

\* A shipment that waits for its package is announced to Amazon, or the
\* failures reach the limit, also if the daemon died between saving the
\* status and making the call.  The one thing that keeps it from being
\* announced is the window of the callback loop, while older ones wait.
CallbackSettles ==
  \A p \in Packages :
    ship[p].status = "waiting" ~>
      \/ events[p].told \/ events[p].failed >= FailureLimit
      \/ ~InWindow(p)

\* "Redirects must be rejected once the package is out for delivery"
\* (protocol-starter.md:105): while the status stays OUT_FOR_DELIVERY or
\* DELIVERED the address stays what it was.
RedirectsRejected ==
  [][\A p \in Packages :
       ship[p].status \in {"out", "delivered"} /\ ship'[p].status = ship[p].status
       => ship'[p].dest = ship[p].dest]_vars

\* "Sent when the assigned UPS truck reaches the warehouse and is ready to
\* load" (protocol-starter.md:94): Amazon is told of a truck only after that
\* truck was sent to the package's warehouse and got there.
ArrivalIsReal ==
  \A p \in Packages :
    told[p] # None => \E n \in reached \cap OfKind("pickup") : row[n].pkg = p /\ row[n].truck = told[p]
=============================================================================
