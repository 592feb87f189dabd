------------------------- MODULE UpsArrivals_proofs -------------------------
(***************************************************************************)
(* The arrival of a truck, told to Amazon: how often the callback is made, *)
(* and why it does not move a shipment backwards.                          *)
(***************************************************************************)
EXTENDS UpsShipments_proofs

\* What a request does to the status of a shipment: it is registered, sent
\* for, or moved by a thread that holds a report of it.
LEMMA RequestMoves ==
  ASSUME TypeInv, Requests \/ WebDies, NEW p \in Packages
  PROVE  \/ ship'[p].status = ship[p].status
         \/ ship[p].status = "none" /\ ship'[p].status = "created"
         \/ /\ ship'[p].status = "enroute"
            /\ \E t \in Trucks, d \in Dests : Pickup(p, t, d)
         \/ /\ ship'[p].status \in {"loaded", "out"} /\ call' # call
            /\ \E r \in reports : r.pkg = p
<1> DEFINE Moves ==
      \/ ship'[p].status = ship[p].status
      \/ ship[p].status = "none" /\ ship'[p].status = "created"
      \/ /\ ship'[p].status = "enroute"
         /\ \E t \in Trucks, d \in Dests : Pickup(p, t, d)
      \/ /\ ship'[p].status \in {"loaded", "out"} /\ call' # call
         /\ \E r \in reports : r.pkg = p
<1>0. ship \in [Packages -> Shipment] /\ ship[p] \in Shipment
  BY DEF TypeInv, ShipOK
<1>1. ASSUME NEW q \in Packages, NEW t \in Trucks, NEW d \in Dests, Pickup(q, t, d)
      PROVE  Moves
  BY <1>0, <1>1 DEF Pickup
<1>2. ASSUME NEW q \in Packages, NEW t \in Trucks \cup {None}, NEW d \in Dests,
             Register(q, t, d)
      PROVE  Moves
  BY <1>0, <1>2 DEF Register, Known, Shipment
<1>3. ASSUME NEW c \in Threads, MarkLoaded(c) \/ MarkOut(c)
      PROVE  Moves
  <2>1. call[c].step \in {"load", "depart"} /\ call' # call
    <3>1. call[c] \in Call
      BY DEF TypeInv, CallOK
    <3>2. CASE MarkLoaded(c)
      <4>1. call[c].step = "load" /\ call' = [call EXCEPT ![c] = [call[c] EXCEPT !.step = "queue"]]
        BY <3>2 DEF MarkLoaded, Step
      <4>2. call'[c].step = "queue"
        BY <3>1, <4>1 DEF Call, TypeInv, CallOK
      <4> QED  BY <4>1, <4>2
    <3>3. CASE MarkOut(c)
      <4>1. call[c].step = "depart" /\ call'[c].step = "idle"
        BY <3>1, <3>3 DEF MarkOut, Step, TypeInv, CallOK, Idle
      <4> QED  BY <4>1
    <3> QED  BY <1>3, <3>2, <3>3
  <2>2. \E r \in reports : r.pkg = call[c].pkg
    BY <2>1 DEF TypeInv, CallOK
  <2>3. CASE p = call[c].pkg
    <3>1. \E s \in {"loaded", "out"} : ship' = [ship EXCEPT ![p].status = s]
      BY <1>3, <2>3 DEF MarkLoaded, MarkOut
    <3>2. ship'[p].status \in {"loaded", "out"}
      BY <1>0, <3>1 DEF Shipment
    <3> QED  BY <2>1, <2>2, <2>3, <3>2
  <2>4. CASE p # call[c].pkg
    BY <1>0, <1>3, <2>4 DEF MarkLoaded, MarkOut
  <2> QED  BY <2>3, <2>4
<1>4. ASSUME NEW c \in Threads, SaveAssignment(c) \/ SaveRedirect(c)
      PROVE  Moves
  BY <1>0, <1>4 DEF SaveAssignment, SaveRedirect, Shipment
<1>5. UNCHANGED ship => Moves
  OBVIOUS
<1>6. ASSUME NEW c \in Threads,
             \/ \E q \in Packages, d \in Dests :
                  Redirect(c, q, d) \/ \E t \in Trucks : ReportLoaded(c, q, t, d)
             \/ TakeDeliveryNumber(c) \/ QueueDelivery(c)
      PROVE  Moves
  BY <1>5, <1>6 DEF Redirect, ReportLoaded, TakeDeliveryNumber, QueueDelivery
<1> HIDE DEF Moves
<1>7. WebDies => Moves
  BY <1>5 DEF WebDies
<1>8. Requests => Moves
  BY <1>1, <1>2, <1>3, <1>4, <1>6 DEF Requests
<1>9. Moves
  BY <1>7, <1>8
<1> QED  BY <1>9 DEF Moves

-----------------------------------------------------------------------------
(* Retries of the callback.                                                *)

\* A call about the package is being made.
Calling(p) == IF daemon.step = "telling" /\ daemon.pkg = p THEN 1 ELSE 0

\* As long as no call about it is known to have succeeded, every call about a
\* shipment that came to wait, the first one included, is paid for: by a
\* failure on record, by a death that hid the outcome, or it is being made.
CallsAreCharged ==
  \A p \in Packages :
    ~events[p].told /\ (ship[p].status = "waiting" \/ retries[p] > 0) =>
      retries[p] + 1 <= events[p].failed + faults + Calling(p)

RetryInv == CallsAreCharged /\ RetriesBounded

LEMMA RetryNumbers ==
  ASSUME TypeInv, NEW p \in Packages
  PROVE  /\ events[p].failed \in Nat /\ retries[p] \in Nat /\ faults \in Nat
         /\ Calling(p) \in {0, 1}
<1>1. events[p].failed \in Nat /\ retries[p] \in Nat
  BY DEF TypeInv, EventOK
<1>2. faults \in Nat
  BY UpsShipmentsAssumption DEF TypeInv, FaultOK
<1>3. Calling(p) \in {0, 1}
  BY DEF Calling
<1> QED  BY <1>1, <1>2, <1>3

\* A step that makes no retry, and replaces a call that ends by a failure or
\* a fault, keeps the account.
LEMMA RetryStill ==
  ASSUME TypeInv, TypeInv', RetryInv, UNCHANGED retries, faults <= faults',
         \A p \in Packages : ~events'[p].told =>
           /\ ~events[p].told
           /\ events[p].failed + faults + Calling(p)
                <= events'[p].failed + faults' + Calling(p)'
           /\ \/ ship'[p].status = "waiting" => ship[p].status = "waiting"
              \/ Calling(p)' = 1
  PROVE  RetryInv'
<1>1. ASSUME NEW p \in Packages
      PROVE  /\ events[p].failed \in Nat /\ retries[p] \in Nat /\ faults \in Nat
             /\ Calling(p) \in Nat /\ Calling(p)' \in Nat
             /\ events'[p].failed \in Nat /\ faults' \in Nat
  <2>1. TypeInv' => events'[p].failed \in Nat /\ faults' \in Nat
    BY UpsShipmentsAssumption DEF TypeInv, EventOK, FaultOK
  <2>2. Calling(p)' \in Nat
    BY DEF Calling
  <2> QED  BY <2>1, <2>2, RetryNumbers
<1>2. RetriesBounded'
  <2> SUFFICES ASSUME NEW p \in Packages, retries[p] > 0
               PROVE  retries[p] < FailureLimit + faults'
    BY DEF RetriesBounded
  <2>1. retries[p] < FailureLimit + faults
    BY DEF RetryInv, RetriesBounded
  <2> QED  BY <1>1, <2>1, UpsShipmentsAssumption
<1>3. CallsAreCharged'
  <2> SUFFICES ASSUME NEW p \in Packages, ~events'[p].told,
                      ship'[p].status = "waiting" \/ retries[p] > 0
               PROVE  retries[p] + 1 <= events'[p].failed + faults' + Calling(p)'
    BY DEF CallsAreCharged
  <2>1. /\ ~events[p].told
        /\ events[p].failed + faults + Calling(p)
             <= events'[p].failed + faults' + Calling(p)'
        /\ \/ ship'[p].status = "waiting" => ship[p].status = "waiting"
           \/ Calling(p)' = 1
    OBVIOUS
  <2>2. CASE ship[p].status = "waiting" \/ retries[p] > 0
    <3>1. retries[p] + 1 <= events[p].failed + faults + Calling(p)
      BY <2>1, <2>2 DEF RetryInv, CallsAreCharged
    <3> QED  BY <1>1, <2>1, <3>1
  <2>3. CASE ~(ship[p].status = "waiting" \/ retries[p] > 0)
    <3>1. Calling(p)' = 1 /\ retries[p] = 0
      BY <1>1, <2>1, <2>3
    <3> QED  BY <1>1, <3>1
  <2> QED  BY <2>2, <2>3
<1> QED  BY <1>2, <1>3 DEF RetryInv

\* A step that neither begins nor ends a call, and makes no shipment wait.
LEMMA RetryQuiet ==
  ASSUME TypeInv, TypeInv', RetryInv, UNCHANGED <<retries, events>>,
         Fault \/ UNCHANGED faults,
         UNCHANGED daemon \/ (daemon.step # "telling" /\ daemon'.step # "telling"),
         \A p \in Packages : ship'[p].status = "waiting" => ship[p].status = "waiting"
  PROVE  RetryInv'
<1>1. faults \in Nat /\ faults <= faults' /\ faults' \in Nat
  BY UpsShipmentsAssumption DEF TypeInv, FaultOK, Fault
<1>2. \A p \in Packages : Calling(p)' = Calling(p)
  BY DEF Calling
<1>3. \A p \in Packages : events[p].failed + faults + Calling(p)
                            <= events[p].failed + faults' + Calling(p)'
  BY <1>1, <1>2, RetryNumbers
<1> QED  BY <1>1, <1>3, RetryStill

LEMMA RetryInit == Init => RetryInv
<1> SUFFICES ASSUME Init PROVE RetryInv
  OBVIOUS
<1>1. \A p \in Packages : ship[p].status = "none" /\ retries[p] = 0
  BY DEF Init
<1> QED  BY <1>1 DEF RetryInv, CallsAreCharged, RetriesBounded

\* The steps of the daemon that do not make a call.
LEMMA RetryReports ==
  ASSUME TypeInv, TypeInv', RetryInv,
         \/ \E m \in notices : \/ \E n \in Seqs : HandleCompletion(m, n)
                               \/ CompletionOfNothing(m) \/ HandleDelivered(m)
         \/ \E t \in Trucks, n \in Seqs : HandleTruckStatus(t, n)
         \/ CloseDeliveries \/ TakeRequeueNumber \/ RequeueDelivery
         \/ \E n \in Seqs : FindQuietDelivery(n)
  PROVE  RetryInv'
<1>1. ASSUME NEW m \in notices, NEW n \in Seqs, HandleCompletion(m, n) PROVE RetryInv'
  <2>1. daemon.step # "telling" /\ daemon'.step # "telling"
    BY <1>1 DEF HandleCompletion, EndReport, Work, Resting
  <2> QED  BY <1>1, <2>1, RetryQuiet DEF HandleCompletion, EndReport
<1>2. ASSUME NEW m \in notices, HandleDelivered(m) PROVE RetryInv'
  <2>1. daemon.step # "telling" /\ daemon'.step # "telling"
    BY <1>2 DEF HandleDelivered, Work, Resting
  <2>2. \A p \in Packages : ship'[p].status = "waiting" => ship[p].status = "waiting"
    <3>1. \/ UNCHANGED ship
          \/ ship' = [ship EXCEPT ![row[m.seq].pkg].status = "delivered"]
      BY <1>2 DEF HandleDelivered
    <3>2. ship \in [Packages -> Shipment]
      BY DEF TypeInv, ShipOK
    <3> QED  BY <3>1, <3>2 DEF Shipment
  <2> QED  BY <1>2, <2>1, <2>2, RetryQuiet DEF HandleDelivered
<1>3. ASSUME NEW t \in Trucks, NEW n \in Seqs, HandleTruckStatus(t, n) PROVE RetryInv'
  <2>1. daemon.step # "telling" /\ daemon'.step # "telling"
    BY <1>3 DEF HandleTruckStatus, Work, Resting
  <2> QED  BY <1>3, <2>1, RetryQuiet DEF HandleTruckStatus
<1>4. CASE CloseDeliveries
  <2>1. daemon.step # "telling" /\ daemon'.step # "telling"
    BY <1>4 DEF CloseDeliveries, EndReport, Resting
  <2> QED  BY <1>4, <2>1, RetryQuiet DEF CloseDeliveries, EndReport
<1>5. CASE RequeueDelivery
  <2>1. daemon.step # "telling" /\ daemon'.step # "telling"
    BY <1>5 DEF RequeueDelivery, Resting
  <2> QED  BY <1>5, <2>1, RetryQuiet DEF RequeueDelivery
<1>6. ASSUME NEW n \in Seqs, FindQuietDelivery(n) PROVE RetryInv'
  <2>1. daemon.step # "telling" /\ daemon'.step # "telling"
    BY <1>6 DEF FindQuietDelivery, Work, Resting
  <2> QED  BY <1>6, <2>1, RetryQuiet DEF FindQuietDelivery, web
<1>7. ASSUME NEW m \in notices, CompletionOfNothing(m) PROVE RetryInv'
  <2>1. daemon.step # "telling" /\ daemon'.step # "telling"
    BY <1>7 DEF CompletionOfNothing, EndReport, Resting
  <2> QED  BY <1>7, <2>1, RetryQuiet DEF CompletionOfNothing, EndReport, web
<1>8. CASE TakeRequeueNumber
  <2>1. daemon.step # "telling" /\ daemon'.step # "telling"
    BY <1>8 DEF TakeRequeueNumber, TypeInv, DaemonOK, Job
  <2> QED  BY <1>8, <2>1, RetryQuiet DEF TakeRequeueNumber
<1> QED  BY <1>1, <1>2, <1>3, <1>4, <1>5, <1>6, <1>7, <1>8

\* The first call, its outcome, a retry and a death of the daemon.
LEMMA RetryCalls ==
  ASSUME TypeInv, TypeInv', RetryInv,
         \/ MarkWaiting \/ TellArrival \/ TellDelivered \/ DaemonDies
         \/ \E p \in Packages : RetryCallback(p)
  PROVE  RetryInv'
<1>0. \A p \in Packages : /\ events[p].failed \in Nat /\ retries[p] \in Nat
                          /\ faults \in Nat /\ Calling(p) \in {0, 1}
  BY RetryNumbers
<1>n. faults \in Nat /\ FailureLimit \in Nat
  BY UpsShipmentsAssumption DEF TypeInv, FaultOK
<1>d. daemon.step # "idle" => daemon.pkg \in Packages
  BY DEF TypeInv, DaemonOK
<1>e. events \in [Packages -> [told : BOOLEAN, failed : Nat]]
  BY DEF TypeInv, EventOK
<1>1. CASE MarkWaiting
  <2>1. /\ daemon.step = "waiting" /\ daemon'.step = "telling"
        /\ daemon'.pkg = daemon.pkg
    BY <1>1 DEF MarkWaiting, TypeInv, DaemonOK, Job
  <2>2. \A p \in Packages : /\ Calling(p) = 0 /\ Calling(p)' \in {0, 1}
                            /\ p = daemon.pkg => Calling(p)' = 1
    BY <2>1 DEF Calling
  <2>3. \A p \in Packages : p # daemon.pkg => ship'[p] = ship[p]
    BY <1>1 DEF MarkWaiting, TypeInv, ShipOK
  <2>4. UNCHANGED <<events, faults, retries>>
    BY <1>1 DEF MarkWaiting
  <2> QED  BY <1>0, <1>n, <2>2, <2>3, <2>4, RetryStill
<1>2. CASE TellArrival
  <2>1. /\ daemon.step = "telling" /\ daemon'.step = "idle"
        /\ UNCHANGED <<ship, retries>>
    BY <1>2 DEF TellArrival, EndReport, Resting, web
  <2>2. faults' \in Nat /\ faults <= faults'
    BY <1>2, <1>n DEF TellArrival, EndReport, Fault
  <2>3. ASSUME NEW p \in Packages, ~events'[p].told
        PROVE  /\ ~events[p].told
               /\ events[p].failed + faults + Calling(p)
                    <= events'[p].failed + faults' + Calling(p)'
    <3>1. Calling(p)' = 0
      BY <2>1 DEF Calling
    <3>2. CASE p = daemon.pkg
      <4> DEFINE bad == [events[p] EXCEPT !.failed = events[p].failed + 1]
                 good == [events[p] EXCEPT !.told = TRUE]
      <4>1. \/ events' = [events EXCEPT ![p] = good]
            \/ events' = [events EXCEPT ![p] = bad]
        BY <1>2, <1>e, <3>2 DEF TellArrival
      <4>2. events[p] \in [told : BOOLEAN, failed : Nat]
        BY <1>e
      <4>3. good.told
        BY <4>2
      <4>4. (bad.told <=> events[p].told)
        BY <4>2, Zenon
      <4>5. bad.failed = events[p].failed + 1
        BY <4>2
      <4> HIDE DEF bad, good
      <4>6. events'[p] = bad
        BY <1>e, <2>3, <4>1, <4>3
      <4> QED  BY <1>0, <2>2, <2>3, <3>1, <4>4, <4>5, <4>6
    <3>3. CASE p # daemon.pkg
      <4>1. events'[p] = events[p]
        BY <1>2, <1>e, <3>3 DEF TellArrival
      <4>2. Calling(p) = 0
        BY <3>3 DEF Calling
      <4> QED  BY <1>0, <2>2, <2>3, <3>1, <4>1, <4>2
    <3> QED  BY <3>2, <3>3
  <2> QED  BY <2>1, <2>2, <2>3, RetryStill
<1>3. CASE TellDelivered
  <2>1. /\ daemon.step = "bringing" /\ daemon'.step = "closing"
        /\ UNCHANGED <<ship, retries, faults>>
    BY <1>3 DEF TellDelivered, TypeInv, DaemonOK, Job, web
  <2>2. ASSUME NEW p \in Packages, ~events'[p].told
        PROVE  /\ ~events[p].told
               /\ events[p].failed + faults + Calling(p)
                    <= events'[p].failed + faults' + Calling(p)'
    <3>1. Calling(p)' = 0 /\ Calling(p) = 0
      BY <2>1 DEF Calling
    <3> DEFINE bad == [events[p] EXCEPT !.failed = events[p].failed + 1]
    <3>2. events'[p] = events[p] \/ events'[p] = bad
      BY <1>3, <1>e DEF TellDelivered
    <3>3. events[p] \in [told : BOOLEAN, failed : Nat]
      BY <1>e
    <3>4. bad.told <=> events[p].told
      BY <3>3, Zenon
    <3>5. bad.failed = events[p].failed + 1
      BY <3>3
    <3> HIDE DEF bad
    <3>6. events[p].failed <= events'[p].failed /\ events'[p].failed \in Nat
      BY <1>0, <3>2, <3>5
    <3>7. ~events[p].told
      BY <2>2, <3>2, <3>4
    <3> QED  BY <1>0, <2>1, <3>1, <3>6, <3>7
  <2> QED  BY <1>n, <2>1, <2>2, RetryStill
<1>4. CASE DaemonDies
  <2>1. /\ faults' = faults + 1 /\ UNCHANGED <<ship, retries, events>>
    BY <1>4 DEF DaemonDies, Fault, web
  <2>2. \A p \in Packages : Calling(p)' \in {0, 1}
    BY DEF Calling
  <2>3. \A p \in Packages : events[p].failed + faults + Calling(p)
                              <= events[p].failed + faults' + Calling(p)'
    BY <1>0, <2>1, <2>2
  <2> QED  BY <1>n, <2>1, <2>3, RetryStill
<1>5. ASSUME NEW p \in Packages, RetryCallback(p) PROVE RetryInv'
  <2>1. /\ daemon.step = "idle" /\ daemon'.step = "telling" /\ daemon'.pkg = p
        /\ UNCHANGED <<ship, events, faults>>
        /\ retries' = [retries EXCEPT ![p] = @ + 1]
        /\ ~events[p].told /\ events[p].failed < FailureLimit
        /\ ship[p].status = "waiting"
    BY <1>5 DEF RetryCallback, Resting, Work, web, InWindow, Waiting
  <2>2. \A q \in Packages : Calling(q) = 0 /\ (Calling(q)' = IF q = p THEN 1 ELSE 0)
    BY <2>1 DEF Calling
  <2>3. retries[p] + 1 <= events[p].failed + faults
    BY <1>0, <2>1, <2>2 DEF RetryInv, CallsAreCharged
  <2>4. /\ retries'[p] = retries[p] + 1
        /\ \A q \in Packages : q # p => retries'[q] = retries[q]
    BY <2>1 DEF TypeInv, EventOK
  <2>5. RetriesBounded'
    <3> SUFFICES ASSUME NEW q \in Packages, retries'[q] > 0
                 PROVE  retries'[q] < FailureLimit + faults
      BY <2>1 DEF RetriesBounded
    <3>1. CASE q = p
      BY <1>0, <1>n, <2>1, <2>3, <2>4, <3>1
    <3>2. CASE q # p
      BY <2>4, <3>2 DEF RetryInv, RetriesBounded
    <3> QED  BY <3>1, <3>2
  <2>6. CallsAreCharged'
    <3> SUFFICES ASSUME NEW q \in Packages, ~events[q].told,
                        ship[q].status = "waiting" \/ retries'[q] > 0
                 PROVE  retries'[q] + 1 <= events[q].failed + faults + Calling(q)'
      BY <2>1 DEF CallsAreCharged
    <3>1. CASE q = p
      BY <1>0, <2>2, <2>3, <2>4, <3>1
    <3>2. CASE q # p
      BY <1>0, <2>2, <2>4, <3>2 DEF RetryInv, CallsAreCharged
    <3> QED  BY <3>1, <3>2
  <2> QED  BY <2>5, <2>6 DEF RetryInv
<1> QED  BY <1>1, <1>2, <1>3, <1>4, <1>5

LEMMA RetryStep == TypeInv /\ RetryInv /\ [Next]_vars => RetryInv'
<1> SUFFICES ASSUME TypeInv, RetryInv, [Next]_vars PROVE RetryInv'
  OBVIOUS
<1>0. TypeInv'
  BY TypeStep
<1>1. CASE Requests \/ WebDies
  <2>1. \A p \in Packages : ship'[p].status = "waiting" => ship[p].status = "waiting"
    BY <1>1, RequestMoves
  <2>2. /\ UNCHANGED <<retries, events, daemon>>
        /\ Fault \/ UNCHANGED faults
    BY <1>1, RequestFrames
  <2> QED  BY <1>0, <2>1, <2>2, RetryQuiet
<1>2. CASE World
  <2>1. /\ UNCHANGED <<retries, events, daemon, ship>>
        /\ Fault \/ UNCHANGED faults
    BY <1>2 DEF World, Accept, Reject, WorldReaches, WorldDelivers, web
  <2> QED  BY <1>0, <2>1, RetryQuiet
<1>3. CASE Daemon \/ DaemonDies
  BY <1>0, <1>3, RetryReports, RetryCalls DEF Daemon
<1>4. CASE UNCHANGED vars
  BY <1>0, <1>4, RetryQuiet DEF vars
<1> QED  BY <1>1, <1>2, <1>3, <1>4 DEF Next

\* For every failure limit and number of faults: the first call about a
\* package and those of the callback loop are at most FailureLimit together,
\* one more for each fault that hid an outcome.
THEOREM RetriesBoundedHolds == Spec => []RetriesBounded
<1>1. RetryInv => RetriesBounded
  BY DEF RetryInv
<1>2. TypeInv /\ RetryInv /\ [Next]_vars => (TypeInv /\ RetryInv)'
  BY TypeStep, RetryStep
<1> QED  BY <1>1, <1>2, TypeInit, RetryInit, PTL DEF Spec

-----------------------------------------------------------------------------
(* The arrival is announced once.                                          *)

IsPickup(n, p) == row[n].kind = "pickup" /\ row[n].pkg = p

\* The daemon is about to announce the arrival, or is doing it.
Announcing(p) == daemon.pkg = p /\ daemon.step \in {"waiting", "telling"}

\* The world reports on what has happened.
NoticesReached ==
  \A m \in notices : /\ m.seq \in reached
                     /\ m.kind = "delivered" => row[m.seq].kind = "deliver"

\* A truck at a warehouse was sent there.
AtWarehouse ==
  \A t \in Trucks : at[t] # None =>
    \E n \in Seqs : IsPickup(n, at[t]) /\ row[n].truck = t /\ n \in reached

\* A package that left the warehouse was reported by Amazon.
LeftWasReported ==
  \A p \in Packages : ship[p].status \in {"loaded", "out", "delivered"} =>
    \E r \in reports : r.pkg = p

\* Without a repeated order there is one pickup for a package.
OncePicked ==
  faults = 0 =>
    \A p \in Packages :
      /\ \A n, m \in Seqs : IsPickup(n, p) /\ IsPickup(m, p) => n = m
      /\ \A n \in Seqs : IsPickup(n, p) => ship[p].status \notin {"none", "created"}

\* The pickup of the package is over, and the world has nothing more to say
\* of it than what the daemon is announcing.
Settled(p) ==
  \E n \in Seqs :
    /\ IsPickup(n, p) /\ row[n].completed /\ n \in reached
    /\ \A m \in notices : m.kind = "completion" /\ m.seq = n =>
         Announcing(p) /\ m = daemon.notice

\* The announcement begins when the pickup is settled, and is not begun again.
Announced(p) ==
  /\ told[p] # None \/ ship[p].status = "waiting" \/ Announcing(p) => Settled(p)
  /\ daemon.step = "waiting" /\ daemon.pkg = p => told[p] = None

AnnouncedOnce == faults = 0 => \A p \in Packages : OwnTruck(p) => Announced(p)

ArrivalInv ==
  DeliverInv /\ NoticesReached /\ AtWarehouse /\ LeftWasReported /\ OncePicked
  /\ AnnouncedOnce

-----------------------------------------------------------------------------
(* What every step leaves alone.                                           *)

\* Rows keep what they are for, and what is completed stays completed.
RowsKeep ==
  \A n \in Seqs : row[n].kind # "absent" =>
    /\ row'[n].kind = row[n].kind /\ row'[n].pkg = row[n].pkg
    /\ row'[n].truck = row[n].truck
    /\ row[n].completed => row'[n].completed

LEMMA RowsKeepSettled ==
  ASSUME RowOK, NEW n \in Seqs, NEW s, row' = [row EXCEPT ![n].state = s]
  PROVE  RowsKeep
<1>1. row \in [Seqs -> Row] /\ row[n] \in Row
  BY DEF RowOK
<1> DEFINE r == [row[n] EXCEPT !.state = s]
<1>2. r.kind = row[n].kind /\ r.pkg = row[n].pkg /\ r.truck = row[n].truck
  BY <1>1 DEF Row
<1>3. r.completed <=> row[n].completed
  BY <1>1, Zenon DEF Row
<1>4. row' = [row EXCEPT ![n] = r]
  OBVIOUS
<1> HIDE DEF r
<1>5. \A k \in Seqs : row'[k] = row[k] \/ (k = n /\ row'[k] = r)
  BY <1>1, <1>4
<1> QED  BY <1>2, <1>3, <1>5 DEF RowsKeep

LEMMA RowsKeepCompleted ==
  ASSUME RowOK, NEW n \in Seqs, row' = [row EXCEPT ![n].completed = TRUE]
  PROVE  RowsKeep /\ row'[n].completed
<1>1. row \in [Seqs -> Row] /\ row[n] \in Row
  BY DEF RowOK
<1> DEFINE r == [row[n] EXCEPT !.completed = TRUE]
<1>2. r.kind = row[n].kind /\ r.pkg = row[n].pkg /\ r.truck = row[n].truck
  BY <1>1 DEF Row
<1>3. r.completed
  BY <1>1 DEF Row
<1>4. row' = [row EXCEPT ![n] = r]
  OBVIOUS
<1> HIDE DEF r
<1>5. row'[n] = r /\ \A k \in Seqs : row'[k] = row[k] \/ (k = n /\ row'[k] = r)
  BY <1>1, <1>4
<1> QED  BY <1>2, <1>3, <1>5 DEF RowsKeep

\* No step takes a row away, and only an order adds a pickup.
LEMMA RowSteps ==
  ASSUME TypeInv, [Next]_vars
  PROVE  /\ RowsKeep
         /\ \/ \A n \in Seqs : row'[n].kind = "pickup" => row[n].kind = "pickup"
            \/ \E p \in Packages, t \in Trucks, d \in Dests : Pickup(p, t, d)
<1> DEFINE NoPickup == \A n \in Seqs : row'[n].kind = "pickup" => row[n].kind = "pickup"
           Ordered == \E p \in Packages, t \in Trucks, d \in Dests : Pickup(p, t, d)
           Goal == RowsKeep /\ (NoPickup \/ Ordered)
<1>0. RowOK /\ CallOK /\ HeldOK /\ row \in [Seqs -> Row]
  BY DEF TypeInv, RowOK
<1>1. UNCHANGED row => Goal
  BY DEF RowsKeep
<1>2. SameRows => NoPickup
  BY DEF SameRows
<1>3. ASSUME NEW q \in Seqs, row[q].kind = "absent", NEW k, NEW p, NEW t, NEW d,
             InsertRow(q, k, p, t, d)
      PROVE  RowsKeep /\ (k = "deliver" => NoPickup)
  <2>1. /\ \A n \in Seqs : row[n].kind # "absent" => row'[n] = row[n]
        /\ row'[q].kind = k
        /\ \A n \in Seqs : n # q => row'[n] = row[n]
    BY <1>0, <1>3 DEF InsertRow
  <2> QED  BY <2>1 DEF RowsKeep
<1>4. ASSUME NEW p \in Packages, NEW t \in Trucks, NEW d \in Dests, Pickup(p, t, d)
      PROVE  Goal
  <2>1. InsertRow(next, "pickup", p, t, None)
    BY <1>4 DEF Pickup
  <2>2. next \in Seqs /\ row[next].kind = "absent"
    BY <1>0, <1>4, TakeKeeps DEF Pickup
  <2> QED  BY <1>3, <1>4, <2>1, <2>2
<1>5. ASSUME NEW c \in Threads, QueueDelivery(c)
      PROVE  Goal
  <2>1. InsertRow(call[c].seq, "deliver", call[c].pkg, call[c].truck, call[c].dest)
    BY <1>5 DEF QueueDelivery
  <2>2. call[c].seq \in Taken
    BY <1>0, <1>5 DEF QueueDelivery, HeldOK
  <2> QED  BY <1>0, <1>3, <2>1, <2>2, TakenIsFree
<1>6. ASSUME RequeueDelivery PROVE Goal
  <2>1. InsertRow(daemon.seq, "deliver", daemon.pkg, daemon.truck, daemon.dest)
    BY <1>6 DEF RequeueDelivery
  <2>2. daemon.seq \in Taken
    BY <1>0, <1>6 DEF RequeueDelivery, HeldOK
  <2> QED  BY <1>0, <1>3, <2>1, <2>2, TakenIsFree
<1>7. ASSUME NEW n \in Seqs, Accept(n) \/ Reject(n) PROVE Goal
  <2>1. SameRows
    BY <1>0, <1>7, SettleSame DEF Accept, Reject
  <2>2. RowsKeep
    BY <1>0, <1>7, RowsKeepSettled DEF Accept, Reject
  <2> QED  BY <1>2, <2>1, <2>2
<1>8. ASSUME NEW n \in Seqs, row' = [row EXCEPT ![n].completed = TRUE], UNCHANGED next
      PROVE  Goal
  <2>1. SameRows
    BY <1>0, <1>8, CompleteSame
  <2>2. RowsKeep
    BY <1>0, <1>8, RowsKeepCompleted
  <2> QED  BY <1>2, <2>1, <2>2
<1>9. ASSUME NEW m \in notices, NEW n \in Seqs, HandleCompletion(m, n) PROVE Goal
  BY <1>8, <1>9 DEF HandleCompletion
<1>10. ASSUME NEW t \in Trucks, NEW n \in Seqs, HandleTruckStatus(t, n) PROVE Goal
  BY <1>8, <1>10 DEF HandleTruckStatus
<1>11. ASSUME CloseDeliveries PROVE Goal
  <2>1. SameRows
    BY <1>0, <1>11, CloseSame
  <2>2. ASSUME NEW n \in Seqs, row[n].completed PROVE row'[n].completed
    <3>1. row'[n] = row[n] \/ row'[n] = [row[n] EXCEPT !.completed = TRUE]
      BY <1>11 DEF CloseDeliveries
    <3>2. [row[n] EXCEPT !.completed = TRUE].completed
      BY <1>0 DEF Row
    <3> QED  BY <2>2, <3>1, <3>2
  <2> QED  BY <1>2, <2>1, <2>2 DEF RowsKeep, SameRows
<1> HIDE DEF Goal
<1>12. Requests => Goal
  <2>1. ASSUME NEW p \in Packages, NEW t \in Trucks \cup {None}, NEW d \in Dests,
               Register(p, t, d)
        PROVE  Goal
    BY <1>1, <2>1 DEF Register
  <2>2. ASSUME NEW c \in Threads,
               \/ \E q \in Packages, d \in Dests :
                    Redirect(c, q, d) \/ \E t \in Trucks : ReportLoaded(c, q, t, d)
               \/ SaveAssignment(c) \/ MarkLoaded(c) \/ TakeDeliveryNumber(c)
               \/ MarkOut(c) \/ SaveRedirect(c)
        PROVE  Goal
    BY <1>1, <2>2 DEF Redirect, ReportLoaded, SaveAssignment, MarkLoaded,
                      TakeDeliveryNumber, MarkOut, SaveRedirect
  <2> QED  BY <1>4, <1>5, <2>1, <2>2 DEF Requests
<1>13. World => Goal
  <2>1. ASSUME NEW n \in Seqs, WorldReaches(n) \/ WorldDelivers(n) PROVE Goal
    BY <1>1, <2>1 DEF WorldReaches, WorldDelivers, web
  <2> QED  BY <1>7, <2>1 DEF World
<1>14. Daemon => Goal
  <2>1. \/ \E m \in notices : HandleDelivered(m) \/ CompletionOfNothing(m)
        \/ MarkWaiting \/ TellArrival \/ TellDelivered \/ TakeRequeueNumber
        \/ \E p \in Packages : RetryCallback(p)
        \/ \E n \in Seqs : FindQuietDelivery(n)
        => Goal
    BY <1>1 DEF HandleDelivered, CompletionOfNothing, MarkWaiting, TellArrival,
                TellDelivered, TakeRequeueNumber, RetryCallback, FindQuietDelivery, web
  <2> QED  BY <1>6, <1>9, <1>10, <1>11, <2>1 DEF Daemon
<1>15. WebDies \/ DaemonDies \/ UNCHANGED vars => Goal
  BY <1>1 DEF WebDies, DaemonDies, web, vars
<1>16. Goal
  BY <1>12, <1>13, <1>14, <1>15 DEF Next
<1> QED  BY <1>16 DEF Goal

\* Faults are counted, never taken back.
LEMMA FaultSteps ==
  ASSUME TypeInv, [Next]_vars, faults' = 0
  PROVE  faults = 0
<1>1. Fault \/ UNCHANGED faults
  <2>1. Requests \/ WebDies => Fault \/ UNCHANGED faults
    BY RequestFrames
  <2>2. World => Fault \/ UNCHANGED faults
    BY DEF World, Accept, Reject, WorldReaches, WorldDelivers
  <2>3. Daemon \/ DaemonDies => Fault \/ UNCHANGED faults
    BY DEF Daemon, DaemonDies, HandleCompletion, HandleDelivered, HandleTruckStatus,
           MarkWaiting, TellArrival, TellDelivered, CloseDeliveries, RetryCallback,
           FindQuietDelivery, TakeRequeueNumber, RequeueDelivery,
           CompletionOfNothing, EndReport
  <2> QED  BY <2>1, <2>2, <2>3 DEF Next, vars
<1>2. faults \in Nat
  BY UpsShipmentsAssumption DEF TypeInv, FaultOK
<1> QED  BY <1>1, <1>2 DEF Fault

\* A report of the world is about a row its truck has reached.
LEMMA NoticeSteps ==
  ASSUME TypeInv, NoticesReached, [Next]_vars
  PROVE  NoticesReached'
<1>1. RowsKeep
  BY RowSteps
<1>2. \A m \in notices : m.seq \in Seqs /\ row[m.seq].kind # "absent"
  BY DEF TypeInv, NoticeOK, Notice
<1>3. ASSUME notices' \subseteq notices, reached' = reached
      PROVE  NoticesReached'
  BY <1>1, <1>2, <1>3 DEF NoticesReached, RowsKeep
<1>4. ASSUME NEW n \in Seqs, WorldReaches(n) PROVE NoticesReached'
  <2>1. \A m \in notices' : m \in notices \/ (m.kind = "completion" /\ m.seq = n)
    BY <1>4 DEF WorldReaches
  <2>2. reached' = reached \cup {n} /\ row' = row
    BY <1>4 DEF WorldReaches, web
  <2> QED  BY <2>1, <2>2 DEF NoticesReached
<1>5. ASSUME NEW n \in Seqs, WorldDelivers(n) PROVE NoticesReached'
  <2>1. \A m \in notices' : m \in notices \/ m.seq = n
    BY <1>5 DEF WorldDelivers
  <2>2. reached' = reached \cup {n} /\ row' = row /\ row[n].kind = "deliver"
    BY <1>5 DEF WorldDelivers, web, OfKind
  <2> QED  BY <2>1, <2>2 DEF NoticesReached
<1>6. Requests \/ WebDies => NoticesReached'
  BY <1>3, RequestFrames
<1>7. World => NoticesReached'
  BY <1>3, <1>4, <1>5 DEF World, Accept, Reject, outside
<1>8. Daemon \/ DaemonDies \/ UNCHANGED vars => NoticesReached'
  BY <1>3 DEF Daemon, DaemonDies, HandleCompletion, HandleDelivered, HandleTruckStatus,
              MarkWaiting, TellArrival, TellDelivered, CloseDeliveries, RetryCallback,
              FindQuietDelivery, TakeRequeueNumber, RequeueDelivery,
              CompletionOfNothing, EndReport, outside, vars
<1> QED  BY <1>6, <1>7, <1>8 DEF Next

\* A truck waits at a warehouse because a pickup sent it there.
LEMMA AtSteps ==
  ASSUME TypeInv, AtWarehouse, [Next]_vars
  PROVE  AtWarehouse'
<1>1. RowsKeep
  BY RowSteps
<1>2. ASSUME at' = at, reached \subseteq reached'
      PROVE  AtWarehouse'
  BY <1>1, <1>2 DEF AtWarehouse, RowsKeep, IsPickup
<1>3. ASSUME NEW n \in Seqs, WorldReaches(n) PROVE AtWarehouse'
  <2>1. /\ at' = [at EXCEPT ![row[n].truck] = row[n].pkg]
        /\ reached' = reached \cup {n} /\ row' = row /\ row[n].kind = "pickup"
    BY <1>3 DEF WorldReaches, web, OfKind
  <2>2. row[n].truck \in Trucks /\ at \in [Trucks -> Packages \cup {None}]
    BY <2>1 DEF TypeInv, RowOK, WorldOK
  <2> QED  BY <2>1, <2>2 DEF AtWarehouse, IsPickup
<1>4. ASSUME NEW n \in Seqs, WorldDelivers(n) PROVE AtWarehouse'
  <2>1. /\ at' = [at EXCEPT ![row[n].truck] = None]
        /\ reached' = reached \cup {n} /\ row' = row
    BY <1>4 DEF WorldDelivers, web
  <2>2. at \in [Trucks -> Packages \cup {None}]
    BY DEF TypeInv, WorldOK
  <2> QED  BY <2>1, <2>2 DEF AtWarehouse, IsPickup
<1>5. Requests \/ WebDies => AtWarehouse'
  BY <1>2, RequestFrames
<1>6. World => AtWarehouse'
  BY <1>2, <1>3, <1>4 DEF World, Accept, Reject, outside
<1>7. Daemon \/ DaemonDies \/ UNCHANGED vars => AtWarehouse'
  BY <1>2 DEF Daemon, DaemonDies, HandleCompletion, HandleDelivered, HandleTruckStatus,
              MarkWaiting, TellArrival, TellDelivered, CloseDeliveries, RetryCallback,
              FindQuietDelivery, TakeRequeueNumber, RequeueDelivery,
              CompletionOfNothing, EndReport, outside, vars
<1> QED  BY <1>5, <1>6, <1>7 DEF Next

\* What the world and the daemon do to the status of a shipment.
LEMMA DaemonMoves ==
  ASSUME TypeInv, World \/ Daemon \/ DaemonDies \/ UNCHANGED vars, NEW p \in Packages
  PROVE  /\ UNCHANGED reports
         /\ \/ ship'[p].status = ship[p].status
            \/ MarkWaiting /\ daemon.pkg = p /\ ship'[p].status = "waiting"
            \/ /\ ship'[p].status = "delivered"
               /\ \E m \in notices : HandleDelivered(m) /\ row[m.seq].pkg = p
<1>0. ship \in [Packages -> Shipment] /\ ship[p] \in Shipment
  BY DEF TypeInv, ShipOK
<1>1. CASE MarkWaiting
  <2>1. ship' = [ship EXCEPT ![daemon.pkg] =
                   [ship[daemon.pkg] EXCEPT !.status = "waiting", !.truck = daemon.truck]]
    BY <1>0, <1>1 DEF MarkWaiting
  <2>2. p = daemon.pkg => ship'[p].status = "waiting"
    BY <1>0, <2>1 DEF Shipment
  <2>3. p # daemon.pkg => ship'[p] = ship[p]
    BY <1>0, <2>1
  <2> QED  BY <1>1, <2>2, <2>3 DEF MarkWaiting
<1>2. ASSUME NEW m \in notices, HandleDelivered(m)
      PROVE  /\ UNCHANGED reports
             /\ \/ ship'[p].status = ship[p].status
                \/ ship'[p].status = "delivered" /\ row[m.seq].pkg = p
  <2>1. \/ UNCHANGED ship
        \/ ship' = [ship EXCEPT ![row[m.seq].pkg].status = "delivered"]
    BY <1>2 DEF HandleDelivered
  <2>2. UNCHANGED reports
    BY <1>2 DEF HandleDelivered
  <2> QED  BY <1>0, <2>1, <2>2 DEF Shipment
<1>3. World \/ DaemonDies \/ UNCHANGED vars => UNCHANGED <<ship, reports>>
  BY DEF World, Accept, Reject, WorldReaches, WorldDelivers, DaemonDies, web, vars
<1>4. Daemon => \/ MarkWaiting
                \/ \E m \in notices : HandleDelivered(m)
                \/ UNCHANGED <<ship, reports>>
  BY DEF Daemon, HandleCompletion, HandleTruckStatus, TellArrival, TellDelivered,
         CloseDeliveries, RetryCallback, FindQuietDelivery, TakeRequeueNumber,
         RequeueDelivery, CompletionOfNothing, web
<1> QED  BY <1>1, <1>2, <1>3, <1>4

\* A package leaves the warehouse only after Amazon reported it.
LEMMA LeftSteps ==
  ASSUME DeliverInv, NoticesReached, LeftWasReported, [Next]_vars
  PROVE  LeftWasReported'
<1>0. TypeInv
  BY DEF DeliverInv
<1> SUFFICES ASSUME NEW p \in Packages, ship'[p].status \in {"loaded", "out", "delivered"}
             PROVE  \E r \in reports' : r.pkg = p
  BY DEF LeftWasReported
<1>1. CASE Requests \/ WebDies
  <2>1. reports \subseteq reports'
    BY <1>1, RequestFrames
  <2>2. \E r \in reports : r.pkg = p
    BY <1>0, <1>1, RequestMoves DEF LeftWasReported
  <2> QED  BY <2>1, <2>2
<1>2. CASE World \/ Daemon \/ DaemonDies \/ UNCHANGED vars
  <2>1. UNCHANGED reports
    BY <1>0, <1>2, DaemonMoves
  <2>2. CASE ship'[p].status = ship[p].status
    BY <2>1, <2>2 DEF LeftWasReported
  <2>3. CASE \E m \in notices : HandleDelivered(m) /\ row[m.seq].pkg = p
    <3>1. PICK m \in notices : HandleDelivered(m) /\ row[m.seq].pkg = p
      BY <2>3
    <3>2. m.seq \in Seqs /\ row[m.seq].kind = "deliver"
      BY <1>0, <3>1 DEF HandleDelivered, NoticesReached, TypeInv, NoticeOK, Notice
    <3>3. \E r \in reports : r.pkg = p
      BY <3>1, <3>2 DEF DeliverInv, AsReported
    <3> QED  BY <2>1, <3>3
  <2> QED  BY <1>0, <1>2, <2>2, <2>3, DaemonMoves
<1> QED  BY <1>1, <1>2 DEF Next

\* Without faults an order comes once, and adds the only pickup.
LEMMA OnceSteps ==
  ASSUME TypeInv, OncePicked, [Next]_vars
  PROVE  OncePicked'
<1> SUFFICES ASSUME faults' = 0, NEW p \in Packages
             PROVE  /\ \A n, m \in Seqs : IsPickup(n, p)' /\ IsPickup(m, p)' => n = m
                    /\ \A n \in Seqs : IsPickup(n, p)' =>
                         ship'[p].status \notin {"none", "created"}
  BY DEF OncePicked
<1>0. faults = 0 /\ RowsKeep
  BY FaultSteps, RowSteps
<1>1. /\ \A n, m \in Seqs : IsPickup(n, p) /\ IsPickup(m, p) => n = m
      /\ \A n \in Seqs : IsPickup(n, p) => ship[p].status \notin {"none", "created"}
  BY <1>0 DEF OncePicked
<1>2. ASSUME NEW q \in Packages, NEW t \in Trucks, NEW d \in Dests, Pickup(q, t, d)
      PROVE  /\ ship[q].status \in {"none", "created"}
             /\ ship'[q].status = "enroute" /\ (p # q => ship'[p] = ship[p])
             /\ next \in Seqs /\ \A n \in Seqs : IsPickup(n, p)' => IsPickup(n, p) \/ (n = next /\ p = q)
  <2>1. InsertRow(next, "pickup", q, t, None) /\ Repeated(ship[q].status \notin {"none", "created"})
        /\ ship' = [ship EXCEPT ![q] = [status |-> "enroute", dest |-> d, truck |-> t]]
    BY <1>2 DEF Pickup
  <2>4. next \in Seqs /\ next \in 1..(MaxSeq + 1)
    BY <1>2, TakeKeeps DEF Pickup, TypeInv, RowOK
  <2>2. /\ row'[next].pkg = q
        /\ \A n \in Seqs : n # next => row'[n] = row[n]
    BY <2>1, <2>4 DEF TypeInv, RowOK, InsertRow
  <2>3. ship[q].status \in {"none", "created"}
    BY <1>0, <2>1 DEF Repeated, Fault
  <2> QED  BY <2>1, <2>2, <2>3, <2>4 DEF TypeInv, ShipOK, IsPickup
<1>3. CASE \E q \in Packages, t \in Trucks, d \in Dests : Pickup(q, t, d)
  BY <1>1, <1>2, <1>3
<1>4. CASE \A n \in Seqs : row'[n].kind = "pickup" => row[n].kind = "pickup"
  <2>1. \A n \in Seqs : IsPickup(n, p)' => IsPickup(n, p)
    BY <1>0, <1>4 DEF RowsKeep, IsPickup
  <2>2. ship[p].status \notin {"none", "created"} => ship'[p].status \notin {"none", "created"}
    <3>1. CASE Requests \/ WebDies
      BY <3>1, RequestMoves
    <3>2. CASE World \/ Daemon \/ DaemonDies \/ UNCHANGED vars
      BY <3>2, DaemonMoves
    <3> QED  BY <3>1, <3>2 DEF Next
  <2> QED  BY <1>1, <2>1, <2>2
<1> QED  BY <1>3, <1>4, RowSteps

\* A truck that no other package was sent for stays so in the past.
LEMMA OwnTruckBefore ==
  ASSUME RowsKeep, NEW p \in Packages, OwnTruck(p)'
  PROVE  OwnTruck(p)
<1> SUFFICES ASSUME NEW n \in Seqs, NEW m \in Seqs,
                    row[n].kind = "pickup", row[n].pkg = p, row[m].kind = "pickup",
                    row[m].truck = row[n].truck
             PROVE  row[m].pkg = p
  BY DEF OwnTruck, RowsOf, OfKind
<1>1. /\ row'[n].kind = "pickup" /\ row'[n].pkg = p /\ row'[m].kind = "pickup"
      /\ row'[m].truck = row'[n].truck /\ row'[m].pkg = row[m].pkg
  BY DEF RowsKeep
<1>2. n \in RowsOf("pickup", p)' /\ m \in OfKind("pickup")'
  BY <1>1 DEF RowsOf, OfKind
<1> QED  BY <1>1, <1>2 DEF OwnTruck

\* A step that begins no announcement of the package, brings no completion of
\* a reached pickup and does not take its notice from an announcement.
LEMMA AnnounceStill ==
  ASSUME RowsKeep, NEW p \in Packages, Announced(p), reached \subseteq reached',
         told'[p] # None \/ ship'[p].status = "waiting" \/ Announcing(p)' =>
           told[p] # None \/ ship[p].status = "waiting" \/ Announcing(p),
         \A m \in notices' :
           \/ m \in notices /\ (Announcing(p) /\ m = daemon.notice =>
                                  Announcing(p)' /\ m = daemon'.notice)
           \/ m.seq \notin reached,
         daemon'.step = "waiting" /\ daemon'.pkg = p =>
           told'[p] = told[p] /\ daemon.step = "waiting" /\ daemon.pkg = p
  PROVE  Announced(p)'
<1>1. Settled(p) => Settled(p)'
  <2> SUFFICES ASSUME Settled(p) PROVE Settled(p)'
    OBVIOUS
  <2>1. PICK n \in Seqs :
          /\ IsPickup(n, p) /\ row[n].completed /\ n \in reached
          /\ \A m \in notices : m.kind = "completion" /\ m.seq = n =>
               Announcing(p) /\ m = daemon.notice
    BY DEF Settled
  <2>2. IsPickup(n, p)' /\ row'[n].completed /\ n \in reached'
    BY <2>1 DEF IsPickup, RowsKeep
  <2>3. ASSUME NEW m \in notices', m.kind = "completion", m.seq = n
        PROVE  Announcing(p)' /\ m = daemon'.notice
    BY <2>1, <2>3
  <2> QED  BY <2>2, <2>3 DEF Settled
<1>2. told'[p] # None \/ ship'[p].status = "waiting" \/ Announcing(p)' => Settled(p)'
  BY <1>1 DEF Announced
<1>3. daemon'.step = "waiting" /\ daemon'.pkg = p => told'[p] = None
  BY DEF Announced
<1> QED  BY <1>2, <1>3 DEF Announced

\* The daemon takes up the pickup of the package: it was not announced before.
LEMMA AnnounceBegins ==
  ASSUME TypeInv, RowsKeep, OncePicked, faults = 0, UNCHANGED <<told, notices, reached>>,
         NEW p \in Packages, Announced(p),
         NEW n \in Seqs, IsPickup(n, p), n \in reached, row'[n].completed,
         daemon = Resting, daemon'.step = "waiting", daemon'.pkg = p,
         \A m \in notices : m.kind = "completion" /\ m.seq = n => m = daemon'.notice,
         ~row[n].completed \/ \E m \in notices : m.kind = "completion" /\ m.seq = n
  PROVE  Announced(p)'
<1>1. ~Announcing(p)
  BY DEF Announcing, Resting
<1>2. ~Settled(p)
  <2> SUFFICES ASSUME NEW k \in Seqs, IsPickup(k, p), row[k].completed,
                      \A m \in notices : ~(m.kind = "completion" /\ m.seq = k)
               PROVE  FALSE
    BY <1>1 DEF Settled
  <2>1. k = n
    BY DEF OncePicked
  <2> QED  BY <2>1
<1>3. told[p] = None
  BY <1>2 DEF Announced
<1>4. Announcing(p)'
  BY DEF Announcing
<1>5. IsPickup(n, p)'
  BY DEF IsPickup, RowsKeep
<1>6. Settled(p)'
  BY <1>4, <1>5 DEF Settled
<1> QED  BY <1>3, <1>6 DEF Announced

LEMMA AnnounceSteps ==
  ASSUME ArrivalInv, [Next]_vars
  PROVE  AnnouncedOnce'
<1> SUFFICES ASSUME faults' = 0, NEW p \in Packages, OwnTruck(p)'
             PROVE  Announced(p)'
  BY DEF AnnouncedOnce
<1>0. TypeInv /\ faults = 0 /\ RowsKeep
  BY FaultSteps, RowSteps DEF ArrivalInv, DeliverInv
<1>1. OwnTruck(p) /\ Announced(p)
  BY <1>0, OwnTruckBefore DEF ArrivalInv, AnnouncedOnce
<1>n. \A m \in notices : /\ m \in Notice /\ m.seq \in Seqs /\ m.seq \in reached
                         /\ row[m.seq].kind # "absent" /\ row[m.seq].pkg \in Packages
  BY <1>0 DEF TypeInv, NoticeOK, Notice, RowOK, ArrivalInv, NoticesReached
<1>t. told \in [Packages -> Trucks \cup {None}]
  BY <1>0 DEF TypeInv, EventOK
<1>2. ASSUME UNCHANGED <<notices, reached, told, daemon>>,
             ship'[p].status = "waiting" => ship[p].status = "waiting"
      PROVE  Announced(p)'
  <2>1. Announcing(p)' <=> Announcing(p)
    BY <1>2 DEF Announcing
  <2> QED  BY <1>0, <1>1, <1>2, <2>1, AnnounceStill
<1>3. CASE Requests \/ WebDies
  <2>1. UNCHANGED <<notices, reached, told, daemon>>
    BY <1>3, RequestFrames
  <2> QED  BY <1>0, <1>2, <1>3, <2>1, RequestMoves
<1>4. CASE World
  <2>1. ASSUME NEW n \in Seqs, Accept(n) \/ Reject(n) PROVE Announced(p)'
    BY <1>2, <2>1 DEF Accept, Reject, outside
  <2>2. ASSUME NEW n \in Seqs, WorldReaches(n) \/ WorldDelivers(n) PROVE Announced(p)'
    <3>1. \A m \in notices' : m \in notices \/ m.seq = n
      BY <2>2 DEF WorldReaches, WorldDelivers
    <3>2. /\ n \notin reached /\ reached' = reached \cup {n}
          /\ UNCHANGED <<ship, told, daemon>>
      BY <2>2 DEF WorldReaches, WorldDelivers, web
    <3>3. Announcing(p)' <=> Announcing(p)
      BY <3>2 DEF Announcing
    <3> QED  BY <1>0, <1>1, <3>1, <3>2, <3>3, AnnounceStill
  <2> QED  BY <1>4, <2>1, <2>2 DEF World
<1>5. ASSUME notices' \subseteq notices, UNCHANGED <<reached, told>>,
             ~Announcing(p), ~Announcing(p)',
             ship'[p].status = "waiting" => ship[p].status = "waiting"
      PROVE  Announced(p)'
  <2>1. ~(daemon'.step = "waiting" /\ daemon'.pkg = p)
    BY <1>5 DEF Announcing
  <2> QED  BY <1>0, <1>1, <1>5, <2>1, AnnounceStill
<1>6. ASSUME NEW m \in notices, NEW n \in Seqs, HandleCompletion(m, n)
      PROVE  Announced(p)'
  <2>1. daemon = Resting /\ m.kind = "completion" /\ UNCHANGED <<ship, told, reached>>
        /\ row' = [row EXCEPT ![n].completed = TRUE]
    BY <1>6 DEF HandleCompletion
  <2>2. ~Announcing(p)
    BY <2>1 DEF Announcing, Resting
  <2>0. ~Fault
    BY <1>0 DEF Fault
  <2>5. n = m.seq
    BY <1>6, <2>0 DEF HandleCompletion
  <2>3. CASE row[m.seq].kind = "pickup" /\ row[m.seq].pkg = p
    <3>1. daemon' = Work("waiting", p, row[m.seq].truck, m) /\ UNCHANGED notices
      BY <1>6, <2>3, <2>5 DEF HandleCompletion
    <3>2. daemon'.step = "waiting" /\ daemon'.pkg = p /\ daemon'.notice = m
      BY <3>1 DEF Work
    <3>3. \A k \in notices : k.kind = "completion" /\ k.seq = m.seq => k = m
      BY <1>n, <2>1 DEF Notice
    <3>4. row'[m.seq].completed
      BY <1>0, <1>n, <2>1, <2>5, RowsKeepCompleted DEF TypeInv
    <3>5. IsPickup(m.seq, p) /\ OncePicked
      BY <2>3 DEF IsPickup, ArrivalInv
    <3> QED  BY <1>0, <1>1, <1>n, <2>1, <3>1, <3>2, <3>3, <3>4, <3>5, AnnounceBegins
  <2>4. CASE ~(row[m.seq].kind = "pickup" /\ row[m.seq].pkg = p)
    <3>1. ~Announcing(p)' /\ notices' \subseteq notices
      BY <1>6, <2>0, <2>4, <2>5 DEF HandleCompletion, EndReport, Announcing, Work, Resting
    <3> QED  BY <1>5, <2>1, <2>2, <3>1
  <2> QED  BY <2>3, <2>4
<1>15. ASSUME NEW m \in notices, CompletionOfNothing(m) PROVE Announced(p)'
  <2>1. /\ ~Announcing(p) /\ ~Announcing(p)' /\ notices' \subseteq notices
        /\ UNCHANGED <<ship, told, reached>>
    BY <1>15 DEF CompletionOfNothing, EndReport, Announcing, Resting, web
  <2> QED  BY <1>5, <2>1
<1>7. ASSUME NEW m \in notices, HandleDelivered(m) PROVE Announced(p)'
  <2>1. ~Announcing(p) /\ ~Announcing(p)' /\ UNCHANGED <<notices, told, reached>>
    BY <1>7 DEF HandleDelivered, Announcing, Work, Resting, outside
  <2>2. ship'[p].status = "waiting" => ship[p].status = "waiting"
    <3>1. ~MarkWaiting
      BY <1>7 DEF HandleDelivered, MarkWaiting, Resting
    <3>2. Daemon
      BY <1>7 DEF Daemon
    <3> QED  BY <1>0, <3>1, <3>2, DaemonMoves
  <2> QED  BY <1>5, <2>1, <2>2
<1>8. ASSUME NEW t \in Trucks, NEW n \in Seqs, HandleTruckStatus(t, n) PROVE Announced(p)'
  <2>1. /\ daemon = Resting /\ at[t] # None
        /\ row[n].kind = "pickup" /\ row[n].truck = t /\ ~row[n].completed
        /\ row' = [row EXCEPT ![n].completed = TRUE]
        /\ daemon' = Work("waiting", row[n].pkg, t, None)
        /\ UNCHANGED <<ship, notices, told, reached>>
    BY <1>8 DEF HandleTruckStatus, IsFirst, OfKind, outside
  <2>2. \A m \in notices : m.kind = "completion" => row[m.seq].truck # t
    BY <1>0, <1>8 DEF HandleTruckStatus
  <2>3. ~Announcing(p)
    BY <2>1 DEF Announcing, Resting
  <2>4. daemon'.step = "waiting" /\ daemon'.pkg = row[n].pkg
    BY <2>1 DEF Work
  <2>5. CASE row[n].pkg = p
    <3>1. PICK k \in Seqs : IsPickup(k, at[t]) /\ row[k].truck = t /\ k \in reached
      BY <2>1 DEF ArrivalInv, AtWarehouse
    <3>2. IsPickup(n, p)
      BY <2>1, <2>5 DEF IsPickup
    <3>3. row[k].pkg = p
      <4>1. n \in RowsOf("pickup", p) /\ k \in OfKind("pickup")
        BY <3>1, <3>2 DEF RowsOf, OfKind, IsPickup
      <4> QED  BY <1>1, <2>1, <3>1, <4>1 DEF OwnTruck
    <3>4. k = n
      BY <1>0, <3>1, <3>2, <3>3 DEF ArrivalInv, OncePicked, IsPickup
    <3>5. \A m \in notices : ~(m.kind = "completion" /\ m.seq = n)
      BY <2>1, <2>2
    <3>6. row'[n].completed
      BY <1>0, <2>1, RowsKeepCompleted DEF TypeInv
    <3>7. OncePicked
      BY DEF ArrivalInv
    <3> QED  BY <1>0, <1>1, <2>1, <2>4, <2>5, <3>1, <3>2, <3>4, <3>5, <3>6, <3>7,
                AnnounceBegins
  <2>6. CASE row[n].pkg # p
    <3>1. ~Announcing(p)'
      BY <2>4, <2>6 DEF Announcing
    <3> QED  BY <1>5, <2>1, <2>3, <3>1
  <2> QED  BY <2>5, <2>6
<1>9. CASE MarkWaiting
  <2>1. /\ daemon.step = "waiting" /\ daemon' = [daemon EXCEPT !.step = "telling"]
        /\ UNCHANGED <<notices, told, reached>>
    BY <1>9 DEF MarkWaiting, outside
  <2>2. daemon'.step = "telling" /\ daemon'.pkg = daemon.pkg /\ daemon'.notice = daemon.notice
    BY <1>0, <2>1 DEF TypeInv, DaemonOK, Job
  <2>3. Announcing(p)' <=> Announcing(p)
    BY <2>1, <2>2 DEF Announcing
  <2>4. p # daemon.pkg => ship'[p] = ship[p]
    BY <1>0, <1>9 DEF MarkWaiting, TypeInv, ShipOK
  <2>5. p = daemon.pkg => Announcing(p)
    BY <2>1 DEF Announcing
  <2> QED  BY <1>0, <1>1, <2>1, <2>2, <2>3, <2>4, <2>5, AnnounceStill
<1>10. CASE TellArrival
  <2>1. /\ daemon.step = "telling" /\ daemon' = Resting /\ UNCHANGED <<ship, reached>>
        /\ told' \in {told, [told EXCEPT ![daemon.pkg] = daemon.truck]}
    BY <1>10 DEF TellArrival, EndReport, web
  <2>2. notices' = notices \ {daemon.notice}
    BY <1>0, <1>10 DEF TellArrival, EndReport, Fault
  <2>3. ~Announcing(p)' /\ daemon'.step # "waiting"
    BY <2>1 DEF Announcing, Resting
  <2>4. p = daemon.pkg => Announcing(p)
    BY <2>1 DEF Announcing
  <2>5. p # daemon.pkg => told'[p] = told[p]
    BY <1>t, <2>1
  <2> QED  BY <1>0, <1>1, <2>1, <2>2, <2>3, <2>4, <2>5, AnnounceStill
<1>11. CASE TellDelivered \/ CloseDeliveries \/ RequeueDelivery
            \/ TakeRequeueNumber \/ \E n \in Seqs : FindQuietDelivery(n)
  <2>1. daemon.step \in {"idle", "bringing", "closing", "requeue", "reinsert"}
    BY <1>11 DEF TellDelivered, CloseDeliveries, TakeRequeueNumber, RequeueDelivery,
                 FindQuietDelivery, Resting
  <2>2. daemon'.step \in {"idle", "closing", "requeue", "reinsert"}
    <3>1. CASE TellDelivered \/ TakeRequeueNumber
      BY <1>0, <3>1 DEF TellDelivered, TakeRequeueNumber, TypeInv, DaemonOK, Job
    <3>2. CASE CloseDeliveries \/ RequeueDelivery
      BY <3>2 DEF CloseDeliveries, RequeueDelivery, EndReport, Resting
    <3>3. CASE \E n \in Seqs : FindQuietDelivery(n)
      BY <3>3 DEF FindQuietDelivery, Work
    <3> QED  BY <1>11, <3>1, <3>2, <3>3
  <2>3. notices' \subseteq notices /\ UNCHANGED <<ship, told, reached>>
    BY <1>11 DEF TellDelivered, CloseDeliveries, TakeRequeueNumber, RequeueDelivery,
                 FindQuietDelivery, EndReport, web, outside
  <2> QED  BY <1>5, <2>1, <2>2, <2>3 DEF Announcing
<1>12. ASSUME NEW q \in Packages, RetryCallback(q) PROVE Announced(p)'
  <2>1. /\ daemon = Resting /\ ship[q].status = "waiting"
        /\ daemon' = Work("telling", q, ship[q].truck, None)
        /\ UNCHANGED <<ship, notices, told, reached>>
    BY <1>12 DEF RetryCallback, InWindow, Waiting, web, outside
  <2>2. ~Announcing(p) /\ daemon'.step # "waiting" /\ (Announcing(p)' => p = q)
    BY <2>1 DEF Announcing, Resting, Work
  <2> QED  BY <1>0, <1>1, <2>1, <2>2, AnnounceStill
<1>13. ~DaemonDies
  BY <1>0 DEF DaemonDies, Fault
<1>14. CASE UNCHANGED vars
  BY <1>2, <1>14 DEF vars
<1> QED  BY <1>3, <1>4, <1>6, <1>7, <1>8, <1>9, <1>10, <1>11, <1>12, <1>13, <1>14,
            <1>15
         DEF Next, Daemon

-----------------------------------------------------------------------------

LEMMA ArrivalInit == Init => ArrivalInv
<1> SUFFICES ASSUME Init PROVE ArrivalInv
  OBVIOUS
<1>1. NoticesReached /\ AtWarehouse
  BY DEF Init, NoticesReached, AtWarehouse
<1>2. \A p \in Packages : ship[p].status = "none" /\ told[p] = None
  BY DEF Init
<1>3. \A n \in Seqs : row[n].kind = "absent"
  BY DEF Init, Absent
<1>4. daemon.step = "idle"
  BY DEF Init, Resting
<1>5. LeftWasReported /\ OncePicked /\ AnnouncedOnce
  BY <1>2, <1>3, <1>4 DEF LeftWasReported, OncePicked, AnnouncedOnce, Announced,
     IsPickup, Announcing
<1> QED  BY <1>1, <1>5, DeliverInit DEF ArrivalInv

LEMMA ArrivalStep == ArrivalInv /\ [Next]_vars => ArrivalInv'
<1> SUFFICES ASSUME ArrivalInv, [Next]_vars PROVE ArrivalInv'
  OBVIOUS
<1>1. DeliverInv /\ TypeInv
  BY DEF ArrivalInv, DeliverInv
<1>2. DeliverInv'
  BY <1>1, DeliverStep
<1>3. NoticesReached' /\ AtWarehouse' /\ LeftWasReported' /\ OncePicked'
  BY <1>1, NoticeSteps, AtSteps, LeftSteps, OnceSteps DEF ArrivalInv
<1>4. AnnouncedOnce'
  BY AnnounceSteps
<1> QED  BY <1>2, <1>3, <1>4 DEF ArrivalInv

\* For any number of packages, trucks and threads: unless something was lost
\* or repeated, a truck was shared or Amazon reported too early, no report of
\* the world and no callback moves a shipment backwards.
THEOREM NeverBackwardsHolds == Spec => NeverBackwards
<1>1. ArrivalInv /\ [Next]_vars =>
        [\A p \in Packages :
           /\ faults' = 0 /\ call' = call
           /\ OwnTruck(p)
           /\ \A r \in reports : r.pkg = p => told[p] # None
           => Rank[ship'[p].status] >= Rank[ship[p].status]]_vars
  <2> SUFFICES ASSUME ArrivalInv, [Next]_vars, NEW p \in Packages,
                      faults' = 0, call' = call, OwnTruck(p),
                      \A r \in reports : r.pkg = p => told[p] # None
               PROVE  Rank[ship'[p].status] >= Rank[ship[p].status]
    OBVIOUS
  <2>0. TypeInv /\ faults = 0
    BY FaultSteps DEF ArrivalInv, DeliverInv
  <2>1. ship[p].status \in Statuses \cup {"none"}
    BY <2>0 DEF TypeInv, ShipOK, Shipment
  <2>r. /\ Rank["none"] = 0 /\ Rank["created"] = 1 /\ Rank["enroute"] = 2
        /\ Rank["waiting"] = 3 /\ Rank["loaded"] = 4 /\ Rank["out"] = 5
        /\ Rank["delivered"] = 6
    BY DEF Rank
  <2>2. CASE ship'[p].status = ship[p].status
    BY <2>1, <2>2, <2>r DEF Statuses
  <2>3. CASE ship'[p].status # ship[p].status /\ (Requests \/ WebDies)
    <3>1. ASSUME NEW t \in Trucks, NEW d \in Dests, Pickup(p, t, d)
          PROVE  ship[p].status \in {"none", "created"}
      BY <2>0, <3>1 DEF Pickup, Repeated, Fault
    <3>2. \/ ship[p].status = "none" /\ ship'[p].status = "created"
          \/ ship[p].status \in {"none", "created"} /\ ship'[p].status = "enroute"
      BY <2>0, <2>3, <3>1, RequestMoves
    <3> QED  BY <2>r, <3>2
  <2>4. CASE /\ ship'[p].status # ship[p].status
             /\ World \/ Daemon \/ DaemonDies \/ UNCHANGED vars
    <3>1. CASE MarkWaiting /\ daemon.pkg = p /\ ship'[p].status = "waiting"
      <4>1. told[p] = None
        BY <2>0, <3>1 DEF MarkWaiting, ArrivalInv, AnnouncedOnce, Announced
      <4>2. ship[p].status \notin {"loaded", "out", "delivered"}
        BY <4>1 DEF ArrivalInv, LeftWasReported
      <4> QED  BY <2>1, <2>r, <3>1, <4>2 DEF Statuses
    <3>2. CASE ship'[p].status = "delivered"
      BY <2>1, <2>r, <3>2 DEF Statuses
    <3> QED  BY <2>0, <2>4, <3>1, <3>2, DaemonMoves
  <2> QED  BY <2>2, <2>3, <2>4 DEF Next
<1> QED  BY <1>1, ArrivalInit, ArrivalStep, PTL DEF Spec, NeverBackwards
=============================================================================
