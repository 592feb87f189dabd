------------------------- MODULE UpsShipments_proofs -------------------------
(***************************************************************************)
(* What holds of a package at UPS for any number of packages, trucks,      *)
(* addresses, request threads and faults.                                  *)
(***************************************************************************)
EXTENDS UpsShipments, TLAPS

Steps == {"idle", "assign", "load", "queue", "insert", "depart", "redirect"}
Works == {"idle", "waiting", "telling", "bringing", "closing", "requeue", "reinsert"}
Driving == {"waiting", "telling", "requeue", "reinsert"}
Call == [step : Steps, pkg : Packages \cup {None}, truck : Trucks \cup {None},
         dest : Dests \cup {None}, seq : Nat]
Job == [step : Works, pkg : Packages \cup {None}, truck : Trucks \cup {None},
        dest : Dests \cup {None}, seq : Nat, notice : Notice \cup {None}]

ShipOK == ship \in [Packages -> Shipment]

\* Rows exist only below the next number, for a package and a truck.
RowOK ==
  /\ row \in [Seqs -> Row]
  /\ next \in 1..(MaxSeq + 1)
  /\ \A n \in Seqs : row[n].kind # "absent" =>
       n < next /\ row[n].pkg \in Packages /\ row[n].truck \in Trucks

\* A request at work has a package; once it loads, it has its report; it holds
\* a number only on the way to its row.
CallOK ==
  /\ call \in [Threads -> Call]
  /\ reports \subseteq Report
  /\ \A c \in Threads : call[c].step # "insert" => call[c].seq = 0
  /\ \A c \in Threads : call[c].step # "idle" =>
       /\ call[c].pkg \in Packages
       /\ call[c].step # "redirect" =>
            [pkg |-> call[c].pkg, truck |-> call[c].truck, dest |-> call[c].dest] \in reports

\* A daemon at work has a package, and a truck where it needs one.
DaemonOK ==
  /\ daemon \in Job
  /\ daemon.step = "idle" => daemon = Resting
  /\ daemon.step # "idle" => daemon.pkg \in Packages
  /\ daemon.step \in Driving => daemon.truck \in Trucks
  /\ daemon.step # "reinsert" => daemon.seq = 0

\* A number held for a row is below the next one, has no row, and no other holder.
HeldOK ==
  /\ \A c \in Threads : call[c].step = "insert" =>
       /\ call[c].seq \in Taken /\ call[c].seq # daemon.seq
       /\ \A b \in Threads \ {c} : call[b].seq # call[c].seq
  /\ daemon.step = "reinsert" => daemon.seq \in Taken

\* The world reports on rows that exist.
NoticeOK ==
  /\ notices \subseteq Notice
  /\ \A m \in notices : row[m.seq].kind # "absent"

WorldOK ==
  /\ at \in [Trucks -> Packages \cup {None}]
  /\ reached \subseteq Seqs

EventOK ==
  /\ events \in [Packages -> [told : BOOLEAN, failed : Nat]]
  /\ told \in [Packages -> Trucks \cup {None}]
  /\ retries \in [Packages -> Nat]

FaultOK == faults \in 0..MaxFaults

TypeInv == ShipOK /\ RowOK /\ CallOK /\ DaemonOK /\ HeldOK /\ NoticeOK
           /\ WorldOK /\ EventOK /\ FaultOK

\* What the re-enqueue loop has read comes from a delivery row, whose number is
\* below the one it takes.
RequeueReported ==
  daemon.step \in {"requeue", "reinsert"} =>
    \E n \in OfKind("deliver") :
      /\ row[n].pkg = daemon.pkg /\ row[n].truck = daemon.truck
      /\ daemon.step = "reinsert" => n < daemon.seq

-----------------------------------------------------------------------------
(* Each part of the type invariant depends on few variables.               *)

LEMMA StillShip == ShipOK /\ UNCHANGED ship => ShipOK'
  BY DEF ShipOK

LEMMA StillRow == RowOK /\ UNCHANGED <<row, next>> => RowOK'
  BY DEF RowOK

LEMMA StillCall == CallOK /\ UNCHANGED <<call, reports>> => CallOK'
  BY DEF CallOK

LEMMA StillDaemon == DaemonOK /\ UNCHANGED daemon => DaemonOK'
  BY DEF DaemonOK

LEMMA StillHeld == HeldOK /\ UNCHANGED <<call, daemon, row, next>> => HeldOK'
  BY DEF HeldOK, Taken

LEMMA StillNotice == NoticeOK /\ UNCHANGED <<notices, row>> => NoticeOK'
  BY DEF NoticeOK

LEMMA StillWorld == WorldOK /\ UNCHANGED <<at, reached>> => WorldOK'
  BY DEF WorldOK

LEMMA StillEvent == EventOK /\ UNCHANGED <<events, told, retries>> => EventOK'
  BY DEF EventOK

LEMMA StillFault == FaultOK /\ (Fault \/ UNCHANGED faults) => FaultOK'
  BY UpsShipmentsAssumption DEF FaultOK, Fault

\* A new row has a package and a truck; nothing else changes.
LEMMA InsertKeeps ==
  ASSUME RowOK, NEW n \in Seqs, NEW k \in {"pickup", "deliver"}, NEW p \in Packages,
         NEW t \in Trucks, NEW d \in Dests \cup {None}, InsertRow(n, k, p, t, d),
         row[n].kind = "absent", next' \in 1..(MaxSeq + 1), next <= next', n < next'
  PROVE  /\ RowOK'
         /\ \A m \in Seqs : row[m].kind # "absent" => row'[m] = row[m]
         /\ row'[n].kind = k /\ row'[n].pkg = p
         /\ row'[n].truck = t /\ row'[n].dest = d /\ ~row'[n].completed
         /\ \A m \in Seqs : m # n => row'[m] = row[m]
<1> DEFINE r == [kind |-> k, pkg |-> p, truck |-> t, dest |-> d, state |-> "open",
                 completed |-> FALSE]
<1>1. r \in Row /\ r.kind = k /\ r.pkg = p /\ r.truck = t /\ r.dest = d /\ ~r.completed
  BY DEF Row
<1>2. row' = [row EXCEPT ![n] = r]
  BY DEF InsertRow
<1> HIDE DEF r
<1>3. row' \in [Seqs -> Row] /\ row'[n] = r
      /\ \A m \in Seqs : m # n => row'[m] = row[m]
  BY <1>1, <1>2 DEF RowOK
<1>4. ASSUME NEW m \in Seqs, row'[m].kind # "absent"
      PROVE  m < next' /\ row'[m].pkg \in Packages /\ row'[m].truck \in Trucks
  <2>1. CASE m = n
    BY <1>1, <1>3, <2>1
  <2>2. CASE m # n
    <3>1. row'[m] = row[m]
      BY <1>3, <2>2
    <3>2. m < next /\ row[m].pkg \in Packages /\ row[m].truck \in Trucks
      BY <1>4, <3>1 DEF RowOK
    <3> QED  BY <3>1, <3>2 DEF RowOK, Seqs
  <2> QED  BY <2>1, <2>2
<1> QED  BY <1>1, <1>3, <1>4 DEF RowOK

\* The counter moves on.
LEMMA TakeKeeps ==
  ASSUME RowOK, TakeNumber
  PROVE  /\ next \in Seqs /\ row[next].kind = "absent"
         /\ next' \in 1..(MaxSeq + 1) /\ next <= next' /\ next < next'
         /\ UNCHANGED row => RowOK'
<1>1. next \in Seqs /\ next' = next + 1 /\ next \in 1..(MaxSeq + 1) /\ next \in Int
  BY DEF TakeNumber, RowOK, Seqs
<1>2. next' \in 1..(MaxSeq + 1) /\ next < next'
  BY <1>1, UpsShipmentsAssumption DEF Seqs
<1>3. row[next].kind = "absent"
  BY <1>1 DEF RowOK
<1>4. ASSUME UNCHANGED row PROVE RowOK'
  BY <1>1, <1>2, <1>4 DEF RowOK, Seqs
<1> QED  BY <1>1, <1>2, <1>3, <1>4

\* Holders keep their numbers or let go of them, and at most n gets its row.
LEMMA HeldKeeps ==
  ASSUME HeldOK, CallOK, DaemonOK, NEW n, Taken \ {n} \subseteq Taken',
         \A c \in Threads : \/ call'[c].seq = 0 /\ call'[c].step # "insert"
                            \/ call'[c] = call[c] /\ (call[c].step = "insert" => call[c].seq # n),
         \/ daemon'.seq = 0 /\ daemon'.step # "reinsert"
         \/ daemon' = daemon /\ (daemon.step = "reinsert" => daemon.seq # n)
  PROVE  HeldOK'
<1>1. ASSUME NEW c \in Threads, call'[c].step = "insert"
      PROVE  call'[c] = call[c] /\ call'[c].seq \in Taken' /\ call'[c].seq # 0
             /\ call'[c].seq # daemon'.seq
  <2>1. call'[c] = call[c] /\ call[c].step = "insert" /\ call[c].seq # n
    BY <1>1
  <2>2. call[c].seq \in Taken /\ call[c].seq # daemon.seq
    BY <2>1 DEF HeldOK
  <2>3. call[c].seq # 0
    BY <2>2 DEF Taken
  <2> QED  BY <2>1, <2>2, <2>3
<1>2. ASSUME NEW c \in Threads, call'[c].step = "insert", NEW b \in Threads \ {c}
      PROVE  call'[b].seq # call'[c].seq
  BY <1>1, <1>2 DEF HeldOK
<1>3. daemon'.step = "reinsert" => daemon'.seq \in Taken'
  BY DEF HeldOK
<1> QED  BY <1>1, <1>2, <1>3 DEF HeldOK

LEMMA TakenIsFree ==
  ASSUME RowOK, NEW n \in Taken
  PROVE  /\ n \in Seqs /\ row[n].kind = "absent" /\ n < next
         /\ next \in 1..(MaxSeq + 1)
<1>1. n \in Int /\ 1 <= n /\ n <= next - 1 /\ row[n].kind = "absent"
  BY DEF Taken
<1>2. next \in 1..(MaxSeq + 1)
  BY DEF RowOK
<1> QED  BY <1>1, <1>2, UpsShipmentsAssumption DEF Seqs

\* The number of an inserted row is taken no longer, the others are.
LEMMA TakenGrows ==
  ASSUME RowOK, next' \in 1..(MaxSeq + 1), next <= next', NEW n,
         \A m \in Seqs : m # n => row'[m].kind = row[m].kind
  PROVE  Taken \ {n} \subseteq Taken'
  BY UpsShipmentsAssumption DEF Taken, RowOK, Seqs

\* Every number that is held is below the next one, so the next one is free.
LEMMA NextIsFree ==
  ASSUME RowOK, HeldOK, CallOK, DaemonOK
  PROVE  /\ \A c \in Threads : call[c].seq # next
         /\ daemon.seq # next
<1>1. \A n \in Taken : n < next
  BY DEF Taken, RowOK
<1>2. 0 # next /\ next \in Int
  BY DEF RowOK
<1>3. ASSUME NEW c \in Threads PROVE call[c].seq # next
  <2>1. CASE call[c].step = "insert"
    BY <1>1, <1>2, <2>1 DEF HeldOK
  <2>2. CASE call[c].step # "insert"
    BY <1>2, <2>2 DEF CallOK
  <2> QED  BY <2>1, <2>2
<1>4. daemon.seq # next
  <2>1. CASE daemon.step = "reinsert"
    BY <1>1, <1>2, <2>1 DEF HeldOK
  <2>2. CASE daemon.step # "reinsert"
    BY <1>2, <2>2 DEF DaemonOK
  <2> QED  BY <2>1, <2>2
<1> QED  BY <1>3, <1>4

LEMMA InsertKeepsNotices ==
  ASSUME NoticeOK, RowOK, UNCHANGED notices,
         \A n \in Seqs : row[n].kind # "absent" => row'[n] = row[n]
  PROVE  NoticeOK'
  BY DEF NoticeOK, Notice

\* Changing the progress of rows leaves them what they are.
SameRows ==
  /\ row' \in [Seqs -> Row] /\ next' = next
  /\ \A n \in Seqs : /\ row'[n].kind = row[n].kind /\ row'[n].pkg = row[n].pkg
                     /\ row'[n].truck = row[n].truck /\ row'[n].dest = row[n].dest

LEMMA SameRowsKeep ==
  ASSUME RowOK, NoticeOK, SameRows
  PROVE  /\ RowOK'
         /\ notices' \subseteq notices => NoticeOK'
<1>1. RowOK'
  BY DEF RowOK, SameRows
<1>2. notices' \subseteq notices => NoticeOK'
  BY DEF NoticeOK, SameRows, Notice
<1> QED  BY <1>1, <1>2

LEMMA SettleSame ==
  ASSUME RowOK, NEW n \in Seqs, NEW s \in {"open", "acked", "failed"},
         row' = [row EXCEPT ![n].state = s], UNCHANGED next
  PROVE  SameRows
<1> DEFINE r == [row[n] EXCEPT !.state = s]
<1>1. row[n] \in Row
  BY DEF RowOK
<1>2. r \in Row /\ r.kind = row[n].kind /\ r.pkg = row[n].pkg
      /\ r.truck = row[n].truck /\ r.dest = row[n].dest
  BY <1>1 DEF Row
<1>3. row' = [row EXCEPT ![n] = r]
  OBVIOUS
<1> HIDE DEF r
<1> QED  BY <1>2, <1>3 DEF SameRows, RowOK

LEMMA CompleteSame ==
  ASSUME RowOK, NEW n \in Seqs,
         row' = [row EXCEPT ![n].completed = TRUE], UNCHANGED next
  PROVE  SameRows
<1> DEFINE r == [row[n] EXCEPT !.completed = TRUE]
<1>1. row[n] \in Row
  BY DEF RowOK
<1>2. r \in Row /\ r.kind = row[n].kind /\ r.pkg = row[n].pkg
      /\ r.truck = row[n].truck /\ r.dest = row[n].dest
  BY <1>1 DEF Row
<1>3. row' = [row EXCEPT ![n] = r]
  OBVIOUS
<1> HIDE DEF r
<1> QED  BY <1>2, <1>3 DEF SameRows, RowOK

LEMMA CloseSame == RowOK /\ CloseDeliveries => SameRows
<1> SUFFICES ASSUME RowOK, CloseDeliveries PROVE SameRows
  OBVIOUS
<1>1. ASSUME NEW n \in Seqs
      PROVE  /\ row'[n] \in Row
             /\ row'[n].kind = row[n].kind /\ row'[n].pkg = row[n].pkg
             /\ row'[n].truck = row[n].truck /\ row'[n].dest = row[n].dest
  <2> DEFINE done == [row[n] EXCEPT !.completed = TRUE]
  <2>1. row[n] \in Row
    BY DEF RowOK
  <2>2. done \in Row /\ done.kind = row[n].kind /\ done.pkg = row[n].pkg
        /\ done.truck = row[n].truck /\ done.dest = row[n].dest
    BY <2>1 DEF Row
  <2>3. row'[n] = done \/ row'[n] = row[n]
    BY DEF CloseDeliveries
  <2> HIDE DEF done
  <2> QED  BY <2>1, <2>2, <2>3
<1>2. row' \in [Seqs -> Row]
  BY <1>1 DEF CloseDeliveries
<1> QED  BY <1>1, <1>2 DEF CloseDeliveries, SameRows

\* The step of a request that is not its first.
LEMMA StepKeeps ==
  ASSUME CallOK, NEW c \in Threads, NEW f \in Steps \ {"idle", "insert"},
         NEW g \in Steps \ {"insert"},
         g = "redirect" => f = "redirect", f = "redirect" => g = "idle",
         Step(c, f, g), UNCHANGED reports
  PROVE  /\ CallOK'
         /\ call[c].pkg \in Packages
         /\ f # "redirect" => call[c].truck \in Trucks /\ call[c].dest \in Dests
         /\ call[c].dest \in Dests \cup {None}
         /\ \A b \in Threads : call'[b] # call[b] => call'[b].seq = 0 /\ call'[b].step # "insert"
<1> DEFINE k == IF g = "idle" THEN Idle ELSE [call[c] EXCEPT !.step = g]
<1>1. call[c] \in Call /\ call[c].step = f /\ call[c].pkg \in Packages /\ call[c].seq = 0
  BY DEF CallOK, Step
<1>2. f # "redirect" =>
        [pkg |-> call[c].pkg, truck |-> call[c].truck, dest |-> call[c].dest] \in Report
  BY <1>1 DEF CallOK
<1>3. f # "redirect" => call[c].truck \in Trucks /\ call[c].dest \in Dests
  BY <1>2 DEF Report
<1>4. /\ k \in Call /\ k.seq = 0 /\ k.step # "insert"
      /\ g # "idle" => /\ k.step = g /\ k.pkg = call[c].pkg
                       /\ k.truck = call[c].truck /\ k.dest = call[c].dest
      /\ g = "idle" => k.step = "idle"
  BY <1>1 DEF Call, Idle, Steps
<1>5. call' = [call EXCEPT ![c] = k]
  BY DEF Step
<1> HIDE DEF k
<1>6. CallOK'
  BY <1>1, <1>4, <1>5 DEF CallOK
<1>7. \A b \in Threads : call'[b] # call[b] => call'[b].seq = 0 /\ call'[b].step # "insert"
  BY <1>4, <1>5 DEF CallOK
<1> QED  BY <1>1, <1>3, <1>6, <1>7 DEF Call

\* A request on the way from its number to its row.
LEMMA HolderKeeps ==
  ASSUME CallOK, NEW c \in Threads, NEW f \in {"queue", "insert"}, call[c].step = f,
         NEW g \in {"insert", "depart"}, NEW q \in Nat, g # "insert" => q = 0,
         call' = [call EXCEPT ![c].step = g, ![c].seq = q], UNCHANGED reports
  PROVE  /\ CallOK' /\ call'[c].seq = q /\ call'[c].step = g
         /\ call[c].pkg \in Packages
         /\ call[c].truck \in Trucks /\ call[c].dest \in Dests
         /\ [pkg |-> call[c].pkg, truck |-> call[c].truck, dest |-> call[c].dest] \in reports
         /\ \A b \in Threads \ {c} : call'[b] = call[b]
<1> DEFINE k == [call[c] EXCEPT !.step = g, !.seq = q]
           r == [pkg |-> call[c].pkg, truck |-> call[c].truck, dest |-> call[c].dest]
<1>1. call[c] \in Call /\ call[c].pkg \in Packages /\ r \in reports
  BY DEF CallOK
<1>2. call[c].truck \in Trucks /\ call[c].dest \in Dests
  BY <1>1 DEF CallOK, Report
<1>3. /\ k \in Call /\ k.step = g /\ k.pkg = call[c].pkg /\ k.seq = q
      /\ k.truck = call[c].truck /\ k.dest = call[c].dest
  BY <1>1 DEF Call, Steps
<1>4. call' = [call EXCEPT ![c] = k]
  BY <1>1 DEF CallOK, Call
<1> HIDE DEF k
<1>6. call'[c] = k /\ \A b \in Threads \ {c} : call'[b] = call[b]
  BY <1>4 DEF CallOK
<1>5. CallOK'
  <2>1. call' \in [Threads -> Call] /\ reports' \subseteq Report
    BY <1>3, <1>4 DEF CallOK
  <2>2. \A b \in Threads : call'[b].step # "insert" => call'[b].seq = 0
    BY <1>3, <1>6 DEF CallOK
  <2>3. ASSUME NEW b \in Threads, call'[b].step # "idle"
        PROVE  /\ call'[b].pkg \in Packages
               /\ call'[b].step # "redirect" =>
                    [pkg |-> call'[b].pkg, truck |-> call'[b].truck,
                     dest |-> call'[b].dest] \in reports'
    <3>1. CASE b = c
      <4>1. /\ call'[b] = k /\ k.pkg = call[c].pkg /\ k.truck = call[c].truck
            /\ k.dest = call[c].dest /\ reports' = reports
        BY <1>3, <1>6, <3>1
      <4>2. [pkg |-> call'[b].pkg, truck |-> call'[b].truck, dest |-> call'[b].dest] = r
        BY <4>1
      <4> QED  BY <1>1, <4>1, <4>2
    <3>2. CASE b # c
      BY <1>6, <2>3, <3>2 DEF CallOK
    <3> QED  BY <3>1, <3>2
  <2> QED  BY <2>1, <2>2, <2>3 DEF CallOK
<1> QED  BY <1>1, <1>2, <1>3, <1>5, <1>6

\* The first step of a request.
LEMMA CallKeeps ==
  ASSUME CallOK, NEW c \in Threads, NEW k \in Call, k.step \notin {"idle", "insert"},
         k.seq = 0,
         k.pkg \in Packages, call' = [call EXCEPT ![c] = k],
         reports \subseteq reports', reports' \subseteq Report,
         k.step # "redirect" =>
           [pkg |-> k.pkg, truck |-> k.truck, dest |-> k.dest] \in reports'
  PROVE  /\ CallOK'
         /\ \A b \in Threads : call'[b] # call[b] => call'[b].seq = 0 /\ call'[b].step # "insert"
<1>1. \A b \in Threads : call'[b] = IF b = c THEN k ELSE call[b]
  BY DEF CallOK
<1> QED  BY <1>1 DEF CallOK

LEMMA ShipKeeps ==
  ASSUME ShipOK, NEW p \in Packages, NEW s \in Shipment, ship' = [ship EXCEPT ![p] = s]
  PROVE  ShipOK'
  BY DEF ShipOK

\* A job the daemon takes up.
LEMMA JobKeeps ==
  ASSUME NEW w \in Works \ {"idle", "reinsert"}, NEW p \in Packages, NEW t \in Trucks \cup {None},
         NEW m \in Notice \cup {None}, daemon' = Work(w, p, t, m),
         w \in Driving => t # None
  PROVE  DaemonOK' /\ daemon'.seq = 0 /\ daemon'.step # "reinsert"
  BY DEF DaemonOK, Job, Work, Driving

LEMMA RestingKeeps ==
  ASSUME daemon' = Resting
  PROVE  DaemonOK' /\ daemon'.seq = 0 /\ daemon'.step # "reinsert"
  BY DEF DaemonOK, Job, Resting, Works, Driving

\* Steps of the daemon and the world that insert no row.
LEMMA NoRowHeld ==
  ASSUME HeldOK, CallOK, DaemonOK, UNCHANGED <<call, next>>,
         \A m \in Seqs : row'[m].kind = row[m].kind, RowOK,
         daemon' # daemon => daemon'.seq = 0 /\ daemon'.step # "reinsert"
  PROVE  HeldOK'
<1>1. 0 \notin Taken
  BY DEF Taken
<1>2. Taken \ {0} \subseteq Taken'
  BY TakenGrows DEF RowOK
<1>3. /\ \A c \in Threads : call[c].step = "insert" => call[c].seq # 0
      /\ daemon.step = "reinsert" => daemon.seq # 0
  BY <1>1 DEF HeldOK
<1> QED  BY <1>2, <1>3, HeldKeeps

\* Requests that neither hold nor insert.
LEMMA NoHolderHeld ==
  ASSUME HeldOK, CallOK, DaemonOK, RowOK, UNCHANGED <<row, next, daemon>>,
         \A b \in Threads : call'[b] # call[b] => call'[b].seq = 0 /\ call'[b].step # "insert"
  PROVE  HeldOK'
<1>1. 0 \notin Taken
  BY DEF Taken
<1>2. Taken \ {0} \subseteq Taken'
  BY DEF Taken
<1>3. /\ \A c \in Threads : call[c].step = "insert" => call[c].seq # 0
      /\ daemon.step = "reinsert" => daemon.seq # 0
  BY <1>1 DEF HeldOK
<1> QED  BY <1>2, <1>3, HeldKeeps

LEMMA EndReportKeeps ==
  ASSUME NEW m, EndReport(m), FaultOK
  PROVE  /\ DaemonOK' /\ FaultOK' /\ notices' \subseteq notices
         /\ daemon'.seq = 0 /\ daemon'.step # "reinsert"
<1>1. FaultOK'
  BY StillFault DEF EndReport
<1>2. DaemonOK' /\ daemon'.seq = 0 /\ daemon'.step # "reinsert"
  BY RestingKeeps DEF EndReport
<1> QED  BY <1>1, <1>2 DEF EndReport

-----------------------------------------------------------------------------

LEMMA TypeInit == Init => TypeInv
<1> USE UpsShipmentsAssumption
<1> SUFFICES ASSUME Init PROVE TypeInv
  OBVIOUS
<1>1. ShipOK
  BY DEF Init, ShipOK, Shipment
<1>2. RowOK
  <2>1. row \in [Seqs -> Row]
    BY DEF Init, Row, Absent
  <2>2. \A n \in Seqs : row[n].kind = "absent"
    BY DEF Init, Absent, Seqs
  <2> QED  BY <2>1, <2>2 DEF Init, RowOK
<1>3. CallOK
  BY DEF Init, CallOK, Call, Steps, Idle
<1>4. DaemonOK
  BY DEF Init, DaemonOK, Job, Works, Resting, Driving
<1>6. HeldOK
  BY DEF Init, HeldOK, Resting, Idle
<1>5. NoticeOK /\ WorldOK /\ EventOK /\ FaultOK
  BY DEF Init, NoticeOK, WorldOK, EventOK, FaultOK
<1> QED  BY <1>1, <1>2, <1>3, <1>4, <1>5, <1>6 DEF TypeInv

\* Requests leave the daemon and the world alone and forget no report.
LEMMA RequestFrames ==
  ASSUME Requests \/ WebDies
  PROVE  /\ UNCHANGED <<daemon, events, retries, notices, at, reached, told>>
         /\ Fault \/ UNCHANGED faults
         /\ reports \subseteq reports'
<1> DEFINE Frame == /\ UNCHANGED <<daemon, events, retries, notices, at, reached, told>>
                    /\ Fault \/ UNCHANGED faults
                    /\ reports \subseteq reports'
<1>1. ASSUME NEW p \in Packages, NEW d \in Dests, NEW t,
             Register(p, t, d) \/ Pickup(p, t, d)
      PROVE  Frame
  BY <1>1 DEF Register, Pickup, Repeated, outside
<1>2. ASSUME NEW c \in Threads, NEW p \in Packages, NEW d \in Dests, NEW t,
             Redirect(c, p, d) \/ ReportLoaded(c, p, t, d)
      PROVE  Frame
  BY <1>2 DEF Redirect, ReportLoaded, Repeated, outside
<1>3. ASSUME NEW c \in Threads,
             \/ SaveAssignment(c) \/ MarkLoaded(c) \/ TakeDeliveryNumber(c)
             \/ QueueDelivery(c) \/ MarkOut(c) \/ SaveRedirect(c)
      PROVE  Frame
  BY <1>3 DEF SaveAssignment, MarkLoaded, TakeDeliveryNumber, QueueDelivery, MarkOut,
              SaveRedirect, outside
<1>4. WebDies => Frame
  BY DEF WebDies, outside
<1> HIDE DEF Frame
<1>5. Frame
  BY <1>1, <1>2, <1>3, <1>4 DEF Requests
<1> QED  BY <1>5 DEF Frame

LEMMA RequestsKeepTypes == TypeInv /\ (Requests \/ WebDies) => TypeInv'
<1> SUFFICES ASSUME TypeInv, Requests \/ WebDies PROVE TypeInv'
  OBVIOUS
<1> USE StillShip, StillRow, StillCall, StillDaemon, StillHeld, StillNotice, StillWorld,
        StillEvent, StillFault DEF TypeInv
<1>1. ASSUME NEW p \in Packages, NEW t \in Trucks, NEW d \in Dests, Pickup(p, t, d)
      PROVE  TypeInv'
  <2>0. /\ next \in Seqs /\ row[next].kind = "absent"
        /\ next' \in 1..(MaxSeq + 1) /\ next <= next' /\ next < next'
    BY <1>1, TakeKeeps DEF Pickup
  <2>1. RowOK' /\ (\A n \in Seqs : row[n].kind # "absent" => row'[n] = row[n])
        /\ \A n \in Seqs : n # next => row'[n] = row[n]
    BY <1>1, <2>0, InsertKeeps DEF Pickup
  <2>5. HeldOK'
    <3>1. Taken \ {next} \subseteq Taken'
      BY <2>0, <2>1, TakenGrows
    <3> QED  BY <1>1, <3>1, NextIsFree, HeldKeeps DEF Pickup
  <2>2. NoticeOK'
    BY <1>1, <2>1, InsertKeepsNotices DEF Pickup, outside
  <2>3. [status |-> "enroute", dest |-> d, truck |-> t] \in Shipment
    BY DEF Shipment, Statuses
  <2>4. ShipOK'
    BY <1>1, <2>3, ShipKeeps DEF Pickup
  <2> QED  BY <1>1, <2>1, <2>2, <2>4, <2>5 DEF Pickup, Repeated, outside
<1>2. ASSUME NEW p \in Packages, NEW t \in Trucks \cup {None}, NEW d \in Dests,
             Register(p, t, d)
      PROVE  TypeInv'
  <2> DEFINE s == [ship[p] EXCEPT
                     !.dest = d,
                     !.status = IF Known(p) THEN ship[p].status ELSE "created",
                     !.truck = IF Known(p) /\ ship[p].truck = None THEN t ELSE ship[p].truck]
  <2>1. ship[p] \in Shipment
    BY DEF ShipOK
  <2>2. s \in Shipment
    BY <2>1 DEF Shipment, Statuses
  <2>3. ship' = [ship EXCEPT ![p] = s]
    BY <1>2, <2>1 DEF Register, ShipOK, Shipment
  <2> HIDE DEF s
  <2>4. ShipOK'
    BY <2>2, <2>3, ShipKeeps
  <2> QED  BY <1>2, <2>4 DEF Register, Repeated, outside
<1>3. ASSUME NEW c \in Threads, NEW p \in Packages, NEW t \in Trucks, NEW d \in Dests,
             ReportLoaded(c, p, t, d)
      PROVE  TypeInv'
  <2> DEFINE k == [step |-> "assign", pkg |-> p, truck |-> t, dest |-> d, seq |-> 0]
             r == [pkg |-> p, truck |-> t, dest |-> d]
  <2>1. k \in Call /\ k.step = "assign" /\ k.pkg = p /\ k.seq = 0
        /\ [pkg |-> k.pkg, truck |-> k.truck, dest |-> k.dest] = r
    BY DEF Call, Steps
  <2>2. reports' = reports \cup {r} /\ r \in Report /\ call' = [call EXCEPT ![c] = k]
    BY <1>3 DEF ReportLoaded, Report
  <2> HIDE DEF k, r
  <2>3. CallOK' /\ \A b \in Threads :
          call'[b] # call[b] => call'[b].seq = 0 /\ call'[b].step # "insert"
    BY <2>1, <2>2, CallKeeps DEF CallOK
  <2>4. HeldOK'
    BY <1>3, <2>3, NoHolderHeld DEF ReportLoaded
  <2> QED  BY <1>3, <2>3, <2>4 DEF ReportLoaded, Repeated, outside
<1>4. ASSUME NEW c \in Threads, NEW p \in Packages, NEW d \in Dests, Redirect(c, p, d)
      PROVE  TypeInv'
  <2> DEFINE k == [step |-> "redirect", pkg |-> p, truck |-> None, dest |-> d, seq |-> 0]
  <2>1. k \in Call /\ k.step = "redirect" /\ k.pkg = p /\ k.seq = 0
    BY DEF Call, Steps
  <2>2. call' = [call EXCEPT ![c] = k] /\ UNCHANGED reports
    BY <1>4 DEF Redirect
  <2> HIDE DEF k
  <2>3. CallOK' /\ \A b \in Threads :
          call'[b] # call[b] => call'[b].seq = 0 /\ call'[b].step # "insert"
    BY <2>1, <2>2, CallKeeps DEF CallOK
  <2>4. HeldOK'
    BY <1>4, <2>3, NoHolderHeld DEF Redirect
  <2> QED  BY <1>4, <2>3, <2>4 DEF Redirect, outside
<1>5. ASSUME NEW c \in Threads, SaveAssignment(c) PROVE TypeInv'
  <2> DEFINE p == call[c].pkg
             s == [ship[p] EXCEPT !.truck = call[c].truck, !.dest = call[c].dest]
  <2>1. CallOK' /\ p \in Packages /\ call[c].truck \in Trucks /\ call[c].dest \in Dests
    BY <1>5, StepKeeps DEF SaveAssignment, Steps
  <2>2. ship[p] \in Shipment
    BY <2>1 DEF ShipOK
  <2>3. s \in Shipment
    BY <2>1, <2>2 DEF Shipment
  <2>4. ship' = [ship EXCEPT ![p] = s]
    BY <1>5, <2>1, <2>2 DEF SaveAssignment, ShipOK, Shipment
  <2> HIDE DEF s, p
  <2>5. ShipOK'
    BY <2>1, <2>3, <2>4, ShipKeeps
  <2>7. HeldOK'
    BY <1>5, StepKeeps, NoHolderHeld DEF SaveAssignment, Steps
  <2> QED  BY <1>5, <2>1, <2>5, <2>7 DEF SaveAssignment, outside
<1>6. ASSUME NEW c \in Threads, MarkLoaded(c) PROVE TypeInv'
  <2>1. CallOK' /\ call[c].pkg \in Packages
    BY <1>6, StepKeeps DEF MarkLoaded, Steps
  <2>2. ShipOK'
    BY <1>6, <2>1 DEF MarkLoaded, ShipOK, Shipment, Statuses
  <2>7. HeldOK'
    BY <1>6, StepKeeps, NoHolderHeld DEF MarkLoaded, Steps
  <2> QED  BY <1>6, <2>1, <2>2, <2>7 DEF MarkLoaded, outside
<1>7. ASSUME NEW c \in Threads, QueueDelivery(c) PROVE TypeInv'
  <2> DEFINE q == call[c].seq
  <2>1. /\ CallOK' /\ call'[c].seq = 0 /\ call'[c].step = "depart"
        /\ call[c].pkg \in Packages /\ call[c].truck \in Trucks /\ call[c].dest \in Dests
        /\ \A b \in Threads \ {c} : call'[b] = call[b]
    BY <1>7, HolderKeeps DEF QueueDelivery
  <2>2. q \in Taken /\ q \in Seqs /\ row[q].kind = "absent" /\ q < next
        /\ next \in 1..(MaxSeq + 1)
    <3>1. q \in Taken
      BY <1>7 DEF QueueDelivery, HeldOK
    <3> QED  BY <3>1, TakenIsFree
  <2>3. /\ RowOK' /\ \A n \in Seqs : row[n].kind # "absent" => row'[n] = row[n]
        /\ \A n \in Seqs : n # q => row'[n] = row[n]
    <3>1. InsertRow(q, "deliver", call[c].pkg, call[c].truck, call[c].dest)
          /\ next' = next
      BY <1>7 DEF QueueDelivery
    <3> HIDE DEF q
    <3> QED  BY <2>1, <2>2, <3>1, InsertKeeps
  <2>4. NoticeOK'
    BY <1>7, <2>3, InsertKeepsNotices DEF QueueDelivery, outside
  <2>5. HeldOK'
    <3>1. Taken \ {q} \subseteq Taken'
      BY <1>7, <2>2, <2>3, TakenGrows DEF QueueDelivery
    <3>2. /\ \A b \in Threads \ {c} : call[b].seq # q
          /\ daemon.seq # q
      BY <1>7 DEF QueueDelivery, HeldOK
    <3>3. UNCHANGED daemon
      BY <1>7 DEF QueueDelivery
    <3> HIDE DEF q
    <3>4. \A b \in Threads : \/ call'[b].seq = 0 /\ call'[b].step # "insert"
                             \/ call'[b] = call[b] /\ (call[b].step = "insert" => call[b].seq # q)
      BY <2>1, <3>2
    <3> QED  BY <3>1, <3>2, <3>3, <3>4, HeldKeeps
  <2> QED  BY <1>7, <2>1, <2>3, <2>4, <2>5 DEF QueueDelivery, outside
<1>11. ASSUME NEW c \in Threads, TakeDeliveryNumber(c) PROVE TypeInv'
  <2>0. /\ next \in Seqs /\ row[next].kind = "absent"
        /\ next' \in 1..(MaxSeq + 1) /\ next <= next' /\ next < next' /\ RowOK'
    BY <1>11, TakeKeeps DEF TakeDeliveryNumber
  <2>1. /\ CallOK' /\ call'[c].seq = next /\ call'[c].step = "insert"
        /\ \A b \in Threads \ {c} : call'[b] = call[b]
    <3>1. next \in Nat
      BY <2>0 DEF Seqs
    <3> QED  BY <1>11, <3>1, HolderKeeps DEF TakeDeliveryNumber
  <2>2. HeldOK'
    <3>1. next \in Taken' /\ Taken \subseteq Taken'
      BY <1>11, <2>0 DEF TakeDeliveryNumber, Taken, Seqs, RowOK
    <3>2. daemon' = daemon
      BY <1>11 DEF TakeDeliveryNumber
    <3>3. ASSUME NEW b \in Threads, call'[b].step = "insert"
          PROVE  /\ call'[b].seq \in Taken' /\ call'[b].seq # daemon'.seq
                 /\ \A a \in Threads \ {b} : call'[a].seq # call'[b].seq
      <4>1. CASE b = c
        BY <2>1, <3>1, <3>2, <4>1, NextIsFree
      <4>2. CASE b # c
        <5>1. call'[b] = call[b]
          BY <2>1, <4>2
        <5>2. call'[b].seq \in Taken' /\ call'[b].seq # daemon'.seq
          BY <3>1, <3>2, <3>3, <5>1 DEF HeldOK
        <5>3. \A a \in Threads \ {b} : call'[a].seq # call'[b].seq
          BY <2>1, <3>3, <5>1, NextIsFree DEF HeldOK
        <5> QED  BY <5>2, <5>3
      <4> QED  BY <4>1, <4>2
    <3>4. daemon'.step = "reinsert" => daemon'.seq \in Taken'
      BY <3>1, <3>2 DEF HeldOK
    <3> QED  BY <3>3, <3>4 DEF HeldOK
  <2> QED  BY <1>11, <2>0, <2>1, <2>2 DEF TakeDeliveryNumber, outside
<1>8. ASSUME NEW c \in Threads, MarkOut(c) PROVE TypeInv'
  <2>1. CallOK' /\ call[c].pkg \in Packages
    BY <1>8, StepKeeps DEF MarkOut, Steps
  <2>2. ShipOK'
    BY <1>8, <2>1 DEF MarkOut, ShipOK, Shipment, Statuses
  <2>7. HeldOK'
    BY <1>8, StepKeeps, NoHolderHeld DEF MarkOut, Steps
  <2> QED  BY <1>8, <2>1, <2>2, <2>7 DEF MarkOut, outside
<1>9. ASSUME NEW c \in Threads, SaveRedirect(c) PROVE TypeInv'
  <2>1. CallOK' /\ call[c].pkg \in Packages /\ call[c].dest \in Dests \cup {None}
    BY <1>9, StepKeeps DEF SaveRedirect, Steps
  <2>2. ShipOK'
    BY <1>9, <2>1 DEF SaveRedirect, ShipOK, Shipment
  <2>7. HeldOK'
    BY <1>9, StepKeeps, NoHolderHeld DEF SaveRedirect, Steps
  <2> QED  BY <1>9, <2>1, <2>2, <2>7 DEF SaveRedirect, outside
<1>10. CASE WebDies
  <2>1. CallOK'
    BY <1>10 DEF WebDies, CallOK, Call, Steps, Idle
  <2>2. HeldOK'
    BY <1>10, NoHolderHeld DEF WebDies, Idle
  <2> QED  BY <1>10, <2>1, <2>2 DEF WebDies, outside
<1> QED  BY <1>1, <1>2, <1>3, <1>4, <1>5, <1>6, <1>7, <1>8, <1>9, <1>10, <1>11
         DEF Requests

LEMMA WorldKeepsTypes == TypeInv /\ World => TypeInv'
<1> SUFFICES ASSUME TypeInv, NEW n \in Seqs,
                    Accept(n) \/ Reject(n) \/ WorldReaches(n) \/ WorldDelivers(n)
             PROVE  TypeInv'
  BY DEF World
<1> USE StillShip, StillRow, StillCall, StillDaemon, StillHeld, StillNotice, StillWorld,
        StillEvent, StillFault DEF TypeInv
<1>1. CASE Accept(n)
  <2>1. RowOK' /\ NoticeOK'
    BY <1>1, SettleSame, SameRowsKeep DEF Accept, outside
  <2>2. HeldOK'
    BY <1>1, SettleSame, NoRowHeld DEF Accept, SameRows
  <2> QED  BY <1>1, <2>1, <2>2 DEF Accept, outside
<1>2. CASE Reject(n)
  <2>1. RowOK' /\ NoticeOK'
    BY <1>2, SettleSame, SameRowsKeep DEF Reject, outside
  <2>2. HeldOK'
    BY <1>2, SettleSame, NoRowHeld DEF Reject, SameRows
  <2> QED  BY <1>2, <2>1, <2>2 DEF Reject, outside
<1>3. CASE WorldReaches(n)
  <2>1. row[n].kind # "absent" /\ row[n].pkg \in Packages
    BY <1>3 DEF WorldReaches, OfKind, RowOK
  <2>2. WorldOK'
    BY <1>3, <2>1 DEF WorldReaches, WorldOK
  <2>3. [kind |-> "completion", seq |-> n] \in Notice
    BY DEF Notice
  <2>4. NoticeOK'
    BY <1>3, <2>1, <2>3 DEF WorldReaches, NoticeOK, web
  <2> QED  BY <1>3, <2>2, <2>4 DEF WorldReaches, web
<1>4. CASE WorldDelivers(n)
  <2>1. row[n].kind # "absent"
    BY <1>4 DEF WorldDelivers, OfKind
  <2>2. WorldOK'
    BY <1>4 DEF WorldDelivers, WorldOK
  <2>3. \A x \in {"completion", "delivered"} : [kind |-> x, seq |-> n] \in Notice
    BY DEF Notice
  <2>4. \A m \in notices' : m \in Notice /\ (m \in notices \/ m.seq = n)
    BY <1>4, <2>3 DEF WorldDelivers, NoticeOK
  <2>5. NoticeOK'
    BY <1>4, <2>1, <2>4 DEF WorldDelivers, NoticeOK, web
  <2> QED  BY <1>4, <2>2, <2>5 DEF WorldDelivers, web
<1> QED  BY <1>1, <1>2, <1>3, <1>4

\* The daemon at work has what its step needs.
LEMMA DaemonHas ==
  ASSUME DaemonOK, daemon.step # "idle"
  PROVE  /\ daemon.pkg \in Packages
         /\ daemon.step \in Driving => daemon.truck \in Trucks
         /\ daemon.dest \in Dests \cup {None}
         /\ daemon.notice \in Notice \cup {None}
  BY DEF DaemonOK, Job

\* Going on with a job.
LEMMA JobGoesOn ==
  ASSUME DaemonOK, daemon.step \notin {"idle", "reinsert"},
         NEW w \in Works \ {"idle", "reinsert"},
         daemon' = [daemon EXCEPT !.step = w],
         w \in Driving => daemon.truck \in Trucks
  PROVE  DaemonOK' /\ daemon'.seq = 0 /\ daemon'.step # "reinsert"
<1>1. daemon' \in Job /\ daemon'.step = w /\ daemon'.pkg = daemon.pkg
      /\ daemon'.truck = daemon.truck /\ daemon'.seq = daemon.seq /\ daemon.seq = 0
  BY DEF DaemonOK, Job
<1> QED  BY <1>1 DEF DaemonOK

LEMMA ReportsKeepTypes ==
  ASSUME TypeInv, NEW m \in notices,
         \/ \E n \in Seqs : HandleCompletion(m, n)
         \/ CompletionOfNothing(m) \/ HandleDelivered(m)
  PROVE  TypeInv'
<1> USE StillShip, StillRow, StillCall, StillDaemon, StillHeld, StillNotice, StillWorld,
        StillEvent, StillFault DEF TypeInv
<1>0. m \in Notice /\ m.seq \in Seqs /\ row[m.seq].pkg \in Packages
      /\ row[m.seq].truck \in Trucks
  BY DEF NoticeOK, Notice, RowOK
<1>1. ASSUME NEW n \in Seqs, HandleCompletion(m, n) PROVE TypeInv'
  <2>1. SameRows /\ row[n].pkg \in Packages
    BY <1>1, CompleteSame DEF HandleCompletion, RowOK
  <2>2. DaemonOK' /\ daemon'.seq = 0 /\ daemon'.step # "reinsert"
        /\ FaultOK' /\ notices' \subseteq notices
    <3>1. CASE daemon' = Work("waiting", row[n].pkg, row[m.seq].truck, m)
      <4>1. UNCHANGED faults \/ Fault
        BY <1>1 DEF HandleCompletion, EndReport
      <4>2. DaemonOK' /\ daemon'.seq = 0 /\ daemon'.step # "reinsert"
        BY <1>0, <2>1, <3>1, JobKeeps, UpsShipmentsAssumption DEF Works
      <4> QED  BY <1>1, <4>1, <4>2 DEF HandleCompletion, EndReport
    <3>2. CASE daemon' = Resting /\ Fault /\ notices' \subseteq notices
      BY <3>2, RestingKeeps
    <3>3. CASE EndReport(m)
      BY <3>3, EndReportKeeps
    <3> QED  BY <1>1, <3>1, <3>2, <3>3 DEF HandleCompletion
  <2>3. RowOK' /\ NoticeOK'
    BY <2>1, <2>2, SameRowsKeep
  <2>4. HeldOK'
    BY <1>1, <2>1, <2>2, NoRowHeld DEF HandleCompletion, SameRows
  <2> QED  BY <1>1, <2>2, <2>3, <2>4 DEF HandleCompletion
<1>2. CASE HandleDelivered(m)
  <2> DEFINE p == row[m.seq].pkg
  <2>1. ShipOK'
    BY <1>0, <1>2 DEF HandleDelivered, ShipOK, Shipment, Statuses
  <2>2. \E w \in {"closing", "bringing"} : daemon' = Work(w, p, None, m)
    BY <1>2 DEF HandleDelivered
  <2>3. DaemonOK' /\ daemon'.seq = 0 /\ daemon'.step # "reinsert"
    BY <1>0, <2>2, JobKeeps DEF Works, Driving
  <2>4. HeldOK'
    BY <1>2, <2>3, NoRowHeld DEF HandleDelivered
  <2> QED  BY <1>2, <2>1, <2>3, <2>4 DEF HandleDelivered, outside
<1>3. CASE CompletionOfNothing(m)
  <2>1. DaemonOK' /\ FaultOK' /\ notices' \subseteq notices
        /\ daemon'.seq = 0 /\ daemon'.step # "reinsert"
    BY <1>3, EndReportKeeps DEF CompletionOfNothing
  <2>2. HeldOK'
    BY <1>3, <2>1, NoRowHeld DEF CompletionOfNothing, web
  <2>3. NoticeOK'
    BY <1>3, <2>1 DEF CompletionOfNothing, web, NoticeOK
  <2> QED  BY <1>3, <2>1, <2>2, <2>3 DEF CompletionOfNothing, web
<1> QED  BY <1>1, <1>2, <1>3

LEMMA JobsKeepTypes ==
  ASSUME TypeInv,
         \/ MarkWaiting \/ TellArrival \/ TellDelivered \/ CloseDeliveries
         \/ TakeRequeueNumber \/ RequeueDelivery \/ DaemonDies
  PROVE  TypeInv'
<1> USE StillShip, StillRow, StillCall, StillDaemon, StillHeld, StillNotice, StillWorld,
        StillEvent, StillFault DEF TypeInv
<1>1. CASE MarkWaiting
  <2> DEFINE p == daemon.pkg
             s == [ship[p] EXCEPT !.status = "waiting", !.truck = daemon.truck]
  <2>1. p \in Packages /\ daemon.truck \in Trucks
    BY <1>1, DaemonHas DEF MarkWaiting, Driving
  <2>2. ship[p] \in Shipment
    BY <2>1 DEF ShipOK
  <2>3. s \in Shipment
    BY <2>1, <2>2 DEF Shipment, Statuses
  <2>4. ship' = [ship EXCEPT ![p] = s]
    BY <1>1, <2>1, <2>2 DEF MarkWaiting, ShipOK, Shipment
  <2>5. DaemonOK' /\ daemon'.seq = 0 /\ daemon'.step # "reinsert"
    BY <1>1, <2>1, JobGoesOn DEF MarkWaiting, Works
  <2> HIDE DEF s, p
  <2>6. ShipOK'
    BY <2>1, <2>3, <2>4, ShipKeeps
  <2>7. HeldOK'
    BY <1>1, <2>5, NoRowHeld DEF MarkWaiting
  <2> QED  BY <1>1, <2>5, <2>6, <2>7 DEF MarkWaiting, outside
<1>2. CASE TellArrival
  <2>1. daemon.pkg \in Packages /\ daemon.truck \in Trucks
    BY <1>2, DaemonHas DEF TellArrival, Driving
  <2>2. DaemonOK' /\ FaultOK' /\ notices' \subseteq notices
        /\ daemon'.seq = 0 /\ daemon'.step # "reinsert"
    BY <1>2, EndReportKeeps DEF TellArrival
  <2>7. HeldOK'
    BY <1>2, <2>2, NoRowHeld DEF TellArrival, web
  <2>3. events' \in [Packages -> [told : BOOLEAN, failed : Nat]]
    <3> DEFINE p == daemon.pkg
               good == [events[p] EXCEPT !.told = TRUE]
               bad == [events[p] EXCEPT !.failed = events[p].failed + 1]
    <3>1. events[p] \in [told : BOOLEAN, failed : Nat]
      BY <2>1 DEF EventOK
    <3>2. good \in [told : BOOLEAN, failed : Nat] /\ bad \in [told : BOOLEAN, failed : Nat]
      <4>1. events[p].failed \in Nat /\ events[p].failed + 1 \in Nat
        BY <3>1
      <4>2. good \in [told : BOOLEAN, failed : Nat]
        BY <3>1
      <4>3. bad \in [told : BOOLEAN, failed : Nat]
        BY <3>1, <4>1
      <4> QED  BY <4>2, <4>3
    <3>3. \/ events' = [events EXCEPT ![p] = good]
          \/ events' = [events EXCEPT ![p] = bad]
      BY <1>2, <2>1, <3>1 DEF TellArrival, EventOK
    <3> HIDE DEF good, bad
    <3> QED  BY <2>1, <3>2, <3>3 DEF EventOK
  <2>4. told' \in [Packages -> Trucks \cup {None}]
    BY <1>2, <2>1 DEF TellArrival, EventOK
  <2>5. EventOK'
    BY <1>2, <2>3, <2>4 DEF TellArrival, EventOK
  <2>6. NoticeOK'
    BY <1>2, <2>2 DEF TellArrival, NoticeOK, web
  <2> QED  BY <1>2, <2>2, <2>5, <2>6, <2>7 DEF TellArrival, web
<1>3. CASE TellDelivered
  <2>1. daemon.pkg \in Packages
    BY <1>3, DaemonHas DEF TellDelivered
  <2>2. DaemonOK' /\ daemon'.seq = 0 /\ daemon'.step # "reinsert"
    BY <1>3, JobGoesOn DEF TellDelivered, Works, Driving
  <2>4. HeldOK'
    BY <1>3, <2>2, NoRowHeld DEF TellDelivered, web
  <2>3. EventOK'
    BY <1>3, <2>1 DEF TellDelivered, EventOK, outside
  <2> QED  BY <1>3, <2>2, <2>3, <2>4 DEF TellDelivered, web, outside
<1>4. CASE CloseDeliveries
  <2>1. SameRows
    BY <1>4, CloseSame
  <2>2. DaemonOK' /\ FaultOK' /\ notices' \subseteq notices
        /\ daemon'.seq = 0 /\ daemon'.step # "reinsert"
    BY <1>4, EndReportKeeps DEF CloseDeliveries
  <2>4. HeldOK'
    BY <1>4, <2>1, <2>2, NoRowHeld DEF CloseDeliveries, SameRows
  <2>3. RowOK' /\ NoticeOK'
    BY <2>1, <2>2, SameRowsKeep
  <2> QED  BY <1>4, <2>2, <2>3, <2>4 DEF CloseDeliveries
<1>5. CASE RequeueDelivery
  <2>1. DaemonOK' /\ daemon'.seq = 0 /\ daemon'.step # "reinsert"
    BY <1>5, RestingKeeps DEF RequeueDelivery
  <2> DEFINE q == daemon.seq
  <2>2. /\ daemon.pkg \in Packages /\ daemon.truck \in Trucks
        /\ daemon.dest \in Dests \cup {None}
    BY <1>5, DaemonHas DEF RequeueDelivery, Driving
  <2>3. q \in Taken /\ q \in Seqs /\ row[q].kind = "absent" /\ q < next
        /\ next \in 1..(MaxSeq + 1)
    <3>1. q \in Taken
      BY <1>5 DEF RequeueDelivery, HeldOK
    <3> QED  BY <3>1, TakenIsFree
  <2>4. /\ RowOK' /\ \A n \in Seqs : row[n].kind # "absent" => row'[n] = row[n]
        /\ \A n \in Seqs : n # q => row'[n] = row[n]
    <3>1. InsertRow(q, "deliver", daemon.pkg, daemon.truck, daemon.dest)
          /\ next' = next
      BY <1>5 DEF RequeueDelivery
    <3> HIDE DEF q
    <3> QED  BY <2>2, <2>3, <3>1, InsertKeeps
  <2>5. NoticeOK'
    BY <1>5, <2>4, InsertKeepsNotices DEF RequeueDelivery, outside
  <2>6. HeldOK'
    <3>1. Taken \ {q} \subseteq Taken'
      <4>1. /\ next' = next /\ next' \in 1..(MaxSeq + 1) /\ next <= next'
            /\ \A n \in Seqs : n # q => row'[n].kind = row[n].kind
        BY <1>5, <2>3, <2>4 DEF RequeueDelivery
      <4> HIDE DEF q
      <4> QED  BY <4>1, TakenGrows
    <3>2. UNCHANGED call
      BY <1>5 DEF RequeueDelivery
    <3>3. \A b \in Threads : call[b].step = "insert" => call[b].seq # q
      BY DEF HeldOK
    <3> HIDE DEF q
    <3> QED  BY <2>1, <3>1, <3>2, <3>3, HeldKeeps
  <2> QED  BY <1>5, <2>1, <2>4, <2>5, <2>6 DEF RequeueDelivery, outside
<1>7. CASE TakeRequeueNumber
  <2>0. /\ next \in Seqs /\ row[next].kind = "absent"
        /\ next' \in 1..(MaxSeq + 1) /\ next <= next' /\ next < next' /\ RowOK'
    BY <1>7, TakeKeeps DEF TakeRequeueNumber
  <2>1. DaemonOK' /\ daemon'.seq = next /\ daemon'.step = "reinsert"
    <3>1. daemon.step = "requeue" /\ daemon' = [daemon EXCEPT !.step = "reinsert", !.seq = next]
          /\ next \in Nat
      BY <1>7, <2>0 DEF TakeRequeueNumber, Seqs
    <3>2. daemon.pkg \in Packages /\ daemon.truck \in Trucks
      BY <3>1, DaemonHas DEF Driving
    <3>3. daemon' \in Job /\ daemon'.step = "reinsert" /\ daemon'.pkg = daemon.pkg
          /\ daemon'.truck = daemon.truck /\ daemon'.seq = next
      BY <3>1 DEF DaemonOK, Job, Works
    <3> QED  BY <3>2, <3>3 DEF DaemonOK
  <2>2. HeldOK'
    <3>1. next \in Taken' /\ Taken \subseteq Taken' /\ UNCHANGED call
      BY <1>7, <2>0 DEF TakeRequeueNumber, Taken, Seqs, RowOK
    <3> QED  BY <2>1, <3>1, NextIsFree DEF HeldOK
  <2> QED  BY <1>7, <2>0, <2>1, <2>2 DEF TakeRequeueNumber, outside
<1>6. CASE DaemonDies
  <2>1. DaemonOK' /\ daemon'.seq = 0 /\ daemon'.step # "reinsert"
    BY <1>6, RestingKeeps DEF DaemonDies
  <2>4. HeldOK'
    BY <1>6, <2>1, NoRowHeld DEF DaemonDies, web
  <2>2. told' \in [Packages -> Trucks \cup {None}]
    <3>1. CASE told' = told
      BY <3>1 DEF EventOK
    <3>2. CASE told' # told
      <4>1. daemon.step = "telling" /\ told' = [told EXCEPT ![daemon.pkg] = daemon.truck]
        BY <1>6, <3>2 DEF DaemonDies
      <4>2. daemon.truck \in Trucks
        BY <4>1, DaemonHas DEF Driving
      <4> QED  BY <4>1, <4>2 DEF EventOK
    <3> QED  BY <3>1, <3>2
  <2>3. EventOK'
    BY <1>6, <2>2 DEF DaemonDies, EventOK
  <2> QED  BY <1>6, <2>1, <2>3, <2>4 DEF DaemonDies, web
<1> QED  BY <1>1, <1>2, <1>3, <1>4, <1>5, <1>6, <1>7

LEMMA PollKeepsTypes ==
  ASSUME TypeInv,
         \/ \E t \in Trucks, n \in Seqs : HandleTruckStatus(t, n)
         \/ \E p \in Packages : RetryCallback(p)
         \/ \E n \in Seqs : FindQuietDelivery(n)
  PROVE  TypeInv'
<1> USE StillShip, StillRow, StillCall, StillDaemon, StillHeld, StillNotice, StillWorld,
        StillEvent, StillFault DEF TypeInv
<1>1. ASSUME NEW t \in Trucks, NEW n \in Seqs, HandleTruckStatus(t, n) PROVE TypeInv'
  <2>1. row[n].kind = "pickup" /\ row[n].pkg \in Packages
    BY <1>1 DEF HandleTruckStatus, IsFirst, OfKind, RowOK
  <2>2. SameRows
    BY <1>1, CompleteSame DEF HandleTruckStatus
  <2>3. RowOK' /\ NoticeOK'
    BY <1>1, <2>2, SameRowsKeep DEF HandleTruckStatus, outside
  <2>4. daemon' = Work("waiting", row[n].pkg, t, None)
    BY <1>1 DEF HandleTruckStatus
  <2>5. DaemonOK' /\ daemon'.seq = 0 /\ daemon'.step # "reinsert"
    BY <2>1, <2>4, JobKeeps, UpsShipmentsAssumption DEF Works
  <2>6. HeldOK'
    BY <1>1, <2>2, <2>5, NoRowHeld DEF HandleTruckStatus, SameRows
  <2> QED  BY <1>1, <2>3, <2>5, <2>6 DEF HandleTruckStatus, outside
<1>2. ASSUME NEW p \in Packages, RetryCallback(p) PROVE TypeInv'
  <2>1. ship[p].truck \in Trucks \cup {None} /\ ship[p].truck # None
    BY <1>2 DEF RetryCallback, InWindow, Waiting, ShipOK, Shipment
  <2>2. daemon' = Work("telling", p, ship[p].truck, None)
    BY <1>2 DEF RetryCallback
  <2>3. DaemonOK' /\ daemon'.seq = 0 /\ daemon'.step # "reinsert"
    BY <2>1, <2>2, JobKeeps DEF Works
  <2>4. EventOK'
    BY <1>2 DEF RetryCallback, EventOK, outside
  <2>5. HeldOK'
    BY <1>2, <2>3, NoRowHeld DEF RetryCallback, web
  <2> QED  BY <1>2, <2>3, <2>4, <2>5 DEF RetryCallback, web, outside
<1>3. ASSUME NEW n \in Seqs, FindQuietDelivery(n) PROVE TypeInv'
  <2>1. row[n].pkg \in Packages /\ row[n].truck \in Trucks
    BY <1>3 DEF FindQuietDelivery, OfKind, RowOK
  <2>2. ship[row[n].pkg].dest \in Dests \cup {None}
    BY <2>1 DEF ShipOK, Shipment
  <2>3. DaemonOK' /\ daemon'.seq = 0 /\ daemon'.step # "reinsert"
    BY <1>3, <2>1, <2>2 DEF FindQuietDelivery, DaemonOK, Job, Work, Works
  <2>4. HeldOK'
    BY <1>3, <2>3, NoRowHeld DEF FindQuietDelivery, web
  <2> QED  BY <1>3, <2>3, <2>4 DEF FindQuietDelivery, web, outside
<1> QED  BY <1>1, <1>2, <1>3

LEMMA TypeStep == TypeInv /\ [Next]_vars => TypeInv'
<1> SUFFICES ASSUME TypeInv, [Next]_vars PROVE TypeInv'
  OBVIOUS
<1>1. CASE Requests \/ WebDies
  BY <1>1, RequestsKeepTypes
<1>2. CASE World
  BY <1>2, WorldKeepsTypes
<1>3. CASE Daemon \/ DaemonDies
  BY <1>3, ReportsKeepTypes, JobsKeepTypes, PollKeepsTypes DEF Daemon
<1>4. CASE UNCHANGED vars
  BY <1>4, StillShip, StillRow, StillCall, StillDaemon, StillHeld, StillNotice, StillWorld,
     StillEvent, StillFault DEF TypeInv, vars, web, outside
<1> QED  BY <1>1, <1>2, <1>3, <1>4 DEF Next

\* Every variable keeps its type, for any number of packages and threads.
THEOREM ShipmentTypeCorrect == Spec => []TypeOK
<1>1. TypeInv => TypeOK
  BY DEF TypeInv, TypeOK, ShipOK, RowOK, CallOK, DaemonOK, NoticeOK, WorldOK,
         EventOK, FaultOK, HeldOK, Call, Job, Steps, Works
<1> QED  BY <1>1, TypeInit, TypeStep, PTL DEF Spec

-----------------------------------------------------------------------------
(* DeliverAsReported is inductive together with TypeInv and what the       *)
(* re-enqueue loop has read: RequeueReported.                              *)

\* DeliverAsReported row by row, with the first delivery of a package spelled out.
NoEarlier(n) ==
  \A m \in Seqs : row[m].kind = "deliver" /\ row[m].pkg = row[n].pkg => n <= m

AsReported ==
  \A n \in Seqs : row[n].kind = "deliver" =>
    \E r \in reports :
      /\ r.pkg = row[n].pkg /\ r.truck = row[n].truck
      /\ NoEarlier(n) => r.dest = row[n].dest

DeliverInv == TypeInv /\ RequeueReported /\ AsReported

LEMMA AsReportedMeaning == AsReported <=> DeliverAsReported
  BY DEF AsReported, DeliverAsReported, NoEarlier, IsFirst, RowsOf, OfKind

\* No row is added and no report forgotten.
LEMMA SameRowsDeliver ==
  ASSUME AsReported, SameRows, reports \subseteq reports'
  PROVE  AsReported'
<1> SUFFICES ASSUME NEW n \in Seqs, row'[n].kind = "deliver"
             PROVE  \E r \in reports' :
                      /\ r.pkg = row'[n].pkg /\ r.truck = row'[n].truck
                      /\ NoEarlier(n)' => r.dest = row'[n].dest
  BY DEF AsReported
<1>1. PICK r \in reports :
        /\ r.pkg = row[n].pkg /\ r.truck = row[n].truck
        /\ NoEarlier(n) => r.dest = row[n].dest
  BY DEF AsReported, SameRows
<1>2. NoEarlier(n)' => NoEarlier(n)
  BY DEF NoEarlier, SameRows
<1> QED  BY <1>1, <1>2 DEF SameRows

\* A pickup row is added, or a delivery row for a reported truck: the first
\* one of its package with the reported address.
LEMMA NewRowDeliver ==
  ASSUME AsReported, RowOK, reports \subseteq reports',
         NEW q \in Seqs, NEW k \in {"pickup", "deliver"}, NEW p \in Packages,
         NEW t \in Trucks, NEW d \in Dests \cup {None}, InsertRow(q, k, p, t, d),
         row[q].kind = "absent",
         k = "deliver" =>
           \E r \in reports :
             /\ r.pkg = p /\ r.truck = t
             /\ \/ r.dest = d
                \/ \E n \in Seqs : row[n].kind = "deliver" /\ row[n].pkg = p /\ n < q
  PROVE  AsReported'
<1>1. /\ \A n \in Seqs : row[n].kind # "absent" => row'[n] = row[n]
      /\ row'[q].kind = k /\ row'[q].pkg = p
      /\ row'[q].truck = t /\ row'[q].dest = d
      /\ \A n \in Seqs : n # q => row'[n] = row[n]
  BY DEF InsertRow, RowOK
<1> SUFFICES ASSUME NEW n \in Seqs, row'[n].kind = "deliver"
             PROVE  \E r \in reports' :
                      /\ r.pkg = row'[n].pkg /\ r.truck = row'[n].truck
                      /\ NoEarlier(n)' => r.dest = row'[n].dest
  BY DEF AsReported
<1>2. CASE n = q
  <2>1. PICK r \in reports :
          /\ r.pkg = p /\ r.truck = t
          /\ \/ r.dest = d
             \/ \E m \in Seqs : row[m].kind = "deliver" /\ row[m].pkg = p /\ m < q
    BY <1>1, <1>2
  <2>2. ASSUME NEW m \in Seqs, row[m].kind = "deliver", row[m].pkg = p, m < q,
               NoEarlier(n)'
        PROVE  FALSE
    <3>1. row'[m] = row[m]
      BY <1>1, <2>2
    <3>2. n <= m
      BY <1>1, <1>2, <2>2, <3>1 DEF NoEarlier
    <3> QED  BY <1>2, <2>2, <3>2 DEF Seqs
  <2> QED  BY <1>1, <1>2, <2>1, <2>2
<1>3. CASE n # q
  <2>1. row'[n] = row[n]
    BY <1>1, <1>3
  <2>2. PICK r \in reports :
          /\ r.pkg = row[n].pkg /\ r.truck = row[n].truck
          /\ NoEarlier(n) => r.dest = row[n].dest
    BY <2>1 DEF AsReported
  <2>3. NoEarlier(n)' => NoEarlier(n)
    BY <1>1, <2>1 DEF NoEarlier
  <2> QED  BY <2>1, <2>2, <2>3
<1> QED  BY <1>2, <1>3

\* What was read stays true: delivery rows stay what they are.
LEMMA StillRequeue ==
  ASSUME RequeueReported, UNCHANGED daemon \/ daemon'.step \notin {"requeue", "reinsert"},
         \A n \in Seqs : row[n].kind # "absent" =>
           /\ row'[n].kind = row[n].kind /\ row'[n].pkg = row[n].pkg
           /\ row'[n].truck = row[n].truck
  PROVE  RequeueReported'
  BY DEF RequeueReported, OfKind

LEMMA SameDeliverInv ==
  ASSUME DeliverInv, SameRows, reports \subseteq reports',
         UNCHANGED daemon \/ daemon'.step \notin {"requeue", "reinsert"}
  PROVE  RequeueReported' /\ AsReported'
<1>1. AsReported'
  BY SameRowsDeliver DEF DeliverInv
<1>2. RequeueReported'
  BY StillRequeue DEF DeliverInv, SameRows
<1> QED  BY <1>1, <1>2

LEMMA UnchangedSame == RowOK /\ UNCHANGED <<row, next>> => SameRows
  BY DEF RowOK, SameRows

LEMMA DeliverInit == Init => DeliverInv
<1> SUFFICES ASSUME Init PROVE RequeueReported /\ AsReported
  BY TypeInit DEF DeliverInv
<1>1. daemon.step = "idle"
  BY DEF Init, Resting
<1>2. \A n \in Seqs : row[n].kind # "deliver"
  BY DEF Init, Absent
<1> QED  BY <1>1, <1>2 DEF RequeueReported, AsReported

LEMMA DeliverRequests ==
  ASSUME DeliverInv, Requests \/ WebDies
  PROVE  RequeueReported' /\ AsReported'
<1> USE DEF DeliverInv
<1>0. TypeInv /\ RowOK /\ CallOK /\ HeldOK
  BY DEF TypeInv
<1>1. ASSUME NEW p \in Packages, NEW t \in Trucks, NEW d \in Dests, Pickup(p, t, d)
      PROVE  RequeueReported' /\ AsReported'
  <2>1. InsertRow(next, "pickup", p, t, None) /\ UNCHANGED <<daemon, reports>>
    BY <1>1 DEF Pickup
  <2>4. next \in Seqs /\ row[next].kind = "absent"
    BY <1>0, <1>1, TakeKeeps DEF Pickup
  <2>2. AsReported'
    BY <1>0, <2>1, <2>4, NewRowDeliver
  <2>3. \A n \in Seqs : row[n].kind # "absent" => row'[n] = row[n]
    BY <1>0, <2>1, <2>4 DEF InsertRow, RowOK
  <2> QED  BY <2>1, <2>2, <2>3, StillRequeue
<1>2. ASSUME NEW c \in Threads, QueueDelivery(c)
      PROVE  RequeueReported' /\ AsReported'
  <2> DEFINE p == call[c].pkg
             r == [pkg |-> p, truck |-> call[c].truck, dest |-> call[c].dest]
  <2>1. /\ InsertRow(call[c].seq, "deliver", p, call[c].truck, call[c].dest)
        /\ UNCHANGED <<daemon, reports>>
    BY <1>2 DEF QueueDelivery
  <2>2. p \in Packages /\ call[c].truck \in Trucks /\ call[c].dest \in Dests
        /\ r \in reports
    BY <1>0, <1>2, HolderKeeps DEF QueueDelivery
  <2>3. call[c].seq \in Seqs /\ row[call[c].seq].kind = "absent"
    <3>1. call[c].seq \in Taken
      BY <1>0, <1>2 DEF QueueDelivery, HeldOK
    <3> QED  BY <1>0, <3>1, TakenIsFree
  <2>5. \E x \in reports :
          x.pkg = p /\ x.truck = call[c].truck /\ x.dest = call[c].dest
    BY <2>2
  <2> HIDE DEF p, r
  <2>6. AsReported'
    BY <1>0, <2>1, <2>2, <2>3, <2>5, NewRowDeliver
  <2>7. \A n \in Seqs : row[n].kind # "absent" => row'[n] = row[n]
    BY <1>0, <2>1, <2>3 DEF InsertRow, RowOK
  <2> QED  BY <2>1, <2>6, <2>7, StillRequeue
<1>7. ASSUME NEW c \in Threads, TakeDeliveryNumber(c)
      PROVE  RequeueReported' /\ AsReported'
  BY <1>7 DEF TakeDeliveryNumber, RequeueReported, AsReported, NoEarlier, OfKind
<1>3. ASSUME UNCHANGED <<row, next, daemon>>, reports \subseteq reports'
      PROVE  RequeueReported' /\ AsReported'
  BY <1>0, <1>3, UnchangedSame, SameDeliverInv
<1>4. CASE WebDies
  BY <1>3, <1>4 DEF WebDies
<1>5. ASSUME NEW p \in Packages, NEW t \in Trucks \cup {None}, NEW d \in Dests,
             Register(p, t, d)
      PROVE  RequeueReported' /\ AsReported'
  BY <1>3, <1>5 DEF Register
<1>6. ASSUME NEW c \in Threads,
             \/ \E p \in Packages, d \in Dests :
                  Redirect(c, p, d) \/ \E t \in Trucks : ReportLoaded(c, p, t, d)
             \/ SaveAssignment(c) \/ MarkLoaded(c) \/ MarkOut(c) \/ SaveRedirect(c)
      PROVE  RequeueReported' /\ AsReported'
  BY <1>3, <1>6
     DEF Redirect, ReportLoaded, SaveAssignment, MarkLoaded, MarkOut, SaveRedirect
<1> QED  BY <1>1, <1>2, <1>4, <1>5, <1>6, <1>7 DEF Requests

LEMMA DeliverOutside ==
  ASSUME DeliverInv, World \/ Daemon \/ DaemonDies
  PROVE  RequeueReported' /\ AsReported'
<1> USE DEF DeliverInv
<1>0. TypeInv /\ RowOK /\ DaemonOK /\ HeldOK
  BY DEF TypeInv
<1>1. ASSUME NEW n \in Seqs, Accept(n) \/ Reject(n)
      PROVE  RequeueReported' /\ AsReported'
  <2>1. SameRows
    BY <1>0, <1>1, SettleSame DEF Accept, Reject
  <2> QED  BY <1>1, <2>1, SameDeliverInv DEF Accept, Reject
<1>2. ASSUME UNCHANGED <<row, next, reports>>,
             UNCHANGED daemon \/ daemon'.step \notin {"requeue", "reinsert"}
      PROVE  RequeueReported' /\ AsReported'
  BY <1>0, <1>2, UnchangedSame, SameDeliverInv
<1>3. ASSUME NEW n \in Seqs, WorldReaches(n) \/ WorldDelivers(n)
      PROVE  RequeueReported' /\ AsReported'
  BY <1>2, <1>3 DEF WorldReaches, WorldDelivers, web
<1>4. ASSUME NEW m \in notices, NEW n \in Seqs, HandleCompletion(m, n)
      PROVE  RequeueReported' /\ AsReported'
  <2>2. SameRows
    BY <1>0, <1>4, CompleteSame DEF HandleCompletion
  <2>3. daemon'.step \notin {"requeue", "reinsert"}
    BY <1>4 DEF HandleCompletion, EndReport, Work, Resting
  <2> QED  BY <1>4, <2>2, <2>3, SameDeliverInv DEF HandleCompletion
<1>5. ASSUME NEW m \in notices, HandleDelivered(m)
      PROVE  RequeueReported' /\ AsReported'
  BY <1>2, <1>5 DEF HandleDelivered, Work
<1>6. ASSUME NEW t \in Trucks, NEW n \in Seqs, HandleTruckStatus(t, n)
      PROVE  RequeueReported' /\ AsReported'
  <2>1. SameRows
    BY <1>0, <1>6, CompleteSame DEF HandleTruckStatus
  <2>2. daemon'.step \notin {"requeue", "reinsert"}
    BY <1>6 DEF HandleTruckStatus, Work
  <2> QED  BY <1>6, <2>1, <2>2, SameDeliverInv DEF HandleTruckStatus
<1>7. CASE MarkWaiting
  <2>1. daemon'.step \notin {"requeue", "reinsert"}
    BY <1>0, <1>7 DEF MarkWaiting, DaemonOK, Job
  <2> QED  BY <1>2, <1>7, <2>1 DEF MarkWaiting
<1>8. CASE TellArrival
  BY <1>2, <1>8 DEF TellArrival, EndReport, Resting, web
<1>9. CASE TellDelivered
  <2>1. daemon'.step \notin {"requeue", "reinsert"}
    BY <1>0, <1>9 DEF TellDelivered, DaemonOK, Job
  <2> QED  BY <1>2, <1>9, <2>1 DEF TellDelivered, web
<1>10. CASE CloseDeliveries
  <2>1. SameRows
    BY <1>0, <1>10, CloseSame
  <2>2. daemon'.step \notin {"requeue", "reinsert"}
    BY <1>10 DEF CloseDeliveries, EndReport, Resting
  <2> QED  BY <1>10, <2>1, <2>2, SameDeliverInv DEF CloseDeliveries
<1>11. ASSUME NEW p \in Packages, RetryCallback(p)
       PROVE  RequeueReported' /\ AsReported'
  BY <1>2, <1>11 DEF RetryCallback, Work, web
<1>12. ASSUME NEW n \in Seqs, FindQuietDelivery(n)
       PROVE  RequeueReported' /\ AsReported'
  <2>1. AsReported'
    BY <1>0, <1>12, UnchangedSame, SameRowsDeliver DEF FindQuietDelivery, web
  <2>2. n \in OfKind("deliver") /\ UNCHANGED row
        /\ daemon'.pkg = row[n].pkg /\ daemon'.truck = row[n].truck
        /\ daemon'.step = "requeue"
    BY <1>12 DEF FindQuietDelivery, web, Work
  <2> QED  BY <2>1, <2>2 DEF RequeueReported, OfKind
<1>13. CASE RequeueDelivery
  <2>1. daemon'.step \notin {"requeue", "reinsert"} /\ daemon.step = "reinsert"
        /\ UNCHANGED reports
    BY <1>13 DEF RequeueDelivery, Resting
  <2>2. RequeueReported'
    BY <2>1 DEF RequeueReported
  <2>3. /\ daemon.pkg \in Packages /\ daemon.truck \in Trucks
        /\ daemon.dest \in Dests \cup {None}
    BY <1>0, <2>1, DaemonHas DEF Driving
  <2>4. daemon.seq \in Seqs /\ row[daemon.seq].kind = "absent"
    <3>1. daemon.seq \in Taken
      BY <1>0, <2>1 DEF HeldOK
    <3> QED  BY <1>0, <3>1, TakenIsFree
  <2>5. PICK n \in OfKind("deliver") :
          row[n].pkg = daemon.pkg /\ row[n].truck = daemon.truck /\ n < daemon.seq
    BY <2>1 DEF RequeueReported
  <2>6. n \in Seqs /\ row[n].kind = "deliver" /\ row[n].pkg = daemon.pkg
    BY <2>5 DEF OfKind
  <2>7. \E r \in reports : r.pkg = daemon.pkg /\ r.truck = daemon.truck
    BY <2>5, <2>6 DEF AsReported
  <2>8. InsertRow(daemon.seq, "deliver", daemon.pkg, daemon.truck, daemon.dest)
    BY <1>13 DEF RequeueDelivery
  <2>9. AsReported'
    BY <1>0, <2>1, <2>3, <2>4, <2>5, <2>6, <2>7, <2>8, NewRowDeliver
  <2> QED  BY <2>2, <2>9
<1>15. CASE TakeRequeueNumber
  <2>1. PICK n \in OfKind("deliver") : row[n].pkg = daemon.pkg /\ row[n].truck = daemon.truck
    BY <1>15 DEF TakeRequeueNumber, RequeueReported
  <2>2. n \in Seqs /\ n < next
    BY <1>0, <2>1 DEF OfKind, RowOK
  <2>3. daemon'.pkg = daemon.pkg /\ daemon'.truck = daemon.truck /\ daemon'.seq = next
    BY <1>0, <1>15 DEF TakeRequeueNumber, DaemonOK, Job
  <2>4. RequeueReported'
    BY <1>15, <2>1, <2>2, <2>3 DEF TakeRequeueNumber, RequeueReported, OfKind
  <2>5. AsReported'
    BY <1>15 DEF TakeRequeueNumber, AsReported, NoEarlier
  <2> QED  BY <2>4, <2>5
<1>16. ASSUME NEW m \in notices, CompletionOfNothing(m)
       PROVE  RequeueReported' /\ AsReported'
  BY <1>2, <1>16 DEF CompletionOfNothing, EndReport, Resting, web
<1>14. CASE DaemonDies
  BY <1>2, <1>14 DEF DaemonDies, Resting, web
<1> QED  BY <1>1, <1>3, <1>4, <1>5, <1>6, <1>7, <1>8, <1>9, <1>10, <1>11, <1>12,
            <1>13, <1>14, <1>15, <1>16 DEF World, Daemon

LEMMA DeliverStep == DeliverInv /\ [Next]_vars => DeliverInv'
<1> SUFFICES ASSUME DeliverInv, [Next]_vars PROVE DeliverInv'
  OBVIOUS
<1>1. TypeInv'
  BY TypeStep DEF DeliverInv
<1>2. CASE Next
  BY <1>1, <1>2, DeliverRequests, DeliverOutside DEF Next, DeliverInv
<1>3. CASE UNCHANGED vars
  <2>1. SameRows /\ UNCHANGED <<daemon, reports>>
    BY <1>3, UnchangedSame DEF vars, DeliverInv, TypeInv
  <2> QED  BY <1>1, <2>1, SameDeliverInv DEF DeliverInv
<1> QED  BY <1>2, <1>3

\* UPS queues a delivery only for a truck Amazon reported the package on, and
\* the first one goes to the reported address.
THEOREM DeliverAsReportedHolds == Spec => []DeliverAsReported
<1>1. DeliverInv => DeliverAsReported
  BY AsReportedMeaning DEF DeliverInv
<1> QED  BY <1>1, DeliverStep, DeliverInit, PTL DEF Spec

-----------------------------------------------------------------------------
(* DeliveredIsClosed is inductive with what the daemon works on: a job about a *)
(* delivery is for the package of that delivery, and only such a job            *)
(* acknowledges the report of one.                                              *)

ReportOfJob ==
  /\ daemon.step \in {"waiting", "telling"} =>
       daemon.notice = None \/ daemon.notice.kind = "completion"
  /\ daemon.step \in {"bringing", "closing"} =>
       /\ daemon.notice \in Notice /\ row[daemon.notice.seq].kind # "absent"
       /\ daemon.pkg = row[daemon.notice.seq].pkg
  /\ \A n \in reached : row[n].kind # "absent"

ClosedInv == TypeInv /\ ReportOfJob /\ DeliveredIsClosed

\* Rows keep what they are, and stay completed.
Lasting ==
  \A n \in Seqs : row[n].kind # "absent" =>
    /\ row'[n].kind = row[n].kind /\ row'[n].pkg = row[n].pkg
    /\ row[n].completed => row'[n].completed

\* Steps that take no report of a delivery away.
LEMMA StillClosed ==
  ASSUME ClosedInv, Lasting, UNCHANGED reached,
         \A m \in notices : m.kind = "delivered" => m \in notices'
  PROVE  DeliveredIsClosed'
<1> SUFFICES ASSUME NEW n \in Seqs, row'[n].kind = "deliver", n \in reached
             PROVE  row'[n].completed \/ [kind |-> "delivered", seq |-> n] \in notices'
  BY DEF DeliveredIsClosed, OfKind
<1>1. row[n].kind = "deliver"
  BY DEF ClosedInv, ReportOfJob, Lasting
<1>2. row[n].completed \/ [kind |-> "delivered", seq |-> n] \in notices
  BY <1>1 DEF ClosedInv, DeliveredIsClosed, OfKind
<1> QED  BY <1>1, <1>2 DEF Lasting

\* Steps that leave the daemon's job alone, or end it, or start one of another kind.
LEMMA StillJob ==
  ASSUME ClosedInv, Lasting, UNCHANGED reached,
         \/ UNCHANGED daemon
         \/ daemon'.step \notin {"waiting", "telling", "bringing", "closing"}
         \/ daemon'.step \in {"waiting", "telling"} /\
              (daemon'.notice = None \/ daemon'.notice.kind = "completion")
  PROVE  ReportOfJob'
<1>1. \A n \in reached' : row'[n].kind # "absent"
  BY DEF ClosedInv, TypeInv, WorldOK, ReportOfJob, Lasting
<1>2. CASE UNCHANGED daemon
  <2>1. ASSUME daemon.step \in {"bringing", "closing"}
        PROVE  /\ daemon.notice \in Notice /\ row'[daemon.notice.seq].kind # "absent"
               /\ daemon.pkg = row'[daemon.notice.seq].pkg
    <3>1. /\ daemon.notice \in Notice /\ daemon.pkg = row[daemon.notice.seq].pkg
          /\ row[daemon.notice.seq].kind # "absent"
      BY <2>1 DEF ClosedInv, ReportOfJob
    <3>2. daemon.notice.seq \in Seqs
      BY <3>1 DEF Notice
    <3> QED  BY <3>1, <3>2 DEF Lasting
  <2> QED  BY <1>1, <1>2, <2>1 DEF ClosedInv, ReportOfJob
<1>3. CASE ~UNCHANGED daemon
  BY <1>1, <1>3 DEF ReportOfJob
<1> QED  BY <1>2, <1>3

LEMMA ClosedInit == Init => ClosedInv
<1> SUFFICES ASSUME Init PROVE ReportOfJob /\ DeliveredIsClosed
  BY TypeInit DEF ClosedInv
<1>1. daemon.step = "idle" /\ reached = {}
  BY DEF Init, Resting
<1> QED  BY <1>1 DEF ReportOfJob, DeliveredIsClosed

\* A row that is inserted where none was.
LEMMA InsertLasts ==
  ASSUME RowOK, NEW q \in Seqs, NEW k, NEW p, NEW t, NEW d, InsertRow(q, k, p, t, d),
         row[q].kind = "absent"
  PROVE  Lasting
  BY DEF Lasting, InsertRow, RowOK

LEMMA ProgressLasts ==
  ASSUME RowOK, NEW n \in Seqs,
         \/ \E s \in {"open", "acked", "failed"} : row' = [row EXCEPT ![n].state = s]
         \/ row' = [row EXCEPT ![n].completed = TRUE]
  PROVE  Lasting
<1>1. ASSUME NEW m \in Seqs
      PROVE  /\ row'[m].kind = row[m].kind /\ row'[m].pkg = row[m].pkg
             /\ row[m].completed => row'[m].completed
  <2>1. row[m] \in Row
    BY DEF RowOK
  <2>2. CASE m = n
    BY <2>1, <2>2 DEF RowOK, Row
  <2>3. CASE m # n
    BY <2>3 DEF RowOK
  <2> QED  BY <2>2, <2>3
<1> QED  BY <1>1 DEF Lasting

LEMMA ClosedRequests ==
  ASSUME ClosedInv, Requests \/ WebDies
  PROVE  ReportOfJob' /\ DeliveredIsClosed'
<1>0. TypeInv /\ RowOK /\ HeldOK
  BY DEF ClosedInv, TypeInv
<1>1. UNCHANGED <<daemon, notices, reached>>
  BY RequestFrames
<1>2. Lasting
  <2>1. ASSUME NEW p \in Packages, NEW t \in Trucks, NEW d \in Dests, Pickup(p, t, d)
        PROVE  Lasting
    BY <1>0, <2>1, TakeKeeps, InsertLasts DEF Pickup
  <2>2. ASSUME NEW c \in Threads, QueueDelivery(c) PROVE Lasting
    <3>1. call[c].seq \in Taken
      BY <1>0, <2>2 DEF QueueDelivery, HeldOK
    <3> QED  BY <1>0, <2>2, <3>1, TakenIsFree, InsertLasts DEF QueueDelivery
  <2>3. ASSUME UNCHANGED row PROVE Lasting
    BY <2>3 DEF Lasting
  <2>4. ASSUME NEW p \in Packages, NEW d \in Dests, NEW t, Register(p, t, d)
        PROVE  Lasting
    BY <2>3, <2>4 DEF Register
  <2>5. ASSUME NEW c \in Threads, NEW p \in Packages, NEW d \in Dests, NEW t,
               Redirect(c, p, d) \/ ReportLoaded(c, p, t, d)
        PROVE  Lasting
    BY <2>3, <2>5 DEF Redirect, ReportLoaded
  <2>6. ASSUME NEW c \in Threads,
               \/ SaveAssignment(c) \/ MarkLoaded(c) \/ TakeDeliveryNumber(c)
               \/ MarkOut(c) \/ SaveRedirect(c)
        PROVE  Lasting
    BY <2>3, <2>6 DEF SaveAssignment, MarkLoaded, TakeDeliveryNumber, MarkOut, SaveRedirect
  <2>7. WebDies => Lasting
    BY <2>3 DEF WebDies
  <2> HIDE DEF Lasting
  <2> QED  BY <2>1, <2>2, <2>4, <2>5, <2>6, <2>7 DEF Requests
<1> QED  BY <1>1, <1>2, StillClosed, StillJob

LEMMA ClosedWorld ==
  ASSUME ClosedInv, World
  PROVE  ReportOfJob' /\ DeliveredIsClosed'
<1> SUFFICES ASSUME NEW n \in Seqs,
                    Accept(n) \/ Reject(n) \/ WorldReaches(n) \/ WorldDelivers(n)
             PROVE  ReportOfJob' /\ DeliveredIsClosed'
  BY DEF World
<1>0. TypeInv /\ RowOK
  BY DEF ClosedInv, TypeInv
<1>1. CASE Accept(n) \/ Reject(n)
  <2>1. Lasting /\ UNCHANGED <<daemon, notices, reached>>
    BY <1>0, <1>1, ProgressLasts DEF Accept, Reject, outside
  <2> QED  BY <2>1, StillClosed, StillJob
<1>2. CASE WorldReaches(n) \/ WorldDelivers(n)
  <2>1. /\ UNCHANGED <<row, daemon>> /\ reached' = reached \cup {n}
        /\ notices \subseteq notices' /\ row[n].kind # "absent"
        /\ row[n].kind = "deliver" => [kind |-> "delivered", seq |-> n] \in notices'
    BY <1>2 DEF WorldReaches, WorldDelivers, web, OfKind
  <2>2. ReportOfJob'
    BY <2>1 DEF ClosedInv, ReportOfJob
  <2>3. DeliveredIsClosed'
    BY <2>1 DEF ClosedInv, DeliveredIsClosed, OfKind
  <2> QED  BY <2>2, <2>3
<1> QED  BY <1>1, <1>2

LEMMA ClosedDaemon ==
  ASSUME ClosedInv, Daemon \/ DaemonDies
  PROVE  ReportOfJob' /\ DeliveredIsClosed'
<1>0. TypeInv /\ RowOK /\ HeldOK /\ DaemonOK /\ NoticeOK
  BY DEF ClosedInv, TypeInv
<1>1. ASSUME UNCHANGED <<row, reached, notices>>,
             daemon'.step \notin {"waiting", "telling", "bringing", "closing"}
      PROVE  ReportOfJob' /\ DeliveredIsClosed'
  BY <1>1, StillClosed, StillJob DEF Lasting
<1>2. ASSUME NEW m \in notices, NEW n \in Seqs, HandleCompletion(m, n)
      PROVE  ReportOfJob' /\ DeliveredIsClosed'
  <2>1. Lasting /\ UNCHANGED reached /\ m.kind = "completion"
    BY <1>0, <1>2, ProgressLasts DEF HandleCompletion
  <2>2. notices \ {m} \subseteq notices'
    BY <1>2 DEF HandleCompletion, EndReport
  <2>3. \/ daemon'.step = "idle"
        \/ daemon'.step = "waiting" /\ daemon'.notice = m
    BY <1>2 DEF HandleCompletion, EndReport, Resting, Work
  <2> QED  BY <2>1, <2>2, <2>3, StillClosed, StillJob
<1>3. ASSUME NEW m \in notices, CompletionOfNothing(m)
      PROVE  ReportOfJob' /\ DeliveredIsClosed'
  <2>1. Lasting /\ UNCHANGED reached /\ m.kind = "completion" /\ notices \ {m} \subseteq notices'
        /\ daemon'.step = "idle"
    BY <1>3 DEF CompletionOfNothing, Lasting, EndReport, Resting, web
  <2> QED  BY <2>1, StillClosed, StillJob
<1>4. ASSUME NEW m \in notices, HandleDelivered(m)
      PROVE  ReportOfJob' /\ DeliveredIsClosed'
  <2>1. Lasting /\ UNCHANGED <<row, reached, notices>>
    BY <1>4 DEF HandleDelivered, Lasting, outside
  <2>2. m \in Notice /\ row[m.seq].kind # "absent"
    BY <1>0 DEF NoticeOK
  <2>3. daemon'.step \in {"bringing", "closing"} /\ daemon'.notice = m
        /\ daemon'.pkg = row[m.seq].pkg
    BY <1>4 DEF HandleDelivered, Work
  <2>4. ReportOfJob'
    BY <2>1, <2>2, <2>3 DEF ClosedInv, ReportOfJob
  <2> QED  BY <2>1, <2>4, StillClosed
<1>5. ASSUME NEW t \in Trucks, NEW n \in Seqs, HandleTruckStatus(t, n)
      PROVE  ReportOfJob' /\ DeliveredIsClosed'
  <2>1. Lasting /\ UNCHANGED <<reached, notices>>
    BY <1>0, <1>5, ProgressLasts DEF HandleTruckStatus, outside
  <2>2. daemon'.step = "waiting" /\ daemon'.notice = None
    BY <1>5 DEF HandleTruckStatus, Work
  <2> QED  BY <2>1, <2>2, StillClosed, StillJob
<1>6. CASE MarkWaiting
  <2>1. Lasting /\ UNCHANGED <<reached, notices>>
    BY <1>6 DEF MarkWaiting, outside, Lasting
  <2>2. daemon'.step = "telling" /\ daemon'.notice = daemon.notice
    BY <1>0, <1>6 DEF MarkWaiting, DaemonOK, Job
  <2>3. daemon.notice = None \/ daemon.notice.kind = "completion"
    BY <1>6 DEF MarkWaiting, ClosedInv, ReportOfJob
  <2> QED  BY <2>1, <2>2, <2>3, StillClosed, StillJob
<1>7. CASE TellArrival
  <2>1. Lasting /\ UNCHANGED reached /\ daemon'.step = "idle"
        /\ notices \ {daemon.notice} \subseteq notices'
    BY <1>7 DEF TellArrival, EndReport, Resting, web, Lasting
  <2>2. daemon.notice = None \/ daemon.notice.kind = "completion"
    BY <1>7 DEF TellArrival, ClosedInv, ReportOfJob
  <2>3. None \notin notices
    BY <1>0, UpsShipmentsAssumption DEF NoticeOK, Notice, Seqs
  <2> QED  BY <2>1, <2>2, <2>3, StillClosed, StillJob
<1>8. CASE TellDelivered
  <2>1. Lasting /\ UNCHANGED <<row, reached, notices>>
    BY <1>8 DEF TellDelivered, web, outside, Lasting
  <2>2. daemon'.step = "closing" /\ daemon'.notice = daemon.notice
        /\ daemon'.pkg = daemon.pkg /\ daemon.step = "bringing"
    BY <1>0, <1>8 DEF TellDelivered, DaemonOK, Job
  <2>3. ReportOfJob'
    BY <2>1, <2>2 DEF ClosedInv, ReportOfJob
  <2> QED  BY <2>1, <2>3, StillClosed
<1>9. CASE CloseDeliveries
  <2>1. /\ daemon.notice \in Notice /\ daemon.pkg = row[daemon.notice.seq].pkg
        /\ daemon'.step = "idle" /\ UNCHANGED reached
        /\ notices \ {daemon.notice} \subseteq notices'
    BY <1>9 DEF CloseDeliveries, ClosedInv, ReportOfJob, EndReport, Resting
  <2>2. ASSUME NEW n \in Seqs
        PROVE  /\ row'[n].kind = row[n].kind /\ row'[n].pkg = row[n].pkg
               /\ row[n].completed => row'[n].completed
               /\ row[n].kind = "deliver" /\ row[n].pkg = daemon.pkg => row'[n].completed
    <3>1. row[n] \in Row
      BY <1>0 DEF RowOK
    <3>2. CASE n \in RowsOf("deliver", daemon.pkg)
      <4>1. row'[n] = [row[n] EXCEPT !.completed = TRUE]
        BY <1>9, <3>2 DEF CloseDeliveries
      <4> QED  BY <3>1, <4>1 DEF Row
    <3>3. CASE n \notin RowsOf("deliver", daemon.pkg)
      BY <1>9, <3>3 DEF CloseDeliveries, RowsOf, OfKind
    <3> QED  BY <3>2, <3>3
  <2>3. Lasting
    BY <2>2 DEF Lasting
  <2>4. ReportOfJob'
    BY <2>1, <2>3, StillJob
  <2>5. ASSUME NEW n \in Seqs, row'[n].kind = "deliver", n \in reached
        PROVE  row'[n].completed \/ [kind |-> "delivered", seq |-> n] \in notices'
    <3> DEFINE m == [kind |-> "delivered", seq |-> n]
    <3>1. row[n].completed \/ m \in notices
      BY <2>2, <2>5 DEF ClosedInv, DeliveredIsClosed, OfKind
    <3>2. CASE m = daemon.notice
      <4>1. daemon.notice.seq = n
        BY <3>2
      <4> QED  BY <2>1, <2>2, <2>5, <4>1
    <3>3. CASE m # daemon.notice
      BY <2>1, <2>2, <3>1, <3>3
    <3> QED  BY <3>2, <3>3
  <2>6. DeliveredIsClosed'
    BY <2>1, <2>5 DEF DeliveredIsClosed, OfKind
  <2> QED  BY <2>4, <2>6
<1>10. ASSUME NEW p \in Packages, RetryCallback(p)
       PROVE  ReportOfJob' /\ DeliveredIsClosed'
  <2>1. Lasting /\ UNCHANGED <<reached, notices>>
    BY <1>10 DEF RetryCallback, web, outside, Lasting
  <2>2. daemon'.step = "telling" /\ daemon'.notice = None
    BY <1>10 DEF RetryCallback, Work
  <2> QED  BY <2>1, <2>2, StillClosed, StillJob
<1>11. ASSUME NEW n \in Seqs, FindQuietDelivery(n)
       PROVE  ReportOfJob' /\ DeliveredIsClosed'
  BY <1>1, <1>11 DEF FindQuietDelivery, Work, web, outside
<1>12. CASE TakeRequeueNumber
  <2>1. daemon'.step = "reinsert"
    BY <1>0, <1>12 DEF TakeRequeueNumber, DaemonOK, Job
  <2> QED  BY <1>1, <1>12, <2>1 DEF TakeRequeueNumber, outside
<1>13. CASE RequeueDelivery
  <2>1. daemon.seq \in Taken
    BY <1>0, <1>13 DEF RequeueDelivery, HeldOK
  <2>2. Lasting
    BY <1>0, <1>13, <2>1, TakenIsFree, InsertLasts DEF RequeueDelivery
  <2>3. UNCHANGED <<reached, notices>> /\ daemon'.step = "idle"
    BY <1>13 DEF RequeueDelivery, outside, Resting
  <2> QED  BY <2>2, <2>3, StillClosed, StillJob
<1>14. CASE DaemonDies
  BY <1>1, <1>14 DEF DaemonDies, Resting, web
<1> QED  BY <1>2, <1>3, <1>4, <1>5, <1>6, <1>7, <1>8, <1>9, <1>10, <1>11, <1>12,
            <1>13, <1>14 DEF Daemon

LEMMA ClosedStep == ClosedInv /\ [Next]_vars => ClosedInv'
<1> SUFFICES ASSUME ClosedInv, [Next]_vars PROVE ClosedInv'
  OBVIOUS
<1>1. TypeInv'
  BY TypeStep DEF ClosedInv
<1>2. CASE Next
  BY <1>1, <1>2, ClosedRequests, ClosedWorld, ClosedDaemon DEF Next, ClosedInv
<1>3. CASE UNCHANGED vars
  <2>1. Lasting /\ UNCHANGED <<reached, daemon, notices>>
    BY <1>3 DEF vars, Lasting
  <2> QED  BY <1>1, <2>1, StillClosed, StillJob DEF ClosedInv
<1> QED  BY <1>2, <1>3

\* What the world has brought is closed or still to be reported, wherever the
\* daemon dies between saving DELIVERED and closing the rows.
THEOREM DeliveredIsClosedHolds == Spec => []DeliveredIsClosed
<1>1. ClosedInv => DeliveredIsClosed
  BY DEF ClosedInv
<1> QED  BY <1>1, ClosedStep, ClosedInit, PTL DEF Spec
=============================================================================
