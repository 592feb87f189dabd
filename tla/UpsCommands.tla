---------------------------- MODULE UpsCommands ----------------------------
(***************************************************************************)
(* The world-command table of the UPS application and the daemon that      *)
(* drains it (ups/management/commands/run_world_daemon.py, the command     *)
(* half of ups/world/client.py, the queueing half of ups/services.py).     *)
(*                                                                         *)
(* Web requests insert rows, and so does the daemon; outside POST /pickup  *)
(* the number is taken in one commit and the row inserted in another.  The *)
(* daemon polls: it queries trucks whose pickup is acknowledged,           *)
(* re-enqueues deliveries that went quiet, sweeps stale SENT rows, sends a *)
(* FIFO batch, then applies what the world answers.  It may die between    *)
(* any two of its database or socket operations.  The world is external:   *)
(* it may answer any command it received, in any order, more than once, or *)
(* never, and numbers its reports itself.  What becomes of the shipments   *)
(* is the subject of UpsShipments.                                         *)
(***************************************************************************)
EXTENDS Integers, FiniteSets

CONSTANTS
  Shipments,    \* packages known to UPS
  Trucks,       \* trucks of the world session
  Malformed,    \* shipments whose rows cannot be encoded (edited in the admin)
  Threads,      \* threads of the web server that serve /package-loaded
  None,         \* no shipment, no truck
  MaxRetries,   \* settings.UPS_WORLD_COMMAND_MAX_RETRIES
  BatchSize,    \* rows sent per poll (20 in the code)
  MaxSeq,       \* bound: sequence numbers issued
  MaxCrashes,   \* bound: deaths of the daemon process
  MaxErrors     \* bound: failures recorded per row

ASSUME UpsCommandsAssumption ==
  /\ MaxRetries \in Nat /\ BatchSize \in Nat \ {0}
  /\ MaxSeq \in Nat /\ MaxCrashes \in Nat /\ MaxErrors \in Nat
  /\ Malformed \subseteq Shipments
  /\ None \notin Shipments /\ None \notin Trucks
  /\ "daemon" \notin Threads

VARIABLES
  cmd,          \* sequence number -> row of the world-command table
  next,         \* WorldSession.next_seq_num
  held,         \* by thread: the number taken for a row not yet inserted
  pc,           \* where the daemon is in its poll
  batch,        \* rows of the loaded batch still to be sent
  arrived,      \* external: commands the world has received
  crashes,      \* deaths of the daemon so far
  sends,        \* history: transmissions per command
  verdict       \* history: the world's last answer the daemon applied

vars == <<cmd, next, held, pc, batch, arrived, crashes, sends, verdict>>

Seqs == 1..MaxSeq
Kinds == {"pickup", "deliver", "query"}
Statuses == {"pending", "sent", "acked", "failed"}
Phases == {"sleep", "queries", "delivers", "stale", "dispatch", "marking",
           "receive", "down"}

Row == [kind : Kinds \cup {None}, shipment : Shipments \cup {None},
        truck : Trucks \cup {None}, status : Statuses \cup {"absent"},
        created : Nat, retries : Nat, completed : BOOLEAN]

\* A sequence number for which no row exists yet.
Absent == [kind |-> None, shipment |-> None, truck |-> None,
           status |-> "absent", created |-> 0, retries |-> 0,
           completed |-> FALSE]

\* Who inserts rows, and what they hold in between.
Holders == Threads \cup {"daemon"}
Nothing == [seq |-> 0, kind |-> None, shipment |-> None, truck |-> None]
Held == {Nothing} \cup [seq : Seqs, kind : Kinds, shipment : Shipments \cup {None},
                       truck : Trucks \cup {None}]

Init ==
  /\ cmd = [n \in Seqs |-> Absent]
  /\ next = 1
  /\ held = [h \in Holders |-> Nothing]
  /\ pc = "sleep"
  /\ batch = {}
  /\ arrived = {}
  /\ crashes = 0
  /\ sends = [n \in Seqs |-> 0]
  /\ verdict = [n \in Seqs |-> "none"]

-----------------------------------------------------------------------------
(* Queueing rows: services.next_sequence_number under its row lock, then   *)
(* the INSERT.                                                             *)

Rows == {n \in Seqs : cmd[n].status # "absent"}
With(status) == {n \in Seqs : cmd[n].status = status}
InFlight == With("pending") \cup With("sent")
OfKind(k) == {n \in Seqs : cmd[n].kind = k}

\* order_by("created_at")
IsFirst(n, S) == n \in S /\ \A m \in S : cmd[n].created <= cmd[m].created

\* A PENDING row, created after all that exist.
Insert(n, k, s, t) ==
  cmd' = [cmd EXCEPT ![n] =
    [kind |-> k, shipment |-> s, truck |-> t, status |-> "pending",
     created |-> Cardinality(Rows) + 1, retries |-> 0, completed |-> FALSE]]

\* Wrong on purpose: the incremented counter is not saved.
TakeNumberUnsaved(h, k, s, t) ==
  /\ held[h] = Nothing /\ next \in Seqs
  /\ next' = next
  /\ held' = [held EXCEPT ![h] =
       [seq |-> next, kind |-> k, shipment |-> s, truck |-> t]]

\* queue_world_command, first half: next_sequence_number commits the counter
\* and gives the lock back.
TakeNumber(h, k, s, t) ==
  /\ held[h] = Nothing /\ next \in Seqs
  /\ next' = next + 1
  /\ held' = [held EXCEPT ![h] =
       [seq |-> next, kind |-> k, shipment |-> s, truck |-> t]]

\* Second half: the INSERT, some time after; rows with later numbers may be
\* older.
InsertRow(h) ==
  /\ held[h] # Nothing
  /\ Insert(held[h].seq, held[h].kind, held[h].shipment, held[h].truck)
  /\ held' = [held EXCEPT ![h] = Nothing]
  /\ UNCHANGED <<next, pc, batch, arrived, crashes, sends, verdict>>

\* POST /pickup is one transaction: create_shipment_from_amazon queues a
\* pickup whether or not the package is already registered.
QueuePickup(s, t) ==
  /\ next \in Seqs /\ next' = next + 1
  /\ Insert(next, "pickup", s, t)
  /\ UNCHANGED <<held, pc, batch, arrived, crashes, sends, verdict>>

\* POST /package-loaded: the truck is the one assigned to the shipment, or
\* the one the call names if there is none.
QueueDelivery(h, s, t) ==
  /\ LET assigned == {cmd[n].truck : n \in {m \in OfKind("pickup") :
                                               cmd[m].shipment = s}}
     IN  assigned = {} \/ t \in assigned
  /\ TakeNumber(h, "deliver", s, t)
  /\ UNCHANGED <<cmd, pc, batch, arrived, crashes, sends, verdict>>

\* The web process dies: what its threads hold is lost, the numbers are not
\* given again.
WebDies ==
  /\ \E h \in Threads : held[h] # Nothing
  /\ held' = [h \in Holders |-> IF h \in Threads THEN Nothing ELSE held[h]]
  /\ UNCHANGED <<cmd, next, pc, batch, arrived, crashes, sends, verdict>>

-----------------------------------------------------------------------------
(* One poll of the daemon, _process_queue, in the order of the code.       *)

Goto(p) == pc' = p

StartPoll ==
  /\ pc = "sleep" /\ Goto("queries")
  /\ UNCHANGED <<cmd, next, held, batch, arrived, crashes, sends, verdict>>

\* Wrong on purpose: a query still waiting in the queue is overlooked.
UnqueriedUnlessSent ==
  {n \in OfKind("pickup") \cap With("acked") :
     /\ ~cmd[n].completed
     /\ ~\E q \in OfKind("query") \cap With("sent") : cmd[q].truck = cmd[n].truck}

\* Acknowledged, unfinished pickups whose truck has no query in flight.
Unqueried ==
  {n \in OfKind("pickup") \cap With("acked") :
     /\ ~cmd[n].completed
     /\ ~\E q \in OfKind("query") \cap InFlight : cmd[q].truck = cmd[n].truck}

EnqueueQuery(n) ==
  /\ pc = "queries" /\ IsFirst(n, Unqueried)
  /\ TakeNumber("daemon", "query", cmd[n].shipment, cmd[n].truck)
  /\ UNCHANGED <<cmd, pc, batch, arrived, crashes, sends, verdict>>

EndQueries ==
  /\ pc = "queries" /\ held["daemon"] = Nothing
  /\ Unqueried = {} \/ next \notin Seqs
  /\ Goto("delivers")
  /\ UNCHANGED <<cmd, next, held, batch, arrived, crashes, sends, verdict>>

\* Acknowledged deliveries with no completion, of a shipment that has no
\* delivery in flight.  Which of them have been quiet for 30 seconds is left to
\* the clock, which shipments are not DELIVERED yet to UpsShipments.
QuietDelivers ==
  {n \in OfKind("deliver") \cap With("acked") :
     /\ ~cmd[n].completed
     /\ ~\E d \in OfKind("deliver") \cap InFlight :
           cmd[d].shipment = cmd[n].shipment}

EnqueueDeliver(n) ==
  /\ pc = "delivers" /\ n \in QuietDelivers
  /\ TakeNumber("daemon", "deliver", cmd[n].shipment, cmd[n].truck)
  /\ UNCHANGED <<cmd, pc, batch, arrived, crashes, sends, verdict>>

EndDelivers ==
  /\ pc = "delivers" /\ held["daemon"] = Nothing /\ Goto("stale")
  /\ UNCHANGED <<cmd, next, held, batch, arrived, crashes, sends, verdict>>

\* Wrong on purpose: the comparison grants one attempt too many.
RecordErrorOneMore(n) ==
  LET r == cmd[n].retries + 1
  IN  cmd' = [cmd EXCEPT ![n].retries = r,
                         ![n].status = IF r <= MaxRetries + 1 THEN "pending"
                                                              ELSE "failed"]

\* Wrong on purpose: the failure is not charged to the row.
RecordErrorUncharged(n) ==
  cmd' = [cmd EXCEPT ![n].status = IF cmd[n].retries < MaxRetries
                                   THEN "pending" ELSE "failed"]

\* record_world_command_error: one more failure; back to PENDING while the
\* budget lasts, FAILED once it is spent, whatever the status was.
RecordError(n) ==
  LET r == cmd[n].retries + 1
  IN  cmd' = [cmd EXCEPT ![n].retries = r,
                         ![n].status = IF r <= MaxRetries THEN "pending"
                                                          ELSE "failed"]

\* A SENT row older than 15 seconds counts as a failed attempt.
RequeueStale(n) ==
  /\ pc = "stale" /\ cmd[n].status = "sent"
  /\ RecordError(n)
  /\ UNCHANGED <<next, held, pc, batch, arrived, crashes, sends, verdict>>

\* The first BatchSize pending rows in creation order.
PendingBatch ==
  {n \in With("pending") :
     Cardinality({m \in With("pending") : cmd[m].created < cmd[n].created})
       < BatchSize}

\* Something to send, to hear of, or to see completed.
WorkLeft ==
  \/ InFlight # {}
  \/ \E n \in With("acked") : ~cmd[n].completed

LoadBatch ==
  /\ pc = "stale" /\ WorkLeft
  /\ batch' = PendingBatch
  /\ Goto("dispatch")
  /\ UNCHANGED <<cmd, next, held, arrived, crashes, sends, verdict>>

\* The poll ends early: nothing to do, or the world refuses the handshake.
GiveUpPoll ==
  /\ pc = "stale" /\ Goto("sleep")
  /\ UNCHANGED <<cmd, next, held, batch, arrived, crashes, sends, verdict>>

Encodable(n) == cmd[n].shipment \notin Malformed

\* client.dispatch, first half: the bytes leave; they reach the world or are
\* lost with the connection.
Send(n) ==
  /\ pc = "dispatch" /\ IsFirst(n, batch) /\ Encodable(n)
  /\ sends' = [sends EXCEPT ![n] = @ + 1]
  /\ arrived' \in {arrived, arrived \cup {n}}
  /\ Goto("marking")
  /\ UNCHANGED <<cmd, next, held, batch, crashes, verdict>>

\* client.dispatch, second half: mark_sent saves the status it decided on.
MarkSent(n) ==
  /\ pc = "marking" /\ IsFirst(n, batch)
  /\ cmd' = [cmd EXCEPT ![n].status = "sent"]
  /\ batch' = batch \ {n}
  /\ Goto("dispatch")
  /\ UNCHANGED <<next, held, arrived, crashes, sends, verdict>>

\* The builder rejects the row (ValueError): the failure is charged to its
\* budget and the rest of the batch waits for the next poll.
RejectLocally(n) ==
  /\ pc = "dispatch" /\ IsFirst(n, batch) /\ ~Encodable(n)
  /\ RecordError(n)
  /\ batch' = {}
  /\ Goto("sleep")
  /\ UNCHANGED <<next, held, arrived, crashes, sends, verdict>>

EndDispatch ==
  /\ pc = "dispatch" /\ batch = {} /\ Goto("receive")
  /\ UNCHANGED <<cmd, next, held, batch, arrived, crashes, sends, verdict>>

-----------------------------------------------------------------------------
(* process_world_response, one entry of one response at a time.  Every     *)
(* entry is committed on its own; the acknowledgement UPS sends back       *)
(* afterwards may not reach the world, so any entry may come again.        *)

\* Wrong on purpose: only the answer to a SENT row is honoured.
HandleCommandAckInTime(n) ==
  /\ pc = "receive" /\ n \in arrived
  /\ IF cmd[n].status # "sent" THEN UNCHANGED cmd
     ELSE cmd' = [cmd EXCEPT ![n].status = "acked"]
  /\ verdict' = [verdict EXCEPT ![n] = "ack"]
  /\ UNCHANGED <<next, held, pc, batch, arrived, crashes, sends>>

\* handle_command_acks: everything but an ACKED row becomes ACKED.
HandleCommandAck(n) ==
  /\ pc = "receive" /\ n \in arrived
  /\ IF cmd[n].status = "acked" THEN UNCHANGED cmd
     ELSE cmd' = [cmd EXCEPT ![n].status = "acked"]
  /\ verdict' = [verdict EXCEPT ![n] = "ack"]
  /\ UNCHANGED <<next, held, pc, batch, arrived, crashes, sends>>

\* handle_completion: the row that has the number of the report is completed.
\* The report is the world's own message with the world's own number, so this
\* need not be the command the report is about.
HandleCompletion(n) ==
  /\ pc = "receive" /\ n \in Rows
  /\ \E m \in arrived : cmd[m].kind # "query"
  /\ cmd' = [cmd EXCEPT ![n].completed = TRUE]
  /\ UNCHANGED <<next, held, pc, batch, arrived, crashes, sends, verdict>>

\* handle_delivered, its last statement: one UPDATE completes all delivery
\* rows of the shipment that exist by then.
HandleDelivered(s) ==
  /\ pc = "receive"
  /\ \E n \in arrived : cmd[n].kind = "deliver" /\ cmd[n].shipment = s
  /\ cmd' = [n \in Seqs |->
       IF cmd[n].kind = "deliver" /\ cmd[n].shipment = s
       THEN [cmd[n] EXCEPT !.completed = TRUE] ELSE cmd[n]]
  /\ UNCHANGED <<next, held, pc, batch, arrived, crashes, sends, verdict>>

\* handle_truck_status, for a truck that arrived at a warehouse: its oldest
\* acknowledged, unfinished pickup is taken to be the one that finished.
HandleTruckArrived(t, n) ==
  /\ pc = "receive"
  /\ \E p \in arrived : cmd[p].kind = "pickup" /\ cmd[p].truck = t
  /\ IsFirst(n, {p \in OfKind("pickup") \cap With("acked") :
                   cmd[p].truck = t /\ ~cmd[p].completed})
  /\ cmd' = [cmd EXCEPT ![n].completed = TRUE]
  /\ UNCHANGED <<next, held, pc, batch, arrived, crashes, sends, verdict>>

\* handle_error: the world rejected a command it received.
HandleError(n) ==
  /\ pc = "receive" /\ n \in arrived /\ cmd[n].retries < MaxErrors
  /\ RecordError(n)
  /\ verdict' = [verdict EXCEPT ![n] = "error"]
  /\ UNCHANGED <<next, held, pc, batch, arrived, crashes, sends>>

\* No more responses, a read error, or finished=true: the poll is over.
EndPoll ==
  /\ pc = "receive" /\ Goto("sleep")
  /\ UNCHANGED <<cmd, next, held, batch, arrived, crashes, sends, verdict>>

-----------------------------------------------------------------------------
(* The process: an exception that handle() does not catch, a kill, or a    *)
(* reboot ends it; an operator starts it again.                            *)

Crash ==
  /\ pc # "down" /\ crashes < MaxCrashes
  /\ crashes' = crashes + 1
  /\ batch' = {}
  /\ held' = [held EXCEPT !["daemon"] = Nothing]
  /\ Goto("down")
  /\ UNCHANGED <<cmd, next, arrived, sends, verdict>>

Restart ==
  /\ pc = "down" /\ Goto("sleep")
  /\ UNCHANGED <<cmd, next, held, batch, arrived, crashes, sends, verdict>>

Web ==
  \/ \E s \in Shipments, t \in Trucks :
       QueuePickup(s, t) \/ \E h \in Threads : QueueDelivery(h, s, t)
  \/ \E h \in Threads : InsertRow(h)
  \/ WebDies

Poll ==
  \/ StartPoll \/ EndQueries \/ EndDelivers \/ LoadBatch \/ GiveUpPoll
  \/ EndDispatch \/ EndPoll \/ InsertRow("daemon")
  \/ \E n \in Seqs : \/ EnqueueQuery(n) \/ EnqueueDeliver(n) \/ RequeueStale(n)
                     \/ Send(n) \/ MarkSent(n) \/ RejectLocally(n)

World ==
  \/ \E n \in Seqs : HandleCommandAck(n) \/ HandleCompletion(n) \/ HandleError(n)
  \/ \E s \in Shipments : HandleDelivered(s)
  \/ \E t \in Trucks, n \in Seqs : HandleTruckArrived(t, n)

Next == Web \/ Poll \/ World \/ Crash \/ Restart

Spec == Init /\ [][Next]_vars

\* The daemon loop runs, and an operator starts it again after a death; a
\* connection is obtained again and again; a SENT row turns stale after 15
\* seconds, so no row escapes the sweep for ever.  The world owes nothing.
FairSpec ==
  /\ Spec
  /\ WF_vars(Poll) /\ WF_vars(Restart)
  /\ SF_vars(LoadBatch)
  /\ WF_vars(EndPoll)
  /\ \A n \in Seqs : SF_vars(RequeueStale(n))

-----------------------------------------------------------------------------
(* Properties.                                                             *)

\* Every variable keeps its type; a number below next_seq_num is a row, or held
\* by one holder, or lost with the process that held it, but never both.
TypeOK ==
  /\ cmd \in [Seqs -> Row]
  /\ next \in 1..(MaxSeq + 1)
  /\ \A n \in Rows : n < next
  /\ held \in [Holders -> Held]
  /\ \A h \in Holders : held[h] # Nothing =>
       /\ held[h].seq \in Seqs \ Rows /\ held[h].seq < next
       /\ \A g \in Holders \ {h} : held[g].seq # held[h].seq
  /\ pc \in Phases
  /\ batch \subseteq Seqs
  /\ arrived \subseteq Seqs
  /\ crashes \in 0..MaxCrashes
  /\ sends \in [Seqs -> Nat]
  /\ verdict \in [Seqs -> {"none", "ack", "error"}]

\* However the world answers and wherever the daemon dies, a command is put
\* on the wire at most once per unit of its retry budget, once more for the
\* first attempt, and once more per death: a death between the send and
\* mark_sent repeats the send without charging the budget.
ResendBudget == \A n \in Seqs : sends[n] <= MaxRetries + 1 + crashes

\* "Marking acked here enables retry logic to skip already accepted
\* commands" (client.py:221): once the last answer applied to a command is an
\* acknowledgement, the row is ACKED, also when the acknowledgement came
\* after the row was swept back to PENDING or given up.
AckSettles == \A n \in Seqs : verdict[n] = "ack" => cmd[n].status = "acked"

\* The budget and the status tell the same story in every state: a row still
\* owed to the world has budget left, a FAILED row has spent all of it.
BudgetMatchesStatus ==
  \A n \in Seqs :
    /\ n \in InFlight => cmd[n].retries <= MaxRetries
    /\ cmd[n].status = "failed" => cmd[n].retries > MaxRetries

\* The per-truck guard of the query loop: two queries for one truck are in
\* flight together only if one of them came back after a failure, never
\* because polling queued a second one.
QueriesDoNotPileUp ==
  \A q, r \in OfKind("query") \cap InFlight :
    q # r /\ cmd[q].truck = cmd[r].truck =>
      cmd[q].retries > 0 \/ cmd[r].retries > 0

\* A row whose budget is spent is never transmitted again, although a late
\* acknowledgement or another error may still change its status.
SpentStaysQuiet ==
  [][\A n \in Seqs : cmd[n].retries > MaxRetries => sends'[n] = sends[n]]_vars

\* Every command is eventually acknowledged or given up: no row is retried
\* for ever, none waits for ever behind a row that cannot be sent, and no
\* SENT row is forgotten when its answer is lost.
RetryingEnds == \A n \in Seqs : <>[](n \notin InFlight)
=============================================================================
