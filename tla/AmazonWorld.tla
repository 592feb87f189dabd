----------------------------- MODULE AmazonWorld -----------------------------
(***************************************************************************)
(* Amazon's connection to the world: app/integrations/world_client.py as   *)
(* the fulfilment worker uses it, and the world id it keeps in the         *)
(* database (runtime_state_service.py, bootstrap.py).                      *)
(*                                                                         *)
(* Commands and reports are numbered, each side with numbers of its own.   *)
(* Commands, numbers and acknowledgements to make are in the memory of the *)
(* worker; what has been reported is in the order rows (AmazonOrders),     *)
(* here a set.  The load of a package also waits for its truck, which is   *)
(* taken to be there.                                                      *)
(*                                                                         *)
(* The world is external: it acknowledges a command it has got, passes     *)
(* over a number it has seen, repeats a report until it is acknowledged,   *)
(* and may drop any request (world_simulator_exec/README.md:10).           *)
(***************************************************************************)
EXTENDS Integers

CONSTANTS
  Packages,    \* packages that have been ordered
  Kinds,       \* bound: the kinds of command that the orders get to
  Worlds,      \* world ids
  None,        \* no world id, no connection, no command
  Configured,  \* WORLD_ID of the settings, or None
  Numbers,     \* bound: sequence numbers in use at a time
  MaxFaults    \* bound: lost messages, connections, saves; refusals; deaths

ASSUME AmazonWorldAssumption ==
  /\ Kinds \subseteq {"buy", "pack", "load"}
  /\ None \notin Worlds \cup Numbers /\ Configured \in Worlds \cup {None}
  /\ None \notin Kinds \X Packages
  /\ MaxFaults \in Nat

VARIABLES
  marked,     \* the order rows: the commands whose reports are saved
  failed,     \* the order rows: packages with an error
  saved,      \* runtime_state: world_id
  known,      \* the client: world id
  sock,       \* the world at the other end, or None
  torn,       \* the next byte to read is not the first of a frame
  byKey,      \* the commands that are queued, by key
  bySeq,      \* the commands that are queued, by number
  acked,      \* numbers the world has acknowledged
  toAck,      \* numbers of reports to acknowledge
  at,         \* the worker: outside sync_once, or where it is inside
  worlds,     \* external: the worlds there are
  got,        \* external: numbered commands, to do or done
  reports,    \* external: reports that are not acknowledged
  made,       \* history: commands carried out
  twice,      \* history: commands carried out more than once
  lost,       \* history: commands whose report could not be saved
  misread,    \* history: a report has removed the command of another
  restarted,  \* history: the worker has died
  unsaved,    \* history: a save of the world id has failed
  faults

orders == <<marked, failed>>
queue == <<byKey, bySeq, acked>>
world == <<worlds, got, reports, made, twice>>
history == <<lost, misread, restarted, unsaved>>
vars == <<orders, saved, known, sock, torn, queue, toAck, at, world, history, faults>>

Commands == Kinds \X Packages
Before == [buy |-> {}, pack |-> {"buy"}, load |-> {"pack"}]

\* What the queue loops of the worker find in the rows.
Wanted(c) ==
  /\ c \notin marked /\ c[2] \notin failed
  /\ \A k \in Before[c[1]] : <<k, c[2]>> \in marked

Queued == {n \in Numbers : bySeq[n] # None}

Init ==
  /\ marked = {} /\ failed = {}
  /\ saved = Configured /\ known = Configured
  /\ sock = None /\ torn = FALSE
  /\ byKey = [c \in Commands |-> None]
  /\ bySeq = [n \in Numbers |-> None]
  /\ acked = {} /\ toAck = {}
  /\ at = "rest"
  /\ worlds = IF Configured = None THEN {} ELSE {Configured}
  /\ got = {} /\ reports = {}
  /\ made = {} /\ twice = {} /\ lost = {}
  /\ misread = FALSE /\ restarted = FALSE /\ unsaved = FALSE
  /\ faults = 0

-----------------------------------------------------------------------------
Fault == faults < MaxFaults /\ faults' = faults + 1

\* Wrong on purpose: the exception is not raised again.
CloseOnly == sock' = None /\ torn' = FALSE /\ at' = at

\* close: the socket goes, and with it whatever was under way.
Close == sock' = None /\ torn' = FALSE /\ at' = "rest"

(* The connection.                                                         *)

Asked == IF known # None THEN known ELSE saved

\* The world answers AConnect: it opens the world that is asked for, or a
\* new one.
Opened(w) == IF Asked # None THEN w = Asked ELSE w \in Worlds \ worlds

\* Wrong on purpose: the id is kept in memory only.
ConnectUnsaved(w) ==
  /\ at = "rest" /\ sock = None /\ Opened(w)
  /\ sock' = w /\ known' = w /\ saved' = saved
  /\ at' = "send"
  /\ worlds' = worlds \cup {w}
  /\ UNCHANGED <<orders, torn, queue, toAck, got, reports, made, twice, history, faults>>

\* Wrong on purpose: a new connection starts with an empty queue.
ConnectForgetting(w) ==
  /\ at = "rest" /\ sock = None /\ Opened(w)
  /\ sock' = w /\ known' = w /\ saved' = w
  /\ at' = "send"
  /\ worlds' = worlds \cup {w}
  /\ byKey' = [c \in Commands |-> None] /\ bySeq' = [n \in Numbers |-> None] /\ acked' = {}
  /\ UNCHANGED <<orders, torn, toAck, got, reports, made, twice, history, faults>>

\* connect: the id in memory, or else the saved one, is asked for, and the
\* answer saved before anything is sent.
Connect(w) ==
  /\ at = "rest" /\ sock = None /\ Opened(w)
  /\ sock' = w /\ known' = w /\ saved' = w
  /\ at' = "send"
  /\ worlds' = worlds \cup {w}
  /\ UNCHANGED <<orders, torn, queue, toAck, got, reports, made, twice, history, faults>>

\* The save fails: the exception leaves the socket open and the id in memory.
ConnectNotSaved(w) ==
  /\ at = "rest" /\ sock = None /\ Opened(w) /\ Fault
  /\ sock' = w /\ known' = w
  /\ worlds' = worlds \cup {w}
  /\ unsaved' = TRUE
  /\ UNCHANGED <<orders, saved, torn, queue, toAck, at, got, reports, made, twice,
                 lost, misread, restarted>>

\* No answer within five seconds, or not "connected!": the socket is closed.
\* A world that was opened for it has no commands and nobody knows it: it is
\* left out.
ConnectFails ==
  /\ at = "rest" /\ sock = None /\ Fault
  /\ known' = Asked
  /\ UNCHANGED <<orders, saved, sock, torn, queue, toAck, at, world, history>>

\* sync_once on a connection that is open.
Proceed ==
  /\ at = "rest" /\ sock # None
  /\ at' = "send"
  /\ UNCHANGED <<orders, saved, known, sock, torn, queue, toAck, world, history, faults>>

-----------------------------------------------------------------------------
(* Commands.                                                               *)

\* A number is new when nobody uses it for another command.  A process that
\* has started again counts from one, so the world may know its numbers.
IsNew(n) ==
  /\ n \notin Queued
  /\ restarted \/ /\ ~\E g \in got : g.num = n /\ ~g.done
                  /\ ~\E r \in reports : r.origin = n

\* Wrong on purpose: a command that is queued gets one more number.
QueueAgain(c, n) ==
  /\ at = "rest" /\ Wanted(c) /\ IsNew(n)
  /\ byKey' = [byKey EXCEPT ![c] = n]
  /\ bySeq' = [bySeq EXCEPT ![n] = c]
  /\ got' \in {{g \in got : g.num # n}} \cup (IF restarted THEN {got} ELSE {})
  /\ UNCHANGED <<orders, saved, known, sock, torn, acked, toAck, at,
                 worlds, reports, made, twice, history, faults>>

\* queue_purchase, queue_pack, queue_load: a key that is queued stays as it
\* is, another gets a number.
Queue(c, n) ==
  /\ at = "rest" /\ Wanted(c) /\ byKey[c] = None /\ IsNew(n)
  /\ byKey' = [byKey EXCEPT ![c] = n]
  /\ bySeq' = [bySeq EXCEPT ![n] = c]
  /\ got' \in {{g \in got : g.num # n}} \cup (IF restarted THEN {got} ELSE {})
  /\ UNCHANGED <<orders, saved, known, sock, torn, acked, toAck, at,
                 worlds, reports, made, twice, history, faults>>

\* The world gets the commands with these numbers.
Delivered(nums) ==
  got \cup {[world |-> sock, num |-> n, cmd |-> bySeq[n], done |-> FALSE] :
              n \in {m \in nums : ~\E g \in got : g.world = sock /\ g.num = m}}

\* Wrong on purpose: whatever has come is acknowledged, handled or not.
SettledUnread == {r \in reports : r.world = sock}

Settled == {r \in reports : r.world = sock /\ r.num \in toAck}

\* What is due: commands without an acknowledgement, and when a second has
\* passed the others too.
Due == {Queued \ acked, Queued}

\* _send_pending; _build_commands_message has emptied the set of
\* acknowledgements when the message goes out.
Send ==
  /\ at = "send" /\ at' = "recv"
  /\ \E due \in Due : got' = Delivered(due)
  /\ reports' = reports \ Settled
  /\ toAck' = {}
  /\ UNCHANGED <<orders, saved, known, sock, torn, queue, worlds, made, twice, history, faults>>

\* The world drops some of the requests of the message.
SendDropped ==
  /\ at = "send" /\ at' = "recv" /\ Fault
  /\ \E nums \in SUBSET Queued : got' = Delivered(nums)
  /\ reports' \in {reports, reports \ Settled}
  /\ toAck' = {}
  /\ UNCHANGED <<orders, saved, known, sock, torn, queue, worlds, made, twice, history>>

\* The socket breaks while the message is being sent.
SendFails ==
  /\ at = "send" /\ Close /\ Fault
  /\ Queued # {} \/ toAck # {}
  /\ toAck' = {}
  /\ UNCHANGED <<orders, saved, known, queue, world, history>>

-----------------------------------------------------------------------------
(* Responses.                                                              *)

Reading == at = "recv" /\ ~torn

Acknowledged(n) ==
  /\ Reading /\ n \in Queued
  /\ \E g \in got : g.world = sock /\ g.num = n
  /\ acked' = acked \cup {n}
  /\ UNCHANGED <<orders, saved, known, sock, torn, byKey, bySeq, toAck, at, world, history, faults>>

\* Wrong on purpose: the key of the command stays in use.
CompleteNumber(n) ==
  /\ byKey' = byKey
  /\ bySeq' = [bySeq EXCEPT ![n] = None]
  /\ acked' = acked \ {n}

\* _complete
Complete(n) ==
  /\ byKey' = [c \in Commands |-> IF bySeq[n] = c THEN None ELSE byKey[c]]
  /\ bySeq' = [bySeq EXCEPT ![n] = None]
  /\ acked' = acked \ {n}

\* Arrived, ready, loaded: the report is noted for acknowledgement and saved,
\* and the command that has the number of the report is complete, whichever
\* it is.
HandleReport(r) ==
  /\ Reading /\ r \in reports /\ r.world = sock /\ r.origin = None
  /\ toAck' = toAck \cup {r.num}
  /\ marked' = marked \cup {r.cmd} /\ failed' = failed \ {r.cmd[2]}
  /\ Complete(r.num)
  /\ misread' = (misread \/ bySeq[r.num] \notin {None, r.cmd})
  /\ UNCHANGED <<saved, known, sock, torn, at, world, lost, restarted, unsaved, faults>>

\* _handle_error: the world refers to the command by its number.
HandleError(r) ==
  /\ Reading /\ r \in reports /\ r.world = sock /\ r.origin # None
  /\ toAck' = toAck \cup {r.num}
  /\ failed' = IF bySeq[r.origin] = None THEN failed ELSE failed \cup {bySeq[r.origin][2]}
  /\ Complete(r.origin)
  /\ UNCHANGED <<marked, saved, known, sock, torn, at, world, history, faults>>

\* The save of a report fails.  Its number is noted already, the rest of the
\* message is skipped, and the socket stays open.
ReportNotSaved(r) ==
  /\ Reading /\ r \in reports /\ r.world = sock /\ Fault
  /\ toAck' = toAck \cup {r.num}
  /\ lost' = lost \cup {r.cmd}
  /\ at' = "rest"
  /\ UNCHANGED <<orders, saved, known, sock, torn, queue, world, misread, restarted, unsaved>>

\* Nothing comes within a tenth of a second: sync_once returns.
EndSync ==
  /\ at = "recv" /\ at' = "rest"
  /\ UNCHANGED <<orders, saved, known, sock, torn, queue, toAck, world, history, faults>>

\* The time is up in the middle of a frame, and what was read is forgotten.
\* From then on there are no frames: a read ends like one of nothing, or with
\* a DecodeError, and either way the socket stays open.
Tear ==
  /\ Reading /\ Fault
  /\ torn' = TRUE /\ at' = "rest"
  /\ UNCHANGED <<orders, saved, known, sock, queue, toAck, world, history>>

\* The world closes the connection or says that it has finished.
LoseConnection ==
  /\ at = "recv" /\ Close /\ Fault
  /\ UNCHANGED <<orders, saved, known, queue, toAck, world, history>>

\* The process dies; bootstrap runs before the next one, which knows nothing.
Restart ==
  /\ Fault
  /\ Close
  /\ known' = Configured
  /\ saved' = IF Configured # None THEN Configured ELSE saved
  /\ byKey' = [c \in Commands |-> None]
  /\ bySeq' = [n \in Numbers |-> None]
  /\ acked' = {} /\ toAck' = {}
  /\ restarted' = TRUE
  /\ UNCHANGED <<orders, world, lost, misread, unsaved>>

-----------------------------------------------------------------------------
(* The world.                                                              *)

Report(g, origin) ==
  \E n \in {m \in Numbers : ~\E r \in reports : r.world = g.world /\ r.num = m} :
    reports' = reports \cup {[world |-> g.world, num |-> n, cmd |-> g.cmd, origin |-> origin]}

CarryOut(g) ==
  /\ g \in got /\ ~g.done
  /\ got' = (got \ {g}) \cup {[g EXCEPT !.done = TRUE]}
  /\ Report(g, None)
  /\ made' = made \cup {g.cmd}
  /\ twice' = twice \cup ({g.cmd} \cap made)
  /\ UNCHANGED <<orders, saved, known, sock, torn, queue, toAck, at, worlds, history, faults>>

Refuse(g) ==
  /\ g \in got /\ ~g.done /\ Fault
  /\ got' = (got \ {g}) \cup {[g EXCEPT !.done = TRUE]}
  /\ Report(g, g.num)
  /\ UNCHANGED <<orders, saved, known, sock, torn, queue, toAck, at, worlds, made, twice, history>>

-----------------------------------------------------------------------------
Client ==
  \/ \E w \in Worlds : Connect(w) \/ ConnectNotSaved(w)
  \/ ConnectFails \/ Proceed
  \/ \E c \in Commands, n \in Numbers : Queue(c, n)
  \/ Send \/ SendDropped \/ SendFails
  \/ \E n \in Numbers : Acknowledged(n)
  \/ \E r \in reports : HandleReport(r) \/ HandleError(r) \/ ReportNotSaved(r)
  \/ EndSync \/ Tear \/ LoseConnection

World == \E g \in got : CarryOut(g) \/ Refuse(g)

Next == Client \/ Restart \/ World

Spec == Init /\ [][Next]_vars

\* The worker calls sync_once for ever and queues between two calls; the
\* seconds pass; the world works, and in some synchronisation it gets to
\* repeat each report before the time is up.
FairSpec ==
  /\ Spec
  /\ WF_vars((\E w \in Worlds : Connect(w)) \/ Proceed)
  /\ WF_vars(Send) /\ WF_vars(EndSync)
  /\ SF_vars(Send /\ got' = Delivered(Queued))
  /\ \A c \in Commands :
       /\ SF_vars(\E n \in Numbers : Queue(c, n))
       /\ WF_vars(\E g \in got : g.cmd = c /\ CarryOut(g))
       /\ SF_vars(\E r \in reports : r.cmd = c /\ (HandleReport(r) \/ HandleError(r)))

-----------------------------------------------------------------------------
(* Properties.                                                             *)

Command == [world : Worlds, num : Numbers, cmd : Commands, done : BOOLEAN]
Open == [world : Worlds, num : Numbers, cmd : Commands, origin : Numbers \cup {None}]

\* Every variable keeps its type, and inside sync_once there is a socket.
TypeOK ==
  /\ marked \subseteq Commands /\ failed \subseteq Packages
  /\ saved \in Worlds \cup {None} /\ known \in Worlds \cup {None}
  /\ sock \in Worlds \cup {None} /\ torn \in BOOLEAN
  /\ byKey \in [Commands -> Numbers \cup {None}]
  /\ bySeq \in [Numbers -> Commands \cup {None}]
  /\ acked \subseteq Queued /\ toAck \subseteq Numbers
  /\ at \in {"rest", "send", "recv"}
  /\ at # "rest" => sock # None
  /\ worlds \subseteq Worlds
  /\ got \subseteq Command /\ reports \subseteq Open
  /\ made \subseteq Commands /\ twice \subseteq Commands /\ lost \subseteq Commands
  /\ misread \in BOOLEAN /\ restarted \in BOOLEAN /\ unsaved \in BOOLEAN
  /\ faults \in 0..MaxFaults

\* The two maps of the client hold the same commands, one number for each,
\* whatever reports, errors and requeued commands did to them.
MapsAgree ==
  \A c \in Commands, n \in Numbers : byKey[c] = n <=> bySeq[n] = c

\* All commands go to one world, over broken connections, lost answers and
\* deaths of the worker, as long as the world id could be saved.
OneWorld == ~unsaved => \A g \in got : g.world = saved

\* "Retries unacked commands, and sends response acks" (danger_log.txt:4):
\* what the world has done is saved by Amazon or still reported; the one way
\* to lose it is a save that fails after its number was noted.
DoneIsSaved ==
  \A c \in made : c \in marked \cup lost \/ \E r \in reports : r.cmd = c /\ r.origin = None

\* Sending again, on whatever connection, makes the world do nothing twice.
\* That takes a report read as one of another command, or a new process.
RetriesAreHarmless == twice # {} => misread \/ restarted

\* A command that a row asks for is reported in the end, or fails its
\* package, unless its report was lost, the worker died, or the stream is
\* torn and nobody closes it.
CommandsSettle ==
  \/ <>[]torn
  \/ \A c \in Commands :
       Wanted(c) ~> c \in marked \cup lost \/ c[2] \in failed \/ restarted
=============================================================================
