------------------------- MODULE AmazonWorld_proofs -------------------------
(***************************************************************************)
(* The maps of Amazon's world client agree, its commands go to one world,  *)
(* and what the world has done is not forgotten: for any packages, worlds, *)
(* numbers and faults.                                                     *)
(***************************************************************************)
EXTENDS AmazonWorld, TLAPS

\* As long as every world id could be saved, the id in memory, the socket and
\* the commands agree with the saved one, and with the settings if they name
\* a world.
WorldInv ==
  ~unsaved =>
    /\ known \in {None, saved} /\ sock \in {None, saved}
    /\ \A g \in got : g.world = saved
    /\ Configured # None => saved = Configured

\* A process talks to one world, saved or not.  The numbers it has noted for
\* acknowledgement are of open reports of that world, and what those tell is
\* saved or known to be lost; so the next message acknowledges nothing else.
NotedInv ==
  /\ sock \in {None, known}
  /\ \A n \in toAck : \E r \in reports : r.world = known /\ r.num = n
  /\ \A r, q \in reports : r.world = q.world /\ r.num = q.num => r = q
  /\ \A r \in reports :
       r.world = known /\ r.num \in toAck /\ r.origin = None => r.cmd \in marked \cup lost

\* In a process that has not started again and has read no report as one of
\* another command, a number means one command to both sides.  A command the
\* world has still to do is in the queue and not done before; one it has done
\* is in the rows, or in the queue under a number the world has seen; one it
\* has refused is not done.
OneNumberOneCommand ==
  /\ \A g \in got : g.world = known /\ bySeq[g.num] \in {None, g.cmd}
  /\ \A g, h \in got : g.num = h.num => g = h

OpenIsQueued == \A g \in got : ~g.done => byKey[g.cmd] = g.num /\ g.cmd \notin made

MadeIsSeen ==
  /\ \A c \in made : c \in marked \/ byKey[c] # None
  /\ \A n \in Queued : bySeq[n] \in made => \E g \in got : g.num = n

ReportsAreTrue ==
  \A r \in reports :
    /\ r.origin = None => r.cmd \in made
    /\ r.origin # None =>
         /\ \E g \in got : g.num = r.origin /\ g.cmd = r.cmd /\ g.done
         /\ bySeq[r.origin] # None => r.cmd \notin made

OnceInv ==
  ~misread /\ ~restarted =>
    OneNumberOneCommand /\ OpenIsQueued /\ MadeIsSeen /\ ReportsAreTrue /\ twice = {}

IInv == TypeOK /\ MapsAgree /\ WorldInv /\ NotedInv /\ DoneIsSaved
        /\ OnceInv

LEMMA InitIInv == Init => IInv
<1> SUFFICES ASSUME Init PROVE IInv
  OBVIOUS
<1> USE AmazonWorldAssumption DEF Init
<1>1. TypeOK
  <2>1. acked \subseteq Queued
    OBVIOUS
  <2>2. /\ byKey \in [Commands -> Numbers \cup {None}]
        /\ bySeq \in [Numbers -> Commands \cup {None}]
    OBVIOUS
  <2>3. torn \in BOOLEAN /\ misread \in BOOLEAN /\ restarted \in BOOLEAN /\ unsaved \in BOOLEAN
    BY Zenon
  <2>4. faults \in 0..MaxFaults
    OBVIOUS
  <2> HIDE DEF Init
  <2>5. /\ marked \subseteq Commands /\ failed \subseteq Packages
        /\ saved \in Worlds \cup {None} /\ known \in Worlds \cup {None}
        /\ sock \in Worlds \cup {None} /\ toAck \subseteq Numbers
        /\ at = "rest" /\ worlds \subseteq Worlds
        /\ got \subseteq Command /\ reports \subseteq Open
        /\ made \subseteq Commands /\ twice \subseteq Commands /\ lost \subseteq Commands
    BY DEF Init
  <2> QED BY <2>1, <2>2, <2>3, <2>4, <2>5 DEF TypeOK
<1>2. MapsAgree
  BY DEF MapsAgree, Commands
<1>3. WorldInv /\ NotedInv /\ DoneIsSaved
  BY DEF WorldInv, NotedInv, DoneIsSaved
<1>4. OnceInv
  BY DEF OnceInv, OneNumberOneCommand, OpenIsQueued, MadeIsSeen, ReportsAreTrue, Queued
<1> QED BY <1>1, <1>2, <1>3, <1>4 DEF IInv

-----------------------------------------------------------------------------
\* What a report completes leaves both maps.
LEMMA CompleteKeepsMaps ==
  ASSUME TypeOK, MapsAgree, NEW n \in Numbers, Complete(n)
  PROVE  /\ byKey' \in [Commands -> Numbers \cup {None}]
         /\ bySeq' \in [Numbers -> Commands \cup {None}]
         /\ acked' \subseteq Queued'
         /\ MapsAgree'
<1> USE AmazonWorldAssumption DEF Commands
<1>1. byKey' \in [Commands -> Numbers \cup {None}] /\ bySeq' \in [Numbers -> Commands \cup {None}]
  BY DEF TypeOK, Complete
<1>2. acked' \subseteq Queued'
  BY DEF TypeOK, Complete, Queued
<1>3. MapsAgree'
  BY DEF TypeOK, Complete, MapsAgree
<1> QED BY <1>1, <1>2, <1>3

\* The commands of a message are those of the queue, for the world at the
\* other end.
LEMMA DeliveredType ==
  ASSUME TypeOK, at = "send", NEW nums \in SUBSET Queued
  PROVE  /\ Delivered(nums) \subseteq Command
         /\ \A g \in Delivered(nums) : g \in got \/ g.world = sock
<1>1. \A n \in nums : n \in Numbers /\ bySeq[n] \in Commands
  BY DEF TypeOK, Queued
<1>2. sock \in Worlds
  BY DEF TypeOK
<1>3. \A n \in nums : [world |-> sock, num |-> n, cmd |-> bySeq[n], done |-> FALSE] \in Command
  BY <1>1, <1>2 DEF Command
<1> QED BY <1>3 DEF Delivered, TypeOK

\* A step counts at most one fault, and flags stay flags.
LEMMA FlagStep ==
  ASSUME TypeOK, [Next]_vars
  PROVE  /\ torn' \in BOOLEAN /\ misread' \in BOOLEAN
         /\ restarted' \in BOOLEAN /\ unsaved' \in BOOLEAN
         /\ faults' \in 0..MaxFaults
<1> DEFINE Flag == /\ torn \in BOOLEAN /\ misread \in BOOLEAN
                   /\ restarted \in BOOLEAN /\ unsaved \in BOOLEAN
           Count == faults' = faults \/ Fault
<1>1. Flag
  BY DEF TypeOK
<1>2. SUFFICES Flag' /\ Count
  <2>1. faults \in 0..MaxFaults
    BY DEF TypeOK
  <2>2. Count => faults' \in 0..MaxFaults
    BY <2>1, AmazonWorldAssumption DEF Fault
  <2> QED BY <2>2
<1> HIDE DEF Flag
<1>3. ASSUME UNCHANGED <<torn, misread, restarted, unsaved>> PROVE Flag'
  BY <1>1, <1>3 DEF Flag
<1>4. CASE UNCHANGED vars
  BY <1>3, <1>4 DEF vars, history
<1>5. ASSUME NEW w \in Worlds, Connect(w) PROVE Flag' /\ Count
  BY <1>3, <1>5 DEF Connect, history
<1>6. ASSUME NEW w \in Worlds, ConnectNotSaved(w) PROVE Flag' /\ Count
  BY <1>1, <1>6, Zenon DEF ConnectNotSaved, Flag
<1>7. CASE ConnectFails \/ Proceed \/ Send \/ SendDropped \/ EndSync
  BY <1>3, <1>7 DEF ConnectFails, Proceed, Send, SendDropped, EndSync, history
<1>8. CASE Tear
  BY <1>1, <1>8, Zenon DEF Tear, Flag, history
<1>9. CASE SendFails \/ LoseConnection
  BY <1>1, <1>9, Zenon DEF SendFails, LoseConnection, Close, Flag, history
<1>10. ASSUME NEW c \in Commands, NEW n \in Numbers, Queue(c, n) PROVE Flag' /\ Count
  BY <1>3, <1>10 DEF Queue, history
<1>11. ASSUME NEW n \in Numbers, Acknowledged(n) PROVE Flag' /\ Count
  BY <1>3, <1>11 DEF Acknowledged, history
<1>12. ASSUME NEW r \in reports, HandleReport(r) PROVE Flag' /\ Count
  BY <1>1, <1>12, Zenon DEF HandleReport, Flag
<1>13. ASSUME NEW r \in reports, HandleError(r) \/ ReportNotSaved(r) PROVE Flag' /\ Count
  BY <1>3, <1>13 DEF HandleError, ReportNotSaved, history
<1>14. CASE Restart
  BY <1>1, <1>14, Zenon DEF Restart, Close, Flag
<1>15. ASSUME NEW g \in got, CarryOut(g) \/ Refuse(g) PROVE Flag' /\ Count
  BY <1>3, <1>15 DEF CarryOut, Refuse, history
<1> QED
  BY <1>4, <1>5, <1>6, <1>7, <1>8, <1>9, <1>10, <1>11, <1>12, <1>13, <1>14, <1>15
     DEF Next, Client, World, vars

LEMMA TypeStep ==
  ASSUME TypeOK, MapsAgree, [Next]_vars
  PROVE  TypeOK'
<1> USE AmazonWorldAssumption
<1> DEFINE Queues == /\ byKey \in [Commands -> Numbers \cup {None}]
                     /\ bySeq \in [Numbers -> Commands \cup {None}]
                     /\ acked \subseteq Queued
           Rest == /\ marked \subseteq Commands /\ failed \subseteq Packages
                   /\ saved \in Worlds \cup {None} /\ known \in Worlds \cup {None}
                   /\ sock \in Worlds \cup {None}
                   /\ toAck \subseteq Numbers
                   /\ at \in {"rest", "send", "recv"}
                   /\ at # "rest" => sock # None
                   /\ worlds \subseteq Worlds
                   /\ made \subseteq Commands /\ twice \subseteq Commands
                   /\ lost \subseteq Commands
           Sides == got \subseteq Command /\ reports \subseteq Open
<1>0. Queues /\ Rest /\ Sides
  BY DEF TypeOK
<1>a. SUFFICES Queues' /\ Rest' /\ Sides'
  BY FlagStep DEF TypeOK
<1>b. ASSUME UNCHANGED queue PROVE Queues'
  BY <1>0, <1>b DEF queue, Queued
<1>1. CASE UNCHANGED vars
  BY <1>0, <1>1 DEF vars, orders, queue, world, history, Queued
<1>2. ASSUME NEW w \in Worlds, Connect(w) \/ ConnectNotSaved(w) PROVE Queues' /\ Rest' /\ Sides'
  <2>1. UNCHANGED <<orders, queue, got, reports, made, twice, toAck, torn>>
    BY <1>2 DEF Connect, ConnectNotSaved
  <2>2. Rest'
    BY <1>0, <1>2, <2>1 DEF Connect, ConnectNotSaved, Fault, orders, history
  <2> QED BY <1>0, <1>b, <2>1, <2>2
<1>3. CASE ConnectFails \/ Proceed
  BY <1>0, <1>3 DEF ConnectFails, Proceed, Asked, Fault, orders, queue, world, history, Queued
<1>4. ASSUME NEW c \in Commands, NEW n \in Numbers, Queue(c, n) PROVE Queues' /\ Rest' /\ Sides'
  <2>1. Queues'
    <3>1. /\ byKey' = [byKey EXCEPT ![c] = n] /\ bySeq' = [bySeq EXCEPT ![n] = c]
          /\ acked' = acked
      BY <1>4 DEF Queue
    <3>2. c # None
      BY DEF Commands
    <3>3. acked' \subseteq Queued'
      BY <1>0, <3>1, <3>2 DEF Queued
    <3> QED BY <1>0, <3>1, <3>3
  <2>2. Rest'
    BY <1>0, <1>4 DEF Queue, orders, history
  <2>3. Sides'
    BY <1>0, <1>4 DEF Queue
  <2> QED BY <2>1, <2>2, <2>3
<1>5. CASE Send
  <2>1. PICK due \in Due : got' = Delivered(due)
    BY <1>5 DEF Send
  <2>2. due \in SUBSET Queued /\ at = "send"
    BY <1>5 DEF Due, Send
  <2>3. Sides'
    BY <1>0, <1>5, <2>1, <2>2, DeliveredType DEF Send
  <2> QED BY <1>0, <1>5, <2>3 DEF Send, orders, queue, history, Queued
<1>6. CASE SendDropped
  <2>1. PICK nums \in SUBSET Queued : got' = Delivered(nums)
    BY <1>6 DEF SendDropped
  <2>2. at = "send"
    BY <1>6 DEF SendDropped
  <2>3. Sides'
    BY <1>0, <1>6, <2>1, <2>2, DeliveredType DEF SendDropped, Settled
  <2> QED BY <1>0, <1>6, <2>3 DEF SendDropped, Fault, orders, queue, history, Queued
<1>7. CASE SendFails \/ LoseConnection
  <2>1. UNCHANGED <<orders, saved, known, queue, world, history>>
    BY <1>7 DEF SendFails, LoseConnection
  <2>2. Rest'
    BY <1>0, <1>7, <2>1 DEF SendFails, LoseConnection, Close, Fault, orders, world, history
  <2>3. Sides'
    BY <1>0, <2>1 DEF world
  <2> QED BY <1>b, <2>1, <2>2, <2>3
<1>8. ASSUME NEW n \in Numbers, Acknowledged(n) PROVE Queues' /\ Rest' /\ Sides'
  BY <1>0, <1>8 DEF Acknowledged, orders, world, history, Queued
<1>9. ASSUME NEW r \in reports, HandleReport(r) PROVE Queues' /\ Rest' /\ Sides'
  <2>1. r.num \in Numbers /\ r.cmd \in Commands
    BY <1>0 DEF Open
  <2>2. Queues'
    BY <1>9, <2>1, CompleteKeepsMaps DEF HandleReport
  <2> QED BY <1>0, <1>9, <2>1, <2>2 DEF HandleReport, world
<1>10. ASSUME NEW r \in reports, HandleError(r) PROVE Queues' /\ Rest' /\ Sides'
  <2>1. r.num \in Numbers /\ r.origin \in Numbers
    BY <1>0, <1>10 DEF Open, HandleError
  <2>2. Queues'
    BY <1>10, <2>1, CompleteKeepsMaps DEF HandleError
  <2>3. failed' \subseteq Packages
    BY <1>0, <1>10, <2>1 DEF HandleError, Commands
  <2> QED BY <1>0, <1>10, <2>1, <2>2, <2>3 DEF HandleError, world, history
<1>11. ASSUME NEW r \in reports, ReportNotSaved(r) PROVE Queues' /\ Rest' /\ Sides'
  <2>1. r.num \in Numbers /\ r.cmd \in Commands
    BY <1>0 DEF Open
  <2> QED BY <1>0, <1>11, <2>1 DEF ReportNotSaved, Fault, orders, queue, world, Queued
<1>12. CASE EndSync \/ Tear
  <2>1. UNCHANGED <<orders, saved, known, sock, queue, toAck, world, history>>
    BY <1>12 DEF EndSync, Tear
  <2>2. Rest'
    BY <1>0, <1>12, <2>1 DEF EndSync, Tear, Fault, orders, world, history
  <2>3. Sides'
    BY <1>0, <2>1 DEF world
  <2> QED BY <1>b, <2>1, <2>2, <2>3
<1>13. CASE Restart
  <2>1. /\ byKey' = [c \in Commands |-> None] /\ bySeq' = [n \in Numbers |-> None]
        /\ acked' = {} /\ UNCHANGED <<orders, world>>
    BY <1>13 DEF Restart
  <2>2. Queues'
    BY <2>1 DEF Queued
  <2>3. Rest'
    BY <1>0, <1>13, <2>1 DEF Restart, Close, Fault, orders, world
  <2>4. Sides'
    BY <1>0, <2>1 DEF world
  <2> QED BY <2>2, <2>3, <2>4
<1>14. ASSUME NEW g \in got, CarryOut(g) \/ Refuse(g) PROVE Queues' /\ Rest' /\ Sides'
  <2>1. g \in Command
    BY <1>0
  <2>2. g.cmd \in Commands /\ g.num \in Numbers /\ [g EXCEPT !.done = TRUE] \in Command
    BY <2>1 DEF Command
  <2>3. got' \subseteq Command
    BY <1>0, <1>14, <2>2 DEF CarryOut, Refuse
  <2>4. ASSUME NEW o \in Numbers \cup {None}, Report(g, o) PROVE reports' \subseteq Open
    BY <1>0, <2>1, <2>4 DEF Report, Open, Command
  <2>5. reports' \subseteq Open
    BY <1>14, <2>2, <2>4 DEF CarryOut, Refuse
  <2> QED BY <1>0, <1>14, <2>2, <2>3, <2>5 DEF CarryOut, Refuse, Fault, orders, queue, history, Queued
<1> QED
  BY <1>1, <1>2, <1>3, <1>4, <1>5, <1>6, <1>7, <1>8, <1>9, <1>10, <1>11, <1>12, <1>13, <1>14
     DEF Next, Client, World

-----------------------------------------------------------------------------
\* One command for a number, one number for a command.
LEMMA MapsStep ==
  ASSUME TypeOK, MapsAgree, [Next]_vars
  PROVE  MapsAgree'
<1> USE AmazonWorldAssumption
<1>1. ASSUME UNCHANGED queue PROVE MapsAgree'
  BY <1>1 DEF queue, MapsAgree
<1>2. ASSUME NEW c \in Commands, NEW n \in Numbers, Queue(c, n) PROVE MapsAgree'
  <2>1. /\ byKey[c] = None /\ bySeq[n] = None
        /\ byKey' = [byKey EXCEPT ![c] = n] /\ bySeq' = [bySeq EXCEPT ![n] = c]
    BY <1>2 DEF Queue, IsNew, Queued
  <2>2. None \notin Commands /\ None \notin Numbers
    BY DEF Commands
  <2>3. byKey \in [Commands -> Numbers \cup {None}] /\ bySeq \in [Numbers -> Commands \cup {None}]
    BY DEF TypeOK
  <2>4. ASSUME NEW d \in Commands, NEW m \in Numbers PROVE byKey'[d] = m <=> bySeq'[m] = d
    <3>1. byKey[d] = m <=> bySeq[m] = d
      BY DEF MapsAgree
    <3>2. CASE d = c /\ m = n
      BY <2>1, <2>3, <3>2
    <3>3. CASE d = c /\ m # n
      BY <2>1, <2>2, <2>3, <3>1, <3>3
    <3>4. CASE d # c
      BY <2>1, <2>2, <2>3, <3>1, <3>4
    <3> QED BY <3>2, <3>3, <3>4
  <2> QED BY <2>4 DEF MapsAgree
<1>3. ASSUME NEW r \in reports, HandleReport(r) PROVE MapsAgree'
  BY <1>3, CompleteKeepsMaps DEF HandleReport, TypeOK, Open
<1>4. ASSUME NEW r \in reports, HandleError(r) PROVE MapsAgree'
  BY <1>4, CompleteKeepsMaps DEF HandleError, TypeOK, Open
<1>5. CASE Restart
  <2>1. byKey' = [c \in Commands |-> None] /\ bySeq' = [n \in Numbers |-> None]
    BY <1>5 DEF Restart
  <2>2. None \notin Commands
    BY DEF Commands
  <2> QED BY <2>1, <2>2 DEF MapsAgree
<1>6. CASE UNCHANGED vars
  BY <1>1, <1>6 DEF vars
<1>7. ASSUME NEW w \in Worlds, Connect(w) \/ ConnectNotSaved(w) PROVE MapsAgree'
  BY <1>1, <1>7 DEF Connect, ConnectNotSaved
<1>8. CASE ConnectFails \/ Proceed \/ Send \/ SendDropped \/ SendFails
           \/ EndSync \/ Tear \/ LoseConnection
  BY <1>1, <1>8 DEF ConnectFails, Proceed, Send, SendDropped, SendFails,
     EndSync, Tear, LoseConnection
<1>9. ASSUME NEW n \in Numbers, Acknowledged(n) PROVE MapsAgree'
  BY <1>9 DEF Acknowledged, MapsAgree
<1>10. ASSUME NEW r \in reports, ReportNotSaved(r) PROVE MapsAgree'
  BY <1>1, <1>10 DEF ReportNotSaved
<1>11. ASSUME NEW g \in got, CarryOut(g) \/ Refuse(g) PROVE MapsAgree'
  BY <1>1, <1>11 DEF CarryOut, Refuse
<1> QED
  BY <1>2, <1>3, <1>4, <1>5, <1>6, <1>7, <1>8, <1>9, <1>10, <1>11 DEF Next, Client, World

\* A connection asks for the saved world, and commands go where it leads.
LEMMA WorldStep ==
  ASSUME TypeOK, WorldInv, [Next]_vars
  PROVE  WorldInv'
<1> USE AmazonWorldAssumption
<1>1. ASSUME UNCHANGED <<unsaved, known, sock, saved, got>> PROVE WorldInv'
  BY <1>1 DEF WorldInv
<1>2. ASSUME NEW w \in Worlds, Connect(w) PROVE WorldInv'
  <2>1. ~unsaved /\ saved # None => w = saved
    BY <1>2 DEF Connect, Opened, Asked, WorldInv
  <2>2. ~unsaved /\ saved = None => got = {}
    BY DEF TypeOK, Command, WorldInv
  <2>3. /\ sock' = w /\ known' = w /\ saved' = w
        /\ got' = got /\ unsaved' = unsaved
    BY <1>2 DEF Connect, history
  <2> QED BY <2>1, <2>2, <2>3 DEF WorldInv
<1>3. ASSUME NEW w \in Worlds, ConnectNotSaved(w) PROVE WorldInv'
  BY <1>3 DEF ConnectNotSaved, WorldInv
<1>4. CASE ConnectFails
  BY <1>4 DEF ConnectFails, Asked, WorldInv, world, history
<1>5. ASSUME NEW c \in Commands, NEW n \in Numbers, Queue(c, n) PROVE WorldInv'
  <2>1. got' \subseteq got /\ UNCHANGED <<unsaved, known, sock, saved>>
    BY <1>5 DEF Queue, history
  <2> QED BY <2>1 DEF WorldInv
<1>6. CASE Send \/ SendDropped
  <2>1. PICK nums \in SUBSET Queued : got' = Delivered(nums)
    BY <1>6 DEF Send, SendDropped, Due
  <2>2. at = "send" /\ UNCHANGED <<unsaved, known, sock, saved>>
    BY <1>6 DEF Send, SendDropped, history
  <2>3. sock # None
    BY <2>2 DEF TypeOK
  <2>4. \A g \in got' : g \in got \/ g.world = sock
    BY <2>1, <2>2, DeliveredType
  <2> QED BY <2>2, <2>3, <2>4 DEF WorldInv
<1>7. CASE SendFails \/ LoseConnection
  BY <1>7 DEF SendFails, LoseConnection, Close, WorldInv, world, history
<1>8. CASE Restart
  BY <1>8 DEF Restart, Close, WorldInv, world
<1>9. ASSUME NEW g \in got, CarryOut(g) \/ Refuse(g) PROVE WorldInv'
  <2>1. got' = (got \ {g}) \cup {[g EXCEPT !.done = TRUE]}
        /\ UNCHANGED <<unsaved, known, sock, saved>>
    BY <1>9 DEF CarryOut, Refuse, history
  <2>2. [g EXCEPT !.done = TRUE].world = g.world
    BY DEF TypeOK, Command
  <2> QED BY <2>1, <2>2 DEF WorldInv
<1>10. CASE UNCHANGED vars
  BY <1>1, <1>10 DEF vars, world, history
<1>11. CASE Proceed \/ EndSync \/ Tear
  BY <1>1, <1>11 DEF Proceed, EndSync, Tear, world, history
<1>12. ASSUME NEW n \in Numbers, Acknowledged(n) PROVE WorldInv'
  BY <1>1, <1>12 DEF Acknowledged, world, history
<1>13. ASSUME NEW r \in reports, HandleReport(r) \/ HandleError(r) \/ ReportNotSaved(r)
       PROVE  WorldInv'
  BY <1>1, <1>13 DEF HandleReport, HandleError, ReportNotSaved, world, history
<1> QED
  BY <1>2, <1>3, <1>4, <1>5, <1>6, <1>7, <1>8, <1>9, <1>10, <1>11, <1>12, <1>13
     DEF Next, Client, World

-----------------------------------------------------------------------------
\* An acknowledgement goes to the world whose report was noted, after what the
\* report says was saved or its save has failed.
LEMMA NotedStep ==
  ASSUME TypeOK, NotedInv, DoneIsSaved, [Next]_vars
  PROVE  NotedInv' /\ DoneIsSaved'
<1> USE AmazonWorldAssumption
<1> DEFINE Same == UNCHANGED <<marked, lost, reports, made>>
<1>1. ASSUME Same, UNCHANGED <<known, toAck>>, sock' \in {None, known} PROVE NotedInv' /\ DoneIsSaved'
  BY <1>1 DEF NotedInv, DoneIsSaved
<1>2. ASSUME Same, toAck' = {}, sock' \in {None, known'} PROVE NotedInv' /\ DoneIsSaved'
  BY <1>2 DEF NotedInv, DoneIsSaved
<1>3. known = None => toAck = {}
  BY DEF NotedInv, TypeOK, Open
<1>4. ASSUME NEW w \in Worlds, Connect(w) \/ ConnectNotSaved(w) PROVE NotedInv' /\ DoneIsSaved'
  <2>1. Same /\ sock' = w /\ known' = w /\ toAck' = toAck /\ (known # None => w = known)
    BY <1>4 DEF Connect, ConnectNotSaved, Opened, Asked, orders, history
  <2> QED BY <1>1, <1>2, <1>3, <2>1
<1>5. CASE ConnectFails
  <2>1. Same /\ sock' = None /\ toAck' = toAck /\ (known # None => known' = known)
    BY <1>5 DEF ConnectFails, Asked, orders, world, history
  <2> QED BY <1>1, <1>2, <1>3, <2>1
<1>6. CASE Send \/ SendDropped
  <2>1. /\ reports' \in {reports, reports \ Settled} /\ toAck' = {}
        /\ UNCHANGED <<marked, lost, made, sock, known>>
        /\ at = "send"
    BY <1>6 DEF Send, SendDropped, orders, history
  <2>2. sock = known
    BY <2>1 DEF TypeOK, NotedInv
  <2>3. NotedInv'
    BY <2>1 DEF NotedInv
  <2>4. ASSUME NEW r \in reports, r.origin = None, r \notin reports' PROVE r.cmd \in marked \cup lost
    BY <2>1, <2>2, <2>4 DEF Settled, NotedInv
  <2> QED BY <2>1, <2>3, <2>4 DEF DoneIsSaved
<1>7. CASE SendFails \/ Restart
  BY <1>2, <1>7 DEF SendFails, Restart, Close, orders, world, history
<1>8. CASE LoseConnection
  BY <1>1, <1>8 DEF LoseConnection, Close, orders, world, history
<1>9. ASSUME NEW r \in reports, HandleReport(r) \/ HandleError(r) \/ ReportNotSaved(r)
      PROVE  NotedInv' /\ DoneIsSaved'
  <2>1. /\ UNCHANGED <<reports, made, sock, known>> /\ toAck' = toAck \cup {r.num}
        /\ marked \subseteq marked' /\ lost \subseteq lost' /\ r.world = sock
        /\ r.origin = None => r.cmd \in marked' \cup lost'
    <3>1. CASE HandleReport(r)
      BY <3>1 DEF HandleReport, world
    <3>2. CASE HandleError(r)
      BY <3>2 DEF HandleError, world, history
    <3>3. CASE ReportNotSaved(r)
      BY <3>3 DEF ReportNotSaved, orders, world
    <3> QED BY <1>9, <3>1, <3>2, <3>3
  <2>2. sock = known
    BY <2>1 DEF NotedInv, TypeOK, Open
  <2>3. NotedInv'
    BY <2>1, <2>2 DEF NotedInv
  <2> QED BY <2>1, <2>3 DEF DoneIsSaved
<1>10. ASSUME NEW g \in got, CarryOut(g) \/ Refuse(g) PROVE NotedInv' /\ DoneIsSaved'
  <2>1. PICK n \in Numbers, o \in Numbers \cup {None} :
          /\ ~\E r \in reports : r.world = g.world /\ r.num = n
          /\ reports' = reports \cup {[world |-> g.world, num |-> n, cmd |-> g.cmd, origin |-> o]}
          /\ made' = made \/ (made' = made \cup {g.cmd} /\ o = None)
    BY <1>10 DEF CarryOut, Refuse, Report, TypeOK, Command
  <2>2. UNCHANGED <<marked, lost, known, sock, toAck>>
    BY <1>10 DEF CarryOut, Refuse, orders, history
  <2> DEFINE new == [world |-> g.world, num |-> n, cmd |-> g.cmd, origin |-> o]
  <2>3. new.world = g.world /\ new.num = n /\ new.cmd = g.cmd /\ new.origin = o
        /\ reports' = reports \cup {new}
    BY <2>1
  <2> HIDE DEF new
  <2>4. ~(new.world = known /\ new.num \in toAck)
    BY <2>1, <2>3 DEF NotedInv
  <2>5. NotedInv'
    BY <2>1, <2>2, <2>3, <2>4 DEF NotedInv
  <2>6. DoneIsSaved'
    BY <2>1, <2>2, <2>3 DEF DoneIsSaved
  <2> QED BY <2>5, <2>6
<1>11. CASE UNCHANGED vars
  BY <1>1, <1>11 DEF vars, orders, world, history, NotedInv
<1>12. CASE Proceed \/ EndSync \/ Tear
  BY <1>1, <1>12 DEF Proceed, EndSync, Tear, orders, world, history, NotedInv
<1>13. ASSUME NEW n \in Numbers, Acknowledged(n) \/ \E c \in Commands : Queue(c, n)
       PROVE  NotedInv' /\ DoneIsSaved'
  BY <1>1, <1>13 DEF Acknowledged, Queue, orders, world, history, NotedInv
<1> QED
  BY <1>4, <1>5, <1>6, <1>7, <1>8, <1>9, <1>10, <1>11, <1>12, <1>13 DEF Next, Client, World

-----------------------------------------------------------------------------
(* Sending again makes the world do nothing twice.                         *)

Clean == OneNumberOneCommand /\ OpenIsQueued /\ MadeIsSeen /\ ReportsAreTrue /\ twice = {}

\* Nothing of the commands changes, and reports are only taken away.
LEMMA CleanStill ==
  ASSUME Clean, UNCHANGED <<got, byKey, bySeq, made, known, twice>>,
         marked \subseteq marked', reports' \subseteq reports
  PROVE  Clean'
<1>1. OneNumberOneCommand' /\ OpenIsQueued'
  BY DEF Clean, OneNumberOneCommand, OpenIsQueued
<1>2. MadeIsSeen'
  BY DEF Clean, MadeIsSeen, Queued
<1>3. ReportsAreTrue'
  BY DEF Clean, ReportsAreTrue
<1> QED BY <1>1, <1>2, <1>3 DEF Clean

\* A command that is queued and not done gets a number of its own, at both ends.
LEMMA CleanQueue ==
  ASSUME TypeOK, MapsAgree, Clean, ~restarted,
         NEW c \in Commands, NEW n \in Numbers, Queue(c, n)
  PROVE  Clean'
<1> USE AmazonWorldAssumption
<1>1. /\ byKey' = [byKey EXCEPT ![c] = n] /\ bySeq' = [bySeq EXCEPT ![n] = c]
      /\ got' = {g \in got : g.num # n}
      /\ UNCHANGED <<made, marked, known, twice, reports>>
      /\ c \notin marked /\ byKey[c] = None /\ bySeq[n] = None
      /\ ~\E r \in reports : r.origin = n
      /\ ~\E g \in got : g.num = n /\ ~g.done
  BY DEF Queue, IsNew, Wanted, Queued, orders
<1>2. /\ byKey \in [Commands -> Numbers \cup {None}]
      /\ bySeq \in [Numbers -> Commands \cup {None}]
      /\ c # None
      /\ \A g \in got : g.cmd \in Commands /\ g.num \in Numbers
      /\ \A r \in reports : r.origin \in Numbers \cup {None}
      /\ made \subseteq Commands
  BY DEF TypeOK, Command, Open, Commands
<1>3. /\ byKey'[c] = n /\ bySeq'[n] = c
      /\ \A d \in Commands : d # c => byKey'[d] = byKey[d]
      /\ \A m \in Numbers : m # n => bySeq'[m] = bySeq[m]
  BY <1>1, <1>2
<1>4. c \notin made
  BY <1>1 DEF Clean, MadeIsSeen
<1>5. OneNumberOneCommand'
  BY <1>1, <1>2, <1>3 DEF Clean, OneNumberOneCommand
<1>6. OpenIsQueued'
  <2> SUFFICES ASSUME NEW g \in got', ~g.done
               PROVE  byKey'[g.cmd] = g.num /\ g.cmd \notin made
    BY <1>1 DEF OpenIsQueued
  <2>1. g \in got /\ byKey[g.cmd] = g.num /\ g.cmd \notin made
    BY <1>1 DEF Clean, OpenIsQueued
  <2>2. g.cmd # c
    BY <1>1, <1>2, <2>1
  <2> QED BY <1>2, <1>3, <2>1, <2>2
<1>7. MadeIsSeen'
  <2>1. ASSUME NEW d \in made PROVE d \in marked \/ byKey'[d] # None
    <3>1. d # c /\ d \in Commands
      BY <1>2, <1>4
    <3> QED BY <1>3, <3>1 DEF Clean, MadeIsSeen
  <2>2. ASSUME NEW m \in Numbers, bySeq'[m] # None, bySeq'[m] \in made
        PROVE  \E g \in got' : g.num = m
    <3>1. m # n
      BY <1>3, <1>4, <2>2
    <3>2. PICK g \in got : g.num = m
      BY <1>3, <2>2, <3>1 DEF Clean, MadeIsSeen, Queued
    <3> QED BY <1>1, <3>1, <3>2
  <2> QED BY <1>1, <2>1, <2>2 DEF MadeIsSeen, Queued
<1>8. ReportsAreTrue'
  <2> SUFFICES ASSUME NEW r \in reports
               PROVE  /\ r.origin = None => r.cmd \in made
                      /\ r.origin # None =>
                           /\ \E g \in got' : g.num = r.origin /\ g.cmd = r.cmd /\ g.done
                           /\ bySeq'[r.origin] # None => r.cmd \notin made
    BY <1>1 DEF ReportsAreTrue
  <2>1. r.origin # n
    BY <1>1
  <2>2. r.origin # None => bySeq'[r.origin] = bySeq[r.origin]
    BY <1>2, <1>3, <2>1
  <2> QED BY <1>1, <2>1, <2>2 DEF Clean, ReportsAreTrue
<1> QED BY <1>1, <1>5, <1>6, <1>7, <1>8 DEF Clean

\* A message brings the world the commands whose numbers it has not seen.
LEMMA CleanSend ==
  ASSUME TypeOK, MapsAgree, NotedInv, Clean, at = "send",
         NEW nums \in SUBSET Queued, got' = Delivered(nums),
         reports' \subseteq reports,
         UNCHANGED <<byKey, bySeq, made, marked, known, twice>>
  PROVE  Clean'
<1> USE AmazonWorldAssumption
<1> DEFINE new(n) == [world |-> sock, num |-> n, cmd |-> bySeq[n], done |-> FALSE]
<1>1. sock = known
  BY DEF TypeOK, NotedInv
<1>2. \A g \in got' : \/ g \in got
                      \/ /\ g.num \in nums /\ g.world = known /\ g.cmd = bySeq[g.num] /\ ~g.done
                         /\ g = new(g.num)
                         /\ ~\E h \in got : h.num = g.num
  BY <1>1 DEF Delivered, Clean, OneNumberOneCommand
<1> HIDE DEF new
<1>3. got \subseteq got'
  BY DEF Delivered
<1>4. \A n \in nums : n \in Queued /\ n \in Numbers /\ bySeq[n] \in Commands /\ byKey[bySeq[n]] = n
  BY DEF TypeOK, Queued, MapsAgree
<1>5. OneNumberOneCommand'
  <2>1. \A g \in got' : g.world = known /\ bySeq[g.num] \in {None, g.cmd}
    BY <1>2 DEF Clean, OneNumberOneCommand
  <2>2. \A g, h \in got' : g.num = h.num => g = h
    BY <1>2 DEF Clean, OneNumberOneCommand
  <2> QED BY <2>1, <2>2 DEF OneNumberOneCommand
<1>6. OpenIsQueued'
  <2> SUFFICES ASSUME NEW g \in got', ~g.done, g \notin got
               PROVE  byKey[g.cmd] = g.num /\ g.cmd \notin made
    BY DEF Clean, OpenIsQueued
  <2> QED BY <1>2, <1>4 DEF Clean, MadeIsSeen
<1>7. MadeIsSeen'
  BY <1>3 DEF Clean, MadeIsSeen, Queued
<1>8. ReportsAreTrue'
  BY <1>3 DEF Clean, ReportsAreTrue
<1> QED BY <1>5, <1>6, <1>7, <1>8 DEF Clean

\* A report takes a command from the queue that is not open, and that is
\* marked if it is done.
LEMMA CleanComplete ==
  ASSUME TypeOK, MapsAgree, Clean, NEW n \in Numbers, Complete(n),
         UNCHANGED <<got, made, known, twice, reports>>, marked \subseteq marked',
         bySeq[n] # None => /\ bySeq[n] \in made => bySeq[n] \in marked'
                            /\ \A g \in got : g.cmd = bySeq[n] => g.done
  PROVE  Clean'
<1> USE AmazonWorldAssumption
<1>1. /\ \A m \in Numbers : bySeq'[m] = IF m = n THEN None ELSE bySeq[m]
      /\ \A c \in Commands : byKey'[c] = IF bySeq[n] = c THEN None ELSE byKey[c]
  BY DEF Complete, TypeOK
<1>2. /\ \A g \in got : g.cmd \in Commands /\ g.num \in Numbers
      /\ \A r \in reports : r.origin \in Numbers \cup {None}
      /\ made \subseteq Commands
      /\ None \notin Commands
  BY DEF TypeOK, Command, Open, Commands
<1>3. OneNumberOneCommand'
  BY <1>1, <1>2 DEF Clean, OneNumberOneCommand
<1>4. OpenIsQueued'
  <2> SUFFICES ASSUME NEW g \in got, ~g.done
               PROVE  byKey'[g.cmd] = g.num /\ g.cmd \notin made
    BY DEF OpenIsQueued
  <2>1. byKey[g.cmd] = g.num /\ g.cmd \notin made
    BY DEF Clean, OpenIsQueued
  <2>2. bySeq[n] # g.cmd
    BY <1>2
  <2> QED BY <1>1, <1>2, <2>1, <2>2
<1>5. MadeIsSeen'
  <2>1. ASSUME NEW c \in made PROVE c \in marked' \/ byKey'[c] # None
    BY <1>1, <1>2, <2>1 DEF Clean, MadeIsSeen
  <2>2. ASSUME NEW m \in Numbers, bySeq'[m] # None, bySeq'[m] \in made
        PROVE  \E g \in got : g.num = m
    BY <1>1, <2>2 DEF Clean, MadeIsSeen, Queued
  <2> QED BY <2>1, <2>2 DEF MadeIsSeen, Queued
<1>6. ReportsAreTrue'
  BY <1>1, <1>2 DEF Clean, ReportsAreTrue
<1> QED BY <1>3, <1>4, <1>5, <1>6 DEF Clean

LEMMA CleanReport ==
  ASSUME TypeOK, MapsAgree, Clean, NEW r \in reports, HandleReport(r), ~misread'
  PROVE  Clean'
<1>1. /\ Complete(r.num) /\ r.num \in Numbers /\ r.cmd \in marked'
      /\ r.cmd \in made /\ bySeq[r.num] \in {None, r.cmd}
      /\ UNCHANGED <<got, made, known, twice, reports>> /\ marked \subseteq marked'
  BY DEF HandleReport, world, TypeOK, Open, Clean, ReportsAreTrue
<1>2. \A g \in got : g.cmd = r.cmd => g.done
  BY <1>1 DEF Clean, OpenIsQueued
<1> QED BY <1>1, <1>2, CleanComplete

LEMMA CleanError ==
  ASSUME TypeOK, MapsAgree, Clean, NEW r \in reports, HandleError(r)
  PROVE  Clean'
<1>1. /\ Complete(r.origin) /\ r.origin \in Numbers /\ r.origin # None
      /\ UNCHANGED <<got, made, known, twice, reports, marked>>
  BY DEF HandleError, world, TypeOK, Open
<1>2. PICK g \in got : g.num = r.origin /\ g.cmd = r.cmd /\ g.done
  BY <1>1 DEF Clean, ReportsAreTrue
<1>3. bySeq[r.origin] \in {None, r.cmd}
  BY <1>2 DEF Clean, OneNumberOneCommand
<1>4. bySeq[r.origin] # None => r.cmd \notin made
  BY <1>1 DEF Clean, ReportsAreTrue
<1>5. ASSUME bySeq[r.origin] = r.cmd, NEW h \in got, h.cmd = r.cmd, ~h.done
      PROVE  FALSE
  <2>1. byKey[r.cmd] = h.num
    BY <1>5 DEF Clean, OpenIsQueued
  <2>2. byKey[r.cmd] = r.origin
    BY <1>1, <1>5 DEF MapsAgree, TypeOK, Open
  <2>3. h = g
    BY <1>2, <2>1, <2>2 DEF Clean, OneNumberOneCommand
  <2> QED BY <1>2, <1>5, <2>3
<1> QED BY <1>1, <1>3, <1>4, <1>5, CleanComplete

\* The world does, or refuses, a command it has still to do.
LEMMA CleanWorld ==
  ASSUME TypeOK, MapsAgree, Clean, NEW g \in got, CarryOut(g) \/ Refuse(g)
  PROVE  Clean'
<1> DEFINE done == [g EXCEPT !.done = TRUE]
<1>0. g \in Command
  BY DEF TypeOK
<1>1. done.world = g.world /\ done.num = g.num /\ done.cmd = g.cmd
  BY <1>0 DEF Command
<1>2. done.done
  BY <1>0 DEF Command
<1>3. /\ ~g.done /\ got' = (got \ {g}) \cup {done}
      /\ UNCHANGED <<byKey, bySeq, marked, known>>
  BY DEF CarryOut, Refuse, orders, queue
<1> HIDE DEF done
<1>4. byKey[g.cmd] = g.num /\ g.cmd \notin made
  BY <1>3 DEF Clean, OpenIsQueued
<1>5. \/ made' = made /\ twice' = twice
      \/ made' = made \cup {g.cmd} /\ twice' = twice
  BY <1>4 DEF CarryOut, Refuse
<1>6. OneNumberOneCommand'
  <2>1. \A h \in got' : h.world = known /\ bySeq[h.num] \in {None, h.cmd}
    BY <1>1, <1>3 DEF Clean, OneNumberOneCommand
  <2>2. \A h, k \in got' : h.num = k.num => h = k
    BY <1>1, <1>3 DEF Clean, OneNumberOneCommand
  <2> QED BY <1>3, <2>1, <2>2 DEF OneNumberOneCommand
<1>7. OpenIsQueued'
  <2> SUFFICES ASSUME NEW h \in got', ~h.done
               PROVE  byKey[h.cmd] = h.num /\ h.cmd \notin made'
    BY <1>3 DEF OpenIsQueued
  <2>1. h \in got /\ h # g
    BY <1>2, <1>3
  <2>2. byKey[h.cmd] = h.num /\ h.cmd \notin made
    BY <2>1 DEF Clean, OpenIsQueued
  <2>3. h.cmd # g.cmd
    BY <1>4, <2>1, <2>2 DEF Clean, OneNumberOneCommand
  <2> QED BY <1>5, <2>2, <2>3
<1>8. MadeIsSeen'
  <2>n. g.num # None /\ g.num \in Numbers /\ g.cmd \in Commands
    BY <1>0, AmazonWorldAssumption DEF Command
  <2>1. \A c \in made' : c \in marked \/ byKey[c] # None
    BY <1>4, <1>5, <2>n DEF Clean, MadeIsSeen
  <2>2. ASSUME NEW n \in Queued, bySeq[n] \in made'
        PROVE  \E h \in got' : h.num = n
    <3>1. CASE bySeq[n] \in made
      <4>1. PICK h \in got : h.num = n
        BY <3>1 DEF Clean, MadeIsSeen
      <4> QED BY <1>1, <1>3, <4>1
    <3>2. CASE bySeq[n] = g.cmd
      <4>1. n = g.num
        BY <1>4, <2>n, <3>2 DEF MapsAgree, Queued
      <4> QED BY <1>1, <1>3, <4>1
    <3> QED BY <1>5, <2>2, <3>1, <3>2
  <2> QED BY <1>3, <2>1, <2>2 DEF MadeIsSeen, Queued
<1>9. ReportsAreTrue'
  <2>1. PICK n \in Numbers, o \in Numbers \cup {None} :
          /\ reports' = reports \cup {[world |-> g.world, num |-> n, cmd |-> g.cmd, origin |-> o]}
          /\ \/ o = None /\ made' = made \cup {g.cmd}
             \/ o = g.num /\ made' = made
    BY <1>0 DEF CarryOut, Refuse, Report, Command
  <2> DEFINE new == [world |-> g.world, num |-> n, cmd |-> g.cmd, origin |-> o]
  <2>2. new.cmd = g.cmd /\ new.origin = o
    OBVIOUS
  <2>n. g.num # None
    BY <1>0, AmazonWorldAssumption DEF Command
  <2> HIDE DEF new
  <2>3. \A r \in reports' : r \in reports \/ r = new
    BY <2>1 DEF new
  <2>4. ASSUME NEW r \in reports
        PROVE  /\ r.origin = None => r.cmd \in made'
               /\ r.origin # None =>
                    /\ \E h \in got' : h.num = r.origin /\ h.cmd = r.cmd /\ h.done
                    /\ bySeq[r.origin] # None => r.cmd \notin made'
    <3>1. CASE r.origin = None
      BY <1>5, <3>1 DEF Clean, ReportsAreTrue
    <3>2. CASE r.origin # None
      <4>1. PICK h \in got : h.num = r.origin /\ h.cmd = r.cmd /\ h.done
        BY <3>2 DEF Clean, ReportsAreTrue
      <4>2. h \in got'
        BY <1>3, <4>1
      <4>3. ASSUME bySeq[r.origin] # None, r.cmd = g.cmd PROVE FALSE
        <5>1. bySeq[h.num] = g.cmd
          BY <4>1, <4>3 DEF Clean, OneNumberOneCommand
        <5>2. byKey[g.cmd] = h.num
          BY <1>0, <4>1, <5>1 DEF MapsAgree, TypeOK, Command
        <5>3. h = g
          BY <1>4, <5>2 DEF Clean, OneNumberOneCommand
        <5> QED BY <1>3, <4>1, <5>3
      <4>4. bySeq[r.origin] # None => r.cmd \notin made
        BY <3>2 DEF Clean, ReportsAreTrue
      <4> QED BY <1>5, <3>2, <4>1, <4>2, <4>3, <4>4
    <3> QED BY <3>1, <3>2
  <2>5. /\ new.origin = None => new.cmd \in made'
        /\ new.origin # None =>
             /\ \E h \in got' : h.num = new.origin /\ h.cmd = new.cmd /\ h.done
             /\ new.cmd \notin made'
    BY <1>1, <1>2, <1>3, <1>4, <2>1, <2>2, <2>n
  <2> QED BY <1>3, <2>3, <2>4, <2>5 DEF ReportsAreTrue
<1> QED BY <1>5, <1>6, <1>7, <1>8, <1>9 DEF Clean

LEMMA OnceStep ==
  ASSUME TypeOK, MapsAgree, NotedInv, OnceInv, [Next]_vars
  PROVE  OnceInv'
<1> SUFFICES ASSUME ~misread', ~restarted' PROVE Clean'
  BY DEF OnceInv, Clean
<1>1. ~misread /\ ~restarted /\ ~Restart
  <2>1. ~Restart
    BY DEF Restart
  <2>2. ASSUME NEW r \in reports, HandleReport(r) PROVE ~misread /\ ~restarted
    BY <2>2 DEF HandleReport
  <2>3. ASSUME UNCHANGED <<misread, restarted>> PROVE ~misread /\ ~restarted
    BY <2>3
  <2>4. ASSUME ~\E r \in reports : HandleReport(r) PROVE UNCHANGED <<misread, restarted>>
    BY <2>1, <2>4
    DEF Next, Client, World, Connect, ConnectNotSaved, ConnectFails, Proceed, Queue,
        Send, SendDropped, SendFails, Acknowledged, HandleError, ReportNotSaved,
        EndSync, Tear, LoseConnection, CarryOut, Refuse, history, vars
  <2> QED BY <2>1, <2>2, <2>3, <2>4
<1>2. Clean
  BY <1>1 DEF OnceInv, Clean
<1>3. ASSUME NEW w \in Worlds, Connect(w) \/ ConnectNotSaved(w) PROVE Clean'
  <2>1. /\ UNCHANGED <<got, byKey, bySeq, made, twice, marked, reports>>
        /\ known' = w /\ (known # None => w = known)
    BY <1>3 DEF Connect, ConnectNotSaved, Opened, Asked, orders, queue
  <2>2. CASE known = None
    <3>1. got = {}
      BY <1>2, <2>2, AmazonWorldAssumption
         DEF Clean, OneNumberOneCommand, TypeOK, Command
    <3>2. OneNumberOneCommand'
      BY <2>1, <3>1 DEF OneNumberOneCommand
    <3>3. OpenIsQueued' /\ MadeIsSeen' /\ ReportsAreTrue' /\ twice' = {}
      BY <1>2, <2>1 DEF Clean, OpenIsQueued, MadeIsSeen, ReportsAreTrue, Queued
    <3> QED BY <3>2, <3>3 DEF Clean
  <2>3. CASE known # None
    BY <1>2, <2>1, <2>3, CleanStill
  <2> QED BY <2>2, <2>3
<1>4. CASE ConnectFails
  <2>1. /\ UNCHANGED <<got, byKey, bySeq, made, twice, marked, reports>>
        /\ (known # None => known' = known)
    BY <1>4 DEF ConnectFails, Asked, orders, queue, world
  <2>2. CASE known = None
    <3>1. got = {}
      BY <1>2, <2>2, AmazonWorldAssumption
         DEF Clean, OneNumberOneCommand, TypeOK, Command
    <3>2. OneNumberOneCommand'
      BY <2>1, <3>1 DEF OneNumberOneCommand
    <3>3. OpenIsQueued' /\ MadeIsSeen' /\ ReportsAreTrue' /\ twice' = {}
      BY <1>2, <2>1 DEF Clean, OpenIsQueued, MadeIsSeen, ReportsAreTrue, Queued
    <3> QED BY <3>2, <3>3 DEF Clean
  <2>3. CASE known # None
    BY <1>2, <2>1, <2>3, CleanStill
  <2> QED BY <2>2, <2>3
<1>5. ASSUME NEW c \in Commands, NEW n \in Numbers, Queue(c, n) PROVE Clean'
  BY <1>1, <1>2, <1>5, CleanQueue
<1>6. CASE Send \/ SendDropped
  <2>1. PICK nums \in SUBSET Queued : got' = Delivered(nums)
    BY <1>6 DEF Send, SendDropped, Due
  <2>2. /\ at = "send" /\ reports' \subseteq reports
        /\ UNCHANGED <<byKey, bySeq, made, marked, known, twice>>
    BY <1>6 DEF Send, SendDropped, orders, queue, history
  <2> QED BY <1>2, <2>1, <2>2, CleanSend
<1>7. ASSUME NEW r \in reports, HandleReport(r) PROVE Clean'
  BY <1>2, <1>7, CleanReport
<1>8. ASSUME NEW r \in reports, HandleError(r) PROVE Clean'
  BY <1>2, <1>8, CleanError
<1>9. ASSUME NEW g \in got, CarryOut(g) \/ Refuse(g) PROVE Clean'
  BY <1>2, <1>9, CleanWorld
<1>10. CASE Proceed \/ SendFails \/ EndSync \/ Tear \/ LoseConnection \/ UNCHANGED vars
  BY <1>2, <1>10, CleanStill
     DEF Proceed, SendFails, EndSync, Tear, LoseConnection, Close, vars, orders, queue, world
<1>11. ASSUME NEW n \in Numbers, Acknowledged(n) PROVE Clean'
  BY <1>2, <1>11, CleanStill DEF Acknowledged, orders, world
<1>12. ASSUME NEW r \in reports, ReportNotSaved(r) PROVE Clean'
  BY <1>2, <1>12, CleanStill DEF ReportNotSaved, orders, queue, world
<1> QED
  BY <1>1, <1>3, <1>4, <1>5, <1>6, <1>7, <1>8, <1>9, <1>10, <1>11, <1>12
     DEF Next, Client, World

-----------------------------------------------------------------------------
LEMMA StepIInv == IInv /\ [Next]_vars => IInv'
BY TypeStep, MapsStep, WorldStep, NotedStep, OnceStep DEF IInv

\* The strengthening (IInv) is an invariant of the client, the rows and the
\* world (world_client.py as the worker uses it).
THEOREM Inductive == Spec => []IInv
BY InitIInv, StepIInv, PTL DEF Spec

\* Every variable keeps its type; inside sync_once there is a socket, and
\* whatever has been acknowledged is still queued (TypeOK).
THEOREM ClientTypeCorrect == Spec => []TypeOK
<1>1. IInv => TypeOK
  BY DEF IInv
<1> QED BY <1>1, Inductive, PTL

\* The maps by key and by number hold the same commands (MapsAgree), whichever
\* command a report completes.
THEOREM MapsAgreeHolds == Spec => []MapsAgree
<1>1. IInv => MapsAgree
  BY DEF IInv
<1> QED BY <1>1, Inductive, PTL

\* As long as the world id could be saved, all commands go to that world
\* (OneWorld), over connections and deaths.
THEOREM OneWorldHolds == Spec => []OneWorld
<1>1. IInv => OneWorld
  BY DEF IInv, WorldInv, OneWorld
<1> QED BY <1>1, Inductive, PTL

\* What the world has done is saved, or its report is open, or the save of it
\* has failed (DoneIsSaved): an acknowledgement never comes first.
THEOREM DoneIsSavedHolds == Spec => []DoneIsSaved
<1>1. IInv => DoneIsSaved
  BY DEF IInv
<1> QED BY <1>1, Inductive, PTL

\* However often commands are sent again, over whatever connections, the world
\* does none of them twice, unless a report was read as one of another command
\* or the worker has started again (RetriesAreHarmless).
THEOREM RetriesAreHarmlessHolds == Spec => []RetriesAreHarmless
<1>1. IInv => RetriesAreHarmless
  BY DEF IInv, OnceInv, RetriesAreHarmless
<1> QED BY <1>1, Inductive, PTL
=============================================================================
