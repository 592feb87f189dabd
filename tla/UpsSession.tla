----------------------------- MODULE UpsSession -----------------------------
(***************************************************************************)
(* The world connection of the UPS daemon: the WorldSession row, the live  *)
(* client object, the TCP connection behind it, the UConnect handshake     *)
(* with its two fallbacks, and the ways a connection ends                  *)
(* (run_world_daemon.py 70-83, 117-147, 260-336; client.py 24-74).         *)
(*                                                                         *)
(* The row outlives the process; the client object and the socket do not.  *)
(* The simulator is external: it knows which worlds exist, which of them   *)
(* hold the UPS trucks, and whether a connection completed UConnect.       *)
(***************************************************************************)
EXTENDS Integers, FiniteSets

CONSTANTS
  Worlds,             \* world ids the simulator may hand out
  None,               \* world_id NULL
  MaxFaults           \* bound: dropped connections, simulator restarts, deaths

ASSUME UpsSessionAssumption == None \notin Worlds /\ MaxFaults \in Nat

VARIABLES
  session,   \* the row: is_connected and world_id
  client,    \* _live_client: no object, an object without socket, with socket
  link,      \* external: the simulator's view of that socket
  worlds,    \* external: worlds the simulator holds
  fleet,     \* external: worlds in which the UPS trucks are registered
  pc,        \* where the daemon is in its poll
  faults,    \* faults so far
  started,   \* history: how the running daemon was started last
  stray      \* history: the starts after which a command was written on a
             \* socket before any handshake

vars == <<session, client, link, worlds, fleet, pc, faults, started, stray>>

Phases == {"sleep", "decide", "again", "anew", "dispatch", "receive", "down"}

\* Amazon created a world; the start script copied its id into the row.
Init ==
  /\ \E w \in Worlds :
       /\ worlds = {w}
       /\ session \in [connected : {FALSE}, world : {w, None}]
  /\ fleet = {}
  /\ client = "none"
  /\ link = "none"
  /\ pc = "sleep"
  /\ faults = 0
  /\ started = "script" /\ stray = {}

-----------------------------------------------------------------------------
(* The poll.                                                               *)

Goto(p) == pc' = p
Flag(b) == session' = [session EXCEPT !.connected = b]

\* A poll with something to send or to wait for; a poll with nothing to do
\* returns before it looks at the connection.  _get_or_create_client: the
\* object exists from here on, socket or not.
StartPoll ==
  /\ pc = "sleep" /\ Goto("decide")
  /\ client' = IF client = "none" THEN "closed" ELSE client
  /\ UNCHANGED <<session, link, worlds, fleet, faults, started, stray>>

\* needs_handshake, evaluated after the client object has been created.
NeedsHandshake == ~session.connected \/ client = "none"

SkipHandshake ==
  /\ pc = "decide" /\ ~NeedsHandshake /\ Goto("dispatch")
  /\ UNCHANGED <<session, client, link, worlds, fleet, faults, started, stray>>

\* client.open(): a socket is created only if the object has none.
Opened == IF client = "open" THEN link ELSE "fresh"

\* One UConnect and its UConnected "connected!" for world w.
Accepted(w, trucks) ==
  /\ Opened # "broken"
  /\ client' = "open" /\ link' = "ready"
  /\ \E u \in IF w = None THEN Worlds \ worlds ELSE {w} \cap worlds :
       /\ ~(trucks /\ u \in fleet)
       /\ worlds' = worlds \cup {u}
       /\ fleet' = IF trucks THEN fleet \cup {u} ELSE fleet
       /\ session' = [connected |-> TRUE, world |-> u]
  /\ Goto("dispatch")
  /\ UNCHANGED <<faults, started, stray>>

\* The first attempt always carries the trucks.
Connect ==
  /\ pc = "decide" /\ NeedsHandshake
  /\ Accepted(session.world, TRUE)

\* Wrong on purpose: a world that already has the trucks is abandoned.
ConnectDuplicateAnew ==
  /\ pc = "decide" /\ NeedsHandshake /\ Opened # "broken"
  /\ session.world \in worlds \cap fleet
  /\ session' = [connected |-> FALSE, world |-> None]
  /\ client' = "open" /\ link' = "fresh"
  /\ Goto("anew")
  /\ UNCHANGED <<worlds, fleet, faults, started, stray>>

\* "already exists": the world has the trucks; ask again without them.
ConnectDuplicate ==
  /\ pc = "decide" /\ NeedsHandshake /\ Opened # "broken"
  /\ session.world \in worlds \cap fleet
  /\ client' = "open" /\ link' = "fresh"
  /\ Goto("again")
  /\ UNCHANGED <<session, worlds, fleet, faults, started, stray>>

ConnectAgain ==
  /\ pc = "again" /\ Accepted(session.world, FALSE)

\* "world with world_id ... not available": forget the id, ask for a new world.
ConnectUnavailable ==
  /\ pc = "decide" /\ NeedsHandshake /\ Opened # "broken"
  /\ session.world \in Worlds \ worlds
  /\ session' = [connected |-> FALSE, world |-> None]
  /\ client' = "open" /\ link' = "fresh"
  /\ Goto("anew")
  /\ UNCHANGED <<worlds, fleet, faults, started, stray>>

\* Wrong on purpose: the new world is requested without the trucks.
ConnectAnewBare == pc = "anew" /\ Accepted(None, FALSE)

ConnectAnew == pc = "anew" /\ Accepted(None, TRUE)

\* Wrong on purpose: close() forgets to clear its socket.
DisconnectHalf ==
  /\ Flag(FALSE)
  /\ UNCHANGED client /\ link' = "none"
  /\ Goto("sleep")

\* _reset_live_client after the flag was cleared.
Disconnect ==
  /\ Flag(FALSE)
  /\ client' = "none" /\ link' = "none"
  /\ Goto("sleep")

\* Any other result string, a refused or dropped connection, a timeout.
HandshakeFails ==
  /\ \/ pc = "decide" /\ NeedsHandshake
     \/ pc \in {"again", "anew"}
  /\ Disconnect
  /\ UNCHANGED <<worlds, fleet, faults, started, stray>>

\* The dispatch loop: with something to send the bytes go out on whatever
\* socket the object has, a new one if it has none.
Dispatch ==
  /\ pc = "dispatch"
  /\ \/ /\ client' = "open" /\ link' = Opened
        /\ stray' = IF Opened = "fresh" THEN stray \cup {started} ELSE stray
     \/ UNCHANGED <<client, link, stray>>
  /\ Goto("receive")
  /\ UNCHANGED <<session, worlds, fleet, faults, started>>

\* Responses are applied and acknowledged, or none comes before the timeout.
Receive ==
  /\ pc = "receive" /\ Opened # "broken"
  /\ client' = "open" /\ link' = Opened
  /\ Goto("sleep")
  /\ UNCHANGED <<session, worlds, fleet, faults, started, stray>>

\* Wrong on purpose: the client is dropped, the flag is not.
ReadErrorKeepsFlag ==
  /\ pc = "receive" /\ link = "broken"
  /\ client' = "none" /\ link' = "none"
  /\ Goto("sleep")
  /\ UNCHANGED <<session, worlds, fleet, faults, started, stray>>

\* OSError or DecodeError while reading.
ReadError ==
  /\ pc = "receive" /\ link = "broken"
  /\ Disconnect
  /\ UNCHANGED <<worlds, fleet, faults, started, stray>>

Fault == faults < MaxFaults /\ faults' = faults + 1

\* Wrong on purpose: the socket is closed and the flag stays set.
FinishedKeepsFlag ==
  /\ pc = "receive" /\ link = "ready" /\ Fault
  /\ client' = "closed" /\ link' = "none"
  /\ Goto("sleep")
  /\ UNCHANGED <<session, worlds, fleet, started, stray>>

\* finished=true: the flag is cleared and the socket closed, but the client
\* object is kept.
Finished ==
  /\ pc = "receive" /\ link = "ready" /\ Fault
  /\ Flag(FALSE)
  /\ client' = "closed" /\ link' = "none"
  /\ Goto("sleep")
  /\ UNCHANGED <<worlds, fleet, started, stray>>

-----------------------------------------------------------------------------
(* Faults: the simulator and the process.                                  *)

DropConnection ==
  /\ link \in {"fresh", "ready"} /\ Fault
  /\ link' = "broken"
  /\ UNCHANGED <<session, client, worlds, fleet, pc, started, stray>>

SimulatorRestarts ==
  /\ Fault
  /\ worlds' = {} /\ fleet' = {}
  /\ link' = IF link = "none" THEN "none" ELSE "broken"
  /\ UNCHANGED <<session, client, pc, started, stray>>

\* An exception no handler names (BrokenPipe while dispatching, an invalid
\* length prefix, ...), a kill or a reboot.  Only the row survives.
Die ==
  /\ pc # "down" /\ Fault
  /\ client' = "none" /\ link' = "none"
  /\ Goto("down")
  /\ UNCHANGED <<session, worlds, fleet, started, stray>>

\* The container is started again by hand: the row stays as it is.
StartAgain ==
  /\ pc = "down" /\ Goto("sleep")
  /\ started' = "hand"
  /\ UNCHANGED <<session, client, link, worlds, fleet, faults, stray>>

\* start_docker_only.sh wipes both databases and, unless it runs on a virtual
\* machine of its own, the simulator; Amazon then creates a world w, whose id
\* goes into the row, whatever stood there.
RunScript ==
  /\ pc = "down" /\ Goto("sleep")
  /\ \E w \in Worlds :
       \/ /\ worlds' = {w} /\ fleet' = {}
          /\ session' = [connected |-> FALSE, world |-> w]
       \/ /\ w \notin worlds /\ worlds' = worlds \cup {w} /\ fleet' = fleet
          /\ session' = [connected |-> FALSE, world |-> w]
  /\ started' = "script"
  /\ UNCHANGED <<client, link, faults, stray>>

Handshake ==
  Connect \/ ConnectDuplicate \/ ConnectAgain \/ ConnectUnavailable \/ ConnectAnew

Poll ==
  \/ SkipHandshake \/ Handshake \/ HandshakeFails
  \/ Dispatch \/ Receive \/ ReadError

Next ==
  \/ StartPoll \/ Poll
  \/ Finished \/ DropConnection \/ SimulatorRestarts \/ Die
  \/ StartAgain \/ RunScript

Spec == Init /\ [][Next]_vars

\* A poll that has begun goes on, and the simulator does not refuse every
\* handshake for ever.  Nothing forces a poll to begin (without work it
\* returns before it looks at the connection) nor a dead daemon to be started.
FairSpec ==
  /\ Spec
  /\ WF_vars(Poll)
  /\ SF_vars(Connect) /\ SF_vars(ConnectDuplicate) /\ SF_vars(ConnectAgain)
  /\ SF_vars(ConnectUnavailable) /\ SF_vars(ConnectAnew)

-----------------------------------------------------------------------------
(* Properties.                                                             *)

\* The row, the client object and the socket fit together: only an object
\* with a socket has a connection.
TypeOK ==
  /\ session \in [connected : BOOLEAN, world : Worlds \cup {None}]
  /\ client \in {"none", "closed", "open"}
  /\ link \in {"none", "fresh", "ready", "broken"}
  /\ (client = "open") <=> (link # "none")
  /\ worlds \subseteq Worlds /\ fleet \subseteq worlds
  /\ pc \in Phases
  /\ faults \in 0..MaxFaults
  /\ started \in {"script", "hand"} /\ stray \subseteq {"script", "hand"}

\* "require handshake whenever this daemon has no active in-memory socket
\* yet" (run_world_daemon.py:269-270): no command is ever written on a
\* connection that has not completed UConnect.
HandshakeFirst == stray = {}

\* The start script clears the flag, so a daemon it started never writes a
\* command on a connection without handshake, however often the connection
\* ends, in whichever of the four ways, and whatever a daemon before it left.
ScriptHandshakesFirst == "script" \notin stray

\* While it sends commands on a working connection the daemon is in the world
\* its row names, and that world knows its trucks, whichever of the three
\* handshake paths it took.
FleetRegistered ==
  pc \in {"dispatch", "receive"} /\ link = "ready" =>
    session.world \in fleet

\* While a daemon runs, reconnecting never abandons a world that still exists:
\* the id in the row only changes when the simulator no longer has that world.
\* Between two runs of it the script may overwrite the id.
LiveWorldIsKept ==
  [][pc # "down" /\ session.world \in worlds => session'.world = session.world]_vars

\* As long as polls with work begin again and again in daemons the script
\* started, connections that break are replaced: again and again there is one
\* that completed the handshake.
AlwaysReconnects ==
  []<>(pc = "decide" /\ started = "script") => []<>(link = "ready")
=============================================================================
