-------------------------- MODULE UpsSession_proofs --------------------------
(***************************************************************************)
(* What the handshake logic of UpsSession guarantees for any set of world  *)
(* ids and any number of faults.                                           *)
(***************************************************************************)
EXTENDS UpsSession, TLAPS

\* The flag of the row means what it says as long as a process lives that the
\* script started.
FlagMeansShaken ==
  /\ started = "script" /\ session.connected /\ pc # "down"
       => client = "open" /\ link # "fresh"
  /\ pc \notin {"sleep", "down"} => client # "none"
  /\ pc \in {"dispatch", "receive"} => session.connected
  /\ pc \in {"again", "anew"} => ~session.connected

\* What each attempt may rely on: the second leaves out the trucks only for a
\* world that has them, the third only follows the loss of the world.
AttemptMatches ==
  /\ pc = "down" => link = "none"
  /\ link = "ready" => session.world \in fleet
  /\ pc = "again" => link # "none" /\ (link = "broken" \/ session.world \in fleet)
  /\ pc = "anew" => session.world = None

-----------------------------------------------------------------------------

\* Type correctness: a connection exists exactly while the client object
\* holds a socket, and only existing worlds hold the trucks.
THEOREM SessionTypeCorrect == Spec => []TypeOK
<1> USE UpsSessionAssumption
<1>1. Init => TypeOK
  <2> SUFFICES ASSUME Init PROVE TypeOK
    OBVIOUS
  <2>1. session \in [connected : BOOLEAN, world : Worlds \cup {None}]
    <3>1. PICK w \in Worlds : session \in [connected : {FALSE}, world : {w, None}]
      BY DEF Init
    <3> QED  BY <3>1
  <2>2. worlds \subseteq Worlds /\ fleet \subseteq worlds
    BY DEF Init
  <2>3. started \in {"script", "hand"} /\ stray \subseteq {"script", "hand"}
    BY DEF Init
  <2>4. (client = "open") <=> (link # "none")
    BY DEF Init
  <2> QED  BY <2>1, <2>2, <2>3, <2>4 DEF Init, TypeOK, Phases
<1>2. TypeOK /\ [Next]_vars => TypeOK'
  <2> SUFFICES ASSUME TypeOK, [Next]_vars PROVE TypeOK'
    OBVIOUS
  <2> USE DEF TypeOK, Phases, Goto, Flag
  <2>1. ASSUME NEW w, NEW t \in BOOLEAN, Accepted(w, t), w \in Worlds \cup {None}
        PROVE  TypeOK'
    <3>1. PICK u \in Worlds : /\ worlds' = worlds \cup {u}
                              /\ fleet' = IF t THEN fleet \cup {u} ELSE fleet
                              /\ session' = [connected |-> TRUE, world |-> u]
      BY <2>1 DEF Accepted
    <3>2. session' \in [connected : BOOLEAN, world : Worlds \cup {None}]
      BY <3>1
    <3>3. worlds' \subseteq Worlds /\ fleet' \subseteq worlds'
      BY <3>1
    <3>4. UNCHANGED <<faults, started, stray>> /\ pc' \in Phases
          /\ client' = "open" /\ link' = "ready"
      BY <2>1 DEF Accepted
    <3> QED  BY <3>2, <3>3, <3>4
  <2>2. CASE Handshake
    <3>1. CASE Connect
      BY <2>1, <3>1 DEF Connect
    <3>2. CASE ConnectAgain
      BY <2>1, <3>2 DEF ConnectAgain
    <3>3. CASE ConnectAnew
      BY <2>1, <3>3 DEF ConnectAnew
    <3>4. CASE ConnectDuplicate
      BY <3>4 DEF ConnectDuplicate
    <3>5. CASE ConnectUnavailable
      BY <3>5 DEF ConnectUnavailable
    <3> QED  BY <2>2, <3>1, <3>2, <3>3, <3>4, <3>5 DEF Handshake
  <2>3. CASE StartPoll \/ SkipHandshake \/ Dispatch \/ Receive
    BY <2>3 DEF StartPoll, SkipHandshake, Dispatch, Receive, Opened
  <2>4. CASE HandshakeFails \/ ReadError
    BY <2>4 DEF HandshakeFails, ReadError, Disconnect
  <2>5. CASE Finished \/ DropConnection \/ SimulatorRestarts \/ Die
    <3>1. faults' \in 0..MaxFaults
      BY <2>5 DEF Finished, DropConnection, SimulatorRestarts, Die, Fault
    <3>2. CASE Finished
      BY <3>1, <3>2 DEF Finished
    <3>3. CASE DropConnection
      BY <3>1, <3>3 DEF DropConnection
    <3>4. CASE SimulatorRestarts
      BY <3>1, <3>4 DEF SimulatorRestarts
    <3>5. CASE Die
      BY <3>1, <3>5 DEF Die
    <3> QED  BY <2>5, <3>2, <3>3, <3>4, <3>5
  <2>6. CASE StartAgain \/ RunScript
    <3>1. CASE StartAgain
      BY <3>1 DEF StartAgain
    <3>2. CASE RunScript
      <4>1. PICK w \in Worlds :
              /\ session' = [connected |-> FALSE, world |-> w]
              /\ \/ worlds' = {w} /\ fleet' = {}
                 \/ worlds' = worlds \cup {w} /\ fleet' = fleet
        BY <3>2 DEF RunScript
      <4>2. session' \in [connected : BOOLEAN, world : Worlds \cup {None}]
        BY <4>1
      <4>3. worlds' \subseteq Worlds /\ fleet' \subseteq worlds'
        BY <4>1
      <4> QED  BY <3>2, <4>2, <4>3 DEF RunScript
    <3> QED  BY <2>6, <3>1, <3>2
  <2>7. CASE UNCHANGED vars
    BY <2>7 DEF vars
  <2> QED  BY <2>2, <2>3, <2>4, <2>5, <2>6, <2>7 DEF Next, Poll
<1> QED  BY <1>1, <1>2, PTL DEF Spec

\* A daemon that start_docker_only.sh started never writes a command on a
\* connection without a handshake.
THEOREM ScriptHandshakesFirstHolds == Spec => []ScriptHandshakesFirst
<1>1. Init => FlagMeansShaken /\ ScriptHandshakesFirst
  BY DEF Init, FlagMeansShaken, ScriptHandshakesFirst
<1>2. TypeOK /\ FlagMeansShaken /\ ScriptHandshakesFirst
        /\ [Next]_vars
        => FlagMeansShaken' /\ ScriptHandshakesFirst'
  <2> SUFFICES ASSUME TypeOK, FlagMeansShaken, ScriptHandshakesFirst, [Next]_vars
               PROVE  FlagMeansShaken' /\ ScriptHandshakesFirst'
    OBVIOUS
  <2> USE DEF TypeOK, FlagMeansShaken, ScriptHandshakesFirst, Goto, Flag
  <2>1. CASE Handshake
    <3>1. CASE Connect
      BY <3>1 DEF Connect, Accepted
    <3>2. CASE ConnectAgain
      BY <3>2 DEF ConnectAgain, Accepted
    <3>3. CASE ConnectAnew
      BY <3>3 DEF ConnectAnew, Accepted
    <3>4. CASE ConnectDuplicate
      BY <3>4 DEF ConnectDuplicate, NeedsHandshake
    <3>5. CASE ConnectUnavailable
      BY <3>5 DEF ConnectUnavailable
    <3> QED  BY <2>1, <3>1, <3>2, <3>3, <3>4, <3>5 DEF Handshake
  <2>2. CASE StartPoll \/ SkipHandshake
    BY <2>2 DEF StartPoll, SkipHandshake, NeedsHandshake
  <2>3. CASE Dispatch \/ Receive
    BY <2>3 DEF Dispatch, Receive, Opened
  <2>4. CASE HandshakeFails \/ ReadError
    BY <2>4 DEF HandshakeFails, ReadError, Disconnect
  <2>5. CASE Finished \/ DropConnection \/ SimulatorRestarts \/ Die
    BY <2>5 DEF Finished, DropConnection, SimulatorRestarts, Die
  <2>6. CASE StartAgain \/ RunScript
    BY <2>6 DEF StartAgain, RunScript
  <2>7. CASE UNCHANGED vars
    BY <2>7 DEF vars
  <2> QED  BY <2>1, <2>2, <2>3, <2>4, <2>5, <2>6, <2>7 DEF Next, Poll
<1> QED  BY <1>1, <1>2, SessionTypeCorrect, PTL DEF Spec

\* Every attempt is made in the situation it is meant for.
LEMMA AttemptsMatch == Spec => []AttemptMatches
<1>1. Init => AttemptMatches
  BY DEF Init, AttemptMatches
<1>2. TypeOK /\ AttemptMatches /\ [Next]_vars => AttemptMatches'
  <2> SUFFICES ASSUME TypeOK, AttemptMatches, [Next]_vars PROVE AttemptMatches'
    OBVIOUS
  <2> USE DEF TypeOK, AttemptMatches, Goto, Flag
  <2>1. CASE Connect \/ ConnectAnew
    BY <2>1 DEF Connect, ConnectAnew, Accepted
  <2>2. CASE ConnectAgain
    <3>1. /\ pc = "again" /\ link # "broken" /\ session.world \in fleet
      <4>1. pc = "again" /\ Opened # "broken"
        BY <2>2 DEF ConnectAgain, Accepted
      <4> QED  BY <4>1 DEF Opened
    <3>2. \E u \in {session.world} \cap worlds :
             fleet' = fleet /\ session' = [connected |-> TRUE, world |-> u]
      BY <2>2, <3>1, UpsSessionAssumption DEF ConnectAgain, Accepted
    <3> QED  BY <2>2, <3>1, <3>2 DEF ConnectAgain, Accepted
  <2>3. CASE ConnectDuplicate \/ ConnectUnavailable
    BY <2>3 DEF ConnectDuplicate, ConnectUnavailable
  <2>4. CASE StartPoll \/ SkipHandshake \/ Dispatch \/ Receive
    BY <2>4 DEF StartPoll, SkipHandshake, Dispatch, Receive, Opened
  <2>5. CASE HandshakeFails \/ ReadError
    BY <2>5 DEF HandshakeFails, ReadError, Disconnect
  <2>6. CASE Finished \/ DropConnection \/ SimulatorRestarts \/ Die
              \/ StartAgain
    <3>1. session'.world = session.world
      BY <2>6 DEF Finished, DropConnection, SimulatorRestarts, Die,
             StartAgain
    <3>2. /\ link' \in {"none", "broken"} \/ UNCHANGED <<link, fleet>>
          /\ pc' # "anew" \/ UNCHANGED pc
          /\ pc' # "again" \/ link' \in {"none", "broken"} \/ UNCHANGED <<pc, link, fleet>>
      BY <2>6 DEF Finished, DropConnection, SimulatorRestarts, Die,
             StartAgain
    <3>3. (link' = "none" => pc' # "again") /\ (pc' = "down" => link' = "none")
      BY <2>6 DEF Finished, DropConnection, SimulatorRestarts, Die,
             StartAgain
    <3> QED  BY <3>1, <3>2, <3>3
  <2>7. CASE RunScript
    <3>1. pc = "down" /\ pc' = "sleep" /\ UNCHANGED <<client, link>>
      BY <2>7 DEF RunScript
    <3>2. link = "none"
      BY <3>1
    <3> QED  BY <3>1, <3>2
  <2>8. CASE UNCHANGED vars
    BY <2>8 DEF vars
  <2> QED
    BY <2>1, <2>2, <2>3, <2>4, <2>5, <2>6, <2>7, <2>8 DEF Next, Poll, Handshake
<1> QED  BY <1>1, <1>2, SessionTypeCorrect, PTL DEF Spec

\* Whichever handshake path was taken, commands only flow in a world that
\* knows the trucks.
THEOREM FleetRegisteredHolds == Spec => []FleetRegistered
<1>1. AttemptMatches => FleetRegistered
  BY DEF AttemptMatches, FleetRegistered
<1> QED  BY <1>1, AttemptsMatch, PTL

\* While the daemon runs, the id in the row changes only when the simulator
\* lost that world.
THEOREM LiveWorldIsKeptHolds == Spec => LiveWorldIsKept
<1>1. TypeOK /\ AttemptMatches /\ [Next]_vars =>
        [pc # "down" /\ session.world \in worlds
           => session'.world = session.world]_vars
  <2> SUFFICES ASSUME TypeOK, AttemptMatches, Next, pc # "down",
                      session.world \in worlds
               PROVE  session'.world = session.world
    OBVIOUS
  <2> USE UpsSessionAssumption DEF TypeOK, Goto, Flag
  <2>1. CASE Handshake
    <3>1. session.world # None
      OBVIOUS
    <3>2. ~ConnectAnew
      BY <3>1 DEF ConnectAnew, AttemptMatches
    <3> QED  BY <2>1, <3>1, <3>2
      DEF Handshake, Connect, ConnectDuplicate, ConnectAgain,
          ConnectUnavailable, ConnectAnew, Accepted
  <2>2. CASE ~Handshake
    BY <2>2
    DEF Next, Poll, StartPoll, SkipHandshake, HandshakeFails, Disconnect,
        Dispatch, Receive, ReadError, Finished, DropConnection,
        SimulatorRestarts, Die, StartAgain, RunScript
  <2> QED  BY <2>1, <2>2
<1> QED  BY <1>1, SessionTypeCorrect, AttemptsMatch, PTL DEF Spec, LiveWorldIsKept
=============================================================================
