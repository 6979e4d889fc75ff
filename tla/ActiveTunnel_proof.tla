-------------------------- MODULE ActiveTunnel_proof --------------------------
(***************************************************************************)
(* What a stop of one tunnel guarantees for any number of clients and any  *)
(* grace period.                                                           *)
(***************************************************************************)
EXTENDS ActiveTunnel, TLAPS

(* The invariant holds of a tunnel that has just been spawned. *)
LEMMA Initially == AtInit => AtInv
<1> SUFFICES ASSUME AtInit PROVE AtInv
  OBVIOUS
<1> USE GraceAssumption, PeerAssumption DEF AtInit, ShutdownInit, TcpInit, UdpInit, Worker, Running, Stage, Alive
<1>1. AtTypeOK
  <2>1. left \in [Worker -> 0..Grace] /\ drain_left \in 0..Grace /\ elapsed \in Nat
    OBVIOUS
  <2>2. conn \in [Conn -> Stage] /\ joinset \subseteq Conn /\ aborted \subseteq Conn
    OBVIOUS
  <2> QED
    BY <2>1, <2>2 DEF AtTypeOK
<1>2. Timers /\ StopIsPrompt
  BY DEF Timers, StopIsPrompt
<1>3. OwnedConnections /\ GraceIsGiven /\ FailuresAreLocal
  BY DEF OwnedConnections, GraceIsGiven, FailuresAreLocal
<1> QED
  BY <1>1, <1>2, <1>3 DEF AtInv

(* The steps of ActiveTunnel::stop. *)
LEMMA OwnerStep ==
  ASSUME AtInv, SendStop \/ Joiner, UNCHANGED <<tcpVars, udpVars>>
  PROVE  AtInv'
<1> USE GraceAssumption DEF AtInv, tcpVars, udpVars, Worker, Running
<1>1. CASE SendStop
  BY <1>1 DEF SendStop, AtTypeOK, Timers, StopIsPrompt, OwnedConnections, GraceIsGiven, FailuresAreLocal, Alive, Stage
<1>2. ASSUME NEW w \in Worker, JoinBegins(w) \/ Joined(w) \/ JoinTimesOut(w)
      PROVE  AtInv'
  <2>1. AtTypeOK'
    <3>1. /\ joining' \in [Worker -> {"no", "waiting", "aborting", "joined"}]
          /\ left' \in [Worker -> 0..Grace]
          /\ UNCHANGED <<stop_sent, handle, elapsed, broken>>
      BY <1>2 DEF JoinBegins, Joined, JoinTimesOut, AtTypeOK
    <3>2. \A v \in Worker : joining'[v] = "joined" => ~Running(v)
      BY <1>2 DEF JoinBegins, Joined, JoinTimesOut, AtTypeOK
    <3> QED
      BY <3>1, <3>2 DEF AtTypeOK
  <2>2. Timers'
    BY <1>2 DEF JoinBegins, Joined, JoinTimesOut, AtTypeOK, Timers, StopIsPrompt
  <2>3. StopIsPrompt' /\ OwnedConnections' /\ GraceIsGiven' /\ FailuresAreLocal'
    BY <1>2 DEF JoinBegins, Joined, JoinTimesOut, StopIsPrompt, OwnedConnections, GraceIsGiven, FailuresAreLocal, Alive
  <2> QED
    BY <2>1, <2>2, <2>3
<1> QED
  BY <1>1, <1>2 DEF Joiner

(* While the clock may move on somebody is still waited for, and nobody is *)
(* being aborted.                                                          *)
LEMMA TickStep ==
  ASSUME AtInv, Tick
  PROVE  AtInv'
<1> USE GraceAssumption DEF AtInv, Tick
<1>1. PICK w \in Worker : joining[w] # "joined"
  BY DEF Stopped
<1>2. joining[w] = "waiting" /\ left[w] > 0
  BY <1>1 DEF Due, TcpDue, UdpDue, AtTypeOK, Aborting, Worker
<1>3. elapsed < Grace
  BY <1>2 DEF Timers, AtTypeOK, Worker
<1>4. \A v \in Worker : joining[v] = "waiting" => left[v] > 0
  BY DEF Due, AtTypeOK
<1>5. \A v \in Worker : joining[v] \in {"waiting", "joined"}
  BY DEF Due, TcpDue, UdpDue, AtTypeOK, Aborting, Worker
<1>6. loop = "draining" => drain_left > 0
  BY DEF Due, TcpDue, AtTypeOK
<1>7. AtTypeOK'
  BY <1>4, <1>6 DEF AtTypeOK, TcpTick, Running, udpVars
<1>8. Timers'
  BY <1>4, <1>5, <1>6 DEF AtTypeOK, Timers, TcpTick
<1>9. StopIsPrompt' /\ OwnedConnections' /\ GraceIsGiven' /\ FailuresAreLocal'
  BY <1>3 DEF AtTypeOK, StopIsPrompt, OwnedConnections, GraceIsGiven, FailuresAreLocal, Alive, Running
<1> QED
  BY <1>7, <1>8, <1>9

(* The clients' and connections' steps, which leave the worker alone. *)
LEMMA TasksStep ==
  ASSUME AtInv, TcpTasks, UNCHANGED udpVars
  PROVE  AtInv'
<1> USE DEF AtInv
<1>1. PICK c \in Conn, stage \in Stage :
         /\ ConnBecomes(c, stage)
         /\ stage \in {"closed", "backlog"} \/ Alive(c)
  BY DEF TcpTasks, ClientConnects, TargetAnswers, TargetRefuses, ConnectTimesOut, CopyEnds,
         ConnStops, ConnCancelled, Alive, Stage
<1> USE <1>1 DEF ConnBecomes, shutdownVars, udpVars
<1>2. AtTypeOK'
  BY DEF AtTypeOK, Running
<1>3. Timers' /\ StopIsPrompt' /\ FailuresAreLocal'
  BY DEF Timers, StopIsPrompt, FailuresAreLocal, Running
<1>4. OwnedConnections'
  <2> SUFFICES ASSUME NEW d \in Conn, Alive(d)'
               PROVE  \/ Running("tcp") /\ d \in joinset
                      \/ handle["tcp"] \in {"failed", "cancelled"} /\ d \in aborted'
    BY DEF OwnedConnections, Running
  <2>1. Alive(d) /\ (d = c => stage # "closed")
    BY DEF Alive, AtTypeOK
  <2> QED
    BY <2>1 DEF OwnedConnections
<1>5. GraceIsGiven'
  BY DEF GraceIsGiven
<1> QED
  BY <1>2, <1>3, <1>4, <1>5

(* The end of the TCP worker's task, for whatever reason. *)
LEMMA DropStep ==
  ASSUME AtInv, NEW how \in {"returned", "failed", "cancelled"}, Drop(how), Running("tcp"),
         how = "returned" => stop_sent /\ \A c \in joinset : ~Alive(c),
         how = "failed" => "tcp" \in broken',
         how = "cancelled" => Aborting("tcp"),
         broken \subseteq broken', broken' \subseteq Worker,
         UNCHANGED <<stop_sent, joining, left, elapsed, udpVars>>
  PROVE  AtInv'
<1> USE GraceAssumption DEF AtInv, Drop, TaskEnds, Worker, udpVars, Running
<1>1. AtTypeOK'
  BY DEF AtTypeOK, Stage
<1>2. Timers' /\ StopIsPrompt'
  BY DEF AtTypeOK, Timers, StopIsPrompt
<1>3. OwnedConnections'
  BY DEF AtTypeOK, OwnedConnections, Alive
<1>4. GraceIsGiven'
  BY DEF AtTypeOK, Timers, Aborting, GraceIsGiven
<1>5. FailuresAreLocal'
  BY DEF AtTypeOK, Timers, Aborting, FailuresAreLocal
<1> QED
  BY <1>1, <1>2, <1>3, <1>4, <1>5

(* drain_tcp_connections is entered by a worker that knows of the signal. *)
LEMMA DrainStarts ==
  ASSUME AtInv, StartDrain, loop = "accepting", stop_sent,
         broken \subseteq broken', broken' \subseteq Worker,
         UNCHANGED <<stop_sent, joining, left, elapsed, udpVars>>
  PROVE  AtInv'
<1>1. CASE joinset = {}
  BY <1>1, DropStep DEF StartDrain, AtInv, AtTypeOK
<1>2. CASE joinset # {}
  <2> USE <1>2, GraceAssumption DEF StartDrain, AtInv, udpVars, Running
  <2>1. AtTypeOK'
    BY DEF AtTypeOK
  <2>2. Timers'
    BY DEF AtTypeOK, Timers
  <2>3. StopIsPrompt' /\ OwnedConnections' /\ GraceIsGiven' /\ FailuresAreLocal'
    BY DEF StopIsPrompt, OwnedConnections, GraceIsGiven, FailuresAreLocal, Alive
  <2> QED
    BY <2>1, <2>2, <2>3
<1> QED
  BY <1>1, <1>2

(* The worker's own loop and its drain. *)
LEMMA TcpLoopStep ==
  ASSUME AtInv, TcpLoop, UNCHANGED udpVars
  PROVE  AtInv'
<1> USE DEF AtInv
<1>1. ASSUME NEW c \in Conn, Accept(c) \/ Reap(c)
      PROVE  AtInv'
  <2> USE <1>1 DEF Accept, Reap, shutdownVars, udpVars, Running
  <2>1. AtTypeOK'
    BY DEF AtTypeOK, Stage
  <2>2. Timers' /\ StopIsPrompt' /\ GraceIsGiven' /\ FailuresAreLocal'
    BY DEF Timers, StopIsPrompt, GraceIsGiven, FailuresAreLocal
  <2>3. OwnedConnections'
    BY DEF AtTypeOK, OwnedConnections, Alive
  <2> QED
    BY <2>1, <2>2, <2>3
<1>2. ASSUME NEW c \in Conn, DrainJoins(c)
      PROVE  AtInv'
  <2>1. stop_sent /\ Running("tcp")
    BY <1>2 DEF DrainJoins, Timers, AtTypeOK
  <2>2. CASE joinset = {c}
    BY <1>2, <2>1, <2>2, DropStep DEF DrainJoins, AtTypeOK
  <2>3. CASE joinset # {c}
    <3> USE <1>2, <2>3, GraceAssumption DEF DrainJoins, udpVars, Running
    <3>1. AtTypeOK'
      BY DEF AtTypeOK
    <3>2. Timers'
      BY DEF AtTypeOK, Timers
    <3>3. StopIsPrompt' /\ OwnedConnections' /\ GraceIsGiven' /\ FailuresAreLocal'
      BY DEF StopIsPrompt, OwnedConnections, GraceIsGiven, FailuresAreLocal, Alive
    <3> QED
      BY <3>1, <3>2, <3>3
  <2> QED
    BY <2>2, <2>3
<1>3. CASE AcceptFails
  <2>1. Running("tcp") /\ broken \subseteq broken' /\ broken' \subseteq Worker /\ "tcp" \in broken'
    BY <1>3 DEF AcceptFails, AtTypeOK, Worker
  <2>2. CASE stop_sent
    BY <1>3, <2>1, <2>2, DrainStarts DEF AcceptFails
  <2>3. CASE ~stop_sent
    BY <1>3, <2>1, <2>3, DropStep DEF AcceptFails
  <2> QED
    BY <2>2, <2>3
<1>4. CASE LoopStops
  BY <1>4, DrainStarts DEF LoopStops, AtTypeOK
<1>5. CASE DrainTimesOut
  <2> USE <1>5 DEF DrainTimesOut, shutdownVars, udpVars, Running
  <2>1. AtTypeOK'
    BY DEF AtTypeOK
  <2>2. Timers' /\ StopIsPrompt' /\ FailuresAreLocal'
    BY DEF Timers, StopIsPrompt, FailuresAreLocal
  <2>3. OwnedConnections' /\ GraceIsGiven'
    BY GraceAssumption DEF AtTypeOK, Timers, OwnedConnections, GraceIsGiven, Alive
  <2> QED
    BY <2>1, <2>2, <2>3
<1>6. CASE TcpCancelled
  BY <1>6, DropStep DEF TcpCancelled, AtTypeOK
<1> QED
  BY <1>1, <1>2, <1>3, <1>4, <1>5, <1>6 DEF TcpLoop

(* The UDP worker and its sessions. *)
LEMMA UdpStepKeeps ==
  ASSUME AtInv, UdpLoop \/ UdpSessions, UNCHANGED tcpVars
  PROVE  AtInv'
<1> USE PeerAssumption DEF AtInv, tcpVars
<1>1. ASSUME UNCHANGED shutdownVars, AtTypeOK'
      PROVE  AtInv'
  BY <1>1 DEF shutdownVars, Timers, StopIsPrompt, OwnedConnections, GraceIsGiven, FailuresAreLocal, Alive, Running
<1>2. ASSUME NEW how \in {"returned", "failed", "cancelled"}, UdpEnds(how), Running("udp"),
             stop_sent \/ "udp" \in broken', broken \subseteq broken', broken' \subseteq Worker,
             UNCHANGED <<stop_sent, joining, left, elapsed>>
      PROVE  AtInv'
  <2> USE <1>2 DEF UdpEnds, TaskEnds, Running, Worker
  <2>1. AtTypeOK'
    BY DEF AtTypeOK
  <2>2. Timers' /\ StopIsPrompt'
    BY DEF Timers, StopIsPrompt, Worker
  <2>3. OwnedConnections' /\ GraceIsGiven' /\ FailuresAreLocal'
    BY DEF AtTypeOK, OwnedConnections, GraceIsGiven, FailuresAreLocal, Alive
  <2> QED
    BY <2>1, <2>2, <2>3
<1>3. ASSUME NEW c \in Peer, Receive(c) \/ SinkUpgrades(c) \/ SinkSent(c) \/ SessionEnds(c)
      PROVE  AtInv'
  <2>1. UNCHANGED shutdownVars
    BY <1>3 DEF Receive, SinkUpgrades, SinkSent, SessionEnds
  <2>2. AtTypeOK'
    BY <1>3, <2>1 DEF Receive, SinkUpgrades, SinkSent, SessionEnds, AtTypeOK, Running, shutdownVars
  <2> QED
    BY <1>1, <2>1, <2>2
<1>4. CASE RecvFails
  BY <1>2, <1>4 DEF RecvFails, AtTypeOK, Running, Worker
<1>5. CASE UdpStops
  BY <1>2, <1>5 DEF UdpStops, AtTypeOK, Running
<1>6. CASE Forwarded
  <2>1. UNCHANGED shutdownVars
    BY <1>6 DEF Forwarded, UdpGoesOn, shutdownVars
  <2>2. AtTypeOK'
    BY <1>6, <2>1 DEF Forwarded, UdpGoesOn, AtTypeOK, Running, shutdownVars
  <2> QED
    BY <1>1, <2>1, <2>2
<1>7. CASE ForwardFails
  <2>1. CASE stop_sent
    BY <1>2, <1>7, <2>1 DEF ForwardFails, AtTypeOK, Running
  <2>2. CASE ~stop_sent
    <3>1. UNCHANGED shutdownVars
      BY <1>7, <2>2 DEF ForwardFails, UdpGoesOn, shutdownVars
    <3>2. AtTypeOK'
      BY <1>7, <2>2, <3>1 DEF ForwardFails, UdpGoesOn, AtTypeOK, Running, shutdownVars
    <3> QED
      BY <1>1, <3>1, <3>2
  <2> QED
    BY <2>1, <2>2
<1>8. CASE UdpCancelled
  BY <1>2, <1>8 DEF UdpCancelled, Aborting, AtTypeOK, Timers, Worker
<1> QED
  BY <1>3, <1>4, <1>5, <1>6, <1>7, <1>8 DEF UdpLoop, UdpSessions

(* The inductive invariant of one tunnel and its stop. *)
THEOREM TunnelInvariance == AtSpec => []AtInv
<1>1. AtInv /\ [AtNext]_atVars => AtInv'
  <2> SUFFICES ASSUME AtInv, [AtNext]_atVars PROVE AtInv'
    OBVIOUS
  <2>1. CASE UNCHANGED atVars
    BY <2>1 DEF atVars, shutdownVars, tcpVars, udpVars, AtInv, AtTypeOK, Timers, StopIsPrompt,
                OwnedConnections, GraceIsGiven, FailuresAreLocal, Alive, Running
  <2>2. CASE TcpStep
    BY <2>2, TasksStep, TcpLoopStep DEF TcpStep
  <2>3. CASE UdpStep
    BY <2>3, UdpStepKeeps DEF UdpStep
  <2> QED
    BY <2>1, <2>2, <2>3, OwnerStep, TickStep DEF AtNext, Over
<1> QED
  BY Initially, <1>1, PTL DEF AtSpec, AtSafetySpec

(* A stop takes at most one grace period. *)
THEOREM Prompt == AtSpec => []StopIsPrompt
<1>1. AtInv => StopIsPrompt
  BY DEF AtInv
<1> QED
  BY <1>1, TunnelInvariance, PTL

(* No connection task is left to itself. *)
THEOREM Owned == AtSpec => []OwnedConnections
<1>1. AtInv => OwnedConnections
  BY DEF AtInv
<1> QED
  BY <1>1, TunnelInvariance, PTL

(* Connections are not aborted before the grace period is over. *)
THEOREM Graceful == AtSpec => []GraceIsGiven
<1>1. AtInv => GraceIsGiven
  BY DEF AtInv
<1> QED
  BY <1>1, TunnelInvariance, PTL

(* Workers outlive what fails for one client or one target. *)
THEOREM Isolated == AtSpec => []FailuresAreLocal
<1>1. AtInv => FailuresAreLocal
  BY DEF AtInv
<1> QED
  BY <1>1, TunnelInvariance, PTL

-----------------------------------------------------------------------------
(* The tunnel implements what TunnelManager takes it for.                  *)

(* Steps that end no task, leave a stop where it is and neither take nor    *)
(* free the port are hidden from the manager.                               *)
LEMMA Unseen ==
  ASSUME UNCHANGED <<stop_sent, handle>>, Stopped' <=> Stopped,
         (holders \subseteq {"worker"})' <=> holders \subseteq {"worker"}
  PROVE  UNCHANGED Manager!vars
<1>1. Stopping' <=> Stopping
  BY DEF Stopping
<1>2. \A w \in Worker : HandleSeen(w)' = HandleSeen(w)
  BY DEF HandleSeen, Running
<1>3. UNCHANGED [n \in {"tunnel"} |-> [w \in Worker |-> HandleSeen(w)]]
  BY <1>2
<1>4. UNCHANGED [n \in {"tunnel"} |-> IF Stopped THEN NoEntry ELSE Entry]
  BY DEF NoEntry, Entry
<1>5. UNCHANGED [n \in {"tunnel"} |-> Entry]
  BY DEF Entry
<1> QED
  BY <1>1, <1>3, <1>4, <1>5 DEF Manager!vars

(* The end of a worker's task is one the manager expects. *)
LEMMA ExitSeen ==
  ASSUME AtInv, NEW w \in Worker, NEW how \in {"returned", "failed", "cancelled"},
         Running(w), TaskEnds(w, how), UNCHANGED <<stop_sent, joining>>,
         (holders \subseteq {"worker"})' <=> holders \subseteq {"worker"}
  PROVE  Manager!Next
<1>1. ~Stopped /\ ~Stopped' /\ (Stopping' <=> Stopping)
  BY DEF AtInv, AtTypeOK, Stopped, Stopping
<1>2. \A v \in Worker : HandleSeen(v)' = IF v = w THEN "finished" ELSE HandleSeen(v)
  BY <1>1 DEF HandleSeen, TaskEnds, Running, AtInv, AtTypeOK
<1>3. HandleSeen(w) = "running"
  BY <1>1 DEF HandleSeen
<1>4. Manager!Exit("tunnel", w)
  <2> DEFINE seen == [n \in {"tunnel"} |-> [v \in Worker |-> HandleSeen(v)]]
  <2>1. seen["tunnel"][w] = "running" /\ seen' = [seen EXCEPT !["tunnel"][w] = "finished"]
    BY <1>2, <1>3
  <2>2. UNCHANGED Manager!envVars
    BY DEF Manager!envVars
  <2>3. UNCHANGED [n \in {"tunnel"} |-> IF Stopped THEN NoEntry ELSE Entry]
    BY <1>1 DEF NoEntry, Entry
  <2>4. /\ UNCHANGED (IF Stopping THEN {"tunnel"} ELSE {})
        /\ UNCHANGED (IF Stopping THEN "drain" ELSE "idle")
    BY <1>1
  <2> HIDE DEF seen
  <2>5. UNCHANGED (IF stop_sent THEN {} ELSE {"tunnel"}) /\ UNCHANGED [n \in {"tunnel"} |-> Entry]
    BY DEF Entry
  <2> QED
    BY <2>1, <2>2, <2>3, <2>4, <2>5 DEF Manager!Exit, seen
<1>5. w \in Manager!Proto
  BY DEF Worker, Manager!Proto
<1>6. Manager!WorkerFails("tunnel", w) \/ Manager!WorkerStops("tunnel", w)
  BY <1>4 DEF Manager!WorkerFails, Manager!WorkerStops
<1> QED
  BY <1>5, <1>6 DEF Manager!Next, Manager!Environment

(* The steps of ActiveTunnel::stop are stop_all's. *)
LEMMA StopSeen ==
  ASSUME AtInv, AtInv', SendStop \/ Joiner, UNCHANGED holders
  PROVE  Manager!Next \/ UNCHANGED Manager!vars
<1> USE DEF AtInv, AtTypeOK
<1>1. CASE SendStop
  <2>1. ~Stopped /\ ~Stopped' /\ ~Stopping /\ Stopping'
    BY <1>1 DEF SendStop, Timers, Stopped, Stopping, Worker
  <2>2. \A w \in Worker : HandleSeen(w)' = HandleSeen(w)
    BY <1>1, <2>1 DEF SendStop, HandleSeen, Running
  <2>3. UNCHANGED [n \in {"tunnel"} |-> [w \in Worker |-> HandleSeen(w)]]
    BY <2>2
  <2>4. UNCHANGED [n \in {"tunnel"} |-> IF Stopped THEN NoEntry ELSE Entry] /\ UNCHANGED [n \in {"tunnel"} |-> Entry]
    BY <2>1 DEF NoEntry, Entry
  <2>5. UNCHANGED Manager!envVars
    BY DEF Manager!envVars
  <2>6. Manager!StopAll
    BY <1>1, <2>1, <2>3, <2>4, <2>5 DEF Manager!StopAll, SendStop
  <2> QED
    BY <2>6 DEF Manager!Next, Manager!Caller
<1>2. ASSUME NEW w \in Worker, JoinBegins(w) \/ JoinTimesOut(w)
      PROVE  UNCHANGED Manager!vars
  <2>1. ~Stopped /\ ~Stopped' /\ UNCHANGED <<stop_sent, handle>>
    BY <1>2 DEF JoinBegins, JoinTimesOut, Stopped
  <2> QED
    BY <2>1, Unseen
<1>3. ASSUME NEW w \in Worker, Joined(w)
      PROVE  Manager!Next \/ UNCHANGED Manager!vars
  <2>1. ~Stopped /\ UNCHANGED <<stop_sent, handle>>
    BY <1>3 DEF Joined, Stopped
  <2>2. CASE ~Stopped'
    BY <2>1, <2>2, Unseen
  <2>3. CASE Stopped'
    <3>1. \A v \in Worker : ~Running(v)
      BY <2>1, <2>3 DEF Stopped, Running
    <3>2. Stopping /\ ~Stopping'
      BY <1>3, <2>1, <2>3 DEF Stopping, Joined, Timers
    <3>3. Manager!StopAllReturns
      <4>1. [n \in {"tunnel"} |-> [v \in Worker |-> HandleSeen(v)]]' = [n \in {"tunnel"} |-> Manager!NoWorkers]
        <5>1. \A v \in Worker : HandleSeen(v)' = "none"
          BY <2>3 DEF HandleSeen
        <5>2. Worker = Manager!Proto
          BY DEF Worker, Manager!Proto
        <5> QED
          BY <5>1, <5>2 DEF Manager!NoWorkers
      <4>2. [n \in {"tunnel"} |-> IF Stopped THEN NoEntry ELSE Entry]' = [n \in {"tunnel"} |-> NoEntry]
        BY <2>3 DEF NoEntry, Entry
      <4>3. Manager!Discard({"tunnel"})
        BY <3>2, <4>1, <4>2 DEF Manager!Discard
      <4>4. Manager!Quiet("tunnel")
        BY <2>1, <3>1 DEF Manager!Quiet, HandleSeen, Manager!Proto, Worker
      <4>5. UNCHANGED Manager!envVars /\ UNCHANGED [n \in {"tunnel"} |-> Entry]
        BY DEF Manager!envVars, Entry
      <4> QED
        BY <2>1, <3>2, <4>3, <4>4, <4>5 DEF Manager!StopAllReturns
    <3> QED
      BY <3>3 DEF Manager!Next, Manager!Manager
  <2> QED
    BY <2>2, <2>3
<1> QED
  BY <1>1, <1>2, <1>3 DEF Joiner

(* A response in flight takes the port only under the UDP worker. *)
LEMMA SinkSeen ==
  ASSUME AtInv, UdpSessions
  PROVE  Manager!Next \/ UNCHANGED Manager!vars
<1> USE PeerAssumption DEF AtInv, AtTypeOK
<1>1. UNCHANGED <<stop_sent, handle, joining>> /\ (Stopped' <=> Stopped)
  BY DEF UdpSessions, SinkUpgrades, SinkSent, SessionEnds, shutdownVars, Stopped
<1>2. CASE (holders \subseteq {"worker"})' <=> holders \subseteq {"worker"}
  BY <1>1, <1>2, Unseen
<1>3. UNCHANGED [n \in {"tunnel"} |-> [w \in Worker |-> HandleSeen(w)]]
  <2>1. \A w \in Worker : HandleSeen(w)' = HandleSeen(w)
    BY <1>1 DEF HandleSeen, Running
  <2> QED
    BY <2>1
<1>4. UNCHANGED [n \in {"tunnel"} |-> IF Stopped THEN NoEntry ELSE Entry] /\ UNCHANGED [n \in {"tunnel"} |-> Entry]
  BY <1>1 DEF NoEntry, Entry
<1>5. Stopping' <=> Stopping
  BY <1>1 DEF Stopping
<1>6. CASE holders \subseteq {"worker"} /\ ~(holders \subseteq {"worker"})'
  <2>1. "worker" \in holders
    BY <1>6 DEF UdpSessions, SinkUpgrades, SinkSent, SessionEnds, Bound
  <2>2. "udp" \in Worker /\ Running("udp") /\ ~Stopped
    BY <2>1 DEF Worker, Stopped
  <2>3. HandleSeen("udp") = "running"
    BY <2>2 DEF HandleSeen
  <2>4. Manager!SinkUpgrades("tunnel")
    BY <1>1, <1>3, <1>4, <1>5, <1>6, <2>2, <2>3 DEF Manager!SinkUpgrades, Entry
  <2> QED
    BY <2>4 DEF Manager!Next, Manager!Environment
<1>7. CASE ~(holders \subseteq {"worker"}) /\ (holders \subseteq {"worker"})'
  <2>1. Manager!SinkReleases("port")
    BY <1>1, <1>3, <1>4, <1>5, <1>7 DEF Manager!SinkReleases
  <2> QED
    BY <2>1 DEF Manager!Next, Manager!Environment
<1> QED
  BY <1>2, <1>6, <1>7

(* A worker ends, or does what no manager sees. *)
LEMMA WorkSeen ==
  ASSUME AtInv, TcpStep \/ (UdpLoop /\ UNCHANGED tcpVars)
  PROVE  Manager!Next \/ UNCHANGED Manager!vars
<1> USE PeerAssumption DEF AtInv, AtTypeOK
<1>1. UNCHANGED <<stop_sent, joining>> /\ (Stopped' <=> Stopped)
  BY DEF TcpStep, TcpLoop, TcpTasks, Accept, Reap, DrainJoins, AcceptFails, LoopStops, DrainTimesOut,
     TcpCancelled, ClientConnects, TargetAnswers, TargetRefuses, ConnectTimesOut, CopyEnds, ConnStops,
     ConnCancelled, ConnBecomes, UdpLoop, Receive, RecvFails, UdpStops, Forwarded, ForwardFails,
     UdpCancelled, UdpEnds, UdpGoesOn, shutdownVars, Stopped
<1>2. (holders \subseteq {"worker"})' <=> holders \subseteq {"worker"}
  BY DEF TcpStep, udpVars, UdpLoop, Receive, RecvFails, UdpStops, Forwarded, ForwardFails, UdpCancelled,
     UdpEnds, UdpGoesOn
<1>3. CASE UNCHANGED handle
  BY <1>1, <1>2, <1>3, Unseen
<1>4. ASSUME NEW w \in Worker, NEW how \in {"returned", "failed", "cancelled"}, Running(w), TaskEnds(w, how)
      PROVE  Manager!Next
  BY <1>1, <1>2, <1>4, ExitSeen
<1>5. CASE TcpStep
  <2>1. \/ UNCHANGED handle
        \/ loop # "over" /\ \E how \in {"returned", "failed", "cancelled"} : TaskEnds("tcp", how)
    BY <1>5 DEF TcpStep, TcpLoop, TcpTasks, Accept, Reap, DrainJoins, AcceptFails, LoopStops, DrainTimesOut,
       TcpCancelled, StartDrain, Drop, ClientConnects, TargetAnswers, TargetRefuses, ConnectTimesOut, CopyEnds,
       ConnStops, ConnCancelled, ConnBecomes, shutdownVars
  <2> QED
    BY <1>3, <1>4, <2>1 DEF Worker
<1>6. CASE UdpLoop
  <2>1. \/ UNCHANGED handle
        \/ udp_at # "over" /\ \E how \in {"returned", "failed", "cancelled"} : TaskEnds("udp", how)
    BY <1>6 DEF UdpLoop, Receive, RecvFails, UdpStops, Forwarded, ForwardFails, UdpCancelled, UdpEnds,
       UdpGoesOn, shutdownVars
  <2> QED
    BY <1>3, <1>4, <2>1 DEF Worker
<1> QED
  BY <1>5, <1>6

(* Whatever a tunnel and its clients do, the manager of TunnelManager is   *)
(* prepared for.                                                           *)
THEOREM Implements == AtSpec => ImplementsWorkers
<1>1. AtInit => Manager!Inv
  <2> SUFFICES ASSUME AtInit PROVE Manager!Inv
    OBVIOUS
  <2>1. ~stop_sent /\ ~Stopped /\ ~Stopping /\ holders = {"worker"}
    BY DEF AtInit, ShutdownInit, UdpInit, Stopped, Stopping, Worker
  <2>2. \A w \in Worker : HandleSeen(w) = "running"
    BY <2>1 DEF AtInit, ShutdownInit, HandleSeen, Running
  <2>3. Entry \in Manager!Tunnel /\ NoEntry # Entry /\ \A p \in Manager!Proto : Manager!Supports(Entry, p)
    BY DEF Entry, NoEntry, Manager!Tunnel, Manager!Supports, Manager!Proto
  <2>4. Worker = Manager!Proto
    BY DEF Worker, Manager!Proto
  <2> USE <2>1, <2>2, <2>3, <2>4
  <2>5. Manager!TypeOK
    BY DEF Manager!TypeOK, Manager!Starting
  <2>6. Manager!NoOrphanWorker /\ Manager!ActiveIsWhole
    BY DEF Manager!NoOrphanWorker, Manager!ActiveIsWhole, Manager!Held
  <2>7. Manager!Roles /\ Manager!Loops /\ Manager!Spawning
    BY DEF Manager!Roles, Manager!Loops, Manager!Spawning, Manager!Held, Manager!Starting
  <2> QED
    BY <2>5, <2>6, <2>7 DEF Manager!Inv
<1>2. AtInv /\ AtInv' /\ [AtNext]_atVars => [Manager!Next]_(Manager!vars)
  <2> SUFFICES ASSUME AtInv, AtInv', [AtNext]_atVars
               PROVE  Manager!Next \/ UNCHANGED Manager!vars
    OBVIOUS
  <2>1. CASE (SendStop \/ Joiner) /\ UNCHANGED <<tcpVars, udpVars>>
    BY <2>1, StopSeen DEF udpVars
  <2>2. CASE TcpStep \/ UdpStep
    BY <2>2, WorkSeen, SinkSeen DEF UdpStep
  <2>3. CASE Tick
    <3>1. Stopped' <=> Stopped
      BY <2>3 DEF Tick, Stopped
    <3> QED
      BY <2>3, <3>1, Unseen DEF Tick, udpVars
  <2>4. CASE UNCHANGED atVars
    <3>1. Stopped' <=> Stopped
      BY <2>4 DEF atVars, shutdownVars, Stopped
    <3> QED
      BY <2>4, <3>1, Unseen DEF atVars, shutdownVars, udpVars
  <2> QED
    BY <2>1, <2>2, <2>3, <2>4 DEF AtNext, Over
<1> QED
  BY <1>1, <1>2, TunnelInvariance, PTL DEF AtSpec, AtSafetySpec, ImplementsWorkers
=============================================================================
