---------------------------- MODULE ActiveTunnel ----------------------------
(***************************************************************************)
(* One ActiveTunnel of src/src/runtime.rs with both of its workers: their  *)
(* loops and connections, ActiveTunnel::stop, and the clock that runs from *)
(* the stop signal on.  It implements what TunnelManager takes a tunnel    *)
(* for, tasks that run, fail, stop or are aborted.                         *)
(*                                                                         *)
(* Noticing the stop signal, and all that clients and targets do, may take *)
(* any time.  What is due (a timeout that is over, an abort, the joining   *)
(* of a task that has ended) is done before the clock moves on.  Before    *)
(* the signal no clock is needed: a connect that times out is a step that  *)
(* comes some time.                                                        *)
(***************************************************************************)
EXTENDS TcpWorker, UdpWorker

atVars == <<shutdownVars, tcpVars, udpVars>>

AtInit == ShutdownInit /\ TcpInit /\ UdpInit

-----------------------------------------------------------------------------
Due ==
  \/ TcpDue
  \/ UdpDue
  \/ \E w \in Worker :
       \/ stop_sent /\ joining[w] = "no"
       \/ joining[w] = "waiting" /\ (left[w] = 0 \/ ~Running(w))
       \/ joining[w] = "aborting" /\ ~Running(w)

Tick ==
  /\ stop_sent
  /\ ~Stopped
  /\ ~Due
  /\ elapsed <= Grace  \* bounds the clock: a late stop is late by one tick
  /\ elapsed' = elapsed + 1
  /\ left' = [w \in Worker |-> IF joining[w] = "waiting" THEN left[w] - 1 ELSE left[w]]
  /\ TcpTick
  /\ UNCHANGED <<stop_sent, handle, joining, broken, loop, conn, joinset, aborted, udpVars>>

Joiner == \E w \in Worker : JoinBegins(w) \/ Joined(w) \/ JoinTimesOut(w)

TcpStep == (TcpLoop \/ TcpTasks) /\ UNCHANGED udpVars

UdpStep == (UdpLoop \/ UdpSessions) /\ UNCHANGED tcpVars

(* ActiveTunnel::stop has returned. *)
Over == Stopped /\ UNCHANGED atVars

AtNext ==
  \/ (SendStop \/ Joiner) /\ UNCHANGED <<tcpVars, udpVars>>
  \/ TcpStep
  \/ UdpStep
  \/ Tick
  \/ Over

(* The worker's loop accepts what is in its backlog, a connect ends at its *)
(* timeout, what is aborted goes, a stop that has begun and the clock move *)
(* on, and a response in flight is sent.  Nobody has to send the signal.   *)
AtFairness ==
  /\ WF_atVars(Joiner /\ UNCHANGED <<tcpVars, udpVars>>)
  /\ WF_atVars(Tick)
  /\ WF_atVars(TcpLoop /\ UNCHANGED udpVars)
  /\ WF_atVars(TcpCancelled /\ UNCHANGED udpVars)
  /\ WF_atVars(UdpCancelled /\ UNCHANGED tcpVars)
  /\ \A c \in Conn :
       /\ WF_atVars(Accept(c) /\ UNCHANGED udpVars)
       /\ WF_atVars(ConnectTimesOut(c) /\ UNCHANGED udpVars)
       /\ WF_atVars(ConnCancelled(c) /\ UNCHANGED udpVars)
  /\ \A c \in Peer : WF_atVars(SinkSent(c) /\ UNCHANGED tcpVars)

AtSafetySpec == AtInit /\ [][AtNext]_atVars

AtSpec == AtSafetySpec /\ AtFairness

-----------------------------------------------------------------------------
(* What each worker is doing agrees with its handle, the UDP worker's      *)
(* reference to the socket lives exactly as long as its task, and a worker *)
(* that has been joined has ended.                                         *)
AtTypeOK ==
  /\ stop_sent \in BOOLEAN
  /\ handle \in [Worker -> {"running", "returned", "failed", "cancelled"}]
  /\ joining \in [Worker -> {"no", "waiting", "aborting", "joined"}]
  /\ left \in [Worker -> 0..Grace]
  /\ elapsed \in Nat
  /\ broken \subseteq Worker
  /\ loop \in {"accepting", "draining", "aborting", "over"}
  /\ drain_left \in 0..Grace
  /\ conn \in [Conn -> Stage]
  /\ joinset \subseteq Conn
  /\ aborted \subseteq Conn
  /\ udp_at \in {"receiving", "forwarding", "over"}
  /\ client_addr \subseteq Peer
  /\ sessions \subseteq Peer
  /\ holders \subseteq Peer \union {"worker"}
  /\ Running("tcp") <=> loop # "over"
  /\ Running("udp") <=> udp_at # "over"
  /\ Running("udp") <=> "worker" \in holders
  /\ client_addr # {} <=> udp_at = "forwarding"
  /\ \A w \in Worker : joining[w] = "joined" => ~Running(w)

(* A stop takes no longer than one grace period, whatever the workers do:  *)
(* both are waited for at once, and that the drain's own period starts     *)
(* again with each connection that ends does not add up.                   *)
StopIsPrompt == elapsed <= Grace

(* No connection is left to itself: while the worker runs it can join each *)
(* task, a worker that returns has none left, and one that fails or is     *)
(* aborted has aborted them all.                                           *)
OwnedConnections ==
  \A c \in Conn : Alive(c) =>
    \/ Running("tcp") /\ c \in joinset
    \/ handle["tcp"] \in {"failed", "cancelled"} /\ c \in aborted

(* A stop gives connections the grace period before it aborts them; only   *)
(* an accept that fails ends them at once.                                 *)
GraceIsGiven == aborted # {} => handle["tcp"] = "failed" \/ elapsed >= Grace

(* A worker that was not asked to stop ends only for an error of its own   *)
(* socket, which any error of accept is (too many open files, too), and    *)
(* not because a connection, a connect or a datagram of one client fails.  *)
FailuresAreLocal == \A w \in Worker : ~Running(w) => stop_sent \/ w \in broken

(* A client that gets through to the tunnel is forwarded or hung up on,    *)
(* however slow the other clients and the target are, and through a stop.  *)
ClientIsServed == \A c \in Conn : (conn[c] \in {"backlog", "connecting"}) ~> (conn[c] \in {"copying", "closed"})

(* A stop comes to its end, though a worker may never notice the signal,   *)
(* and the UDP port is free as soon as the responses in flight have been   *)
(* sent, though the sessions may live on.                                  *)
PortIsReleased ==
  <>[][\A c \in Peer : ~SinkUpgrades(c)]_atVars => (stop_sent ~> Stopped /\ ~Bound)

-----------------------------------------------------------------------------
(* What the promptness of a stop rests on: each timeout that runs ends one *)
(* grace period after the signal, and the clock stands still for whatever  *)
(* is aborted.                                                             *)
Timers ==
  /\ ~stop_sent => elapsed = 0 /\ loop \in {"accepting", "over"}
  /\ \A w \in Worker :
       /\ ~stop_sent => joining[w] = "no"
       /\ joining[w] = "no" => elapsed = 0
       /\ joining[w] = "waiting" => left[w] + elapsed = Grace
       /\ joining[w] = "aborting" => elapsed = Grace
  /\ loop = "draining" => drain_left + elapsed >= Grace

(* The inductive invariant. *)
AtInv ==
  /\ AtTypeOK
  /\ Timers
  /\ StopIsPrompt
  /\ OwnedConnections
  /\ GraceIsGiven
  /\ FailuresAreLocal

-----------------------------------------------------------------------------
(* The tunnel as its TunnelManager sees it: an entry of the map with two   *)
(* workers, until stop_all takes it out, and in its hands until the stop   *)
(* returns.                                                                *)
Stopping == stop_sent /\ ~Stopped

Entry == [listen |-> "port", target |-> "target", protocol |-> "both"]

NoEntry == [Entry EXCEPT !.protocol = "none"]

HandleSeen(w) ==
  IF Stopped THEN "none" ELSE IF Running(w) THEN "running" ELSE "finished"

Manager == INSTANCE TunnelManager WITH
  Name        <- {"tunnel"},
  Endpoint    <- {"port"},
  Target      <- {"target"},
  NoTunnel    <- NoEntry,
  NoName      <- "nobody",
  Desired     <- {},
  active      <- IF stop_sent THEN {} ELSE {"tunnel"},
  spec        <- [n \in {"tunnel"} |-> IF Stopped THEN NoEntry ELSE Entry],
  worker      <- [n \in {"tunnel"} |-> [w \in Worker |-> HandleSeen(w)]],
  stop_sent   <- IF Stopping THEN {"tunnel"} ELSE {},
  sending     <- IF holders \subseteq {"worker"} THEN {} ELSE {"port"},
  foreign     <- {},
  pc          <- IF Stopping THEN "drain" ELSE "idle",
  desired     <- [n \in {"tunnel"} |-> Entry],
  todo        <- IF Stopping THEN {"tunnel"} ELSE {},
  current     <- "nobody",
  all_started <- TRUE

(* All that a tunnel does, the manager of TunnelManager is prepared for:   *)
(* its workers only ever end, none is left when the stop returns, and its  *)
(* port is held by the UDP worker or by a response begun under it.         *)
ImplementsWorkers == Manager!Inv /\ [][Manager!Next]_(Manager!vars)
=============================================================================
