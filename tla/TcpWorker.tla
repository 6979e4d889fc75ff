------------------------------ MODULE TcpWorker ------------------------------
(***************************************************************************)
(* run_tcp_tunnel of src/src/runtime.rs: the accept loop of one tunnel,    *)
(* the tasks that serve its connections, and the drain that ends them.     *)
(*                                                                         *)
(* Connection tasks run on their own; the worker owns them through a       *)
(* JoinSet, and dropping the JoinSet aborts them.  An abort takes effect   *)
(* when the task next yields, so that an aborted task may still take a     *)
(* step.  A client that has gone may connect again under the same name.    *)
(***************************************************************************)
EXTENDS TaskShutdown

CONSTANT Conn  \* clients, each with one connection at a time

VARIABLES
  loop,       \* the worker: "accepting", "draining", "aborting" or "over"
  drain_left, \* what is left of the timeout around join_next in the drain
  conn,       \* the stage of each connection
  joinset,    \* the entries of the JoinSet
  aborted     \* connections whose task has been told to abort

tcpVars == <<loop, drain_left, conn, joinset, aborted>>

Stage == {"closed", "backlog", "connecting", "copying"}

(* A task is serving the connection. *)
Alive(c) == conn[c] \in {"connecting", "copying"}

TcpInit ==
  /\ loop = "accepting"
  /\ drain_left = 0
  /\ conn = [c \in Conn |-> "closed"]
  /\ joinset = {}
  /\ aborted = {}

-----------------------------------------------------------------------------
(* The future of run_tcp_tunnel is dropped: the listener closes, which     *)
(* resets what is in its backlog, and the JoinSet aborts what it holds.    *)
Drop(how) ==
  /\ loop' = "over"
  /\ drain_left' = 0
  /\ conn' = [c \in Conn |-> IF conn[c] = "backlog" THEN "closed" ELSE conn[c]]
  /\ aborted' = aborted \union {c \in joinset : Alive(c)}
  /\ joinset' = {}
  /\ TaskEnds("tcp", how)

(* drain_tcp_connections is entered. *)
StartDrain ==
  IF joinset = {}
  THEN Drop("returned")
  ELSE /\ loop' = "draining"
       /\ drain_left' = Grace
       /\ UNCHANGED <<conn, joinset, aborted, handle>>

(* Mutant of Accept: the loop serves one connection at a time. *)
Accept_OneAtATime(c) ==
  /\ loop = "accepting"
  /\ conn[c] = "backlog"
  /\ joinset = {}
  /\ conn' = [conn EXCEPT ![c] = "connecting"]
  /\ joinset' = joinset \union {c}
  /\ UNCHANGED <<loop, drain_left, aborted, shutdownVars>>

(* A connection is accepted and given a task, even if the stop signal has  *)
(* been sent: select! takes either branch.                                 *)
Accept(c) ==
  /\ loop = "accepting"
  /\ conn[c] = "backlog"
  /\ conn' = [conn EXCEPT ![c] = "connecting"]
  /\ joinset' = joinset \union {c}
  /\ UNCHANGED <<loop, drain_left, aborted, shutdownVars>>

(* accept() fails: the end of the worker, with a drain only if it is being *)
(* stopped anyway.                                                         *)
AcceptFails ==
  /\ loop = "accepting"
  /\ broken' = broken \union {"tcp"}
  /\ IF stop_sent THEN StartDrain ELSE Drop("failed")
  /\ UNCHANGED <<stop_sent, joining, left, elapsed>>

(* The loop reaps a task that has ended. *)
Reap(c) ==
  /\ loop = "accepting"
  /\ c \in joinset
  /\ ~Alive(c)
  /\ joinset' = joinset \ {c}
  /\ UNCHANGED <<loop, drain_left, conn, aborted, shutdownVars>>

(* Mutant of LoopStops: abort_all, and only then the drain. *)
LoopStops_AbortsFirst ==
  /\ loop = "accepting"
  /\ stop_sent
  /\ joinset # {}
  /\ loop' = "aborting"
  /\ aborted' = aborted \union {c \in joinset : Alive(c)}
  /\ UNCHANGED <<drain_left, conn, joinset, shutdownVars>>

LoopStops ==
  /\ loop = "accepting"
  /\ stop_sent
  /\ StartDrain
  /\ UNCHANGED <<stop_sent, joining, left, elapsed, broken>>

(* join_next in the drain, or after its abort_all: the grace period starts *)
(* again with each task that ends.                                         *)
DrainJoins(c) ==
  /\ loop \in {"draining", "aborting"}
  /\ c \in joinset
  /\ ~Alive(c)
  /\ IF joinset = {c}
     THEN Drop("returned")
     ELSE /\ joinset' = joinset \ {c}
          /\ drain_left' = IF loop = "draining" THEN Grace ELSE 0
          /\ UNCHANGED <<loop, conn, aborted, handle>>
  /\ UNCHANGED <<stop_sent, joining, left, elapsed, broken>>

(* Mutant of DrainTimesOut: tasks that were told to abort are not awaited. *)
DrainTimesOut_Returns ==
  /\ loop = "draining"
  /\ drain_left = 0
  /\ \A c \in joinset : Alive(c)
  /\ Drop("returned")
  /\ UNCHANGED <<stop_sent, joining, left, elapsed, broken>>

(* No task ended for a whole grace period: abort_all. *)
DrainTimesOut ==
  /\ loop = "draining"
  /\ drain_left = 0
  /\ \A c \in joinset : Alive(c)
  /\ loop' = "aborting"
  /\ aborted' = aborted \union joinset
  /\ UNCHANGED <<drain_left, conn, joinset, shutdownVars>>

(* The worker itself is aborted by ActiveTunnel::stop. *)
TcpCancelled ==
  /\ Running("tcp")
  /\ Aborting("tcp")
  /\ Drop("cancelled")
  /\ UNCHANGED <<stop_sent, joining, left, elapsed, broken>>

-----------------------------------------------------------------------------
ConnBecomes(c, stage) ==
  /\ conn' = [conn EXCEPT ![c] = stage]
  /\ aborted' = IF stage = "closed" THEN aborted \ {c} ELSE aborted
  /\ UNCHANGED <<loop, drain_left, joinset, shutdownVars>>

(* The listener is open until the worker's task has ended, so that clients *)
(* get through to the backlog during a drain.                              *)
ClientConnects(c) ==
  /\ loop # "over"
  /\ conn[c] = "closed"
  /\ c \notin joinset
  /\ ConnBecomes(c, "backlog")

(* handle_tcp_connection: the target has answered and copying begins. *)
TargetAnswers(c) == conn[c] = "connecting" /\ ConnBecomes(c, "copying")

(* The target refuses, or a socket option cannot be set. *)
TargetRefuses(c) == conn[c] = "connecting" /\ ConnBecomes(c, "closed")

(* The target has not answered within TCP_CONNECT_TIMEOUT. *)
ConnectTimesOut(c) == conn[c] = "connecting" /\ ConnBecomes(c, "closed")

(* copy_bidirectional ends, well or not. *)
CopyEnds(c) == conn[c] = "copying" /\ ConnBecomes(c, "closed")

(* The task notices the stop signal, at either of its select!s. *)
ConnStops(c) == stop_sent /\ Alive(c) /\ ConnBecomes(c, "closed")

(* The abort takes effect. *)
ConnCancelled(c) == c \in aborted /\ Alive(c) /\ ConnBecomes(c, "closed")

TcpLoop ==
  \/ \E c \in Conn : Accept(c) \/ Reap(c) \/ DrainJoins(c)
  \/ AcceptFails
  \/ LoopStops
  \/ DrainTimesOut
  \/ TcpCancelled

TcpTasks ==
  \E c \in Conn :
    \/ ClientConnects(c)
    \/ TargetAnswers(c)
    \/ TargetRefuses(c)
    \/ ConnectTimesOut(c)
    \/ CopyEnds(c)
    \/ ConnStops(c)
    \/ ConnCancelled(c)

(* Something that takes no time is still to be done. *)
TcpDue ==
  \/ loop = "draining" /\ drain_left = 0
  \/ loop \in {"draining", "aborting"} /\ \E c \in joinset : ~Alive(c)
  \/ Running("tcp") /\ Aborting("tcp")
  \/ \E c \in aborted : Alive(c)

TcpTick == drain_left' = IF loop = "draining" THEN drain_left - 1 ELSE 0
=============================================================================
