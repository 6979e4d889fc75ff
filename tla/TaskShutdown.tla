---------------------------- MODULE TaskShutdown ----------------------------
(***************************************************************************)
(* How one ActiveTunnel of src/src/runtime.rs ends its worker tasks: the   *)
(* watch channel that asks them to stop, their JoinHandles, and            *)
(* ActiveTunnel::stop, which waits for each for a grace period of its own  *)
(* and then aborts it.                                                     *)
(*                                                                         *)
(* What the workers do meanwhile is in TcpWorker and UdpWorker; they and   *)
(* the clock are put together in ActiveTunnel.                             *)
(***************************************************************************)
EXTENDS Naturals

CONSTANT Grace  \* SHUTDOWN_GRACE_PERIOD, in ticks of the clock

ASSUME GraceAssumption == Grace \in Nat \ {0}

VARIABLES
  stop_sent,  \* the value of the watch channel
  handle,     \* each worker's JoinHandle: "running", or how the task ended
  joining,    \* where the task that shuts a worker down is
  left,       \* what is left of the timeout around its handle
  elapsed,    \* ticks since the stop signal was sent
  broken      \* history: the workers whose socket has reported an error

shutdownVars == <<stop_sent, handle, joining, left, elapsed, broken>>

Worker == {"tcp", "udp"}

Running(w) == handle[w] = "running"

ShutdownInit ==
  /\ stop_sent = FALSE
  /\ handle = [w \in Worker |-> "running"]
  /\ joining = [w \in Worker |-> "no"]
  /\ left = [w \in Worker |-> 0]
  /\ elapsed = 0
  /\ broken = {}

(* The worker's task ends: "returned" for Ok, "failed" for Err, and        *)
(* "cancelled" for a task that was aborted.                                *)
TaskEnds(w, how) == handle' = [handle EXCEPT ![w] = how]

-----------------------------------------------------------------------------
(* ActiveTunnel::stop: the signal is sent, then each handle is given to a  *)
(* task that shuts its worker down.                                        *)
SendStop ==
  /\ ~stop_sent
  /\ stop_sent' = TRUE
  /\ UNCHANGED <<handle, joining, left, elapsed, broken>>

(* That task is polled, and its timeout starts. *)
JoinBegins(w) ==
  /\ stop_sent
  /\ joining[w] = "no"
  /\ joining' = [joining EXCEPT ![w] = "waiting"]
  /\ left' = [left EXCEPT ![w] = Grace]
  /\ UNCHANGED <<stop_sent, handle, elapsed, broken>>

(* The handle is ready, whether the grace period is over or not. *)
Joined(w) ==
  /\ joining[w] \in {"waiting", "aborting"}
  /\ ~Running(w)
  /\ joining' = [joining EXCEPT ![w] = "joined"]
  /\ left' = [left EXCEPT ![w] = 0]
  /\ UNCHANGED <<stop_sent, handle, elapsed, broken>>

(* Mutant of JoinTimesOut: the worker is given another grace period. *)
JoinTimesOut_WaitsAgain(w) ==
  /\ joining[w] = "waiting"
  /\ left[w] = 0
  /\ Running(w)
  /\ left' = [left EXCEPT ![w] = Grace]
  /\ UNCHANGED <<stop_sent, handle, joining, elapsed, broken>>

(* Mutant of JoinTimesOut: a worker that was aborted is not awaited. *)
JoinTimesOut_Detaches(w) ==
  /\ joining[w] = "waiting"
  /\ left[w] = 0
  /\ Running(w)
  /\ joining' = [joining EXCEPT ![w] = "joined"]
  /\ UNCHANGED <<stop_sent, handle, left, elapsed, broken>>

(* The grace period is over: abort_handle.abort(), and the handle is       *)
(* awaited without a timeout.                                              *)
JoinTimesOut(w) ==
  /\ joining[w] = "waiting"
  /\ left[w] = 0
  /\ Running(w)
  /\ joining' = [joining EXCEPT ![w] = "aborting"]
  /\ UNCHANGED <<stop_sent, handle, left, elapsed, broken>>

Aborting(w) == joining[w] = "aborting"

(* ActiveTunnel::stop has returned: every shutdown task has been joined. *)
Stopped == \A w \in Worker : joining[w] = "joined"
=============================================================================
