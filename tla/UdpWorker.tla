------------------------------ MODULE UdpWorker ------------------------------
(***************************************************************************)
(* run_udp_tunnel of src/src/runtime.rs: the receive loop of one tunnel,   *)
(* and the responses that go back through its socket.                      *)
(*                                                                         *)
(* The sessions belong to the crate udpproxi, which is not part of the     *)
(* repository.  What is used of it is that a packet may open a session for *)
(* its client, and that a session calls the sink with what the target      *)
(* sends back.  A session may end at any time and may outlive the worker.  *)
(***************************************************************************)
EXTENDS TaskShutdown

CONSTANT Peer  \* clients

ASSUME PeerAssumption == "worker" \notin Peer

VARIABLES
  udp_at,       \* the worker: "receiving", "forwarding" or "over"
  client_addr,  \* whose packet is being forwarded, if any
  sessions,     \* the clients that have a session
  holders       \* who has a strong reference to the listening socket

udpVars == <<udp_at, client_addr, sessions, holders>>

(* The socket is open, and its port taken, while anybody holds it. *)
Bound == holders # {}

UdpInit ==
  /\ udp_at = "receiving"
  /\ client_addr = {}
  /\ sessions = {}
  /\ holders = {"worker"}

-----------------------------------------------------------------------------
(* Mutant of UdpEnds: a clone of the Arc is left behind. *)
UdpEnds_LeaksSocket(how) ==
  /\ udp_at' = "over"
  /\ client_addr' = {}
  /\ TaskEnds("udp", how)
  /\ UNCHANGED <<sessions, holders>>

(* The future of run_udp_tunnel is dropped, and with it the Arc. *)
UdpEnds(how) ==
  /\ udp_at' = "over"
  /\ client_addr' = {}
  /\ holders' = holders \ {"worker"}
  /\ TaskEnds("udp", how)
  /\ UNCHANGED sessions

UdpGoesOn ==
  /\ udp_at' = "receiving"
  /\ client_addr' = {}
  /\ UNCHANGED handle

Receive(c) ==
  /\ udp_at = "receiving"
  /\ udp_at' = "forwarding"
  /\ client_addr' = {c}
  /\ UNCHANGED <<sessions, holders, shutdownVars>>

RecvFails ==
  /\ udp_at = "receiving"
  /\ broken' = broken \union {"udp"}
  /\ UdpEnds(IF stop_sent THEN "returned" ELSE "failed")
  /\ UNCHANGED <<stop_sent, joining, left, elapsed>>

UdpStops ==
  /\ udp_at = "receiving"
  /\ stop_sent
  /\ UdpEnds("returned")
  /\ UNCHANGED <<stop_sent, joining, left, elapsed, broken>>

(* send_packet succeeds.  While it is awaited, which is not bounded, the   *)
(* worker does not look at the stop signal.                                *)
Forwarded ==
  /\ udp_at = "forwarding"
  /\ sessions' = sessions \union client_addr
  /\ UdpGoesOn
  /\ UNCHANGED <<holders, stop_sent, joining, left, elapsed, broken>>

(* Mutant of ForwardFails: what fails for one client ends the worker. *)
ForwardFails_EndsWorker ==
  /\ udp_at = "forwarding"
  /\ UdpEnds(IF stop_sent THEN "returned" ELSE "failed")
  /\ UNCHANGED <<stop_sent, joining, left, elapsed, broken>>

(* No upstream socket could be set up, or the datagram was not sent. *)
ForwardFails ==
  /\ udp_at = "forwarding"
  /\ IF stop_sent
     THEN UdpEnds("returned")
     ELSE UdpGoesOn /\ UNCHANGED <<holders, sessions>>
  /\ UNCHANGED <<stop_sent, joining, left, elapsed, broken>>

UdpCancelled ==
  /\ Running("udp")
  /\ Aborting("udp")
  /\ UdpEnds("cancelled")
  /\ UNCHANGED <<stop_sent, joining, left, elapsed, broken>>

-----------------------------------------------------------------------------
(* UdpResponseSink::send: the Weak reference is upgraded if the socket is  *)
(* still open, be it only because of another response.                     *)
SinkUpgrades(c) ==
  /\ c \in sessions \ holders
  /\ Bound
  /\ holders' = holders \union {c}
  /\ UNCHANGED <<udp_at, client_addr, sessions, shutdownVars>>

(* Mutant of SinkSent: the session keeps its strong reference. *)
SinkSent_KeepsArc(c) ==
  /\ c \in holders
  /\ UNCHANGED <<udpVars, shutdownVars>>

(* send_to has returned, well or not, and the reference is dropped. *)
SinkSent(c) ==
  /\ c \in holders
  /\ holders' = holders \ {c}
  /\ UNCHANGED <<udp_at, client_addr, sessions, shutdownVars>>

SessionEnds(c) ==
  /\ c \in sessions
  /\ sessions' = sessions \ {c}
  /\ holders' = holders \ {c}
  /\ UNCHANGED <<udp_at, client_addr, shutdownVars>>

UdpLoop ==
  \/ \E c \in Peer : Receive(c)
  \/ RecvFails
  \/ UdpStops
  \/ Forwarded
  \/ ForwardFails
  \/ UdpCancelled

UdpSessions == \E c \in Peer : SinkUpgrades(c) \/ SinkSent(c) \/ SessionEnds(c)

UdpDue == Running("udp") /\ Aborting("udp")
=============================================================================
