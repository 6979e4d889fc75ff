----------------------------- MODULE TunnelTable -----------------------------
(***************************************************************************)
(* What the socket-mode tunnel manager promises its callers, without       *)
(* sockets, worker tasks or shutdown: a table from tunnel names to the     *)
(* configuration being served, driven towards a goal by each call.         *)
(*                                                                         *)
(* TunnelManager implements this module; ConfigWatcher relies on it.       *)
(***************************************************************************)

CONSTANTS Name,      \* tunnel names
          Tunnel,    \* tunnel configurations
          NoTunnel,  \* "no entry"
          Desired    \* the maps that callers may ask for: name -> tunnel

VARIABLES table,     \* what is being served: name -> tunnel or NoTunnel
          broken,    \* served names that have lost a worker
          goal,      \* the map asked for by the latest reconcile
          calling,   \* the call in progress: "none", "reconcile", "stop_all"
          result     \* what the latest reconcile returned (TRUE during a call)

tableVars == <<table, broken, goal, calling, result>>

Empty == [n \in Name |-> NoTunnel]

Init ==
  /\ table = Empty
  /\ broken = {}
  /\ goal = Empty
  /\ calling = "none"
  /\ result = TRUE

(* A caller asks for the map d. *)
Reconcile(d) ==
  /\ calling = "none"
  /\ goal' = d
  /\ calling' = "reconcile"
  /\ result' = TRUE
  /\ UNCHANGED <<table, broken>>

(* An entry is dropped only because it is broken or not what is asked for. *)
Drop(n) ==
  /\ calling = "reconcile"
  /\ table[n] # NoTunnel
  /\ n \in broken \/ table[n] # goal[n]
  /\ table' = [table EXCEPT ![n] = NoTunnel]
  /\ broken' = broken \ {n}
  /\ UNCHANGED <<goal, calling, result>>

(* An entry is added only when nothing that has to go is still served; a   *)
(* worker may have failed before the entry is visible.                     *)
Add(n) ==
  /\ calling = "reconcile"
  /\ table[n] = NoTunnel
  /\ goal[n] # NoTunnel
  /\ \A m \in Name : table[m] \in {goal[m], NoTunnel}
  /\ table' = [table EXCEPT ![n] = goal[n]]
  /\ broken' \in {broken, broken \union {n}}
  /\ UNCHANGED <<goal, calling, result>>

(* The call returns TRUE exactly when the table is the goal.               *)
Return ==
  /\ calling = "reconcile"
  /\ \A m \in Name : table[m] \in {goal[m], NoTunnel}
  /\ calling' = "none"
  /\ result' = (table = goal)
  /\ UNCHANGED <<table, broken, goal>>

StopAll ==
  /\ calling = "none"
  /\ table' = Empty
  /\ broken' = {}
  /\ calling' = "stop_all"
  /\ result' = TRUE
  /\ UNCHANGED goal

StopAllReturn ==
  /\ calling = "stop_all"
  /\ calling' = "none"
  /\ UNCHANGED <<table, broken, goal, result>>

(* A worker of a served tunnel exits at any time. *)
Break(n) ==
  /\ table[n] # NoTunnel
  /\ broken' = broken \union {n}
  /\ UNCHANGED <<table, goal, calling, result>>

Next ==
  \/ \E d \in Desired : Reconcile(d)
  \/ \E n \in Name : Drop(n) \/ Add(n) \/ Break(n)
  \/ Return
  \/ StopAll
  \/ StopAllReturn

TableSpec == Init /\ [][Next]_tableVars
=============================================================================
