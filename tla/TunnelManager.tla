---------------------------- MODULE TunnelManager ----------------------------
(***************************************************************************)
(* TunnelManager and ActiveTunnel of src/src/runtime.rs: the map from      *)
(* tunnel names to running tunnels, the worker tasks and listening sockets *)
(* behind each entry, and reconcile / stop_all as the awaits inside them   *)
(* let worker tasks and the rest of the machine interleave.                *)
(*                                                                         *)
(* One tunnel is one ActiveTunnel object: its spec, its stop channel and   *)
(* one JoinHandle per protocol.  An object that the manager holds outside  *)
(* the map (being started, rolled back or stopped) keeps its spec, so that *)
(* its sockets stay accounted for.                                         *)
(***************************************************************************)

CONSTANTS Name,      \* tunnel names
          Endpoint,  \* local listen addresses
          Target,    \* remote addresses
          NoTunnel,  \* absence of a tunnel
          NoName,    \* absence of a name
          Desired    \* the maps of enabled tunnels a caller may pass

Proto == {"tcp", "udp"}

Tunnel == [listen : Endpoint, target : Target, protocol : {"tcp", "udp", "both"}]

ASSUME NoTunnelAssumption == NoTunnel \notin Tunnel
ASSUME NoNameAssumption == NoName \notin Name
ASSUME DesiredAssumption == Desired \subseteq [Name -> Tunnel \union {NoTunnel}]

VARIABLES
  active,       \* keys of TunnelManager.active
  spec,         \* ActiveTunnel.spec of each object that exists, by name
  worker,       \* its JoinHandles: "none", "running" or "finished"
  stop_sent,    \* names whose stop_tx has sent true
  sending,      \* endpoints whose UDP socket a response in flight keeps open
  foreign,      \* sockets of other processes, and endpoints the OS refuses
  pc,           \* where the manager is
  desired,      \* desired_map of the latest reconcile
  todo,         \* names the loop in progress has still to visit
  current,      \* the name whose spawn or stop is being awaited
  all_started   \* local of reconcile, then its return value

envVars == <<sending, foreign>>
vars == <<active, spec, worker, stop_sent, sending, foreign,
          pc, desired, todo, current, all_started>>

Starting == {"start", "bind_tcp", "bind_udp", "rollback"}

-----------------------------------------------------------------------------
NoWorkers == [p \in Proto |-> "none"]

(* Protocol::supports_tcp and supports_udp. *)
Supports(t, p) == t.protocol \in {p, "both"}

HasFinished(n) == \E p \in Proto : worker[n][p] = "finished"

Quiet(n) == \A p \in Proto : worker[n][p] # "running"

(* A worker owns its listening socket for as long as it runs.  The UDP     *)
(* socket is an Arc: a response task that has upgraded its Weak reference  *)
(* keeps it open after the worker is gone.                                 *)
InUse(p, e) ==
  \/ \E n \in Name : worker[n][p] = "running" /\ spec[n].listen = e
  \/ p = "udp" /\ e \in sending
  \/ <<p, e>> \in foreign

Wanted == {n \in Name : desired[n] # NoTunnel}

Init ==
  /\ active = {}
  /\ spec = [n \in Name |-> NoTunnel]
  /\ worker = [n \in Name |-> NoWorkers]
  /\ stop_sent = {}
  /\ sending = {}
  /\ foreign \in SUBSET (Proto \X Endpoint)
  /\ pc = "idle"
  /\ desired = [n \in Name |-> NoTunnel]
  /\ todo = {}
  /\ current = NoName
  /\ all_started = TRUE

-----------------------------------------------------------------------------
(* Mutant of Reconcile: dead workers are not looked for. *)
Reconcile_IgnoresDead(d) ==
  /\ pc = "idle"
  /\ pc' = "retire"
  /\ desired' = d
  /\ todo' = {}
  /\ all_started' = TRUE
  /\ UNCHANGED <<active, spec, worker, stop_sent, current, envVars>>

(* Mutant of Reconcile: all_started outlives the call that set it. *)
Reconcile_KeepsOldResult(d) ==
  /\ pc = "idle"
  /\ pc' = "retire"
  /\ desired' = d
  /\ todo' = {n \in active : HasFinished(n)}
  /\ UNCHANGED <<active, spec, worker, stop_sent, current, all_started, envVars>>

(* TunnelManager::reconcile, up to the first await: retire_finished_tunnels *)
(* collects the names whose worker has exited.                              *)
Reconcile(d) ==
  /\ pc = "idle"
  /\ pc' = "retire"
  /\ desired' = d
  /\ todo' = {n \in active : HasFinished(n)}
  /\ all_started' = TRUE
  /\ UNCHANGED <<active, spec, worker, stop_sent, current, envVars>>

(* active.remove(&name), then ActiveTunnel::stop up to its await; the      *)
(* bodies of the retire loop and of the removal loop are the same.         *)
StopOne(n) ==
  /\ pc \in {"retire", "remove"}
  /\ current = NoName
  /\ n \in todo
  /\ active' = active \ {n}
  /\ stop_sent' = stop_sent \union {n}
  /\ todo' = todo \ {n}
  /\ current' = n
  /\ UNCHANGED <<spec, worker, pc, desired, all_started, envVars>>

(* The object is gone: every handle has been joined. *)
Discard(S) ==
  /\ spec' = [n \in Name |-> IF n \in S THEN NoTunnel ELSE spec[n]]
  /\ worker' = [n \in Name |-> IF n \in S THEN NoWorkers ELSE worker[n]]
  /\ stop_sent' = stop_sent \ S

(* ActiveTunnel::stop returns once every worker has been joined. *)
StopReturns ==
  /\ pc \in {"retire", "remove"}
  /\ current # NoName
  /\ Quiet(current)
  /\ Discard({current})
  /\ current' = NoName
  /\ UNCHANGED <<active, pc, desired, todo, all_started, envVars>>

(* Mutant of PlanRemovals: entries are compared by name only. *)
PlanRemovals_ByName ==
  /\ pc = "retire"
  /\ current = NoName
  /\ todo = {}
  /\ pc' = "remove"
  /\ todo' = {n \in active : desired[n] = NoTunnel}
  /\ UNCHANGED <<active, spec, worker, stop_sent, desired, current, all_started, envVars>>

(* Mutant of PlanRemovals: every call restarts every tunnel. *)
PlanRemovals_RestartsAll ==
  /\ pc = "retire"
  /\ current = NoName
  /\ todo = {}
  /\ pc' = "remove"
  /\ todo' = active
  /\ UNCHANGED <<active, spec, worker, stop_sent, desired, current, all_started, envVars>>

(* to_remove: entries that are not wanted, or wanted differently. *)
PlanRemovals ==
  /\ pc = "retire"
  /\ current = NoName
  /\ todo = {}
  /\ pc' = "remove"
  /\ todo' = {n \in active : desired[n] # spec[n]}
  /\ UNCHANGED <<active, spec, worker, stop_sent, desired, current, all_started, envVars>>

PlanStarts ==
  /\ pc = "remove"
  /\ current = NoName
  /\ todo = {}
  /\ pc' = "start"
  /\ todo' = Wanted
  /\ UNCHANGED <<active, spec, worker, stop_sent, desired, current, all_started, envVars>>

ShouldStart(n) == n \in active => spec[n] # desired[n]

(* The next name of desired_map, in the map's arbitrary order, is served.  *)
KeepRunning(n) ==
  /\ pc = "start"
  /\ n \in todo
  /\ ~ShouldStart(n)
  /\ todo' = todo \ {n}
  /\ UNCHANGED <<active, spec, worker, stop_sent, pc, desired, current, all_started, envVars>>

(* ActiveTunnel::spawn is called for the next name. *)
SpawnBegins(n) ==
  /\ pc = "start"
  /\ n \in todo
  /\ ShouldStart(n)
  /\ pc' = "bind_tcp"
  /\ current' = n
  /\ spec' = [spec EXCEPT ![n] = desired[n]]
  /\ UNCHANGED <<active, worker, stop_sent, desired, todo, all_started, envVars>>

StartWorker(p) == worker' = [worker EXCEPT ![current][p] = "running"]

(* Mutant of SpawnFails: the error is returned with the workers running. *)
SpawnFails_WithoutRollback ==
  /\ pc' = "start"
  /\ all_started' = FALSE
  /\ todo' = todo \ {current}
  /\ current' = NoName
  /\ UNCHANGED <<active, spec, worker, stop_sent, desired, envVars>>

(* spawn failed: tell the workers it had already started to stop. *)
SpawnFails ==
  /\ pc' = "rollback"
  /\ stop_sent' = stop_sent \union {current}
  /\ UNCHANGED <<active, spec, worker, desired, todo, current, all_started, envVars>>

(* Mutant of BindTcp: a TCP port that is taken is skipped. *)
BindTcp_IgnoresError ==
  /\ pc = "bind_tcp"
  /\ \/ /\ Supports(spec[current], "tcp")
        /\ ~InUse("tcp", spec[current].listen)
        /\ StartWorker("tcp")
     \/ /\ Supports(spec[current], "tcp") => InUse("tcp", spec[current].listen)
        /\ UNCHANGED worker
  /\ pc' = "bind_udp"
  /\ UNCHANGED <<active, spec, stop_sent, desired, todo, current, all_started, envVars>>

BindTcp ==
  /\ pc = "bind_tcp"
  /\ \/ /\ Supports(spec[current], "tcp")
        /\ InUse("tcp", spec[current].listen)
        /\ SpawnFails
     \/ /\ \/ /\ Supports(spec[current], "tcp")
              /\ ~InUse("tcp", spec[current].listen)
              /\ StartWorker("tcp")
           \/ /\ ~Supports(spec[current], "tcp")
              /\ UNCHANGED worker
        /\ pc' = "bind_udp"
        /\ UNCHANGED <<active, spec, stop_sent, desired, todo, current, all_started, envVars>>

(* The last step of spawn; on success reconcile inserts the tunnel. *)
BindUdp ==
  /\ pc = "bind_udp"
  /\ \/ /\ Supports(spec[current], "udp")
        /\ InUse("udp", spec[current].listen)
        /\ SpawnFails
     \/ /\ \/ /\ Supports(spec[current], "udp")
              /\ ~InUse("udp", spec[current].listen)
              /\ StartWorker("udp")
           \/ /\ ~Supports(spec[current], "udp")
              /\ UNCHANGED worker
        /\ active' = active \union {current}
        /\ todo' = todo \ {current}
        /\ current' = NoName
        /\ pc' = "start"
        /\ UNCHANGED <<spec, stop_sent, desired, all_started, envVars>>

(* Mutant of RollbackReturns: the failure is not reported. *)
RollbackReturns_Silently ==
  /\ pc = "rollback"
  /\ Quiet(current)
  /\ Discard({current})
  /\ todo' = todo \ {current}
  /\ current' = NoName
  /\ pc' = "start"
  /\ UNCHANGED <<active, desired, all_started, envVars>>

(* spawn has joined the workers it had started and returns its error. *)
RollbackReturns ==
  /\ pc = "rollback"
  /\ Quiet(current)
  /\ Discard({current})
  /\ all_started' = FALSE
  /\ todo' = todo \ {current}
  /\ current' = NoName
  /\ pc' = "start"
  /\ UNCHANGED <<active, desired, envVars>>

ReconcileReturns ==
  /\ pc = "start"
  /\ todo = {}
  /\ pc' = "idle"
  /\ UNCHANGED <<active, spec, worker, stop_sent, desired, todo, current, all_started, envVars>>

(* Mutant of StopAll: it may cut a reconcile short. *)
StopAll_CancelsReconcile ==
  /\ pc # "drain"
  /\ pc' = "drain"
  /\ active' = {}
  /\ stop_sent' = active
  /\ todo' = active
  /\ all_started' = TRUE
  /\ UNCHANGED <<spec, worker, desired, current, envVars>>

(* TunnelManager::stop_all stops every tunnel at once and joins them all.  *)
StopAll ==
  /\ pc = "idle"
  /\ pc' = "drain"
  /\ active' = {}
  /\ stop_sent' = active
  /\ todo' = active
  /\ all_started' = TRUE
  /\ UNCHANGED <<spec, worker, desired, current, envVars>>

StopAllReturns ==
  /\ pc = "drain"
  /\ \A n \in todo : Quiet(n)
  /\ Discard(todo)
  /\ todo' = {}
  /\ pc' = "idle"
  /\ UNCHANGED <<active, desired, current, all_started, envVars>>

-----------------------------------------------------------------------------
(* Worker tasks.  All of them run concurrently with the manager.           *)

Exit(n, p) ==
  /\ worker[n][p] = "running"
  /\ worker' = [worker EXCEPT ![n][p] = "finished"]
  /\ UNCHANGED <<active, spec, stop_sent, pc, desired, todo, current, all_started, envVars>>

(* accept or recv_from failed, or the task panicked. *)
WorkerFails(n, p) == n \notin stop_sent /\ Exit(n, p)

(* The worker sees the stop signal and returns, or fails meanwhile. *)
WorkerStops(n, p) == n \in stop_sent /\ Exit(n, p)

(* Mutant of WorkerAborted: only stop_all bounds the wait. *)
WorkerAborted_InDrainOnly(n, p) == pc = "drain" /\ n \in stop_sent /\ Exit(n, p)

(* wait_for_task_shutdown: the grace period is over, the task is aborted   *)
(* wherever it is suspended and the handle is awaited.                     *)
WorkerAborted(n, p) == n \in stop_sent /\ Exit(n, p)

(* A response task upgrades its Weak<UdpSocket>, and drops it again when   *)
(* send_to returns.                                                        *)
SinkUpgrades(n) ==
  /\ worker[n]["udp"] = "running"
  /\ sending' = sending \union {spec[n].listen}
  /\ UNCHANGED <<active, spec, worker, stop_sent, foreign, pc, desired, todo, current, all_started>>

SinkReleases(e) ==
  /\ e \in sending
  /\ sending' = sending \ {e}
  /\ UNCHANGED <<active, spec, worker, stop_sent, foreign, pc, desired, todo, current, all_started>>

(* The rest of the machine takes and gives back endpoints. *)
ForeignBinds(p, e) ==
  /\ ~InUse(p, e)
  /\ foreign' = foreign \union {<<p, e>>}
  /\ UNCHANGED <<active, spec, worker, stop_sent, sending, pc, desired, todo, current, all_started>>

ForeignCloses(p, e) ==
  /\ <<p, e>> \in foreign
  /\ foreign' = foreign \ {<<p, e>>}
  /\ UNCHANGED <<active, spec, worker, stop_sent, sending, pc, desired, todo, current, all_started>>

-----------------------------------------------------------------------------
Manager ==
  \/ \E n \in Name : StopOne(n) \/ KeepRunning(n) \/ SpawnBegins(n)
  \/ StopReturns
  \/ PlanRemovals
  \/ PlanStarts
  \/ BindTcp
  \/ BindUdp
  \/ RollbackReturns
  \/ ReconcileReturns
  \/ StopAllReturns

Caller ==
  \/ \E d \in Desired : Reconcile(d)
  \/ StopAll

Environment ==
  \/ \E n \in Name, p \in Proto : WorkerFails(n, p) \/ WorkerStops(n, p) \/ WorkerAborted(n, p)
  \/ \E n \in Name : SinkUpgrades(n)
  \/ \E e \in Endpoint : SinkReleases(e)
  \/ \E p \in Proto, e \in Endpoint : ForeignBinds(p, e) \/ ForeignCloses(p, e)

Next == Manager \/ Caller \/ Environment

(* The manager's task is polled by the runtime; a grace period ends.       *)
(* Nothing is assumed of the workers: one may never notice the signal.     *)
Fairness ==
  /\ WF_vars(Manager)
  /\ \A n \in Name, p \in Proto : WF_vars(WorkerAborted(n, p))

SafetySpec == Init /\ [][Next]_vars

Spec == SafetySpec /\ Fairness

-----------------------------------------------------------------------------
(* The state of the manager and of its environment is well formed; in      *)
(* particular a name is awaited exactly where reconcile awaits one.        *)
TypeOK ==
  /\ active \subseteq Name
  /\ spec \in [Name -> Tunnel \union {NoTunnel}]
  /\ worker \in [Name -> [Proto -> {"none", "running", "finished"}]]
  /\ stop_sent \subseteq Name
  /\ sending \subseteq Endpoint
  /\ foreign \subseteq Proto \X Endpoint
  /\ pc \in {"idle", "retire", "remove", "drain"} \union Starting
  /\ desired \in [Name -> Tunnel \union {NoTunnel}]
  /\ todo \subseteq Name
  /\ current \in Name \union {NoName}
  /\ all_started \in BOOLEAN
  /\ pc \in {"idle", "start", "drain"} => current = NoName
  /\ pc \in {"bind_tcp", "bind_udp", "rollback"} => current # NoName

(* The names whose object the manager holds outside the map. *)
Held == (IF pc = "drain" THEN todo ELSE {}) \union ({current} \ {NoName})

(* No worker task outlives its owner: a handle, running or finished,       *)
(* belongs to a tunnel in the map or to the one being started, rolled back *)
(* or stopped.  Dropping a JoinHandle detaches the task: a worker that     *)
(* escaped would hold its port until it notices that its stop channel is   *)
(* gone, with nobody to wait for that or to abort it.                      *)
NoOrphanWorker ==
  \A n \in Name :
    (\E p \in Proto : worker[n][p] # "none") => n \in active \union Held

(* A tunnel in the map has one worker for each protocol of its spec, and   *)
(* nobody has asked those workers to stop: a "both" tunnel is never served *)
(* over one protocol because the other could not be bound.                 *)
ActiveIsWhole ==
  \A n \in active :
    /\ n \notin stop_sent
    /\ \A p \in Proto : worker[n][p] # "none" <=> Supports(spec[n], p)

(* While reconcile binds sockets, whatever still holds one is wanted as it *)
(* is: everything in the way has been stopped and joined, so two tunnels   *)
(* may exchange their ports within a single call.                          *)
StopsBeforeStarts ==
  pc \in Starting =>
    \A n \in Name \ {current} : ~Quiet(n) => n \in active /\ spec[n] = desired[n]

(* reconcile returns true exactly when every wanted tunnel is in the map,  *)
(* and in either case the map holds nothing but wanted tunnels, with the   *)
(* configuration asked for.                                                *)
ReturnTruth ==
  pc = "start" /\ pc' = "idle" =>
    /\ all_started' <=> active' = Wanted
    /\ \A n \in active' : spec'[n] = desired[n]

ReturnContract == [][ReturnTruth]_vars

(* A tunnel whose configuration does not change is never interrupted: an   *)
(* entry leaves the map because it is not wanted, because a worker of it   *)
(* has exited, or because everything is stopped.                           *)
Kept ==
  \A n \in active \ active' :
    pc' = "drain" \/ HasFinished(n) \/ desired[n] # spec[n]

KeepsUnchanged == [][Kept]_vars

(* Every call returns, though a worker may never notice its stop signal.   *)
CallsReturn == (pc # "idle") ~> (pc = "idle")

-----------------------------------------------------------------------------
(* What the loops of reconcile and the awaits inside them rely on.         *)

(* Whatever the manager holds outside the map is not in the map, and only  *)
(* that may have been told to stop.                                        *)
Roles ==
  /\ current \notin active
  /\ stop_sent \subseteq Held
  /\ \A n \in active \union Held : spec[n] \in Tunnel
  /\ pc = "drain" => active = {}
  /\ pc \in {"retire", "remove", "drain"} => all_started

(* How far each loop has come. *)
Loops ==
  /\ pc = "retire" => todo \subseteq active /\ \A n \in todo : HasFinished(n)
  /\ pc = "remove" =>
       /\ todo \subseteq active
       /\ \A n \in active : n \in todo <=> spec[n] # desired[n]
  /\ pc \in Starting =>
       /\ \A n \in active : spec[n] = desired[n]
       /\ todo \subseteq Wanted
       /\ all_started <=> Wanted \subseteq active \union todo

(* How far ActiveTunnel::spawn has come. *)
Spawning ==
  /\ pc \in {"bind_tcp", "bind_udp", "rollback"} =>
       current \in todo /\ spec[current] = desired[current]
  /\ pc \in {"bind_tcp", "bind_udp"} =>
       current \notin stop_sent /\ worker[current]["udp"] = "none"
  /\ pc = "bind_tcp" => worker[current]["tcp"] = "none"
  /\ pc = "bind_udp" =>
       (worker[current]["tcp"] # "none" <=> Supports(spec[current], "tcp"))

(* The inductive invariant.  None of the properties above is inductive on  *)
(* its own: that every worker has an owner needs to know which names each  *)
(* loop may still touch, and the result of reconcile needs to know which   *)
(* names its last loop has given up.                                       *)
Inv == TypeOK /\ NoOrphanWorker /\ ActiveIsWhole /\ Roles /\ Loops /\ Spawning

-----------------------------------------------------------------------------
(* The table of TunnelTable, as the manager keeps it.                      *)
ServedTable == [n \in Name |-> IF n \in active THEN spec[n] ELSE NoTunnel]

Calling ==
  CASE pc = "idle"  -> "none"
    [] pc = "drain" -> "stop_all"
    [] OTHER        -> "reconcile"

Abstract == INSTANCE TunnelTable WITH
  table   <- ServedTable,
  broken  <- {n \in active : HasFinished(n)},
  goal    <- desired,
  calling <- Calling,
  result  <- (pc = "idle" => all_started)

(* The manager does what TunnelTable promises, with every await, shared    *)
(* port and dying worker hidden.                                           *)
ImplementsTable == Abstract!TableSpec
=============================================================================
