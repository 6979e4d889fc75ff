------------------------- MODULE TunnelManager_proof -------------------------
(***************************************************************************)
(* The invariant of TunnelManager, what follows from it, and that          *)
(* TunnelManager implements TunnelTable, for all sets of names, endpoints  *)
(* and targets.                                                            *)
(***************************************************************************)
EXTENDS TunnelManager, TLAPS

(* Taking and releasing sockets outside the manager's tunnels disturbs     *)
(* nothing that Inv says of the manager.                                   *)
LEMMA SocketsOnly ==
  ASSUME Inv, TypeOK',
         UNCHANGED <<active, spec, worker, stop_sent, pc, desired, todo, current, all_started>>
  PROVE  Inv'
<1> USE DEF Inv
<1>1. NoOrphanWorker' /\ Roles'
  BY DEF NoOrphanWorker, Roles, Held
<1>2. ActiveIsWhole' /\ Spawning'
  BY DEF ActiveIsWhole, Spawning
<1>3. Loops'
  BY DEF Loops, HasFinished, Wanted
<1> QED
  BY <1>1, <1>2, <1>3

(* Inv is an invariant: one step per action, one leaf per part of Inv.     *)
THEOREM Invariance == SafetySpec => []Inv
<1> USE DEF Inv
<1>1. Init => Inv
  BY DEF Init, NoWorkers, Held, Starting, TypeOK, NoOrphanWorker, ActiveIsWhole, Roles, Loops, Spawning
<1>2. Inv /\ [Next]_vars => Inv'
  <2> SUFFICES ASSUME Inv, [Next]_vars PROVE Inv'
    OBVIOUS
  <2>1. ASSUME NEW d \in Desired, Reconcile(d) PROVE Inv'
    <3> USE <2>1 DEF Reconcile
    <3>1. TypeOK'
      BY DesiredAssumption DEF TypeOK, envVars
    <3>2. NoOrphanWorker'
      BY DEF NoOrphanWorker, Held
    <3>3. ActiveIsWhole'
      BY DEF ActiveIsWhole
    <3>4. Roles'
      BY DEF Roles, Held
    <3>5. Loops'
      BY DEF Loops, HasFinished, Starting
    <3>6. Spawning'
      BY DEF Spawning
    <3> QED
      BY <3>1, <3>2, <3>3, <3>4, <3>5, <3>6
  <2>2. ASSUME NEW n \in Name, StopOne(n) PROVE Inv'
    <3> USE <2>2 DEF StopOne
    <3>1. TypeOK'
      BY DEF TypeOK, envVars
    <3>2. NoOrphanWorker'
      BY DEF NoOrphanWorker, Roles, Held
    <3>3. ActiveIsWhole'
      BY DEF ActiveIsWhole
    <3>4. Roles'
      BY DEF Roles, Loops, Held
    <3>5. Loops'
      BY DEF Loops, HasFinished, Starting
    <3>6. Spawning'
      BY DEF Spawning
    <3> QED
      BY <3>1, <3>2, <3>3, <3>4, <3>5, <3>6
  <2>3. CASE StopReturns
    <3> USE <2>3 DEF StopReturns
    <3>1. TypeOK'
      BY DEF TypeOK, NoWorkers, Discard, envVars
    <3>2. NoOrphanWorker'
      BY DEF NoOrphanWorker, Held, NoWorkers, Discard
    <3>3. ActiveIsWhole'
      BY DEF TypeOK, ActiveIsWhole, Roles, Discard
    <3>4. Roles'
      BY NoNameAssumption DEF TypeOK, Roles, Held, Discard
    <3>5. Loops'
      BY DEF TypeOK, Roles, Loops, HasFinished, Starting, Discard
    <3>6. Spawning'
      BY DEF Spawning
    <3> QED
      BY <3>1, <3>2, <3>3, <3>4, <3>5, <3>6
  <2>4. CASE PlanRemovals
    <3> USE <2>4 DEF PlanRemovals
    <3>1. TypeOK'
      BY DEF TypeOK, envVars
    <3>2. NoOrphanWorker'
      BY DEF NoOrphanWorker, Held
    <3>3. ActiveIsWhole'
      BY DEF ActiveIsWhole
    <3>4. Roles'
      BY DEF Roles, Held
    <3>5. Loops'
      BY DEF Loops, Starting
    <3>6. Spawning'
      BY DEF Spawning
    <3> QED
      BY <3>1, <3>2, <3>3, <3>4, <3>5, <3>6
  <2>5. CASE PlanStarts
    <3> USE <2>5 DEF PlanStarts
    <3>1. TypeOK'
      BY DEF TypeOK, Wanted, Starting, envVars
    <3>2. NoOrphanWorker'
      BY DEF NoOrphanWorker, Held
    <3>3. ActiveIsWhole'
      BY DEF ActiveIsWhole
    <3>4. Roles'
      BY DEF Roles, Held
    <3>5. Loops'
      BY DEF Roles, Loops, Wanted
    <3>6. Spawning'
      BY DEF Spawning
    <3> QED
      BY <3>1, <3>2, <3>3, <3>4, <3>5, <3>6
  <2>6. ASSUME NEW n \in Name, KeepRunning(n) PROVE Inv'
    <3> USE <2>6 DEF KeepRunning
    <3>1. TypeOK'
      BY DEF TypeOK, envVars
    <3>2. NoOrphanWorker'
      BY DEF NoOrphanWorker, Held
    <3>3. ActiveIsWhole'
      BY DEF ActiveIsWhole
    <3>4. Roles'
      BY DEF Roles, Held
    <3>5. Loops'
      BY DEF Loops, Wanted, ShouldStart
    <3>6. Spawning'
      BY DEF Spawning
    <3> QED
      BY <3>1, <3>2, <3>3, <3>4, <3>5, <3>6
  <2>7. ASSUME NEW n \in Name, SpawnBegins(n) PROVE Inv'
    <3> USE <2>7 DEF SpawnBegins
    <3>1. TypeOK'
      BY NoNameAssumption DEF TypeOK, Starting, envVars
    <3>2. NoOrphanWorker'
      BY DEF TypeOK, NoOrphanWorker, Held
    <3>3. ActiveIsWhole'
      BY DEF ActiveIsWhole, Loops, Starting
    <3>4. Roles'
      BY DEF TypeOK, Roles, Loops, Held, Wanted, ShouldStart
    <3>5. Loops'
      BY DEF Loops, Wanted, Starting
    <3>6. Spawning'
      BY DEF TypeOK, NoOrphanWorker, Roles, Loops, Spawning, Held, Proto, ShouldStart
    <3> QED
      BY <3>1, <3>2, <3>3, <3>4, <3>5, <3>6
  <2>8. CASE BindTcp
    <3> USE <2>8 DEF BindTcp
    <3>1. TypeOK'
      BY DEF TypeOK, Starting, Proto, SpawnFails, StartWorker, envVars
    <3>2. NoOrphanWorker'
      BY DEF TypeOK, NoOrphanWorker, Held, SpawnFails, StartWorker
    <3>3. ActiveIsWhole'
      BY DEF TypeOK, ActiveIsWhole, Spawning, Proto, SpawnFails, StartWorker
    <3>4. Roles'
      BY DEF TypeOK, Roles, Held, SpawnFails
    <3>5. Loops'
      BY DEF Loops, Wanted, Starting, SpawnFails
    <3>6. Spawning'
      BY DEF TypeOK, Spawning, Proto, SpawnFails, StartWorker
    <3> QED
      BY <3>1, <3>2, <3>3, <3>4, <3>5, <3>6
  <2>9. CASE BindUdp
    <3> USE <2>9 DEF BindUdp
    <3>1. TypeOK'
      BY DEF TypeOK, Starting, Proto, SpawnFails, StartWorker, envVars
    <3>2. NoOrphanWorker'
      BY DEF TypeOK, NoOrphanWorker, Held, SpawnFails, StartWorker
    <3>3. ActiveIsWhole'
      BY DEF TypeOK, ActiveIsWhole, Spawning, Proto, SpawnFails, StartWorker
    <3>4. Roles'
      BY NoNameAssumption DEF TypeOK, Roles, Spawning, Held, SpawnFails
    <3>5. Loops'
      BY DEF Loops, Spawning, Wanted, Starting, SpawnFails
    <3>6. Spawning'
      BY DEF Spawning, SpawnFails
    <3> QED
      BY <3>1, <3>2, <3>3, <3>4, <3>5, <3>6
  <2>10. CASE RollbackReturns
    <3> USE <2>10 DEF RollbackReturns
    <3>1. TypeOK'
      BY DEF TypeOK, Starting, NoWorkers, Discard, envVars
    <3>2. NoOrphanWorker'
      BY DEF NoOrphanWorker, Held, NoWorkers, Discard
    <3>3. ActiveIsWhole'
      BY DEF TypeOK, ActiveIsWhole, Roles, Discard
    <3>4. Roles'
      BY NoNameAssumption DEF TypeOK, Roles, Held, Discard
    <3>5. Loops'
      BY DEF TypeOK, Roles, Loops, Spawning, Wanted, Discard
    <3>6. Spawning'
      BY DEF Spawning
    <3> QED
      BY <3>1, <3>2, <3>3, <3>4, <3>5, <3>6
  <2>11. CASE ReconcileReturns
    <3> USE <2>11 DEF ReconcileReturns
    <3>1. TypeOK'
      BY DEF TypeOK, envVars
    <3>2. NoOrphanWorker'
      BY DEF NoOrphanWorker, Held
    <3>3. ActiveIsWhole'
      BY DEF ActiveIsWhole
    <3>4. Roles'
      BY DEF Roles, Held
    <3>5. Loops'
      BY DEF Loops, Starting
    <3>6. Spawning'
      BY DEF Spawning
    <3> QED
      BY <3>1, <3>2, <3>3, <3>4, <3>5, <3>6
  <2>12. CASE StopAll
    <3> USE <2>12 DEF StopAll
    <3>1. TypeOK'
      BY DEF TypeOK, envVars
    <3>2. NoOrphanWorker'
      BY DEF NoOrphanWorker, Held
    <3>3. ActiveIsWhole'
      BY DEF ActiveIsWhole
    <3>4. Roles'
      BY DEF Roles, Held
    <3>5. Loops'
      BY DEF Loops, Starting
    <3>6. Spawning'
      BY DEF Spawning
    <3> QED
      BY <3>1, <3>2, <3>3, <3>4, <3>5, <3>6
  <2>13. CASE StopAllReturns
    <3> USE <2>13 DEF StopAllReturns
    <3>1. TypeOK'
      BY DEF TypeOK, NoWorkers, Discard, envVars
    <3>2. NoOrphanWorker'
      BY DEF NoOrphanWorker, Held, NoWorkers, Discard
    <3>3. ActiveIsWhole'
      BY DEF ActiveIsWhole, Roles
    <3>4. Roles'
      BY DEF TypeOK, Roles, Held, Discard
    <3>5. Loops'
      BY DEF Loops, Starting
    <3>6. Spawning'
      BY DEF Spawning
    <3> QED
      BY <3>1, <3>2, <3>3, <3>4, <3>5, <3>6
  <2>14. ASSUME NEW n \in Name, NEW p \in Proto, Exit(n, p) PROVE Inv'
    <3> USE <2>14 DEF Exit
    <3>1. TypeOK'
      BY DEF TypeOK, envVars
    <3>2. NoOrphanWorker'
      BY DEF NoOrphanWorker, Held
    <3>3. ActiveIsWhole'
      BY DEF ActiveIsWhole
    <3>4. Roles'
      BY DEF Roles, Held
    <3>5. Loops'
      BY DEF Loops, HasFinished, Wanted
    <3>6. Spawning'
      BY DEF Spawning
    <3> QED
      BY <3>1, <3>2, <3>3, <3>4, <3>5, <3>6
  <2>15. ASSUME NEW n \in Name, SinkUpgrades(n) PROVE Inv'
    <3>1. TypeOK'
      BY <2>15 DEF TypeOK, NoOrphanWorker, Roles, Proto, Tunnel, SinkUpgrades
    <3> QED
      BY <2>15, <3>1, SocketsOnly DEF SinkUpgrades
  <2>16. ASSUME NEW e \in Endpoint, SinkReleases(e) PROVE Inv'
    <3>1. TypeOK'
      BY <2>16 DEF TypeOK, SinkReleases
    <3> QED
      BY <2>16, <3>1, SocketsOnly DEF SinkReleases
  <2>17. ASSUME NEW p \in Proto, NEW e \in Endpoint, ForeignBinds(p, e) PROVE Inv'
    <3>1. TypeOK'
      BY <2>17 DEF TypeOK, ForeignBinds
    <3> QED
      BY <2>17, <3>1, SocketsOnly DEF ForeignBinds
  <2>18. ASSUME NEW p \in Proto, NEW e \in Endpoint, ForeignCloses(p, e) PROVE Inv'
    <3>1. TypeOK'
      BY <2>18 DEF TypeOK, ForeignCloses
    <3> QED
      BY <2>18, <3>1, SocketsOnly DEF ForeignCloses
  <2>19. CASE UNCHANGED vars
    <3>1. TypeOK'
      BY <2>19 DEF TypeOK, vars
    <3> QED
      BY <2>19, <3>1, SocketsOnly DEF vars
  <2> HIDE DEF Inv
  <2> QED
    BY <2>1, <2>2, <2>3, <2>4, <2>5, <2>6, <2>7, <2>8, <2>9, <2>10, <2>11, <2>12, <2>13,
       <2>14, <2>15, <2>16, <2>17, <2>18, <2>19
       DEF Next, Manager, Caller, Environment, WorkerFails, WorkerStops, WorkerAborted
<1> QED
  BY <1>1, <1>2, PTL DEF SafetySpec

(* No worker task outlives its owner. *)
THEOREM Ownership == SafetySpec => []NoOrphanWorker
<1>1. Inv => NoOrphanWorker
  BY DEF Inv
<1> QED
  BY <1>1, Invariance, PTL

(* Every tunnel in the map has all of its workers, and none of them has    *)
(* been asked to stop.                                                     *)
THEOREM Whole == SafetySpec => []ActiveIsWhole
<1>1. Inv => ActiveIsWhole
  BY DEF Inv
<1> QED
  BY <1>1, Invariance, PTL

(* Sockets are bound only after everything in the way has been stopped.    *)
THEOREM StopsFirst == SafetySpec => []StopsBeforeStarts
<1>1. Inv => StopsBeforeStarts
  <2> SUFFICES ASSUME Inv, pc \in Starting, NEW n \in Name \ {current}, ~Quiet(n)
               PROVE  n \in active /\ spec[n] = desired[n]
    BY DEF StopsBeforeStarts
  <2>1. n \in active
    BY DEF Inv, NoOrphanWorker, Held, Quiet, Starting
  <2> QED
    BY <2>1 DEF Inv, Loops
<1> QED
  BY <1>1, Invariance, PTL

(* What reconcile returns is whether the map holds every wanted tunnel; in *)
(* either case it holds nothing else.                                      *)
THEOREM Returns == SafetySpec => ReturnContract
<1>1. Inv /\ [Next]_vars => [ReturnTruth]_vars
  <2> SUFFICES ASSUME Inv, [Next]_vars, pc = "start", pc' = "idle"
               PROVE  /\ all_started' <=> active' = Wanted
                      /\ \A n \in active' : spec'[n] = desired[n]
    BY DEF ReturnTruth
  <2>1. ReconcileReturns
    BY DEF Next, Manager, Caller, Environment, StopOne, StopReturns, PlanRemovals, PlanStarts,
           KeepRunning, SpawnBegins, BindTcp, BindUdp, SpawnFails, RollbackReturns, StopAllReturns,
           Reconcile, StopAll, WorkerFails, WorkerStops, WorkerAborted, Exit, SinkUpgrades,
           SinkReleases, ForeignBinds, ForeignCloses, vars
  <2>2. active' = active /\ spec' = spec /\ all_started' = all_started /\ todo = {}
    BY <2>1 DEF ReconcileReturns
  <2>3. \A n \in active : spec[n] = desired[n]
    BY DEF Inv, Loops, Starting
  <2>4. active \subseteq Wanted
    BY <2>3, NoTunnelAssumption DEF Inv, TypeOK, Roles, Wanted
  <2>5. all_started <=> Wanted \subseteq active
    BY <2>2 DEF Inv, Loops, Starting
  <2> QED
    BY <2>2, <2>3, <2>4, <2>5
<1> QED
  BY <1>1, Invariance, PTL DEF SafetySpec, ReturnContract

(* An entry leaves the map only because it is not wanted as it is, because *)
(* one of its workers has exited, or because everything is stopped.        *)
THEOREM Keeps == SafetySpec => KeepsUnchanged
<1>1. Inv /\ [Next]_vars => [Kept]_vars
  <2> SUFFICES ASSUME Inv, [Next]_vars, NEW n \in active \ active'
               PROVE  pc' = "drain" \/ HasFinished(n) \/ desired[n] # spec[n]
    BY DEF Kept
  <2>1. CASE \E m \in Name : StopOne(m)
    BY <2>1 DEF StopOne, Inv, Loops
  <2>2. CASE StopAll
    BY <2>2 DEF StopAll
  <2>3. ASSUME ~StopAll, \A m \in Name : ~StopOne(m) PROVE active \subseteq active'
    BY <2>3 DEF Next, Manager, Caller, Environment, StopReturns, PlanRemovals, PlanStarts,
           KeepRunning, SpawnBegins, BindTcp, BindUdp, SpawnFails, RollbackReturns,
           ReconcileReturns, StopAllReturns, Reconcile, WorkerFails, WorkerStops, WorkerAborted,
           Exit, SinkUpgrades, SinkReleases, ForeignBinds, ForeignCloses, vars
  <2> QED
    BY <2>1, <2>2, <2>3
<1> QED
  BY <1>1, Invariance, PTL DEF SafetySpec, KeepsUnchanged

-----------------------------------------------------------------------------
(* The refinement: one lemma for each step that TunnelTable can see.       *)

Dead == {n \in active : HasFinished(n)}

(* Taking a tunnel out of the map to stop it is a Drop. *)
LEMMA StopOneDrops ==
  ASSUME Inv, NEW n \in Name, StopOne(n) PROVE Abstract!Drop(n)
<1> USE DEF StopOne, envVars
<1>1. Calling = "reconcile" /\ Calling' = "reconcile" /\ pc # "idle" /\ pc' # "idle"
  BY DEF Calling
<1>2. n \in active /\ (HasFinished(n) \/ spec[n] # desired[n])
  BY DEF Inv, Loops
<1>3. ServedTable[n] # NoTunnel /\ (HasFinished(n) \/ ServedTable[n] # desired[n])
  BY <1>2, NoTunnelAssumption DEF Inv, Roles, ServedTable
<1>4. ServedTable' = [ServedTable EXCEPT ![n] = NoTunnel]
  BY DEF ServedTable
<1>5. Dead' = Dead \ {n}
  BY DEF Dead, HasFinished
<1> QED
  BY <1>1, <1>2, <1>3, <1>4, <1>5 DEF Abstract!Drop, Dead

(* The last step of a spawn that succeeds is an Add; one that fails shows  *)
(* nothing.                                                                *)
LEMMA BindUdpAdds ==
  ASSUME Inv, BindUdp PROVE Abstract!Add(current) \/ UNCHANGED Abstract!tableVars
<1>1. CASE SpawnFails
  <2>1. /\ UNCHANGED <<active, spec, worker, desired, Calling>>
        /\ pc # "idle" /\ pc' # "idle"
    BY <1>1 DEF SpawnFails, BindUdp, envVars, Calling
  <2> QED
    BY <2>1 DEF ServedTable, HasFinished, Abstract!tableVars
<1>2. CASE ~SpawnFails
  <2> DEFINE n == current
  <2>1. /\ active' = active \union {n} /\ spec' = spec /\ desired' = desired
        /\ \A m \in Name \ {n} : worker'[m] = worker[m]
        /\ pc = "bind_udp" /\ pc' = "start"
    BY <1>2 DEF BindUdp, StartWorker, envVars, Inv, TypeOK
  <2>2. n \in Name /\ n \notin active /\ spec[n] = desired[n] /\ spec[n] \in Tunnel
    BY <2>1, NoNameAssumption DEF Inv, TypeOK, Roles, Spawning, Held
  <2>3. Calling = "reconcile" /\ Calling' = "reconcile"
    BY <2>1 DEF Calling
  <2>4. ServedTable[n] = NoTunnel /\ ServedTable' = [ServedTable EXCEPT ![n] = desired[n]]
    BY <2>1, <2>2 DEF ServedTable
  <2>5. \A m \in Name : ServedTable[m] \in {desired[m], NoTunnel}
    BY <2>1 DEF Inv, Loops, Starting, ServedTable
  <2>6. Dead' \in {Dead, Dead \union {n}}
    <3>1. \A m \in active : m # n /\ (HasFinished(m)' <=> HasFinished(m))
      BY <2>1, <2>2 DEF HasFinished, Inv, TypeOK
    <3>2. CASE HasFinished(n)'
      BY <3>1, <3>2, <2>1 DEF Dead
    <3>3. CASE ~HasFinished(n)'
      BY <3>1, <3>3, <2>1 DEF Dead
    <3> QED
      BY <3>2, <3>3
  <2> QED
    BY <2>1, <2>2, <2>3, <2>4, <2>5, <2>6, NoTunnelAssumption DEF Abstract!Add, Dead
<1> QED
  BY <1>1, <1>2

(* reconcile's own return value is the one TunnelTable promises. *)
LEMMA ReconcileReturnsReturns ==
  ASSUME Inv, ReconcileReturns PROVE Abstract!Return
  BY NoTunnelAssumption DEF ReconcileReturns, envVars, Inv, TypeOK, Roles, Loops, Starting, Wanted,
     HasFinished, ServedTable, Calling, Abstract!Return

(* stop_all empties the table at once and returns later. *)
LEMMA StopAllStops ==
  ASSUME Inv PROVE /\ StopAll => Abstract!StopAll
                   /\ StopAllReturns => Abstract!StopAllReturn
<1>1. ASSUME StopAll PROVE Abstract!StopAll
  BY <1>1 DEF StopAll, envVars, ServedTable, Calling, Abstract!StopAll, Abstract!Empty
<1>2. ASSUME StopAllReturns PROVE Abstract!StopAllReturn
  BY <1>2 DEF StopAllReturns, Discard, envVars, Inv, Roles, ServedTable, Calling, HasFinished,
     Abstract!StopAllReturn
<1> QED
  BY <1>1, <1>2

(* A worker that exits breaks a tunnel of the map, or shows nothing.       *)
LEMMA ExitBreaks ==
  ASSUME Inv, NEW n \in Name, NEW p \in Proto, Exit(n, p)
  PROVE  Abstract!Break(n) \/ UNCHANGED Abstract!tableVars
  BY NoTunnelAssumption DEF Exit, envVars, Inv, TypeOK, Roles, HasFinished, ServedTable, Calling,
     Abstract!Break, Abstract!tableVars

(* The steps inside a call that leave the map as it is show nothing.       *)
LEMMA Hidden ==
  ASSUME Inv,
         \/ StopReturns \/ PlanRemovals \/ PlanStarts \/ BindTcp \/ RollbackReturns
         \/ \E n \in Name : KeepRunning(n) \/ SpawnBegins(n)
  PROVE  UNCHANGED Abstract!tableVars
<1> USE DEF ServedTable, HasFinished, Abstract!tableVars, envVars, Calling
<1>1. CASE StopReturns
  BY <1>1 DEF StopReturns, Discard, Inv, TypeOK, Roles
<1>2. CASE PlanRemovals \/ PlanStarts
  BY <1>2 DEF PlanRemovals, PlanStarts
<1>3. CASE \E n \in Name : KeepRunning(n)
  BY <1>3 DEF KeepRunning
<1>4. CASE \E n \in Name : SpawnBegins(n)
  BY <1>4 DEF SpawnBegins, ShouldStart, Inv, TypeOK, Loops, Starting
<1>5. CASE BindTcp
  BY <1>5 DEF BindTcp, SpawnFails, StartWorker, Inv, TypeOK, Roles
<1>6. CASE RollbackReturns
  BY <1>6 DEF RollbackReturns, Discard, Inv, TypeOK, Roles
<1> QED
  BY <1>1, <1>2, <1>3, <1>4, <1>5, <1>6

(* TunnelManager implements TunnelTable. *)
THEOREM Refinement == SafetySpec => ImplementsTable
<1>1. Init => Abstract!Init
  BY DEF Init, NoWorkers, HasFinished, Proto, ServedTable, Calling, Abstract!Init, Abstract!Empty
<1>2. Inv /\ [Next]_vars => [Abstract!Next]_Abstract!tableVars
  <2> SUFFICES ASSUME Inv, [Next]_vars PROVE Abstract!Next \/ UNCHANGED Abstract!tableVars
    OBVIOUS
  <2>1. ASSUME NEW d \in Desired, Reconcile(d) PROVE Abstract!Next
    <3>1. Abstract!Reconcile(d)
      BY <2>1 DEF Reconcile, envVars, HasFinished, ServedTable, Calling, Abstract!Reconcile
    <3> QED
      BY <3>1 DEF Abstract!Next
  <2>2. ASSUME NEW n \in Name, StopOne(n) PROVE Abstract!Next
    BY <2>2, StopOneDrops DEF Abstract!Next
  <2>3. CASE BindUdp
    <3>1. current \in Name
      BY <2>3, NoNameAssumption DEF BindUdp, Inv, TypeOK
    <3> QED
      BY <2>3, <3>1, BindUdpAdds DEF Abstract!Next
  <2>4. CASE ReconcileReturns
    BY <2>4, ReconcileReturnsReturns DEF Abstract!Next
  <2>5. CASE StopAll \/ StopAllReturns
    BY <2>5, StopAllStops DEF Abstract!Next
  <2>6. ASSUME NEW n \in Name, NEW p \in Proto, Exit(n, p)
        PROVE  Abstract!Next \/ UNCHANGED Abstract!tableVars
    BY <2>6, ExitBreaks DEF Abstract!Next
  <2>7. CASE \/ StopReturns \/ PlanRemovals \/ PlanStarts \/ BindTcp \/ RollbackReturns
             \/ \E n \in Name : KeepRunning(n) \/ SpawnBegins(n)
    BY <2>7, Hidden
  <2>8. CASE UNCHANGED <<active, spec, worker, pc, desired, all_started>>
    BY <2>8 DEF ServedTable, HasFinished, Calling, Abstract!tableVars
  <2> QED
    BY <2>1, <2>2, <2>3, <2>4, <2>5, <2>6, <2>7, <2>8
       DEF Next, Manager, Caller, Environment, WorkerFails, WorkerStops, WorkerAborted,
           SinkUpgrades, SinkReleases, ForeignBinds, ForeignCloses, vars
<1> QED
  BY <1>1, <1>2, Invariance, PTL DEF SafetySpec, ImplementsTable, Abstract!TableSpec
===============================================================================
