-------------------------- MODULE Foreground_proof --------------------------
(***************************************************************************)
(* run_foreground leaves nothing behind, for all configurations.  What its *)
(* managers keep true is taken from the proofs about them: the loop takes  *)
(* no step of theirs that they would not take under any caller.            *)
(***************************************************************************)
EXTENDS Foreground, TunnelManager_proof, TLAPS

-----------------------------------------------------------------------------
(* The loop drives its managers as their specifications allow.             *)

(* In socket mode it asks for tunnels that the manager may be asked for. *)
LEMMA SocketsDesired ==
  ASSUME config \in Loadable, config.mode = "socket"
  PROVE  SocketTunnels(config) \in Desired
BY SocketTunnelsAssumption

(* The configuration is never loaded again. *)
LEMMA Configured == FgSafetySpec => [](config \in Loadable)
<1>1. FgInit => config \in Loadable
  BY DEF FgInit
<1>2. config \in Loadable /\ [FgNext]_fgVars => (config \in Loadable)'
  BY DEF FgNext, Loop, StartSockets, StartNft, Started, GiveUp, Wait, WaitFails, HealthTick, Checked,
     SocketsStopped, NftStopped, DropNft, Exits, Terminate, Killed, FgManager, FgNftCommand,
     FgEnvironment, Done, fgVars
<1> QED
  BY <1>1, <1>2, PTL DEF FgSafetySpec

(* To the tunnel manager the loop is a caller like any other. *)
LEMMA ManagerSpec == FgSafetySpec => SafetySpec
<1>1. FgInit => Init
  BY DEF FgInit
<1>2. config \in Loadable /\ [FgNext]_fgVars => [Next]_vars
  <2> SUFFICES ASSUME config \in Loadable, [FgNext]_fgVars PROVE [Next]_vars
    OBVIOUS
  <2>1. CASE StartSockets
    BY <2>1, SocketsDesired DEF StartSockets, Next, Caller
  <2>2. CASE HealthTick
    BY <2>2, SocketsDesired DEF HealthTick, Next, Caller
  <2>3. CASE GiveUp \/ Terminate
    BY <2>3 DEF GiveUp, Terminate, Next, Caller
  <2>4. CASE FgManager \/ FgEnvironment
    BY <2>4 DEF FgManager, FgEnvironment, Next
  <2>5. CASE UNCHANGED vars
    BY <2>5
  <2>6. CASE UNCHANGED fgVars
    BY <2>6 DEF fgVars
  <2> QED
    BY <2>1, <2>2, <2>3, <2>4, <2>5, <2>6 DEF FgNext, Loop, StartNft, Started, Wait, WaitFails, Checked,
       SocketsStopped, NftStopped, DropNft, Exits, Killed, FgNftCommand, Done
<1> QED
  BY <1>1, <1>2, Configured, PTL DEF FgSafetySpec, SafetySpec

(* And so it is to the nft manager. *)
LEMMA NftManagerSpec == FgSafetySpec => Nft!NftSpec
<1>1. FgInit => Nft!NftInit
  BY DEF FgInit
<1>2. config \in Loadable /\ [FgNext]_fgVars => [Nft!NftNext]_Nft!nftVars
  <2> SUFFICES ASSUME config \in Loadable, [FgNext]_fgVars
               PROVE  Nft!NftNext \/ UNCHANGED nftVars
    BY DEF nftVars, Nft!nftVars
  <2>1. CASE StartNft
    BY <2>1 DEF StartNft, Nft!NftNext, Nft!NftCall
  <2>2. CASE SocketsStopped \/ DropNft
    BY <2>2 DEF SocketsStopped, DropNft, Nft!NftNext, Nft!NftCall
  <2>3. CASE Killed \/ FgNftCommand
    BY <2>3 DEF Killed, FgNftCommand, Nft!NftNext
  <2>4. CASE UNCHANGED nftVars
    BY <2>4
  <2>5. CASE UNCHANGED fgVars
    BY <2>5 DEF fgVars
  <2> QED
    BY <2>1, <2>2, <2>3, <2>4, <2>5 DEF FgNext, Loop, StartSockets, Started, GiveUp, Wait, WaitFails,
       HealthTick, Checked, NftStopped, Exits, Terminate, FgManager, FgEnvironment, Done
<1> QED
  BY <1>1, <1>2, Configured, PTL DEF FgSafetySpec, Nft!NftSpec

(* A caller that keeps to the operations of the nft manager can rely on    *)
(* the record it keeps of the kernel.                                      *)
LEMMA RecordServesCallers == Nft!NftSpec => [](Nft!NftTypeOK /\ Nft!KernelIsRecorded)
<1>1. Nft!NftSpec => []Nft!NftTypeOK
  BY Nft!Typing, MaxDeleteFailuresAssumption, LoopbackAssumption, BlankNameAssumption, IpAssumption,
     AddressAssumption, LoadAssumption, Zenon
     DEF Address, Nft!Address, DefaultConfig, Nft!DefaultConfig
<1>2. Nft!NftSpec => []Nft!KernelIsRecorded
  BY Nft!Recorded, MaxDeleteFailuresAssumption, LoopbackAssumption, BlankNameAssumption, IpAssumption,
     AddressAssumption, LoadAssumption, Zenon
     DEF Address, Nft!Address, DefaultConfig, Nft!DefaultConfig
<1> QED
  BY <1>1, <1>2, PTL

-----------------------------------------------------------------------------
(* Whatever returns from the loop has been stopped before.                 *)

(* stop_all returns with no worker left. *)
LEMMA StopAllClears ==
  ASSUME Inv, StopAllReturns
  PROVE  active' = {} /\ (\A n \in Name : worker'[n] = NoWorkers)
<1> USE DEF StopAllReturns
<1>1. active' = {}
  BY DEF Inv, Roles
<1>2. ASSUME NEW n \in Name PROVE worker'[n] = NoWorkers
  <2>1. CASE n \in todo
    BY <2>1 DEF Discard
  <2>2. CASE n \notin todo
    <3>1. worker'[n] = worker[n]
      BY <2>2 DEF Discard
    <3>2. \A p \in Proto : worker[n][p] = "none"
      BY <2>2, NoNameAssumption DEF Inv, TypeOK, NoOrphanWorker, Roles, Held
    <3>3. worker[n] \in [Proto -> {"none", "running", "finished"}]
      BY DEF Inv, TypeOK
    <3> QED
      BY <3>1, <3>2, <3>3 DEF NoWorkers
  <2> QED
    BY <2>1, <2>2
<1> QED
  BY <1>1, <1>2

(* What the manager, its workers and the machine do while the loop awaits. *)
LEMMA ManagerStep ==
  ASSUME FgTypeOK, Stopping, Inv, TypeOK', FgManager
  PROVE  FgTypeOK' /\ Stopping'
<1> USE DEF FgManager
<1>1. pc # "idle" /\ desired' = desired
  BY DEF Manager, StopOne, KeepRunning, SpawnBegins, StopReturns, PlanRemovals, PlanStarts, BindTcp, BindUdp,
     SpawnFails, RollbackReturns, ReconcileReturns, StopAllReturns, Starting
<1>2. FgTypeOK'
  BY <1>1 DEF FgTypeOK, Ended, nftVars
<1>3. CASE loop = "stop_sockets"
  <2>1. pc = "drain"
    BY <1>1, <1>3 DEF Stopping
  <2>2. StopAllReturns
    BY <2>1 DEF Manager, StopOne, KeepRunning, SpawnBegins, StopReturns, PlanRemovals, PlanStarts, BindTcp,
       BindUdp, RollbackReturns, ReconcileReturns
  <2>3. NoSockets' /\ pc' = "idle"
    BY <2>2, StopAllClears DEF NoSockets, StopAllReturns
  <2> QED
    BY <1>2, <1>3, <2>3 DEF Stopping, nftVars
<1>4. CASE loop # "stop_sockets"
  <2>1. loop \notin {"stop_nft", "drop", "dropping", "exited"}
    BY <1>1 DEF FgTypeOK
  <2> QED
    BY <1>2, <1>4, <2>1 DEF Stopping, nftVars
<1> QED
  BY <1>3, <1>4

(* Where nothing is served, nobody can change that but the manager. *)
LEMMA EnvironmentStep ==
  ASSUME FgTypeOK, Stopping, TypeOK', FgEnvironment
  PROVE  FgTypeOK' /\ Stopping'
<1> USE DEF FgEnvironment
<1>1. UNCHANGED <<pc, desired, active>>
  BY DEF Environment, WorkerFails, WorkerStops, WorkerAborted, Exit, SinkUpgrades, SinkReleases, ForeignBinds,
     ForeignCloses
<1>2. NoSockets => NoSockets'
  <2>1. ASSUME NEW n \in Name, worker[n] = NoWorkers, NEW p \in Proto PROVE ~Exit(n, p)
    BY <2>1 DEF Exit, NoWorkers
  <2> QED
    BY <1>1, <2>1 DEF NoSockets, Environment, WorkerFails, WorkerStops, WorkerAborted, SinkUpgrades,
       SinkReleases, ForeignBinds, ForeignCloses
<1> QED
  BY <1>1, <1>2 DEF FgTypeOK, Stopping, nftVars

(* An nft command changes neither the loop nor the tunnels. *)
LEMMA NftCommandStep ==
  ASSUME FgTypeOK, Stopping, TypeOK', FgNftCommand
  PROVE  FgTypeOK' /\ Stopping'
<1> USE DEF FgNftCommand
<1>1. nft_pc \notin {"idle", "gone"} /\ killed' = killed
  BY DEF Nft!NftCommand, Nft!NftDeleteOld, Nft!NftScriptSucceeds, Nft!NftScriptFails, Nft!NftDeleteOnly,
     Nft!NftStopDelete, Nft!NftDropDelete, Nft!Applied, Nft!ApplyFails
<1> QED
  BY <1>1 DEF FgTypeOK, Stopping, NoSockets, vars

(* What the loop does by itself. *)
LEMMA LoopStep ==
  ASSUME FgTypeOK, Stopping, TypeOK', Loop \/ Terminate \/ Killed
  PROVE  FgTypeOK' /\ Stopping'
<1> USE DEF FgTypeOK, Stopping
<1>1. CASE StartSockets
  BY <1>1 DEF StartSockets, Reconcile, nftVars
<1>2. CASE StartNft
  BY <1>2 DEF StartNft, Nft!NftReconcile, vars
<1>3. CASE Started
  BY <1>3 DEF Started, vars, nftVars
<1>4. CASE GiveUp
  BY <1>4 DEF GiveUp, StopAll, nftVars
<1>5. CASE Wait
  BY <1>5 DEF Wait, vars, nftVars
<1>6. CASE WaitFails
  BY <1>6 DEF WaitFails, vars, nftVars
<1>7. CASE HealthTick
  BY <1>7 DEF HealthTick, Reconcile, vars, nftVars
<1>8. CASE Checked
  BY <1>8 DEF Checked, vars, nftVars
<1>9. CASE Terminate
  BY <1>9 DEF Terminate, StopAll, nftVars
<1>10. CASE SocketsStopped
  BY <1>10 DEF SocketsStopped, Nft!NftStopAll, NoSockets, vars
<1>11. CASE NftStopped
  BY <1>11 DEF NftStopped, NoSockets, vars, nftVars
<1>12. CASE DropNft
  BY <1>12 DEF DropNft, Nft!NftDrop, NoSockets, vars
<1>13. CASE Exits
  BY <1>13 DEF Exits, NoSockets, vars, nftVars
<1>14. CASE Killed
  BY <1>14 DEF Killed, Nft!NftKilled, Ended, vars
<1> QED
  BY <1>1, <1>2, <1>3, <1>4, <1>5, <1>6, <1>7, <1>8, <1>9, <1>10, <1>11, <1>12, <1>13, <1>14 DEF Loop

(* The loop agrees with its managers on who is at work, and at the end     *)
(* with what has been stopped.                                             *)
LEMMA Stops == FgSafetySpec => [](FgTypeOK /\ Stopping)
<1>1. FgInit /\ Inv => FgTypeOK /\ Stopping
  BY DEF FgInit, Init, Nft!NftInit, FgTypeOK, Stopping, Inv
<1>2. FgTypeOK /\ Stopping /\ Inv /\ Inv' /\ [FgNext]_fgVars => FgTypeOK' /\ Stopping'
  <2> SUFFICES ASSUME FgTypeOK, Stopping, Inv, TypeOK', [FgNext]_fgVars PROVE FgTypeOK' /\ Stopping'
    BY DEF Inv
  <2>1. CASE Loop \/ Terminate \/ Killed
    BY <2>1, LoopStep
  <2>2. CASE FgManager
    BY <2>2, ManagerStep
  <2>3. CASE FgEnvironment
    BY <2>3, EnvironmentStep
  <2>4. CASE FgNftCommand
    BY <2>4, NftCommandStep
  <2>5. CASE UNCHANGED fgVars
    BY <2>5 DEF FgTypeOK, Stopping, NoSockets, fgVars, vars, nftVars
  <2> QED
    BY <2>1, <2>2, <2>3, <2>4, <2>5 DEF FgNext, Done
<1>3. FgSafetySpec => []Inv
  BY ManagerSpec, Invariance
<1> QED
  BY <1>1, <1>2, <1>3, PTL DEF FgSafetySpec

-----------------------------------------------------------------------------
(* The rules are installed before the loop waits, and stay.                *)

(* An nft command of the start installs the whole table, or fails. *)
LEMMA InstallCommand ==
  ASSUME FgTypeOK, Installing, Nft!KernelIsRecorded, FgNftCommand
  PROVE  Installing'
<1> USE DEF FgNftCommand, Installing
<1>1. nft_pc # "idle" /\ nft_desired' = nft_desired /\ config' = config /\ loop' = loop
  BY DEF Nft!NftCommand, Nft!NftDeleteOld, Nft!NftScriptSucceeds, Nft!NftScriptFails, Nft!NftDeleteOnly,
     Nft!NftStopDelete, Nft!NftDropDelete, Nft!Applied, Nft!ApplyFails
<1>2. loop \notin {"start", "wait", "select"}
  BY <1>1 DEF FgTypeOK
<1>3. CASE loop # "await_nft"
  BY <1>1, <1>2, <1>3
<1>4. CASE loop = "await_nft"
  <2>1. CASE Nft!NftDeleteOld
    BY <1>1, <1>2, <1>4, <2>1 DEF Nft!NftDeleteOld, Nft!DeleteTable
  <2>2. CASE Nft!NftScriptSucceeds
    BY <1>1, <1>2, <1>4, <2>2 DEF Nft!NftScriptSucceeds, Nft!Applied, Nft!TableFor, Nft!KernelIsRecorded
  <2>3. CASE Nft!NftScriptFails
    BY <1>1, <1>2, <1>4, <2>3 DEF Nft!NftScriptFails, Nft!ApplyFails
  <2>4. CASE Nft!NftDeleteOnly
    BY <1>1, <1>2, <1>4, <2>4 DEF Nft!NftDeleteOnly, Nft!DeleteTable, Nft!Applied, Nft!ApplyFails,
       Nft!KernelIsRecorded
  <2>5. ~Nft!NftStopDelete /\ ~Nft!NftDropDelete
    BY <1>1, <1>4 DEF Nft!NftStopDelete, Nft!NftDropDelete
  <2> QED
    BY <2>1, <2>2, <2>3, <2>4, <2>5 DEF Nft!NftCommand
<1> QED
  BY <1>3, <1>4

(* Nothing else touches the table while the loop waits. *)
LEMMA InstallStep ==
  ASSUME FgTypeOK, Installing, Nft!KernelIsRecorded, [FgNext]_fgVars
  PROVE  Installing'
<1> USE DEF Installing
<1>1. CASE StartSockets
  BY <1>1 DEF StartSockets, nftVars
<1>2. CASE StartNft
  BY <1>2 DEF StartNft, Nft!NftReconcile
<1>3. CASE Started
  BY <1>3 DEF Started, nftVars
<1>4. CASE Wait \/ WaitFails \/ HealthTick \/ Checked
  BY <1>4 DEF Wait, WaitFails, HealthTick, Checked, nftVars
<1>5. CASE GiveUp \/ Terminate \/ SocketsStopped \/ NftStopped \/ DropNft \/ Exits \/ Killed
  BY <1>5 DEF GiveUp, Terminate, SocketsStopped, NftStopped, DropNft, Exits, Killed
<1>6. CASE FgNftCommand
  BY <1>6, InstallCommand
<1>7. CASE UNCHANGED <<nftVars, config, loop>>
  BY <1>7 DEF nftVars
<1>8. CASE UNCHANGED fgVars
  BY <1>8 DEF fgVars, nftVars
<1> QED
  BY <1>1, <1>2, <1>3, <1>4, <1>5, <1>6, <1>7, <1>8 DEF FgNext, Loop, FgManager, FgEnvironment, Done

(* How far the start and the shutdown have come is inductive. *)
THEOREM ForegroundInvariance == FgSafetySpec => []FgInv
<1>1. FgInit => Installing
  BY DEF FgInit, Nft!NftInit, Installing
<1>2. FgTypeOK /\ Installing /\ Nft!KernelIsRecorded /\ [FgNext]_fgVars => Installing'
  BY InstallStep
<1>3. FgSafetySpec => []Nft!KernelIsRecorded
  BY NftManagerSpec, RecordServesCallers, PTL
<1>4. FgSafetySpec => []Installing
  BY <1>1, <1>2, <1>3, Stops, PTL DEF FgSafetySpec
<1> QED
  BY <1>4, Stops, PTL DEF FgInv

(* So a command that returns has left no worker task, no tunnel and no     *)
(* table, whatever has failed meanwhile.                                   *)
THEOREM LeavesNothing == FgSafetySpec => []EndsClean
<1>1. FgInv /\ Nft!KernelIsRecorded => EndsClean
  BY DEF FgInv, FgTypeOK, Stopping, Nft!KernelIsRecorded, EndsClean
<1> QED
  BY <1>1, ForegroundInvariance, NftManagerSpec, RecordServesCallers, PTL

-----------------------------------------------------------------------------
(* What the configuration says and what the kernel does.                   *)

(* Asked reads a configuration as it is read when it is loaded. *)
LEMMA SameReading ==
  /\ \A c : Asked!EnabledTunnels(c) = EnabledTunnels(c)
  /\ \A c : Asked!Valid(c) <=> Valid(c)
<1>1. ASSUME NEW c PROVE Asked!EnabledTunnels(c) = EnabledTunnels(c)
  BY DEF Asked!EnabledTunnels, Asked!FlattenSeq, EnabledTunnels, FlattenSeq
<1>2. ASSUME NEW c PROVE Asked!Valid(c) <=> Valid(c)
  BY <1>1 DEF Asked!Valid, Asked!ValidTunnel, Asked!DistinctNames, Asked!ValidateNftMode, Asked!Ipv4Only,
     Asked!DistinctEndpoints, Asked!Carries, Asked!Transport, Asked!Address,
     Valid, ValidTunnel, DistinctNames, ValidateNftMode, Ipv4Only, DistinctEndpoints, Carries, Transport, Address
<1> QED
  BY <1>1, <1>2

(* The table installed is the one that Asked is about. *)
LEMMA SameTable ==
  ASSUME NEW ts
  PROVE  /\ Nft!TableFor(ts) = Asked!TableFor(ts)
         /\ Nft!IsEmpty(Nft!FromTunnels(ts)) <=> Asked!IsEmpty(Asked!FromTunnels(ts))
<1>1. Nft!FromTunnels(ts) = Asked!FromTunnels(ts)
  BY DEF Nft!FromTunnels, Nft!FlattenSeq, Nft!RulesOf, Nft!RuleFor, Nft!Carries, Nft!Ipv4Only, Nft!Address,
     Asked!FromTunnels, Asked!FlattenSeq, Asked!RulesOf, Asked!RuleFor, Asked!Carries, Asked!Ipv4Only, Asked!Address
<1> QED
  BY <1>1 DEF Nft!TableFor, Nft!AddTo, Nft!EmptyTable, Nft!Hook, Nft!IsEmpty,
     Asked!TableFor, Asked!AddTo, Asked!EmptyTable, Asked!Hook, Asked!IsEmpty

(* The configuration that is loaded would be accepted again. *)
LEMMA LoadedIsAccepted ==
  ASSUME config \in Loadable, config.mode = "nft"
  PROVE  config \in Asked!Document /\ Asked!Accepted
<1>1. PICK f \in File : config = LoadForRuntime(f) /\ config # NoConfig
  BY DEF Loadable
<1>2. config \notin {Missing, Blank, Malformed} /\ Valid(config)
  BY <1>1 DEF LoadForRuntime, Parse
<1> QED
  BY <1>1, <1>2, SameReading, LoadableAssumption DEF Asked!Accepted, Asked!LoadForRuntime, Asked!Parse

(* What is proved of accepted documents is proved of the configuration. *)
LEMMA AskedServes ==
  config \in Asked!Document /\ Asked!Accepted =>
    /\ Asked!RulesServeTunnels
    /\ Asked!TableFor(Asked!EnabledTunnels(config)) \in Asked!Table
    /\ Asked!IsEmpty(Asked!FromTunnels(Asked!EnabledTunnels(config))) =>
         \A h \in Asked!Hook, p \in Asked!Transport, d \in Asked!Address :
           Asked!Translate(Asked!TableFor(Asked!EnabledTunnels(config)), h, p, d) = NoTarget
BY Asked!ServesDocument, LoopbackAssumption, BlankNameAssumption, IpAssumption, AddressAssumption,
   LoadAssumption, NoResultAssumption, Zenon
   DEF Address, Asked!Address, DefaultConfig, Asked!DefaultConfig

(* While the process waits, the packets arrive: the table in the kernel is *)
(* that of the configuration, and it serves whatever is accepted.          *)
THEOREM Arrives == FgSafetySpec => []PacketsArrive
<1>1. FgInv => PacketsArrive
  <2> SUFFICES ASSUME FgInv, config.mode = "nft", loop \in {"wait", "select"},
                      NEW h \in Asked!Hook, NEW p \in Transport, NEW d \in Address,
                      NEW to, to = IF kernel = NoTable THEN NoTarget ELSE Asked!Translate(kernel, h, p, d)
               PROVE  {t.target : t \in Asked!Receivers(p, d)} = {to} \ {NoTarget}
    BY DEF PacketsArrive
  <2> DEFINE table == Asked!TableFor(Asked!EnabledTunnels(config))
  <2>1. config \in Asked!Document /\ Asked!Accepted
    BY LoadedIsAccepted DEF FgInv, FgTypeOK
  <2>2. kernel = IF Asked!IsEmpty(Asked!FromTunnels(Asked!EnabledTunnels(config))) THEN NoTable ELSE table
    BY SameReading, SameTable DEF FgInv, Installing
  <2>3. p \in Asked!Transport /\ d \in Asked!Address
    BY DEF Transport, Asked!Transport, Address, Asked!Address
  <2>4. to = Asked!Translate(table, h, p, d)
    BY <2>1, <2>2, <2>3, AskedServes, NoResultAssumption
  <2> QED
    BY <2>1, <2>3, <2>4, AskedServes DEF Asked!RulesServeTunnels
<1> QED
  BY <1>1, ForegroundInvariance, PTL
=============================================================================
