------------------------- MODULE ConfigWatcher_proof -------------------------
(***************************************************************************)
(* What the daemon's loop records, leaves and keeps, for all configuration *)
(* files and any number of polls and failures.  What the nft manager keeps *)
(* true is taken from the proofs about it.                                 *)
(***************************************************************************)
EXTENDS ConfigWatcher, TLAPS

-----------------------------------------------------------------------------
(* The loop by itself.                                                     *)

(* What an nft command does to the call that runs it. *)
LEMMA CommandRuns ==
  ASSUME Nft!NftCommand
  PROVE  /\ nft_desired' = nft_desired
         /\ \/ nft_pc = "delete_old" /\ nft_pc' = "script" /\ nft_result' = nft_result
            \/ nft_pc \in {"delete_only", "script"} /\ nft_pc' = "idle"
            \/ nft_pc = "stop_delete" /\ nft_pc' = "idle"
            \/ nft_pc = "drop_delete" /\ nft_pc' = "gone"
BY DEF Nft!NftCommand, Nft!NftDeleteOld, Nft!NftScriptSucceeds, Nft!NftScriptFails, Nft!NftDeleteOnly,
   Nft!NftStopDelete, Nft!NftDropDelete, Nft!Applied, Nft!ApplyFails

(* The loop is well formed, and knows what it awaits. *)
LEMMA LoopInvariance == SafetySpec => [](TypeOK /\ Progress)
<1>1. Init => TypeOK /\ Progress
  BY DEF Init, Nft!NftInit, TypeOK, Progress
<1>2. TypeOK /\ Progress /\ [Next]_vars => TypeOK' /\ Progress'
  <2> SUFFICES ASSUME TypeOK, Progress, [Next]_vars PROVE TypeOK' /\ Progress'
    OBVIOUS
  <2> USE DEF TypeOK, Progress, ModeOf
  <2>1. CASE Load
    BY <2>1 DEF Load, Loadable, nftVars, tableVars, signalVars
  <2>2. CASE ReconcileSockets
    BY <2>2 DEF ReconcileSockets, Socket!Reconcile, nftVars, signalVars
  <2>3. CASE ReconcileNft
    BY <2>3 DEF ReconcileNft, Nft!NftUnchanged, Nft!NftReconcile, tableVars, signalVars
  <2>4. CASE SocketsReturn
    BY <2>4 DEF SocketsReturn, AfterReconcile, Socket!Return, nftVars, signalVars
  <2>5. CASE NftReturns
    BY <2>5 DEF NftReturns, AfterReconcile, tableVars, nftVars, signalVars
  <2>6. CASE LeaveNft \/ FinalStopNft
    BY <2>6 DEF LeaveNft, FinalStopNft, StopNft, Nft!NftStopAll, tableVars, signalVars
  <2>7. CASE LeaveSockets \/ FinalStopSockets
    BY <2>7 DEF LeaveSockets, FinalStopSockets, StopSockets, Socket!StopAll, nftVars, signalVars
  <2>8. CASE LeftNft \/ FinalStoppedNft
    BY <2>8 DEF LeftNft, FinalStoppedNft, tableVars, nftVars, signalVars
  <2>9. CASE LeftSockets \/ FinalStoppedSockets
    BY <2>9 DEF LeftSockets, FinalStoppedSockets, Socket!StopAllReturn, nftVars, signalVars
  <2>10. CASE Wait
    BY <2>10 DEF Wait, tableVars, nftVars
  <2>11. CASE SleepEnds \/ Terminate
    BY <2>11 DEF SleepEnds, Terminate, EndWait, tableVars, nftVars
  <2>12. CASE WaitFails
    BY <2>12 DEF WaitFails, tableVars, nftVars, signalVars
  <2>13. CASE DropManagers
    BY <2>13 DEF DropManagers, Nft!NftDrop, tableVars, signalVars
  <2>14. CASE Exit
    BY <2>14 DEF Exit, tableVars, nftVars, signalVars
  <2>15. CASE SocketStep
    BY <2>15 DEF SocketStep, Socket!Drop, Socket!Add, nftVars, signalVars
  <2>16. CASE TunnelBreaks
    BY <2>16 DEF TunnelBreaks, Socket!Break, nftVars, signalVars
  <2>17. CASE NftStep
    BY <2>17, CommandRuns DEF NftStep, tableVars, signalVars
  <2>18. CASE PassOn
    BY <2>18 DEF PassOn, tableVars, nftVars
  <2>19. CASE WriteFile
    BY <2>19 DEF WriteFile, tableVars, nftVars, signalVars
  <2>20. CASE SendStop
    <3>1. CASE handler
      BY <2>20, <3>1 DEF SendStop, tableVars, nftVars
    <3>2. CASE ~handler
      <4>1. ~listening /\ ~notified /\ ~pending
        BY <3>2
      <4>2. pc' = "exited" /\ UNCHANGED <<file, config, last_applied, handler, listening, notified, pending>>
        BY <2>20, <3>2 DEF SendStop
      <4>3. nft_pc' = "gone"
        BY <2>20, <3>2 DEF SendStop, Nft!NftKilled
      <4>4. listening' = (pc' = "select")
        BY <4>1, <4>2
      <4> QED
        BY <4>1, <4>2, <4>3, <4>4
    <3> QED
      BY <3>1, <3>2
  <2>21. CASE UNCHANGED vars
    BY <2>21 DEF vars, tableVars, nftVars, signalVars
  <2> QED
    BY <2>1, <2>2, <2>3, <2>4, <2>5, <2>6, <2>7, <2>8, <2>9, <2>10, <2>11, <2>12, <2>13, <2>14, <2>15,
       <2>16, <2>17, <2>18, <2>19, <2>20, <2>21 DEF Next, Loop
<1> QED
  BY <1>1, <1>2, PTL DEF SafetySpec

(* To the nft manager the loop is a caller like any other. *)
LEMMA NftManagerSpec == SafetySpec => Nft!NftSpec
<1>1. Init => Nft!NftInit
  BY DEF Init
<1>2. TypeOK /\ Progress /\ [Next]_vars => [Nft!NftNext]_Nft!nftVars
  <2> SUFFICES ASSUME TypeOK, Progress, [Next]_vars
               PROVE  Nft!NftNext \/ UNCHANGED nftVars
    BY DEF nftVars, Nft!nftVars
  <2>1. CASE ReconcileNft
    <3>1. EnabledTunnels(config) \in {EnabledTunnels(c) : c \in Loadable}
      BY <2>1 DEF ReconcileNft, TypeOK, Progress
    <3> QED
      BY <2>1, <3>1 DEF ReconcileNft, Nft!NftNext, Nft!NftCall
  <2>2. CASE LeaveNft \/ FinalStopNft
    BY <2>2 DEF LeaveNft, FinalStopNft, StopNft, Nft!NftNext, Nft!NftCall
  <2>3. CASE DropManagers
    BY <2>3 DEF DropManagers, Nft!NftNext, Nft!NftCall
  <2>4. CASE NftStep
    BY <2>4 DEF NftStep, Nft!NftNext
  <2>5. CASE SendStop
    BY <2>5 DEF SendStop, Nft!NftNext
  <2>6. CASE UNCHANGED nftVars
    BY <2>6
  <2>7. CASE UNCHANGED vars
    BY <2>7 DEF vars
  <2>8. ASSUME Load \/ ReconcileSockets \/ SocketsReturn \/ NftReturns \/ LeaveSockets \/ LeftNft
               \/ LeftSockets \/ Wait \/ SleepEnds \/ WaitFails \/ FinalStopSockets
               \/ FinalStoppedSockets \/ FinalStoppedNft \/ Exit
        PROVE  UNCHANGED nftVars
    BY <2>8 DEF Load, ReconcileSockets, SocketsReturn, NftReturns, LeaveSockets, StopSockets, LeftNft,
       LeftSockets, Wait, SleepEnds, EndWait, WaitFails, FinalStopSockets, FinalStoppedSockets,
       FinalStoppedNft, Exit
  <2>9. ASSUME Terminate \/ SocketStep \/ PassOn \/ TunnelBreaks \/ WriteFile
        PROVE  UNCHANGED nftVars
    BY <2>9 DEF Terminate, EndWait, SocketStep, PassOn, TunnelBreaks, WriteFile
  <2> QED
    BY <2>1, <2>2, <2>3, <2>4, <2>5, <2>6, <2>7, <2>8, <2>9 DEF Next, Loop
<1> QED
  BY <1>1, <1>2, LoopInvariance, PTL DEF SafetySpec, Nft!NftSpec

-----------------------------------------------------------------------------
(* The loop, its record of what is applied, and the rules in the kernel.   *)

(* While nft mode is not the one applied, a command that ends a reconcile  *)
(* for it with success has installed what was asked for.                   *)
LEMMA NftStepKeeps ==
  ASSUME Nft!NftTypeOK, Nft!KernelIsRecorded, Progress, Rules, MakeBeforeBreak, NftStep
  PROVE  Rules' /\ MakeBeforeBreak'
<1> USE DEF Rules, Succeeded, MakeBeforeBreak, Progress
<1>1. UNCHANGED <<table, pc, config, last_applied, nft_desired>> /\ nft_pc \notin {"idle", "gone"}
  BY CommandRuns DEF NftStep, tableVars
<1>2. pc \notin {"leave_nft", "leave_sockets", "leaving_sockets"} /\ (MakeBeforeBreak' <=> MakeBeforeBreak)
  BY <1>1, CommandRuns DEF NftStep
<1>3. CASE Nft!NftDeleteOld
  BY <1>1, <1>2, <1>3 DEF Nft!NftDeleteOld
<1>4. CASE Nft!NftScriptFails
  BY <1>1, <1>2, <1>4 DEF Nft!NftScriptFails, Nft!ApplyFails
<1>5. CASE Nft!NftScriptSucceeds
  <2>1. pc = "await_nft"
    BY <1>5 DEF Nft!NftScriptSucceeds
  <2>2. delete_failures' = 0 => kernel' = RulesServing(nft_desired)
    BY <1>5 DEF Nft!NftScriptSucceeds, Nft!KernelIsRecorded, RulesServing, Nft!TableFor
  <2>3. nft_pc' = "idle" /\ nft_result' /\ active_specs' = nft_desired
    BY <1>5 DEF Nft!NftScriptSucceeds, Nft!Applied
  <2> QED
    BY <1>1, <1>2, <2>1, <2>2, <2>3
<1>6. CASE Nft!NftDeleteOnly
  <2>1. pc = "await_nft" /\ nft_pc' = "idle"
    BY <1>6, CommandRuns DEF Nft!NftDeleteOnly, NftStep
  <2>2. PICK ok \in BOOLEAN : Nft!DeleteTable(ok) /\ IF ok THEN Nft!Applied ELSE Nft!ApplyFails
    BY <1>6 DEF Nft!NftDeleteOnly
  <2>3. CASE ok
    <3>1. kernel' = RulesServing(nft_desired) /\ nft_result' /\ active_specs' = nft_desired
      BY <1>6, <2>2, <2>3 DEF Nft!NftDeleteOnly, Nft!DeleteTable, Nft!Applied, Nft!KernelIsRecorded, RulesServing
    <3> QED
      BY <1>1, <1>2, <2>1, <3>1
  <2>4. CASE ~ok
    BY <1>1, <1>2, <1>6, <2>1, <2>2, <2>4 DEF Nft!NftDeleteOnly, Nft!ApplyFails
  <2> QED
    BY <2>3, <2>4
<1>7. CASE Nft!NftStopDelete
  BY <1>1, <1>2, <1>7 DEF Nft!NftStopDelete
<1>8. CASE Nft!NftDropDelete
  BY <1>1, <1>2, <1>8 DEF Nft!NftDropDelete
<1> QED
  BY <1>3, <1>4, <1>5, <1>6, <1>7, <1>8 DEF NftStep, Nft!NftCommand

(* A call to a manager, and the return of one. *)
LEMMA CallKeeps ==
  ASSUME Nft!NftTypeOK, TypeOK, Progress, Rules, MakeBeforeBreak, Loop
  PROVE  Rules' /\ MakeBeforeBreak'
<1> USE DEF Rules, Succeeded, MakeBeforeBreak
<1>1. CASE Load
  BY <1>1 DEF Load, nftVars, tableVars
<1>2. CASE ReconcileSockets
  BY <1>2 DEF ReconcileSockets, nftVars
<1>3. CASE ReconcileNft
  <2> DEFINE ts == EnabledTunnels(config)
  <2>1. pc = "reconcile" /\ pc' = "await_nft" /\ UNCHANGED <<last_applied, config, table_active, kernel, delete_failures>>
    BY <1>3 DEF ReconcileNft, Nft!NftUnchanged, Nft!NftReconcile
  <2>2. CASE Nft!NftUnchanged(ts)
    BY <2>1, <2>2 DEF Nft!NftUnchanged
  <2>3. CASE Nft!NftReconcile(ts)
    BY <2>1, <2>3 DEF Nft!NftReconcile
  <2> QED
    BY <1>3, <2>2, <2>3 DEF ReconcileNft
<1>4. CASE SocketsReturn
  <2>1. pc = "await_sockets" /\ UNCHANGED <<config, table, nftVars>> /\ (result' <=> table = DesiredMap(EnabledTunnels(config)))
    BY <1>4 DEF SocketsReturn, Socket!Return, Progress
  <2>2. ModeOf(config) = "socket"
    BY <2>1 DEF Progress
  <2>3. \/ result' /\ ModeOf(last_applied) = "nft" /\ pc' = "leave_nft" /\ last_applied' = last_applied
        \/ pc' = "wait" /\ last_applied' \in {config, last_applied} /\ (ModeOf(last_applied) = "nft" => last_applied' = last_applied)
    BY <1>4, <2>1 DEF SocketsReturn, AfterReconcile
  <2> QED
    BY <2>1, <2>2, <2>3 DEF nftVars
<1>5. CASE NftReturns
  <2>1. pc = "await_nft" /\ nft_pc = "idle" /\ ModeOf(config) = "nft" /\ UNCHANGED <<config, table, nftVars>>
    BY <1>5 DEF NftReturns, tableVars, Progress
  <2>2. \/ nft_result /\ ModeOf(last_applied) = "socket" /\ pc' = "leave_sockets" /\ last_applied' = last_applied
        \/ nft_result /\ pc' = "wait" /\ last_applied' = config
        \/ ~nft_result /\ pc' = "wait" /\ last_applied' = last_applied
    BY <1>5, <2>1 DEF NftReturns, AfterReconcile
  <2> QED
    BY <2>1, <2>2 DEF nftVars
<1>6. CASE LeaveNft
  BY <1>6 DEF LeaveNft, StopNft, Nft!NftStopAll, tableVars
<1>7. CASE FinalStopNft
  BY <1>7 DEF FinalStopNft, StopNft, Nft!NftStopAll, tableVars
<1>8. CASE LeaveSockets
  BY <1>8 DEF LeaveSockets, StopSockets, nftVars
<1>9. CASE FinalStopSockets
  BY <1>9 DEF FinalStopSockets, StopSockets, nftVars
<1>10. CASE LeftNft
  BY <1>10 DEF LeftNft, nftVars, tableVars
<1>11. CASE LeftSockets
  BY <1>11 DEF LeftSockets, Progress, nftVars
<1>12. CASE Wait \/ WaitFails
  BY <1>12 DEF Wait, WaitFails, nftVars, tableVars
<1>13. CASE SleepEnds
  BY <1>13 DEF SleepEnds, EndWait, nftVars, tableVars
<1>14. CASE FinalStoppedSockets \/ FinalStoppedNft
  BY <1>14 DEF FinalStoppedSockets, FinalStoppedNft, nftVars, tableVars
<1>15. CASE DropManagers
  BY <1>15 DEF DropManagers, Nft!NftDrop, tableVars
<1>16. CASE Exit
  BY <1>16 DEF Exit, nftVars, tableVars
<1> QED
  BY <1>1, <1>2, <1>3, <1>4, <1>5, <1>6, <1>7, <1>8, <1>9, <1>10, <1>11, <1>12, <1>13, <1>14, <1>15, <1>16
     DEF Loop

(* What the world does, and the managers while the loop awaits them. *)
LEMMA OthersKeep ==
  ASSUME Rules, MakeBeforeBreak,
         Terminate \/ SocketStep \/ PassOn \/ TunnelBreaks \/ WriteFile \/ SendStop \/ UNCHANGED vars
  PROVE  Rules' /\ MakeBeforeBreak'
<1> USE DEF Rules, Succeeded, MakeBeforeBreak
<1>1. CASE Terminate
  BY <1>1 DEF Terminate, EndWait, nftVars, tableVars
<1>2. CASE SocketStep
  BY <1>2 DEF SocketStep, nftVars
<1>3. CASE PassOn \/ WriteFile
  BY <1>3 DEF PassOn, WriteFile, nftVars, tableVars
<1>4. CASE TunnelBreaks
  BY <1>4 DEF TunnelBreaks, Socket!Break, nftVars
<1>5. CASE SendStop
  BY <1>5 DEF SendStop, Nft!NftKilled, nftVars, tableVars
<1>6. CASE UNCHANGED vars
  BY <1>6 DEF vars, nftVars, tableVars
<1> QED
  BY <1>1, <1>2, <1>3, <1>4, <1>5, <1>6

(* A caller that keeps to the operations of the nft manager can rely on    *)
(* the record it keeps of the kernel.                                      *)
LEMMA RecordServesCallers == Nft!NftSpec => [](Nft!NftTypeOK /\ Nft!KernelIsRecorded)
<1>1. Nft!NftSpec => []Nft!NftTypeOK
  BY Nft!Typing, MaxDeleteFailuresAssumption, LoopbackAssumption, BlankNameAssumption, IpAssumption,
     AddressAssumption, LoadAssumption, Zenon
     DEF Address, Nft!Address, DefaultConfig, Nft!DefaultConfig
<1>2. Nft!NftSpec => []Nft!KernelIsRecorded
  BY Nft!Recorded, MaxDeleteFailuresAssumption, LoopbackAssumption, BlankNameAssumption, IpAssumption,
     AddressAssumption, LoadAssumption, Zenon
     DEF Address, Nft!Address, DefaultConfig, Nft!DefaultConfig
<1> QED
  BY <1>1, <1>2, PTL

(* The inductive invariant: what each await of the loop is for, and what   *)
(* is on record and in the kernel there.                                   *)
THEOREM WatcherInvariance == SafetySpec => []WatcherInv
<1>1. Init => Rules /\ MakeBeforeBreak
  BY DEF Init, Nft!NftInit, Rules, Succeeded, MakeBeforeBreak, ModeOf
<1>2. /\ Nft!NftTypeOK /\ Nft!KernelIsRecorded /\ TypeOK /\ Progress
      /\ Rules /\ MakeBeforeBreak /\ [Next]_vars
      => Rules' /\ MakeBeforeBreak'
  BY NftStepKeeps, CallKeeps, OthersKeep DEF Next
<1> QED
  BY <1>1, <1>2, LoopInvariance, NftManagerSpec, RecordServesCallers, PTL DEF SafetySpec, WatcherInv

(* A switch of mode makes before it breaks. *)
THEOREM Makes == SafetySpec => []MakeBeforeBreak
<1>1. WatcherInv => MakeBeforeBreak
  BY DEF WatcherInv
<1> QED
  BY <1>1, WatcherInvariance, PTL

(* And it leaves nothing of the other mode behind. *)
THEOREM LeavesNoRules == SafetySpec => []NoLeftoverRules
<1>1. WatcherInv /\ Nft!KernelIsRecorded => NoLeftoverRules
  BY DEF WatcherInv, Rules, Succeeded, Nft!KernelIsRecorded, NoLeftoverRules, Waiting
<1> QED
  BY <1>1, WatcherInvariance, NftManagerSpec, RecordServesCallers, PTL

(* What nft mode has put into the kernel is what was last applied. *)
THEOREM InstalledApplied == SafetySpec => []InstalledIsApplied
<1>1. WatcherInv /\ Nft!KernelIsRecorded => InstalledIsApplied
  <2> SUFFICES ASSUME WatcherInv, Nft!KernelIsRecorded, Waiting, ModeOf(last_applied) = "nft",
                      delete_failures = 0, kernel # NoTable
               PROVE  kernel = Nft!TableFor(EnabledTunnels(last_applied))
    BY DEF InstalledIsApplied
  <2>1. table_active /\ kernel = Nft!TableFor(active_specs)
    BY DEF Nft!KernelIsRecorded
  <2>2. active_specs = EnabledTunnels(last_applied)
    BY <2>1 DEF WatcherInv, Rules, Succeeded, Waiting
  <2> QED
    BY <2>1, <2>2
<1> QED
  BY <1>1, WatcherInvariance, NftManagerSpec, RecordServesCallers, PTL

(* What is recorded as applied is served as a whole. *)
THEOREM Applies == SafetySpec => AppliedIsServed
<1>1. WatcherInv /\ [Next]_vars => [Served]_vars
  <2> SUFFICES ASSUME WatcherInv, Next, last_applied' # last_applied, config.mode = "socket"
               PROVE  table' = DesiredMap(EnabledTunnels(config))
    BY DEF Served
  <2> USE DEF WatcherInv, TypeOK, Progress, ModeOf
  <2>1. CASE SocketsReturn
    BY <2>1 DEF SocketsReturn, Socket!Return, AfterReconcile
  <2>2. CASE LeftNft
    BY <2>2 DEF LeftNft, MakeBeforeBreak, tableVars
  <2>3. ~NftReturns /\ ~LeftSockets
    BY DEF NftReturns, LeftSockets
  <2> QED
    BY <2>1, <2>2, <2>3 DEF Next, Loop, Load, ReconcileSockets, ReconcileNft, LeaveNft, StopNft, LeaveSockets,
       StopSockets, Wait, SleepEnds, EndWait, WaitFails, FinalStopSockets, FinalStoppedSockets, FinalStopNft,
       FinalStoppedNft, DropManagers, Exit, Terminate, SocketStep, NftStep, PassOn, TunnelBreaks, WriteFile,
       SendStop
<1> QED
  BY <1>1, WatcherInvariance, PTL DEF SafetySpec, AppliedIsServed
=============================================================================
