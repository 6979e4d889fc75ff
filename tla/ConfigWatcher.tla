---------------------------- MODULE ConfigWatcher ----------------------------
(***************************************************************************)
(* run_config_watcher of src/src/runtime.rs, the main loop of the daemon:  *)
(* it polls the configuration file, drives the two managers towards what   *)
(* it reads there, and waits for a termination signal between polls.       *)
(*                                                                         *)
(* The managers are the modules TunnelTable, which TunnelManager           *)
(* implements, and NftManager.  The file is written by anyone at any time, *)
(* by rename or in place, so a load may meet any of its contents.          *)
(*                                                                         *)
(* Signals are those of tokio: a handler, once installed, stays installed  *)
(* and marks the signal as pending; the runtime then wakes the listeners   *)
(* that exist at that moment.  A listener lives for one wait.              *)
(***************************************************************************)
EXTENDS NftClient

CONSTANT NoTunnel  \* of TunnelTable

ASSUME NoTunnelAssumption == NoTunnel \notin TunnelConfig

VARIABLES
  table, broken, goal, calling, result,  \* socket_manager
  file,          \* the contents of the configuration file
  pc,            \* where the loop is
  config,        \* what the latest load returned
  last_applied,  \* last_applied_config, NoConfig for None
  handler,       \* a handler for the termination signal is installed
  listening,     \* the loop is waiting and holds a listener
  notified,      \* that listener has been woken
  pending,       \* a signal has been caught and not yet passed on
  stop_sent      \* history: somebody has asked the process to stop

tableVars == <<table, broken, goal, calling, result>>
signalVars == <<handler, listening, notified, pending, stop_sent>>
vars == <<tableVars, nftVars, file, pc, config, last_applied, signalVars>>

(* HashMap from name to tunnel, as reconcile collects it. *)
DesiredMap(ts) ==
  [n \in TunnelName |->
     IF \E i \in DOMAIN ts : ts[i].name = n
     THEN ts[CHOOSE i \in DOMAIN ts : ts[i].name = n]
     ELSE NoTunnel]

Socket == INSTANCE TunnelTable WITH
  Name <- TunnelName,
  Tunnel <- TunnelConfig,
  Desired <- {DesiredMap(EnabledTunnels(c)) : c \in Loadable}

Init ==
  /\ Socket!Init
  /\ Nft!NftInit
  /\ file \in File
  /\ pc = "load"
  /\ config = NoConfig
  /\ last_applied = NoConfig
  /\ handler = FALSE
  /\ listening = FALSE
  /\ notified = FALSE
  /\ pending = FALSE
  /\ stop_sent = FALSE

ModeOf(c) == IF c = NoConfig THEN "none" ELSE c.mode

(* The table that nft mode serves these tunnels with, if they need any. *)
RulesServing(ts) == IF Nft!IsEmpty(Nft!FromTunnels(ts)) THEN NoTable ELSE Nft!TableFor(ts)

-----------------------------------------------------------------------------
(* One poll.                                                               *)

(* The file is read; if that fails the managers are not called.            *)
Load ==
  /\ pc = "load"
  /\ config' = LoadForRuntime(file)
  /\ pc' = IF LoadForRuntime(file) = NoConfig THEN "wait" ELSE "reconcile"
  /\ UNCHANGED <<tableVars, nftVars, file, last_applied, signalVars>>

ReconcileSockets ==
  /\ pc = "reconcile"
  /\ config.mode = "socket"
  /\ Socket!Reconcile(DesiredMap(EnabledTunnels(config)))
  /\ pc' = "await_sockets"
  /\ UNCHANGED <<nftVars, file, config, last_applied, signalVars>>

ReconcileNft ==
  /\ pc = "reconcile"
  /\ config.mode = "nft"
  /\ LET ts == EnabledTunnels(config) IN Nft!NftUnchanged(ts) \/ Nft!NftReconcile(ts)
  /\ pc' = "await_nft"
  /\ UNCHANGED <<tableVars, file, config, last_applied, signalVars>>

(* Mutant of AfterReconcile: only a change of mode is put on record. *)
AfterReconcile_ModeOnly(applied, other, leave) ==
  IF applied /\ ModeOf(last_applied) = other
  THEN pc' = leave /\ UNCHANGED last_applied
  ELSE /\ pc' = "wait"
       /\ last_applied' = IF applied /\ last_applied = NoConfig THEN config ELSE last_applied

(* What comes after a reconcile that returned applied: the other mode is   *)
(* left if it was the one applied before, and the loop waits.              *)
AfterReconcile(applied, other, leave) ==
  IF applied /\ ModeOf(last_applied) = other
  THEN pc' = leave /\ UNCHANGED last_applied
  ELSE /\ pc' = "wait"
       /\ last_applied' = IF applied THEN config ELSE last_applied

(* Mutant of SocketsReturn: the other mode is left whatever the result. *)
SocketsReturn_BreaksFirst ==
  /\ pc = "await_sockets"
  /\ Socket!Return
  /\ AfterReconcile(TRUE, "nft", "leave_nft")
  /\ UNCHANGED <<nftVars, file, config, signalVars>>

(* Mutant of SocketsReturn: the rules of the other mode are left behind. *)
SocketsReturn_KeepsRules ==
  /\ pc = "await_sockets"
  /\ Socket!Return
  /\ AfterReconcile(result', "none", "leave_nft")
  /\ UNCHANGED <<nftVars, file, config, signalVars>>

SocketsReturn ==
  /\ pc = "await_sockets"
  /\ Socket!Return
  /\ AfterReconcile(result', "nft", "leave_nft")
  /\ UNCHANGED <<nftVars, file, config, signalVars>>

(* Mutant of NftReturns: the loop stays with a reconcile that fails. *)
NftReturns_AwaitsSuccess ==
  /\ pc = "await_nft"
  /\ nft_pc = "idle"
  /\ nft_result
  /\ AfterReconcile(nft_result, "socket", "leave_sockets")
  /\ UNCHANGED <<tableVars, nftVars, file, config, signalVars>>

NftReturns ==
  /\ pc = "await_nft"
  /\ nft_pc = "idle"
  /\ AfterReconcile(nft_result, "socket", "leave_sockets")
  /\ UNCHANGED <<tableVars, nftVars, file, config, signalVars>>

(* nft_manager.stop_all() and socket_manager.stop_all(), each from its     *)
(* call to its return; "next" is where the loop goes then.                 *)
StopNft(from, awaiting) ==
  /\ pc = from
  /\ Nft!NftStopAll
  /\ pc' = awaiting
  /\ UNCHANGED <<tableVars, file, config, last_applied, signalVars>>

StopSockets(from, awaiting) ==
  /\ pc = from
  /\ Socket!StopAll
  /\ pc' = awaiting
  /\ UNCHANGED <<nftVars, file, config, last_applied, signalVars>>

LeaveNft == StopNft("leave_nft", "leaving_nft")

LeaveSockets == StopSockets("leave_sockets", "leaving_sockets")

LeftNft ==
  /\ pc = "leaving_nft"
  /\ nft_pc = "idle"
  /\ last_applied' = config
  /\ pc' = "wait"
  /\ UNCHANGED <<tableVars, nftVars, file, config, signalVars>>

LeftSockets ==
  /\ pc = "leaving_sockets"
  /\ Socket!StopAllReturn
  /\ last_applied' = config
  /\ pc' = "wait"
  /\ UNCHANGED <<nftVars, file, config, signalVars>>

-----------------------------------------------------------------------------
(* Waiting.                                                                *)

(* select! polls both branches once; the first poll of                     *)
(* wait_for_termination_signal installs the handler and the listener.      *)
Wait ==
  /\ pc = "wait"
  /\ handler' = TRUE
  /\ listening' = TRUE
  /\ pc' = "select"
  /\ UNCHANGED <<tableVars, nftVars, file, config, last_applied, notified, pending, stop_sent>>

(* Mutant of EndWait: a notification outlives the wait it was meant for. *)
EndWait_StaysNotified(next) ==
  /\ pc = "select"
  /\ listening' = FALSE
  /\ pc' = next
  /\ UNCHANGED <<tableVars, nftVars, file, config, last_applied, handler, notified, pending, stop_sent>>

(* Whichever branch is taken, the future of the other one is dropped.      *)
EndWait(next) ==
  /\ pc = "select"
  /\ listening' = FALSE
  /\ notified' = FALSE
  /\ pc' = next
  /\ UNCHANGED <<tableVars, nftVars, file, config, last_applied, handler, pending, stop_sent>>

SleepEnds == EndWait("load")

Terminate == notified /\ EndWait("stop_sockets")

(* The handler could not be installed: the error is returned at once. *)
WaitFails ==
  /\ pc = "wait"
  /\ ~handler
  /\ pc' = "drop"
  /\ UNCHANGED <<tableVars, nftVars, file, config, last_applied, signalVars>>

-----------------------------------------------------------------------------
(* The end of the process.                                                 *)

FinalStopSockets == StopSockets("stop_sockets", "stopping_sockets")

FinalStoppedSockets ==
  /\ pc = "stopping_sockets"
  /\ Socket!StopAllReturn
  /\ pc' = "stop_nft"
  /\ UNCHANGED <<nftVars, file, config, last_applied, signalVars>>

FinalStopNft == StopNft("stop_nft", "stopping_nft")

FinalStoppedNft ==
  /\ pc = "stopping_nft"
  /\ nft_pc = "idle"
  /\ pc' = "drop"
  /\ UNCHANGED <<tableVars, nftVars, file, config, last_applied, signalVars>>

DropManagers ==
  /\ pc = "drop"
  /\ Nft!NftDrop
  /\ pc' = "dropping"
  /\ UNCHANGED <<tableVars, file, config, last_applied, signalVars>>

Exit ==
  /\ pc = "dropping"
  /\ nft_pc = "gone"
  /\ pc' = "exited"
  /\ UNCHANGED <<tableVars, nftVars, file, config, last_applied, signalVars>>

-----------------------------------------------------------------------------
(* The managers at work, and the world.                                    *)

SocketStep ==
  /\ pc = "await_sockets"
  /\ \E n \in TunnelName : Socket!Drop(n) \/ Socket!Add(n)
  /\ UNCHANGED <<nftVars, file, pc, config, last_applied, signalVars>>

TunnelBreaks ==
  /\ pc # "exited"
  /\ \E n \in TunnelName : Socket!Break(n)
  /\ UNCHANGED <<nftVars, file, pc, config, last_applied, signalVars>>

NftStep ==
  /\ Nft!NftCommand
  /\ UNCHANGED <<tableVars, file, pc, config, last_applied, signalVars>>

WriteFile ==
  /\ file' \in File \ {file}
  /\ UNCHANGED <<tableVars, nftVars, pc, config, last_applied, signalVars>>

(* `vorto stop` sends one SIGTERM: before a handler is installed that is   *)
(* the end of the process, without any cleaning up.                        *)
SendStop ==
  /\ ~stop_sent
  /\ pc # "exited"
  /\ nft_pc # "gone"
  /\ stop_sent' = TRUE
  /\ \/ /\ handler
        /\ pending' = TRUE
        /\ UNCHANGED <<nftVars, pc>>
     \/ /\ ~handler
        /\ Nft!NftKilled
        /\ pc' = "exited"
        /\ UNCHANGED pending
  /\ UNCHANGED <<tableVars, file, config, last_applied, handler, listening, notified>>

(* The runtime passes the signal on to the listener, if there is one. *)
PassOn ==
  /\ pending
  /\ pending' = FALSE
  /\ notified' = listening
  /\ UNCHANGED <<tableVars, nftVars, file, pc, config, last_applied, handler, listening, stop_sent>>

Loop ==
  \/ Load
  \/ ReconcileSockets
  \/ ReconcileNft
  \/ SocketsReturn
  \/ NftReturns
  \/ LeaveNft
  \/ LeaveSockets
  \/ LeftNft
  \/ LeftSockets
  \/ Wait
  \/ SleepEnds
  \/ WaitFails
  \/ FinalStopSockets
  \/ FinalStoppedSockets
  \/ FinalStopNft
  \/ FinalStoppedNft
  \/ DropManagers
  \/ Exit

Next ==
  \/ Loop
  \/ Terminate
  \/ SocketStep
  \/ NftStep
  \/ PassOn
  \/ TunnelBreaks
  \/ WriteFile
  \/ SendStop

SafetySpec == Init /\ [][Next]_vars

(* Tasks are polled, commands end, a sleep ends, and a manager that has    *)
(* been called returns (CallsReturn of TunnelManager).  select! takes a    *)
(* random branch when both are ready, so that the signal's branch is       *)
(* eventually taken if it is ready again and again.                        *)
Fairness ==
  /\ WF_vars(Loop)
  /\ SF_vars(Terminate)
  /\ WF_vars(SocketStep)
  /\ WF_vars(NftStep)
  /\ WF_vars(PassOn)

Spec == SafetySpec /\ Fairness

-----------------------------------------------------------------------------
(* The state of the loop is well formed, and nobody listens outside of the *)
(* wait.                                                                   *)
TypeOK ==
  /\ file \in File
  /\ pc \in {"load", "reconcile", "await_sockets", "await_nft", "leave_nft", "leaving_nft",
            "leave_sockets", "leaving_sockets", "wait", "select", "stop_sockets",
            "stopping_sockets", "stop_nft", "stopping_nft", "drop", "dropping", "exited"}
  /\ config \in Loadable \union {NoConfig}
  /\ last_applied \in Loadable \union {NoConfig}
  /\ handler \in BOOLEAN
  /\ listening = (pc = "select")
  /\ listening => handler
  /\ notified => listening
  /\ pending => handler

Waiting == pc \in {"wait", "select"}

(* A socket configuration is recorded as applied only when every one of    *)
(* its enabled tunnels, and no other, is being served.                     *)
Served ==
  last_applied' # last_applied /\ config.mode = "socket" => table' = DesiredMap(EnabledTunnels(config))

AppliedIsServed == [][Served]_vars

(* While a socket configuration is the one applied no NAT rule is left     *)
(* over from nft mode, however many reloads have failed in between.        *)
NoLeftoverRules ==
  Waiting /\ ModeOf(last_applied) = "socket" /\ delete_failures = 0 => kernel = NoTable

(* While a configuration for nft mode is the one applied, the rules in the *)
(* kernel, if there are any, are that configuration's: the loop, the nft   *)
(* manager and the kernel agree on it, however many reloads have failed or *)
(* have gone half of the way to socket mode since.                         *)
InstalledIsApplied ==
  Waiting /\ ModeOf(last_applied) = "nft" /\ delete_failures = 0 =>
    kernel \in {NoTable, Nft!TableFor(EnabledTunnels(last_applied))}

(* Make before break: what served the old mode goes only when the new mode *)
(* serves all of the new configuration.                                    *)
MakeBeforeBreak ==
  /\ pc \in {"leave_nft", "leaving_nft"} => table = DesiredMap(EnabledTunnels(config))
  /\ pc \in {"leave_sockets", "leaving_sockets"} /\ delete_failures = 0 =>
       kernel = RulesServing(EnabledTunnels(config))

(* What each await of the loop is for, and that an nft command runs only   *)
(* while the loop awaits it.                                               *)
Progress ==
  /\ pc = "reconcile" => config # NoConfig
  /\ pc \in {"await_sockets", "leave_nft", "leaving_nft"} => ModeOf(config) = "socket"
  /\ pc \in {"await_nft", "leave_sockets", "leaving_sockets"} => ModeOf(config) = "nft"
  /\ pc = "await_sockets" => goal = DesiredMap(EnabledTunnels(config))
  /\ pc = "await_nft" => nft_desired = EnabledTunnels(config)
  /\ nft_pc \in {"delete_old", "delete_only", "script"} => pc = "await_nft" /\ nft_result
  /\ nft_pc = "stop_delete" => pc \in {"leaving_nft", "stopping_nft"}
  /\ nft_pc = "drop_delete" => pc = "dropping"
  /\ nft_pc = "gone" => pc \in {"dropping", "exited"}

(* A reconcile for nft mode has returned true. *)
Succeeded == pc = "await_nft" /\ nft_pc = "idle" /\ nft_result

(* Unless nft mode is the one applied, there is a table on record only     *)
(* when a reconcile for nft mode has succeeded, and then it serves what    *)
(* the file asked for; and nft mode is left without one.  While nft mode   *)
(* is the one applied, the table on record is that of the configuration    *)
(* applied, until a reconcile for another one has succeeded.               *)
Rules ==
  /\ ModeOf(last_applied) # "nft" /\ table_active =>
       Succeeded \/ pc \in {"leave_sockets", "leaving_sockets", "exited"}
  /\ ModeOf(last_applied) # "nft" /\ Succeeded /\ delete_failures = 0 =>
       kernel = RulesServing(EnabledTunnels(config))
  /\ pc = "leaving_nft" /\ nft_pc = "idle" => ~table_active
  /\ Succeeded \/ pc \in {"leave_sockets", "leaving_sockets"} => active_specs = EnabledTunnels(config)
  /\ ModeOf(last_applied) = "nft" /\ table_active =>
       Succeeded \/ pc = "exited" \/ active_specs = EnabledTunnels(last_applied)

(* The inductive invariant. *)
WatcherInv == TypeOK /\ Progress /\ Rules /\ MakeBeforeBreak

(* No poll hangs: the loop always comes back to where it can be stopped.   *)
PollsReturn == (pc = "load") ~> (pc \in {"select", "exited"})

(* README.md: the daemon "Removes deleted tunnels": once a configuration   *)
(* for nft mode has been applied no socket tunnel is served that it does   *)
(* not name.                                                               *)
NoLeftoverTunnels ==
  Waiting /\ config # NoConfig /\ config = last_applied /\ config.mode = "nft" =>
    \A n \in TunnelName :
      table[n] # NoTunnel => DesiredMap(EnabledTunnels(config))[n] # NoTunnel

(* README.md: "./vorto stop     Stop the background process".              *)
StopIsHonoured == stop_sent ~> (pc = "exited")
=============================================================================
