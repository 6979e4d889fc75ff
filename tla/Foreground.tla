----------------------------- MODULE Foreground -----------------------------
(***************************************************************************)
(* run_foreground of src/src/runtime.rs: what one configuration asks for   *)
(* is started, or nothing is; afterwards, in socket mode, a health tick    *)
(* reconciles every second, until the process is told to terminate.        *)
(*                                                                         *)
(* The loop drives the managers of TunnelManager and NftManager step by    *)
(* step, so that the workers and the machine interleave with it.  A signal *)
(* ends the process before the first wait has installed a handler; later   *)
(* it ends the wait, or is lost if it comes outside of one.                *)
(***************************************************************************)
EXTENDS TunnelManager, NftClient

VARIABLES
  config,   \* the configuration, as loaded at the start
  loop,     \* where run_foreground is
  handler,  \* a handler for the termination signals is installed
  outcome   \* what has ended the loop

fgVars == <<vars, nftVars, config, loop, handler, outcome>>

(* desired_tunnels as the map of TunnelManager. *)
SocketTunnels(c) ==
  LET ts == EnabledTunnels(c) IN
  [n \in Name |->
     IF \E i \in DOMAIN ts : ts[i].name = n
     THEN LET t == ts[CHOOSE i \in DOMAIN ts : ts[i].name = n] IN
          [listen |-> t.listen, target |-> t.target, protocol |-> t.protocol]
     ELSE NoTunnel]

ASSUME SocketTunnelsAssumption ==
  \A c \in Loadable : c.mode = "socket" => SocketTunnels(c) \in Desired

(* What the configuration asks of nft, and what is proved about that; it   *)
(* is no longer written to.                                                *)
Asked == INSTANCE ConfigFile_proof WITH Written <- {}, MaxTunnels <- 0

ASSUME LoadableAssumption == Loadable \subseteq Asked!Document
ASSUME NoResultAssumption ==
  NoRuleset \notin Asked!Ruleset /\ NoTable \notin Asked!Table /\ NoTarget \notin Address

(* A file that cannot be loaded ends the command before it does anything. *)
FgInit ==
  /\ Init
  /\ Nft!NftInit
  /\ config \in Loadable
  /\ loop = "start"
  /\ handler = FALSE
  /\ outcome = "none"

Ended == loop \in {"exited", "killed"}

-----------------------------------------------------------------------------
StartSockets ==
  /\ loop = "start"
  /\ config.mode = "socket"
  /\ Reconcile(SocketTunnels(config))
  /\ loop' = "await_sockets"
  /\ UNCHANGED <<nftVars, config, handler, outcome>>

StartNft ==
  /\ loop = "start"
  /\ config.mode = "nft"
  /\ Nft!NftReconcile(EnabledTunnels(config))
  /\ loop' = "await_nft"
  /\ UNCHANGED <<vars, config, handler, outcome>>

Started ==
  /\ \/ loop = "await_sockets" /\ pc = "idle" /\ loop' = IF all_started THEN "wait" ELSE "give_up"
     \/ loop = "await_nft" /\ nft_pc = "idle" /\ loop' = IF nft_result THEN "wait" ELSE "give_up"
  /\ UNCHANGED <<vars, nftVars, config, handler, outcome>>

(* Mutant of GiveUp: the error is returned with tunnels running. *)
GiveUp_AtOnce ==
  /\ loop = "give_up"
  /\ loop' = "drop"
  /\ outcome' = "not_started"
  /\ UNCHANGED <<vars, nftVars, config, handler>>

(* Not everything could be started: what could be is stopped again. *)
GiveUp ==
  /\ loop = "give_up"
  /\ StopAll
  /\ loop' = "stop_sockets"
  /\ outcome' = "not_started"
  /\ UNCHANGED <<nftVars, config, handler>>

(* select! polls wait_for_termination_signal. *)
Wait ==
  /\ loop = "wait"
  /\ loop' = "select"
  /\ handler' = TRUE
  /\ UNCHANGED <<vars, nftVars, config, outcome>>

(* The handler cannot be installed: the error is returned at once, and     *)
(* only the destructors clean up.                                          *)
WaitFails ==
  /\ loop = "wait"
  /\ ~handler
  /\ loop' = "drop"
  /\ outcome' = "no_signal"
  /\ UNCHANGED <<vars, nftVars, config, handler>>

HealthTick ==
  /\ loop = "select"
  /\ IF config.mode = "socket"
     THEN Reconcile(SocketTunnels(config)) /\ loop' = "check"
     ELSE UNCHANGED vars /\ loop' = "wait"
  /\ UNCHANGED <<nftVars, config, handler, outcome>>

(* Mutant of Checked: the loop does not await reconcile. *)
Checked_Early ==
  /\ loop = "check"
  /\ loop' = "wait"
  /\ UNCHANGED <<vars, nftVars, config, handler, outcome>>

(* Whatever reconcile returned: a tunnel that failed to restart is tried   *)
(* again at the next tick.                                                 *)
Checked ==
  /\ loop = "check"
  /\ pc = "idle"
  /\ loop' = "wait"
  /\ UNCHANGED <<vars, nftVars, config, handler, outcome>>

Terminate ==
  /\ loop = "select"
  /\ StopAll
  /\ loop' = "stop_sockets"
  /\ outcome' = "stopped"
  /\ UNCHANGED <<nftVars, config, handler>>

SocketsStopped ==
  /\ loop = "stop_sockets"
  /\ pc = "idle"
  /\ Nft!NftStopAll
  /\ loop' = "stop_nft"
  /\ UNCHANGED <<vars, config, handler, outcome>>

NftStopped ==
  /\ loop = "stop_nft"
  /\ nft_pc = "idle"
  /\ loop' = "drop"
  /\ UNCHANGED <<vars, nftVars, config, handler, outcome>>

(* run_foreground returns, and the nft manager goes out of scope. *)
DropNft ==
  /\ loop = "drop"
  /\ Nft!NftDrop
  /\ loop' = "dropping"
  /\ UNCHANGED <<vars, config, handler, outcome>>

Exits ==
  /\ loop = "dropping"
  /\ nft_pc = "gone"
  /\ loop' = "exited"
  /\ UNCHANGED <<vars, nftVars, config, handler, outcome>>

(* A signal without a handler, or SIGKILL. *)
Killed ==
  /\ ~Ended
  /\ Nft!NftKilled
  /\ loop' = "killed"
  /\ UNCHANGED <<vars, config, handler, outcome>>

Loop ==
  \/ StartSockets
  \/ StartNft
  \/ Started
  \/ GiveUp
  \/ Wait
  \/ WaitFails
  \/ HealthTick
  \/ Checked
  \/ SocketsStopped
  \/ NftStopped
  \/ DropNft
  \/ Exits

FgManager == ~Ended /\ Manager /\ UNCHANGED <<nftVars, config, loop, handler, outcome>>

FgNftCommand == Nft!NftCommand /\ UNCHANGED <<vars, config, loop, handler, outcome>>

FgEnvironment == ~Ended /\ Environment /\ UNCHANGED <<nftVars, config, loop, handler, outcome>>

(* The process has ended, and its exit code says how. *)
Done == Ended /\ UNCHANGED fgVars

FgNext == Loop \/ Terminate \/ Killed \/ FgManager \/ FgNftCommand \/ FgEnvironment \/ Done

(* Tasks are polled, ticks come, grace periods end, and a send of one      *)
(* datagram returns.  Signals, failures and foreign sockets owe nothing.   *)
FgFairness ==
  /\ WF_fgVars(Loop)
  /\ WF_fgVars(FgManager)
  /\ \A n \in Name, p \in Proto :
       WF_fgVars(WorkerAborted(n, p) /\ FgEnvironment)
  /\ \A e \in Endpoint : WF_fgVars(SinkReleases(e) /\ FgEnvironment)

FgSafetySpec == FgInit /\ [][FgNext]_fgVars

FgSpec == FgSafetySpec /\ FgFairness

-----------------------------------------------------------------------------
(* The loop and the managers it drives agree on who is at work.            *)
FgTypeOK ==
  /\ TypeOK
  /\ config \in Loadable
  /\ loop \in {"start", "await_sockets", "await_nft", "give_up", "wait", "select", "check",
               "stop_sockets", "stop_nft", "drop", "dropping", "exited", "killed"}
  /\ handler \in BOOLEAN
  /\ outcome \in {"none", "not_started", "no_signal", "stopped"}
  /\ pc # "idle" => loop \in {"await_sockets", "check", "stop_sockets", "killed"}
  /\ nft_pc # "idle" => loop \in {"await_nft", "stop_nft", "dropping", "exited", "killed"}
  /\ loop \notin {"start", "killed"} /\ config.mode = "socket" => desired = SocketTunnels(config)

(* Nothing is served over sockets, and no task is left to do so. *)
NoSockets == active = {} /\ \A n \in Name : worker[n] = NoWorkers

(* All or nothing: a start that fails, like a stop, leaves no worker task  *)
(* and no tunnel, so the ports are free when the command returns; and      *)
(* however it returns it leaves no table in the kernel.                    *)
EndsClean ==
  loop = "exited" =>
    /\ outcome # "no_signal" => NoSockets
    /\ delete_failures = 0 => kernel = NoTable

(* How far the shutdown has come: an inductive invariant, together with    *)
(* Inv of TunnelManager.                                                   *)
Stopping ==
  /\ loop = "stop_sockets" => pc \in {"drain", "idle"} /\ (pc = "idle" => NoSockets)
  /\ loop \in {"stop_nft", "drop", "dropping", "exited"} /\ outcome # "no_signal" =>
       pc = "idle" /\ NoSockets
  /\ loop \in {"stop_sockets", "stop_nft"} => outcome \in {"not_started", "stopped"}
  /\ loop = "exited" => nft_pc = "gone"
  /\ killed <=> loop = "killed"

(* How far the start has come in nft mode: a table that is installed whole *)
(* before the loop begins to wait is not touched until it has ended.       *)
Installing ==
  LET ts == EnabledTunnels(config)
      installed == kernel = IF Nft!IsEmpty(Nft!FromTunnels(ts)) THEN NoTable ELSE Nft!TableFor(ts)
  IN /\ loop = "start" => kernel = NoTable
     /\ loop \in {"await_sockets", "check"} => config.mode = "socket"
     /\ loop = "await_nft" =>
          /\ nft_desired = ts
          /\ nft_pc \in {"idle", "delete_old", "delete_only", "script"}
          /\ nft_pc # "idle" => kernel = NoTable
          /\ nft_pc = "idle" /\ nft_result => installed
     /\ loop \in {"wait", "select"} /\ config.mode = "nft" => installed

FgInv == FgTypeOK /\ Stopping /\ Installing

(* While run_foreground waits in nft mode the rules are there: a packet    *)
(* for any endpoint, on either hook, goes to the target of the one enabled *)
(* tunnel of the configuration that listens there, and is left alone if    *)
(* there is none.                                                          *)
PacketsArrive ==
  config.mode = "nft" /\ loop \in {"wait", "select"} =>
    \A h \in Asked!Hook, p \in Transport, d \in Address :
      LET to == IF kernel = NoTable THEN NoTarget ELSE Asked!Translate(kernel, h, p, d)
      IN {t.target : t \in Asked!Receivers(p, d)} = {to} \ {NoTarget}

Healthy == Wanted \subseteq active /\ \A n \in active : ~HasFinished(n)

(* No two of the tunnels loaded want the same port. *)
Compatible ==
  LET loaded == SocketTunnels(config) IN
  \A m, n \in {k \in Name : loaded[k] # NoTunnel} : \A p \in Proto :
    m # n /\ Supports(loaded[m], p) /\ Supports(loaded[n], p) => loaded[m].listen # loaded[n].listen

(* Self-healing: whatever tunnels have died and whatever ports were taken  *)
(* meanwhile, once that stops every tunnel is served again, and stays so,  *)
(* unless the process has been told to stop or never started.              *)
SelfHealing ==
  Compatible /\ <>[](foreign = {}) /\ <>[][\A n \in Name, p \in Proto : ~WorkerFails(n, p)]_fgVars
    => <>[](Healthy \/ loop \in {"give_up", "stop_sockets", "stop_nft", "drop", "dropping", "exited", "killed"})
=============================================================================
