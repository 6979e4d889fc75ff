------------------------------ MODULE NftClient ------------------------------
(***************************************************************************)
(* The nft manager as a part of the loops that call it, run_foreground and *)
(* run_config_watcher of src/src/runtime.rs: its state, and the tunnels it *)
(* may be asked for, which are those of the files that can be loaded.      *)
(***************************************************************************)
EXTENDS AppConfig

CONSTANTS
  Loopback, NoRuleset, NoTable, NoTarget, MaxDeleteFailures,  \* of NftManager
  File  \* what the configuration file may hold

ASSUME MaxDeleteFailuresAssumption == MaxDeleteFailures \in Nat
ASSUME LoopbackAssumption == Loopback \subseteq Ipv4

VARIABLES
  active_specs, table_active, kernel, nft_pc,
  nft_desired, nft_result, delete_failures, killed

nftVars == <<active_specs, table_active, kernel, nft_pc, nft_desired,
             nft_result, delete_failures, killed>>

Loadable == {LoadForRuntime(f) : f \in File} \ {NoConfig}

(* The manager, together with what is proved about it. *)
Nft == INSTANCE NftManager_proof WITH Desired <- {EnabledTunnels(c) : c \in Loadable}
=============================================================================
