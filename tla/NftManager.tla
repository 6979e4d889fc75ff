----------------------------- MODULE NftManager -----------------------------
(***************************************************************************)
(* NftManager of src/src/nft.rs: the record the process keeps of the table *)
(* it has installed, the table that is really in the kernel, and the nft   *)
(* commands between the two, each of which may fail.                       *)
(*                                                                         *)
(* A command is a step of its own: what is between two of them can be seen *)
(* by traffic, and the process can be killed there.  The table has a name  *)
(* that no other process uses, so nobody else changes it.                  *)
(***************************************************************************)
EXTENDS NftRuleset

CONSTANTS
  Desired,           \* the lists of enabled tunnels a caller may pass
  MaxDeleteFailures  \* bound on the failures of "nft delete table"

ASSUME MaxDeleteFailuresAssumption == MaxDeleteFailures \in Nat

VARIABLES
  active_specs,     \* NftManager.active_specs
  table_active,     \* NftManager.table_active
  kernel,           \* the table in the kernel, or NoTable
  nft_pc,           \* "idle", the command in progress, or "gone"
  nft_desired,      \* the argument of the reconcile in progress
  nft_result,       \* what the latest reconcile returned (TRUE during a call)
  delete_failures,  \* history: how often "nft delete table" has failed
  killed            \* history: the process has died without cleaning up

nftVars == <<active_specs, table_active, kernel, nft_pc, nft_desired,
             nft_result, delete_failures, killed>>

Commands == {"delete_old", "delete_only", "script", "stop_delete", "drop_delete"}

NftInit ==
  /\ active_specs = <<>>
  /\ table_active = FALSE
  /\ kernel = NoTable
  /\ nft_pc = "idle"
  /\ nft_desired = <<>>
  /\ nft_result = TRUE
  /\ delete_failures = 0
  /\ killed = FALSE

-----------------------------------------------------------------------------
(* reconcile finds that it has applied the same tunnels already. *)
NftUnchanged(d) ==
  /\ nft_pc = "idle"
  /\ table_active
  /\ active_specs = d
  /\ nft_desired' = d
  /\ nft_result' = TRUE
  /\ UNCHANGED <<active_specs, table_active, kernel, nft_pc, delete_failures, killed>>

(* reconcile renders the ruleset and runs the first nft command. *)
NftReconcile(d) ==
  /\ nft_pc = "idle"
  /\ ~(table_active /\ active_specs = d)
  /\ nft_desired' = d
  /\ IF FromTunnels(d) = NoRuleset
     THEN nft_result' = FALSE /\ UNCHANGED nft_pc
     ELSE /\ nft_result' = TRUE
          /\ nft_pc' = IF IsEmpty(FromTunnels(d)) THEN "delete_only" ELSE "delete_old"
  /\ UNCHANGED <<active_specs, table_active, kernel, delete_failures, killed>>

(* delete_table: deleting a table that is not there is a success. *)
DeleteTable(ok) ==
  /\ kernel' = IF ok THEN NoTable ELSE kernel
  /\ ok \/ delete_failures < MaxDeleteFailures
  /\ delete_failures' = IF ok THEN delete_failures ELSE delete_failures + 1

(* Mutant of NftDeleteOld: rules are added to the table as it is. *)
NftDeleteOld_Skipped ==
  /\ nft_pc = "delete_old"
  /\ nft_pc' = "script"
  /\ UNCHANGED <<active_specs, table_active, kernel, nft_desired, nft_result, delete_failures, killed>>

(* apply_ruleset ignores whether the old table could be deleted. *)
NftDeleteOld ==
  /\ nft_pc = "delete_old"
  /\ \E ok \in BOOLEAN : DeleteTable(ok)
  /\ nft_pc' = "script"
  /\ UNCHANGED <<active_specs, table_active, nft_desired, nft_result, killed>>

Applied ==
  /\ active_specs' = nft_desired
  /\ table_active' = (nft_desired # <<>>)
  /\ nft_pc' = "idle"
  /\ UNCHANGED <<nft_desired, nft_result, killed>>

ApplyFails ==
  /\ nft_result' = FALSE
  /\ nft_pc' = "idle"
  /\ UNCHANGED <<active_specs, table_active, nft_desired, killed>>

NftScriptSucceeds ==
  /\ nft_pc = "script"
  /\ kernel' = AddTo(IF kernel = NoTable THEN EmptyTable ELSE kernel, FromTunnels(nft_desired))
  /\ Applied
  /\ UNCHANGED delete_failures

(* Mutant of NftScriptFails: the failure is recorded as a success. *)
NftScriptFails_Unreported ==
  /\ nft_pc = "script"
  /\ Applied
  /\ UNCHANGED <<kernel, delete_failures>>

(* A script is one transaction: nothing of it is kept. *)
NftScriptFails ==
  /\ nft_pc = "script"
  /\ ApplyFails
  /\ UNCHANGED <<kernel, delete_failures>>

(* No tunnel is wanted: the table is deleted and none is made. *)
NftDeleteOnly ==
  /\ nft_pc = "delete_only"
  /\ \E ok \in BOOLEAN : DeleteTable(ok) /\ IF ok THEN Applied ELSE ApplyFails

(* Mutant of NftStopAll: the table is forgotten, not deleted. *)
NftStopAll_KeepsTable ==
  /\ nft_pc = "idle"
  /\ active_specs' = <<>>
  /\ table_active' = FALSE
  /\ UNCHANGED <<kernel, nft_pc, nft_desired, nft_result, delete_failures, killed>>

(* stop_all forgets the table, whether or not it could be deleted. *)
NftStopAll ==
  /\ nft_pc = "idle"
  /\ IF table_active
     THEN nft_pc' = "stop_delete" /\ UNCHANGED <<active_specs, table_active>>
     ELSE active_specs' = <<>> /\ table_active' = FALSE /\ UNCHANGED nft_pc
  /\ UNCHANGED <<kernel, nft_desired, nft_result, delete_failures, killed>>

(* Mutant of NftStopDelete: the record is cleared but for its flag. *)
NftStopDelete_KeepsFlag ==
  /\ nft_pc = "stop_delete"
  /\ \E ok \in BOOLEAN : DeleteTable(ok)
  /\ active_specs' = <<>>
  /\ nft_pc' = "idle"
  /\ UNCHANGED <<table_active, nft_desired, nft_result, killed>>

NftStopDelete ==
  /\ nft_pc = "stop_delete"
  /\ \E ok \in BOOLEAN : DeleteTable(ok)
  /\ active_specs' = <<>>
  /\ table_active' = FALSE
  /\ nft_pc' = "idle"
  /\ UNCHANGED <<nft_desired, nft_result, killed>>

(* Mutant of NftDrop: a manager that goes out of scope deletes nothing. *)
NftDrop_Forgets ==
  /\ nft_pc = "idle"
  /\ nft_pc' = "gone"
  /\ UNCHANGED <<active_specs, table_active, kernel, nft_desired, nft_result, delete_failures, killed>>

(* The manager goes out of scope, on any return of the process's main loop *)
(* and when a panic unwinds it.                                            *)
NftDrop ==
  /\ nft_pc = "idle"
  /\ nft_pc' = IF table_active THEN "drop_delete" ELSE "gone"
  /\ UNCHANGED <<active_specs, table_active, kernel, nft_desired, nft_result, delete_failures, killed>>

NftDropDelete ==
  /\ nft_pc = "drop_delete"
  /\ \E ok \in BOOLEAN : DeleteTable(ok)
  /\ nft_pc' = "gone"
  /\ UNCHANGED <<active_specs, table_active, nft_desired, nft_result, killed>>

(* The process is killed at any moment; a command it has started may still *)
(* take effect, which is the same as being killed after that command.      *)
NftKilled ==
  /\ nft_pc # "gone"
  /\ nft_pc' = "gone"
  /\ killed' = TRUE
  /\ UNCHANGED <<active_specs, table_active, kernel, nft_desired, nft_result, delete_failures>>

NftCommand ==
  \/ NftDeleteOld
  \/ NftScriptSucceeds
  \/ NftScriptFails
  \/ NftDeleteOnly
  \/ NftStopDelete
  \/ NftDropDelete

NftCall ==
  \/ \E d \in Desired : NftUnchanged(d) \/ NftReconcile(d)
  \/ NftStopAll
  \/ NftDrop

NftNext == NftCommand \/ NftCall \/ NftKilled

NftSpec == NftInit /\ [][NftNext]_nftVars

-----------------------------------------------------------------------------
(* The record and the call in progress are well formed; the table is       *)
(* recorded as installed exactly when there are tunnels in it.             *)
NftTypeOK ==
  /\ active_specs \in Desired \union {<<>>}
  /\ table_active = (active_specs # <<>>)
  /\ nft_pc \in {"idle", "gone"} \union Commands
  /\ nft_desired \in Desired \union {<<>>}
  /\ nft_result \in BOOLEAN
  /\ delete_failures \in 0..MaxDeleteFailures
  /\ killed \in BOOLEAN

(* What the record says of the kernel, and what is known of it between the *)
(* commands of one call, as long as tables can be deleted: an inductive    *)
(* invariant.                                                              *)
KernelIsRecorded ==
  /\ nft_pc \in {"delete_old", "script"} => ~IsEmpty(FromTunnels(nft_desired))
  /\ nft_pc = "delete_only" => IsEmpty(FromTunnels(nft_desired))
  /\ delete_failures = 0 =>
       /\ kernel # NoTable => table_active /\ kernel = TableFor(active_specs)
       /\ nft_pc = "script" => kernel = NoTable
       /\ nft_pc = "gone" /\ ~killed => kernel = NoTable

(* As long as tables can be deleted, the kernel never holds a rule that    *)
(* the manager does not know of: the table is that of active_specs, whole, *)
(* or there is none.  In particular rules of two configurations never mix, *)
(* and a table is never forgotten while it is installed.                   *)
NoUnknownRules ==
  delete_failures = 0 /\ ~killed /\ kernel # NoTable =>
    table_active /\ kernel = TableFor(active_specs)

(* A reconcile that had to run nft and returns true leaves in the kernel   *)
(* the whole of what it was asked for and nothing else.                    *)
Installed ==
  nft_result' /\ nft_pc \in {"script", "delete_only"} /\ nft_pc' = "idle" /\ delete_failures' = 0 =>
    kernel' = IF IsEmpty(FromTunnels(nft_desired)) THEN NoTable ELSE TableFor(nft_desired)

SuccessIsInstalled == [][Installed]_nftVars

(* README.md: the nftables table is there "while the process is running":  *)
(* when reconcile has returned true, what it was asked for is installed.   *)
TrueMeansServed ==
  nft_pc = "idle" /\ table_active /\ nft_result /\ delete_failures = 0 => kernel = TableFor(nft_desired)
=============================================================================
