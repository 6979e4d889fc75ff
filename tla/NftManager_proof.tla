--------------------------- MODULE NftManager_proof ---------------------------
(***************************************************************************)
(* What NftManager keeps true of the kernel's table for every set of       *)
(* tunnel lists and every number of failures.                              *)
(***************************************************************************)
EXTENDS NftManager, TLAPS

(* from_tunnels makes no rule of no tunnel. *)
LEMMA NoTunnelsNoRules ==
  IsEmpty(FromTunnels(<<>>))
<1> DEFINE none == [i \in DOMAIN <<>> |-> RulesOf(<<>>[i])]
<1>1. none = <<>>
  OBVIOUS
<1>2. FlattenSeq(none) = <<>>
  BY <1>1 DEF FlattenSeq
<1>3. FromTunnels(<<>>) = [rules |-> FlattenSeq(none),
       masquerade_targets |-> {<<>>[i].target.ip : i \in DOMAIN <<>>} \ Loopback]
  BY DEF FromTunnels
<1> HIDE DEF none
<1> QED
  BY <1>2, <1>3 DEF IsEmpty

(* The record, the call and the failure count stay well formed. *)
THEOREM Typing == NftSpec => []NftTypeOK
<1> USE DEF NftTypeOK, Commands
<1>1. NftInit => NftTypeOK
  <2>1. NftInit => delete_failures \in 0..MaxDeleteFailures
    BY MaxDeleteFailuresAssumption DEF NftInit
  <2> QED
    BY <2>1 DEF NftInit
<1>2. NftTypeOK /\ [NftNext]_nftVars => NftTypeOK'
  <2> SUFFICES ASSUME NftTypeOK, [NftNext]_nftVars PROVE NftTypeOK'
    OBVIOUS
  <2>1. ASSUME NEW ok \in BOOLEAN, DeleteTable(ok)
        PROVE  delete_failures' \in 0..MaxDeleteFailures
    BY <2>1, MaxDeleteFailuresAssumption DEF DeleteTable
  <2>2. CASE NftDeleteOld
    BY <2>1, <2>2 DEF NftDeleteOld
  <2>3. CASE NftScriptSucceeds
    BY <2>3 DEF NftScriptSucceeds, Applied
  <2>4. CASE NftScriptFails
    BY <2>4 DEF NftScriptFails, ApplyFails
  <2>5. CASE NftDeleteOnly
    BY <2>1, <2>5 DEF NftDeleteOnly, Applied, ApplyFails
  <2>6. CASE NftStopDelete
    BY <2>1, <2>6 DEF NftStopDelete
  <2>7. CASE NftDropDelete
    BY <2>1, <2>7 DEF NftDropDelete
  <2>8. CASE NftCall
    BY <2>8 DEF NftCall, NftUnchanged, NftReconcile, NftStopAll, NftDrop
  <2>9. CASE NftKilled
    BY <2>9 DEF NftKilled
  <2>10. CASE UNCHANGED nftVars
    BY <2>10 DEF nftVars
  <2> QED
    BY <2>2, <2>3, <2>4, <2>5, <2>6, <2>7, <2>8, <2>9, <2>10 DEF NftNext, NftCommand
<1> QED
  BY <1>1, <1>2, PTL DEF NftSpec

(* As long as tables can be deleted, what is in the kernel is what the     *)
(* manager has on record, or nothing, between any two of its commands.     *)
THEOREM Recorded == NftSpec => []KernelIsRecorded
<1>1. NftInit => KernelIsRecorded
  BY DEF NftInit, KernelIsRecorded
<1>2. NftTypeOK /\ KernelIsRecorded /\ [NftNext]_nftVars => KernelIsRecorded'
  <2> SUFFICES ASSUME NftTypeOK, KernelIsRecorded, [NftNext]_nftVars PROVE KernelIsRecorded'
    OBVIOUS
  <2> USE DEF NftTypeOK, KernelIsRecorded
  <2>1. ASSUME NEW d \in Desired, NftUnchanged(d) PROVE KernelIsRecorded'
    BY <2>1 DEF NftUnchanged
  <2>2. ASSUME NEW d \in Desired, NftReconcile(d) PROVE KernelIsRecorded'
    BY <2>2 DEF NftReconcile
  <2>3. CASE NftDeleteOld
    BY <2>3 DEF NftDeleteOld, DeleteTable
  <2>4. CASE NftScriptSucceeds
    BY <2>4, NoTunnelsNoRules DEF NftScriptSucceeds, Applied, TableFor
  <2>5. CASE NftScriptFails
    BY <2>5 DEF NftScriptFails, ApplyFails
  <2>6. CASE NftDeleteOnly
    BY <2>6 DEF NftDeleteOnly, DeleteTable, Applied, ApplyFails
  <2>7. CASE NftStopAll
    BY <2>7 DEF NftStopAll
  <2>8. CASE NftStopDelete
    BY <2>8 DEF NftStopDelete, DeleteTable
  <2>9. CASE NftDrop
    BY <2>9 DEF NftDrop
  <2>10. CASE NftDropDelete
    BY <2>10 DEF NftDropDelete, DeleteTable
  <2>11. CASE NftKilled
    BY <2>11 DEF NftKilled
  <2>12. CASE UNCHANGED nftVars
    BY <2>12 DEF nftVars
  <2> QED
    BY <2>1, <2>2, <2>3, <2>4, <2>5, <2>6, <2>7, <2>8, <2>9, <2>10, <2>11, <2>12
       DEF NftNext, NftCommand, NftCall
<1> QED
  BY <1>1, <1>2, Typing, PTL DEF NftSpec

(* So the kernel never holds a rule that the manager does not know of:     *)
(* rules of two configurations do not mix and no table is forgotten.       *)
THEOREM UnknownRules == NftSpec => []NoUnknownRules
<1>1. KernelIsRecorded => NoUnknownRules
  BY DEF KernelIsRecorded, NoUnknownRules
<1> QED
  BY <1>1, Recorded, PTL

(* A reconcile that ran nft and returns true has installed the whole of    *)
(* what it was asked for and nothing else.                                 *)
THEOREM Success == NftSpec => SuccessIsInstalled
<1>1. NftTypeOK /\ KernelIsRecorded /\ [NftNext]_nftVars => [Installed]_nftVars
  <2> SUFFICES ASSUME KernelIsRecorded, NftNext,
                      nft_result', nft_pc \in {"script", "delete_only"}, nft_pc' = "idle",
                      delete_failures' = 0
               PROVE  kernel' = IF IsEmpty(FromTunnels(nft_desired)) THEN NoTable
                                ELSE TableFor(nft_desired)
    BY DEF Installed
  <2>1. CASE NftScriptSucceeds
    BY <2>1 DEF NftScriptSucceeds, KernelIsRecorded, TableFor
  <2>2. CASE NftDeleteOnly
    <3>1. PICK ok \in BOOLEAN : DeleteTable(ok) /\ IF ok THEN Applied ELSE ApplyFails
      BY <2>2 DEF NftDeleteOnly
    <3>2. ok
      BY <3>1 DEF ApplyFails
    <3> QED
      BY <2>2, <3>1, <3>2 DEF NftDeleteOnly, DeleteTable, KernelIsRecorded
  <2>3. ~NftScriptFails
    BY DEF NftScriptFails, ApplyFails
  <2> QED
    BY <2>1, <2>2, <2>3 DEF NftNext, NftCommand, NftCall, NftDeleteOld, NftStopDelete, NftDropDelete,
         NftUnchanged, NftReconcile, NftStopAll, NftDrop, NftKilled
<1> QED
  BY <1>1, Typing, Recorded, PTL DEF NftSpec, SuccessIsInstalled
===============================================================================
