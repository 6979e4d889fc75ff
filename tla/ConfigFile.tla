----------------------------- MODULE ConfigFile -----------------------------
(***************************************************************************)
(* The configuration file as its user may write it, one tunnel at a time,  *)
(* and what AppConfig::validate of src/src/config.rs and from_tunnels of   *)
(* src/src/nft.rs, which check it separately, make of it in nft mode.      *)
(***************************************************************************)
EXTENDS NftRuleset

CONSTANTS Written,     \* the tunnels that may be written to the file
          MaxTunnels   \* bound on the length of the file

ASSUME WrittenAssumption == Written \subseteq TunnelConfig
ASSUME ResultAssumption ==
  NoRuleset \notin Ruleset /\ NoTable \notin Table /\ NoTarget \notin Address

VARIABLE config  \* the document in the file

Init == config = DefaultConfig

Write(t) ==
  /\ Len(config.tunnels) < MaxTunnels
  /\ config' = [config EXCEPT !.tunnels = Append(@, t)]

SwitchMode == config' = [config EXCEPT !.mode = IF @ = "nft" THEN "socket" ELSE "nft"]

Next == SwitchMode \/ \E t \in Written : Write(t)

FileSpec == Init /\ [][Next]_config

-----------------------------------------------------------------------------
Accepted == config.mode = "nft" /\ LoadForRuntime(config) # NoConfig

(* The tunnels that should receive a packet, however the file orders them. *)
Receivers(transport, destination) ==
  {t \in Range(config.tunnels) :
     t.enabled /\ Carries(t, transport) /\ t.listen = destination}

(* What validate accepts, from_tunnels can build: the two checks, written  *)
(* separately in config.rs and nft.rs, agree.                              *)
AcceptedIsBuildable == Accepted => FromTunnels(EnabledTunnels(config)) # NoRuleset

(* On either hook a packet for an endpoint goes to the target of the only  *)
(* enabled tunnel that listens there, and a packet for any other endpoint  *)
(* is left alone.                                                          *)
RulesServeTunnels ==
  Accepted =>
    \A h \in Hook, p \in Transport, d \in Address :
      LET to == Translate(TableFor(EnabledTunnels(config)), h, p, d)
      IN {t.target : t \in Receivers(p, d)} = {to} \ {NoTarget}
=============================================================================
