---------------------------- MODULE MCNftRuleset ----------------------------
(***************************************************************************)
(* Files of up to MaxTunnels tunnels over four addresses of every kind,    *)
(* and one that cannot be parsed.                                          *)
(***************************************************************************)
EXTENDS ConfigFile

CONSTANTS n1, n2, blank, any, lo, lan, v6

Some(ip) == [ip |-> ip, port |-> 1]

MCWritten ==
  {t \in TunnelConfig :
     /\ t.listen \in {Some(any), Some(lo), Some(lan), Some(v6), BadAddress}
     /\ t.target \in {Some(lo), Some(lan), Some(v6)}
     /\ t.name = blank => t.enabled}
=============================================================================
