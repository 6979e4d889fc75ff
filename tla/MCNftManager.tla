---------------------------- MODULE MCNftManager ----------------------------
(***************************************************************************)
(* One or two tunnels, the second with a target of its own, or none.       *)
(***************************************************************************)
EXTENDS NftManager

CONSTANTS n1, n2, any, lo, lan

At(ip, p) == [ip |-> ip, port |-> p]

TunnelOf(n, listen, target, protocol) ==
  [name |-> n, listen |-> listen, target |-> target, protocol |-> protocol, enabled |-> TRUE]

First  == TunnelOf(n1, At(lo, 1), At(lan, 1), "both")
Moved  == TunnelOf(n1, At(lo, 1), At(lo, 2), "tcp")
Second == TunnelOf(n2, At(lo, 2), At(lan, 1), "udp")

MCDesired == {<<>>, <<First>>, <<Moved>>, <<First, Second>>, <<Second, First>>}
=============================================================================
