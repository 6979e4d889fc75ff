---------------------------- MODULE MCForeground ----------------------------
(***************************************************************************)
(* Two tunnels that can be served together and two that can not, both in   *)
(* socket mode; in nft mode one tunnel of two, two that share an address,  *)
(* two that share an endpoint as well and must not be loaded, and none.    *)
(***************************************************************************)
EXTENDS Foreground

CONSTANTS a, b, any, lo, lan

At(ip, p) == [ip |-> ip, port |-> p]

TunnelOf(n, listen, protocol) ==
  [name |-> n, listen |-> listen, target |-> At(lan, 1), protocol |-> protocol, enabled |-> TRUE]

Conf(m, ts) == [daemon_log |-> TRUE, mode |-> m, tunnels |-> ts]

MCEndpoint == {At(lo, 1), At(lo, 2)}

MCTarget == {At(lan, 1)}

MCFile ==
  { Missing,
    Conf("socket", <<TunnelOf(a, At(lo, 1), "both"), TunnelOf(b, At(lo, 2), "udp")>>),
    Conf("socket", <<TunnelOf(a, At(lo, 1), "tcp"), TunnelOf(b, At(lo, 1), "both")>>),
    Conf("nft", <<TunnelOf(a, At(lo, 1), "both"), [TunnelOf(b, At(lo, 2), "udp") EXCEPT !.enabled = FALSE]>>),
    Conf("nft", <<TunnelOf(a, At(lo, 1), "tcp"), [TunnelOf(b, At(lo, 1), "udp") EXCEPT !.target = At(lan, 2)]>>),
    Conf("nft", <<TunnelOf(a, At(lo, 1), "tcp"), [TunnelOf(b, At(lo, 1), "both") EXCEPT !.target = At(lan, 2)]>>),
    Conf("nft", <<>>) }

MCDesired == {SocketTunnels(c) : c \in {d \in Loadable : d.mode = "socket"}}
=============================================================================
