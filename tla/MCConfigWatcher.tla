--------------------------- MODULE MCConfigWatcher ---------------------------
(***************************************************************************)
(* A file that is missing, or holds one of five configurations: two for    *)
(* sockets, that share a tunnel, and three for nft, one of them empty.     *)
(***************************************************************************)
EXTENDS ConfigWatcher

CONSTANTS n1, n2, any, lo, lan

At(ip, p) == [ip |-> ip, port |-> p]

TunnelOf(n, listen, protocol) ==
  [name |-> n, listen |-> listen, target |-> At(lan, 1), protocol |-> protocol, enabled |-> TRUE]

Web == TunnelOf(n1, At(lo, 1), "tcp")
Dns == TunnelOf(n2, At(lo, 2), "udp")

Conf(m, ts) == [daemon_log |-> TRUE, mode |-> m, tunnels |-> ts]

MCFile ==
  { Missing,
    Conf("socket", <<Web>>),
    Conf("socket", <<Dns, Web>>),
    Conf("nft", <<Web>>),
    Conf("nft", <<Web, Dns>>),
    Conf("nft", <<>>) }
=============================================================================
