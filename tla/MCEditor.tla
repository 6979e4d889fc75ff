------------------------------ MODULE MCEditor ------------------------------
(***************************************************************************)
(* Two editors of one file, and names of which two differ in case alone.   *)
(* The file is absent, blank, saved by an earlier editor, or written by    *)
(* hand with two such names.  One of the tunnels that may be typed in      *)
(* cannot be served in nft mode.                                           *)
(***************************************************************************)
EXTENDS Editor

CONSTANTS p1, p2, web, WEB, dns, any, lo, v6

MCFolded == [n \in TunnelName |-> IF n = dns THEN dns ELSE web]

At(ip, p) == [ip |-> ip, port |-> p]

TunnelOf(n, listen) ==
  [name |-> n, listen |-> listen, target |-> At(lo, 1), protocol |-> "tcp", enabled |-> TRUE]

MCTyped == { TunnelOf(WEB, At(lo, 1)), TunnelOf(dns, At(v6, 1)) }

MCKept == { {}, {"name"}, {"listen"}, {"name", "listen", "target", "protocol", "enabled"} }

Conf(m, ts) == [daemon_log |-> TRUE, mode |-> m, tunnels |-> ts]

MCFirstFile ==
  { Missing,
    Blank,
    Conf("nft", <<TunnelOf(web, At(lo, 1))>>),
    Conf("socket", <<TunnelOf(web, At(lo, 1)), TunnelOf(WEB, At(v6, 1))>>) }
=============================================================================
