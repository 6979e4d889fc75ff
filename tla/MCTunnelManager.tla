--------------------------- MODULE MCTunnelManager ---------------------------
(***************************************************************************)
(* Two tunnels over two endpoints.  MCDesired holds the maps that make the *)
(* hard cases: nothing wanted, both tunnels, the same two tunnels with     *)
(* their ports exchanged, a change of target only, and two tunnels that    *)
(* want the same TCP port.                                                 *)
(***************************************************************************)
EXTENDS TunnelManager

CONSTANTS a, b,    \* names
          e1, e2,  \* endpoints
          t1, t2   \* targets

Conf(e, t, p) == [listen |-> e, target |-> t, protocol |-> p]

Pair(x, y) == [n \in {a, b} |-> IF n = a THEN x ELSE y]

MCDesired ==
  { Pair(NoTunnel, NoTunnel),
    Pair(Conf(e1, t1, "both"), Conf(e2, t1, "tcp")),
    Pair(Conf(e2, t1, "both"), Conf(e1, t1, "tcp")),
    Pair(Conf(e1, t2, "both"), NoTunnel),
    Pair(Conf(e1, t1, "tcp"),  Conf(e1, t1, "both")) }
=============================================================================
