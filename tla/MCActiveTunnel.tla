--------------------------- MODULE MCActiveTunnel ---------------------------
(***************************************************************************)
(* Two TCP clients, two UDP clients and a grace period of two ticks.       *)
(***************************************************************************)
EXTENDS ActiveTunnel

CONSTANTS c1, c2, p1, p2
=============================================================================
