--------------------------- MODULE MCDaemonControl ---------------------------
(***************************************************************************)
(* Three process ids: a worker that is leaving, its successor, and one     *)
(* more for the second worker that there must not be.                      *)
(***************************************************************************)
EXTENDS DaemonControl

CONSTANTS c1, p1, p2, p3
=============================================================================
