------------------------------- MODULE MCDaemon -------------------------------
(* Daemon with three processes, which model values name.                   *)
EXTENDS Daemon

CONSTANTS p1, p2, p3

ThreePids == {p1, p2, p3}
===============================================================================
