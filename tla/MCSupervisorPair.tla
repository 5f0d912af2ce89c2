--------------------------- MODULE MCSupervisorPair ---------------------------
(* A window that launches up to two daemons, the second at any moment.       *)
EXTENDS Supervisor, TLC

CONSTANTS d1, d2, h1

MCDaemons == {d1, d2}
MCHelpers == {h1}
(* Port 443 taken by another program only makes BindListenerFails likelier,  *)
(* and that action is possible here anyway.                                  *)
PortIsOurs == port # Foreign
Symmetry == Permutations(MCDaemons)
=============================================================================
