--------------------------- MODULE MCSupervisorLife ---------------------------
(* A window and the one daemon it launches.                                  *)
EXTENDS Supervisor

CONSTANTS d1, h1

MCDaemons == {d1}
MCHelpers == {h1}
=============================================================================
