----------------------------- MODULE MCDaemonPair -----------------------------
(* Two daemons and one elevated restore over one machine.                    *)
EXTENDS DaemonLifecycle, TLC

CONSTANTS d1, d2, h1

MCDaemons == {d1, d2}
MCHelpers == {h1}
Symmetry == Permutations(MCDaemons)
=============================================================================
