----------------------------- MODULE MCAccountPool -----------------------------
(* A command given to the window and a run of the CLI.                       *)
EXTENDS AccountPool, TLC

CONSTANTS w1, c1, f1, f2, l1, l2

MCWindow == {w1}
MCCli == {c1}
MCFamilies == {f1, f2}
MCLabels == {l1, l2}

(* The run goes on after a crash, a failed call or a dropped token, and    *)
(* not beyond any other mishap, of which the properties say nothing.       *)
Spared ==
  /\ mishaps \in {{}, {"crash"}, {"unsaved"}}
  /\ mishaps = {} \/ lost \cup dropped = {}
Symmetry == Permutations(MCFamilies) \cup Permutations(MCLabels)
=============================================================================
