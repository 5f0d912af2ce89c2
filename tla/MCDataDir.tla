------------------------------- MODULE MCDataDir -------------------------------
(* The window with a command on its main thread and an asynchronous one, and *)
(* a run of the command line or the daemon.                                  *)
EXTENDS DataDir

CONSTANTS m1, t1, r1

MCMain == {m1}
MCTasks == {t1}
MCRuns == {r1}

(* Nothing is claimed beyond a meeting, a clash or a hurt file; and what     *)
(* loads a root and what changes a setting share nothing but Usable.         *)
Spared ==
  /\ ~met /\ ~clashed /\ ~hurt
  /\ \A a, b \in Actors :
       work[a].op = "settings" => work[b].at \in {"rest", "serve"} \cup Saving
=============================================================================
