--------------------------- MODULE DaemonLifecycle ---------------------------
(***************************************************************************)
(* The life of the elevated `9rai daemon` processes of one machine and of  *)
(* the elevated restore batches the desktop window starts: what they share *)
(* is /etc/hosts, the staging file every batch is prepared in, and port    *)
(* 443.  One action per step of run_daemon (crates/cli/src/main.rs) and    *)
(* of the privileged batches it runs (crates/core/src/session.rs).         *)
(*                                                                         *)
(* The hosts file is abstracted to whether it holds our block and which    *)
(* version of the user's own lines it holds.                               *)
(***************************************************************************)
EXTENDS Naturals

CONSTANTS
  Daemons,    \* process slots for `9rai daemon`; a slot may run many times
  Helpers,    \* process slots for an elevated disable batch of the window
  MaxEdits,   \* bound on the user's own edits of the hosts file
  Free,       \* port 443 is held by nobody
  Foreign     \* port 443 is held by a program that is not ours

Procs == Daemons \cup Helpers

ASSUME ProcsAssumption ==
  /\ Daemons \cap Helpers = {}
  /\ Free \notin Procs /\ Foreign \notin Procs /\ Free # Foreign
ASSUME EditsAssumption == MaxEdits \in Nat

VARIABLES
  pc,       \* where each process is
  armed,    \* the daemon's Ctrl+C handler is registered
  stopReq,  \* the daemon's shutdown future has resolved
  ctl,      \* the daemon's control channel
  port,     \* who holds 443
  hosts,    \* /etc/hosts
  staged,   \* <data dir>/hosts.staged, shared by every batch
  edits,    \* how often the user has edited the hosts file
  raced,    \* history: an edit fell between a staging and its install
  mishap    \* history: a process ended owing the machine a restore

procVars == <<pc, armed, stopReq, ctl>>
fileVars == <<hosts, staged>>
userVars == <<edits, raced>>
vars == <<procVars, port, fileVars, userVars, mishap>>

(* "draining": POST /stop was accepted, the listener is gone, and only a   *)
(* connection that was already open is still answered.                     *)
Channel == {"closed", "open", "draining"}

(* Between staging the redirect and staging its removal.                   *)
Enabled == {"enabling", "flushing", "checking", "reloading", "rechecking",
            "ready", "bound", "serving", "restoring"}
(* The process still has to put the hosts file back before it ends.        *)
Owing == Enabled \cup {"disabling"}
Steps == Owing \cup {"down", "booting", "unflushing"}

HostsFile == [block : BOOLEAN, user : 0..MaxEdits]

TypeOK ==
  /\ pc \in [Procs -> Steps]
  /\ armed \in [Procs -> BOOLEAN]
  /\ stopReq \in [Procs -> BOOLEAN]
  /\ ctl \in [Procs -> Channel]
  /\ port \in Daemons \cup {Free, Foreign}
  /\ hosts \in HostsFile
  /\ staged \in HostsFile
  /\ edits \in 0..MaxEdits
  /\ raced \in BOOLEAN
  /\ mishap \in BOOLEAN
  /\ \A d \in Daemons : port = d <=> pc[d] = "serving"
  /\ \A h \in Helpers : pc[h] \in {"down", "disabling", "unflushing"}

Init ==
  /\ pc = [p \in Procs |-> "down"]
  /\ armed = [p \in Procs |-> FALSE]
  /\ stopReq = [p \in Procs |-> FALSE]
  /\ ctl = [p \in Procs |-> "closed"]
  /\ port = Free
  /\ hosts = [block |-> FALSE, user |-> 0]
  /\ staged = [block |-> FALSE, user |-> 0]
  /\ edits = 0
  /\ raced = FALSE
  /\ mishap = FALSE

-----------------------------------------------------------------------------
(* Steps shared by the actions.                                            *)

Move(p, from, to) ==
  /\ pc[p] = from
  /\ pc' = [pc EXCEPT ![p] = to]

(* A step of the process's own control flow that touches nothing shared.   *)
Step(p, from, to) ==
  /\ Move(p, from, to)
  /\ UNCHANGED <<armed, stopReq, ctl, port, fileVars, userVars, mishap>>

(* The process ends: its sockets close with it.                            *)
Exit(p) ==
  /\ pc' = [pc EXCEPT ![p] = "down"]
  /\ armed' = [armed EXCEPT ![p] = FALSE]
  /\ stopReq' = [stopReq EXCEPT ![p] = FALSE]
  /\ ctl' = [ctl EXCEPT ![p] = "closed"]
  /\ port' = IF port = p THEN Free ELSE port
  /\ mishap' = (mishap \/ pc[p] \in Owing)
  /\ UNCHANGED <<fileVars, userVars>>

(* As Strip would be, were the file put back as it was before the redirect.*)
Strip_Backup(file) == [block |-> FALSE, user |-> 0]

(* hosts::apply and hosts::strip: the user's lines are kept either way.    *)
Apply(file) == [file EXCEPT !.block = TRUE]
Strip(file) == [file EXCEPT !.block = FALSE]

(* `cp hosts.staged /etc/hosts`: whatever the staging file holds by now.   *)
Install(p, from, to) ==
  /\ Move(p, from, to)
  /\ hosts' = staged
  /\ UNCHANGED <<armed, stopReq, ctl, port, staged, userVars, mishap>>

-----------------------------------------------------------------------------
(* Start-up: configuration, enable batch, resolver.                        *)

Start(d) == Step(d, "down", "booting")

(* No provider, no mapping, no certificate store, an unreadable hosts file.*)
BootFails(d) == pc[d] = "booting" /\ Exit(d)

StageEnable(d) ==
  /\ Move(d, "booting", "enabling")
  /\ staged' = Apply(hosts)
  /\ UNCHANGED <<armed, stopReq, ctl, port, hosts, userVars, mishap>>

InstallEnable(d) == Install(d, "enabling", "flushing")

FlushEnable(d) == Step(d, "flushing", "checking")

(* As EnableFails would be, did a failed copy only get logged.             *)
EnableFails_Logged(d) == Step(d, "enabling", "checking")

(* The batch stops at the first command that fails and run_daemon returns. *)
EnableFails(d) == pc[d] \in {"enabling", "flushing"} /\ Exit(d)

(* The resolver's answer is an input: it re-reads the file when it likes.  *)
CheckResolver(d) ==
  \/ Step(d, "checking", "ready")
  \/ Step(d, "checking", "reloading")

ReloadResolver(d) ==
  \/ Step(d, "reloading", "rechecking")
  \/ Step(d, "reloading", "restoring")

(* As Recheck would be, did it reload until the resolver gives in.         *)
Recheck_Forever(d) ==
  \/ Step(d, "rechecking", "ready")
  \/ Step(d, "rechecking", "reloading")

Recheck(d) ==
  \/ Step(d, "rechecking", "ready")
  \/ Step(d, "rechecking", "restoring")

-----------------------------------------------------------------------------
(* Serving.                                                                *)

(* A daemon started without --control-port has no control channel.         *)
BindControl(d) ==
  /\ Move(d, "ready", "bound")
  /\ \E channel \in {"open", "closed"} : ctl' = [ctl EXCEPT ![d] = channel]
  /\ UNCHANGED <<armed, stopReq, port, fileVars, userVars, mishap>>

BindControlFails(d) == Step(d, "ready", "restoring")

(* As BindListener would be, were the port shared (SO_REUSEPORT).          *)
BindListener_Shared(d) ==
  /\ Move(d, "bound", "serving")
  /\ port' = d
  /\ armed' = [armed EXCEPT ![d] = TRUE]
  /\ UNCHANGED <<stopReq, ctl, fileVars, userVars, mishap>>

BindListener(d) ==
  /\ port = Free
  /\ Move(d, "bound", "serving")
  /\ port' = d
  /\ armed' = [armed EXCEPT ![d] = TRUE]
  /\ UNCHANGED <<stopReq, ctl, fileVars, userVars, mishap>>

BindListenerFails(d) == Step(d, "bound", "restoring")

(* As Shutdown would be, did run_daemon return with serve_many.            *)
Shutdown_Returns(d) ==
  /\ stopReq[d]
  /\ Move(d, "serving", "down")
  /\ port' = Free
  /\ UNCHANGED <<armed, stopReq, ctl, fileVars, userVars, mishap>>

Shutdown(d) ==
  /\ stopReq[d]
  /\ Move(d, "serving", "restoring")
  /\ port' = Free
  /\ UNCHANGED <<armed, stopReq, ctl, fileVars, userVars, mishap>>

(* An authorized POST /stop ends the control server and the proxy.         *)
PostStop(d) ==
  /\ ctl[d] = "open"
  /\ stopReq' = [stopReq EXCEPT ![d] = TRUE]
  /\ ctl' = [ctl EXCEPT ![d] = "draining"]
  /\ UNCHANGED <<pc, armed, port, fileVars, userVars, mishap>>

(* Ctrl+C while serving resolves the shutdown future ...                   *)
Interrupt(d) ==
  /\ pc[d] = "serving"
  /\ stopReq' = [stopReq EXCEPT ![d] = TRUE]
  /\ UNCHANGED <<pc, armed, ctl, port, fileVars, userVars, mishap>>

(* ... and before the handler is registered it ends the process.           *)
InterruptUnarmed(d) == pc[d] # "down" /\ ~armed[d] /\ Exit(d)

-----------------------------------------------------------------------------
(* The disable batch: the end of every daemon run that got past the enable *)
(* batch, and all there is to a helper.                                    *)

Restores(p) ==
  \/ p \in Daemons /\ pc[p] = "restoring"
  \/ p \in Helpers /\ pc[p] = "down"

Alone(p) == \A q \in Procs \ {p} : pc[q] = "down"

(* As StageDisable would be, did the batch install an older staging file.  *)
StageDisable_Old(p) ==
  /\ Restores(p)
  /\ pc' = [pc EXCEPT ![p] = "disabling"]
  /\ mishap' = (mishap /\ ~Alone(p))
  /\ UNCHANGED <<armed, stopReq, ctl, port, hosts, staged, userVars>>

(* Nobody else is under way: whatever happened before is being repaired.   *)
StageDisable(p) ==
  /\ Restores(p)
  /\ pc' = [pc EXCEPT ![p] = "disabling"]
  /\ staged' = Strip(hosts)
  /\ mishap' = (mishap /\ ~Alone(p))
  /\ UNCHANGED <<armed, stopReq, ctl, port, hosts, userVars>>

InstallDisable(p) == Install(p, "disabling", "unflushing")

(* A failed flush is reported as a failed restore; the file is back.       *)
FlushDisable(p) == pc[p] = "unflushing" /\ Exit(p)

(* Staging or the copy failed, or the prompt of a helper was refused.      *)
DisableFails(p) == pc[p] \in {"restoring", "disabling"} /\ Exit(p)

-----------------------------------------------------------------------------
(* The environment.                                                        *)

Kill(p) == pc[p] # "down" /\ Exit(p)

Staging == {p \in Procs : pc[p] \in {"enabling", "disabling"}}

UserEdit ==
  /\ edits < MaxEdits
  /\ edits' = edits + 1
  /\ hosts' = [hosts EXCEPT !.user = edits + 1]
  /\ raced' = (raced \/ Staging # {})
  /\ UNCHANGED <<procVars, port, staged, mishap>>

ForeignBinds ==
  /\ port = Free
  /\ port' = Foreign
  /\ UNCHANGED <<procVars, fileVars, userVars, mishap>>

ForeignLeaves ==
  /\ port = Foreign
  /\ port' = Free
  /\ UNCHANGED <<procVars, fileVars, userVars, mishap>>

-----------------------------------------------------------------------------
DaemonStep(d) ==
  \/ BootFails(d) \/ StageEnable(d) \/ InstallEnable(d) \/ FlushEnable(d)
  \/ EnableFails(d) \/ CheckResolver(d) \/ ReloadResolver(d) \/ Recheck(d)
  \/ BindControl(d) \/ BindControlFails(d)
  \/ BindListener(d) \/ BindListenerFails(d) \/ Shutdown(d)

BatchStep(p) ==
  InstallDisable(p) \/ FlushDisable(p) \/ DisableFails(p)

DaemonNext(d) ==
  Start(d) \/ DaemonStep(d) \/ PostStop(d) \/ Interrupt(d) \/ InterruptUnarmed(d)

Next ==
  \/ \E d \in Daemons : DaemonNext(d)
  \/ \E p \in Procs : StageDisable(p) \/ BatchStep(p) \/ Kill(p)
  \/ UserEdit \/ ForeignBinds \/ ForeignLeaves

Spec == Init /\ [][Next]_vars

(* A process that is running keeps running: every command of a batch and   *)
(* every bounded wait of run_daemon comes back.  Starting, stopping,       *)
(* killing and editing are up to the user.                                 *)
Fairness ==
  \A d \in Daemons : WF_vars(DaemonStep(d) \/ StageDisable(d) \/ BatchStep(d))

FairSpec == Spec /\ Fairness

-----------------------------------------------------------------------------
(* Properties.                                                             *)

(* The redirect outlives a run only if some run was killed, interrupted    *)
(* before its handler was in place, or lost a batch step; and a disable    *)
(* batch run by itself repairs that.  However many daemons and restores    *)
(* overlap, orderly runs (main.rs:647-659) leave the hosts file clean even *)
(* though they all stage in the same file.                                 *)
StrandNeedsMishap ==
  hosts.block /\ ~mishap => \E p \in Procs : pc[p] \in Owing

(* The user's own lines are lost only when the edit fell between a         *)
(* batch's read of the file (session.rs:18-31) and its `cp`.               *)
EditsSurvive == ~raced => hosts.user = edits

(* With one process at a time, whoever serves 443 is redirected to: no     *)
(* path of run_daemon reaches serving without the block, or keeps serving  *)
(* after taking it out.                                                    *)
ServingIsRedirected == \A d \in Daemons : pc[d] = "serving" => hosts.block

(* A stop request to a serving daemon (POST /stop or Ctrl+C) ends with the *)
(* hosts file restored, unless the process is killed or a batch fails.     *)
StopRestores ==
  \A d \in Daemons :
    pc[d] = "serving" /\ stopReq[d] ~> pc[d] = "down" /\ (hosts.block => mishap)

(* A start-up comes to an end: the daemon serves, or it is gone, within    *)
(* the bounded waits for the resolver (main.rs:740-747).                   *)
StartupSettles ==
  \A d \in Daemons : pc[d] = "booting" ~> pc[d] \in {"serving", "down"}

(* What run_daemon logs when the enable batch fails (main.rs:596-599):     *)
(* "hosts file and trust store are unchanged".                             *)
FailedEnableLeavesHosts ==
  [][\A d \in Daemons : EnableFails(d) /\ ~mishap => ~hosts'.block]_vars
=============================================================================
