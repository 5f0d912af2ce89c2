------------------------------ MODULE Supervisor ------------------------------
(***************************************************************************)
(* The desktop window's supervisor (apps/desktop/src-tauri/src/daemon.rs)  *)
(* over the daemons it launches: start, stop, status poll, the restore of  *)
(* a stranded hosts file, the session file that survives the window.       *)
(*                                                                         *)
(* Every launch draws a fresh control port and token, so a session is      *)
(* named by the daemon it was drawn for and each slot is launched once.    *)
(* A command holds the supervisor's mutex from its first step to its last; *)
(* daemons, prompts and the clock move in between.                         *)
(***************************************************************************)
EXTENDS DaemonLifecycle

CONSTANTS
  None,      \* no session, no launcher
  Helper,    \* the elevated restore batch; one at a time is modelled
  Squatters  \* BOOLEAN: may other processes take up a dead control port

ASSUME HelperAssumption == Helpers = {Helper} /\ None \notin Procs
ASSUME SquattersAssumption == Squatters \in BOOLEAN

VARIABLES
  gui,      \* Supervisor's fields: launcher, session, started_at, ever_ready, sticky_error
  file,     \* daemon-session.json
  prompt,   \* the authorization prompt of each launch
  squatted, \* another process answers where the session's daemon does not
  cmd,      \* what the command holding the mutex is doing
  pending,  \* the session a start has drawn and not launched yet
  batch,    \* the outcome of the elevated restore batch
  shown,    \* the state the window shows
  detail,   \* whether an error is shown with it
  banner,   \* the window offers to restore the hosts file
  overtaken \* history: launches a command gave up on while they came up

surroundings == <<prompt, squatted>>
windowVars == <<shown, detail, banner>>
guiVars == <<gui, file, surroundings, cmd, pending, batch, windowVars>>
allVars == <<vars, guiVars>>

Sessions == Daemons \cup {None}
Ages == {"none", "fresh", "old"}    \* started_at against STARTUP_GRACE
Prompts == {"unused", "open", "accepted", "refused", "cancelled"}
Commands == {"idle", "trusting", "posting", "closing",
             "rescuing", "stranded", "restoring"}
States == {"unknown", "stopped", "starting", "running", "failed"}

Fields == [launcher : Sessions, session : Sessions, age : Ages,
           ready : BOOLEAN, sticky : BOOLEAN, reply : {"plain", "status"}]

SupervisorTypeOK ==
  /\ TypeOK
  /\ gui \in Fields
  /\ file \in Sessions
  /\ prompt \in [Daemons -> Prompts]
  /\ squatted \in BOOLEAN
  /\ cmd \in Commands
  /\ pending \in Sessions
  /\ batch \in {"none", "running", "ok", "failed"}
  /\ shown \in States
  /\ detail \in BOOLEAN
  /\ banner \in BOOLEAN
  /\ overtaken \subseteq Daemons
  /\ gui.launcher # None => gui.session \in {None, gui.launcher}
  /\ \A d \in Daemons : pc[d] # "down" => prompt[d] = "accepted"

(* Supervisor::load: all a new window knows is the session file.           *)
Loaded(session) ==
  [launcher |-> None, session |-> session, age |-> "none",
   ready |-> FALSE, sticky |-> FALSE, reply |-> "plain"]

SupervisorInit ==
  /\ Init
  /\ gui = Loaded(None)
  /\ file = None
  /\ prompt = [d \in Daemons |-> "unused"]
  /\ squatted = FALSE
  /\ cmd = "idle"
  /\ pending = None
  /\ batch = "none"
  /\ shown = "unknown"
  /\ detail = FALSE
  /\ banner = FALSE
  /\ overtaken = {}

-----------------------------------------------------------------------------
(* The control channel as the window sees it.                              *)

(* ControlClient::probe on a new connection.                               *)
Answer(s) ==
  CASE s # None /\ ctl[s] = "open" -> "some"
    [] ~(s # None /\ ctl[s] = "open") /\ squatted -> "err"
    [] OTHER -> "none"

(* stop() probes with the client that posted: its connection may be alive. *)
StopAnswers(s) ==
  {Answer(s)} \cup (IF ctl[s] = "draining" THEN {"some"} ELSE {})

-----------------------------------------------------------------------------
(* Supervisor::status, on a copy of the fields.                            *)

Refused(g) ==
  g.launcher # None /\ prompt[g.launcher] = "refused" /\ ~g.ready

Reap(g) ==
  IF Refused(g) THEN [g EXCEPT !.launcher = None, !.session = None, !.sticky = TRUE]
  ELSE IF g.launcher # None /\ prompt[g.launcher] # "open"
  THEN [g EXCEPT !.launcher = None]
  ELSE g

(* As Expired would be, were only a launcher still at hand given up on.    *)
Expired_WithLauncher(g, answer) ==
  g.session # None /\ answer = "none" /\ g.age = "old" /\ ~g.ready /\ g.launcher # None

(* Silent past the grace window, and it has never answered.                *)
Expired(g, answer) ==
  g.session # None /\ answer = "none" /\ g.age = "old" /\ ~g.ready

AfterProbe(g, answer) ==
  CASE g.session = None -> g
    [] g.session # None /\ answer = "some" -> [g EXCEPT !.ready = TRUE]
    [] g.session # None /\ answer = "err" -> [g EXCEPT !.sticky = TRUE]
    [] OTHER -> IF Expired(g, answer) THEN [g EXCEPT !.session = None] ELSE g

StateOf(g, answer) ==
  CASE g.session = None -> IF g.sticky THEN "failed" ELSE "stopped"
    [] g.session # None /\ answer = "some" -> "running"
    [] g.session # None /\ answer = "err" -> "failed"
    [] OTHER -> IF Expired(g, answer) THEN "failed" ELSE "starting"

(* What a status() call inside a command leaves in the fields and on disk. *)
Polled(g, answer) ==
  /\ gui' = AfterProbe(Reap(g), answer)
  /\ file' = IF Refused(g) \/ Expired(Reap(g), answer) THEN None ELSE file

(* renderDaemon, which looks for a stranded hosts file when stopped; a     *)
(* file that cannot be read as text counts as clean (commands.rs:433).     *)
Show(state, error) ==
  /\ shown' = state
  /\ detail' = error
  /\ banner' \in {FALSE, state = "stopped" /\ hosts.block}

(* daemon_status: the window's poll.                                       *)
Status ==
  /\ cmd = "idle"
  /\ LET answer == Answer(Reap(gui).session) IN
       /\ Polled(gui, answer)
       /\ Show(StateOf(Reap(gui), answer), StateOf(Reap(gui), answer) = "failed")
  /\ UNCHANGED <<vars, surroundings, cmd, pending, batch>>

-----------------------------------------------------------------------------
(* Supervisor::start.  The session file is written before the root is      *)
(* trusted (a dialog the user may take any time over) and before anything  *)
(* is launched.                                                            *)

(* As StartDraws would be, did it take over the session before launching.  *)
StartDraws_Early(d) ==
  /\ cmd = "idle"
  /\ prompt[d] = "unused"
  /\ LET answer == Answer(Reap(gui).session) IN
       /\ StateOf(Reap(gui), answer) # "running"
       /\ gui' = [AfterProbe(Reap(gui), answer) EXCEPT !.session = d]
  /\ file' = d
  /\ pending' = d
  /\ cmd' = "trusting"
  /\ UNCHANGED <<vars, surroundings, batch, windowVars>>

(* As StartDraws would be, were a running daemon launched over.            *)
StartDraws_Over(d) ==
  /\ cmd = "idle"
  /\ prompt[d] = "unused"
  /\ gui' = AfterProbe(Reap(gui), Answer(Reap(gui).session))
  /\ file' = d
  /\ pending' = d
  /\ cmd' = "trusting"
  /\ UNCHANGED <<vars, surroundings, batch, windowVars>>

StartDraws(d) ==
  /\ cmd = "idle"
  /\ prompt[d] = "unused"
  /\ LET answer == Answer(Reap(gui).session) IN
       /\ StateOf(Reap(gui), answer) # "running"
       /\ gui' = AfterProbe(Reap(gui), answer)
  /\ file' = d
  /\ pending' = d
  /\ cmd' = "trusting"
  /\ UNCHANGED <<vars, surroundings, batch, windowVars>>

(* No provider, no mapping, no CLI or certificate store: an error, after   *)
(* the status call that start begins with.                                 *)
StartRefused ==
  /\ cmd = "idle"
  /\ LET answer == Answer(Reap(gui).session) IN
       /\ StateOf(Reap(gui), answer) # "running"
       /\ Polled(gui, answer)
  /\ UNCHANGED <<vars, surroundings, cmd, pending, batch, windowVars>>

(* Launched: the window shows what a status call finds right away.         *)
Launch ==
  /\ cmd = "trusting"
  /\ prompt' = [prompt EXCEPT ![pending] = "open"]
  /\ LET fresh == [Loaded(pending) EXCEPT !.launcher = pending, !.age = "fresh"]
         answer == Answer(pending)
     IN  /\ gui' = AfterProbe(fresh, answer)
         /\ Show(StateOf(fresh, answer), StateOf(fresh, answer) = "failed")
  /\ cmd' = "idle"
  /\ pending' = None
  /\ UNCHANGED <<vars, file, squatted, batch>>

(* The launcher could not be spawned: the error goes to the window, the    *)
(* fields keep the earlier session, the file the one just drawn.           *)
LaunchFails ==
  /\ cmd = "trusting"
  /\ cmd' = "idle"
  /\ pending' = None
  /\ UNCHANGED <<vars, gui, file, surroundings, batch, windowVars>>

-----------------------------------------------------------------------------
(* Supervisor::stop.                                                       *)

Rescue(reply) ==
  /\ cmd' = "rescuing"
  /\ gui' = [gui EXCEPT !.session = None, !.reply = reply]

StopWithoutSession ==
  /\ cmd = "idle"
  /\ gui.session = None
  /\ Rescue("plain")
  /\ UNCHANGED <<vars, file, surroundings, pending, batch, windowVars>>

(* Outside a start-up window, with nothing listening: nothing to stop.     *)
StopStaleSession ==
  /\ cmd = "idle"
  /\ gui.session # None
  /\ gui.age # "fresh"
  /\ Answer(gui.session) = "none"
  /\ Rescue("plain")
  /\ file' = None
  /\ UNCHANGED <<vars, surroundings, pending, batch, windowVars>>

StopSession ==
  /\ cmd = "idle"
  /\ gui.session # None
  /\ gui.age = "fresh" \/ Answer(gui.session) # "none"
  /\ cmd' = "posting"
  /\ UNCHANGED <<vars, gui, file, surroundings, pending, batch, windowVars>>

Post ==
  /\ cmd = "posting"
  /\ \E d \in Daemons : gui.session = d /\ PostStop(d)
  /\ cmd' = "closing"
  /\ UNCHANGED <<gui, file, surroundings, pending, batch, windowVars>>

(* ControlClient::stop takes any reply for an acknowledgement.             *)
PostReachesSquatter ==
  /\ cmd = "posting"
  /\ Answer(gui.session) = "err"
  /\ cmd' = "closing"
  /\ UNCHANGED <<vars, gui, file, surroundings, pending, batch, windowVars>>

(* As PostGivesUp would be, did the loop have no bound.                    *)
PostGivesUp_Never ==
  /\ cmd = "posting"
  /\ Answer(gui.session) = "none"
  /\ gui' = [gui EXCEPT !.sticky = TRUE]
  /\ UNCHANGED <<vars, file, surroundings, cmd, pending, batch, windowVars>>

(* Nothing accepted the request for STOP_ATTEMPTS.                         *)
PostGivesUp ==
  /\ cmd = "posting"
  /\ Answer(gui.session) = "none"
  /\ gui' = [gui EXCEPT !.sticky = TRUE]
  /\ cmd' = "closing"
  /\ UNCHANGED <<vars, file, surroundings, pending, batch, windowVars>>

(* Once the channel has gone quiet, or 20 s have passed (nothing else      *)
(* happens in that wait): cancel an open prompt, keep the file if          *)
(* something still listens, and forget the session either way.             *)
CloseSession ==
  /\ cmd = "closing"
  /\ prompt' = [d \in Daemons |->
       IF d = gui.launcher /\ prompt[d] = "open" THEN "cancelled" ELSE prompt[d]]
  /\ \E answer \in StopAnswers(gui.session) :
       file' = IF answer = "none" THEN None ELSE file
  /\ gui' = [gui EXCEPT !.launcher = None, !.session = None, !.age = "none",
                        !.reply = "status"]
  /\ cmd' = "rescuing"
  /\ UNCHANGED <<vars, squatted, pending, batch, windowVars>>

-----------------------------------------------------------------------------
(* Supervisor::restore_if_stranded and the reply that follows it.          *)

(* A reply without a session; a status call inside it reaps the launcher.  *)
Reply(error) ==
  /\ cmd' = "idle"
  /\ gui' = [gui EXCEPT !.sticky = FALSE]
  /\ Show(IF gui.reply = "status" /\ error THEN "failed" ELSE "stopped", error)

FoundClean ==
  /\ cmd = "rescuing"
  /\ ~hosts.block
  /\ Reply(gui.sticky)
  /\ UNCHANGED <<vars, file, surroundings, pending, batch>>

(* The file cannot be read as text at one of the looks, or is redirected   *)
(* at all of them and there is no place for a log: the restore is given up *)
(* without an error, whatever the file holds.                              *)
RescueGivesUp ==
  /\ cmd = "rescuing"
  /\ Reply(gui.sticky)
  /\ UNCHANGED <<vars, file, surroundings, pending, batch>>

(* As RestoreStranded would be, did it write the hosts file itself.        *)
RestoreStranded_InPlace ==
  /\ cmd = "stranded"
  /\ hosts' = Strip(hosts)
  /\ Reply(gui.sticky)
  /\ UNCHANGED <<procVars, port, staged, userVars, mishap>>
  /\ UNCHANGED <<file, surroundings, pending, batch>>

(* Still redirected at the last look of 5 s ...                            *)
FoundStranded ==
  /\ cmd = "rescuing"
  /\ hosts.block
  /\ cmd' = "stranded"
  /\ UNCHANGED <<vars, gui, file, surroundings, pending, batch, windowVars>>

(* ... so stage a clean file and ask for the prompt.                       *)
RestoreStranded ==
  /\ cmd = "stranded"
  /\ StageDisable(Helper)
  /\ batch' = "running"
  /\ cmd' = "restoring"
  /\ UNCHANGED <<gui, file, surroundings, pending, windowVars>>

(* No CLI, or the clean file could not be made or staged.                  *)
RestoreRefused ==
  /\ cmd = "stranded"
  /\ Reply(TRUE)
  /\ UNCHANGED <<vars, file, surroundings, pending, batch>>

(* As Restored would be, did a batch that failed leave no error behind.    *)
Restored_Quietly ==
  /\ cmd = "restoring"
  /\ batch \in {"ok", "failed"}
  /\ Reply(gui.sticky)
  /\ batch' = "none"
  /\ UNCHANGED <<vars, file, surroundings, pending>>

Restored ==
  /\ cmd = "restoring"
  /\ batch \in {"ok", "failed"}
  /\ Reply(gui.sticky \/ batch = "failed")
  /\ batch' = "none"
  /\ UNCHANGED <<vars, file, surroundings, pending>>

(* The banner's button: outside the mutex, and the banner may be older     *)
(* than the file.  The next poll shows the banner again if need be.        *)
RestoreButton ==
  /\ banner
  /\ cmd # "restoring"
  /\ StageDisable(Helper)
  /\ batch' = "running"
  /\ banner' = FALSE
  /\ UNCHANGED <<gui, file, surroundings, cmd, pending, shown, detail>>

(* The elevated batch ends; a command that waits for it gets the outcome,  *)
(* the button's caller only shows it.                                      *)
Reported(outcome) == batch' = IF cmd = "restoring" THEN outcome ELSE "none"

HelperStep ==
  /\ \/ InstallDisable(Helper) /\ UNCHANGED batch
     \/ FlushDisable(Helper) /\ (Reported("ok") \/ Reported("failed"))
     \/ pc[Helper] = "disabling" /\ DisableFails(Helper) /\ Reported("failed")
  /\ UNCHANGED <<gui, file, surroundings, cmd, pending, windowVars>>

-----------------------------------------------------------------------------
(* Around the supervisor.                                                  *)

PromptAccepted(d) ==
  /\ prompt[d] = "open"
  /\ prompt' = [prompt EXCEPT ![d] = "accepted"]
  /\ Start(d)
  /\ UNCHANGED <<gui, file, squatted, cmd, pending, batch, windowVars>>

PromptRefused(d) ==
  /\ prompt[d] = "open"
  /\ prompt' = [prompt EXCEPT ![d] = "refused"]
  /\ UNCHANGED <<vars, gui, file, squatted, cmd, pending, batch, windowVars>>

GraceExpires ==
  /\ gui.age = "fresh"
  /\ gui' = [gui EXCEPT !.age = "old"]
  /\ UNCHANGED <<vars, file, surroundings, cmd, pending, batch, windowVars>>

(* The window is quit, or dies, and is opened again.                       *)
Reopen ==
  /\ gui' = Loaded(file)
  /\ cmd' = "idle"
  /\ pending' = None
  /\ Show("unknown", FALSE)
  /\ UNCHANGED <<vars, file, surroundings, batch>>

(* A daemon the window launches is always given a control port.            *)
LaunchedStep(d) ==
  /\ DaemonStep(d) \/ StageDisable(d) \/ BatchStep(d)
  /\ pc[d] = "ready" /\ pc'[d] = "bound" => ctl'[d] = "open"
  /\ UNCHANGED guiVars

LaunchedDies(d) == Kill(d) /\ UNCHANGED guiVars

(* The user's editor and other programs, as in the lifecycle.              *)
Bystanders == (UserEdit \/ ForeignBinds \/ ForeignLeaves) /\ UNCHANGED guiVars

(* Another process takes up the port a dead daemon has left, or goes.      *)
SquatterComes ==
  /\ Squatters
  /\ ~squatted
  /\ squatted' = TRUE
  /\ UNCHANGED <<vars, gui, file, prompt, cmd, pending, batch, windowVars>>

SquatterLeaves ==
  /\ squatted
  /\ squatted' = FALSE
  /\ UNCHANGED <<vars, gui, file, prompt, cmd, pending, batch, windowVars>>

(* What a stop does by itself, once it has begun.                          *)
StopStep ==
  \/ Post \/ PostReachesSquatter \/ PostGivesUp \/ CloseSession
  \/ FoundClean \/ RescueGivesUp \/ FoundStranded
  \/ RestoreStranded \/ RestoreRefused \/ Restored

SupervisorNext ==
  \/ Status \/ StartRefused \/ Launch \/ LaunchFails \/ StopStep
  \/ StopWithoutSession \/ StopStaleSession \/ StopSession \/ RestoreButton
  \/ HelperStep \/ GraceExpires \/ Reopen
  \/ Bystanders \/ SquatterComes \/ SquatterLeaves
  \/ \E d \in Daemons :
       \/ StartDraws(d) \/ PromptAccepted(d) \/ PromptRefused(d)
       \/ LaunchedStep(d) \/ LaunchedDies(d)

(* Launched, and not answering yet.                                        *)
ComingUp ==
  {d \in Daemons : \/ prompt[d] = "open"
                   \/ prompt[d] = "accepted" /\ pc[d] # "down" /\ ctl[d] = "closed"}

(* A command changes the session file, or stops asking a daemon to stop,   *)
(* while launches are coming up.                                           *)
Remember ==
  LET overtakes == file' # file \/ (cmd = "posting" /\ cmd' = "closing")
  IN  overtaken' = IF overtakes THEN overtaken \cup ComingUp ELSE overtaken

SupervisorSpec ==
  SupervisorInit /\ [][SupervisorNext /\ Remember]_<<allVars, overtaken>>

(* The batch prompt has been answered, and the batch has copied the file.  *)
HelperEnds == pc[Helper] = "unflushing" /\ HelperStep

(* The window polls on a timer, a stop's own waits are bounded, the clock  *)
(* runs, and a process that is running keeps running.  No user owes an     *)
(* answer, neither to a launch's prompt nor to the dialog that trusts the  *)
(* root (Launch and LaunchFails wait for it) nor to a batch's prompt.      *)
SupervisorFairness ==
  /\ WF_allVars(Status)
  /\ WF_allVars(StopStep)
  /\ WF_allVars(HelperEnds)
  /\ WF_allVars(GraceExpires)
  /\ \A d \in Daemons : WF_allVars(LaunchedStep(d))

SupervisorFairSpec == SupervisorSpec /\ SupervisorFairness

-----------------------------------------------------------------------------
(* Properties.                                                             *)

(* Whatever the window does to the daemons is something daemons may meet:  *)
(* every step is a step of DaemonLifecycle, or leaves its state alone, so  *)
(* what holds of the lifecycle holds under the supervisor.                 *)
ImplementsLifecycle == Spec

(* A stop comes to its reply, and the reply shows no error.                *)
CalmStop ==
  /\ cmd \in {"rescuing", "stranded", "restoring"}
  /\ cmd' = "idle"
  /\ shown' = "stopped"
  /\ ~detail'

Cleaned == hosts.block => \E d \in Daemons : pc[d] \in Owing

(* A stop that ends without showing an error (daemon.rs:683-769) leaves    *)
(* the hosts file clean, or a daemon that will still put it back, unless   *)
(* it gave the restore up because it could not read the file or had no     *)
(* place for a log (daemon.rs:787-794).  With one launch; two launches can *)
(* overtake each other in hosts.staged.                                    *)
CalmStopLeavesClean == [][CalmStop /\ ~RescueGivesUp => Cleaned]_allVars

(* A daemon that answers can be stopped from the window: the session file  *)
(* names it (daemon.rs:752-757, "a stale token would leave a running       *)
(* daemon impossible to stop from the GUI"), unless a command gave up on   *)
(* it, or replaced it, while it was coming up.                             *)
OrphansWereOvertaken ==
  \A d \in Daemons : ctl[d] = "open" /\ file # d => d \in overtaken

(* A stop gives the mutex back whatever the daemon and the launch's prompt *)
(* do; the one thing it may wait for without a bound is the answer to the  *)
(* prompt of its own restore batch (daemon.rs:716-769).  A start may also  *)
(* wait for the dialog that trusts the root (daemon.rs:280-286).           *)
AwaitsPrompt == cmd = "restoring" /\ pc[Helper] = "disabling"
CommandsReturn == cmd \notin {"idle", "trusting"} ~> cmd = "idle" \/ AwaitsPrompt

(* A launch does not stay "starting" for good: it answers, or the polls    *)
(* find it out and discard it or show that something else answers, unless  *)
(* the window is reopened on it (daemon.rs:902-966).  With one launch: a   *)
(* second start holds the polls up while its trust dialog is open.         *)
LaunchSettles ==
  \A d \in Daemons :
    gui.session = d /\ gui.age # "none"
      ~> gui.ready \/ gui.session # d \/ gui.age = "none" \/ shown = "failed"

(* README.md:291-292: "A stale pairing (daemon killed) is detected and     *)
(* discarded on the next status poll."  Asked of a window that is not      *)
(* being reopened for ever.                                                *)
StalePairingDiscarded ==
  <>[][~Reopen]_allVars =>
    \A d \in Daemons :
      gui.session = d /\ prompt[d] = "accepted" /\ pc[d] = "down" ~> gui.session # d

(* README.md:289-291: the pairing is persisted "so reopening the window    *)
(* re-attaches to a daemon that is still running instead of orphaning it   *)
(* with the hosts file hijacked".                                          *)
ReopenReattaches ==
  [][Reopen => \A d \in Daemons :
       pc[d] = "serving" /\ ~stopReq[d] => gui'.session = d]_allVars
=============================================================================
