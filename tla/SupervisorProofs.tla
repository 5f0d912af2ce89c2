--------------------------- MODULE SupervisorProofs ---------------------------
(***************************************************************************)
(* The supervised system implements DaemonLifecycle, so the theorems about *)
(* DaemonLifecycle hold under the supervisor; and what answers can be      *)
(* stopped from the window, unless a command overtook it; and a stop that  *)
(* shows no error leaves the hosts file clean, with one launch.            *)
(***************************************************************************)
EXTENDS Supervisor, DaemonLifecycleProofs

LEMMA HelperIsProc == Helper \in Procs
  BY HelperAssumption DEF Procs

(* Steps of the window alone leave daemons, files and port as they are.    *)
LEMMA WindowSteps ==
  ASSUME Status \/ StartRefused \/ (\E d \in Daemons : StartDraws(d) \/ PromptRefused(d))
         \/ Launch \/ LaunchFails
         \/ StopWithoutSession \/ StopStaleSession \/ StopSession
         \/ PostReachesSquatter \/ PostGivesUp \/ CloseSession
         \/ FoundClean \/ RescueGivesUp \/ RestoreRefused \/ FoundStranded \/ Restored
         \/ GraceExpires \/ Reopen
         \/ SquatterComes \/ SquatterLeaves
  PROVE  UNCHANGED vars
  BY DEF Status, StartRefused, StartDraws, PromptRefused, Launch, LaunchFails, StopWithoutSession,
         StopStaleSession, StopSession, PostReachesSquatter, PostGivesUp,
         CloseSession, FoundClean, RescueGivesUp, RestoreRefused, FoundStranded, Restored,
         GraceExpires, Reopen,
         SquatterComes, SquatterLeaves

LEMMA BystanderSteps ==
  ASSUME Bystanders
  PROVE  Next
  BY DEF Bystanders, Next

(* A prompt that is accepted starts a daemon.                              *)
LEMMA PromptStep ==
  ASSUME NEW d \in Daemons, PromptAccepted(d)
  PROVE  Next
  BY DEF PromptAccepted, Next, DaemonNext

(* What a launched daemon does by itself, or is killed doing.              *)
LEMMA DaemonSteps ==
  ASSUME NEW d \in Daemons, LaunchedStep(d) \/ LaunchedDies(d)
  PROVE  Next
  BY DEF LaunchedStep, LaunchedDies, Next, DaemonNext, Procs

(* The restore batch is a helper's: it may start whenever the slot is free.*)
LEMMA HelperSteps ==
  ASSUME RestoreStranded \/ RestoreButton \/ HelperStep
  PROVE  Next
  BY HelperIsProc DEF RestoreStranded, RestoreButton, HelperStep, Next, BatchStep

(* The stop request goes to the daemon the session names.                  *)
LEMMA PostStepIsPostStop ==
  ASSUME Post
  PROVE  Next
  BY DEF Post, Next, DaemonNext

(* Every step of the supervised system is a step of the lifecycle or       *)
(* leaves it alone (daemon.rs:603-971 over main.rs:558-662).               *)
LEMMA SupervisorStep ==
  ASSUME [SupervisorNext]_allVars
  PROVE  [Next]_vars
<1>1. CASE SupervisorNext
  <2>1. CASE \/ Status \/ StartRefused \/ Launch \/ LaunchFails \/ StopStep
             \/ StopWithoutSession \/ StopStaleSession
             \/ StopSession \/ RestoreButton \/ HelperStep \/ GraceExpires \/ Reopen
             \/ Bystanders \/ SquatterComes \/ SquatterLeaves
    BY <2>1, WindowSteps, HelperSteps, PostStepIsPostStop, BystanderSteps DEF StopStep
  <2>2. ASSUME NEW d \in Daemons,
               \/ StartDraws(d) \/ PromptAccepted(d) \/ PromptRefused(d)
               \/ LaunchedStep(d) \/ LaunchedDies(d)
        PROVE  [Next]_vars
    BY <2>2, WindowSteps, PromptStep, DaemonSteps
  <2>3. QED
    BY <1>1, <2>1, <2>2 DEF SupervisorNext
<1>2. CASE UNCHANGED allVars
  BY <1>2 DEF allVars
<1>3. QED
  BY <1>1, <1>2

(* The supervised system implements the lifecycle: whatever the window's   *)
(* start, stop, restore and poll do to the daemons is something daemons    *)
(* may meet anyway.                                                        *)
THEOREM SupervisionImplementsLifecycle == SupervisorSpec => ImplementsLifecycle
<1>1. SupervisorInit => Init
  BY DEF SupervisorInit
<1>2. [SupervisorNext]_allVars => [Next]_vars
  BY SupervisorStep
<1>3. [SupervisorNext /\ Remember]_<<allVars, overtaken>> => [SupervisorNext]_allVars
  OBVIOUS
<1>4. QED
  BY <1>1, <1>2, <1>3, PTL DEF SupervisorSpec, ImplementsLifecycle, Spec

(* Under the supervisor, too, the redirect outlives the daemons only after *)
(* a mishap (main.rs:647-659, daemon.rs:782-819).                          *)
THEOREM SupervisedStrandsNeedMishaps == SupervisorSpec => []StrandNeedsMishap
  BY SupervisionImplementsLifecycle, StrandsNeedMishaps DEF ImplementsLifecycle

(* Nor does the window's restore lose an edit of the user's that no batch  *)
(* raced (session.rs:101-110).                                             *)
THEOREM SupervisedEditsSurvive == SupervisorSpec => []EditsSurvive
  BY SupervisionImplementsLifecycle, EditsSurviveBatches DEF ImplementsLifecycle

-----------------------------------------------------------------------------
(* Type correctness of the window, and that it can stop what answers.      *)

(* Where a daemon is once it has had a control channel.                    *)
PastReady == {"bound", "serving", "restoring", "disabling", "unflushing"}

ChannelOrder == \A d \in Daemons : ctl[d] # "closed" => pc[d] \in PastReady

Alive(d) == d \in ComingUp \/ ctl[d] = "open"

(* A launch that comes up, or answers, and that nothing has overtaken is   *)
(* the one in the window's hands and on file, and no stop is being         *)
(* concluded; what a start has drawn is on file, and not launched.         *)
PairOrder ==
  /\ \A d \in Daemons : Alive(d) /\ d \notin overtaken =>
       file = d /\ gui.session = d /\ cmd # "closing"
  /\ cmd = "trusting" => pending \in Daemons /\ file = pending /\ prompt[pending] = "unused"

SupervisorInv == SupervisorTypeOK /\ ChannelOrder /\ PairOrder

(* What a daemon does by itself leaves the others alone, opens its channel *)
(* once, and closes it when it ends.                                       *)
LEMMA OwnStep ==
  ASSUME TypeOK, ChannelOrder, NEW d \in Daemons,
         DaemonStep(d) \/ StageDisable(d) \/ BatchStep(d) \/ Kill(d)
  PROVE  /\ \A e \in Daemons \ {d} : pc'[e] = pc[e] /\ ctl'[e] = ctl[e]
         /\ pc[d] # "down"
         /\ ctl'[d] = "open" => ctl[d] \in {"open", "closed"}
         /\ ctl'[d] = "closed" /\ pc'[d] # "down" => ctl[d] = "closed"
         /\ ctl'[d] # "closed" => pc'[d] \in PastReady
<1> USE ProcsAssumption DEF Procs
<1>1. CASE BootFails(d) \/ EnableFails(d) \/ FlushDisable(d) \/ DisableFails(d) \/ Kill(d)
  <2>1. Exit(d) /\ pc[d] # "down"
    BY <1>1 DEF BootFails, EnableFails, FlushDisable, DisableFails, Kill
  <2>2. QED
    BY <2>1 DEF Exit, TypeOK
<1>2. CASE \/ FlushEnable(d) \/ CheckResolver(d) \/ ReloadResolver(d) \/ Recheck(d)
           \/ BindControlFails(d) \/ BindListenerFails(d)
  <2>1. PICK from, to : /\ Step(d, from, to) /\ from # "down"
                        /\ from \in PastReady => to \in PastReady
    BY <1>2 DEF FlushEnable, CheckResolver, ReloadResolver, Recheck, BindControlFails,
                BindListenerFails, PastReady
  <2>2. QED
    BY <2>1 DEF Step, Move, TypeOK, ChannelOrder
<1>3. CASE StageEnable(d) \/ StageDisable(d)
  <2>1. PICK to : /\ pc' = [pc EXCEPT ![d] = to] /\ ctl' = ctl /\ pc[d] # "down"
                  /\ pc[d] \in PastReady => to \in PastReady
    BY <1>3 DEF StageEnable, StageDisable, Restores, Move, PastReady
  <2>2. QED
    BY <2>1 DEF TypeOK, ChannelOrder
<1>4. CASE InstallEnable(d) \/ InstallDisable(d)
  <2>1. PICK from, to : /\ Install(d, from, to) /\ from # "down"
                        /\ from \in PastReady => to \in PastReady
    BY <1>4 DEF InstallEnable, InstallDisable, PastReady
  <2>2. QED
    BY <2>1 DEF Install, Move, TypeOK, ChannelOrder
<1>5. CASE BindControl(d)
  BY <1>5 DEF BindControl, Move, TypeOK, ChannelOrder, PastReady
<1>6. CASE BindListener(d) \/ Shutdown(d)
  BY <1>6 DEF BindListener, Shutdown, Move, TypeOK, ChannelOrder, PastReady
<1>7. QED
  BY <1>1, <1>2, <1>3, <1>4, <1>5, <1>6 DEF DaemonStep, BatchStep

(* A step that no daemon is part of.                                       *)
DaemonsStay == \A d \in Daemons : pc'[d] = pc[d] /\ ctl'[d] = ctl[d]

LEMMA HelperKeeps ==
  ASSUME TypeOK, RestoreStranded \/ RestoreButton \/ HelperStep
  PROVE  DaemonsStay
<1> USE ProcsAssumption, HelperAssumption DEF Procs
<1>1. Helper \notin Daemons
  OBVIOUS
<1>2. CASE StageDisable(Helper)
  BY <1>1, <1>2 DEF StageDisable, TypeOK, DaemonsStay
<1>3. CASE InstallDisable(Helper)
  BY <1>1, <1>3 DEF InstallDisable, Install, Move, TypeOK, DaemonsStay
<1>4. CASE FlushDisable(Helper) \/ DisableFails(Helper)
  BY <1>1, <1>4 DEF FlushDisable, DisableFails, Exit, TypeOK, DaemonsStay
<1>5. QED
  BY <1>2, <1>3, <1>4 DEF RestoreStranded, RestoreButton, HelperStep

LEMMA BystandersKeep ==
  ASSUME Bystanders
  PROVE  DaemonsStay
  BY DEF Bystanders, UserEdit, ForeignBinds, ForeignLeaves, procVars, DaemonsStay

-----------------------------------------------------------------------------
(* The supervisor's fields.                                                *)

Linked(g) == g.launcher # None => g.session \in {None, g.launcher}

LEMMA FieldsChange ==
  ASSUME NEW g \in Fields, NEW d \in Sessions
  PROVE  /\ [g EXCEPT !.launcher = None] \in Fields
         /\ [g EXCEPT !.session = d] \in Fields
         /\ [g EXCEPT !.ready = TRUE] \in Fields
         /\ [g EXCEPT !.sticky = TRUE] \in Fields
         /\ [g EXCEPT !.sticky = FALSE] \in Fields
         /\ [g EXCEPT !.age = "old"] \in Fields
         /\ \A reply \in {"plain", "status"} :
              [g EXCEPT !.session = None, !.reply = reply] \in Fields
         /\ [g EXCEPT !.launcher = None, !.session = None, !.sticky = TRUE] \in Fields
         /\ [g EXCEPT !.launcher = None, !.session = None, !.age = "none",
                      !.reply = "status"] \in Fields
  BY DEF Fields, Sessions, Ages

LEMMA LoadedTyped ==
  ASSUME NEW d \in Sessions
  PROVE  /\ Loaded(d) \in Fields
         /\ [Loaded(d) EXCEPT !.launcher = d, !.age = "fresh"] \in Fields
  BY DEF Fields, Sessions, Ages, Loaded

LEMMA ReapTyped ==
  ASSUME NEW g \in Fields, Linked(g)
  PROVE  /\ Reap(g) \in Fields /\ Linked(Reap(g))
         /\ Reap(g).session = IF Refused(g) THEN None ELSE g.session
  BY FieldsChange DEF Reap, Linked, Fields, Sessions

LEMMA AfterProbeTyped ==
  ASSUME NEW g \in Fields, Linked(g), NEW answer
  PROVE  /\ AfterProbe(g, answer) \in Fields /\ Linked(AfterProbe(g, answer))
         /\ AfterProbe(g, answer).session =
              IF g.session # None /\ answer \notin {"some", "err"} /\ Expired(g, answer)
              THEN None ELSE g.session
<1>1. CASE g.session = None
  BY <1>1 DEF AfterProbe
<1>2. CASE g.session # None /\ answer = "some"
  BY <1>2, FieldsChange DEF AfterProbe, Linked, Fields
<1>3. CASE g.session # None /\ answer = "err"
  BY <1>3, FieldsChange DEF AfterProbe, Linked, Fields
<1>4. CASE g.session # None /\ answer \notin {"some", "err"}
  <2>1. AfterProbe(g, answer) = IF Expired(g, answer) THEN [g EXCEPT !.session = None] ELSE g
    BY <1>4 DEF AfterProbe
  <2>2. None \in Sessions
    BY DEF Sessions
  <2>3. CASE Expired(g, answer)
    <3>1. AfterProbe(g, answer) = [g EXCEPT !.session = None]
      BY <2>1, <2>3
    <3>2. /\ [g EXCEPT !.session = None] \in Fields
          /\ [g EXCEPT !.session = None].session = None
      BY <2>2, FieldsChange DEF Fields
    <3>3. QED
      BY <1>4, <2>3, <3>1, <3>2 DEF Linked
  <2>4. CASE ~Expired(g, answer)
    BY <2>1, <2>4
  <2>5. QED
    BY <2>3, <2>4
<1>5. QED
  BY <1>1, <1>2, <1>3, <1>4

LEMMA StateOfTyped ==
  ASSUME NEW g, NEW answer
  PROVE  StateOf(g, answer) \in States
  BY DEF StateOf, States

(* What a status call leaves in the supervisor's fields.                   *)
LEMMA PollTyped ==
  ASSUME SupervisorTypeOK
  PROVE  \A answer :
           /\ AfterProbe(Reap(gui), answer) \in Fields
           /\ Linked(AfterProbe(Reap(gui), answer))
<1>1. gui \in Fields /\ Linked(gui)
  BY DEF SupervisorTypeOK, Linked
<1>2. Reap(gui) \in Fields /\ Linked(Reap(gui))
  BY <1>1, ReapTyped
<1>3. QED
  BY <1>2, AfterProbeTyped

(* What a launch leaves there, whatever answers by then.                   *)
LEMMA LaunchTyped ==
  ASSUME NEW d \in Daemons, NEW answer
  PROVE  LET fresh == [Loaded(d) EXCEPT !.launcher = d, !.age = "fresh"]
         IN  /\ AfterProbe(fresh, answer) \in Fields
             /\ Linked(AfterProbe(fresh, answer))
             /\ AfterProbe(fresh, answer).session = d
<1> DEFINE fresh == [Loaded(d) EXCEPT !.launcher = d, !.age = "fresh"]
<1>1. d \in Sessions
  BY DEF Sessions
<1>2. fresh \in Fields
  BY <1>1, LoadedTyped
<1>3. Linked(fresh) /\ fresh.session = d /\ fresh.age = "fresh"
  BY DEF Linked, Loaded
<1>4. ~Expired(fresh, answer)
  BY <1>3 DEF Expired
<1>5. QED
  BY <1>2, <1>3, <1>4, AfterProbeTyped

(* The fields as every step of the window leaves them.                     *)
GuiTyped == gui \in Fields /\ Linked(gui)

LEMMA GuiStep ==
  ASSUME SupervisorTypeOK, PairOrder, SupervisorNext
  PROVE  GuiTyped'
<1>1. GuiTyped /\ file \in Sessions /\ None \in Sessions
  BY DEF SupervisorTypeOK, GuiTyped, Linked, Sessions
<1>2. CASE Status \/ StartRefused \/ \E d \in Daemons : StartDraws(d)
  <2>1. PICK answer : gui' = AfterProbe(Reap(gui), answer)
    BY <1>2 DEF Status, StartRefused, StartDraws, Polled
  <2>2. QED
    BY <2>1, PollTyped DEF GuiTyped, Linked
<1>3. CASE Launch
  <2>1. pending \in Daemons
    BY <1>3 DEF Launch, PairOrder
  <2>2. gui' = AfterProbe([Loaded(pending) EXCEPT !.launcher = pending, !.age = "fresh"],
                          Answer(pending))
    BY <1>3 DEF Launch
  <2>3. QED
    BY <2>1, <2>2, LaunchTyped DEF GuiTyped, Linked
<1>4. CASE StopWithoutSession \/ StopStaleSession
  <2>1. PICK reply \in {"plain", "status"} :
           gui' = [gui EXCEPT !.session = None, !.reply = reply]
    BY <1>4 DEF StopWithoutSession, StopStaleSession, Rescue
  <2>2. gui' \in Fields
    BY <1>1, <2>1, FieldsChange DEF GuiTyped
  <2>3. gui'.session = None
    BY <1>1, <2>1 DEF GuiTyped, Fields
  <2>4. QED
    BY <2>2, <2>3 DEF GuiTyped, Linked
<1>5. CASE CloseSession
  <2>1. gui' = [gui EXCEPT !.launcher = None, !.session = None, !.age = "none",
                           !.reply = "status"]
    BY <1>5 DEF CloseSession
  <2>2. gui' \in Fields
    BY <1>1, <2>1, FieldsChange DEF GuiTyped
  <2>3. gui'.session = None
    BY <1>1, <2>1 DEF GuiTyped, Fields
  <2>4. QED
    BY <2>2, <2>3 DEF GuiTyped, Linked
<1>6. CASE \/ FoundClean \/ RescueGivesUp \/ RestoreRefused \/ Restored \/ PostGivesUp
           \/ GraceExpires
  <2>1. \/ gui' = [gui EXCEPT !.sticky = FALSE]
        \/ gui' = [gui EXCEPT !.sticky = TRUE]
        \/ gui' = [gui EXCEPT !.age = "old"]
    BY <1>6 DEF FoundClean, RescueGivesUp, RestoreRefused, Restored, PostGivesUp, GraceExpires,
       Reply
  <2>2. gui' \in Fields
    BY <1>1, <2>1, FieldsChange DEF GuiTyped
  <2>3. gui'.session = gui.session /\ gui'.launcher = gui.launcher
    BY <1>1, <2>1 DEF GuiTyped, Fields
  <2>4. QED
    BY <1>1, <2>2, <2>3 DEF GuiTyped, Linked
<1>7. CASE Reopen
  <2>1. gui' = Loaded(file)
    BY <1>7 DEF Reopen
  <2>2. Loaded(file) \in Fields /\ Loaded(file).launcher = None
    BY <1>1, LoadedTyped DEF Loaded
  <2>3. QED
    BY <2>1, <2>2 DEF GuiTyped, Linked
<1>8. CASE \/ LaunchFails \/ Post \/ PostReachesSquatter \/ FoundStranded
           \/ RestoreStranded \/ StopSession \/ RestoreButton \/ HelperStep
           \/ Bystanders \/ SquatterComes \/ SquatterLeaves
           \/ \E d \in Daemons : \/ PromptAccepted(d) \/ PromptRefused(d)
                                 \/ LaunchedStep(d) \/ LaunchedDies(d)
  <2>1. gui' = gui
    BY <1>8 DEF LaunchFails, Post, PostReachesSquatter, FoundStranded, RestoreStranded,
                StopSession, RestoreButton, HelperStep, Bystanders, SquatterComes,
                SquatterLeaves, PromptAccepted, PromptRefused, LaunchedStep, LaunchedDies,
                guiVars
  <2>2. QED
    BY <1>1, <2>1 DEF GuiTyped, Linked
<1>9. QED
  BY <1>2, <1>3, <1>4, <1>5, <1>6, <1>7, <1>8 DEF SupervisorNext, StopStep

(* What the supervisor does by itself leaves the daemons alone.            *)
LEMMA WindowKeeps ==
  ASSUME UNCHANGED vars
  PROVE  DaemonsStay
  BY DEF vars, procVars, DaemonsStay

(* A daemon that runs was let run.                                         *)
Accepted == \A d \in Daemons : pc[d] # "down" => prompt[d] = "accepted"

LEMMA PromptStepTyped ==
  ASSUME SupervisorInv, SupervisorNext
  PROVE  prompt' \in [Daemons -> Prompts] /\ Accepted'
<1>1. TypeOK /\ prompt \in [Daemons -> Prompts] /\ Accepted /\ Daemons \subseteq Procs
  BY DEF SupervisorInv, SupervisorTypeOK, Accepted, Procs
<1>2. CASE Launch
  <2>1. pending \in Daemons /\ prompt[pending] = "unused"
    BY <1>2 DEF SupervisorInv, PairOrder, Launch
  <2>2. prompt' = [prompt EXCEPT ![pending] = "open"] /\ UNCHANGED vars
    BY <1>2 DEF Launch
  <2>3. DaemonsStay
    BY <2>2, WindowKeeps
  <2>4. QED
    BY <1>1, <2>1, <2>2, <2>3 DEF Accepted, DaemonsStay, Prompts
<1>3. CASE CloseSession
  <2>1. DaemonsStay
    BY <1>3, WindowSteps, WindowKeeps
  <2>2. QED
    BY <1>1, <1>3, <2>1 DEF CloseSession, Accepted, DaemonsStay, Prompts
<1>4. ASSUME NEW d \in Daemons, PromptAccepted(d)
      PROVE  prompt' \in [Daemons -> Prompts] /\ Accepted'
  BY <1>1, <1>4 DEF PromptAccepted, Start, Step, Move, Accepted, Prompts, TypeOK
<1>5. ASSUME NEW d \in Daemons, PromptRefused(d)
      PROVE  prompt' \in [Daemons -> Prompts] /\ Accepted'
  <2>1. DaemonsStay
    BY <1>5, WindowSteps, WindowKeeps
  <2>2. QED
    BY <1>1, <1>5, <2>1 DEF PromptRefused, Accepted, DaemonsStay, Prompts
<1>6. ASSUME NEW d \in Daemons, LaunchedStep(d) \/ LaunchedDies(d)
      PROVE  prompt' \in [Daemons -> Prompts] /\ Accepted'
  <2>1. prompt' = prompt
    BY <1>6 DEF LaunchedStep, LaunchedDies, guiVars, surroundings
  <2>2. DaemonStep(d) \/ StageDisable(d) \/ BatchStep(d) \/ Kill(d)
    BY <1>6 DEF LaunchedStep, LaunchedDies
  <2>3. pc[d] # "down" /\ \A e \in Daemons \ {d} : pc'[e] = pc[e]
    BY <2>2, <1>1, OwnStep DEF SupervisorInv
  <2>4. QED
    BY <1>1, <2>1, <2>3 DEF Accepted
<1>7. CASE Post
  <2>1. prompt' = prompt /\ pc' = pc
    BY <1>7 DEF Post, PostStop, surroundings
  <2>2. QED
    BY <1>1, <2>1 DEF Accepted
<1>8. CASE RestoreStranded \/ RestoreButton \/ HelperStep \/ Bystanders
  <2>1. prompt' = prompt
    BY <1>8 DEF RestoreStranded, RestoreButton, HelperStep, Bystanders, guiVars, surroundings
  <2>2. DaemonsStay
    BY <1>1, <1>8, HelperKeeps, BystandersKeep
  <2>3. QED
    BY <1>1, <2>1, <2>2 DEF Accepted, DaemonsStay
<1>9. CASE \/ Status \/ StartRefused \/ (\E d \in Daemons : StartDraws(d)) \/ LaunchFails
           \/ StopWithoutSession \/ StopStaleSession \/ StopSession
           \/ PostReachesSquatter \/ PostGivesUp \/ FoundClean \/ RescueGivesUp
           \/ RestoreRefused \/ FoundStranded \/ Restored
           \/ GraceExpires \/ Reopen \/ SquatterComes \/ SquatterLeaves
  <2>1. prompt' = prompt
    BY <1>9 DEF Status, StartRefused, StartDraws, LaunchFails, StopWithoutSession,
                StopStaleSession, StopSession, PostReachesSquatter, PostGivesUp, FoundClean,
                RescueGivesUp, RestoreRefused,
                FoundStranded, Restored, GraceExpires, Reopen, SquatterComes, SquatterLeaves,
                surroundings
  <2>2. DaemonsStay
    BY <1>9, WindowSteps, WindowKeeps
  <2>3. QED
    BY <1>1, <2>1, <2>2 DEF Accepted, DaemonsStay
<1>10. QED
  BY <1>2, <1>3, <1>4, <1>5, <1>6, <1>7, <1>8, <1>9 DEF SupervisorNext, StopStep

(* The rest of the window's state.                                         *)
RestTyped ==
  /\ file \in Sessions
  /\ squatted \in BOOLEAN
  /\ cmd \in Commands
  /\ pending \in Sessions
  /\ batch \in {"none", "running", "ok", "failed"}
  /\ shown \in States
  /\ detail \in BOOLEAN
  /\ banner \in BOOLEAN

LEMMA RestStep ==
  ASSUME SupervisorTypeOK, SupervisorNext
  PROVE  RestTyped'
<1>1. RestTyped /\ None \in Sessions /\ Daemons \subseteq Sessions /\ gui.sticky \in BOOLEAN
  BY DEF SupervisorTypeOK, RestTyped, Sessions, Fields
<1>2. ASSUME NEW state \in States, NEW error \in BOOLEAN, Show(state, error)
      PROVE  shown' \in States /\ detail' \in BOOLEAN /\ banner' \in BOOLEAN
  BY <1>2 DEF Show
<1>3. ASSUME NEW error \in BOOLEAN, Reply(error)
      PROVE  /\ shown' \in States /\ detail' \in BOOLEAN /\ banner' \in BOOLEAN
             /\ cmd' = "idle"
  <2>1. (IF gui.reply = "status" /\ error THEN "failed" ELSE "stopped") \in States
    BY DEF States
  <2>2. QED
    BY <1>2, <1>3, <2>1 DEF Reply
<1>4. CASE Status \/ Launch \/ Reopen
  <2>1. PICK state \in States, error \in BOOLEAN : Show(state, error)
    BY <1>4, StateOfTyped DEF Status, Launch, Reopen, States
  <2>2. shown' \in States /\ detail' \in BOOLEAN /\ banner' \in BOOLEAN
    BY <1>2, <2>1
  <2>3. /\ file' \in {file, None} /\ squatted' = squatted /\ batch' = batch
        /\ cmd' \in {cmd, "idle"} /\ pending' \in {pending, None}
    BY <1>4 DEF Status, Launch, Reopen, Polled, surroundings
  <2>4. QED
    BY <1>1, <2>2, <2>3 DEF RestTyped, Commands
<1>5. CASE FoundClean \/ RescueGivesUp \/ RestoreRefused \/ Restored
  <2>1. PICK error \in BOOLEAN : Reply(error)
    BY <1>1, <1>5 DEF FoundClean, RescueGivesUp, RestoreRefused, Restored
  <2>2. /\ file' = file /\ squatted' = squatted /\ batch' \in {batch, "none"}
        /\ pending' = pending
    BY <1>5 DEF FoundClean, RescueGivesUp, RestoreRefused, Restored, surroundings
  <2>3. QED
    BY <1>1, <1>3, <2>1, <2>2 DEF RestTyped, Commands
<1>6. CASE \/ (\E d \in Daemons : StartDraws(d)) \/ StartRefused \/ LaunchFails
           \/ StopWithoutSession \/ StopStaleSession \/ StopSession
           \/ Post \/ PostReachesSquatter \/ PostGivesUp \/ CloseSession \/ FoundStranded
           \/ GraceExpires \/ SquatterComes \/ SquatterLeaves
  <2>1. UNCHANGED <<windowVars, batch>>
    BY <1>6 DEF StartDraws, StartRefused, LaunchFails, StopWithoutSession, StopStaleSession,
                StopSession, Post, PostReachesSquatter, PostGivesUp, CloseSession,
                FoundStranded, GraceExpires, SquatterComes, SquatterLeaves
  <2>2. file' \in {file, None} \cup Daemons /\ pending' \in {pending, None} \cup Daemons
    BY <1>6 DEF StartDraws, StartRefused, Polled, LaunchFails, StopWithoutSession,
                StopStaleSession, StopSession, Post, PostReachesSquatter, PostGivesUp,
                CloseSession, FoundStranded, GraceExpires, SquatterComes, SquatterLeaves
  <2>3. /\ squatted' \in {squatted, TRUE, FALSE}
        /\ cmd' \in {cmd, "idle", "trusting", "posting", "closing", "rescuing", "stranded"}
    BY <1>6 DEF StartDraws, StartRefused, LaunchFails, StopWithoutSession,
                StopStaleSession, StopSession, Rescue, Post, PostReachesSquatter, PostGivesUp,
                CloseSession, FoundStranded, GraceExpires, SquatterComes, SquatterLeaves,
                surroundings
  <2>4. QED
    BY <1>1, <2>1, <2>2, <2>3 DEF RestTyped, Commands, windowVars
<1>7. CASE RestoreStranded \/ RestoreButton \/ HelperStep
  <2>1. /\ UNCHANGED <<file, squatted, pending, shown, detail>>
        /\ banner' \in {banner, FALSE} /\ cmd' \in {cmd, "restoring"}
        /\ batch' \in {batch, "none", "running", "ok", "failed"}
    BY <1>7 DEF RestoreStranded, RestoreButton, HelperStep, Reported, surroundings, windowVars
  <2>2. QED
    BY <1>1, <2>1 DEF RestTyped, Commands
<1>8. CASE \/ Bystanders
           \/ \E d \in Daemons : \/ PromptAccepted(d) \/ PromptRefused(d)
                                 \/ LaunchedStep(d) \/ LaunchedDies(d)
  <2>1. UNCHANGED <<file, squatted, cmd, pending, batch, windowVars>>
    BY <1>8 DEF Bystanders, PromptAccepted, PromptRefused, LaunchedStep, LaunchedDies,
                guiVars, surroundings
  <2>2. QED
    BY <1>1, <2>1 DEF RestTyped, windowVars
<1>9. QED
  BY <1>4, <1>5, <1>6, <1>7, <1>8 DEF SupervisorNext, StopStep

(* Every step keeps the window's state well formed.                        *)
LEMMA TypeStep ==
  ASSUME SupervisorInv, TypeOK', SupervisorNext, Remember
  PROVE  SupervisorTypeOK'
<1>1. GuiTyped' /\ RestTyped'
  BY GuiStep, RestStep DEF SupervisorInv
<1>2. prompt' \in [Daemons -> Prompts] /\ Accepted'
  BY PromptStepTyped
<1>3. overtaken' \subseteq Daemons
  BY DEF Remember, ComingUp, SupervisorInv, SupervisorTypeOK
<1>4. QED
  BY <1>1, <1>2, <1>3 DEF GuiTyped, RestTyped, Accepted, Linked, SupervisorTypeOK

(* What can become of a daemon's channel in one step of the system.        *)
LEMMA ChannelStep ==
  ASSUME SupervisorInv, SupervisorNext
  PROVE  \A d \in Daemons :
           /\ ctl'[d] # "closed" => pc'[d] \in PastReady
           /\ Alive(d)' => Alive(d) \/ (Launch /\ d = pending)
<1>1. /\ TypeOK /\ prompt \in [Daemons -> Prompts] /\ Accepted /\ ChannelOrder
      /\ Daemons \subseteq Procs
  BY DEF SupervisorInv, SupervisorTypeOK, Accepted, Procs
<1> DEFINE Follows(d) == /\ ctl'[d] # "closed" => pc'[d] \in PastReady
                         /\ Alive(d)' => Alive(d) \/ (Launch /\ d = pending)
<1>2. ASSUME DaemonsStay, NEW d \in Daemons,
             \/ prompt'[d] = prompt[d] \/ prompt'[d] \in {"cancelled", "refused"}
             \/ Launch /\ d = pending
      PROVE  Follows(d)
  BY <1>1, <1>2 DEF DaemonsStay, ChannelOrder, Alive, ComingUp
<1>3. ASSUME NEW d \in Daemons, LaunchedStep(d) \/ LaunchedDies(d), NEW e \in Daemons
      PROVE  Follows(e)
  <2>1. prompt' = prompt
    BY <1>3 DEF LaunchedStep, LaunchedDies, guiVars, surroundings
  <2>2. DaemonStep(d) \/ StageDisable(d) \/ BatchStep(d) \/ Kill(d)
    BY <1>3 DEF LaunchedStep, LaunchedDies
  <2>3. /\ \A c \in Daemons \ {d} : pc'[c] = pc[c] /\ ctl'[c] = ctl[c]
        /\ pc[d] # "down"
        /\ ctl'[d] = "open" => ctl[d] \in {"open", "closed"}
        /\ ctl'[d] = "closed" /\ pc'[d] # "down" => ctl[d] = "closed"
        /\ ctl'[d] # "closed" => pc'[d] \in PastReady
    BY <1>1, <2>2, OwnStep
  <2>4. CASE e = d
    BY <1>1, <2>1, <2>3, <2>4 DEF Accepted, Alive, ComingUp
  <2>5. CASE e # d
    BY <1>1, <2>1, <2>3, <2>5 DEF ChannelOrder, Alive, ComingUp
  <2>6. QED
    BY <2>4, <2>5
<1>4. ASSUME NEW d \in Daemons, PromptAccepted(d), NEW e \in Daemons
      PROVE  Follows(e)
  <2>1. /\ prompt[d] = "open" /\ prompt' = [prompt EXCEPT ![d] = "accepted"]
        /\ pc' = [pc EXCEPT ![d] = "booting"] /\ pc[d] = "down" /\ ctl' = ctl
    BY <1>4 DEF PromptAccepted, Start, Step, Move
  <2>2. ctl[d] = "closed"
    BY <1>1, <2>1 DEF ChannelOrder, PastReady
  <2>3. CASE e = d
    BY <1>1, <2>1, <2>2, <2>3 DEF Alive, ComingUp
  <2>4. CASE e # d
    BY <1>1, <2>1, <2>4 DEF TypeOK, ChannelOrder, Alive, ComingUp
  <2>5. QED
    BY <2>3, <2>4
<1>5. ASSUME Post, NEW e \in Daemons
      PROVE  Follows(e)
  <2>1. PICK d \in Daemons : PostStop(d) /\ prompt' = prompt
    BY <1>5 DEF Post, surroundings
  <2>2. pc' = pc /\ ctl[d] = "open" /\ ctl' = [ctl EXCEPT ![d] = "draining"]
    BY <2>1 DEF PostStop
  <2>3. QED
    BY <1>1, <2>1, <2>2 DEF TypeOK, ChannelOrder, Alive, ComingUp
<1>6. ASSUME RestoreStranded \/ RestoreButton \/ HelperStep \/ Bystanders, NEW e \in Daemons
      PROVE  Follows(e)
  <2>1. prompt' = prompt
    BY <1>6 DEF RestoreStranded, RestoreButton, HelperStep, Bystanders, guiVars, surroundings
  <2>2. DaemonsStay
    BY <1>1, <1>6, HelperKeeps, BystandersKeep
  <2>3. QED
    BY <1>2, <2>1, <2>2
<1>7. ASSUME \/ Status \/ StartRefused \/ (\E d \in Daemons : StartDraws(d) \/ PromptRefused(d))
             \/ Launch \/ LaunchFails
             \/ StopWithoutSession \/ StopStaleSession \/ StopSession
             \/ PostReachesSquatter \/ PostGivesUp \/ CloseSession
             \/ FoundClean \/ RescueGivesUp \/ RestoreRefused \/ FoundStranded \/ Restored
             \/ GraceExpires \/ Reopen
             \/ SquatterComes \/ SquatterLeaves,
             NEW e \in Daemons
      PROVE  Follows(e)
  <2>1. DaemonsStay
    BY <1>7, WindowSteps, WindowKeeps
  <2>2. \/ prompt'[e] = prompt[e] \/ prompt'[e] \in {"cancelled", "refused"}
        \/ Launch /\ e = pending
    BY <1>1, <1>7 DEF Status, StartRefused, StartDraws, PromptRefused, Launch, LaunchFails,
                StopWithoutSession, StopStaleSession, StopSession, PostReachesSquatter,
                PostGivesUp, CloseSession, FoundClean, RescueGivesUp, RestoreRefused,
                FoundStranded, Restored, GraceExpires,
                Reopen, SquatterComes, SquatterLeaves, surroundings
  <2>3. QED
    BY <1>2, <2>1, <2>2
<1>8. QED
  BY <1>3, <1>4, <1>5, <1>6, <1>7 DEF SupervisorNext, StopStep

(* What answers is seen to answer, and what comes up is not told to have   *)
(* been refused.                                                           *)
LEMMA AliveIsSeen ==
  ASSUME SupervisorInv, NEW d \in Daemons, Alive(d), gui.session = d
  PROVE  /\ ~Refused(gui) /\ Reap(gui).session = d
         /\ prompt[d] \in {"open", "accepted"}
         /\ ctl[d] = "open" => Answer(d) = "some"
         /\ \A answer : AfterProbe(Reap(gui), answer).session = d
                        \/ Expired(Reap(gui), answer)
<1>1. gui \in Fields /\ Linked(gui) /\ Accepted /\ ChannelOrder /\ d # None
  BY HelperAssumption DEF SupervisorInv, SupervisorTypeOK, Linked, Accepted, Procs
<1>2. prompt[d] \in {"open", "accepted"}
  BY <1>1 DEF Alive, ComingUp, ChannelOrder, PastReady, Accepted
<1>3. ~Refused(gui)
  BY <1>1, <1>2 DEF Refused, Linked
<1>4. Reap(gui) \in Fields /\ Linked(Reap(gui)) /\ Reap(gui).session = d
  BY <1>1, <1>3, ReapTyped
<1>5. ctl[d] = "open" => Answer(d) = "some"
  BY <1>1 DEF Answer
<1>6. \A answer : AfterProbe(Reap(gui), answer).session = d \/ Expired(Reap(gui), answer)
  BY <1>4, AfterProbeTyped
<1>7. QED
  BY <1>2, <1>3, <1>4, <1>5, <1>6

(* The launch a step leaves to the window is still in its hands, on file,  *)
(* and not being given up on.                                              *)
Held(d) == file' = d /\ gui'.session = d /\ cmd' # "closing"

(* Overtaking a launch that comes up is remembered.                        *)
LEMMA NotOvertaken ==
  ASSUME SupervisorInv, Remember, NEW d \in Daemons, Alive(d), d \notin overtaken'
  PROVE  /\ file = d /\ gui.session = d /\ cmd # "closing" /\ d # None
         /\ ctl[d] = "open" \/ (file' = file /\ ~(cmd = "posting" /\ cmd' = "closing"))
<1>1. d \notin overtaken
  BY DEF Remember
<1>2. file = d /\ gui.session = d /\ cmd # "closing" /\ d # None
  BY <1>1, HelperAssumption DEF SupervisorInv, PairOrder, Procs
<1>3. CASE ctl[d] # "open"
  <2>1. d \in ComingUp
    BY <1>3 DEF Alive
  <2>2. QED
    BY <2>1, <1>2 DEF Remember
<1>4. QED
  BY <1>2, <1>3

LEMMA HoldStep ==
  ASSUME SupervisorInv, SupervisorNext, Remember,
         NEW d \in Daemons, Alive(d)', d \notin overtaken'
  PROVE  Held(d)
<1>1. CASE Launch
  <2>1. cmd = "trusting" /\ pending \in Daemons /\ file = pending
    BY <1>1 DEF Launch, SupervisorInv, PairOrder
  <2>2. gui'.session = pending /\ file' = file /\ cmd' = "idle"
    BY <1>1, <2>1, LaunchTyped DEF Launch
  <2>3. d = pending
    <3>1. CASE Alive(d)
      BY <2>1, <3>1, NotOvertaken
    <3>2. CASE ~Alive(d)
      BY <3>2, ChannelStep
    <3>3. QED
      BY <3>1, <3>2
  <2>4. QED
    BY <2>1, <2>2, <2>3 DEF Held
<1>2. CASE ~Launch
  <2>1. Alive(d)
    BY <1>2, ChannelStep
  <2>2. /\ file = d /\ gui.session = d /\ cmd # "closing" /\ d # None
        /\ ctl[d] = "open" \/ (file' = file /\ ~(cmd = "posting" /\ cmd' = "closing"))
    BY <2>1, NotOvertaken
  <2>3. /\ ~Refused(gui) /\ Reap(gui).session = d
        /\ prompt[d] \in {"open", "accepted"}
        /\ ctl[d] = "open" => Answer(d) = "some"
        /\ \A answer : AfterProbe(Reap(gui), answer).session = d
                       \/ Expired(Reap(gui), answer)
    BY <2>1, <2>2, AliveIsSeen
  <2>4. gui \in Fields
    BY DEF SupervisorInv, SupervisorTypeOK
  <2>5. CASE Status \/ StartRefused
    <3>1. Polled(gui, Answer(d)) /\ cmd' = cmd
      BY <2>3, <2>5 DEF Status, StartRefused
    <3>2. ~Expired(Reap(gui), Answer(d))
      BY <2>2, <2>3, <3>1 DEF Polled, Expired
    <3>3. QED
      BY <2>2, <2>3, <3>1, <3>2 DEF Polled, Held
  <2>6. ASSUME NEW e \in Daemons, StartDraws(e)
        PROVE  Held(d)
    <3>1. prompt[e] = "unused" /\ file' = e /\ StateOf(Reap(gui), Answer(d)) # "running"
      BY <2>3, <2>6 DEF StartDraws
    <3>2. ctl[d] # "open"
      BY <2>2, <2>3, <3>1 DEF StateOf
    <3>3. QED
      BY <2>2, <2>3, <3>1, <3>2
  <2>7. CASE StopStaleSession \/ StopWithoutSession
    BY <2>2, <2>3, <2>7 DEF StopStaleSession, StopWithoutSession
  <2>8. CASE Post
    <3>1. ctl'[d] = "draining" /\ pc' = pc /\ prompt' = prompt
      BY <2>2, <2>8 DEF Post, PostStop, SupervisorInv, SupervisorTypeOK, TypeOK, Procs,
         surroundings
    <3>2. pc[d] # "down"
      BY <2>2, <2>8 DEF Post, PostStop, SupervisorInv, ChannelOrder, PastReady
    <3>3. prompt[d] = "accepted"
      BY <3>2 DEF SupervisorInv, SupervisorTypeOK
    <3>4. QED
      BY <3>1, <3>3 DEF Alive, ComingUp
  <2>9. CASE PostReachesSquatter \/ PostGivesUp
    BY <2>2, <2>3, <2>9 DEF PostReachesSquatter, PostGivesUp
  <2>10. CASE CloseSession
    BY <2>2, <2>10 DEF CloseSession
  <2>11. CASE Reopen
    BY <2>2, <2>11 DEF Reopen, Loaded, Held
  <2>12. CASE \/ LaunchFails \/ FoundClean \/ RescueGivesUp \/ RestoreRefused
              \/ FoundStranded \/ RestoreStranded \/ Restored
              \/ StopSession \/ RestoreButton \/ HelperStep \/ GraceExpires
              \/ Bystanders \/ SquatterComes \/ SquatterLeaves
              \/ \E e \in Daemons : \/ PromptAccepted(e) \/ PromptRefused(e)
                                    \/ LaunchedStep(e) \/ LaunchedDies(e)
    <3>1. /\ file' = file /\ cmd' \in {cmd, "idle", "posting", "stranded", "restoring"}
          /\ \/ gui' = gui
             \/ gui' = [gui EXCEPT !.sticky = FALSE]
             \/ gui' = [gui EXCEPT !.age = "old"]
      BY <2>12 DEF LaunchFails, FoundClean, RescueGivesUp, RestoreRefused, FoundStranded,
         RestoreStranded, Restored, Reply,
                   StopSession, RestoreButton, HelperStep, GraceExpires, Bystanders,
                   SquatterComes, SquatterLeaves, PromptAccepted, PromptRefused, LaunchedStep,
                   LaunchedDies, guiVars
    <3>2. gui'.session = gui.session
      BY <2>4, <3>1 DEF Fields
    <3>3. QED
      BY <2>2, <3>1, <3>2 DEF Held
  <2>13. QED
    BY <1>2, <2>5, <2>6, <2>7, <2>8, <2>9, <2>10, <2>11, <2>12 DEF SupervisorNext, StopStep
<1>3. QED
  BY <1>1, <1>2

(* A start that waits for the root to be trusted keeps what it has drawn.  *)
LEMMA DrawnStep ==
  ASSUME SupervisorInv, SupervisorNext, cmd' = "trusting"
  PROVE  pending' \in Daemons /\ file' = pending' /\ prompt'[pending'] = "unused"
<1>1. CASE \E d \in Daemons : StartDraws(d)
  BY <1>1 DEF StartDraws, surroundings
<1>2. CASE ~\E d \in Daemons : StartDraws(d)
  <2>1. /\ cmd = "trusting" /\ pending' = pending /\ file' = file
        /\ \/ prompt' = prompt
           \/ \E d \in Daemons : /\ prompt[d] = "open"
                                 /\ \E p \in Prompts : prompt' = [prompt EXCEPT ![d] = p]
    BY <1>2 DEF SupervisorNext, StopStep, Status, StartRefused, Launch, LaunchFails, Post,
                PostReachesSquatter, PostGivesUp, CloseSession, FoundClean, RescueGivesUp,
                RestoreRefused, FoundStranded,
                RestoreStranded, Restored, Reply, StopWithoutSession, StopStaleSession,
                StopSession, Rescue, RestoreButton, HelperStep, GraceExpires, Reopen,
                Bystanders, SquatterComes, SquatterLeaves, PromptAccepted, PromptRefused,
                LaunchedStep, LaunchedDies, guiVars, surroundings, Prompts
  <2>2. /\ pending \in Daemons /\ file = pending /\ prompt[pending] = "unused"
        /\ prompt \in [Daemons -> Prompts]
    BY <2>1 DEF SupervisorInv, PairOrder, SupervisorTypeOK
  <2>3. QED
    BY <2>1, <2>2
<1>3. QED
  BY <1>1, <1>2

(* The inductive invariant.                                                *)
LEMMA SupervisorInvHolds == SupervisorSpec => []SupervisorInv
<1>1. SupervisorInit /\ TypeOK => SupervisorInv
  <2>1. ASSUME SupervisorInit, TypeOK PROVE SupervisorInv
    <3>1. None \in Sessions /\ Loaded(None) \in Fields
      BY LoadedTyped DEF Sessions
    <3>2. \A d \in Daemons : ctl[d] = "closed" /\ pc[d] = "down" /\ prompt[d] = "unused"
      BY <2>1 DEF SupervisorInit, Init, Procs
    <3>3. SupervisorTypeOK
      BY <2>1, <3>1, <3>2 DEF SupervisorInit, SupervisorTypeOK, Prompts, Commands, States, Loaded
    <3>4. ChannelOrder /\ PairOrder
      BY <2>1, <3>2 DEF SupervisorInit, ChannelOrder, PairOrder, Alive, ComingUp
    <3>5. QED
      BY <3>3, <3>4 DEF SupervisorInv
  <2>2. QED
    BY <2>1
<1>2. SupervisorInv /\ TypeOK' /\ [SupervisorNext /\ Remember]_<<allVars, overtaken>>
        => SupervisorInv'
  <2>1. ASSUME SupervisorInv, TypeOK', SupervisorNext, Remember
        PROVE  SupervisorInv'
    <3>1. SupervisorTypeOK'
      BY <2>1, TypeStep
    <3>2. ChannelOrder'
      BY <2>1, ChannelStep DEF ChannelOrder
    <3>3. \A d \in Daemons : Alive(d)' /\ d \notin overtaken' => Held(d)
      BY <2>1, HoldStep
    <3>4. PairOrder'
      BY <2>1, <3>3, DrawnStep DEF PairOrder, Held
    <3>5. QED
      BY <3>1, <3>2, <3>4 DEF SupervisorInv
  <2>2. ASSUME SupervisorInv, UNCHANGED <<allVars, overtaken>>
        PROVE  SupervisorInv'
    BY <2>2 DEF allVars, vars, procVars, fileVars, userVars, guiVars, surroundings, windowVars,
                SupervisorInv, SupervisorTypeOK, TypeOK, ChannelOrder, PairOrder, Alive, ComingUp
  <2>3. QED
    BY <2>1, <2>2
<1>3. SupervisorSpec => []TypeOK
  BY SupervisionImplementsLifecycle, TypeCorrect DEF ImplementsLifecycle
<1>4. QED
  BY <1>1, <1>2, <1>3, PTL DEF SupervisorSpec

(* The window's fields stay well formed, its launcher is the one its       *)
(* session was drawn for, and no daemon runs whose prompt was not accepted *)
(* (daemon.rs:579-600, 902-966).                                           *)
THEOREM SupervisorTypeCorrect == SupervisorSpec => []SupervisorTypeOK
<1>1. SupervisorInv => SupervisorTypeOK
  BY DEF SupervisorInv
<1>2. QED
  BY <1>1, SupervisorInvHolds, PTL

(* With any number of launches, a daemon that answers and that the session *)
(* file does not name was overtaken while it came up (daemon.rs:684-757).  *)
THEOREM OrphansNeedOvertaking == SupervisorSpec => []OrphansWereOvertaken
<1>1. SupervisorInv => OrphansWereOvertaken
  BY DEF SupervisorInv, PairOrder, Alive, OrphansWereOvertaken
<1>2. QED
  BY <1>1, SupervisorInvHolds, PTL

-----------------------------------------------------------------------------
(* A stop that shows no error, with one launch.                            *)

(* The daemon that was launched is past its enable batch's staging.        *)
Past(d) == prompt[d] = "accepted" /\ pc[d] # "booting"

(* Our block has been somewhere, or is being put back.                     *)
Touched ==
  hosts.block \/ staged.block \/ banner \/ cmd = "stranded" \/ pc[Helper] # "down" \/ batch = "ok"

(* Nobody stages our block any more once a restore can have begun: what it *)
(* installs has no block, and nothing it left behind has one.              *)
CalmInv ==
  /\ Touched => \A d \in Daemons : Past(d)
  /\ pc[Helper] = "disabling" => ~staged.block
  /\ pc[Helper] = "unflushing" \/ batch = "ok" => ~staged.block /\ ~hosts.block

LEMMA PastStays ==
  ASSUME SupervisorInv, SupervisorNext, NEW d \in Daemons, Past(d)
  PROVE  Past(d)'
<1>1. TypeOK /\ prompt \in [Daemons -> Prompts] /\ d \in Procs /\ Helper # d /\ Helper \in Procs
  BY ProcsAssumption, HelperAssumption DEF SupervisorInv, SupervisorTypeOK, Procs
<1>2. prompt'[d] = "accepted"
  <2>1. CASE Launch
    <3>1. pending \in Daemons /\ prompt[pending] = "unused"
      BY <2>1 DEF Launch, SupervisorInv, PairOrder
    <3>2. QED
      BY <1>1, <2>1, <3>1 DEF Launch, Past
  <2>2. CASE CloseSession
    BY <1>1, <2>2 DEF CloseSession, Past
  <2>3. ASSUME NEW e \in Daemons, PromptAccepted(e) \/ PromptRefused(e)
        PROVE  prompt'[d] = "accepted"
    BY <1>1, <2>3 DEF PromptAccepted, PromptRefused, Past
  <2>4. ASSUME NEW e \in Daemons, StartDraws(e) \/ LaunchedStep(e) \/ LaunchedDies(e)
        PROVE  prompt' = prompt
    BY <2>4 DEF StartDraws, LaunchedStep, LaunchedDies, guiVars, surroundings
  <2>5. CASE \/ Status \/ StartRefused \/ LaunchFails \/ Post \/ PostReachesSquatter
             \/ PostGivesUp
             \/ FoundClean \/ RescueGivesUp \/ RestoreRefused \/ FoundStranded
             \/ RestoreStranded \/ Restored \/ StopWithoutSession
             \/ StopStaleSession \/ StopSession \/ RestoreButton \/ HelperStep \/ GraceExpires
             \/ Reopen \/ Bystanders \/ SquatterComes \/ SquatterLeaves
    <3>1. prompt' = prompt
      BY <2>5 DEF Status, StartRefused, LaunchFails, Post, PostReachesSquatter, PostGivesUp,
                  FoundClean, RescueGivesUp, RestoreRefused, FoundStranded, RestoreStranded,
                  Restored, StopWithoutSession,
                  StopStaleSession, StopSession, RestoreButton, HelperStep, GraceExpires, Reopen,
                  Bystanders, SquatterComes, SquatterLeaves, guiVars, surroundings
    <3>2. QED
      BY <3>1 DEF Past
  <2>6. QED
    BY <2>1, <2>2, <2>3, <2>4, <2>5 DEF SupervisorNext, StopStep, Past
<1>3. pc'[d] # "booting"
  <2>1. ASSUME NEW e \in Daemons, PromptAccepted(e)
        PROVE  pc'[d] # "booting"
    <3>1. prompt[e] = "open" /\ pc' = [pc EXCEPT ![e] = "booting"]
      BY <2>1 DEF PromptAccepted, Start, Step, Move
    <3>2. e # d
      BY <3>1 DEF Past
    <3>3. QED
      BY <1>1, <3>1, <3>2 DEF TypeOK, Past
  <2>2. ASSUME NEW e \in Daemons, LaunchedStep(e) \/ LaunchedDies(e)
        PROVE  pc'[d] # "booting"
    <3>1. DaemonStep(e) \/ StageDisable(e) \/ BatchStep(e) \/ Kill(e)
      BY <2>2 DEF LaunchedStep, LaunchedDies
    <3>2. \E to \in Steps \ {"booting"} : pc' = [pc EXCEPT ![e] = to]
      BY <3>1 DEF DaemonStep, BatchStep, BootFails, StageEnable, InstallEnable, FlushEnable,
                  EnableFails, CheckResolver, ReloadResolver, Recheck, BindControl,
                  BindControlFails, BindListener, BindListenerFails, Shutdown, StageDisable,
                  InstallDisable, FlushDisable, DisableFails, Kill, Exit, Step, Install, Move,
                  Steps, Owing, Enabled
    <3>3. QED
      BY <1>1, <3>2 DEF TypeOK, Past
  <2>3. CASE RestoreStranded \/ RestoreButton \/ HelperStep \/ Bystanders
    <3>1. DaemonsStay
      BY <1>1, <2>3, HelperKeeps, BystandersKeep
    <3>2. QED
      BY <3>1 DEF DaemonsStay, Past
  <2>4. CASE Post
    BY <2>4 DEF Post, PostStop, Past
  <2>5. CASE \/ Status \/ StartRefused \/ (\E e \in Daemons : StartDraws(e) \/ PromptRefused(e))
             \/ Launch \/ LaunchFails
             \/ StopWithoutSession \/ StopStaleSession \/ StopSession
             \/ PostReachesSquatter \/ PostGivesUp \/ CloseSession
             \/ FoundClean \/ RescueGivesUp \/ RestoreRefused \/ FoundStranded \/ Restored
             \/ GraceExpires \/ Reopen
             \/ SquatterComes \/ SquatterLeaves
    <3>1. pc' = pc
      BY <2>5, WindowSteps DEF vars, procVars
    <3>2. QED
      BY <3>1 DEF Past
  <2>6. QED
    BY <2>1, <2>2, <2>3, <2>4, <2>5 DEF SupervisorNext, StopStep
<1>4. QED
  BY <1>2, <1>3 DEF Past

(* A step that adds no block anywhere and leaves the restore batch alone.  *)
Clears ==
  /\ hosts'.block => hosts.block \/ staged.block
  /\ staged'.block => staged.block
  /\ pc'[Helper] = pc[Helper]
  /\ banner' => banner \/ hosts.block
  /\ cmd' = "stranded" => cmd = "stranded" \/ hosts.block
  /\ batch' = "ok" => batch = "ok"

LEMMA ClearsCalm ==
  ASSUME SupervisorInv, CalmInv, SupervisorNext, Clears
  PROVE  CalmInv'
<1>1. Touched' => Touched
  BY DEF Touched, Clears
<1>2. Touched' => \A d \in Daemons : Past(d)'
  BY <1>1, PastStays DEF CalmInv
<1>3. QED
  BY <1>2 DEF CalmInv, Clears

(* What a launched daemon does to the two files, but for staging our block.*)
LEMMA DaemonClears ==
  ASSUME SupervisorTypeOK, NEW d \in Daemons, LaunchedStep(d) \/ LaunchedDies(d)
  PROVE  StageEnable(d) \/ Clears
<1>1. TypeOK /\ d \in Procs /\ Helper # d /\ Helper \in Procs
  BY ProcsAssumption, HelperAssumption DEF SupervisorTypeOK, Procs
<1>2. UNCHANGED <<banner, cmd, batch>>
  BY DEF LaunchedStep, LaunchedDies, guiVars, windowVars
<1>3. CASE \/ BootFails(d) \/ FlushEnable(d) \/ EnableFails(d) \/ CheckResolver(d)
           \/ ReloadResolver(d) \/ Recheck(d) \/ BindControl(d) \/ BindControlFails(d)
           \/ BindListener(d) \/ BindListenerFails(d) \/ Shutdown(d)
           \/ FlushDisable(d) \/ DisableFails(d) \/ Kill(d)
  <2>1. UNCHANGED <<hosts, staged>> /\ \E to : pc' = [pc EXCEPT ![d] = to]
    BY <1>3 DEF BootFails, FlushEnable, EnableFails, CheckResolver, ReloadResolver, Recheck,
                BindControl, BindControlFails, BindListener, BindListenerFails, Shutdown,
                FlushDisable, DisableFails, Kill, Exit, Step, Move, fileVars
  <2>2. QED
    BY <1>1, <1>2, <2>1 DEF Clears, TypeOK
<1>4. CASE InstallEnable(d) \/ InstallDisable(d)
  <2>1. hosts' = staged /\ staged' = staged /\ \E to : pc' = [pc EXCEPT ![d] = to]
    BY <1>4 DEF InstallEnable, InstallDisable, Install, Move
  <2>2. QED
    BY <1>1, <1>2, <2>1 DEF Clears, TypeOK
<1>5. CASE StageDisable(d)
  <2>1. hosts' = hosts /\ staged' = Strip(hosts) /\ \E to : pc' = [pc EXCEPT ![d] = to]
    BY <1>5 DEF StageDisable
  <2>2. ~staged'.block
    BY <1>1, <2>1 DEF Strip, TypeOK, HostsFile
  <2>3. QED
    BY <1>1, <1>2, <2>1, <2>2 DEF Clears, TypeOK
<1>6. QED
  BY <1>3, <1>4, <1>5 DEF LaunchedStep, LaunchedDies, DaemonStep, BatchStep

LEMMA WindowClears ==
  ASSUME \/ Status \/ StartRefused \/ (\E d \in Daemons : StartDraws(d) \/ PromptRefused(d))
         \/ Launch \/ LaunchFails
         \/ StopWithoutSession \/ StopStaleSession \/ StopSession
         \/ PostReachesSquatter \/ PostGivesUp \/ CloseSession
         \/ FoundClean \/ RescueGivesUp \/ RestoreRefused \/ FoundStranded \/ Restored
         \/ GraceExpires \/ Reopen
         \/ SquatterComes \/ SquatterLeaves
  PROVE  Clears
<1>1. UNCHANGED <<hosts, staged, pc>>
  BY WindowSteps DEF vars, procVars, fileVars
<1>2. banner' => banner \/ hosts.block
  BY DEF Status, StartRefused, StartDraws, PromptRefused, Launch, LaunchFails, StopWithoutSession,
         StopStaleSession, StopSession, PostReachesSquatter, PostGivesUp,
         CloseSession, FoundClean, RescueGivesUp, RestoreRefused, FoundStranded, Restored,
         GraceExpires, Reopen,
         SquatterComes, SquatterLeaves, Show, Reply, windowVars
<1>3. cmd' = "stranded" => cmd = "stranded" \/ hosts.block
  BY DEF Status, StartRefused, StartDraws, PromptRefused, Launch, LaunchFails, StopWithoutSession,
         StopStaleSession, StopSession, PostReachesSquatter, PostGivesUp,
         CloseSession, FoundClean, RescueGivesUp, RestoreRefused, FoundStranded, Restored,
         GraceExpires, Reopen,
         SquatterComes, SquatterLeaves, Rescue, Reply
<1>4. batch' = "ok" => batch = "ok"
  BY DEF Status, StartRefused, StartDraws, PromptRefused, Launch, LaunchFails, StopWithoutSession,
         StopStaleSession, StopSession, PostReachesSquatter, PostGivesUp,
         CloseSession, FoundClean, RescueGivesUp, RestoreRefused, FoundStranded, Restored,
         GraceExpires, Reopen,
         SquatterComes, SquatterLeaves
<1>5. QED
  BY <1>1, <1>2, <1>3, <1>4 DEF Clears

LEMMA CalmStep ==
  ASSUME \A d, e \in Daemons : d = e, SupervisorInv, CalmInv, SupervisorNext
  PROVE  CalmInv'
<1>1. /\ SupervisorTypeOK /\ TypeOK /\ Helper \in Procs /\ Helper \notin Daemons
      /\ \A d \in Daemons : d \in Procs
  BY ProcsAssumption, HelperAssumption DEF SupervisorInv, SupervisorTypeOK, Procs
<1>2. CASE \/ Status \/ StartRefused \/ (\E d \in Daemons : StartDraws(d) \/ PromptRefused(d))
           \/ Launch \/ LaunchFails
           \/ StopWithoutSession \/ StopStaleSession \/ StopSession
           \/ PostReachesSquatter \/ PostGivesUp \/ CloseSession
           \/ FoundClean \/ RescueGivesUp \/ RestoreRefused \/ FoundStranded \/ Restored
           \/ GraceExpires \/ Reopen
           \/ SquatterComes \/ SquatterLeaves
  BY <1>2, WindowClears, ClearsCalm
<1>3. ASSUME NEW d \in Daemons, LaunchedStep(d) \/ LaunchedDies(d)
      PROVE  CalmInv'
  <2>1. CASE Clears
    BY <2>1, ClearsCalm
  <2>2. CASE StageEnable(d)
    <3>1. /\ pc[d] = "booting" /\ pc' = [pc EXCEPT ![d] = "enabling"]
          /\ UNCHANGED <<prompt, cmd, batch, banner, hosts>>
      BY <1>3, <2>2 DEF StageEnable, Move, LaunchedStep, LaunchedDies, guiVars, surroundings,
                        windowVars
    <3>2. prompt[d] = "accepted"
      BY <1>1, <3>1 DEF SupervisorTypeOK
    <3>3. ~Touched
      BY <3>1 DEF CalmInv, Past
    <3>4. pc'[d] = "enabling" /\ pc'[Helper] = pc[Helper]
      BY <1>1, <3>1 DEF TypeOK
    <3>5. \A e \in Daemons : Past(e)'
      BY <3>1, <3>2, <3>4 DEF Past
    <3>6. QED
      BY <3>1, <3>3, <3>4, <3>5 DEF CalmInv, Touched
  <2>3. QED
    BY <1>1, <1>3, <2>1, <2>2, DaemonClears
<1>4. ASSUME NEW d \in Daemons, PromptAccepted(d)
      PROVE  CalmInv'
  <2>1. /\ pc' = [pc EXCEPT ![d] = "booting"] /\ UNCHANGED <<hosts, staged, banner, cmd, batch>>
    BY <1>4 DEF PromptAccepted, Start, Step, Move, fileVars, windowVars
  <2>2. Clears
    BY <1>1, <2>1 DEF Clears, TypeOK
  <2>3. QED
    BY <2>2, ClearsCalm
<1>5. CASE Post
  <2>1. UNCHANGED <<pc, hosts, staged, banner, batch>> /\ cmd' = "closing"
    BY <1>5 DEF Post, PostStop, fileVars, windowVars
  <2>2. Clears
    BY <2>1 DEF Clears
  <2>3. QED
    BY <2>2, ClearsCalm
<1>6. CASE Bystanders
  <2>1. UNCHANGED <<pc, staged, banner, batch, cmd>> /\ hosts'.block = hosts.block
    BY <1>1, <1>6 DEF Bystanders, UserEdit, ForeignBinds, ForeignLeaves, procVars, fileVars,
                      guiVars, windowVars, TypeOK, HostsFile
  <2>2. Clears
    BY <2>1 DEF Clears
  <2>3. QED
    BY <2>2, ClearsCalm
<1>7. CASE RestoreStranded \/ RestoreButton
  <2>1. StageDisable(Helper) /\ batch' = "running" /\ Touched
    BY <1>7 DEF RestoreStranded, RestoreButton, Touched
  <2>2. /\ pc' = [pc EXCEPT ![Helper] = "disabling"] /\ hosts' = hosts
        /\ staged' = Strip(hosts)
    BY <2>1 DEF StageDisable
  <2>3. pc'[Helper] = "disabling" /\ ~staged'.block
    BY <1>1, <2>2 DEF TypeOK, Strip, HostsFile
  <2>4. \A d \in Daemons : Past(d)'
    BY <2>1, PastStays DEF CalmInv
  <2>5. QED
    BY <2>1, <2>3, <2>4 DEF CalmInv
<1>8. CASE HelperStep
  <2>1. UNCHANGED <<banner, cmd>>
    BY <1>8 DEF HelperStep, windowVars
  <2>2. CASE InstallDisable(Helper) /\ UNCHANGED batch
    <3>1. /\ pc[Helper] = "disabling" /\ pc' = [pc EXCEPT ![Helper] = "unflushing"]
          /\ hosts' = staged /\ staged' = staged /\ batch' = batch
      BY <2>2 DEF InstallDisable, Install, Move
    <3>2. Touched /\ ~staged.block
      BY <3>1 DEF Touched, CalmInv
    <3>3. \A d \in Daemons : Past(d)'
      BY <3>2, PastStays DEF CalmInv
    <3>4. pc'[Helper] = "unflushing"
      BY <1>1, <3>1 DEF TypeOK
    <3>5. QED
      BY <3>1, <3>2, <3>3, <3>4 DEF CalmInv
  <2>3. CASE FlushDisable(Helper) /\ (Reported("ok") \/ Reported("failed"))
    <3>1. pc[Helper] = "unflushing" /\ pc' = [pc EXCEPT ![Helper] = "down"]
          /\ UNCHANGED <<hosts, staged>>
      BY <2>3 DEF FlushDisable, Exit, fileVars
    <3>2. Touched /\ ~staged.block /\ ~hosts.block
      BY <3>1 DEF Touched, CalmInv
    <3>3. \A d \in Daemons : Past(d)'
      BY <3>2, PastStays DEF CalmInv
    <3>4. pc'[Helper] = "down"
      BY <1>1, <3>1 DEF TypeOK
    <3>5. QED
      BY <3>1, <3>2, <3>3, <3>4 DEF CalmInv
  <2>4. CASE pc[Helper] = "disabling" /\ DisableFails(Helper) /\ Reported("failed")
    <3>1. pc' = [pc EXCEPT ![Helper] = "down"] /\ UNCHANGED <<hosts, staged>> /\ batch' # "ok"
      BY <2>4 DEF DisableFails, Exit, fileVars, Reported
    <3>2. Touched
      BY <2>4 DEF Touched
    <3>3. \A d \in Daemons : Past(d)'
      BY <3>2, PastStays DEF CalmInv
    <3>4. pc'[Helper] = "down"
      BY <1>1, <3>1 DEF TypeOK
    <3>5. QED
      BY <3>1, <3>3, <3>4 DEF CalmInv
  <2>5. QED
    BY <1>8, <2>2, <2>3, <2>4 DEF HelperStep
<1>9. QED
  BY <1>2, <1>3, <1>4, <1>5, <1>6, <1>7, <1>8 DEF SupervisorNext, StopStep

(* Where a command that was restoring, or about to, can have ended calmly. *)
LEMMA CalmEnds ==
  ASSUME SupervisorNext, CalmStop, ~RescueGivesUp
  PROVE  FoundClean \/ (Restored /\ batch = "ok")
<1>1. /\ cmd \in {"rescuing", "stranded", "restoring"}
      /\ cmd' = "idle" /\ shown' = "stopped" /\ ~detail'
  BY DEF CalmStop
<1>2. ~Reopen /\ ~RestoreRefused
  BY <1>1 DEF Reopen, RestoreRefused, Reply, Show
<1>3. FoundClean \/ Restored
  BY <1>1, <1>2 DEF SupervisorNext, StopStep, Status, StartRefused, Launch, LaunchFails, Post,
              PostReachesSquatter, PostGivesUp, CloseSession, FoundStranded, RestoreStranded,
              StopWithoutSession, StopStaleSession, StopSession, Rescue, RestoreButton,
              HelperStep, GraceExpires, Bystanders, SquatterComes, SquatterLeaves, StartDraws,
              PromptAccepted, PromptRefused, LaunchedStep, LaunchedDies, guiVars
<1>4. Restored => batch = "ok"
  BY <1>1 DEF Restored, Reply, Show
<1>5. QED
  BY <1>3, <1>4

(* A stop that ends without showing an error leaves the hosts file clean,  *)
(* or a daemon that will still put it back, unless it gave the restore up  *)
(* unread or for want of a log (daemon.rs:683-819), when the window can    *)
(* launch one daemon: whatever is killed, refused, edited or reopened      *)
(* meanwhile, and however many restores the banner's button begins.        *)
THEOREM CalmStopsLeaveClean ==
  ASSUME \A d, e \in Daemons : d = e
  PROVE  SupervisorSpec => CalmStopLeavesClean
<1>1. SupervisorInit => CalmInv
  <2> SUFFICES ASSUME SupervisorInit PROVE CalmInv
    OBVIOUS
  <2>1. pc[Helper] = "down"
    BY HelperIsProc DEF SupervisorInit, Init
  <2>2. QED
    BY <2>1 DEF SupervisorInit, Init, CalmInv, Touched
<1>2. SupervisorInv /\ CalmInv /\ [SupervisorNext /\ Remember]_<<allVars, overtaken>> => CalmInv'
  <2>1. ASSUME SupervisorInv, CalmInv, SupervisorNext PROVE CalmInv'
    BY <2>1, CalmStep
  <2>2. ASSUME CalmInv, UNCHANGED <<allVars, overtaken>> PROVE CalmInv'
    BY <2>2 DEF allVars, vars, procVars, fileVars, guiVars, surroundings, windowVars,
                CalmInv, Touched, Past
  <2>3. QED
    BY <2>1, <2>2
<1>3. CalmInv /\ [SupervisorNext /\ Remember]_<<allVars, overtaken>>
        => [CalmStop /\ ~RescueGivesUp => Cleaned]_allVars
  <2> SUFFICES ASSUME CalmInv, [SupervisorNext]_allVars, CalmStop, ~RescueGivesUp PROVE Cleaned
    OBVIOUS
  <2>1. SupervisorNext
    BY DEF CalmStop, allVars, guiVars
  <2>2. FoundClean \/ (Restored /\ batch = "ok")
    BY <2>1, CalmEnds
  <2>3. QED
    BY <2>2 DEF FoundClean, CalmInv, Cleaned
<1>4. QED
  BY <1>1, <1>2, <1>3, SupervisorInvHolds, PTL DEF SupervisorSpec, CalmStopLeavesClean
=============================================================================
