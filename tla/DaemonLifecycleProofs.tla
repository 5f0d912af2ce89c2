------------------------ MODULE DaemonLifecycleProofs ------------------------
(***************************************************************************)
(* Theorems about DaemonLifecycle for any number of daemons and helpers    *)
(* and any number of edits.                                                *)
(***************************************************************************)
EXTENDS DaemonLifecycle, TLAPS

(* Exhausts Next: an invariant is preserved if every action preserves it.  *)
LEMMA NextCases ==
  ASSUME [Next]_vars
  PROVE  \/ \E d \in Daemons : Start(d) \/ BootFails(d) \/ StageEnable(d)
         \/ \E d \in Daemons : InstallEnable(d) \/ FlushEnable(d) \/ EnableFails(d)
         \/ \E d \in Daemons : CheckResolver(d) \/ ReloadResolver(d) \/ Recheck(d)
         \/ \E d \in Daemons : BindControl(d) \/ BindControlFails(d)
         \/ \E d \in Daemons : BindListener(d) \/ BindListenerFails(d) \/ Shutdown(d)
         \/ \E d \in Daemons : PostStop(d) \/ Interrupt(d) \/ InterruptUnarmed(d)
         \/ \E p \in Procs : StageDisable(p) \/ InstallDisable(p)
         \/ \E p \in Procs : FlushDisable(p) \/ DisableFails(p) \/ Kill(p)
         \/ UserEdit \/ ForeignBinds \/ ForeignLeaves
         \/ UNCHANGED vars
  BY Zenon DEF Next, DaemonNext, DaemonStep, BatchStep

-----------------------------------------------------------------------------
(* Every process ends in one of two ways: nothing it did is undone, and    *)
(* nothing it shares is touched but the port it held.                      *)
LEMMA ExitTypeOK ==
  ASSUME TypeOK, NEW p \in Procs, pc[p] # "down", Exit(p)
  PROVE  TypeOK'
<1> USE ProcsAssumption DEF Procs
<1>1. pc' \in [Procs -> Steps] BY DEF Exit, TypeOK, Steps
<1>2. armed' \in [Procs -> BOOLEAN] /\ stopReq' \in [Procs -> BOOLEAN]
  BY DEF Exit, TypeOK
<1>3. ctl' \in [Procs -> Channel] BY DEF Exit, TypeOK, Channel
<1>4. port' \in Daemons \cup {Free, Foreign} BY DEF Exit, TypeOK
<1>5. UNCHANGED <<hosts, staged, edits, raced>> BY DEF Exit, fileVars, userVars
<1>6. mishap' \in BOOLEAN BY DEF Exit, TypeOK
<1>7. \A d \in Daemons : port' = d <=> pc'[d] = "serving"
  BY DEF Exit, TypeOK
<1>8. \A h \in Helpers : pc'[h] \in {"down", "disabling", "unflushing"}
  BY DEF Exit, TypeOK
<1> QED BY <1>1, <1>2, <1>3, <1>4, <1>5, <1>6, <1>7, <1>8 DEF TypeOK

(* A step of one daemon's own control flow between states that hold no port.*)
LEMMA StepTypeOK ==
  ASSUME TypeOK, NEW d \in Daemons, NEW from, NEW to \in Steps,
         from # "serving", to # "serving", Step(d, from, to)
  PROVE  TypeOK'
<1> USE ProcsAssumption DEF Procs
<1> UNCHANGED <<armed, stopReq, ctl, port, hosts, staged, edits, raced, mishap>>
  BY DEF Step, fileVars, userVars
<1> pc' = [pc EXCEPT ![d] = to] /\ pc[d] = from BY DEF Step, Move
<1> QED BY DEF TypeOK

(* The copy of the staging file over the hosts file.                       *)
LEMMA InstallTypeOK ==
  ASSUME TypeOK, NEW p \in Procs,
         \/ p \in Daemons /\ Install(p, "enabling", "flushing")
         \/ Install(p, "disabling", "unflushing")
  PROVE  TypeOK'
<1> USE ProcsAssumption DEF Procs
<1> UNCHANGED <<armed, stopReq, ctl, port, staged, edits, raced, mishap>> /\ hosts' = staged
  BY DEF Install, userVars
<1>1. CASE p \in Daemons /\ Install(p, "enabling", "flushing")
  BY <1>1 DEF TypeOK, Install, Move, Steps, Owing, Enabled
<1>2. CASE Install(p, "disabling", "unflushing")
  BY <1>2 DEF TypeOK, Install, Move, Steps, Owing, Enabled
<1> QED BY <1>1, <1>2

(* Type correctness, and with it that 443 is held by exactly the daemon    *)
(* that is serving (mod.rs:110-113, preflight.rs:16-42).                   *)
THEOREM TypeCorrect == Spec => []TypeOK
<1>1. Init => TypeOK
  <2> SUFFICES ASSUME Init PROVE TypeOK
    OBVIOUS
  <2>1. /\ pc \in [Procs -> Steps] /\ armed \in [Procs -> BOOLEAN]
        /\ stopReq \in [Procs -> BOOLEAN] /\ ctl \in [Procs -> Channel]
    BY DEF Init, Steps, Channel
  <2>2. hosts \in HostsFile /\ staged \in HostsFile /\ edits \in 0..MaxEdits
    BY EditsAssumption DEF Init, HostsFile
  <2>3. \A p \in Procs : pc[p] = "down" /\ port # p
    BY ProcsAssumption DEF Init
  <2> QED BY <2>1, <2>2, <2>3 DEF Init, TypeOK, Procs
<1>2. TypeOK /\ [Next]_vars => TypeOK'
  <2> SUFFICES ASSUME TypeOK, [Next]_vars PROVE TypeOK'
    OBVIOUS
  <2> USE ProcsAssumption, EditsAssumption DEF Procs
  <2>1. ASSUME NEW d \in Daemons, Start(d) \/ BootFails(d) \/ StageEnable(d)
        PROVE  TypeOK'
    <3>1. CASE Start(d)
      BY <3>1, StepTypeOK DEF Start, Steps
    <3>2. CASE BootFails(d)
      BY <3>2, ExitTypeOK DEF BootFails
    <3>3. CASE StageEnable(d)
      BY <3>3 DEF StageEnable, TypeOK, Move, Steps, Owing, Enabled, Apply, HostsFile, userVars
    <3> QED BY <2>1, <3>1, <3>2, <3>3
  <2>2. ASSUME NEW d \in Daemons, InstallEnable(d) \/ FlushEnable(d) \/ EnableFails(d)
        PROVE  TypeOK'
    <3>1. CASE InstallEnable(d)
      BY <3>1, InstallTypeOK DEF InstallEnable
    <3>2. CASE FlushEnable(d)
      BY <3>2, StepTypeOK DEF FlushEnable, Steps, Owing, Enabled
    <3>3. CASE EnableFails(d)
      BY <3>3, ExitTypeOK DEF EnableFails
    <3> QED BY <2>2, <3>1, <3>2, <3>3
  <2>3. ASSUME NEW d \in Daemons, CheckResolver(d) \/ ReloadResolver(d) \/ Recheck(d)
        PROVE  TypeOK'
    BY <2>3, StepTypeOK DEF CheckResolver, ReloadResolver, Recheck, Steps, Owing, Enabled
  <2>4. ASSUME NEW d \in Daemons, BindControl(d) \/ BindControlFails(d)
        PROVE  TypeOK'
    <3>1. CASE BindControl(d)
      BY <3>1 DEF BindControl, TypeOK, Move, Steps, Owing, Enabled, Channel, fileVars, userVars
    <3>2. CASE BindControlFails(d)
      BY <3>2, StepTypeOK DEF BindControlFails, Steps, Owing, Enabled
    <3> QED BY <2>4, <3>1, <3>2
  <2>5. ASSUME NEW d \in Daemons, BindListener(d) \/ BindListenerFails(d) \/ Shutdown(d)
        PROVE  TypeOK'
    <3>1. CASE BindListener(d)
      BY <3>1 DEF BindListener, TypeOK, Move, Steps, Owing, Enabled, fileVars, userVars
    <3>2. CASE BindListenerFails(d)
      BY <3>2, StepTypeOK DEF BindListenerFails, Steps, Owing, Enabled
    <3>3. CASE Shutdown(d)
      BY <3>3 DEF Shutdown, TypeOK, Move, Steps, Owing, Enabled, fileVars, userVars
    <3> QED BY <2>5, <3>1, <3>2, <3>3
  <2>6. ASSUME NEW d \in Daemons, PostStop(d) \/ Interrupt(d) \/ InterruptUnarmed(d)
        PROVE  TypeOK'
    <3>1. CASE PostStop(d)
      BY <3>1 DEF PostStop, TypeOK, Channel, fileVars, userVars
    <3>2. CASE Interrupt(d)
      BY <3>2 DEF Interrupt, TypeOK, fileVars, userVars
    <3>3. CASE InterruptUnarmed(d)
      BY <3>3, ExitTypeOK DEF InterruptUnarmed
    <3> QED BY <2>6, <3>1, <3>2, <3>3
  <2>7. ASSUME NEW p \in Procs, StageDisable(p) \/ InstallDisable(p)
        PROVE  TypeOK'
    <3>1. CASE StageDisable(p)
      BY <3>1 DEF StageDisable, Restores, TypeOK, Steps, Owing, Enabled, Strip, HostsFile, userVars
    <3>2. CASE InstallDisable(p)
      BY <3>2, InstallTypeOK DEF InstallDisable
    <3> QED BY <2>7, <3>1, <3>2
  <2>8. ASSUME NEW p \in Procs, FlushDisable(p) \/ DisableFails(p) \/ Kill(p)
        PROVE  TypeOK'
    BY <2>8, ExitTypeOK DEF FlushDisable, DisableFails, Kill
  <2>9. CASE UserEdit
    BY <2>9 DEF UserEdit, TypeOK, HostsFile, procVars
  <2>10. CASE ForeignBinds \/ ForeignLeaves
    BY <2>10 DEF ForeignBinds, ForeignLeaves, TypeOK, procVars, fileVars, userVars
  <2>11. CASE UNCHANGED vars
    BY <2>11 DEF vars, TypeOK, procVars, fileVars, userVars
  <2> QED
    BY <2>1, <2>2, <2>3, <2>4, <2>5, <2>6, <2>7, <2>8, <2>9, <2>10, <2>11, NextCases
<1> QED BY <1>1, <1>2, PTL DEF Spec

-----------------------------------------------------------------------------
(* The staging file redirects only while some process is between staging   *)
(* the redirect and staging its removal; the hosts file redirects only     *)
(* while some process still owes a restore.  Unless a mishap is on record. *)
StrandInv ==
  ~mishap =>
    /\ staged.block => \E p \in Procs : pc[p] \in Enabled
    /\ hosts.block => \E p \in Procs : pc[p] \in Owing

(* A step that keeps the files and leaves every process that was enabled,  *)
(* or owed a restore, so, keeps the invariant.                             *)
LEMMA SameDebtStrandInv ==
  ASSUME StrandInv, UNCHANGED <<hosts, staged, mishap>>,
         \A p \in Procs : pc[p] \in Enabled => pc'[p] \in Enabled,
         \A p \in Procs : pc[p] \in Owing => pc'[p] \in Owing
  PROVE  StrandInv'
  BY DEF StrandInv

(* A process that ends either owed nothing or leaves a mishap on record.   *)
LEMMA ExitStrandInv ==
  ASSUME TypeOK, StrandInv, NEW p \in Procs, Exit(p)
  PROVE  StrandInv'
<1>1. CASE pc[p] \in Owing
  BY <1>1 DEF Exit, StrandInv
<1>2. CASE pc[p] \notin Owing
  <2>1. UNCHANGED <<hosts, staged>> /\ (mishap' <=> mishap)
    BY <1>2 DEF Exit, fileVars, TypeOK
  <2>2. \A q \in Procs : pc[q] \in Owing => pc'[q] = pc[q]
    BY <1>2 DEF Exit, TypeOK
  <2> QED BY <2>1, <2>2 DEF StrandInv, Owing
<1> QED BY <1>1, <1>2

LEMMA StepStrandInv ==
  ASSUME TypeOK, StrandInv, NEW d \in Daemons, NEW from, NEW to, Step(d, from, to),
         to \in Enabled \/ from \notin Owing
  PROVE  StrandInv'
<1>1. UNCHANGED <<hosts, staged, mishap>> BY DEF Step, fileVars
<1>2. \A p \in Procs : pc'[p] = IF p = d THEN to ELSE pc[p]
  BY DEF Step, Move, TypeOK, Procs
<1>3. pc[d] = from BY DEF Step, Move
<1> QED BY <1>1, <1>2, <1>3, SameDebtStrandInv DEF Owing

(* The copy puts the staged block in place only while its stager is still  *)
(* enabled, and a process that installs a removal is not the stager.       *)
LEMMA InstallStrandInv ==
  ASSUME TypeOK, StrandInv, NEW p \in Procs,
         Install(p, "enabling", "flushing") \/ Install(p, "disabling", "unflushing")
  PROVE  StrandInv'
<1>1. UNCHANGED <<staged, mishap>> /\ hosts' = staged
  BY DEF Install
<1>2. \A q \in Procs : pc[q] \in Enabled => pc'[q] \in Enabled
  BY DEF Install, Move, TypeOK, Enabled
<1> QED BY <1>1, <1>2 DEF StrandInv, Owing

(* However many daemons and restores overlap in the one staging file, the  *)
(* redirect outlives them only over a recorded mishap (main.rs:595-659).   *)
THEOREM StrandsNeedMishaps == Spec => []StrandNeedsMishap
<1>1. Init => StrandInv
  BY DEF Init, StrandInv
<1>2. TypeOK /\ StrandInv /\ [Next]_vars => StrandInv'
  <2> SUFFICES ASSUME TypeOK, StrandInv, [Next]_vars PROVE StrandInv'
    OBVIOUS
  <2>1. ASSUME NEW d \in Daemons, Start(d) \/ BootFails(d) \/ StageEnable(d)
        PROVE  StrandInv'
    <3>1. CASE Start(d)
      BY <3>1, StepStrandInv DEF Start, Owing, Enabled
    <3>2. CASE BootFails(d)
      BY <3>2, ExitStrandInv DEF BootFails, Procs
    <3>3. CASE StageEnable(d)
      <4>1. pc'[d] \in Enabled /\ d \in Procs
        BY <3>3 DEF StageEnable, Move, TypeOK, Procs, Enabled
      <4> QED BY <4>1 DEF StrandInv, Owing
    <3> QED BY <2>1, <3>1, <3>2, <3>3
  <2>2. ASSUME NEW d \in Daemons, InstallEnable(d) \/ FlushEnable(d) \/ EnableFails(d)
        PROVE  StrandInv'
    <3>1. CASE InstallEnable(d)
      BY <3>1, InstallStrandInv DEF InstallEnable, Procs
    <3>2. CASE FlushEnable(d)
      BY <3>2, StepStrandInv DEF FlushEnable, Enabled
    <3>3. CASE EnableFails(d)
      BY <3>3, ExitStrandInv DEF EnableFails, Procs
    <3> QED BY <2>2, <3>1, <3>2, <3>3
  <2>3. ASSUME NEW d \in Daemons, CheckResolver(d) \/ ReloadResolver(d) \/ Recheck(d)
        PROVE  StrandInv'
    BY <2>3, StepStrandInv DEF CheckResolver, ReloadResolver, Recheck, Enabled
  <2>4. ASSUME NEW d \in Daemons, BindControl(d) \/ BindControlFails(d)
        PROVE  StrandInv'
    <3>1. CASE BindControl(d)
      BY <3>1, SameDebtStrandInv DEF BindControl, Move, TypeOK, fileVars, Owing, Enabled, Procs
    <3>2. CASE BindControlFails(d)
      BY <3>2, StepStrandInv DEF BindControlFails, Enabled
    <3> QED BY <2>4, <3>1, <3>2
  <2>5. ASSUME NEW d \in Daemons, BindListener(d) \/ BindListenerFails(d) \/ Shutdown(d)
        PROVE  StrandInv'
    <3>1. CASE BindListener(d)
      BY <3>1, SameDebtStrandInv DEF BindListener, Move, TypeOK, fileVars, Owing, Enabled, Procs
    <3>2. CASE BindListenerFails(d)
      BY <3>2, StepStrandInv DEF BindListenerFails, Enabled
    <3>3. CASE Shutdown(d)
      BY <3>3, SameDebtStrandInv DEF Shutdown, Move, TypeOK, fileVars, Owing, Enabled, Procs
    <3> QED BY <2>5, <3>1, <3>2, <3>3
  <2>6. ASSUME NEW d \in Daemons, PostStop(d) \/ Interrupt(d) \/ InterruptUnarmed(d)
        PROVE  StrandInv'
    <3>1. CASE PostStop(d) \/ Interrupt(d)
      BY <3>1 DEF PostStop, Interrupt, fileVars, StrandInv
    <3>2. CASE InterruptUnarmed(d)
      BY <3>2, ExitStrandInv DEF InterruptUnarmed, Procs
    <3> QED BY <2>6, <3>1, <3>2
  <2>7. ASSUME NEW p \in Procs, StageDisable(p) \/ InstallDisable(p)
        PROVE  StrandInv'
    <3>1. CASE StageDisable(p)
      <4>1. pc'[p] \in Owing
        BY <3>1 DEF StageDisable, TypeOK, Owing
      <4>2. staged'.block = FALSE
        BY <3>1 DEF StageDisable, Strip, TypeOK, HostsFile
      <4> QED BY <4>1, <4>2 DEF StrandInv
    <3>2. CASE InstallDisable(p)
      BY <3>2, InstallStrandInv DEF InstallDisable
    <3> QED BY <2>7, <3>1, <3>2
  <2>8. ASSUME NEW p \in Procs, FlushDisable(p) \/ DisableFails(p) \/ Kill(p)
        PROVE  StrandInv'
    BY <2>8, ExitStrandInv DEF FlushDisable, DisableFails, Kill
  <2>9. CASE UserEdit
    <3>1. hosts'.block = hosts.block /\ UNCHANGED <<staged, mishap, pc>>
      BY <2>9 DEF UserEdit, TypeOK, HostsFile, procVars
    <3> QED BY <3>1 DEF StrandInv
  <2>10. CASE ForeignBinds \/ ForeignLeaves
    BY <2>10 DEF ForeignBinds, ForeignLeaves, StrandInv, procVars, fileVars
  <2>11. CASE UNCHANGED vars
    BY <2>11 DEF vars, StrandInv, procVars, fileVars
  <2> QED
    BY <2>1, <2>2, <2>3, <2>4, <2>5, <2>6, <2>7, <2>8, <2>9, <2>10, <2>11, NextCases
<1>3. StrandInv => StrandNeedsMishap
  BY DEF StrandInv, StrandNeedsMishap
<1> QED BY <1>1, <1>2, <1>3, TypeCorrect, PTL DEF Spec

-----------------------------------------------------------------------------
(* No edit has been overwritten, and what is staged for an install that is *)
(* still to come holds every edit.  Unless an edit raced with a batch.     *)
EditsInv ==
  ~raced =>
    /\ hosts.user = edits
    /\ Staging # {} => staged.user = edits

(* A step that keeps the files and starts no staging keeps the invariant.  *)
LEMMA NoStagingEditsInv ==
  ASSUME EditsInv, UNCHANGED <<hosts, staged, edits, raced>>,
         \A p \in Procs : pc'[p] \in {"enabling", "disabling"} => pc'[p] = pc[p]
  PROVE  EditsInv'
  BY DEF EditsInv, Staging

LEMMA ExitEditsInv ==
  ASSUME TypeOK, EditsInv, NEW p \in Procs, Exit(p)
  PROVE  EditsInv'
<1>1. UNCHANGED <<hosts, staged, edits, raced>> BY DEF Exit, fileVars, userVars
<1>2. \A q \in Procs : pc'[q] \in {"enabling", "disabling"} => pc'[q] = pc[q]
  BY DEF Exit, TypeOK
<1> QED BY <1>1, <1>2, NoStagingEditsInv

LEMMA MoveEditsInv ==
  ASSUME TypeOK, EditsInv, NEW p \in Procs, NEW from, NEW to, Move(p, from, to),
         to \notin {"enabling", "disabling"}, UNCHANGED <<hosts, staged, edits, raced>>
  PROVE  EditsInv'
<1>1. \A q \in Procs : pc'[q] \in {"enabling", "disabling"} => pc'[q] = pc[q]
  BY DEF Move, TypeOK
<1> QED BY <1>1, NoStagingEditsInv

LEMMA StepEditsInv ==
  ASSUME TypeOK, EditsInv, NEW p \in Procs, NEW from, NEW to, Step(p, from, to),
         to \notin {"enabling", "disabling"}
  PROVE  EditsInv'
  BY MoveEditsInv DEF Step, fileVars, userVars

(* The installing process was staging, so what it copies holds every edit. *)
LEMMA InstallEditsInv ==
  ASSUME TypeOK, EditsInv, NEW p \in Procs,
         Install(p, "enabling", "flushing") \/ Install(p, "disabling", "unflushing")
  PROVE  EditsInv'
<1>1. hosts' = staged /\ UNCHANGED <<staged, edits, raced>>
  BY DEF Install, userVars
<1>2. p \in Staging
  BY DEF Install, Move, Staging
<1> QED BY <1>1, <1>2 DEF EditsInv

(* Whatever overlaps, the user's own lines survive unless they changed     *)
(* between a batch's read and its copy (session.rs:18-31, 101-110).        *)
THEOREM EditsSurviveBatches == Spec => []EditsSurvive
<1>1. Init => EditsInv
  BY DEF Init, EditsInv, Staging
<1>2. TypeOK /\ EditsInv /\ [Next]_vars => EditsInv'
  <2> SUFFICES ASSUME TypeOK, EditsInv, [Next]_vars PROVE EditsInv'
    OBVIOUS
  <2>1. ASSUME NEW d \in Daemons, Start(d) \/ BootFails(d) \/ StageEnable(d)
        PROVE  EditsInv'
    <3>1. CASE Start(d)
      BY <3>1, StepEditsInv DEF Start, Procs
    <3>2. CASE BootFails(d)
      BY <3>2, ExitEditsInv DEF BootFails, Procs
    <3>3. CASE StageEnable(d)
      BY <3>3 DEF StageEnable, Apply, EditsInv, TypeOK, HostsFile, userVars
    <3> QED BY <2>1, <3>1, <3>2, <3>3
  <2>2. ASSUME NEW d \in Daemons, InstallEnable(d) \/ FlushEnable(d) \/ EnableFails(d)
        PROVE  EditsInv'
    BY <2>2, InstallEditsInv, StepEditsInv, ExitEditsInv
    DEF InstallEnable, FlushEnable, EnableFails, Procs
  <2>3. ASSUME NEW d \in Daemons, CheckResolver(d) \/ ReloadResolver(d) \/ Recheck(d)
        PROVE  EditsInv'
    BY <2>3, StepEditsInv DEF CheckResolver, ReloadResolver, Recheck, Procs
  <2>4. ASSUME NEW d \in Daemons, BindControl(d) \/ BindControlFails(d)
        PROVE  EditsInv'
    BY <2>4, StepEditsInv, MoveEditsInv
    DEF BindControl, BindControlFails, Procs, fileVars, userVars
  <2>5. ASSUME NEW d \in Daemons, BindListener(d) \/ BindListenerFails(d) \/ Shutdown(d)
        PROVE  EditsInv'
    BY <2>5, StepEditsInv, MoveEditsInv
    DEF BindListener, BindListenerFails, Shutdown, Procs, fileVars, userVars
  <2>6. ASSUME NEW d \in Daemons, PostStop(d) \/ Interrupt(d) \/ InterruptUnarmed(d)
        PROVE  EditsInv'
    <3>1. CASE PostStop(d) \/ Interrupt(d)
      BY <3>1 DEF PostStop, Interrupt, fileVars, userVars, EditsInv, Staging
    <3>2. CASE InterruptUnarmed(d)
      BY <3>2, ExitEditsInv DEF InterruptUnarmed, Procs
    <3> QED BY <2>6, <3>1, <3>2
  <2>7. ASSUME NEW p \in Procs, StageDisable(p) \/ InstallDisable(p)
        PROVE  EditsInv'
    <3>1. CASE StageDisable(p)
      BY <3>1 DEF StageDisable, Strip, EditsInv, TypeOK, HostsFile, userVars
    <3>2. CASE InstallDisable(p)
      BY <3>2, InstallEditsInv DEF InstallDisable
    <3> QED BY <2>7, <3>1, <3>2
  <2>8. ASSUME NEW p \in Procs, FlushDisable(p) \/ DisableFails(p) \/ Kill(p)
        PROVE  EditsInv'
    BY <2>8, ExitEditsInv DEF FlushDisable, DisableFails, Kill
  <2>9. CASE UserEdit
    <3>1. hosts'.user = edits' /\ UNCHANGED <<staged, pc>> /\ raced \in BOOLEAN
      BY <2>9 DEF UserEdit, TypeOK, HostsFile, procVars
    <3>2. ~raced' => ~raced /\ Staging = {}
      BY <2>9 DEF UserEdit, TypeOK
    <3>3. Staging' = Staging
      BY <3>1 DEF Staging
    <3> QED BY <3>1, <3>2, <3>3 DEF EditsInv
  <2>10. CASE ForeignBinds \/ ForeignLeaves
    BY <2>10 DEF ForeignBinds, ForeignLeaves, EditsInv, Staging, procVars, fileVars, userVars
  <2>11. CASE UNCHANGED vars
    BY <2>11 DEF vars, EditsInv, Staging, procVars, fileVars, userVars
  <2> QED
    BY <2>1, <2>2, <2>3, <2>4, <2>5, <2>6, <2>7, <2>8, <2>9, <2>10, <2>11, NextCases
<1>3. EditsInv => EditsSurvive
  BY DEF EditsInv, EditsSurvive
<1> QED BY <1>1, <1>2, <1>3, TypeCorrect, PTL DEF Spec

-----------------------------------------------------------------------------
(* A daemon with nobody beside it: what it staged is what it installs, and *)
(* the block stays until its own restore.                                  *)
Redirecting == {"flushing", "checking", "reloading", "rechecking", "ready",
                "bound", "serving"}

SoloInv ==
  \A d \in Daemons :
    /\ pc[d] = "enabling" => staged.block
    /\ pc[d] \in Redirecting => hosts.block

(* A step that keeps the files and only moves the process along, or out.   *)
LEMMA KeepsFilesSoloInv ==
  ASSUME SoloInv, UNCHANGED <<hosts, staged>>,
         \A d \in Daemons :
           pc'[d] = "enabling" \/ pc'[d] \in Redirecting =>
             \/ pc'[d] = pc[d]
             \/ pc[d] \in Redirecting /\ pc'[d] \in Redirecting
  PROVE  SoloInv'
  BY DEF SoloInv, Redirecting

LEMMA StepSoloInv ==
  ASSUME TypeOK, SoloInv, NEW d \in Daemons, NEW from, NEW to, Move(d, from, to),
         UNCHANGED <<hosts, staged>>,
         \/ to \notin Redirecting \cup {"enabling"}
         \/ from \in Redirecting /\ to \in Redirecting
  PROVE  SoloInv'
<1>1. pc[d] = from /\ \A e \in Daemons : pc'[e] = IF e = d THEN to ELSE pc[e]
  BY DEF Move, TypeOK, Procs
<1> QED BY <1>1, KeepsFilesSoloInv

LEMMA ExitSoloInv ==
  ASSUME TypeOK, SoloInv, NEW p \in Procs, Exit(p)
  PROVE  SoloInv'
<1>1. \A d \in Daemons : pc'[d] = IF d = p THEN "down" ELSE pc[d]
  BY DEF Exit, TypeOK, Procs
<1> QED BY <1>1, KeepsFilesSoloInv DEF Exit, fileVars, Redirecting

(* A lone daemon that serves is redirected to (main.rs:595-647).           *)
THEOREM LoneDaemonIsRedirected ==
  ASSUME \A p, q \in Procs : p = q
  PROVE  Spec => []ServingIsRedirected
<1>1. Init => SoloInv
  BY DEF Init, SoloInv, Redirecting, Procs
<1>2. TypeOK /\ SoloInv /\ [Next]_vars => SoloInv'
  <2> SUFFICES ASSUME TypeOK, SoloInv, [Next]_vars PROVE SoloInv'
    OBVIOUS
  <2>1. ASSUME NEW d \in Daemons, Start(d) \/ BootFails(d) \/ StageEnable(d)
        PROVE  SoloInv'
    <3>1. CASE Start(d)
      BY <3>1, StepSoloInv DEF Start, Step, fileVars, Redirecting
    <3>2. CASE BootFails(d)
      BY <3>2, ExitSoloInv DEF BootFails, Procs
    <3>3. CASE StageEnable(d)
      <4>1. staged'.block /\ pc'[d] = "enabling"
        BY <3>3 DEF StageEnable, Move, Apply, TypeOK, HostsFile, Procs
      <4>2. \A e \in Daemons : e = d BY DEF Procs
      <4> QED BY <4>1, <4>2 DEF SoloInv, Redirecting
    <3> QED BY <2>1, <3>1, <3>2, <3>3
  <2>2. ASSUME NEW d \in Daemons, InstallEnable(d) \/ FlushEnable(d) \/ EnableFails(d)
        PROVE  SoloInv'
    <3>1. CASE InstallEnable(d)
      <4>1. hosts'.block /\ pc'[d] = "flushing"
        BY <3>1 DEF InstallEnable, Install, Move, SoloInv, TypeOK, Procs
      <4>2. \A e \in Daemons : e = d BY DEF Procs
      <4> QED BY <4>1, <4>2 DEF SoloInv
    <3>2. CASE FlushEnable(d)
      BY <3>2, StepSoloInv DEF FlushEnable, Step, fileVars, Redirecting
    <3>3. CASE EnableFails(d)
      BY <3>3, ExitSoloInv DEF EnableFails, Procs
    <3> QED BY <2>2, <3>1, <3>2, <3>3
  <2>3. ASSUME NEW d \in Daemons, CheckResolver(d) \/ ReloadResolver(d) \/ Recheck(d)
        PROVE  SoloInv'
    BY <2>3, StepSoloInv DEF CheckResolver, ReloadResolver, Recheck, Step, fileVars, Redirecting
  <2>4. ASSUME NEW d \in Daemons, BindControl(d) \/ BindControlFails(d)
        PROVE  SoloInv'
    BY <2>4, StepSoloInv DEF BindControl, BindControlFails, Step, fileVars, Redirecting
  <2>5. ASSUME NEW d \in Daemons, BindListener(d) \/ BindListenerFails(d) \/ Shutdown(d)
        PROVE  SoloInv'
    BY <2>5, StepSoloInv
    DEF BindListener, BindListenerFails, Shutdown, Step, fileVars, Redirecting
  <2>6. ASSUME NEW d \in Daemons, PostStop(d) \/ Interrupt(d) \/ InterruptUnarmed(d)
        PROVE  SoloInv'
    <3>1. CASE PostStop(d) \/ Interrupt(d)
      BY <3>1 DEF PostStop, Interrupt, fileVars, SoloInv
    <3>2. CASE InterruptUnarmed(d)
      BY <3>2, ExitSoloInv DEF InterruptUnarmed, Procs
    <3> QED BY <2>6, <3>1, <3>2
  <2>7. ASSUME NEW p \in Procs, StageDisable(p) \/ InstallDisable(p)
        PROVE  SoloInv'
    <3>1. \A e \in Daemons : e = p BY DEF Procs
    <3>2. pc'[p] \in {"disabling", "unflushing"}
      BY <2>7 DEF StageDisable, InstallDisable, Install, Move, TypeOK
    <3> QED BY <3>1, <3>2 DEF SoloInv, Redirecting
  <2>8. ASSUME NEW p \in Procs, FlushDisable(p) \/ DisableFails(p) \/ Kill(p)
        PROVE  SoloInv'
    BY <2>8, ExitSoloInv DEF FlushDisable, DisableFails, Kill
  <2>9. CASE UserEdit
    <3>1. hosts'.block = hosts.block /\ UNCHANGED <<staged, pc>>
      BY <2>9 DEF UserEdit, TypeOK, HostsFile, procVars
    <3> QED BY <3>1 DEF SoloInv
  <2>10. CASE ForeignBinds \/ ForeignLeaves
    BY <2>10 DEF ForeignBinds, ForeignLeaves, SoloInv, procVars, fileVars
  <2>11. CASE UNCHANGED vars
    BY <2>11 DEF vars, SoloInv, procVars, fileVars
  <2> QED
    BY <2>1, <2>2, <2>3, <2>4, <2>5, <2>6, <2>7, <2>8, <2>9, <2>10, <2>11, NextCases
<1>3. SoloInv => ServingIsRedirected
  BY DEF SoloInv, ServingIsRedirected, Redirecting
<1> QED BY <1>1, <1>2, <1>3, TypeCorrect, PTL DEF Spec
=============================================================================
