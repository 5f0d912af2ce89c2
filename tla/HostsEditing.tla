---------------------------- MODULE HostsEditing ----------------------------
(***************************************************************************)
(* The life cycle of the daemons over the text of the hosts file.          *)
(* DaemonLifecycle knows of the file only whether it holds our block and   *)
(* which edit of the user's it carries; here every step that touches the   *)
(* file also does to its text what hosts.rs and `cp` do to it.  What only  *)
(* the text shows: a `cp` that is cut short (a kill, a full disk) leaves   *)
(* the first part of the staged file behind.                               *)
(***************************************************************************)
EXTENDS FiniteSets, DaemonLifecycle, HostsText

CONSTANT UserTexts   \* what a user writes above or below our block

ASSUME TextsAssumption == UserTexts \subseteq Seq(Words \cup Terminators)

VARIABLES
  text,        \* /etc/hosts
  stagedText,  \* <data dir>/hosts.staged
  mine,        \* history: the user's own lines as last written, or as a
               \* copy that was cut short left them
  cut,         \* history: the file holds the first part of a copy only
  unclosed     \* history: the user wrote below a block without its end

textVars == <<text, stagedText, mine, cut, unclosed>>

(* The lines of a text that are not blank, each behind a newline.          *)
Lines(t) ==
  LET starts == {k \in DOMAIN t : k = 1 \/ t[k - 1] \in Terminators}
  IN  FlattenSeq([k \in DOMAIN t |->
        IF t[k] \in Terminators THEN <<>>
        ELSE IF k \in starts THEN <<"\n", t[k]>> ELSE <<t[k]>>])

(* What is the user's in a hosts file: all but our block.                  *)
OwnLines(t) ==
  IF is_applied(t) THEN Lines(Before(t)) \o Lines(After(t)) ELSE Lines(t)

TextInit ==
  /\ Init
  /\ text \in UserTexts
  /\ stagedText = <<>>
  /\ mine = OwnLines(text)
  /\ cut = FALSE
  /\ unclosed = FALSE

-----------------------------------------------------------------------------
(* What each step does to the text.                                        *)

StageText(p) ==
  \/ /\ p \in Daemons /\ StageEnable(p)
     /\ stagedText' = apply(text)
     /\ UNCHANGED <<text, mine, cut, unclosed>>
  \/ /\ StageDisable(p)
     /\ stagedText' = strip(text)
     /\ UNCHANGED <<text, mine, cut, unclosed>>

InstallText(p) ==
  /\ (p \in Daemons /\ InstallEnable(p)) \/ InstallDisable(p)
  /\ text' = stagedText
  /\ cut' = FALSE
  /\ UNCHANGED <<stagedText, mine, unclosed>>

(* The process or its `cp` dies before the copy, or in the middle of it.   *)
CutShort(p) ==
  /\ p \in Staging
  /\ (p \in Daemons /\ EnableFails(p)) \/ DisableFails(p) \/ Kill(p)
  /\ \E n \in 0..Len(stagedText) - 1 : text' = SubSeq(stagedText, 1, n)
  /\ mine' = OwnLines(text')
  /\ cut' = TRUE
  /\ UNCHANGED <<stagedText, unclosed>>

(* The user rewrites what stands above and below our block.                *)
EditText ==
  /\ UserEdit
  /\ \E above, below \in UserTexts :
       /\ text' = IF is_applied(text)
                  THEN above \o SubSeq(text, Len(Before(text)) + 1, BlockEnd(text))
                             \o below
                  ELSE above \o below
       /\ mine' = IF is_applied(text) THEN Lines(above) \o Lines(below)
                                      ELSE Lines(text')
       /\ unclosed' = (is_applied(text) /\ First(END, text) = 0 /\ Lines(below) # <<>>)
  /\ UNCHANGED <<stagedText, cut>>

(* Every other step of a process, and of the holders of the port.          *)
Elsewhere ==
  /\ \/ \E d \in Daemons :
          \/ Start(d) \/ BootFails(d) \/ FlushEnable(d) \/ EnableFails(d)
          \/ CheckResolver(d) \/ ReloadResolver(d) \/ Recheck(d)
          \/ BindControl(d) \/ BindControlFails(d) \/ BindListener(d)
          \/ BindListenerFails(d) \/ Shutdown(d) \/ PostStop(d) \/ Interrupt(d)
          \/ InterruptUnarmed(d)
     \/ \E p \in Procs : FlushDisable(p) \/ DisableFails(p) \/ Kill(p)
     \/ ForeignBinds \/ ForeignLeaves
  /\ UNCHANGED textVars

TextNext ==
  \/ \E p \in Procs : StageText(p) \/ InstallText(p) \/ CutShort(p)
  \/ EditText
  \/ Elsewhere

TextSpec == TextInit /\ [][TextNext]_<<vars, textVars>> /\ Fairness

-----------------------------------------------------------------------------
(* Properties.                                                             *)

(* What DaemonLifecycle says of the file is what its text shows: the file  *)
(* holds our block exactly when the last batch that got through put it     *)
(* there (hosts.rs:14-84), whatever the user wrote around it and whatever  *)
(* an earlier copy that was cut short had left; and never two of them.     *)
BlockAsText ==
  /\ ~cut => (hosts.block <=> is_applied(text))
  /\ \A symbol \in {BEGIN, END} :
       Cardinality({i \in 1..Len(text) : text[i] = symbol}) <= 1

(* The module's promise (hosts.rs:5) to "never touch anything outside" the *)
(* block: however often the redirect comes and goes, and through crashes   *)
(* of a copy, every line of the user's that is not blank stays, in its     *)
(* order.  Not so for an edit between a batch's read and its copy, nor     *)
(* below a block that a crash has left without its end (hosts.rs:23).      *)
OwnLinesStay == ~raced /\ ~unclosed => OwnLines(text) = mine

(* A file just redirected, and not written since, is one the window's      *)
(* start report finds "already redirected" (hosts.rs:95, daemon.rs:445):   *)
(* applying the block again changes nothing.                               *)
AppliedIsCurrent == is_applied(text) /\ text = stagedText => is_current(text)
=============================================================================
