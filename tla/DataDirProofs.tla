------------------------------ MODULE DataDirProofs ------------------------------
(***************************************************************************)
(* The data directory under any number of commands of the window, of runs  *)
(* of the command line and of roots.                                       *)
(***************************************************************************)
EXTENDS DataDir, TLAPS

(* A command has a root in its hands.                                      *)
Held == {"loaded", "trust", "serve"}

(* While no root has been made beside another load: the files hold a pair, *)
(* or no root worth taking; whoever makes one is alone, and has only such  *)
(* a root to replace; and the root that is published is the one that those *)
(* who hold a root, and the user, have.                                    *)
RootOrder ==
  /\ cert \in Roots \ due => key = cert
  /\ \A a, b \in Actors : work[a].at \in Making /\ work[b].at \in Loading => a = b
  /\ \A a \in Actors : work[a].at = "key" => work[a].cert = cert
  /\ \A a \in Actors : work[a].at \in Making =>
       work[a].cert = work[a].key /\ cert \notin Roots \ due
  /\ \A a \in Actors : work[a].at \in {"cutCert", "fillCert"} => key = work[a].key
  /\ \A a \in Actors : work[a].at = "fillKey" => key = Torn
  /\ \A a \in Actors : work[a].at = "fillCert" => cert = Torn
  /\ \A a \in Actors : work[a].at \in Held =>
       /\ work[a].cert = work[a].key
       /\ work[a].cert \in Roots
       /\ work[a].cert \notin due => cert = work[a].cert
  /\ \A r \in user \ due : cert = r

(* While no two commands that change a setting have overlapped, and none   *)
(* has ended in the middle of its save: what such a command is about to    *)
(* write are the settings as they were last given, and its own.            *)
SettingsOrder ==
  /\ \A a, b \in Actors : work[a].at \in Saving /\ work[b].at \in Saving => a = b
  /\ \A a \in Actors : work[a].at \in Saving =>
       /\ work[a].op = "settings"
       /\ work[a].conf = [f \in Fields |-> IF f \in work[a].about THEN work[a].conf[f]
                                                                 ELSE said[f]]
  /\ \A a \in Actors : work[a].at = "fillConf" => config = Torn
  /\ SettingsStand

RootInv == DirTypeOK /\ (met \/ RootOrder)
SettingsInv == DirTypeOK /\ (clashed \/ hurt \/ SettingsOrder)

-----------------------------------------------------------------------------
(* Types.                                                                  *)

LEMMA RestingIsJob == Resting \in Jobs
  BY DEF Resting, Jobs, Steps, Ops, Files, Settings, Defaults

LEMMA JobsChange ==
  ASSUME DirTypeOK, NEW a \in Actors, NEW at \in Steps
  PROVE  [work EXCEPT ![a].at = at] \in [Actors -> Jobs]
  BY DEF DirTypeOK, Jobs

LEMMA StepsAre ==
  /\ Making \subseteq Steps /\ Loading \subseteq Steps /\ Saving \subseteq Steps
  /\ Held \subseteq Steps /\ "rest" \in Steps
  /\ Resting.at = "rest" /\ Resting.op = "init"
  BY DEF Making, Loading, Saving, Held, Steps, Resting

LEMMA FilesAre ==
  ASSUME DirTypeOK
  PROVE  /\ cert \in Files /\ key \in Files /\ 1 .. made \subseteq Roots
         /\ {cert} \cap Roots \subseteq 1 .. made
<1>1. made \in Nat /\ made <= MaxRoots /\ MaxRoots \in Nat
  BY RootsAssumption DEF DirTypeOK
<1>2. 1 .. made \subseteq Roots
  BY <1>1 DEF Roots
<1>3. None \notin Roots /\ Torn \notin Roots
  BY NamesAssumption, <1>1 DEF Roots
<1>4. cert \in 1 .. made \cup {None, Torn} /\ key \in 1 .. made \cup {None, Torn}
  BY DEF DirTypeOK
<1>5. QED
  BY <1>2, <1>3, <1>4 DEF Files

LEMMA BeginsTyped ==
  ASSUME DirTypeOK, NEW a \in Actors, NEW op \in Ops, Begins(a, op)
  PROVE  DirTypeOK'
<1>1. [Resting EXCEPT !.at = "cert", !.op = op] \in Jobs
  BY RestingIsJob DEF Jobs, Steps, Loading
<1>2. QED
  BY <1>1 DEF Begins, DirTypeOK, trustVars, configVars, Making, Meets

LEMMA LoadTyped ==
  ASSUME DirTypeOK, NEW a \in Actors, LoadStep(a)
  PROVE  DirTypeOK'
<1>1. CASE BeginView(a) \/ BeginInstall(a) \/ BeginInit(a) \/ BeginStart(a) \/ BeginDaemon(a)
  BY <1>1, BeginsTyped DEF BeginView, BeginInstall, BeginInit, BeginStart, BeginDaemon, Ops
<1>2. CASE ReadCert(a)
  <2>1. work' \in [Actors -> Jobs] /\ work'[a].at = "key" /\ \A b \in Actors \ {a} : work'[b] = work[b]
    BY <1>2, FilesAre DEF ReadCert, DirTypeOK, Jobs, Steps, Loading
  <2>2. QED
    BY <1>2, <2>1 DEF ReadCert, DirTypeOK, Making, rootVars, trustVars, configVars
<1>3. CASE ReadKey(a)
  <2>1. work' \in [Actors -> Jobs] /\ work'[a].at = "loaded" /\ \A b \in Actors \ {a} : work'[b] = work[b]
    BY <1>3, FilesAre DEF ReadKey, DirTypeOK, Jobs, Steps
  <2>2. QED
    BY <1>3, <2>1 DEF ReadKey, DirTypeOK, Making, rootVars, trustVars, configVars
<1>4. CASE Make(a)
  <2>1. made \in Nat /\ made' = made + 1 /\ made' \in 1 .. MaxRoots
    BY <1>4, RootsAssumption DEF Make, DirTypeOK
  <2>2. 1 .. made \subseteq 1 .. made' /\ made' \in 1 .. made' /\ made' \in Files
    BY <2>1 DEF Files, Roots
  <2>3. /\ work' \in [Actors -> Jobs]
        /\ {work'[a].cert, work'[a].key} = {made'}
        /\ \A b \in Actors \ {a} : work'[b] = work[b]
    <3>1. Follows("key") = "cutKey" /\ "cutKey" \in Steps
      BY DEF Follows, Steps, Loading, Making
    <3>2. work' = [work EXCEPT ![a].at = "cutKey", ![a].cert = made', ![a].key = made']
      BY <1>4, <3>1 DEF Make
    <3>3. QED
      BY <2>2, <3>1, <3>2 DEF DirTypeOK, Jobs
  <2>4. met' \in BOOLEAN
    BY <1>4 DEF Make, DirTypeOK
  <2>5. QED
    BY <1>4, <2>1, <2>2, <2>3, <2>4, RootsAssumption DEF Make, DirTypeOK, trustVars, configVars
<1>5. CASE CutKey(a)
  BY <1>5 DEF CutKey, Goes, Follows, DirTypeOK, Jobs, Steps, Making, Loading, Files, trustVars, configVars
<1>6. CASE FillKey(a)
  BY <1>6, RootsAssumption
     DEF FillKey, Goes, Follows, Overwritten, DirTypeOK, Jobs, Steps, Making, Loading, Files, Roots,
         trustVars, configVars
<1>7. CASE CutCert(a)
  BY <1>7 DEF CutCert, Goes, Follows, DirTypeOK, Jobs, Steps, Making, Loading, Files, trustVars, configVars
<1>8. CASE FillCert(a)
  BY <1>8, RootsAssumption
     DEF FillCert, Goes, Follows, Overwritten, DirTypeOK, Jobs, Steps, Making, Loading, Files, Roots,
         trustVars, configVars
<1>9. CASE MakeFails(a)
  BY <1>9, RestingIsJob, StepsAre
     DEF MakeFails, Ends, DirTypeOK, Making, rootVars, trustVars, configVars
<1>10. QED
  BY <1>1, <1>2, <1>3, <1>4, <1>5, <1>6, <1>7, <1>8, <1>9 DEF LoadStep

LEMMA ActorsAre ==
  /\ Actors = Main \cup Tasks \cup Runs
  /\ Torn # None /\ Torn \notin Nat /\ None \notin Nat
  /\ Torn \notin Actors /\ None \notin Actors
  BY NamesAssumption DEF Actors, Window

LEMMA AfterTyped ==
  ASSUME DirTypeOK, NEW a \in Actors, After(a), work[a].at \in Held,
         user' \subseteq 1 .. made, system' \subseteq 1 .. made
  PROVE  DirTypeOK'
<1>1. [Resting EXCEPT !.at = "cert", !.op = "view"] \in Jobs
  BY RestingIsJob DEF Jobs, Steps, Ops, Loading
<1>2. /\ work' \in [Actors -> Jobs]
      /\ work'[a].at \notin Making
      /\ \A b \in Actors \ {a} : work'[b] = work[b]
  <2>1. CASE work[a].op = "install"
    BY <1>1, <2>1 DEF After, DirTypeOK, Making, Resting
  <2>2. CASE work[a].op = "daemon"
    <3>1. work' = [work EXCEPT ![a].at = "serve"] /\ "serve" \in Steps
      BY <2>2 DEF After, Goes, Steps
    <3>2. QED
      BY <3>1 DEF DirTypeOK, Jobs, Making
  <2>3. CASE work[a].op \notin {"install", "daemon"}
    <3>1. work' = [work EXCEPT ![a] = Resting]
      BY <2>3 DEF After, Ends
    <3>2. QED
      BY <3>1, RestingIsJob, StepsAre DEF DirTypeOK, Making
  <2>4. QED
    BY <2>1, <2>2, <2>3
<1>3. QED
  BY <1>2 DEF After, DirTypeOK, configVars, Meets

LEMMA UseTyped ==
  ASSUME DirTypeOK, NEW a \in Actors, UseStep(a)
  PROVE  DirTypeOK'
<1>1. CASE Shown(a) \/ StopServing(a)
  BY <1>1, RestingIsJob, StepsAre
     DEF Shown, StopServing, Ends, DirTypeOK, Making, rootVars, trustVars, configVars
<1>2. CASE TrustStands(a) \/ TrustRefused(a)
  BY <1>2, AfterTyped DEF TrustStands, TrustRefused, DirTypeOK, Held, trustVars
<1>3. CASE AsksForTrust(a)
  BY <1>3 DEF AsksForTrust, Goes, DirTypeOK, Jobs, Steps, Making, rootVars, trustVars, configVars
<1>4. CASE TrustedByUser(a) \/ TrustedBySystem(a)
  <2>1. work[a].at \in Held /\ After(a)
    BY <1>4 DEF TrustedByUser, TrustedBySystem, Held
  <2>2. user' \subseteq 1 .. made /\ system' \subseteq 1 .. made
    BY <1>4, FilesAre DEF TrustedByUser, TrustedBySystem, DirTypeOK
  <2>3. QED
    BY <2>1, <2>2, AfterTyped
<1>5. QED
  BY <1>1, <1>2, <1>3, <1>4 DEF UseStep

LEMMA SettingsTyped ==
  ASSUME DirTypeOK, NEW a \in Actors, SettingsStep(a)
  PROVE  DirTypeOK'
<1>1. CASE BeginSettings(a)
  <2>1. PICK about \in Topics(a) : \E given \in Given(a, config) :
          work' = [work EXCEPT ![a] = [Resting EXCEPT !.at = "cutConf", !.op = "settings",
                                                       !.conf = Changed(config, about, given),
                                                       !.about = about]]
    BY <1>1 DEF BeginSettings
  <2>2. PICK given \in Given(a, config) :
          work' = [work EXCEPT ![a] = [Resting EXCEPT !.at = "cutConf", !.op = "settings",
                                                       !.conf = Changed(config, about, given),
                                                       !.about = about]]
    BY <2>1
  <2>3. config \in Settings
    BY <1>1 DEF BeginSettings, DirTypeOK
  <2>4. given \in Settings
    BY <2>3 DEF Given, Settings, Actors, Window
  <2>5. Changed(config, about, given) \in Settings
    BY <2>3, <2>4 DEF Changed, Settings, Fields
  <2>6. about \in SUBSET Fields
    BY DEF Topics
  <2>7. [Resting EXCEPT !.at = "cutConf", !.op = "settings",
                        !.conf = Changed(config, about, given), !.about = about] \in Jobs
    BY <2>5, <2>6, RestingIsJob DEF Jobs, Steps, Saving, Ops
  <2>8. QED
    BY <1>1, <2>2, <2>7
       DEF BeginSettings, DirTypeOK, Making, rootVars, trustVars
<1>2. CASE CutConfig(a)
  BY <1>2 DEF CutConfig, Goes, DirTypeOK, Jobs, Steps, Making, Saving, rootVars, trustVars
<1>3. CASE FillConfig(a)
  <2>1. work[a].conf \in Settings
    BY DEF DirTypeOK, Jobs
  <2>2. said' \in Settings
    BY <1>3, <2>1 DEF FillConfig, DirTypeOK, Settings, Fields
  <2>3. config' \in Settings \cup {Torn}
    BY <1>3, <2>1 DEF FillConfig, Overwritten
  <2>4. QED
    BY <1>3, <2>2, <2>3, RestingIsJob
       DEF FillConfig, Ends, DirTypeOK, Making, Resting, rootVars, trustVars
<1>4. CASE SaveFails(a)
  BY <1>4, RestingIsJob
     DEF SaveFails, Ends, DirTypeOK, Making, Resting, rootVars, trustVars
<1>5. QED
  BY <1>1, <1>2, <1>3, <1>4 DEF SettingsStep

LEMMA SurroundingsTyped ==
  ASSUME DirTypeOK, ComeDue \/ \E gone \in Deaths : Die(gone)
  PROVE  DirTypeOK'
<1>1. CASE ComeDue
  BY <1>1 DEF ComeDue, DirTypeOK, rootVars, trustVars, configVars
<1>2. ASSUME NEW gone \in Deaths, Die(gone)
      PROVE  DirTypeOK'
  BY <1>2, RestingIsJob DEF Die, DirTypeOK, Making, Resting, rootVars, trustVars
<1>3. QED
  BY <1>1, <1>2

LEMMA TypedInit == Init => DirTypeOK
<1>1. SUFFICES ASSUME Init PROVE DirTypeOK
  OBVIOUS
<1>2. Defaults \in Settings
  BY DEF Defaults, Settings
<1>3. /\ cert \in 1 .. made \cup {None, Torn} /\ key \in 1 .. made \cup {None, Torn}
      /\ made \in 0 .. MaxRoots
  BY <1>1, RootsAssumption DEF Init
<1>4. work \in [Actors -> Jobs] /\ \A a \in Actors : work[a].at \notin Making
  BY <1>1, RestingIsJob, StepsAre DEF Init, Making
<1>5. QED
  BY <1>1, <1>2, <1>3, <1>4 DEF Init, DirTypeOK

LEMMA TypedNext == DirTypeOK /\ [Next]_vars => DirTypeOK'
<1>1. SUFFICES ASSUME DirTypeOK, [Next]_vars PROVE DirTypeOK'
  OBVIOUS
<1>2. CASE Next
  BY <1>1, <1>2, LoadTyped, UseTyped, SettingsTyped, SurroundingsTyped DEF Next
<1>3. CASE UNCHANGED vars
  BY <1>1, <1>3 DEF vars, DirTypeOK
<1>4. QED
  BY <1>1, <1>2, <1>3

(* Every file, root and setting is what DirTypeOK says.                    *)
THEOREM DirTypeCorrect == Spec => []DirTypeOK
<1>1. QED
  BY TypedInit, TypedNext, PTL DEF Spec

-----------------------------------------------------------------------------
(* The root.                                                               *)

LEMMA NoRootIsNone ==
  /\ None \notin Roots /\ Torn \notin Roots /\ None # Torn
  BY RootsAssumption, NamesAssumption DEF Roots

(* A job that goes on with the root it has, or drops it, or looks for one  *)
(* while nobody makes one.                                                 *)
Keeps(a) ==
  \/ work'[a].at \notin Loading \cup Held
  \/ work'[a].at = "cert" /\ \A b \in Actors \ {a} : work'[b].at \notin Making
  \/ /\ work'[a].cert = work[a].cert /\ work'[a].key = work[a].key
     /\ work'[a].at = work[a].at \/ {work[a].at, work'[a].at} \subseteq Held

LEMMA KeptOrder ==
  ASSUME RootOrder, UNCHANGED <<cert, key>>, due \subseteq due',
         user' \subseteq user \cup {cert}, \A a \in Actors : Keeps(a)
  PROVE  RootOrder'
<1>1. \A a \in Actors : work'[a].at \in Making \cup {"key"} =>
        work'[a].at = work[a].at /\ work'[a].cert = work[a].cert /\ work'[a].key = work[a].key
  BY DEF Keeps, Held, Loading, Making
<1>2. \A a \in Actors : work'[a].at \in Held =>
        work[a].at \in Held /\ work'[a].cert = work[a].cert /\ work'[a].key = work[a].key
  BY DEF Keeps, Held, Loading, Making
<1>3. ASSUME NEW a \in Actors, NEW b \in Actors,
             work'[a].at \in Making, work'[b].at \in Loading
      PROVE  a = b
  <2>1. work[a].at \in Making
    BY <1>1, <1>3
  <2>2. CASE work[b].at \in Loading
    BY <2>1, <2>2 DEF RootOrder
  <2>3. CASE work[b].at \notin Loading
    BY <2>3, <1>3 DEF Keeps, Held, Loading, Making
  <2>4. QED
    BY <2>2, <2>3
<1>4. QED
  BY <1>1, <1>2, <1>3 DEF RootOrder, Making

LEMMA OneChanges ==
  ASSUME DirTypeOK, NEW a \in Actors
  PROVE  /\ \A j : \A b \in Actors :
              [work EXCEPT ![a] = j][b] = IF b = a THEN j ELSE work[b]
         /\ \A at : \A b \in Actors \ {a} : [work EXCEPT ![a].at = at][b] = work[b]
         /\ \A at : /\ [work EXCEPT ![a].at = at][a].at = at
                    /\ [work EXCEPT ![a].at = at][a].cert = work[a].cert
                    /\ [work EXCEPT ![a].at = at][a].key = work[a].key
  BY DEF DirTypeOK, Jobs

LEMMA EndsKeeps ==
  ASSUME DirTypeOK, NEW a \in Actors, Ends(a)
  PROVE  \A b \in Actors : Keeps(b)
  BY OneChanges DEF Ends, Resting, Keeps, Loading, Making, Held

LEMMA BeginsKeeps ==
  ASSUME DirTypeOK, NEW a \in Actors, NEW op, ~Meets(a),
         work' = [work EXCEPT ![a] = [Resting EXCEPT !.at = "cert", !.op = op]]
  PROVE  \A b \in Actors : Keeps(b)
  BY OneChanges DEF Resting, Keeps, Meets

LEMMA BeginsOrder ==
  ASSUME RootInv, NEW a \in Actors, NEW op, Begins(a, op), ~met'
  PROVE  RootOrder'
  BY BeginsKeeps, KeptOrder DEF Begins, RootInv, trustVars

LEMMA AfterOrder ==
  ASSUME RootInv, NEW a \in Actors, After(a), work[a].at \in Held, ~met',
         user' \subseteq user \cup {cert}
  PROVE  RootOrder'
<1>1. ~met /\ RootOrder /\ UNCHANGED <<cert, key, due>>
  BY DEF RootInv, After
<1>2. CASE work[a].op = "install"
  BY <1>1, <1>2, BeginsKeeps, KeptOrder DEF After, RootInv
<1>3. CASE work[a].op = "daemon"
  <2>1. work' = [work EXCEPT ![a].at = "serve"]
    BY <1>3 DEF After, Goes
  <2>2. \A b \in Actors : Keeps(b)
    BY <2>1, OneChanges DEF RootInv, Keeps, Held
  <2>3. QED
    BY <1>1, <2>2, KeptOrder
<1>4. CASE work[a].op \notin {"install", "daemon"}
  <2>1. Ends(a)
    BY <1>4 DEF After
  <2>2. QED
    BY <1>1, <2>1, EndsKeeps, KeptOrder DEF RootInv
<1>5. QED
  BY <1>2, <1>3, <1>4

LEMMA UseOrder ==
  ASSUME RootInv, NEW a \in Actors, UseStep(a), ~met'
  PROVE  RootOrder'
<1>1. CASE Shown(a) \/ StopServing(a)
  BY <1>1, EndsKeeps, KeptOrder DEF Shown, StopServing, RootInv, rootVars, trustVars
<1>2. CASE TrustStands(a) \/ TrustRefused(a) \/ TrustedByUser(a) \/ TrustedBySystem(a)
  BY <1>2, AfterOrder
     DEF TrustStands, TrustRefused, TrustedByUser, TrustedBySystem, Held, trustVars
<1>3. CASE AsksForTrust(a)
  <2>1. \A b \in Actors : Keeps(b)
    BY <1>3, OneChanges DEF AsksForTrust, Goes, RootInv, Keeps, Held
  <2>2. QED
    BY <1>3, <2>1, KeptOrder DEF AsksForTrust, RootInv, rootVars, trustVars
<1>4. QED
  BY <1>1, <1>2, <1>3 DEF UseStep

LEMMA SettingsKeepOrder ==
  ASSUME RootInv, NEW a \in Actors, SettingsStep(a), ~met'
  PROVE  RootOrder'
<1>1. work'[a].at \notin Loading \cup Held /\ \A b \in Actors \ {a} : work'[b] = work[b]
  <2>1. CASE BeginSettings(a)
    BY <2>1, OneChanges DEF BeginSettings, RootInv, Resting, Loading, Making, Held
  <2>2. CASE CutConfig(a)
    BY <2>2, OneChanges DEF CutConfig, Goes, RootInv, Loading, Making, Held
  <2>3. CASE FillConfig(a) \/ SaveFails(a)
    BY <2>3, OneChanges DEF FillConfig, SaveFails, Ends, RootInv, Resting, Loading, Making, Held
  <2>4. QED
    BY <2>1, <2>2, <2>3 DEF SettingsStep
<1>2. \A b \in Actors : Keeps(b)
  BY <1>1 DEF Keeps
<1>3. UNCHANGED <<cert, key, due, user, met>>
  BY DEF SettingsStep, BeginSettings, CutConfig, FillConfig, SaveFails, rootVars, trustVars
<1>4. QED
  BY <1>2, <1>3, KeptOrder DEF RootInv

LEMMA SurroundingsOrder ==
  ASSUME RootInv, ComeDue \/ \E gone \in Deaths : Die(gone), ~met'
  PROVE  RootOrder'
<1>1. CASE ComeDue
  <2>1. due \subseteq due' /\ UNCHANGED <<cert, key, met, user, work>>
    BY <1>1 DEF ComeDue, rootVars, trustVars
  <2>2. \A b \in Actors : Keeps(b)
    BY <2>1 DEF Keeps
  <2>3. QED
    BY <2>1, <2>2, KeptOrder DEF RootInv
<1>2. ASSUME NEW gone \in Deaths, Die(gone)
      PROVE  RootOrder'
  <2>1. UNCHANGED <<cert, key, met, user, due>>
    BY <1>2 DEF Die, rootVars, trustVars
  <2>2. \A b \in Actors : Keeps(b)
    BY <1>2 DEF Die, Keeps, Resting, Loading, Making, Held
  <2>3. QED
    BY <2>1, <2>2, KeptOrder DEF RootInv
<1>3. QED
  BY <1>1, <1>2

(* A root's maker is the only one who is loading, and nobody holds or      *)
(* trusts a root that the files could lose.                                *)
LEMMA MakerIsAlone ==
  ASSUME RootInv, NEW a \in Actors, work[a].at \in Making, ~met
  PROVE  /\ \A b \in Actors \ {a} : work[b].at \notin Loading
         /\ cert \notin Roots \ due
         /\ work[a].cert = work[a].key /\ work[a].cert \in Roots
         /\ \A b \in Actors : work[b].at \in Held => work[b].cert \in due
         /\ user \ due = {}
<1>1. RootOrder /\ DirTypeOK
  BY DEF RootInv
<1>2. cert \notin Roots \ due /\ work[a].cert = work[a].key
  BY <1>1 DEF RootOrder
<1>3. work[a].cert \in Roots /\ user \subseteq Roots
  BY <1>1, FilesAre DEF DirTypeOK
<1>4. \A b \in Actors \ {a} : work[b].at \notin Loading
  BY <1>1 DEF RootOrder
<1>5. \A b \in Actors : work[b].at \in Held => work[b].cert \in due
  BY <1>1, <1>2 DEF RootOrder
<1>6. user \ due = {}
  BY <1>1, <1>2, <1>3 DEF RootOrder
<1>7. QED
  BY <1>2, <1>3, <1>4, <1>5, <1>6

(* The steps of making a root, taken alone.                                *)
LEMMA MakerOrder ==
  ASSUME RootInv, NEW a \in Actors, work[a].at \in Making, ~met,
         NEW at, Goes(a, at), UNCHANGED <<due, user>>,
         \/ at = "fillKey" /\ key' = Torn /\ cert' = cert
         \/ at = "cutCert" /\ key' = work[a].key /\ cert' = cert
         \/ at = "fillCert" /\ key' = work[a].key /\ cert' = Torn
         \/ at = "loaded" /\ key' = work[a].key /\ cert' = work[a].cert
  PROVE  RootOrder'
<1>1. /\ \A b \in Actors \ {a} : work'[b] = work[b]
      /\ work'[a].at = at /\ work'[a].cert = work[a].cert /\ work'[a].key = work[a].key
  BY OneChanges DEF Goes, RootInv
<1>2. \A b \in Actors \ {a} : work'[b].at \notin Loading
  BY <1>1, MakerIsAlone
<1>3. \A b \in Actors \ {a} : work'[b].at \notin Making /\ work'[b].at # "key"
  BY <1>2 DEF Loading
<1>4. cert' \in Roots \ due' => at = "loaded" /\ key' = cert'
  BY MakerIsAlone, NoRootIsNone
<1>5. at \in Making => cert' \notin Roots \ due'
  BY <1>4 DEF Making
<1>6. \A b \in Actors \ {a} : work'[b].at \in Held =>
        work'[b].cert = work'[b].key /\ work'[b].cert \in Roots /\ work'[b].cert \in due'
  BY <1>1, MakerIsAlone DEF RootInv, RootOrder
<1>7. at \in Held => at = "loaded"
  BY DEF Held
<1>8. at # "key"
  OBVIOUS
<1>9. QED
  BY <1>1, <1>2, <1>3, <1>4, <1>5, <1>6, <1>7, <1>8, MakerIsAlone DEF RootOrder, Making

LEMMA ReadCertOrder ==
  ASSUME RootInv, NEW a \in Actors, ReadCert(a), ~met'
  PROVE  RootOrder'
<1>1. RootOrder /\ UNCHANGED <<cert, key, due, user>>
  BY DEF RootInv, ReadCert, rootVars, trustVars
<1>2. /\ \A b \in Actors \ {a} : work'[b] = work[b]
      /\ work'[a].at = "key" /\ work'[a].cert = cert
  BY DEF RootInv, ReadCert, DirTypeOK, Jobs
<1>3. work[a].at \in Loading /\ "key" \notin Making /\ "key" \notin Held
  BY DEF ReadCert, Loading, Making, Held
<1>4. \A x, y \in Actors : work'[x].at \in Making /\ work'[y].at \in Loading => x = y
  BY <1>1, <1>2, <1>3 DEF RootOrder
<1>5. QED
  BY <1>1, <1>2, <1>3, <1>4 DEF RootOrder

LEMMA ReadKeyOrder ==
  ASSUME RootInv, NEW a \in Actors, ReadKey(a), ~met'
  PROVE  RootOrder'
<1>1. RootOrder /\ UNCHANGED <<cert, key, due, user>>
  BY DEF RootInv, ReadKey, rootVars, trustVars
<1>2. /\ \A b \in Actors \ {a} : work'[b] = work[b]
      /\ work'[a].at = "loaded" /\ work'[a].cert = work[a].cert /\ work'[a].key = key
  BY DEF RootInv, ReadKey, DirTypeOK, Jobs
<1>3. work[a].cert = cert /\ cert \in Roots \ due /\ key = cert
  BY <1>1 DEF ReadKey, Sound, RootOrder
<1>4. "loaded" \notin Loading /\ "loaded" \notin Making
  BY DEF Loading, Making
<1>5. \A x, y \in Actors : work'[x].at \in Making /\ work'[y].at \in Loading => x = y
  BY <1>1, <1>2, <1>4 DEF RootOrder
<1>6. QED
  BY <1>1, <1>2, <1>3, <1>4, <1>5 DEF RootOrder

LEMMA MakeOrder ==
  ASSUME RootInv, NEW a \in Actors, Make(a), ~met'
  PROVE  RootOrder'
<1>1. RootOrder /\ UNCHANGED <<cert, key, due, user>>
  BY DEF RootInv, Make, trustVars
<1>2. Follows("key") = "cutKey"
  BY DEF Follows
<1>3. work' = [work EXCEPT ![a].at = "cutKey", ![a].cert = made', ![a].key = made']
  BY <1>2 DEF Make
<1>4. /\ \A b \in Actors \ {a} : work'[b] = work[b]
      /\ work'[a].at = "cutKey" /\ work'[a].cert = work'[a].key
  BY <1>3 DEF RootInv, DirTypeOK, Jobs
<1>5. \A b \in Actors \ {a} : work[b].at \notin Loading
  BY DEF Make
<1>6. \A b \in Actors \ {a} : work'[b].at \notin Loading /\ work'[b].at \notin Making
  BY <1>4, <1>5 DEF Loading
<1>7. cert \notin Roots \ due
  <2>1. work[a].cert = cert
    BY <1>1 DEF Make, RootOrder
  <2>2. cert \in Roots \ due => key = cert /\ key # None
    BY <1>1, NoRootIsNone DEF RootOrder
  <2>3. QED
    BY <2>1, <2>2 DEF Make, Sound
<1>8. "cutKey" \notin Held
  BY DEF Held
<1>9. key' = work'[a].key \/ work'[a].at \notin {"cutCert", "fillCert"}
  BY <1>4
<1>10. \A b \in Actors : work'[b].at \in Making => b = a
  BY <1>6
<1>11. \A b \in Actors : work'[b].at # "key"
  BY <1>4, <1>6 DEF Loading
<1>12. \A b \in Actors : work'[b].at \in Held => b # a /\ work'[b] = work[b]
  BY <1>4, <1>8
<1>13. QED
  BY <1>1, <1>4, <1>6, <1>7, <1>10, <1>11, <1>12 DEF RootOrder, Making

LEMMA LoadOrder ==
  ASSUME RootInv, NEW a \in Actors, LoadStep(a), ~met'
  PROVE  RootOrder'
<1>1. CASE BeginView(a) \/ BeginInstall(a) \/ BeginInit(a) \/ BeginStart(a) \/ BeginDaemon(a)
  BY <1>1, BeginsOrder DEF BeginView, BeginInstall, BeginInit, BeginStart, BeginDaemon
<1>2. CASE ReadCert(a) \/ ReadKey(a) \/ Make(a)
  BY <1>2, ReadCertOrder, ReadKeyOrder, MakeOrder
<1>3. CASE CutKey(a)
  <2>1. Goes(a, "fillKey") /\ work[a].at \in Making
    BY <1>3 DEF CutKey, Follows, Making
  <2>2. QED
    BY <1>3, <2>1, MakerOrder DEF CutKey, trustVars
<1>4. CASE FillKey(a)
  <2>1. Goes(a, "cutCert") /\ work[a].at \in Making
    BY <1>4 DEF FillKey, Follows, Making
  <2>2. key' = work[a].key
    <3>1. key = Torn
      BY <1>4 DEF FillKey, RootInv, RootOrder
    <3>2. QED
      BY <1>4, <3>1 DEF FillKey, Overwritten
  <2>3. QED
    BY <1>4, <2>1, <2>2, MakerOrder DEF FillKey, trustVars
<1>5. CASE CutCert(a)
  <2>1. Goes(a, "fillCert") /\ work[a].at \in Making
    BY <1>5 DEF CutCert, Follows, Making
  <2>2. key' = work[a].key
    BY <1>5 DEF CutCert, RootInv, RootOrder
  <2>3. QED
    BY <1>5, <2>1, <2>2, MakerOrder DEF CutCert, trustVars
<1>6. CASE FillCert(a)
  <2>1. Goes(a, "loaded") /\ work[a].at \in Making
    BY <1>6 DEF FillCert, Follows, Making
  <2>2. key' = work[a].key
    BY <1>6 DEF FillCert, RootInv, RootOrder
  <2>3. cert' = work[a].cert
    <3>1. cert = Torn
      BY <1>6 DEF FillCert, RootInv, RootOrder
    <3>2. QED
      BY <1>6, <3>1 DEF FillCert, Overwritten
  <2>4. QED
    BY <1>6, <2>1, <2>2, <2>3, MakerOrder DEF FillCert, trustVars
<1>7. CASE MakeFails(a)
  BY <1>7, EndsKeeps, KeptOrder DEF MakeFails, RootInv, rootVars, trustVars
<1>8. QED
  BY <1>1, <1>2, <1>3, <1>4, <1>5, <1>6, <1>7 DEF LoadStep

LEMMA RootInit == Init => RootInv
<1>1. SUFFICES ASSUME Init PROVE RootOrder
  BY TypedInit DEF RootInv
<1>2. \A a \in Actors : work[a].at = "rest"
  BY <1>1, StepsAre DEF Init
<1>3. user = {} /\ key = cert
  BY <1>1 DEF Init
<1>4. QED
  BY <1>2, <1>3 DEF RootOrder, Making, Loading, Held

LEMMA RootNext == RootInv /\ [Next]_vars => RootInv'
<1>1. SUFFICES ASSUME RootInv, [Next]_vars, ~met' PROVE RootOrder'
  BY TypedNext DEF RootInv
<1>2. CASE Next
  BY <1>1, <1>2, LoadOrder, UseOrder, SettingsKeepOrder, SurroundingsOrder DEF Next
<1>3. CASE UNCHANGED vars
  <2>1. UNCHANGED <<cert, key, due, user, work, met>>
    BY <1>3 DEF vars
  <2>2. \A a \in Actors : Keeps(a)
    BY <2>1 DEF Keeps
  <2>3. QED
    BY <1>1, <2>1, <2>2, KeptOrder DEF RootInv
<1>4. QED
  BY <1>1, <1>2, <1>3

(* Unless a root was made beside another load, the root in the files goes  *)
(* with its key and so does every root in a command's hands.               *)
THEOREM PairsCorrect == Spec => []PairsMatch
<1>1. RootInv => PairsMatch
  BY DEF RootInv, RootOrder, PairsMatch, Held
<1>2. QED
  BY <1>1, RootInit, RootNext, PTL DEF Spec

(* Under the same condition a daemon serves the root that is in the file,  *)
(* until that root is due.                                                 *)
THEOREM ServesCorrect == Spec => []ServesPublished
<1>1. RootInv => ServesPublished
  BY DEF RootInv, RootOrder, ServesPublished, Held
<1>2. QED
  BY <1>1, RootInit, RootNext, PTL DEF Spec

(* Under the same condition a root that the user trusts stays the one in   *)
(* use, until it is due.                                                   *)
THEOREM TrustCorrect == Spec => []TrustLasts
<1>1. RootInv => TrustLasts
  BY DEF RootInv, RootOrder, TrustLasts
<1>2. QED
  BY <1>1, RootInit, RootNext, PTL DEF Spec

-----------------------------------------------------------------------------
(* The files implement RootRegistry.  On top of RootOrder: who makes a root *)
(* makes the newest one.                                                   *)

Newest == \A a \in Actors : work[a].at \in Making => work[a].cert = made

RegistryInv == RootInv /\ (met \/ Newest)

LEMMA AfterMoves ==
  ASSUME DirTypeOK, NEW a \in Actors, After(a)
  PROVE  /\ \A b \in Actors \ {a} : work'[b] = work[b]
         /\ work[a].op = "daemon" => work'[a].at = "serve" /\ work'[a].cert = work[a].cert
         /\ work[a].op # "daemon" => work'[a].at \in {"cert", "rest"}
<1>1. CASE work[a].op = "install"
  <2>1. work' = [work EXCEPT ![a] = [Resting EXCEPT !.at = "cert", !.op = "view"]]
    BY <1>1 DEF After
  <2>2. [Resting EXCEPT !.at = "cert", !.op = "view"].at = "cert"
    BY DEF Resting
  <2>3. QED
    BY <1>1, <2>1, <2>2, OneChanges
<1>2. CASE work[a].op = "daemon"
  <2>1. work' = [work EXCEPT ![a].at = "serve"]
    BY <1>2 DEF After, Goes
  <2>2. QED
    BY <1>2, <2>1, OneChanges
<1>3. CASE work[a].op \notin {"install", "daemon"}
  <2>1. work' = [work EXCEPT ![a] = Resting]
    BY <1>3 DEF After, Ends
  <2>2. QED
    BY <1>3, <2>1, OneChanges, StepsAre
<1>4. QED
  BY <1>1, <1>2, <1>3

LEMMA SettingsMoves ==
  ASSUME DirTypeOK, NEW a \in Actors, SettingsStep(a)
  PROVE  /\ \A b \in Actors \ {a} : work'[b] = work[b]
         /\ work[a].at # "serve" /\ work'[a].at \in Saving \cup {"rest"}
<1>1. CASE BeginSettings(a)
  BY <1>1, OneChanges DEF BeginSettings, Resting, Saving
<1>2. CASE CutConfig(a)
  BY <1>2, OneChanges DEF CutConfig, Goes, Saving
<1>3. CASE FillConfig(a) \/ SaveFails(a)
  BY <1>3, OneChanges, StepsAre DEF FillConfig, SaveFails, Ends, Saving
<1>4. QED
  BY <1>1, <1>2, <1>3 DEF SettingsStep

LEMMA UseMoves ==
  ASSUME DirTypeOK, NEW a \in Actors, UseStep(a)
  PROVE  /\ \A b \in Actors \ {a} : work'[b] = work[b]
         /\ work'[a].at \in {"cert", "rest", "trust", "serve"}
<1>1. CASE Shown(a) \/ StopServing(a)
  BY <1>1, OneChanges, StepsAre DEF Shown, StopServing, Ends
<1>2. CASE AsksForTrust(a)
  BY <1>2, OneChanges DEF AsksForTrust, Goes
<1>3. CASE TrustStands(a) \/ TrustRefused(a) \/ TrustedBySystem(a) \/ TrustedByUser(a)
  <2>1. After(a)
    BY <1>3 DEF TrustStands, TrustRefused, TrustedBySystem, TrustedByUser
  <2>2. QED
    BY <2>1, AfterMoves
<1>4. QED
  BY <1>1, <1>2, <1>3 DEF UseStep

(* A meeting is not forgotten.                                             *)
LEMMA MeetingStays == [Next]_vars /\ ~met' => ~met
<1>1. SUFFICES ASSUME [Next]_vars, ~met' PROVE ~met
  OBVIOUS
<1>2. ASSUME NEW a \in Actors, LoadStep(a) PROVE ~met
  <2>1. CASE BeginView(a) \/ BeginInstall(a) \/ BeginInit(a) \/ BeginStart(a) \/ BeginDaemon(a)
    BY <1>1, <2>1 DEF BeginView, BeginInstall, BeginInit, BeginStart, BeginDaemon, Begins
  <2>2. CASE Make(a)
    BY <1>1, <2>2 DEF Make
  <2>3. CASE ReadCert(a) \/ ReadKey(a) \/ MakeFails(a)
    BY <1>1, <2>3 DEF ReadCert, ReadKey, MakeFails, rootVars
  <2>4. CASE CutKey(a) \/ FillKey(a) \/ CutCert(a) \/ FillCert(a)
    BY <1>1, <2>4 DEF CutKey, FillKey, CutCert, FillCert
  <2>5. QED
    BY <1>2, <2>1, <2>2, <2>3, <2>4 DEF LoadStep
<1>3. ASSUME NEW a \in Actors, UseStep(a) PROVE ~met
  <2>1. met' = met \/ After(a)
    BY <1>3 DEF UseStep, Shown, TrustStands, AsksForTrust, TrustedByUser, TrustedBySystem, TrustRefused,
                StopServing, rootVars
  <2>2. After(a) => ~met
    BY <1>1 DEF After
  <2>3. QED
    BY <1>1, <2>1, <2>2
<1>4. ASSUME NEW a \in Actors, SettingsStep(a) PROVE ~met
  BY <1>1, <1>4 DEF SettingsStep, BeginSettings, CutConfig, FillConfig, SaveFails, rootVars
<1>5. CASE ComeDue \/ (\E gone \in Deaths : Die(gone)) \/ UNCHANGED vars
  BY <1>1, <1>5 DEF ComeDue, Die, rootVars, vars
<1>6. QED
  BY <1>1, <1>2, <1>3, <1>4, <1>5 DEF Next

LEMMA NewestNext ==
  ASSUME RegistryInv, [Next]_vars, ~met'
  PROVE  Newest'
<1>1. RootInv /\ Newest /\ ~met /\ DirTypeOK
  BY MeetingStays DEF RegistryInv, RootInv
<1>2. ASSUME NEW a \in Actors, Make(a)
      PROVE  Newest'
  <2>1. work' = [work EXCEPT ![a].at = "cutKey", ![a].cert = made', ![a].key = made']
    BY <1>2 DEF Make, Follows
  <2>2. work'[a].cert = made' /\ \A b \in Actors \ {a} : work'[b] = work[b]
    BY <1>1, <2>1 DEF RootInv, DirTypeOK, Jobs
  <2>3. \A b \in Actors \ {a} : work[b].at \notin Making
    BY <1>2 DEF Make, Loading
  <2>4. QED
    BY <2>2, <2>3 DEF Newest
<1>3. ASSUME made' = made,
             \A b \in Actors : work'[b].at \in Making =>
               work[b].at \in Making /\ work'[b].cert = work[b].cert
      PROVE  Newest'
  BY <1>1, <1>3 DEF Newest
<1>4. ASSUME NEW a \in Actors, LoadStep(a), ~Make(a)
      PROVE  Newest'
  <2>1. made' = made
    BY <1>4 DEF LoadStep, BeginView, BeginInstall, BeginInit, BeginStart, BeginDaemon, Begins, ReadCert,
                ReadKey, CutKey, FillKey, CutCert, FillCert, MakeFails, rootVars
  <2>2. CASE BeginView(a) \/ BeginInstall(a) \/ BeginInit(a) \/ BeginStart(a) \/ BeginDaemon(a)
    <3>1. PICK op \in Ops : Begins(a, op)
      BY <2>2 DEF BeginView, BeginInstall, BeginInit, BeginStart, BeginDaemon, Ops
    <3>2. work'[a].at = "cert" /\ \A b \in Actors \ {a} : work'[b] = work[b]
      BY <1>1, <3>1, OneChanges DEF Begins, RootInv, Resting
    <3>3. QED
      BY <1>3, <2>1, <3>2 DEF Making
  <2>3. CASE ReadCert(a) \/ ReadKey(a)
    <3>1. work'[a].at \in {"key", "loaded"} /\ \A b \in Actors \ {a} : work'[b] = work[b]
      BY <1>1, <2>3 DEF ReadCert, ReadKey, RootInv, DirTypeOK, Jobs
    <3>2. QED
      BY <1>3, <2>1, <3>1 DEF Making
  <2>4. CASE CutKey(a) \/ FillKey(a) \/ CutCert(a) \/ FillCert(a)
    <3>1. PICK at : Goes(a, at)
      BY <2>4 DEF CutKey, FillKey, CutCert, FillCert
    <3>2. work'[a].cert = work[a].cert /\ \A b \in Actors \ {a} : work'[b] = work[b]
      BY <1>1, <3>1, OneChanges DEF Goes, RootInv
    <3>3. work[a].at \in Making
      BY <2>4 DEF CutKey, FillKey, CutCert, FillCert, Making
    <3>4. QED
      BY <1>3, <2>1, <3>2, <3>3
  <2>5. CASE MakeFails(a)
    BY <1>1, <1>3, <2>1, <2>5, OneChanges DEF MakeFails, Ends, Resting, Making, RootInv
  <2>6. QED
    BY <1>4, <2>2, <2>3, <2>4, <2>5 DEF LoadStep
<1>5. ASSUME NEW a \in Actors, UseStep(a) \/ SettingsStep(a)
      PROVE  Newest'
  <2>1. made' = made
    BY <1>5 DEF UseStep, SettingsStep, Shown, TrustStands, AsksForTrust, TrustedByUser, TrustedBySystem,
                TrustRefused, StopServing, After, BeginSettings, CutConfig, FillConfig, SaveFails, rootVars
  <2>2. \A b \in Actors \ {a} : work'[b] = work[b]
    BY <1>1, <1>5, UseMoves, SettingsMoves
  <2>3. work'[a].at \notin Making
    BY <1>1, <1>5, UseMoves, SettingsMoves DEF Making, Saving
  <2>4. QED
    BY <1>3, <2>1, <2>2, <2>3
<1>6. CASE ComeDue \/ UNCHANGED vars
  BY <1>3, <1>6 DEF ComeDue, vars, rootVars
<1>7. ASSUME NEW gone \in Deaths, Die(gone)
      PROVE  Newest'
  <2>1. \A b \in Actors : work'[b] = work[b] \/ work'[b] = Resting
    BY <1>7 DEF Die
  <2>2. QED
    BY <1>3, <1>7, <2>1 DEF Die, rootVars, Resting, Making
<1>8. QED
  BY <1>2, <1>4, <1>5, <1>6, <1>7 DEF Next

LEMMA RegistryHolds == Spec => []RegistryInv
<1>1. Init => RegistryInv
  BY RootInit, StepsAre DEF Init, RegistryInv, Newest, Making
<1>2. RegistryInv /\ [Next]_vars => RegistryInv'
  BY RootNext, NewestNext DEF RegistryInv
<1>3. QED
  BY <1>1, <1>2, PTL DEF Spec

(* What is seen of the files and the daemons.                              *)
LEMMA PublishedIs ==
  ASSUME RootOrder
  PROVE  Published = IF Good(cert) THEN cert ELSE None
BY DEF RootOrder, Published, Good

ServesGood(a) == work[a].at = "serve" /\ Good(work[a].cert)

LEMMA ServedIs ==
  /\ Served \in [Actors -> {work[a].cert : a \in Actors} \cup {None}]
  /\ \A a \in Actors : Served[a] = IF ServesGood(a) THEN work[a].cert ELSE None
BY DEF Served, ServesGood

(* A step that leaves the root, and the user's trust in it, alone.         *)
LEMMA ServedOn ==
  ASSUME due' = due,
         \A a \in Actors :
           \/ work'[a].at # "serve" /\ work[a].at # "serve"
           \/ work'[a] = work[a]
  PROVE  Served' = Served
<1>1. \A a \in Actors : ServesGood(a)' = ServesGood(a) /\ (ServesGood(a) => work'[a] = work[a])
  BY DEF ServesGood, Good
<1>2. QED
  BY <1>1 DEF Served, ServesGood

LEMMA PublishedOn ==
  ASSUME RootOrder, RootOrder', due' = due,
         \/ cert' = cert
         \/ ~Good(cert) /\ ~Good(cert)'
  PROVE  Published' = Published
<1>1. Published = IF Good(cert) THEN cert ELSE None
  BY PublishedIs
<1>2. Published' = IF Good(cert)' THEN cert' ELSE None
  BY DEF RootOrder, Published, Good
<1>3. cert' = cert => Good(cert)' = Good(cert)
  BY DEF Good
<1>4. QED
  BY <1>1, <1>2, <1>3

LEMMA LoadRegistry ==
  ASSUME RegistryInv, RootInv', NEW a \in Actors, LoadStep(a), ~met'
  PROVE  [Registry!Next]_(Registry!registry)
<1>1. RootOrder /\ RootOrder' /\ Newest /\ ~met /\ RootInv /\ DirTypeOK /\ UNCHANGED <<due, user>>
  <2>1. [Next]_vars
    BY DEF Next
  <2>2. ~met
    BY <2>1, MeetingStays
  <2>3. UNCHANGED <<due, user>>
    BY DEF LoadStep, BeginView, BeginInstall, BeginInit, BeginStart, BeginDaemon, Begins, ReadCert, ReadKey,
           Make, CutKey, FillKey, CutCert, FillCert, MakeFails, trustVars
  <2>4. QED
    BY <2>2, <2>3 DEF RegistryInv, RootInv
<1>2. Served' = Served
  <2>1. \A b \in Actors \ {a} : work'[b] = work[b]
    BY <1>1, OneChanges
       DEF DirTypeOK, Jobs, LoadStep, BeginView, BeginInstall, BeginInit, BeginStart, BeginDaemon, Begins,
           ReadCert, ReadKey, Make, CutKey, FillKey, CutCert, FillCert, MakeFails, Goes, Ends
  <2>2. work[a].at # "serve"
    BY DEF LoadStep, BeginView, BeginInstall, BeginInit, BeginStart, BeginDaemon, Begins,
           ReadCert, ReadKey, Make, CutKey, FillKey, CutCert, FillCert, MakeFails, Making
  <2>3. work'[a].at # "serve"
    <3>1. CASE BeginView(a) \/ BeginInstall(a) \/ BeginInit(a) \/ BeginStart(a) \/ BeginDaemon(a)
      <4>1. PICK op \in Ops : Begins(a, op)
        BY <3>1 DEF BeginView, BeginInstall, BeginInit, BeginStart, BeginDaemon, Ops
      <4>2. QED
        BY <1>1, <4>1, OneChanges DEF Begins, Resting
    <3>2. CASE ReadCert(a) \/ ReadKey(a) \/ Make(a)
      BY <1>1, <3>2 DEF ReadCert, ReadKey, Make, Follows, DirTypeOK, Jobs
    <3>3. CASE CutKey(a) \/ FillKey(a) \/ CutCert(a) \/ FillCert(a)
      <4>1. PICK at \in {"fillKey", "cutCert", "fillCert", "loaded"} : Goes(a, at)
        BY <3>3 DEF CutKey, FillKey, CutCert, FillCert, Follows
      <4>2. QED
        BY <1>1, <4>1, OneChanges DEF Goes
    <3>4. CASE MakeFails(a)
      BY <1>1, <3>4, OneChanges, StepsAre DEF MakeFails, Ends
    <3>5. QED
      BY <3>1, <3>2, <3>3, <3>4 DEF LoadStep
  <2>4. QED
    BY <1>1, <2>1, <2>2, <2>3, ServedOn
<1>3. CASE UNCHANGED <<cert, made>>
  BY <1>1, <1>2, <1>3, PublishedOn DEF Registry!registry
<1>4. CASE Make(a)
  <2>1. cert' = cert /\ made' = made + 1
    BY <1>4 DEF Make
  <2>2. Published' = Published
    BY <1>1, <2>1, PublishedOn
  <2>3. work'[a].at \in Making
    BY <1>1, <1>4 DEF Make, Follows, DirTypeOK, Jobs, Making
  <2>4. Published' = None
    BY <1>1, <2>3 DEF RootOrder, Published, Good
  <2>5. Registry!Issue
    BY <1>1, <1>2, <2>1, <2>2, <2>4 DEF Registry!Issue
  <2>6. QED
    BY <2>5 DEF Registry!Next
<1>5. CASE CutCert(a)
  <2>1. ~Good(cert) /\ ~Good(cert)'
    BY <1>1, <1>5, MakerIsAlone, NoRootIsNone DEF CutCert, Making, Good
  <2>2. made' = made
    BY <1>5 DEF CutCert
  <2>3. QED
    BY <1>1, <1>2, <2>1, <2>2, PublishedOn DEF Registry!registry
<1>6. CASE FillCert(a)
  <2>1. work[a].at = "fillCert" /\ made' = made /\ work[a].cert = made
    BY <1>1, <1>6 DEF FillCert, Newest, Making
  <2>2. cert' = made
    BY <1>1, <1>6, <2>1 DEF FillCert, Overwritten, RootOrder
  <2>3. ~Good(cert) /\ made \in Roots
    BY <1>1, <2>1, MakerIsAlone DEF Making, Good
  <2>4. CASE made \in due
    <3>1. ~Good(cert)'
      BY <1>1, <2>2, <2>4 DEF Good
    <3>2. QED
      BY <1>1, <1>2, <2>1, <2>3, <3>1, PublishedOn DEF Registry!registry
  <2>5. CASE made \notin due
    <3>1. Published = None
      BY <1>1, <2>3, PublishedIs
    <3>2. Published' = made
      BY <1>1, <2>2, <2>3, <2>5 DEF RootOrder, Published, Good
    <3>3. Registry!Publish
      BY <1>1, <1>2, <2>1, <2>5, <3>1, <3>2 DEF Registry!Publish
    <3>4. QED
      BY <3>3 DEF Registry!Next
  <2>6. QED
    BY <2>4, <2>5
<1>7. UNCHANGED <<cert, made>> \/ Make(a) \/ CutCert(a) \/ FillCert(a)
  BY DEF LoadStep, BeginView, BeginInstall, BeginInit, BeginStart, BeginDaemon, Begins,
         ReadCert, ReadKey, CutKey, FillKey, MakeFails, rootVars
<1>8. QED
  BY <1>3, <1>4, <1>5, <1>6, <1>7

(* Daemons leave.                                                          *)
LEMMA LeaveRegistry ==
  ASSUME RootOrder, RootOrder', UNCHANGED <<cert, made, due, user>>, NEW gone \in SUBSET Actors,
         \A b \in Actors : IF b \in gone THEN work'[b].at # "serve" ELSE work'[b] = work[b]
  PROVE  Registry!Next
<1>1. Published' = Published
  BY PublishedOn
<1>2. Served' = [b \in Actors |-> IF b \in gone THEN None ELSE Served[b]]
  <2>1. \A b \in Actors :
          (IF work[b].at = "serve" /\ Good(work[b].cert) THEN work[b].cert ELSE None)'
            = IF b \in gone THEN None ELSE Served[b]
    BY ServedIs DEF ServesGood, Good
  <2>2. QED
    BY <2>1 DEF Served, Good
<1>3. Registry!StopServing(gone)
  BY <1>1, <1>2 DEF Registry!StopServing
<1>4. QED
  BY <1>3 DEF Registry!Next

(* A daemon begins to serve the root it has loaded.                        *)
LEMMA AfterRegistry ==
  ASSUME RootInv, RootInv', NEW a \in Actors, After(a), work[a].at \in {"loaded", "trust"}, ~met', user' = user
  PROVE  [Registry!Next]_(Registry!registry)
<1>1. RootOrder /\ RootOrder' /\ DirTypeOK /\ ~met /\ UNCHANGED <<cert, made, due>>
  BY DEF RootInv, After
<1>2. Published' = Published
  BY <1>1, PublishedOn
<1>3. CASE work[a].op = "daemon"
  <2>1. work'[a].at = "serve" /\ work'[a].cert = work[a].cert /\ \A b \in Actors \ {a} : work'[b] = work[b]
    BY <1>1, <1>3, AfterMoves
  <2>2. Served[a] = None
    BY ServedIs DEF ServesGood
  <2>3. CASE Good(work[a].cert)
    <3>1. work[a].cert = cert /\ Published = cert /\ cert # None
      BY <1>1, <2>3, PublishedIs, NoRootIsNone DEF RootOrder, Held, Good
    <3>2. Served' = [Served EXCEPT ![a] = Published]
      <4>1. \A b \in Actors :
              (IF work[b].at = "serve" /\ Good(work[b].cert) THEN work[b].cert ELSE None)'
                = IF b = a THEN Published ELSE Served[b]
        BY <1>1, <2>1, <2>3, <3>1, ServedIs DEF ServesGood, Good
      <4>2. QED
        BY <4>1, ServedIs DEF Served, Good
    <3>3. Registry!Serve(a)
      BY <1>1, <1>2, <2>2, <3>1, <3>2 DEF Registry!Serve
    <3>4. QED
      BY <3>3 DEF Registry!Next
  <2>4. CASE ~Good(work[a].cert)
    <3>1. \A b \in Actors :
            (IF work[b].at = "serve" /\ Good(work[b].cert) THEN work[b].cert ELSE None)' = Served[b]
      BY <1>1, <2>1, <2>2, <2>4, ServedIs DEF ServesGood, Good
    <3>2. Served' = Served
      BY <3>1, ServedIs DEF Served, Good
    <3>3. QED
      BY <1>1, <1>2, <3>2 DEF Registry!registry
  <2>5. QED
    BY <2>3, <2>4
<1>4. CASE work[a].op # "daemon"
  <2>1. work'[a].at # "serve" /\ \A b \in Actors \ {a} : work'[b] = work[b]
    BY <1>1, <1>4, AfterMoves
  <2>2. Served' = Served
    BY <1>1, <2>1, ServedOn
  <2>3. QED
    BY <1>1, <1>2, <2>2 DEF Registry!registry
<1>5. QED
  BY <1>3, <1>4

(* The user trusts the root in the file.                                   *)
LEMMA TrustRegistry ==
  ASSUME RootInv, RootInv', NEW a \in Actors, TrustedByUser(a), ~met'
  PROVE  [Registry!Next]_(Registry!registry)
<1>1. RootOrder /\ RootOrder' /\ DirTypeOK /\ ~met /\ UNCHANGED <<cert, made, due>>
  BY DEF RootInv, TrustedByUser, After
<1>2. Published' = Published
  BY <1>1, PublishedOn
<1>3. Served' = Served
  <2>1. work'[a].at # "serve" /\ work[a].at # "serve" /\ \A b \in Actors \ {a} : work'[b] = work[b]
    BY <1>1, AfterMoves DEF TrustedByUser
  <2>2. QED
    BY <1>1, <2>1, ServedOn
<1>4. user' = user \cup ({cert} \cap Roots)
  BY DEF TrustedByUser
<1>5. CASE Good(cert)
  <2>1. Published = cert /\ cert # None
    BY <1>1, <1>5, PublishedIs, NoRootIsNone DEF Good
  <2>2. (user \ due)' = (user \ due) \cup {Published}
    BY <1>1, <1>4, <1>5, <2>1 DEF Good
  <2>3. Registry!Trust
    BY <1>1, <1>2, <1>3, <2>1, <2>2 DEF Registry!Trust
  <2>4. QED
    BY <2>3 DEF Registry!Next
<1>6. CASE ~Good(cert)
  <2>1. (user \ due)' = user \ due
    BY <1>1, <1>4, <1>6 DEF Good
  <2>2. QED
    BY <1>1, <1>2, <1>3, <2>1 DEF Registry!registry
<1>7. QED
  BY <1>5, <1>6

LEMMA UseRegistry ==
  ASSUME RootInv, RootInv', NEW a \in Actors, UseStep(a), ~met'
  PROVE  [Registry!Next]_(Registry!registry)
<1>1. CASE Shown(a) \/ StopServing(a)
  <2>1. RootOrder /\ RootOrder' /\ DirTypeOK /\ UNCHANGED <<cert, made, due, user>> /\ Ends(a)
    BY <1>1 DEF RootInv, Shown, StopServing, rootVars, trustVars
  <2>2. \A b \in Actors : IF b \in {a} THEN work'[b].at # "serve" ELSE work'[b] = work[b]
    BY <2>1, OneChanges DEF Ends, Resting
  <2>3. QED
    BY <2>1, <2>2, LeaveRegistry
<1>2. CASE TrustStands(a) \/ TrustRefused(a) \/ TrustedBySystem(a)
  BY <1>2, AfterRegistry DEF TrustStands, TrustRefused, TrustedBySystem, trustVars
<1>3. CASE TrustedByUser(a)
  BY <1>3, TrustRegistry
<1>4. CASE AsksForTrust(a)
  <2>1. RootOrder /\ RootOrder' /\ DirTypeOK /\ UNCHANGED <<cert, made, due, user>>
    BY <1>4 DEF RootInv, AsksForTrust, rootVars, trustVars
  <2>2. work'[a].at # "serve" /\ work[a].at # "serve" /\ \A b \in Actors \ {a} : work'[b] = work[b]
    BY <1>4, <2>1, OneChanges DEF AsksForTrust, Goes
  <2>3. QED
    BY <2>1, <2>2, ServedOn, PublishedOn DEF Registry!registry
<1>5. QED
  BY <1>1, <1>2, <1>3, <1>4 DEF UseStep

LEMMA SettingsRegistry ==
  ASSUME RootInv, RootInv', NEW a \in Actors, SettingsStep(a), ~met'
  PROVE  [Registry!Next]_(Registry!registry)
<1>1. RootOrder /\ RootOrder' /\ DirTypeOK /\ UNCHANGED <<cert, made, due, user>>
  BY DEF RootInv, SettingsStep, BeginSettings, CutConfig, FillConfig, SaveFails, rootVars, trustVars
<1>2. \A b \in Actors \ {a} : work'[b] = work[b]
  BY <1>1, SettingsMoves
<1>3. work'[a].at # "serve" /\ work[a].at # "serve"
  BY <1>1, SettingsMoves DEF Saving
<1>4. QED
  BY <1>1, <1>2, <1>3, ServedOn, PublishedOn DEF Registry!registry

(* A root comes due.                                                       *)
LEMMA DueRegistry ==
  ASSUME RootInv, RootInv', ComeDue, ~met'
  PROVE  Registry!Next
<1>1. PICK r \in 1 .. made : due' = due \cup {r}
  BY DEF ComeDue
<1>2. RootOrder /\ RootOrder' /\ DirTypeOK /\ UNCHANGED <<cert, key, made, user, work>>
  BY DEF RootInv, ComeDue, rootVars, trustVars
<1>3. r \in Roots /\ r # None
  BY <1>2, FilesAre, NoRootIsNone
<1>4. \A x : Good(x)' <=> Good(x) /\ x # r
  BY <1>1 DEF Good
<1>5. Published' = IF Published = r THEN None ELSE Published
  <2>1. Published = IF Good(cert) THEN cert ELSE None
    BY <1>2, PublishedIs
  <2>2. Published' = IF Good(cert)' THEN cert' ELSE None
    BY <1>2 DEF RootOrder, Published, Good
  <2>3. Good(cert)' <=> Good(cert) /\ cert # r
    BY <1>1, <1>2 DEF Good
  <2>4. QED
    BY <1>2, <1>3, <2>1, <2>2, <2>3
<1>6. Served' = [a \in Actors |-> IF Served[a] = r THEN None ELSE Served[a]]
  <2>1. \A a \in Actors :
          (IF work[a].at = "serve" /\ Good(work[a].cert) THEN work[a].cert ELSE None)'
            = IF Served[a] = r THEN None ELSE Served[a]
    BY <1>1, <1>2, <1>3, ServedIs DEF ServesGood, Good
  <2>2. QED
    BY <2>1 DEF Served, Good
<1>7. (user \ due)' = (user \ due) \ {r}
  BY <1>1, <1>2
<1>8. Registry!Expire(r)
  BY <1>1, <1>2, <1>5, <1>6, <1>7 DEF Registry!Expire
<1>9. QED
  BY <1>8 DEF Registry!Next

LEMMA RegistryStep ==
  ASSUME RegistryInv, RegistryInv', [Next]_vars, ~met'
  PROVE  [Registry!Next]_(Registry!registry)
<1>1. RootInv /\ RootInv'
  BY DEF RegistryInv
<1>2. ASSUME NEW gone \in Deaths, Die(gone)
      PROVE  Registry!Next
  <2>1. RootOrder /\ RootOrder' /\ UNCHANGED <<cert, made, due, user>>
    BY <1>1, <1>2 DEF Die, rootVars, trustVars, RootInv
  <2>2. gone \in SUBSET Actors
    BY DEF Deaths, Actors
  <2>3. \A b \in Actors : IF b \in gone THEN work'[b].at # "serve" ELSE work'[b] = work[b]
    BY <1>2 DEF Die, Resting
  <2>4. QED
    BY <2>1, <2>2, <2>3, LeaveRegistry
<1>3. CASE UNCHANGED vars
  BY <1>3 DEF vars, Registry!registry, Published, Served, Good
<1>4. QED
  BY <1>1, <1>2, <1>3, LoadRegistry, UseRegistry, SettingsRegistry, DueRegistry DEF Next

(* Unless a root was made beside another load, the files implement         *)
(* RootRegistry: there is one root at a time, in place with its key in one *)
(* step, made only when the one before has expired; that one is what       *)
(* daemons serve and the user is asked to trust (KeepsRegistry;            *)
(* cert/mod.rs:32-67).                                                     *)
THEOREM RegistryKept == Spec => KeepsRegistry
<1>1. Init => Registry!Init
  <2>1. SUFFICES ASSUME Init PROVE Registry!Init
    OBVIOUS
  <2>2. due = {} /\ user = {} /\ \A a \in Actors : work[a].at = "rest"
    BY <2>1, StepsAre DEF Init
  <2>3. Served = [a \in Actors |-> None]
    BY <2>2 DEF Served
  <2>4. /\ made \in {0, 1}
        /\ Published = IF made = 0 THEN None ELSE made
    BY <2>1, <2>2, NoRootIsNone, RootsAssumption DEF Init, Published, Good, Roots
  <2>5. QED
    BY <2>2, <2>3, <2>4 DEF Registry!Init
<1>2. RegistryInv /\ RegistryInv' /\ [Next]_vars => [met' \/ Registry!Next]_(Registry!registry)
  BY RegistryStep
<1>3. QED
  BY <1>1, <1>2, RegistryHolds, PTL DEF Spec, KeepsRegistry

-----------------------------------------------------------------------------
(* The settings.                                                           *)

(* A step that leaves config.json, and those who save it, alone.           *)
SavesOn(a) ==
  /\ work'[a].at \in Saving => work'[a] = work[a]
  /\ work[a].at = "fillConf" => work'[a] = work[a]

LEMMA SavedOrder ==
  ASSUME SettingsOrder, UNCHANGED <<config, said>>, ~clashed, ~hurt,
         \A a \in Actors : SavesOn(a)
  PROVE  SettingsOrder'
<1>1. \A a \in Actors : work'[a].at \in Saving => work[a].at \in Saving /\ work'[a] = work[a]
  BY DEF SavesOn
<1>2. \A a \in Actors : work'[a].at = "fillConf" => work'[a].at \in Saving
  BY DEF Saving
<1>3. SettingsStand'
  BY DEF SettingsOrder, SettingsStand, SavesOn
<1>4. QED
  BY <1>1, <1>2, <1>3 DEF SettingsOrder

LEMMA EndsSaves ==
  ASSUME DirTypeOK, NEW a \in Actors, Ends(a), work[a].at # "fillConf"
  PROVE  \A b \in Actors : SavesOn(b)
<1>1. work'[a].at = "rest" /\ \A b \in Actors \ {a} : work'[b] = work[b]
  BY OneChanges, StepsAre DEF Ends
<1>2. QED
  BY <1>1 DEF SavesOn, Saving

LEMMA GoesSaves ==
  ASSUME DirTypeOK, NEW a \in Actors, NEW at, Goes(a, at), at \notin Saving,
         work[a].at # "fillConf"
  PROVE  \A b \in Actors : SavesOn(b)
<1>1. work'[a].at = at /\ \A b \in Actors \ {a} : work'[b] = work[b]
  BY OneChanges DEF Goes
<1>2. QED
  BY <1>1 DEF SavesOn

LEMMA BeginsSaves ==
  ASSUME DirTypeOK, NEW a \in Actors, NEW op, work[a].at # "fillConf",
         work' = [work EXCEPT ![a] = [Resting EXCEPT !.at = "cert", !.op = op]]
  PROVE  \A b \in Actors : SavesOn(b)
<1>1. work'[a].at = "cert" /\ \A b \in Actors \ {a} : work'[b] = work[b]
  BY OneChanges DEF Resting
<1>2. QED
  BY <1>1 DEF SavesOn, Saving

LEMMA LoadSaves ==
  ASSUME DirTypeOK, NEW a \in Actors, LoadStep(a)
  PROVE  UNCHANGED configVars /\ \A b \in Actors : SavesOn(b)
<1>1. CASE BeginView(a) \/ BeginInstall(a) \/ BeginInit(a) \/ BeginStart(a) \/ BeginDaemon(a)
  BY <1>1, BeginsSaves
     DEF BeginView, BeginInstall, BeginInit, BeginStart, BeginDaemon, Begins
<1>2. CASE ReadCert(a)
  <2>1. work'[a].at = "key" /\ \A b \in Actors \ {a} : work'[b] = work[b]
    BY <1>2 DEF ReadCert, DirTypeOK, Jobs
  <2>2. QED
    BY <1>2, <2>1 DEF ReadCert, SavesOn, Saving
<1>3. CASE ReadKey(a)
  <2>1. work'[a].at = "loaded" /\ \A b \in Actors \ {a} : work'[b] = work[b]
    BY <1>3 DEF ReadKey, DirTypeOK, Jobs
  <2>2. QED
    BY <1>3, <2>1 DEF ReadKey, SavesOn, Saving
<1>4. CASE Make(a)
  <2>1. Follows("key") = "cutKey"
    BY DEF Follows
  <2>2. work' = [work EXCEPT ![a].at = "cutKey", ![a].cert = made', ![a].key = made']
    BY <1>4, <2>1 DEF Make
  <2>3. work'[a].at = "cutKey" /\ \A b \in Actors \ {a} : work'[b] = work[b]
    BY <2>2 DEF DirTypeOK, Jobs
  <2>4. QED
    BY <1>4, <2>3 DEF Make, SavesOn, Saving
<1>5. CASE CutKey(a) \/ FillKey(a) \/ CutCert(a) \/ FillCert(a)
  <2>1. PICK at \in {"fillKey", "cutCert", "fillCert", "loaded"} : Goes(a, at)
    BY <1>5 DEF CutKey, FillKey, CutCert, FillCert, Follows
  <2>2. at \notin Saving /\ work[a].at # "fillConf"
    BY <1>5 DEF CutKey, FillKey, CutCert, FillCert, Saving
  <2>3. QED
    BY <1>5, <2>1, <2>2, GoesSaves DEF CutKey, FillKey, CutCert, FillCert
<1>6. CASE MakeFails(a)
  BY <1>6, EndsSaves DEF MakeFails, Making
<1>7. QED
  BY <1>1, <1>2, <1>3, <1>4, <1>5, <1>6 DEF LoadStep

LEMMA UseSaves ==
  ASSUME DirTypeOK, NEW a \in Actors, UseStep(a)
  PROVE  UNCHANGED configVars /\ \A b \in Actors : SavesOn(b)
<1>1. CASE Shown(a) \/ StopServing(a)
  BY <1>1, EndsSaves DEF Shown, StopServing
<1>2. CASE TrustStands(a) \/ TrustRefused(a) \/ TrustedByUser(a) \/ TrustedBySystem(a)
  <2>1. After(a) /\ work[a].at # "fillConf"
    BY <1>2 DEF TrustStands, TrustRefused, TrustedByUser, TrustedBySystem
  <2>2. CASE work[a].op = "install"
    BY <2>1, <2>2, BeginsSaves DEF After
  <2>3. CASE work[a].op = "daemon"
    <3>1. Goes(a, "serve") /\ "serve" \notin Saving
      BY <2>1, <2>3 DEF After, Saving
    <3>2. QED
      BY <2>1, <3>1, GoesSaves DEF After
  <2>4. CASE work[a].op \notin {"install", "daemon"}
    <3>1. Ends(a)
      BY <2>1, <2>4 DEF After
    <3>2. QED
      BY <2>1, <3>1, EndsSaves DEF After
  <2>5. QED
    BY <2>2, <2>3, <2>4
<1>3. CASE AsksForTrust(a)
  BY <1>3, GoesSaves DEF AsksForTrust, Saving
<1>4. QED
  BY <1>1, <1>2, <1>3 DEF UseStep

LEMMA SettingsStepOrder ==
  ASSUME DirTypeOK, SettingsOrder, NEW a \in Actors, SettingsStep(a),
         ~clashed, ~hurt, ~clashed', ~hurt'
  PROVE  SettingsOrder'
<1>1. CASE BeginSettings(a)
  <2>1. PICK about \in Topics(a) : \E given \in Given(a, config) :
          work' = [work EXCEPT ![a] = [Resting EXCEPT !.at = "cutConf", !.op = "settings",
                                                       !.conf = Changed(config, about, given),
                                                       !.about = about]]
    BY <1>1 DEF BeginSettings
  <2>2. PICK given \in Given(a, config) :
          work' = [work EXCEPT ![a] = [Resting EXCEPT !.at = "cutConf", !.op = "settings",
                                                       !.conf = Changed(config, about, given),
                                                       !.about = about]]
    BY <2>1
  <2>3. config = said /\ UNCHANGED <<config, said>>
    BY <1>1 DEF BeginSettings, SettingsOrder, SettingsStand
  <2>4. /\ work'[a].at = "cutConf" /\ work'[a].op = "settings" /\ work'[a].about = about
        /\ work'[a].conf = Changed(said, about, given)
        /\ \A b \in Actors \ {a} : work'[b] = work[b]
    BY <2>2, <2>3, OneChanges DEF Resting
  <2>5. \A b \in Actors \ {a} : work'[b].at \notin Saving
    BY <1>1, <2>4 DEF BeginSettings, SettingsOrder
  <2>6. Changed(said, about, given) =
          [f \in Fields |-> IF f \in about THEN Changed(said, about, given)[f] ELSE said[f]]
    BY DEF Changed
  <2>7. \A b \in Actors : work'[b].at # "fillConf"
    BY <2>4, <2>5 DEF Saving
  <2>8. SettingsStand'
    BY <2>3 DEF SettingsStand
  <2>9. QED
    BY <2>3, <2>4, <2>5, <2>6, <2>7, <2>8 DEF SettingsOrder
<1>2. CASE CutConfig(a)
  <2>1. /\ work'[a].at = "fillConf" /\ \A b \in Actors \ {a} : work'[b] = work[b]
        /\ work'[a].op = work[a].op /\ work'[a].conf = work[a].conf
        /\ work'[a].about = work[a].about
    BY <1>2 DEF CutConfig, Goes, DirTypeOK, Jobs
  <2>2. config' = Torn /\ said' = said /\ work[a].at \in Saving
    BY <1>2 DEF CutConfig, Saving
  <2>3. SettingsStand'
    BY <2>1, <2>2 DEF SettingsStand
  <2>4. QED
    BY <2>1, <2>2, <2>3 DEF SettingsOrder
<1>3. CASE FillConfig(a)
  <2>1. config = Torn /\ work[a].at \in Saving
    BY <1>3 DEF FillConfig, SettingsOrder, Saving
  <2>2. config' = work[a].conf /\ said' = work[a].conf
    BY <1>3, <2>1 DEF FillConfig, Overwritten, SettingsOrder
  <2>3. work'[a].at = "rest" /\ \A b \in Actors \ {a} : work'[b] = work[b]
    BY <1>3, OneChanges, StepsAre DEF FillConfig, Ends
  <2>4. \A b \in Actors : work'[b].at \notin Saving /\ work'[b].at # "fillConf"
    BY <2>1, <2>3 DEF SettingsOrder, Saving
  <2>5. SettingsStand'
    BY <2>2 DEF SettingsStand
  <2>6. QED
    BY <2>4, <2>5 DEF SettingsOrder
<1>4. CASE SaveFails(a)
  <2>1. work[a].at # "fillConf" /\ Ends(a) /\ UNCHANGED <<config, said>>
    BY <1>4 DEF SaveFails
  <2>2. QED
    BY <2>1, EndsSaves, SavedOrder
<1>5. QED
  BY <1>1, <1>2, <1>3, <1>4 DEF SettingsStep

LEMMA SettingsInit == Init => SettingsInv
<1>1. SUFFICES ASSUME Init PROVE SettingsOrder
  BY TypedInit DEF SettingsInv
<1>2. \A a \in Actors : work[a].at = "rest"
  BY <1>1, StepsAre DEF Init
<1>3. SettingsStand
  BY <1>1 DEF Init, SettingsStand
<1>4. QED
  BY <1>2, <1>3 DEF SettingsOrder, Saving

LEMMA HistoryStays ==
  ASSUME DirTypeOK, Next
  PROVE  (clashed => clashed') /\ (hurt => hurt')
<1>1. ASSUME NEW a \in Actors, LoadStep(a) \/ UseStep(a)
      PROVE  UNCHANGED <<clashed, hurt>>
  BY <1>1, LoadSaves, UseSaves DEF configVars
<1>2. ASSUME NEW a \in Actors, SettingsStep(a)
      PROVE  (clashed => clashed') /\ (hurt => hurt')
  <2>1. CASE BeginSettings(a)
    BY <2>1 DEF BeginSettings
  <2>2. CASE CutConfig(a) \/ FillConfig(a)
    BY <2>2 DEF CutConfig, FillConfig
  <2>3. CASE SaveFails(a)
    BY <2>3 DEF SaveFails
  <2>4. QED
    BY <1>2, <2>1, <2>2, <2>3 DEF SettingsStep
<1>3. ASSUME NEW gone \in Deaths, Die(gone)
      PROVE  (clashed => clashed') /\ (hurt => hurt')
  BY <1>3 DEF Die
<1>4. ASSUME ComeDue
      PROVE  UNCHANGED <<clashed, hurt>>
  BY <1>4 DEF ComeDue, configVars
<1>5. QED
  BY <1>1, <1>2, <1>3, <1>4 DEF Next

LEMMA SettingsNext == SettingsInv /\ [Next]_vars => SettingsInv'
<1>1. SUFFICES ASSUME SettingsInv, [Next]_vars, ~clashed', ~hurt' PROVE SettingsOrder'
  BY TypedNext DEF SettingsInv
<1>2. DirTypeOK
  BY <1>1 DEF SettingsInv
<1>3. ~clashed /\ ~hurt
  BY <1>1, <1>2, HistoryStays DEF vars
<1>4. SettingsOrder
  BY <1>1, <1>3 DEF SettingsInv
<1>5. ASSUME NEW a \in Actors, LoadStep(a) \/ UseStep(a)
      PROVE  SettingsOrder'
  BY <1>2, <1>3, <1>4, <1>5, LoadSaves, UseSaves, SavedOrder DEF configVars
<1>6. ASSUME NEW a \in Actors, SettingsStep(a)
      PROVE  SettingsOrder'
  BY <1>1, <1>2, <1>3, <1>4, <1>6, SettingsStepOrder
<1>7. ASSUME NEW gone \in Deaths, Die(gone)
      PROVE  SettingsOrder'
  <2>1. \A b \in Actors : work'[b] = IF b \in gone THEN Resting ELSE work[b]
    BY <1>7 DEF Die
  <2>2. \A b \in gone : work[b].at # "fillConf"
    BY <1>1, <1>7 DEF Die
  <2>3. \A b \in Actors : SavesOn(b)
    BY <2>1, <2>2, StepsAre DEF SavesOn, Saving
  <2>4. QED
    BY <1>3, <1>4, <1>7, <2>3, SavedOrder DEF Die
<1>8. CASE ComeDue
  <2>1. UNCHANGED <<config, said, work>>
    BY <1>8 DEF ComeDue, configVars
  <2>2. \A b \in Actors : SavesOn(b)
    BY <2>1 DEF SavesOn
  <2>3. QED
    BY <1>3, <1>4, <2>1, <2>2, SavedOrder
<1>9. CASE UNCHANGED vars
  <2>1. UNCHANGED <<config, said, work>>
    BY <1>9 DEF vars
  <2>2. \A b \in Actors : SavesOn(b)
    BY <2>1 DEF SavesOn
  <2>3. QED
    BY <1>3, <1>4, <2>1, <2>2, SavedOrder
<1>10. QED
  BY <1>1, <1>5, <1>6, <1>7, <1>8, <1>9 DEF Next

(* Unless two commands that change a setting overlapped, or one ended in   *)
(* the middle of its save, every setting has the value it was last given.  *)
THEOREM SettingsCorrect == Spec => []SettingsStand
<1>1. SettingsInv => SettingsStand
  BY DEF SettingsInv, SettingsOrder, SettingsStand
<1>2. QED
  BY <1>1, SettingsInit, SettingsNext, PTL DEF Spec
=============================================================================
