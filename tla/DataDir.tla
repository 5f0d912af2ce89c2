-------------------------------- MODULE DataDir --------------------------------
(***************************************************************************)
(* The data directory that the window, the command line and the daemon     *)
(* share: the root certificate and its key (cert/mod.rs), which of the     *)
(* roots the system trusts (cert/trust.rs), and config.json                *)
(* (appconfig.rs).                                                         *)
(*                                                                         *)
(* Nothing is locked, and paths::write_private cuts a file to nothing      *)
(* before it writes it.  A root certificate and the key it was made with   *)
(* have the same number.                                                   *)
(***************************************************************************)
EXTENDS Naturals, FiniteSets

CONSTANTS
  Main,      \* the window's commands that run on its main thread, in turn
  Tasks,     \* the window's asynchronous commands
  Runs,      \* runs of the command line, the daemon among them
  MaxRoots,  \* bound: how many roots are ever made
  None,      \* no file, no value
  Torn       \* a file cut to nothing, half written, or written by two

ASSUME ActorsAssumption ==
  Main \cap Tasks = {} /\ Main \cap Runs = {} /\ Tasks \cap Runs = {}
ASSUME NamesAssumption ==
  Torn # None /\ {Torn, None} \cap (Nat \cup Main \cup Tasks \cup Runs) = {}
ASSUME RootsAssumption == MaxRoots \in Nat

VARIABLES
  cert,     \* rootCA.crt
  key,      \* rootCA.key
  made,     \* how many roots have been made
  due,      \* the roots that are within 30 days of expiring
  user,     \* the roots the user's trust settings name
  system,   \* the roots the machine's trust store names
  config,   \* config.json
  work,     \* what each command is doing
  met,      \* history: a root was made while another command was loading one
  clashed,  \* history: two configuration commands were under way at once
  hurt,     \* history: a command ended with config.json cut
  said      \* history: the last value each setting was given

rootVars == <<cert, key, made, met>>
trustVars == <<user, system>>
configVars == <<config, clashed, hurt, said>>
vars == <<cert, key, made, due, user, system, config, work, met, clashed, hurt, said>>

Window == Main \cup Tasks
Actors == Window \cup Runs
Roots == 1 .. MaxRoots
Files == Roots \cup {None, Torn}

(* A setting is named by who made it: the provider's key, the rows of the  *)
(* model map, and the fallback model.                                      *)
Fields == {"api", "models", "default"}
Settings == [api : Actors \cup {None}, models : SUBSET Actors,
             default : Actors \cup {None}]
Defaults == [api |-> None, models |-> {}, default |-> None]

Making == {"cutKey", "fillKey", "cutCert", "fillCert"}
Loading == {"cert", "key"} \cup Making
Saving == {"cutConf", "fillConf"}
Steps == Loading \cup Saving \cup {"rest", "loaded", "trust", "serve"}
Ops == {"view", "install", "start", "daemon", "init", "settings"}

Resting == [at |-> "rest", op |-> "init", cert |-> None, key |-> None,
            conf |-> Defaults, about |-> {}]

Jobs == [at : Steps, op : Ops, cert : Files, key : Files, conf : Settings,
         about : SUBSET Fields]

DirTypeOK ==
  /\ cert \in 1 .. made \cup {None, Torn} /\ key \in 1 .. made \cup {None, Torn}
  /\ made \in 0 .. MaxRoots
  /\ due \subseteq 1 .. made /\ user \subseteq 1 .. made /\ system \subseteq 1 .. made
  /\ config \in Settings \cup {Torn}
  /\ said \in Settings
  /\ work \in [Actors -> Jobs]
  /\ \A a \in Actors : work[a].at \in Making => {work[a].cert, work[a].key} \subseteq 1 .. made
  /\ met \in BOOLEAN /\ clashed \in BOOLEAN /\ hurt \in BOOLEAN

(* A new installation, or one that has been used.                          *)
Init ==
  /\ \/ made = 0 /\ cert = None /\ key = None
     \/ made = 1 /\ cert = 1 /\ key = 1 /\ MaxRoots > 0
  /\ due = {}
  /\ user = {} /\ system = {}
  /\ config = Defaults
  /\ work = [a \in Actors |-> Resting]
  /\ met = FALSE /\ clashed = FALSE /\ hurt = FALSE
  /\ said = config

Goes(a, at) == work' = [work EXCEPT ![a].at = at]
Ends(a) == work' = [work EXCEPT ![a] = Resting]

(* A file written over: on what was cut to nothing it is the new text, on  *)
(* another's text a longer tail of that may stay.                          *)
Overwritten(old, new) == IF old \in {Torn, new} THEN {new} ELSE {new, Torn}

-----------------------------------------------------------------------------
(* Commands that need the root begin.                                      *)

Meets(a) == \E b \in Actors \ {a} : work[b].at \in Making

Begins(a, op) ==
  /\ work[a].at = "rest"
  /\ work' = [work EXCEPT ![a] = [Resting EXCEPT !.at = "cert", !.op = op]]
  /\ met' = (met \/ Meets(a))
  /\ UNCHANGED <<cert, key, made, due, trustVars, configVars>>

(* ca_view loads the root only if both of its files are there.             *)
BeginView(a) == a \in Main /\ cert # None /\ key # None /\ Begins(a, "view")

BeginInstall(a) == a \in Tasks /\ Begins(a, "install")

(* 9rai ca init, leaf and status.                                          *)
BeginInit(a) == a \in Runs /\ Begins(a, "init")

Usable(c) == c # Torn /\ c.api # None /\ (c.models # {} \/ c.default # None)

BeginStart(a) == a \in Tasks /\ Usable(config) /\ Begins(a, "start")

BeginDaemon(a) == a \in Runs /\ Usable(config) /\ Begins(a, "daemon")

-----------------------------------------------------------------------------
(* CertStore::load_or_create.                                              *)

ReadCert(a) ==
  /\ work[a].at = "cert"
  /\ work' = [work EXCEPT ![a].at = "key", ![a].cert = cert]
  /\ UNCHANGED <<rootVars, due, trustVars, configVars>>

(* As Sound would be, were the expiry compared the wrong way round.        *)
Sound_Reversed(c, k) == c \in due /\ k # None

(* The pair is taken unless a file is missing, the certificate does not    *)
(* parse, or it is about to expire; the key is not looked at.              *)
Sound(c, k) == c \in Roots /\ c \notin due /\ k # None

ReadKey(a) ==
  /\ work[a].at = "key"
  /\ Sound(work[a].cert, key)
  /\ work' = [work EXCEPT ![a].at = "loaded", ![a].key = key]
  /\ UNCHANGED <<rootVars, due, trustVars, configVars>>

Follows_CertFirst(at) ==
  CASE at = "key" -> "cutCert" [] at = "cutCert" -> "fillCert"
    [] at = "fillCert" -> "cutKey" [] at = "cutKey" -> "fillKey" [] OTHER -> "loaded"

(* The key is written before the certificate.                              *)
Follows(at) ==
  CASE at = "key" -> "cutKey" [] at = "cutKey" -> "fillKey"
    [] at = "fillKey" -> "cutCert" [] at = "cutCert" -> "fillCert" [] OTHER -> "loaded"

(* A fresh root is made.                                                   *)
Make(a) ==
  /\ work[a].at = "key"
  /\ ~Sound(work[a].cert, key)
  /\ made < MaxRoots
  /\ made' = made + 1
  /\ work' = [work EXCEPT ![a].at = Follows("key"), ![a].cert = made', ![a].key = made']
  /\ met' = (met \/ \E b \in Actors \ {a} : work[b].at \in Loading)
  /\ UNCHANGED <<cert, key, due, trustVars, configVars>>

CutKey(a) ==
  /\ work[a].at = "cutKey"
  /\ key' = Torn
  /\ Goes(a, Follows("cutKey"))
  /\ UNCHANGED <<cert, made, met, due, trustVars, configVars>>

FillKey(a) ==
  /\ work[a].at = "fillKey"
  /\ key' \in Overwritten(key, work[a].key)
  /\ Goes(a, Follows("fillKey"))
  /\ UNCHANGED <<cert, made, met, due, trustVars, configVars>>

CutCert(a) ==
  /\ work[a].at = "cutCert"
  /\ cert' = Torn
  /\ Goes(a, Follows("cutCert"))
  /\ UNCHANGED <<key, made, met, due, trustVars, configVars>>

FillCert(a) ==
  /\ work[a].at = "fillCert"
  /\ cert' \in Overwritten(cert, work[a].cert)
  /\ Goes(a, Follows("fillCert"))
  /\ UNCHANGED <<key, made, met, due, trustVars, configVars>>

(* A file cannot be opened or written: the command returns the error.      *)
MakeFails(a) ==
  /\ work[a].at \in Making
  /\ Ends(a)
  /\ UNCHANGED <<rootVars, due, trustVars, configVars>>

-----------------------------------------------------------------------------
(* What the command does with the root it has loaded.                      *)

(* security verify-cert judges the certificate in the file.                *)
Trusted == cert \in user \cup system

(* The install command looks at the root once more, the window goes on to  *)
(* launch a daemon, the daemon serves.                                     *)
After(a) ==
  /\ CASE work[a].op = "install" ->
            work' = [work EXCEPT ![a] = [Resting EXCEPT !.at = "cert", !.op = "view"]]
       [] work[a].op = "daemon" -> Goes(a, "serve")
       [] OTHER -> Ends(a)
  /\ met' = (met \/ (work[a].op = "install" /\ Meets(a)))
  /\ UNCHANGED <<cert, key, made, due, configVars>>

(* ca_view, or a run of 9rai ca, has what it wants.                        *)
Shown(a) ==
  /\ work[a].at = "loaded" /\ work[a].op \in {"view", "init"}
  /\ Ends(a)
  /\ UNCHANGED <<rootVars, due, trustVars, configVars>>

(* Nothing to do: the root is trusted, or the daemon is root on a user's   *)
(* behalf and leaves it to the window.                                     *)
TrustStands(a) ==
  /\ work[a].at = "loaded" /\ work[a].op \in {"install", "start", "daemon"}
  /\ Trusted \/ work[a].op = "daemon"
  /\ After(a)
  /\ UNCHANGED trustVars

AsksForTrust(a) ==
  /\ work[a].at = "loaded" /\ work[a].op \in {"install", "start", "daemon"}
  /\ ~Trusted
  /\ Goes(a, "trust")
  /\ UNCHANGED <<rootVars, due, trustVars, configVars>>

(* As TrustedByUser would be, were the file named without being read.      *)
TrustedByUser_Blind(a) ==
  /\ work[a].at = "trust" /\ work[a].op \in {"install", "start"}
  /\ user' = user \cup {cert}
  /\ After(a)
  /\ UNCHANGED system

(* The user agrees to the dialog, which takes the file as it is by then.   *)
TrustedByUser(a) ==
  /\ work[a].at = "trust" /\ work[a].op \in {"install", "start"}
  /\ user' = user \cup ({cert} \cap Roots)
  /\ After(a)
  /\ UNCHANGED system

(* unix_install and windows_install: older copies go first.                *)
TrustedBySystem(a) ==
  /\ work[a].at = "trust" /\ work[a].op = "daemon"
  /\ system' \in {{cert} \cap Roots, {}}
  /\ After(a)
  /\ UNCHANGED user

(* The dialog is dismissed.  It was worth a warning only.                  *)
TrustRefused(a) ==
  /\ work[a].at = "trust" /\ work[a].op \in {"install", "start"}
  /\ After(a)
  /\ UNCHANGED trustVars

StopServing(a) ==
  /\ work[a].at = "serve"
  /\ Ends(a)
  /\ UNCHANGED <<rootVars, due, trustVars, configVars>>

-----------------------------------------------------------------------------
(* Commands that change the configuration.                                 *)

(* What a's command about these fields may give: set_provider_config,      *)
(* set_model_mappings, set_default_model and save_all_settings of the      *)
(* window, or 9rai config set-provider, map and set-default.  The window   *)
(* may leave out a key that is stored, replaces the whole map, and can     *)
(* clear the fallback.                                                     *)
Given(a, c) ==
  IF a \in Main
    THEN [api : {c.api, a} \ {None}, models : {{}, {a}}, default : {None, a}]
    ELSE [api : {a}, models : {c.models \cup {a}}, default : {a}]

Topics(a) == {{f} : f \in Fields} \cup {Fields : w \in Main \cap {a}}

(* As Changed would be, did a command start from an empty configuration.   *)
Changed_Fresh(c, about, given) ==
  [f \in Fields |-> IF f \in about THEN given[f] ELSE Defaults[f]]

Changed(c, about, given) ==
  [f \in Fields |-> IF f \in about THEN given[f] ELSE c[f]]

(* AppConfig::load, and the change in memory.                              *)
BeginSettings(a) ==
  /\ a \in Main \cup Runs
  /\ work[a].at = "rest"
  /\ config # Torn
  /\ \E about \in Topics(a) : \E given \in Given(a, config) :
       work' = [work EXCEPT ![a] = [Resting EXCEPT !.at = "cutConf", !.op = "settings",
                                                    !.conf = Changed(config, about, given),
                                                    !.about = about]]
  /\ clashed' = (clashed \/ \E b \in Actors \ {a} : work[b].op = "settings")
  /\ UNCHANGED <<rootVars, due, trustVars, config, hurt, said>>

CutConfig(a) ==
  /\ work[a].at = "cutConf"
  /\ config' = Torn
  /\ Goes(a, "fillConf")
  /\ UNCHANGED <<rootVars, due, trustVars, clashed, hurt, said>>

FillConfig(a) ==
  /\ work[a].at = "fillConf"
  /\ config' \in Overwritten(config, work[a].conf)
  /\ said' = [f \in Fields |-> IF f \in work[a].about THEN work[a].conf[f] ELSE said[f]]
  /\ Ends(a)
  /\ UNCHANGED <<rootVars, due, trustVars, clashed, hurt>>

SaveFails(a) ==
  /\ work[a].at \in Saving
  /\ Ends(a)
  /\ hurt' = (hurt \/ work[a].at = "fillConf")
  /\ UNCHANGED <<rootVars, due, trustVars, config, clashed, said>>

-----------------------------------------------------------------------------
(* The surroundings.                                                       *)

(* 30 days before a root expires.                                          *)
ComeDue ==
  /\ \E r \in 1 .. made : due' = due \cup {r}
  /\ UNCHANGED <<rootVars, trustVars, configVars, work>>

(* A process dies, the window with everything it was doing.                *)
Die(gone) ==
  /\ \E a \in gone : work[a] # Resting
  /\ work' = [a \in Actors |-> IF a \in gone THEN Resting ELSE work[a]]
  /\ hurt' = (hurt \/ \E a \in gone : work[a].at = "fillConf")
  /\ UNCHANGED <<rootVars, due, trustVars, config, clashed, said>>

-----------------------------------------------------------------------------
LoadStep(a) ==
  \/ BeginView(a) \/ BeginInstall(a) \/ BeginInit(a) \/ BeginStart(a) \/ BeginDaemon(a)
  \/ ReadCert(a) \/ ReadKey(a) \/ Make(a)
  \/ CutKey(a) \/ FillKey(a) \/ CutCert(a) \/ FillCert(a) \/ MakeFails(a)

UseStep(a) ==
  \/ Shown(a) \/ TrustStands(a) \/ AsksForTrust(a) \/ TrustedByUser(a)
  \/ TrustedBySystem(a) \/ TrustRefused(a) \/ StopServing(a)

SettingsStep(a) == BeginSettings(a) \/ CutConfig(a) \/ FillConfig(a) \/ SaveFails(a)

Deaths == {Window} \cup {{a} : a \in Runs}

Next ==
  \/ \E a \in Actors : LoadStep(a) \/ UseStep(a) \/ SettingsStep(a)
  \/ \E gone \in Deaths : Die(gone)
  \/ ComeDue

Spec == Init /\ [][Next]_vars

-----------------------------------------------------------------------------
(* Properties.                                                             *)

(* Unless a root was made while another command was loading one, the root  *)
(* in the files goes with its key, whatever failed and whoever died on the *)
(* way, and so does every root in a command's hands: leaves signed with    *)
(* the key are accepted under the certificate (cert/mod.rs:32-67).         *)
PairsMatch ==
  met \/ /\ cert \in Roots \ due => key = cert
         /\ \A a \in Actors : work[a].at \in {"loaded", "trust", "serve"} =>
              work[a].cert = work[a].key

(* Under the same condition a daemon serves the root that is in the file,  *)
(* which Node clients are pointed to and the window vouches for, until it  *)
(* is due: loading never replaces a good root (cert/mod.rs:36-42,          *)
(* session.rs:47-51).                                                      *)
ServesPublished ==
  met \/ \A a \in Actors :
           work[a].at = "serve" /\ work[a].cert \notin due => work[a].cert = cert

(* A root that the user has agreed to trust goes on being the one in use   *)
(* until it is due: enabling, dying and failing do not lead to another     *)
(* prompt (session.rs:93-95).                                              *)
TrustLasts == met \/ (user \ due # {} => cert \in user)

(* Under the same condition the files implement RootRegistry: no step of   *)
(* making a root, failed or not, is seen from outside but the last, and    *)
(* only once the root before has expired (cert/mod.rs:32-67).              *)
Good(r) == r \in Roots \ due
Published == IF Good(cert) /\ key = cert THEN cert ELSE None
Served ==
  [a \in Actors |->
     IF work[a].at = "serve" /\ Good(work[a].cert) THEN work[a].cert ELSE None]

Registry == INSTANCE RootRegistry WITH
  current <- Published, issued <- made, expired <- due,
  served <- Served, trusted <- user \ due

KeepsRegistry == Registry!Init /\ [][met' \/ Registry!Next]_(Registry!registry)

(* Every setting has the value it was last given, by the window or by a    *)
(* run, unless two commands overlapped or one ended in the middle: each    *)
(* command keeps what it is not about, the provider's key above all        *)
(* (commands.rs:126-238, main.rs:321-355).                                 *)
SettingsStand ==
  \/ clashed \/ hurt
  \/ config = said
  \/ config = Torn /\ \E a \in Actors : work[a].at = "fillConf"
=============================================================================
