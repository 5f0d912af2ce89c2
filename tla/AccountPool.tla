------------------------------ MODULE AccountPool ------------------------------
(***************************************************************************)
(* The pool of Kiro accounts (crates/core/src/account) under the commands  *)
(* of the window (commands.rs:504-741) and of the CLI (main.rs:357-519).   *)
(*                                                                         *)
(* Nothing locks accounts.json: a command loads it, may wait for the       *)
(* network, and saves what it loaded, changed.  The server rolls refresh   *)
(* tokens forward; token n of an account works while live[account] = n.    *)
(***************************************************************************)
EXTENDS Naturals, Sequences

CONSTANTS
  Window,    \* commands given to the one window process
  Cli,       \* runs of the command line, each a process of its own
  Families,  \* Kiro accounts, as the server knows them
  Labels,
  None,
  Torn,      \* a file truncated, half written or written by two
  MaxAccounts, \* bound: how many accounts an earlier use has left
  MaxRolls   \* bound: how often the server rolls one account's token

ASSUME BoundsAssumption == MaxAccounts \in Nat /\ MaxRolls \in Nat
ASSUME CommandsAssumption == Window \cap Cli = {}
ASSUME NamesAssumption == Torn # None /\ {Torn, None} \cap Families = {}

VARIABLES
  file,     \* accounts.json: a sequence of accounts, or Torn
  live,     \* per family, the refresh token the server takes
  ide,      \* whose kiro-auth-token.json is in the IDE's cache; Torn or None
  tmp,      \* kiro-auth-token.json.tmp, likewise
  reg,      \* the families whose <hash>.json is in the cache
  work,     \* what each command is doing
  marked,   \* history: families the window was told are exhausted
  lost,     \* history: families whose new token a failed call dropped ...
  dropped,  \* history: ... and those a lookup of the profile rolled and dropped
  mishaps   \* history: what else has gone wrong

cacheVars == <<ide, tmp, reg>>
goneVars == <<lost, dropped>>
vars == <<file, live, ide, tmp, reg, work, marked, lost, dropped, mishaps>>

CommandIds == Window \cup Cli
Tokens == 0 .. MaxRolls
Credentials == [fam : Families, token : Tokens]
Statuses == {"active", "spent", "exhausted", "suspended"}   \* spent: active, no credit left
Pids == Cli \cup {"window", "earlier"}
Pid(c) == IF c \in Window THEN "window" ELSE c
Accounts == [label : Labels, fam : Families, pid : Pids, token : Tokens,
             status : Statuses]
Steps == {"rest", "over", "resolve", "profile", "enter", "refresh", "register",
          "blank", "fill", "swap", "usage", "pick", "truncate", "write"}
Mishaps == {"crash", "stale", "torn", "clash", "crossed",
            "unsaved", "doubled", "ide"}

Nobody == [fam |-> None, token |-> 0]
Idle(at) == [at |-> at, fresh |-> TRUE, pool |-> <<>>, label |-> None,
             cred |-> Nobody, client |-> None, after |-> "end"]

Readable == file # Torn

PoolTypeOK ==
  /\ Readable => /\ \A i \in DOMAIN file : file[i] \in Accounts
                 /\ \A i \in DOMAIN file : file[i].token <= live[file[i].fam]
  /\ live \in [Families -> Tokens]
  /\ ide \in Families \cup {Torn, None}
  /\ tmp \in Families \cup {Torn, None}
  /\ reg \subseteq Families
  /\ \A c \in CommandIds :
       /\ work[c].at \in Steps
       /\ work[c].cred \in Credentials \cup {Nobody}
       /\ work[c].client \in Families \cup {None}
       /\ work[c].at \in {"refresh", "register", "blank", "fill", "swap"}
            => work[c].label \in Labels /\ work[c].cred # Nobody
       /\ work[c].after \in {"pick", "end"}
  /\ marked \cup lost \cup dropped \subseteq Families
  /\ mishaps \subseteq Mishaps

(* What an earlier use may have left: each account once, under a label of  *)
(* its own, with the token the server takes ("suspended" would behave like *)
(* "exhausted").  The user may be logged in to the IDE.                    *)
Pools(n) ==
  {p \in [1 .. n -> [label : Labels, fam : Families, pid : {"window", "earlier"},
                     token : {0}, status : Statuses \ {"suspended"}]] :
     \A i, j \in 1 .. n : i # j => p[i].label # p[j].label /\ p[i].fam # p[j].fam}

Init ==
  /\ file \in UNION {Pools(n) : n \in 0 .. MaxAccounts}
  /\ live = [f \in Families |-> 0]
  /\ ide \in Families \cup {None}
  /\ tmp = None
  /\ reg = {ide} \ {None}
  /\ work = [c \in CommandIds |-> Idle("rest")]
  /\ marked = {} /\ lost = {} /\ dropped = {}
  /\ mishaps = {}

-----------------------------------------------------------------------------
(* The store's operations, on a sequence of accounts.                      *)

Having(pool, l) == {i \in DOMAIN pool : pool[i].label = l}

(* get_by_label, and find(|a| a.label == label).                           *)
First(pool, l) == CHOOSE i \in Having(pool, l) : \A j \in Having(pool, l) : i <= j

Same(a, b) == a.label = b.label \/ (a.fam = b.fam /\ a.pid = b.pid)

Upsert(pool, a) ==
  LET slots == {i \in DOMAIN pool : Same(pool[i], a)} IN
  IF slots = {} THEN Append(pool, a)
  ELSE [pool EXCEPT ![CHOOSE i \in slots : \A j \in slots : i <= j] = a]

WithoutLabel(pool, l) ==
  LET kept[n \in 0 .. Len(pool)] ==
        IF n = 0 THEN <<>>
        ELSE IF pool[n].label = l THEN kept[n - 1] ELSE Append(kept[n - 1], pool[n])
  IN  kept[Len(pool)]

(* select_best_account may choose any of these; the score is left out.     *)
Best(pool) == {i \in DOMAIN pool : pool[i].status = "active"}

IsActive(a) == a.status \in {"active", "spent"}

CredOf(a) == [fam |-> a.fam, token |-> a.token]

(* A file written over: on what was cut to nothing it is the new text, on  *)
(* another's text a longer tail of that may stay.                          *)
Overwritten(old, new) == IF old \in {Torn, new} THEN {new} ELSE {new, Torn}

Ended(c) == [work EXCEPT ![c] = Idle("over")]
Advance(c, at) == work' = [work EXCEPT ![c].at = at]

-----------------------------------------------------------------------------
(* Commands begin.                                                         *)

Begin(c, w) ==
  /\ work[c].at = "rest"
  /\ work' = [work EXCEPT ![c] = w]
  /\ UNCHANGED <<file, live, cacheVars, goneVars, mishaps>>

Loaded == [Idle("rest") EXCEPT !.pool = file]

BeginSwitch(c, l) ==
  /\ Readable
  /\ Having(file, l) # {}
  /\ Begin(c, [Loaded EXCEPT !.at = "refresh", !.label = l,
                             !.cred = CredOf(file[First(file, l)])])
  /\ UNCHANGED marked

(* The CLI looks its choice up again, by label.                            *)
BeginAutoSwitch(c) ==
  /\ Readable
  /\ \E i \in Best(file) :
       LET l == file[i].label
           chosen == IF c \in Window THEN i ELSE First(file, l)
       IN  Begin(c, [Loaded EXCEPT !.at = "refresh", !.label = l,
                                   !.cred = CredOf(file[chosen])])
  /\ UNCHANGED marked

(* As BeginExhaust would be, did the window put off the save like the CLI. *)
BeginExhaust_Late(c, l) ==
  /\ Readable
  /\ Having(file, l) # {}
  /\ IsActive(file[First(file, l)])
  /\ Begin(c, [Loaded EXCEPT !.pool[First(file, l)].status = "exhausted",
                             !.at = "pick"])
  /\ marked' = IF c \in Window THEN marked \cup {file[First(file, l)].fam} ELSE marked

(* The window saves the mark before it looks for a successor, the CLI      *)
(* together with the switch.                                               *)
BeginExhaust(c, l) ==
  /\ Readable
  /\ Having(file, l) # {}
  /\ IsActive(file[First(file, l)])
  /\ Begin(c, [Loaded EXCEPT !.pool[First(file, l)].status = "exhausted",
                             !.label = l,
                             !.at = IF c \in Window THEN "truncate" ELSE "pick",
                             !.after = IF c \in Window THEN "pick" ELSE "end"])
  /\ marked' = IF c \in Window THEN marked \cup {file[First(file, l)].fam} ELSE marked

BeginRemove(c, l) ==
  /\ Readable
  /\ Having(file, l) # {}
  /\ Begin(c, [Loaded EXCEPT !.at = "truncate", !.pool = WithoutLabel(file, l)])
  /\ marked' = marked \ {file[i].fam : i \in Having(file, l)}

BeginUsage(c) ==
  /\ c \in Window
  /\ Readable
  /\ Begin(c, [Loaded EXCEPT !.at = "usage"])
  /\ UNCHANGED marked

(* A folder an account is imported from: whose tokens its token file has,  *)
(* which registration that file names, whose registrations are there under *)
(* their own name and whose under another.                                 *)
Exported(f) == [fam |-> f, hash |-> f, named |-> {f}, loose |-> {}]

(* Folders of older versions name no registration; one may be renamed in   *)
(* transit.  The IDE's cache holds the registrations of every account that *)
(* has been switched to.                                                   *)
Shared ==
  {Exported(f) : f \in Families}
  \cup {[Exported(f) EXCEPT !.hash = None] : f \in Families}
  \cup {[Exported(f) EXCEPT !.named = {}, !.loose = {f}] : f \in Families}
IdeCache ==
  {[fam |-> f, hash |-> f, named |-> reg, loose |-> {}] : f \in {ide} \cap Families}

(* As find_client_registration would be, were the first file with a client *)
(* id and a secret taken.                                                  *)
find_client_registration_Scan(folder) == folder.named \cup folder.loose

(* The registration named, or else any, as the directory lists them.       *)
find_client_registration(folder) ==
  IF folder.hash \in folder.named THEN {folder.hash} ELSE folder.named \cup folder.loose

(* A token that is no longer taken can only be refused.  The CLI has       *)
(* loaded the store before, the window will load it later.                 *)
BeginImport(c) ==
  \E folder \in Shared \cup IdeCache : \E f \in find_client_registration(folder) :
    /\ c \in Cli => Readable
    /\ Begin(c, [(IF c \in Window THEN Idle("rest") ELSE Loaded) EXCEPT
                   !.at = "resolve", !.client = f,
                   !.cred = [fam |-> folder.fam, token |-> live[folder.fam]]])
    /\ UNCHANGED marked

-----------------------------------------------------------------------------
(* The network.                                                            *)

NextToken(f) ==
  {live[f]} \cup (IF live[f] < MaxRolls THEN {live[f] + 1} ELSE {})

(* A command holds a refreshed credential that is not in the pool yet.     *)
InFlight(c) ==
  work[c].at \in {"profile", "enter", "register", "blank", "fill", "swap"}

Crossed(c) ==
  IF \E o \in CommandIds \ {c} : InFlight(o) /\ work[o].cred.fam = work[c].cred.fam
  THEN {"crossed"} ELSE {}

(* The server takes the live token, from the client it was given to.       *)
Taken(c) ==
  /\ work[c].at \in {"resolve", "refresh"}
  /\ work[c].cred.token = live[work[c].cred.fam]
  /\ work[c].client \in {None, work[c].cred.fam}

(* As Refresh would be, were the token counted on rather than received.    *)
Refresh_Guessed(c) ==
  /\ Taken(c)
  /\ \E t \in NextToken(work[c].cred.fam) :
       work' = [work EXCEPT ![c].cred.token = t,
                            ![c].at = IF @ = "resolve" THEN "profile" ELSE "register"]
  /\ mishaps' = mishaps \cup Crossed(c)
  /\ UNCHANGED <<file, live, cacheVars, goneVars, marked>>

(* KiroApi::refresh_token: the server returns the token or the next one.   *)
Refresh(c) ==
  /\ Taken(c)
  /\ \E t \in NextToken(work[c].cred.fam) :
       /\ live' = [live EXCEPT ![work[c].cred.fam] = t]
       /\ work' = [work EXCEPT ![c].cred.token = t,
                               ![c].at = IF @ = "resolve" THEN "profile" ELSE "register"]
  /\ lost' = lost \ {work[c].cred.fam}
  /\ dropped' = dropped \ {work[c].cred.fam}
  /\ mishaps' = mishaps \cup Crossed(c)
  /\ UNCHANGED <<file, cacheVars, marked>>

(* The server rolls the account's token once more.                         *)
Rolls(f) ==
  /\ live[f] < MaxRolls
  /\ live' = [live EXCEPT ![f] = @ + 1]

(* Refused, unreachable, or answered too late to be heard.                 *)
RefreshFails(c) ==
  /\ work[c].at \in {"resolve", "refresh"}
  /\ work' = Ended(c)
  /\ \/ UNCHANGED <<live, lost>>
     \/ /\ Taken(c)
        /\ Rolls(work[c].cred.fam)
        /\ lost' = lost \cup {work[c].cred.fam}
  /\ UNCHANGED <<file, cacheVars, dropped, marked, mishaps>>

(* resolve_profile_arn, without a profile, refreshes the token received a  *)
(* second time.                                                            *)
RollsForProfile(c) ==
  /\ work[c].at = "profile"
  /\ work[c].cred.token = live[work[c].cred.fam]
  /\ Rolls(work[c].cred.fam)

(* resolve_profile_arn and check_usage: of the second refresh the profile  *)
(* is kept, and the token the server takes from now on is not.             *)
ProfileResolved(c) ==
  /\ work[c].at = "profile"
  /\ Advance(c, "enter")
  /\ \/ UNCHANGED <<live, dropped>>
     \/ RollsForProfile(c) /\ dropped' = dropped \cup {work[c].cred.fam}
  /\ UNCHANGED <<file, cacheVars, lost, marked, mishaps>>

(* Profile or usage not to be had, or the store not to be read: the token  *)
(* pair just received is dropped, and what a second refresh brought.       *)
ImportFails(c) ==
  /\ work[c].at \in {"profile", "enter"}
  /\ work' = Ended(c)
  /\ UNCHANGED live \/ RollsForProfile(c)
  /\ lost' = lost \cup {work[c].cred.fam}
  /\ UNCHANGED <<file, cacheVars, dropped, marked, mishaps>>

(* The imported account takes its place in the pool.                       *)
Enter(c) ==
  /\ work[c].at = "enter"
  /\ c \in Window => Readable
  /\ \E l \in Labels, status \in {"active", "spent"} :
       LET w == IF c \in Window THEN Loaded
                ELSE [work[c] EXCEPT !.cred = Nobody, !.client = None]
           account == [label |-> l, fam |-> work[c].cred.fam, pid |-> Pid(c),
                       token |-> work[c].cred.token, status |-> status]
       IN  work' = [work EXCEPT ![c] = [w EXCEPT !.pool = Upsert(w.pool, account),
                                                 !.at = "truncate"]]
  /\ marked' = marked \ {work[c].cred.fam}
  /\ UNCHANGED <<file, live, cacheVars, goneVars, mishaps>>

(* refresh_accounts_usage: each account is suspended, or gets the credit   *)
(* the server reports, or is left as it is.                                *)
UsageRead(c) ==
  /\ work[c].at = "usage"
  /\ \E heard \in [DOMAIN work[c].pool -> {"suspended", "active", "spent", "nothing"}] :
       work' = [work EXCEPT ![c].at = "truncate",
                            ![c].pool = [i \in DOMAIN @ |->
         IF heard[i] = "suspended" \/ (heard[i] # "nothing" /\ IsActive(@[i]))
         THEN [@[i] EXCEPT !.status = heard[i]] ELSE @[i]]]
  /\ UNCHANGED <<file, live, cacheVars, goneVars, marked, mishaps>>

-----------------------------------------------------------------------------
(* write_sso_cache.                                                        *)

(* Written like the token file, through a temporary file of its own, and   *)
(* so whole unless another command is writing it too.                      *)
Register(c) ==
  /\ work[c].at = "register"
  /\ reg' = reg \cup {work[c].cred.fam}
  /\ Advance(c, "blank")
  /\ mishaps' = mishaps \cup
       (IF \E o \in CommandIds \ {c} :
             work[o].at = "register" /\ work[o].cred.fam = work[c].cred.fam
        THEN {"clash"} ELSE {})
  /\ UNCHANGED <<file, live, ide, tmp, goneVars, marked>>

Rival(c, steps) == \E o \in CommandIds \ {c} : work[o].at \in steps
Clash(c) == IF Rival(c, {"fill", "swap"}) THEN {"clash"} ELSE {}

(* As Blank would be, were the token file itself truncated.                *)
Blank_InPlace(c) ==
  /\ work[c].at = "blank"
  /\ tmp' = Torn
  /\ ide' = Torn
  /\ Advance(c, "fill")
  /\ mishaps' = mishaps \cup Clash(c)
  /\ UNCHANGED <<file, live, reg, goneVars, marked>>

(* atomic_write: the temporary file is created or cut to nothing ...       *)
Blank(c) ==
  /\ work[c].at = "blank"
  /\ tmp' = Torn
  /\ Advance(c, "fill")
  /\ mishaps' = mishaps \cup Clash(c)
  /\ UNCHANGED <<file, live, ide, reg, goneVars, marked>>

(* ... and written; if another has renamed it meanwhile, what is written   *)
(* is the token file.                                                      *)
Fill(c) ==
  /\ work[c].at = "fill"
  /\ \/ tmp # None /\ tmp' \in Overwritten(tmp, work[c].cred.fam) /\ UNCHANGED ide
     \/ tmp = None /\ ide' \in Overwritten(ide, work[c].cred.fam) /\ UNCHANGED tmp
  /\ Advance(c, "swap")
  /\ UNCHANGED <<file, live, reg, goneVars, marked, mishaps>>

(* As Swap would be, did the pool keep the token it had.                   *)
Swap_Forgetful(c) ==
  /\ work[c].at = "swap"
  /\ tmp # None
  /\ ide' = tmp
  /\ tmp' = None
  /\ Advance(c, "truncate")
  /\ UNCHANGED <<file, live, reg, goneVars, marked, mishaps>>

(* The rename; then the first account of the label, in the copy loaded     *)
(* earlier, takes over the credential.                                     *)
Swap(c) ==
  /\ work[c].at = "swap"
  /\ tmp # None
  /\ ide' = tmp
  /\ tmp' = None
  /\ LET i == First(work[c].pool, work[c].label) IN
       work' = [work EXCEPT ![c].at = "truncate",
                            ![c].label = None,
                            ![c].cred = Nobody,
                            ![c].pool[i].fam = work[c].cred.fam,
                            ![c].pool[i].token = work[c].cred.token]
  /\ UNCHANGED <<file, live, reg, goneVars, marked, mishaps>>

(* Any of these calls fails, the rename also because the file is gone.     *)
CacheFails(c) ==
  /\ work[c].at \in {"register", "blank", "fill", "swap"}
  /\ work' = Ended(c)
  /\ lost' = lost \cup {work[c].cred.fam}
  /\ UNCHANGED <<file, live, cacheVars, dropped, marked, mishaps>>

-----------------------------------------------------------------------------
(* AccountStore::save, and what follows it.                                *)

(* write_private cuts accounts.json to nothing ...; what the others have   *)
(* loaded is then no longer what the file holds.                           *)
Truncate(c) ==
  /\ work[c].at = "truncate"
  /\ file' = Torn
  /\ work' = [o \in CommandIds |->
                IF o = c THEN [work[o] EXCEPT !.at = "write"]
                ELSE [work[o] EXCEPT !.fresh = work[o].at \in {"rest", "over"}]]
  /\ mishaps' = mishaps \cup (IF work[c].fresh THEN {} ELSE {"stale"})
  /\ UNCHANGED <<live, cacheVars, goneVars, marked>>

Doubled(pool) ==
  IF \E i, j \in DOMAIN pool : i # j /\ pool[i].fam = pool[j].fam THEN {"doubled"} ELSE {}

(* ... and writes the whole pool.                                          *)
Write(c) ==
  /\ work[c].at = "write"
  /\ file' \in Overwritten(file, work[c].pool)
  /\ work' = IF work[c].after = "pick"
             THEN [work EXCEPT ![c].at = "pick", ![c].after = "end",
                               ![c].label = None]
             ELSE Ended(c)
  /\ mishaps' = mishaps \cup Doubled(work[c].pool)
                        \cup (IF file = Torn THEN {} ELSE {"torn"})
  /\ UNCHANGED <<live, cacheVars, goneVars, marked>>

(* The open or the write fails: a mark then comes back as an error.        *)
SaveFails(c) ==
  /\ work[c].at \in {"truncate", "write"}
  /\ work' = Ended(c)
  /\ marked' = IF work[c].after = "pick"
               THEN marked \ {work[c].pool[First(work[c].pool, work[c].label)].fam}
               ELSE marked
  /\ mishaps' = mishaps \cup {"unsaved"} \cup (IF work[c].at = "write" THEN {"torn"} ELSE {})
  /\ UNCHANGED <<file, live, cacheVars, goneVars>>

(* The successor of an exhausted account, from the pool with the mark.     *)
Pick(c) ==
  /\ work[c].at = "pick"
  /\ \/ \E i \in Best(work[c].pool) :
          work' = [work EXCEPT ![c].at = "refresh",
                               ![c].label = work[c].pool[i].label,
                               ![c].cred = CredOf(work[c].pool[i])]
     \/ Best(work[c].pool) = {} /\ c \in Cli /\ Advance(c, "truncate")
     \/ Best(work[c].pool) = {} /\ c \in Window /\ work' = Ended(c)
  /\ UNCHANGED <<file, live, cacheVars, goneVars, marked, mishaps>>

-----------------------------------------------------------------------------
(* Around the commands.                                                    *)

(* A process dies, the window with every command in it.                    *)
Crash(dead) ==
  /\ \E c \in dead : work[c].at \notin {"rest", "over"}
  /\ work' = [c \in CommandIds |->
                IF c \notin dead THEN work[c]
                ELSE Idle(IF work[c].at = "rest" THEN "rest" ELSE "over")]
  /\ mishaps' = mishaps \cup {"crash"}
  /\ UNCHANGED <<file, live, cacheVars, goneVars, marked>>

(* The IDE refreshes the token it holds.                                   *)
IdeRefreshes ==
  /\ ide \in Families
  /\ live[ide] < MaxRolls
  /\ live' = [live EXCEPT ![ide] = @ + 1]
  /\ mishaps' = mishaps \cup {"ide"}
  /\ UNCHANGED <<file, cacheVars, work, goneVars, marked>>

Command(c) ==
  \/ BeginAutoSwitch(c) \/ BeginUsage(c) \/ BeginImport(c)
  \/ \E l \in Labels : BeginSwitch(c, l) \/ BeginExhaust(c, l) \/ BeginRemove(c, l)
  \/ Refresh(c) \/ RefreshFails(c)
  \/ ProfileResolved(c) \/ ImportFails(c) \/ Enter(c) \/ UsageRead(c)
  \/ Register(c) \/ Blank(c) \/ Fill(c) \/ Swap(c) \/ CacheFails(c)
  \/ Truncate(c) \/ Write(c) \/ SaveFails(c) \/ Pick(c)

Next ==
  \/ \E c \in CommandIds : Command(c)
  \/ Crash(Window)
  \/ \E c \in Cli : Crash({c})
  \/ IdeRefreshes

Spec == Init /\ [][Next]_vars

-----------------------------------------------------------------------------
(* Properties.                                                             *)

(* The pool has the token the server takes of a, or a command is about to  *)
(* save it.                                                                *)
Kept(a) ==
  \/ a.token = live[a.fam]
  \/ \E c \in CommandIds :
       \/ InFlight(c) /\ work[c].cred = [fam |-> a.fam, token |-> live[a.fam]]
       \/ /\ work[c].at = "truncate"
          /\ \E j \in DOMAIN work[c].pool :
               CredOf(work[c].pool[j]) = [fam |-> a.fam, token |-> live[a.fam]]

(* The tokens of the pool stay the ones the server takes, or a command is  *)
(* about to save the newer one (pool.rs:120-155, commands.rs:536-545 and   *)
(* 598-602).  Two kinds of accounts are left out, until a token of theirs  *)
(* is taken again: one whose new token a failed call dropped, and one that *)
(* an import rolled a second time for its profile (resolve.rs:186-193, see *)
(* RolledTokensPersist).  A failure or a dropped token costs no account    *)
(* but its own.  Nothing is said once a save has failed or was lost to     *)
(* another's, a process has died, the IDE has refreshed a token itself,    *)
(* two commands have refreshed one account, or the pool holds one twice.   *)
TokensSurvive ==
  mishaps = {} /\ Readable =>
    \A i \in DOMAIN file : file[i].fam \notin lost \cup dropped => Kept(file[i])

(* resolve.rs:92-93 of a token that has rolled forward: "the caller must   *)
(* persist it or the next refresh uses a stale token".  So, once every     *)
(* command is over and no call has failed, the pool has it.                *)
RolledTokensPersist ==
  /\ mishaps = {} /\ lost = {} /\ Readable
  /\ \A c \in CommandIds : work[c].at \in {"rest", "over"}
  => \A i \in DOMAIN file : Kept(file[i])

(* The IDE's cache always holds a whole token file and the registration it *)
(* names, whatever fails and whoever dies, unless two commands were in the *)
(* middle of writing it (pool.rs:158-206).                                 *)
CacheIsWhole ==
  "clash" \notin mishaps =>
    ide = None \/ ide \in reg

(* An account is never imported with another's registration, which the     *)
(* server would refuse to refresh it with: also not from the IDE's cache,  *)
(* which holds several, while a switch is rewriting it or after one has    *)
(* failed (import.rs:102-106).                                             *)
ImportsAreWhole ==
  "clash" \notin mishaps =>
    \A c \in CommandIds : work[c].at = "resolve" => work[c].client = work[c].cred.fam

(* An account the window was told is exhausted stays so until it is        *)
(* imported again or removed, also when the switch that follows fails      *)
(* (commands.rs:609-611).  Unless a save was lost to another, or torn.     *)
MarksStand ==
  mishaps \cap {"crash", "stale", "torn", "doubled"} = {}
    /\ (\A c \in Window : work[c].at \in {"rest", "over"}) /\ Readable
  => \A i \in DOMAIN file : file[i].fam \in marked => file[i].status # "active"
=============================================================================
