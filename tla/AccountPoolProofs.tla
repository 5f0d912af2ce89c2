---------------------------- MODULE AccountPoolProofs ----------------------------
(***************************************************************************)
(* The IDE's cache and the pool of accounts under any number of window     *)
(* commands and CLI runs: first write_sso_cache, then what the steps of a  *)
(* command do to its copy of the pool (Quiet, Placed, Cut, Written and     *)
(* Unsaved), then the order each kind of step keeps, and the theorems.     *)
(***************************************************************************)
EXTENDS AccountPool, CommonLemmas

Writing == {"blank", "fill", "swap"}

Shaped ==
  /\ DOMAIN work = CommandIds
  /\ \A c \in CommandIds : {"at", "cred"} \subseteq DOMAIN work[c]

(* While no two commands have been in the temporary file at once: who is   *)
(* about to write it is registered, who has opened it finds it empty, who  *)
(* has written it finds a whole token in it, and is alone.                 *)
CacheOrder ==
  /\ ide = None \/ ide \in reg
  /\ \A c \in CommandIds : work[c].at \in Writing => work[c].cred.fam \in reg
  /\ \A c \in CommandIds : work[c].at = "fill" => tmp = Torn
  /\ \A c \in CommandIds : work[c].at = "swap" => tmp \in reg
  /\ \A c, d \in CommandIds :
       work[c].at \in {"fill", "swap"} /\ work[d].at \in {"fill", "swap"} => c = d

CacheInv == Shaped /\ ("clash" \notin mishaps => CacheOrder)

LEMMA IdleIsShaped ==
  ASSUME NEW at
  PROVE  /\ {"at", "cred"} \subseteq DOMAIN Idle(at)
         /\ Idle(at).at = at
  BY DEF Idle

LEMMA LoadedIsShaped == {"at", "cred"} \subseteq DOMAIN Loaded
  BY DEF Idle, Loaded

(* A step that leaves the cache alone and brings no command into the       *)
(* middle of write_sso_cache keeps the order.                              *)
Elsewhere ==
  /\ UNCHANGED cacheVars
  /\ mishaps \subseteq mishaps'
  /\ \A c \in CommandIds : 
       work'[c].at \in Writing => work'[c].at = work[c].at /\ work'[c].cred = work[c].cred

LEMMA ElsewhereKeeps ==
  ASSUME CacheInv, Elsewhere, Shaped'
  PROVE  CacheInv'
  BY DEF CacheInv, CacheOrder, Elsewhere, cacheVars, Writing

LEMMA BeginElsewhere ==
  ASSUME CacheInv, NEW c \in CommandIds, NEW w, Begin(c, w),
         {"at", "cred"} \subseteq DOMAIN w, w.at \notin Writing
  PROVE  Elsewhere /\ Shaped'
  BY DEF CacheInv, Shaped, Begin, Elsewhere, Writing, cacheVars

LEMMA CommandsBegin ==
  ASSUME CacheInv, NEW c \in CommandIds,
         \/ BeginAutoSwitch(c) \/ BeginUsage(c) \/ BeginImport(c)
         \/ \E l \in Labels : BeginSwitch(c, l) \/ BeginExhaust(c, l) \/ BeginRemove(c, l)
  PROVE  Elsewhere /\ Shaped'
<1>1. CASE BeginAutoSwitch(c)
  BY <1>1, BeginElsewhere DEF BeginAutoSwitch, Loaded, Idle, Writing
<1>2. CASE BeginUsage(c)
  BY <1>2, BeginElsewhere DEF BeginUsage, Loaded, Idle, Writing
<1>3. CASE BeginImport(c)
  BY <1>3, BeginElsewhere DEF BeginImport, Loaded, Idle, Writing
<1>4. ASSUME NEW l \in Labels, BeginSwitch(c, l)
      PROVE  Elsewhere /\ Shaped'
  BY <1>4, BeginElsewhere DEF BeginSwitch, Loaded, Idle, Writing
<1>5. ASSUME NEW l \in Labels, BeginExhaust(c, l)
      PROVE  Elsewhere /\ Shaped'
  BY <1>5, BeginElsewhere DEF BeginExhaust, Loaded, Idle, Writing
<1>6. ASSUME NEW l \in Labels, BeginRemove(c, l)
      PROVE  Elsewhere /\ Shaped'
  BY <1>6, BeginElsewhere DEF BeginRemove, Loaded, Idle, Writing
<1>7. QED
  BY <1>1, <1>2, <1>3, <1>4, <1>5, <1>6

LEMMA NetworkElsewhere ==
  ASSUME CacheInv, NEW c \in CommandIds,
         \/ Refresh(c) \/ RefreshFails(c) \/ ProfileResolved(c) \/ ImportFails(c)
         \/ Enter(c) \/ UsageRead(c)
  PROVE  Elsewhere /\ Shaped'
<1>1. CASE Refresh(c)
  <2>1. PICK t : work' = [work EXCEPT ![c].cred.token = t,
                   ![c].at = IF work[c].at = "resolve" THEN "profile" ELSE "register"]
    BY <1>1 DEF Refresh
  <2>2. /\ DOMAIN work' = DOMAIN work
        /\ \A o \in CommandIds \ {c} : work'[o] = work[o]
    BY <2>1 DEF CacheInv, Shaped
  <2>3. {"at", "cred"} \subseteq DOMAIN work'[c] /\ work'[c].at \in {"profile", "register"}
    BY <2>1 DEF CacheInv, Shaped
  <2>4. UNCHANGED cacheVars /\ mishaps \subseteq mishaps'
    BY <1>1 DEF Refresh, cacheVars
  <2>5. QED
    BY <2>2, <2>3, <2>4 DEF CacheInv, Shaped, Elsewhere, Writing
<1>2. CASE RefreshFails(c) \/ ImportFails(c)
  BY <1>2, IdleIsShaped
     DEF RefreshFails, ImportFails, Ended, CacheInv, Shaped, Elsewhere, Writing, cacheVars
<1>3. CASE ProfileResolved(c)
  BY <1>3 DEF ProfileResolved, Advance, CacheInv, Shaped, Elsewhere, Writing, cacheVars
<1>4. CASE Enter(c)
  <2> DEFINE before == IF c \in Window THEN Loaded
                       ELSE [work[c] EXCEPT !.cred = Nobody, !.client = None]
             next(pool) == [before EXCEPT !.pool = pool, !.at = "truncate"]
  <2>1. \E pool : work' = [work EXCEPT ![c] = next(pool)]
    BY <1>4 DEF Enter
  <2>2. {"at", "cred"} \subseteq DOMAIN before
    BY LoadedIsShaped DEF CacheInv, Shaped
  <2> HIDE DEF before
  <2>3. \A pool : {"at", "cred"} \subseteq DOMAIN next(pool) /\ next(pool).at = "truncate"
    BY <2>2
  <2> HIDE DEF next
  <2>4. UNCHANGED <<cacheVars, mishaps>>
    BY <1>4 DEF Enter
  <2>5. PICK pool : work' = [work EXCEPT ![c] = next(pool)]
    BY <2>1
  <2>6. QED
    BY <2>3, <2>4, <2>5 DEF CacheInv, Shaped, Elsewhere, Writing, cacheVars
<1>5. CASE UsageRead(c)
  BY <1>5 DEF UsageRead, CacheInv, Shaped, Elsewhere, Writing, cacheVars
<1>6. QED
  BY <1>1, <1>2, <1>3, <1>4, <1>5

LEMMA SaveElsewhere ==
  ASSUME CacheInv, NEW c \in CommandIds,
         CacheFails(c) \/ Truncate(c) \/ Write(c) \/ SaveFails(c) \/ Pick(c)
  PROVE  Elsewhere /\ Shaped'
<1>1. CASE CacheFails(c) \/ SaveFails(c)
  BY <1>1, IdleIsShaped
     DEF CacheFails, SaveFails, Ended, CacheInv, Shaped, Elsewhere, Writing, cacheVars
<1>2. CASE Truncate(c)
  BY <1>2 DEF Truncate, CacheInv, Shaped, Elsewhere, Writing, cacheVars
<1>3. CASE Write(c)
  BY <1>3, IdleIsShaped DEF Write, Ended, CacheInv, Shaped, Elsewhere, Writing, cacheVars
<1>4. CASE Pick(c)
  <2>0. UNCHANGED <<cacheVars, mishaps>>
    BY <1>4 DEF Pick
  <2>1. CASE work' = Ended(c) \/ Advance(c, "truncate")
    BY <2>0, <2>1, IdleIsShaped
       DEF Ended, Advance, CacheInv, Shaped, Elsewhere, Writing
  <2>2. ASSUME NEW i, work' = [work EXCEPT ![c].at = "refresh",
                                           ![c].label = work[c].pool[i].label,
                                           ![c].cred = CredOf(work[c].pool[i])]
        PROVE  Elsewhere /\ Shaped'
    <3>1. /\ DOMAIN work' = DOMAIN work
          /\ \A o \in CommandIds \ {c} : work'[o] = work[o]
      BY <2>2 DEF CacheInv, Shaped
    <3>2. {"at", "cred"} \subseteq DOMAIN work'[c] /\ work'[c].at = "refresh"
      BY <2>2 DEF CacheInv, Shaped
    <3>3. QED
      BY <2>0, <3>1, <3>2 DEF CacheInv, Shaped, Elsewhere, Writing
  <2>3. QED
    BY <1>4, <2>1, <2>2 DEF Pick
<1>5. QED
  BY <1>1, <1>2, <1>3, <1>4

LEMMA CrashElsewhere ==
  ASSUME CacheInv, NEW dead, Crash(dead)
  PROVE  Elsewhere /\ Shaped'
  BY IdleIsShaped DEF Crash, CacheInv, Shaped, Elsewhere, Writing, cacheVars

(* write_sso_cache, one call at a time.                                    *)
LEMMA CacheWrites ==
  ASSUME CacheInv, NEW c \in CommandIds, Register(c) \/ Blank(c) \/ Fill(c) \/ Swap(c)
  PROVE  CacheInv'
<1>1. CASE Register(c)
  BY <1>1 DEF Register, Advance, CacheInv, CacheOrder, Shaped, Writing
<1>2. CASE Blank(c)
  BY <1>2 DEF Blank, Advance, Clash, Rival, CacheInv, CacheOrder, Shaped, Writing
<1>3. CASE Fill(c)
  BY <1>3, NamesAssumption
     DEF Fill, Overwritten, Advance, CacheInv, CacheOrder, Shaped, Writing
<1>4. CASE Swap(c)
  <2>1. PICK i : work' = [work EXCEPT ![c].at = "truncate",
                                      ![c].label = None,
                                      ![c].cred = Nobody,
                                      ![c].pool[i].fam = work[c].cred.fam,
                                      ![c].pool[i].token = work[c].cred.token]
    BY <1>4 DEF Swap
  <2>2. /\ DOMAIN work' = DOMAIN work
        /\ \A o \in CommandIds \ {c} : work'[o] = work[o]
    BY <2>1 DEF CacheInv, Shaped
  <2>3. {"at", "cred"} \subseteq DOMAIN work'[c] /\ work'[c].at = "truncate"
    BY <2>1 DEF CacheInv, Shaped
  <2>4. /\ work[c].at = "swap"
        /\ ide' = tmp
        /\ UNCHANGED <<reg, mishaps>>
    BY <1>4 DEF Swap
  <2>5. Shaped'
    BY <2>2, <2>3 DEF CacheInv, Shaped
  <2>6. ASSUME "clash" \notin mishaps
        PROVE  CacheOrder'
    BY <2>2, <2>3, <2>4, <2>6 DEF CacheInv, CacheOrder, Writing
  <2>7. QED
    BY <2>4, <2>5, <2>6 DEF CacheInv
<1>5. QED
  BY <1>1, <1>2, <1>3, <1>4

LEMMA CacheInvStep ==
  ASSUME CacheInv, [Next]_vars
  PROVE  CacheInv'
<1>1. ASSUME NEW c \in CommandIds, Command(c)
      PROVE  CacheInv'
  BY <1>1, CommandsBegin, NetworkElsewhere, SaveElsewhere, CacheWrites, ElsewhereKeeps
     DEF Command
<1>2. CASE Crash(Window) \/ \E c \in Cli : Crash({c})
  BY <1>2, CrashElsewhere, ElsewhereKeeps
<1>3. CASE IdeRefreshes
  BY <1>3, ElsewhereKeeps DEF IdeRefreshes, Elsewhere, CacheInv, Shaped, cacheVars
<1>4. CASE UNCHANGED vars
  BY <1>4 DEF vars, CacheInv, CacheOrder, Shaped
<1>5. QED
  BY <1>1, <1>2, <1>3, <1>4 DEF Next

LEMMA CacheInvStarts == Init => CacheInv
  BY IdleIsShaped DEF Init, CacheInv, CacheOrder, Shaped, Writing

(* Whatever number of switches run, fail or die, the IDE never finds a     *)
(* half-written token file, or one without its registration, as long as no *)
(* two of them are in the temporary file at once (pool.rs:158-206).        *)
THEOREM CacheStaysWhole == Spec => []CacheIsWhole
<1>1. Init => CacheInv
  BY CacheInvStarts
<1>2. CacheInv /\ [Next]_vars => CacheInv'
  BY CacheInvStep
<1>3. CacheInv => CacheIsWhole
  BY DEF CacheInv, CacheOrder, CacheIsWhole
<1>4. QED
  BY <1>1, <1>2, <1>3, PTL DEF Spec

-----------------------------------------------------------------------------
(* The store's operations.                                                 *)

LEMMA LeastIndex ==
  ASSUME NEW T, T \subseteq Nat, T # {}
  PROVE  (CHOOSE i \in T : \A j \in T : i <= j) \in T
  BY LeastNat

LEMMA FirstHas ==
  ASSUME NEW S, NEW pool \in Seq(S), NEW l, Having(pool, l) # {}
  PROVE  First(pool, l) \in DOMAIN pool /\ pool[First(pool, l)].label = l
<1>1. Having(pool, l) \subseteq Nat
  BY DEF Having
<1>2. First(pool, l) \in Having(pool, l)
  BY <1>1, LeastIndex DEF First
<1>3. QED
  BY <1>2 DEF Having

(* An account that is entered has its place, and the others keep theirs.   *)
LEMMA UpsertPlaces ==
  ASSUME NEW pool \in Seq(Accounts), NEW a \in Accounts
  PROVE  /\ Upsert(pool, a) \in Seq(Accounts)
         /\ \E k \in DOMAIN Upsert(pool, a) :
              /\ Upsert(pool, a)[k] = a
              /\ \A i \in DOMAIN Upsert(pool, a) \ {k} :
                   i \in DOMAIN pool /\ Upsert(pool, a)[i] = pool[i]
<1> DEFINE slots == {i \in DOMAIN pool : Same(pool[i], a)}
           slot == CHOOSE i \in slots : \A j \in slots : i <= j
<1>1. CASE slots = {}
  <2>1. Upsert(pool, a) = Append(pool, a)
    BY <1>1 DEF Upsert
  <2>2. QED
    BY <2>1
<1>2. CASE slots # {}
  <2>1. Upsert(pool, a) = [pool EXCEPT ![slot] = a]
    BY <1>2 DEF Upsert
  <2>2. slots \subseteq Nat
    OBVIOUS
  <2>3. slot \in slots
    BY <1>2, <2>2, LeastIndex
  <2>4. slot \in DOMAIN pool
    BY <2>3
  <2> HIDE DEF slot
  <2>5. QED
    BY <2>1, <2>4
<1>3. QED
  BY <1>1, <1>2

(* Taking a label out leaves accounts of the pool.                         *)
LEMMA WithoutLabelKeeps ==
  \A pool, l : pool \in Seq(Accounts) =>
    /\ WithoutLabel(pool, l) \in Seq(Accounts)
    /\ \A i \in DOMAIN WithoutLabel(pool, l) :
         \E j \in DOMAIN pool : WithoutLabel(pool, l)[i] = pool[j]
<1>0. SUFFICES ASSUME NEW pool, NEW l, pool \in Seq(Accounts)
      PROVE  /\ WithoutLabel(pool, l) \in Seq(Accounts)
             /\ \A i \in DOMAIN WithoutLabel(pool, l) :
                  \E j \in DOMAIN pool : WithoutLabel(pool, l)[i] = pool[j]
  OBVIOUS
<1> DEFINE N == Len(pool)
           held == {pool[j] : j \in 1..N}
           pass == [n \in 1..N |-> [s \in Seq(held) |->
                      IF pool[n].label = l THEN s ELSE Append(s, pool[n])]]
           Sifted(f) == f = [n \in 0..N |->
                          IF n = 0 THEN <<>>
                          ELSE IF pool[n].label = l THEN f[n - 1] ELSE Append(f[n - 1], pool[n])]
<1>1. pass \in [1..N -> [Seq(held) -> Seq(held)]]
  BY <1>0
<1>2. <<>> \in Seq(held) /\ N \in Nat /\ DOMAIN pool = 1..N
  BY <1>0
<1> DEFINE pools == Seq(held)
           none == <<>>
<1>3. PICK f \in [0..N -> pools] : f[0] = none /\ \A n \in 1..N : f[n] = pass[n][f[n - 1]]
  <2>1. none \in pools /\ N \in Nat /\ pass \in [1..N -> [pools -> pools]]
    BY <1>1, <1>2
  <2> HIDE DEF pass, pools, none, N, Sifted
  <2>2. QED
    BY <2>1, FunctionByStep
<1>4. ASSUME NEW n \in 1..N
      PROVE  f[n] = IF pool[n].label = l THEN f[n - 1] ELSE Append(f[n - 1], pool[n])
  <2>1. n - 1 \in 0..N
    OBVIOUS
  <2>2. f[n - 1] \in pools /\ f[n] = pass[n][f[n - 1]]
    <3> HIDE DEF pools, pass, N
    <3>1. QED
      BY <1>3, <2>1
  <2> HIDE DEF held
  <2>3. QED
    BY <2>2
<1>5. Sifted(f)
  <2>1. f = [n \in 0..N |-> f[n]] /\ f[0] = <<>>
    BY <1>3
  <2>2. \A n \in 0..N : n = 0 \/ n \in 1..N
    OBVIOUS
  <2> HIDE DEF N, held, pools, pass
  <2>3. \A n \in 0..N : f[n] = IF n = 0 THEN <<>>
          ELSE IF pool[n].label = l THEN f[n - 1] ELSE Append(f[n - 1], pool[n])
    BY <1>4, <2>1, <2>2
  <2>4. QED
    BY <2>1, <2>3
<1> DEFINE kept == CHOOSE g : Sifted(g)
<1>6. Sifted(kept)
  <2> HIDE DEF Sifted
  <2>1. QED
    BY <1>5
<1>7. WithoutLabel(pool, l) = kept[N]
  BY DEF WithoutLabel
<1> DEFINE T == {n \in Nat : n <= N => kept[n] \in Seq(held)}
<1> HIDE DEF kept
<1>8. kept[0] = <<>> /\ \A n \in 1..N : kept[n] = IF pool[n].label = l THEN kept[n - 1]
                                                 ELSE Append(kept[n - 1], pool[n])
  <2>1. \A n \in 0..N : kept[n] = IF n = 0 THEN <<>>
          ELSE IF pool[n].label = l THEN kept[n - 1] ELSE Append(kept[n - 1], pool[n])
    <3> HIDE DEF N
    <3>1. QED
      BY <1>6
  <2>2. \A n \in 1..N : n \in 0..N /\ n # 0
    OBVIOUS
  <2>3. 0 \in 0..N
    OBVIOUS
  <2> HIDE DEF N
  <2>4. QED
    BY <2>1, <2>2, <2>3
<1>9. 0 \in T
  BY <1>2, <1>8
<1>10. ASSUME NEW n \in Nat, n \in T
       PROVE  n + 1 \in T
  <2>1. CASE n + 1 <= N
    <3>1. n + 1 \in 1..N /\ pool[n + 1] \in held /\ kept[n] \in Seq(held)
      BY <1>10, <2>1
    <3>2. kept[n + 1] = IF pool[n + 1].label = l THEN kept[n] ELSE Append(kept[n], pool[n + 1])
      BY <1>8, <3>1
    <3>3. kept[n + 1] \in Seq(held)
      BY <3>1, <3>2
    <3>4. QED
      BY <3>3
  <2>2. CASE ~(n + 1 <= N)
    BY <2>2
  <2>3. QED
    BY <2>1, <2>2
<1>11. T = Nat
  <2>1. T \subseteq Nat
    OBVIOUS
  <2> HIDE DEF T
  <2>2. QED
    BY <1>9, <1>10, <2>1, SetInduction
<1>12. WithoutLabel(pool, l) \in Seq(held)
  BY <1>7, <1>11
<1>13. held \subseteq Accounts
  BY <1>0
<1> DEFINE w == WithoutLabel(pool, l)
<1>14. \A i \in DOMAIN w : w[i] \in held
  <2> HIDE DEF w, held
  <2>1. QED
    BY <1>12
<1>15. \A i \in DOMAIN w : \E j \in DOMAIN pool : w[i] = pool[j]
  <2> HIDE DEF w
  <2>1. QED
    BY <1>2, <1>14
<1>16. w \in Seq(Accounts)
  <2> HIDE DEF held
  <2>1. QED
    BY <1>12, <1>13
<1>17. QED
  BY <1>15, <1>16

(* Another's credential in one account of the pool.                        *)
LEMMA SwapPlaces ==
  ASSUME NEW pool \in Seq(Accounts), NEW i \in DOMAIN pool, NEW cred \in Credentials
  PROVE  LET new == [pool EXCEPT ![i].fam = cred.fam, ![i].token = cred.token]
         IN  /\ new \in Seq(Accounts) /\ DOMAIN new = DOMAIN pool
             /\ CredOf(new[i]) = cred /\ new[i].status = pool[i].status
             /\ \A j \in DOMAIN pool \ {i} : new[j] = pool[j]
<1> DEFINE a == [pool[i] EXCEPT !.fam = cred.fam, !.token = cred.token]
<1>1. pool[i] \in Accounts /\ cred = [fam |-> cred.fam, token |-> cred.token]
  BY DEF Credentials
<1>2. a \in Accounts /\ a.fam = cred.fam /\ a.token = cred.token /\ a.status = pool[i].status
  BY <1>1 DEF Accounts, Credentials
<1>3. [pool EXCEPT ![i].fam = cred.fam, ![i].token = cred.token] = [pool EXCEPT ![i] = a]
  BY <1>1 DEF Accounts
<1> HIDE DEF a
<1>4. CredOf(a) = cred
  BY <1>1, <1>2 DEF CredOf
<1>5. QED
  BY <1>2, <1>3, <1>4

-----------------------------------------------------------------------------
(* What every command holds, whatever has gone wrong.                      *)

Works == [at : Steps, fresh : BOOLEAN, pool : Seq(Accounts), label : Labels \cup {None},
          cred : Credentials \cup {Nobody}, client : Families \cup {None},
          after : {"pick", "end"}]

Switching == {"refresh", "register", "blank", "fill", "swap"}
Credited == {"resolve", "profile", "enter"} \cup Switching

(* A command that switches has the account in the copy it loaded, and so   *)
(* has one that is to mark an account.                                     *)
Formed(w) ==
  /\ w \in Works
  /\ w.at \in Credited => w.cred \in Credentials
  /\ w.at \in Switching =>
       /\ w.label \in Labels
       /\ Having(w.pool, w.label) # {}
       /\ \E i \in DOMAIN w.pool : w.pool[i].fam = w.cred.fam
  /\ w.after = "pick" => w.at \in {"truncate", "write"} /\ Having(w.pool, w.label) # {}

(* No token is known before the server has given it out.                   *)
Known(pool) == \A i \in DOMAIN pool : pool[i].token <= live[pool[i].fam]
Backed(w) == Known(w.pool) /\ (w.cred \in Credentials => w.cred.token <= live[w.cred.fam])

Outside ==
  /\ ide \in Families \cup {Torn, None}
  /\ tmp \in Families \cup {Torn, None}
  /\ reg \subseteq Families
  /\ marked \cup lost \cup dropped \subseteq Families
  /\ mishaps \subseteq Mishaps

PoolInv ==
  /\ Readable => file \in Seq(Accounts) /\ Known(file)
  /\ live \in [Families -> Tokens]
  /\ DOMAIN work = CommandIds
  /\ \A c \in CommandIds : Formed(work[c]) /\ Backed(work[c])
  /\ Outside

(* Only command c has moved.                                               *)
Turned(c) == DOMAIN work' = CommandIds /\ \A o \in CommandIds \ {c} : work'[o] = work[o]

LEMMA Turn ==
  ASSUME PoolInv, NEW c \in CommandIds, NEW v, work' = [work EXCEPT ![c] = v]
  PROVE  Turned(c) /\ work'[c] = v
  BY DEF PoolInv, Turned

LEMMA NobodyIsNoCredential == Nobody \notin Credentials
  BY NamesAssumption DEF Nobody, Credentials

LEMMA IdleFormed ==
  ASSUME NEW at \in {"rest", "over"}
  PROVE  /\ Idle(at) \in Works /\ Formed(Idle(at)) /\ Backed(Idle(at)) /\ Backed(Idle(at))'
         /\ Idle(at).at = at /\ Idle(at).after = "end"
<1>1. Idle(at) \in Works
  BY DEF Idle, Works, Steps
<1>2. Idle(at).at = at /\ Idle(at).pool = <<>> /\ Idle(at).cred = Nobody /\ Idle(at).after = "end"
  BY DEF Idle
<1>3. QED
  BY <1>1, <1>2, NobodyIsNoCredential DEF Formed, Backed, Known, Credited, Switching

LEMMA LoadedFormed ==
  ASSUME PoolInv, Readable
  PROVE  /\ Loaded \in Works /\ Known(Loaded.pool)
         /\ Loaded.at = "rest" /\ Loaded.fresh = TRUE /\ Loaded.pool = file
         /\ Loaded.label = None /\ Loaded.cred = Nobody /\ Loaded.client = None
         /\ Loaded.after = "end"
<1> DEFINE idle == Idle("rest")
<1>1. /\ idle \in Works
      /\ idle.at = "rest" /\ idle.fresh = TRUE
      /\ idle.label = None /\ idle.cred = Nobody /\ idle.client = None
      /\ idle.after = "end"
  BY IdleFormed DEF Idle
<1>2. Loaded = [idle EXCEPT !.pool = file]
  BY DEF Loaded
<1>3. file \in Seq(Accounts) /\ Known(file)
  BY DEF PoolInv
<1> HIDE DEF idle
<1>4. Loaded \in Works /\ Loaded.pool = file
  BY <1>1, <1>2, <1>3 DEF Works
<1>5. QED
  BY <1>1, <1>2, <1>3, <1>4 DEF Works

LEMMA AccountsHold ==
  ASSUME NEW a \in Accounts
  PROVE  /\ a.fam \in Families /\ a.token \in Tokens /\ a.label \in Labels
         /\ CredOf(a) \in Credentials /\ CredOf(a).fam = a.fam /\ CredOf(a).token = a.token
  BY DEF Accounts, CredOf, Credentials

LEMMA FileAccounts ==
  ASSUME PoolInv, Readable
  PROVE  /\ file \in Seq(Accounts)
         /\ \A i \in DOMAIN file : /\ file[i] \in Accounts
                                   /\ file[i].token <= live[file[i].fam]
<1>1. file \in Seq(Accounts) /\ Known(file)
  BY DEF PoolInv
<1>2. QED
  BY <1>1 DEF Known

-----------------------------------------------------------------------------
(* What the steps do to a command.                                         *)

(* The copy of an account: what it was taken from, or marked since.        *)
Kin(a, b) == a.fam = b.fam /\ a.token = b.token /\ (IsActive(a) => IsActive(b))

Copies(pool, from) == \A i \in DOMAIN pool : \E j \in DOMAIN from : Kin(pool[i], from[j])

(* Holding a copy of the file.                                             *)
Copying(c) ==
  \/ work[c].at \in Switching \cup {"usage", "pick", "truncate", "write"}
  \/ c \in Cli /\ work[c].at \in {"resolve", "profile", "enter"}

(* A command that begins: its copy is the file's, but for what it removes  *)
(* or marks.                                                               *)
Begun(c) ==
  /\ work[c].at = "rest" /\ Turned(c)
  /\ UNCHANGED <<file, live, cacheVars, goneVars, mishaps>>
  /\ Formed(work'[c]) /\ Backed(work'[c])
  /\ work'[c].at \in {"refresh", "usage", "resolve", "pick", "truncate"}
  /\ work'[c].at = "resolve" => BeginImport(c)
  /\ Copying(c)' => Readable /\ Copies(work'[c].pool, file)

LEMMA SwitchBegins ==
  ASSUME PoolInv, NEW c \in CommandIds, NEW i, NEW k, NEW l \in Labels, Readable,
         i \in DOMAIN file, k \in DOMAIN file, file[k].label = l,
         Begin(c, [Loaded EXCEPT !.at = "refresh", !.label = l, !.cred = CredOf(file[i])])
  PROVE  Begun(c) /\ work'[c].after = "end"
<1> DEFINE v == [Loaded EXCEPT !.at = "refresh", !.label = l, !.cred = CredOf(file[i])]
<1>1. /\ file[i] \in Accounts /\ CredOf(file[i]) \in Credentials
      /\ CredOf(file[i]).fam = file[i].fam /\ CredOf(file[i]).token <= live[file[i].fam]
  BY FileAccounts, AccountsHold
<1>2. /\ v \in Works
      /\ v.at = "refresh" /\ v.label = l /\ v.cred = CredOf(file[i]) /\ v.pool = file
      /\ v.after = "end"
  BY <1>1, LoadedFormed DEF Works, Steps
<1> HIDE DEF v
<1>3. Formed(v)
  BY <1>1, <1>2 DEF Formed, Having, Switching
<1>4. Backed(v)
  BY <1>1, <1>2 DEF PoolInv, Backed
<1>5. Copies(v.pool, file)
  BY <1>2 DEF Copies, Kin
<1>6. Begin(c, v)
  BY DEF v
<1>7. work[c].at = "rest" /\ Turned(c) /\ work'[c] = v
  BY <1>6, Turn DEF Begin
<1>8. QED
  BY <1>2, <1>3, <1>4, <1>5, <1>6, <1>7 DEF Begun, Begin

LEMMA AutoSwitchBegins ==
  ASSUME PoolInv, NEW c \in CommandIds, BeginAutoSwitch(c)
  PROVE  Begun(c) /\ marked' = marked
<1>1. Readable /\ marked' = marked /\ file \in Seq(Accounts)
  BY FileAccounts DEF BeginAutoSwitch
<1>2. PICK i \in Best(file) :
        LET l == file[i].label
            chosen == IF c \in Window THEN i ELSE First(file, l)
        IN  Begin(c, [Loaded EXCEPT !.at = "refresh", !.label = l,
                                    !.cred = CredOf(file[chosen])])
  BY DEF BeginAutoSwitch
<1> DEFINE l == file[i].label
           chosen == IF c \in Window THEN i ELSE First(file, l)
<1>3. i \in DOMAIN file /\ l \in Labels
  BY <1>1, <1>2, AccountsHold DEF Best
<1>4. chosen \in DOMAIN file
  BY <1>1, <1>3, FirstHas DEF Having
<1>5. Begin(c, [Loaded EXCEPT !.at = "refresh", !.label = l, !.cred = CredOf(file[chosen])])
  BY <1>2
<1> HIDE DEF chosen
<1>6. QED
  BY <1>1, <1>3, <1>4, <1>5, SwitchBegins

LEMMA SwitchByLabelBegins ==
  ASSUME PoolInv, NEW c \in CommandIds, NEW l \in Labels, BeginSwitch(c, l)
  PROVE  Begun(c) /\ marked' = marked
<1>1. Readable /\ marked' = marked /\ file \in Seq(Accounts)
  BY FileAccounts DEF BeginSwitch
<1>2. First(file, l) \in DOMAIN file /\ file[First(file, l)].label = l
  BY <1>1, FirstHas DEF BeginSwitch
<1>3. QED
  BY <1>1, <1>2, SwitchBegins DEF BeginSwitch

LEMMA UsageBegins ==
  ASSUME PoolInv, NEW c \in CommandIds, BeginUsage(c)
  PROVE  Begun(c) /\ marked' = marked
<1> DEFINE v == [Loaded EXCEPT !.at = "usage"]
<1>1. Readable /\ Begin(c, v) /\ marked' = marked
  BY DEF BeginUsage
<1>2. /\ v \in Works /\ v.at = "usage" /\ v.pool = file /\ v.cred = Nobody /\ v.after = "end"
  BY <1>1, LoadedFormed DEF Works, Steps
<1> HIDE DEF v
<1>3. Formed(v) /\ Backed(v)
  BY <1>1, <1>2, NobodyIsNoCredential DEF Formed, Backed, PoolInv, Credited, Switching
<1>4. Copies(v.pool, file)
  BY <1>2 DEF Copies, Kin
<1>5. work[c].at = "rest" /\ Turned(c) /\ work'[c] = v
  BY <1>1, Turn DEF Begin
<1>6. QED
  BY <1>1, <1>2, <1>3, <1>4, <1>5 DEF Begun, Begin

LEMMA RemoveBegins ==
  ASSUME PoolInv, NEW c \in CommandIds, NEW l \in Labels, BeginRemove(c, l)
  PROVE  Begun(c) /\ marked' \subseteq marked
<1> DEFINE rest == WithoutLabel(file, l)
           v == [Loaded EXCEPT !.at = "truncate", !.pool = rest]
<1>1. Readable /\ Begin(c, v) /\ marked' \subseteq marked
  BY DEF BeginRemove
<1>2. /\ file \in Seq(Accounts) /\ rest \in Seq(Accounts)
      /\ \A i \in DOMAIN rest : \E j \in DOMAIN file : rest[i] = file[j]
  BY <1>1, FileAccounts, WithoutLabelKeeps
<1> HIDE DEF rest
<1>3. /\ v \in Works /\ v.at = "truncate" /\ v.pool = rest /\ v.cred = Nobody /\ v.after = "end"
  BY <1>1, <1>2, LoadedFormed DEF Works, Steps
<1> HIDE DEF v
<1>4. Formed(v)
  BY <1>3, NobodyIsNoCredential DEF Formed, Credited, Switching
<1>5. Backed(v)
  BY <1>1, <1>2, <1>3, NobodyIsNoCredential DEF Backed, PoolInv, Known
<1>6. Copies(v.pool, file)
  BY <1>2, <1>3 DEF Copies, Kin
<1>7. work[c].at = "rest" /\ Turned(c) /\ work'[c] = v
  BY <1>1, Turn DEF Begin
<1>8. QED
  BY <1>1, <1>3, <1>4, <1>5, <1>6, <1>7 DEF Begun, Begin

(* The folders an account can be imported from; only the IDE's cache holds *)
(* registrations of several accounts, and names the right one.             *)
LEMMA Folders ==
  ASSUME reg \subseteq Families, NEW folder \in Shared \cup IdeCache
  PROVE  /\ folder.fam \in Families
         /\ find_client_registration(folder) \subseteq Families
         /\ ide = None \/ ide \in reg => find_client_registration(folder) \subseteq {folder.fam}
<1>1. CASE folder \in IdeCache
  <2>1. PICK f \in {ide} \cap Families :
          folder = [fam |-> f, hash |-> f, named |-> reg, loose |-> {}]
    BY <1>1 DEF IdeCache
  <2>2. folder.fam = ide /\ folder.hash = ide /\ folder.named = reg /\ folder.loose = {}
        /\ ide \in Families
    BY <2>1
  <2>3. ide # None
    BY <2>2, NamesAssumption
  <2>4. QED
    BY <2>2, <2>3 DEF find_client_registration
<1>2. CASE folder \in Shared
  <2>1. PICK f \in Families :
          \/ folder = Exported(f)
          \/ folder = [Exported(f) EXCEPT !.hash = None]
          \/ folder = [Exported(f) EXCEPT !.named = {}, !.loose = {f}]
    BY <1>2 DEF Shared
  <2>2. folder.fam = f /\ folder.named \subseteq {f} /\ folder.loose \subseteq {f}
    <3>1. CASE folder = Exported(f)
      BY <3>1 DEF Exported
    <3>2. CASE folder = [Exported(f) EXCEPT !.hash = None]
      <4>1. folder = [fam |-> f, hash |-> None, named |-> {f}, loose |-> {}]
        BY <3>2 DEF Exported
      <4>2. QED
        BY <4>1
    <3>3. CASE folder = [Exported(f) EXCEPT !.named = {}, !.loose = {f}]
      <4>1. folder = [fam |-> f, hash |-> f, named |-> {}, loose |-> {f}]
        BY <3>3 DEF Exported
      <4>2. QED
        BY <4>1
    <3>4. QED
      BY <2>1, <3>1, <3>2, <3>3
  <2>3. find_client_registration(folder) \subseteq {f}
    BY <2>2 DEF find_client_registration
  <2>4. QED
    BY <2>2, <2>3
<1>3. QED
  BY <1>1, <1>2

LEMMA ImportBegins ==
  ASSUME PoolInv, NEW c \in CommandIds, BeginImport(c)
  PROVE  Begun(c) /\ marked' = marked
<1>0. PICK folder \in Shared \cup IdeCache : \E f \in find_client_registration(folder) :
        /\ c \in Cli => Readable
        /\ Begin(c, [(IF c \in Window THEN Idle("rest") ELSE Loaded) EXCEPT
                       !.at = "resolve", !.client = f,
                       !.cred = [fam |-> folder.fam, token |-> live[folder.fam]]])
        /\ UNCHANGED marked
  BY DEF BeginImport
<1>1. PICK f \in find_client_registration(folder) :
        /\ c \in Cli => Readable
        /\ Begin(c, [(IF c \in Window THEN Idle("rest") ELSE Loaded) EXCEPT
                       !.at = "resolve", !.client = f,
                       !.cred = [fam |-> folder.fam, token |-> live[folder.fam]]])
        /\ UNCHANGED marked
  BY <1>0
<1> DEFINE before == IF c \in Window THEN Idle("rest") ELSE Loaded
           cred == [fam |-> folder.fam, token |-> live[folder.fam]]
           v == [before EXCEPT !.at = "resolve", !.client = f, !.cred = cred]
<1>2. folder.fam \in Families /\ f \in Families
  BY <1>1, Folders DEF PoolInv, Outside
<1>3. cred \in Credentials /\ cred.fam = folder.fam /\ cred.token = live[cred.fam]
  BY <1>2 DEF PoolInv, Credentials
<1>4. /\ before \in Works /\ Known(before.pool) /\ before.after = "end"
      /\ c \in Cli => Readable /\ before.pool = file
  <2>1. CASE c \in Window
    <3>1. before = Idle("rest") /\ c \notin Cli
      BY <2>1, CommandsAssumption
    <3>2. QED
      BY <3>1, IdleFormed DEF Backed
  <2>2. CASE c \notin Window
    <3>1. before = Loaded /\ Readable
      BY <1>1, <2>2 DEF CommandIds
    <3>2. QED
      BY <3>1, LoadedFormed
  <2>3. QED
    BY <2>1, <2>2
<1>5. Begin(c, v)
  BY <1>1
<1> HIDE DEF before, cred
<1>6. /\ v \in Works /\ v.at = "resolve" /\ v.pool = before.pool /\ v.cred = cred
      /\ v.after = "end"
  BY <1>2, <1>3, <1>4 DEF Works, Steps
<1> HIDE DEF v
<1>7. Formed(v)
  BY <1>3, <1>6 DEF Formed, Switching
<1>8. Backed(v)
  <2>1. live[cred.fam] \in Nat
    BY <1>2, <1>3, BoundsAssumption DEF PoolInv, Tokens
  <2>2. QED
    BY <1>3, <1>4, <1>6, <2>1 DEF Backed
<1>9. c \in Cli => Copies(v.pool, file)
  BY <1>4, <1>6 DEF Copies, Kin
<1>10. work[c].at = "rest" /\ Turned(c) /\ work'[c] = v
  BY <1>5, Turn DEF Begin
<1>11. Copying(c)' => c \in Cli
  BY <1>6, <1>10 DEF Copying, Switching
<1>12. QED
  BY <1>1, <1>4, <1>5, <1>6, <1>7, <1>8, <1>9, <1>10, <1>11 DEF Begun, Begin

(* About to save the mark of family f.                                     *)
Marking(c, f) ==
  /\ c \in Window /\ work[c].at = "truncate" /\ work[c].after = "pick"
  /\ work[c].pool[First(work[c].pool, work[c].label)].fam = f

(* What is marked from now on, this command is about to save.              *)
MarksFollow(c) ==
  \A f \in marked' : \/ f \in marked
                     \/ /\ Marking(c, f)'
                        /\ \E k \in DOMAIN work'[c].pool :
                             work'[c].pool[k].fam = f /\ ~IsActive(work'[c].pool[k])

(* Marking an account in a copy.                                           *)
LEMMA MarkPlaces ==
  ASSUME NEW pool \in Seq(Accounts), NEW i \in DOMAIN pool, NEW status \in Statuses
  PROVE  LET new == [pool EXCEPT ![i].status = status]
         IN  /\ new \in Seq(Accounts) /\ DOMAIN new = DOMAIN pool
             /\ \A j \in DOMAIN pool :
                  /\ new[j].label = pool[j].label /\ new[j].fam = pool[j].fam
                  /\ new[j].token = pool[j].token
                  /\ new[j].status = IF j = i THEN status ELSE pool[j].status
<1> DEFINE a == [pool[i] EXCEPT !.status = status]
<1>1. pool[i] \in Accounts
  OBVIOUS
<1>2. /\ a \in Accounts /\ a.label = pool[i].label /\ a.fam = pool[i].fam
      /\ a.token = pool[i].token /\ a.status = status
  BY <1>1 DEF Accounts
<1>3. [pool EXCEPT ![i].status = status] = [pool EXCEPT ![i] = a]
  OBVIOUS
<1> HIDE DEF a
<1>4. QED
  BY <1>2, <1>3

LEMMA ExhaustBegins ==
  ASSUME PoolInv, NEW c \in CommandIds, NEW l \in Labels, BeginExhaust(c, l)
  PROVE  Begun(c) /\ MarksFollow(c) /\ marked' \subseteq Families
<1> DEFINE i == First(file, l)
           new == [file EXCEPT ![i].status = "exhausted"]
           at == IF c \in Window THEN "truncate" ELSE "pick"
           after == IF c \in Window THEN "pick" ELSE "end"
           v == [Loaded EXCEPT !.pool = new, !.label = l, !.at = at, !.after = after]
<1>1. /\ Readable /\ Having(file, l) # {}
      /\ marked' = IF c \in Window THEN marked \cup {file[i].fam} ELSE marked
  BY DEF BeginExhaust
<1>2. file \in Seq(Accounts) /\ Known(file) /\ i \in DOMAIN file /\ file[i].label = l
  BY <1>1, FirstHas DEF PoolInv
<1>3. [Loaded EXCEPT !.pool[i].status = "exhausted", !.label = l, !.at = at, !.after = after] = v
  BY <1>1, LoadedFormed DEF Works
<1>4. Begin(c, v)
  <2> HIDE DEF v
  <2>1. QED
    BY <1>3 DEF BeginExhaust
<1>5. /\ new \in Seq(Accounts) /\ DOMAIN new = DOMAIN file
      /\ \A j \in DOMAIN file :
           /\ new[j].label = file[j].label /\ new[j].fam = file[j].fam
           /\ new[j].token = file[j].token
           /\ new[j].status = IF j = i THEN "exhausted" ELSE file[j].status
  <2> DEFINE gone == "exhausted"
             marks == [file EXCEPT ![i].status = gone]
  <2>1. gone \in Statuses
    BY DEF Statuses
  <2> HIDE DEF gone, i
  <2>2. /\ marks \in Seq(Accounts) /\ DOMAIN marks = DOMAIN file
        /\ \A j \in DOMAIN file :
             /\ marks[j].label = file[j].label /\ marks[j].fam = file[j].fam
             /\ marks[j].token = file[j].token
             /\ marks[j].status = IF j = i THEN gone ELSE file[j].status
    BY <1>2, <2>1, MarkPlaces
  <2>3. QED
    BY <2>2 DEF gone
<1> HIDE DEF new
<1>6. /\ v \in Works /\ v.at = at /\ v.pool = new /\ v.cred = Nobody /\ v.after = after
      /\ v.label = l /\ at \in {"truncate", "pick"} /\ (after = "pick" => at = "truncate")
  BY <1>1, <1>5, LoadedFormed DEF Works, Steps
<1>7. Having(new, l) = Having(file, l) /\ First(new, l) = i
  BY <1>5 DEF Having, First
<1> HIDE DEF v, i, at, after
<1>8. Formed(v)
  BY <1>1, <1>6, <1>7, NobodyIsNoCredential DEF Formed, Credited, Switching
<1>9. Backed(v)
  BY <1>2, <1>5, <1>6, NobodyIsNoCredential DEF Backed, Known
<1>10. Copies(v.pool, file)
  BY <1>5, <1>6 DEF Copies, Kin, IsActive
<1>11. work[c].at = "rest" /\ Turned(c) /\ work'[c] = v
  BY <1>4, Turn DEF Begin
<1>12. Begun(c)
  BY <1>1, <1>4, <1>6, <1>8, <1>9, <1>10, <1>11 DEF Begun, Begin
<1>13. MarksFollow(c)
  <2>1. CASE c \notin Window
    BY <1>1, <2>1 DEF MarksFollow
  <2>2. CASE c \in Window
    <3>1. new[i].fam = file[i].fam /\ ~IsActive(new[i]) /\ i \in DOMAIN new
      BY <1>2, <1>5 DEF IsActive
    <3>2. /\ work'[c].at = "truncate" /\ work'[c].after = "pick"
          /\ work'[c].pool = new /\ work'[c].label = l
      BY <1>6, <1>11, <2>2 DEF at, after
    <3>3. PICK g : g = file[i].fam
      OBVIOUS
    <3>4. Marking(c, g)'
      BY <1>7, <2>2, <3>1, <3>2, <3>3 DEF Marking
    <3>5. \E k \in DOMAIN work'[c].pool : work'[c].pool[k].fam = g /\ ~IsActive(work'[c].pool[k])
      BY <3>1, <3>2, <3>3
    <3>6. \A f \in marked' : f \in marked \/ f = g
      BY <1>1, <2>2, <3>3
    <3>7. QED
      BY <3>4, <3>5, <3>6 DEF MarksFollow
  <2>3. QED
    BY <2>1, <2>2
<1>14. marked' \subseteq Families
  BY <1>1, <1>2, AccountsHold DEF PoolInv, Outside
<1>15. QED
  BY <1>12, <1>13, <1>14

-----------------------------------------------------------------------------
(* The steps that save nothing and enter no account.                       *)

Saving(c) == work[c].at \in {"truncate", "write"}

Grown == live' \in [Families -> Tokens] /\ \A f \in Families : live[f] <= live'[f]

Quiet(c) ==
  /\ Turned(c) /\ UNCHANGED file /\ Grown
  /\ Formed(work'[c]) /\ (Backed(work[c]))'
  /\ ~Saving(c) /\ work'[c].at # "write"
  /\ work'[c].at = "resolve" => BeginImport(c)
  /\ Copying(c)' /\ work'[c].fresh =>
       \/ Readable /\ ~InFlight(c) /\ Copies(work'[c].pool, file)
       \/ Copying(c) /\ work[c].fresh /\ Copies(work'[c].pool, work[c].pool)
  /\ MarksFollow(c)

(* No token rolled, and none found or dropped.                             *)
Held(c) ==
  /\ UNCHANGED <<live, goneVars>>
  /\ InFlight(c) <=> InFlight(c)'
  /\ InFlight(c) => work'[c].cred = work[c].cred

(* The accounts whose token is not the pool's, by a call that failed or by *)
(* a refresh for the profile.                                              *)
Gone == lost \cup dropped

(* A token of one account at most was dropped, and that is noted.          *)
Dropped(c) ==
  /\ work[c].cred.fam \in Gone'
  /\ \A f \in Families \ {work[c].cred.fam} : live'[f] = live[f] /\ (f \in Gone => f \in Gone')
  /\ InFlight(c)' => InFlight(c) /\ work'[c].cred = work[c].cred

LEMMA Untouched ==
  ASSUME PoolInv, live' = live
  PROVE  Grown
<1>1. \A f \in Families : live[f] \in Nat
  BY BoundsAssumption DEF PoolInv, Tokens
<1>2. QED
  BY <1>1 DEF PoolInv, Grown

LEMMA Bumped ==
  ASSUME PoolInv, NEW f \in Families, Rolls(f)
  PROVE  Grown /\ \A g \in Families \ {f} : live'[g] = live[g]
<1>0. live[f] < MaxRolls /\ live' = [live EXCEPT ![f] = @ + 1]
  BY DEF Rolls
<1>1. \A g \in Families : live[g] \in Nat /\ live[g] <= MaxRolls
  BY BoundsAssumption DEF PoolInv, Tokens
<1>2. live[f] + 1 \in Tokens
  BY <1>0, <1>1, BoundsAssumption DEF Tokens
<1>3. QED
  BY <1>0, <1>1, <1>2 DEF PoolInv, Grown

LEMMA StillKnown ==
  ASSUME PoolInv, Grown, NEW pool \in Seq(Accounts), Known(pool)
  PROVE  \A i \in DOMAIN pool : pool[i].token <= live'[pool[i].fam]
<1>1. SUFFICES ASSUME NEW i \in DOMAIN pool
               PROVE  pool[i].token <= live'[pool[i].fam]
  OBVIOUS
<1>2. pool[i].fam \in Families /\ pool[i].token \in Tokens
  BY AccountsHold
<1>3. /\ live[pool[i].fam] \in Tokens /\ live'[pool[i].fam] \in Tokens
      /\ live[pool[i].fam] <= live'[pool[i].fam] /\ pool[i].token <= live[pool[i].fam]
  BY <1>2 DEF PoolInv, Grown, Known
<1>4. QED
  BY <1>2, <1>3, BoundsAssumption DEF Tokens

LEMMA StillBacked ==
  ASSUME PoolInv, Grown, NEW w \in Works, Backed(w)
  PROVE  /\ \A i \in DOMAIN w.pool : w.pool[i].token <= live'[w.pool[i].fam]
         /\ w.cred \in Credentials => w.cred.token <= live'[w.cred.fam]
<1>1. \A i \in DOMAIN w.pool : w.pool[i].token <= live'[w.pool[i].fam]
  BY StillKnown DEF Backed, Works
<1>2. ASSUME w.cred \in Credentials
      PROVE  w.cred.token <= live'[w.cred.fam]
  <2>1. w.cred.fam \in Families /\ w.cred.token \in Tokens
    BY <1>2 DEF Credentials
  <2>2. /\ live[w.cred.fam] \in Tokens /\ live'[w.cred.fam] \in Tokens
        /\ live[w.cred.fam] <= live'[w.cred.fam] /\ w.cred.token <= live[w.cred.fam]
    BY <1>2, <2>1 DEF PoolInv, Grown, Backed
  <2>3. QED
    BY <2>1, <2>2, BoundsAssumption DEF Tokens
<1>3. QED
  BY <1>1, <1>2

LEMMA BegunQuiet ==
  ASSUME PoolInv, NEW c \in CommandIds, Begun(c), MarksFollow(c)
  PROVE  Quiet(c) /\ Held(c)
<1>1. Grown
  BY Untouched DEF Begun
<1>2. (Backed(work[c]))'
  BY DEF Begun, Backed, Known
<1>3. ~Saving(c) /\ ~InFlight(c) /\ ~InFlight(c)' /\ work'[c].at # "write"
  BY DEF Begun, Saving, InFlight
<1>4. QED
  BY <1>1, <1>2, <1>3 DEF Begun, Quiet, Held

LEMMA Quits ==
  ASSUME PoolInv, NEW c \in CommandIds, work' = Ended(c), UNCHANGED <<file, marked>>,
         Grown, ~Saving(c)
  PROVE  Quiet(c) /\ ~InFlight(c)'
<1>1. Turned(c) /\ work'[c] = Idle("over")
  BY Turn DEF Ended
<1>2. work'[c].at = "over" /\ work'[c].pool = <<>> /\ work'[c].cred = Nobody
  BY <1>1 DEF Idle
<1>3. Formed(work'[c]) /\ (Backed(work[c]))'
  BY <1>1, <1>2, IdleFormed, NobodyIsNoCredential DEF Backed, Known
<1>4. ~Copying(c)' /\ ~InFlight(c)'
  BY <1>2 DEF Copying, InFlight, Switching
<1>5. QED
  BY <1>1, <1>2, <1>3, <1>4 DEF Quiet, MarksFollow

LEMMA Moves ==
  ASSUME PoolInv, NEW c \in CommandIds, NEW v, work' = [work EXCEPT ![c] = v],
         UNCHANGED <<file, marked>>, Grown,
         Formed(v), v.cred \in Credentials => v.cred.token <= live'[v.cred.fam],
         ~Saving(c), v.at \notin {"write", "resolve"}, v.fresh = work[c].fresh,
         Copies(v.pool, work[c].pool), Copying(c)' => Copying(c)
  PROVE  Quiet(c) /\ work'[c] = v
<1>1. Turned(c) /\ work'[c] = v
  BY Turn
<1>2. ASSUME NEW i \in DOMAIN v.pool
      PROVE  v.pool[i].token <= live'[v.pool[i].fam]
  <2>1. PICK j \in DOMAIN work[c].pool :
          v.pool[i].fam = work[c].pool[j].fam /\ v.pool[i].token = work[c].pool[j].token
    BY <1>2 DEF Copies, Kin
  <2>2. work[c] \in Works /\ Backed(work[c])
    BY DEF PoolInv, Formed
  <2>3. work[c].pool[j].token <= live'[work[c].pool[j].fam]
    BY <2>2, StillBacked
  <2>4. QED
    BY <2>1, <2>3
<1>3. (Backed(work[c]))'
  BY <1>1, <1>2 DEF Backed, Known
<1>4. QED
  BY <1>1, <1>3 DEF Quiet, MarksFollow

LEMMA AdvanceQuiet ==
  ASSUME PoolInv, NEW c \in CommandIds, NEW at \in Steps \ {"write", "resolve"}, Advance(c, at),
         UNCHANGED <<file, marked>>, Grown,
         \/ work[c].at \in Switching
         \/ work[c].at \in {"usage", "pick"} /\ at \notin Credited
         \/ work[c].at = "profile" /\ at = "enter"
  PROVE  Quiet(c) /\ work'[c].at = at /\ work'[c].cred = work[c].cred
<1> DEFINE v == [work[c] EXCEPT !.at = at]
<1>1. Formed(work[c]) /\ Backed(work[c]) /\ work[c] \in Works
  BY DEF PoolInv, Formed
<1>2. /\ v \in Works /\ v.at = at /\ v.fresh = work[c].fresh /\ v.pool = work[c].pool
      /\ v.label = work[c].label /\ v.cred = work[c].cred /\ v.after = work[c].after
  BY <1>1 DEF Works
<1>3. work' = [work EXCEPT ![c] = v]
  BY DEF Advance
<1> HIDE DEF v
<1>4. ~Saving(c) /\ Switching \subseteq Credited
  BY DEF Saving, Switching, Credited
<1>5. Formed(v)
  BY <1>1, <1>2, <1>4 DEF Formed, Saving, Credited, Switching
<1>6. v.cred \in Credentials => v.cred.token <= live'[v.cred.fam]
  BY <1>1, <1>2, StillBacked
<1>7. Copies(v.pool, work[c].pool)
  BY <1>2 DEF Copies, Kin
<1>8. work'[c] = v
  BY <1>3, Turn
<1>9. Copying(c)' => Copying(c)
  BY <1>2, <1>8 DEF Copying, Credited, Switching
<1>10. QED
  BY <1>2, <1>3, <1>4, <1>5, <1>6, <1>7, <1>8, <1>9, Moves

LEMMA TokenRolls ==
  ASSUME PoolInv, NEW f \in Families, NEW t \in NextToken(f), live' = [live EXCEPT ![f] = t]
  PROVE  t \in Tokens /\ Grown /\ live'[f] = t
<1>1. \A g \in Families : live[g] \in Nat /\ live[g] <= MaxRolls
  BY BoundsAssumption DEF PoolInv, Tokens
<1>2. t \in Nat /\ t <= MaxRolls /\ live[f] <= t
  BY <1>1, BoundsAssumption DEF NextToken
<1>3. t \in Tokens
  BY <1>2, BoundsAssumption DEF Tokens
<1>4. QED
  BY <1>1, <1>2, <1>3 DEF PoolInv, Grown

(* A command has refreshed, and no other holds a credential of the account *)
(* unless they have crossed.                                               *)
Rolled(c) ==
  /\ ~InFlight(c) /\ InFlight(c)'
  /\ work'[c].cred.fam = work[c].cred.fam /\ work'[c].cred \in Credentials
  /\ work'[c].cred.token = live'[work[c].cred.fam]
  /\ \A f \in Families \ {work[c].cred.fam} : live'[f] = live[f] /\ (f \in Gone => f \in Gone')
  /\ work'[c].pool = work[c].pool /\ work'[c].fresh = work[c].fresh
  /\ Copying(c)' => Copying(c)
  /\ \A o \in CommandIds \ {c} : InFlight(o) => work[o].cred.fam # work[c].cred.fam

LEMMA RefreshQuiet ==
  ASSUME PoolInv, NEW c \in CommandIds, Refresh(c)
  PROVE  Quiet(c) /\ (mishaps' = {} => Rolled(c))
<1> DEFINE f == work[c].cred.fam
           at == IF work[c].at = "resolve" THEN "profile" ELSE "register"
<1>1. Formed(work[c]) /\ Backed(work[c]) /\ work[c] \in Works
  BY DEF PoolInv, Formed
<1>2. /\ work[c].at \in {"resolve", "refresh"} /\ UNCHANGED <<file, marked>>
      /\ mishaps' = mishaps \cup Crossed(c)
  BY DEF Refresh, Taken
<1>3. PICK t \in NextToken(f) :
        /\ live' = [live EXCEPT ![f] = t]
        /\ work' = [work EXCEPT ![c].cred.token = t,
                                ![c].at = IF work[c].at = "resolve" THEN "profile" ELSE "register"]
  BY DEF Refresh
<1>4. work[c].cred \in Credentials /\ f \in Families
  BY <1>1, <1>2 DEF Formed, Credited, Switching, Credentials
<1>5. t \in Tokens /\ Grown /\ live'[f] = t
  BY <1>3, <1>4, TokenRolls
<1> DEFINE cred == [work[c].cred EXCEPT !.token = t]
           v == [work[c] EXCEPT !.cred = cred, !.at = at]
<1>6. cred \in Credentials /\ cred.fam = f /\ cred.token = t
  BY <1>4, <1>5 DEF Credentials
<1>7. work' = [work EXCEPT ![c] = v]
  BY <1>1, <1>3 DEF PoolInv, Works
<1> HIDE DEF cred
<1>8. /\ v \in Works /\ v.at = at /\ v.fresh = work[c].fresh /\ v.pool = work[c].pool
      /\ v.label = work[c].label /\ v.cred = cred /\ v.after = work[c].after
  BY <1>1, <1>6 DEF Works, Steps
<1>9. at \in {"profile", "register"} /\ (at = "register" <=> work[c].at = "refresh")
  BY <1>2
<1> HIDE DEF v, at
<1>10. Formed(v)
  BY <1>1, <1>2, <1>6, <1>8, <1>9 DEF Formed, Switching
<1>11. ~Saving(c) /\ Copies(v.pool, work[c].pool)
  BY <1>2, <1>8 DEF Saving, Copies, Kin
<1>12. v.cred.token <= live'[v.cred.fam]
  BY <1>5, <1>6, <1>8, BoundsAssumption DEF Tokens
<1>13. work'[c] = v
  BY <1>7, Turn
<1>14. Copying(c)' => Copying(c)
  BY <1>2, <1>8, <1>9, <1>13 DEF Copying, Switching
<1>15. Quiet(c)
  BY <1>2, <1>5, <1>7, <1>8, <1>9, <1>10, <1>11, <1>12, <1>14, Moves
<1>16. ASSUME mishaps' = {}
       PROVE  Rolled(c)
  <2>1. ~InFlight(c) /\ InFlight(c)'
    BY <1>2, <1>8, <1>9, <1>13 DEF InFlight
  <2>2. \A g \in Families \ {f} : live'[g] = live[g] /\ (g \in Gone => g \in Gone')
    BY <1>3 DEF PoolInv, Refresh, Gone
  <2>3. Crossed(c) = {}
    BY <1>2, <1>16
  <2>4. \A o \in CommandIds \ {c} : InFlight(o) => work[o].cred.fam # f
    BY <2>3 DEF Crossed
  <2>5. QED
    BY <1>5, <1>6, <1>8, <1>13, <1>14, <2>1, <2>2, <2>4 DEF Rolled
<1>17. QED
  BY <1>15, <1>16

LEMMA CredentialsHeld ==
  ASSUME PoolInv, NEW c \in CommandIds, work[c].at \in Credited
  PROVE  work[c].cred \in Credentials /\ work[c].cred.fam \in Families
  BY DEF PoolInv, Formed, Credentials

(* What fails after a refresh is noted; what fails before it, loses        *)
(* nothing.                                                                *)
LEMMA FailuresQuiet ==
  ASSUME PoolInv, NEW c \in CommandIds, RefreshFails(c) \/ ImportFails(c) \/ CacheFails(c)
  PROVE  Quiet(c) /\ (Held(c) \/ Dropped(c))
<1>1. /\ work' = Ended(c) /\ UNCHANGED <<file, marked>> /\ ~Saving(c)
      /\ work[c].at \in Credited
  BY DEF RefreshFails, ImportFails, CacheFails, Saving, Credited, Switching
<1> DEFINE f == work[c].cred.fam
<1>2. \/ UNCHANGED <<live, goneVars>> /\ ~InFlight(c)
      \/ /\ UNCHANGED live \/ Rolls(f)
         /\ lost' = lost \cup {f} /\ UNCHANGED dropped
  BY DEF RefreshFails, ImportFails, CacheFails, RollsForProfile, InFlight, goneVars
<1>3. f \in Families
  BY <1>1, CredentialsHeld
<1>4. Grown /\ \A g \in Families \ {f} : live'[g] = live[g]
  BY <1>2, <1>3, Untouched, Bumped
<1>5. Quiet(c) /\ ~InFlight(c)'
  BY <1>1, <1>4, Quits
<1>6. QED
  BY <1>2, <1>4, <1>5 DEF Held, Dropped, Gone

LEMMA ProfileQuiet ==
  ASSUME PoolInv, NEW c \in CommandIds, ProfileResolved(c)
  PROVE  Quiet(c) /\ (Held(c) \/ Dropped(c))
<1>1. work[c].at = "profile" /\ Advance(c, "enter") /\ UNCHANGED <<file, marked>>
  BY DEF ProfileResolved
<1> DEFINE f == work[c].cred.fam
<1>2. \/ UNCHANGED <<live, goneVars>>
      \/ Rolls(f) /\ dropped' = dropped \cup {f} /\ UNCHANGED lost
  BY DEF ProfileResolved, RollsForProfile, goneVars
<1>3. f \in Families
  BY <1>1, CredentialsHeld DEF Credited
<1>4. Grown /\ \A g \in Families \ {f} : live'[g] = live[g]
  BY <1>2, <1>3, Untouched, Bumped DEF goneVars
<1>5. Quiet(c) /\ work'[c].at = "enter" /\ work'[c].cred = work[c].cred
  BY <1>1, <1>4, AdvanceQuiet DEF Steps
<1>6. InFlight(c) /\ InFlight(c)'
  BY <1>1, <1>5 DEF InFlight
<1>7. QED
  BY <1>2, <1>4, <1>5, <1>6 DEF Held, Dropped, Gone

LEMMA CacheCallsQuiet ==
  ASSUME PoolInv, NEW c \in CommandIds, Register(c) \/ Blank(c) \/ Fill(c)
  PROVE  Quiet(c) /\ Held(c)
<1>1. UNCHANGED <<file, live, goneVars, marked>> /\ Grown
  BY Untouched DEF Register, Blank, Fill
<1>2. PICK at \in {"blank", "fill", "swap"} : Advance(c, at)
  BY DEF Register, Blank, Fill
<1>3. work[c].at \in {"register", "blank", "fill"}
  BY DEF Register, Blank, Fill
<1>4. Quiet(c) /\ work'[c].at = at /\ work'[c].cred = work[c].cred
  BY <1>1, <1>2, <1>3, AdvanceQuiet DEF Steps, Switching
<1>5. InFlight(c) /\ InFlight(c)'
  BY <1>3, <1>4 DEF InFlight
<1>6. QED
  BY <1>1, <1>4, <1>5 DEF Held

(* The usage that was read changes no account but its status, and makes    *)
(* none active that was not.                                               *)
LEMMA UsagePlaces ==
  ASSUME NEW pool \in Seq(Accounts),
         NEW heard \in [DOMAIN pool -> {"suspended", "active", "spent", "nothing"}]
  PROVE  LET new == [i \in DOMAIN pool |->
                       IF heard[i] = "suspended" \/ (heard[i] # "nothing" /\ IsActive(pool[i]))
                       THEN [pool[i] EXCEPT !.status = heard[i]] ELSE pool[i]]
         IN  new \in Seq(Accounts) /\ Copies(new, pool)
<1> DEFINE new == [i \in DOMAIN pool |->
                     IF heard[i] = "suspended" \/ (heard[i] # "nothing" /\ IsActive(pool[i]))
                     THEN [pool[i] EXCEPT !.status = heard[i]] ELSE pool[i]]
<1>1. ASSUME NEW i \in DOMAIN pool
      PROVE  new[i] \in Accounts /\ Kin(new[i], pool[i])
  <2>1. pool[i] \in Accounts
    OBVIOUS
  <2>2. CASE heard[i] = "suspended" \/ (heard[i] # "nothing" /\ IsActive(pool[i]))
    <3>1. new[i] = [pool[i] EXCEPT !.status = heard[i]]
      BY <2>2
    <3>2. heard[i] \in Statuses
      BY <2>2 DEF Statuses
    <3>3. /\ new[i] \in Accounts /\ new[i].fam = pool[i].fam /\ new[i].token = pool[i].token
          /\ new[i].status = heard[i]
      BY <2>1, <3>1, <3>2 DEF Accounts
    <3>4. QED
      BY <2>2, <3>3 DEF Kin, IsActive
  <2>3. CASE ~(heard[i] = "suspended" \/ (heard[i] # "nothing" /\ IsActive(pool[i])))
    <3>1. new[i] = pool[i]
      BY <2>3
    <3>2. QED
      BY <2>1, <3>1 DEF Kin
  <2>4. QED
    BY <2>2, <2>3
<1>2. DOMAIN new = DOMAIN pool /\ DOMAIN pool = 1..Len(pool) /\ Len(pool) \in Nat
  OBVIOUS
<1>3. new = [i \in 1..Len(pool) |-> new[i]]
  BY <1>2
<1> HIDE DEF new
<1>4. new \in [1..Len(pool) -> Accounts]
  BY <1>1, <1>2, <1>3
<1>5. new \in Seq(Accounts)
  BY <1>2, <1>4
<1>6. Copies(new, pool)
  BY <1>1, <1>2 DEF Copies
<1>7. QED
  BY <1>5, <1>6 DEF new

LEMMA UsageQuiet ==
  ASSUME PoolInv, NEW c \in CommandIds, UsageRead(c)
  PROVE  Quiet(c) /\ Held(c)
<1>1. work[c].at = "usage" /\ UNCHANGED <<file, live, goneVars, marked>> /\ Grown
  BY Untouched DEF UsageRead
<1> DEFINE pool == work[c].pool
           next(heard) == [i \in DOMAIN pool |->
                     IF heard[i] = "suspended" \/ (heard[i] # "nothing" /\ IsActive(pool[i]))
                     THEN [pool[i] EXCEPT !.status = heard[i]] ELSE pool[i]]
<1>2. PICK heard \in [DOMAIN pool -> {"suspended", "active", "spent", "nothing"}] :
        work' = [work EXCEPT ![c].at = "truncate", ![c].pool = next(heard)]
  BY DEF UsageRead
<1> DEFINE new == next(heard)
           v == [work[c] EXCEPT !.at = "truncate", !.pool = new]
<1>3. Formed(work[c]) /\ Backed(work[c]) /\ work[c] \in Works /\ pool \in Seq(Accounts)
  BY DEF PoolInv, Formed, Works
<1>4. new \in Seq(Accounts) /\ Copies(new, pool)
  BY <1>3, UsagePlaces
<1>5. work' = [work EXCEPT ![c] = v]
  BY <1>2, <1>3 DEF PoolInv
<1> HIDE DEF new
<1>6. /\ v \in Works /\ v.at = "truncate" /\ v.fresh = work[c].fresh /\ v.pool = new
      /\ v.cred = work[c].cred /\ v.after = work[c].after
  BY <1>3, <1>4 DEF Works, Steps
<1> HIDE DEF v
<1>7. Formed(v)
  BY <1>1, <1>3, <1>6 DEF Formed, Credited, Switching
<1>8. v.cred \in Credentials => v.cred.token <= live'[v.cred.fam]
  BY <1>1, <1>3, <1>6, StillBacked
<1>9. ~Saving(c) /\ Copying(c)
  BY <1>1 DEF Saving, Copying
<1>10. Quiet(c) /\ work'[c] = v
  BY <1>1, <1>4, <1>5, <1>6, <1>7, <1>8, <1>9, Moves
<1>11. ~InFlight(c) /\ ~InFlight(c)'
  BY <1>1, <1>6, <1>10 DEF InFlight
<1>12. QED
  BY <1>1, <1>10, <1>11 DEF Held

LEMMA PickQuiet ==
  ASSUME PoolInv, NEW c \in CommandIds, Pick(c)
  PROVE  Quiet(c) /\ Held(c)
<1>1. work[c].at = "pick" /\ UNCHANGED <<file, live, goneVars, marked>> /\ Grown
  BY Untouched DEF Pick
<1>2. ~Saving(c) /\ ~InFlight(c) /\ Copying(c)
  BY <1>1 DEF Saving, InFlight, Copying
<1>3. CASE Advance(c, "truncate")
  <2>1. Quiet(c) /\ work'[c].at = "truncate"
    BY <1>1, <1>3, AdvanceQuiet DEF Steps, Credited, Switching
  <2>2. QED
    BY <1>1, <1>2, <2>1 DEF Held, InFlight
<1>4. CASE work' = Ended(c)
  BY <1>1, <1>2, <1>4, Quits DEF Held
<1>5. ASSUME NEW i \in Best(work[c].pool),
             work' = [work EXCEPT ![c].at = "refresh", ![c].label = work[c].pool[i].label,
                                  ![c].cred = CredOf(work[c].pool[i])]
      PROVE  Quiet(c) /\ Held(c)
  <2> DEFINE a == work[c].pool[i]
             v == [work[c] EXCEPT !.at = "refresh", !.label = a.label, !.cred = CredOf(a)]
  <2>1. Formed(work[c]) /\ Backed(work[c]) /\ work[c] \in Works
    BY DEF PoolInv, Formed
  <2>2. i \in DOMAIN work[c].pool /\ a \in Accounts
    BY <1>5, <2>1 DEF Best, Works
  <2>3. /\ a.label \in Labels /\ CredOf(a) \in Credentials /\ CredOf(a).fam = a.fam
        /\ CredOf(a).token <= live[a.fam]
    BY <2>1, <2>2, AccountsHold DEF Backed, Known
  <2>4. work' = [work EXCEPT ![c] = v]
    BY <1>5, <2>1 DEF PoolInv
  <2>5. /\ v \in Works /\ v.at = "refresh" /\ v.fresh = work[c].fresh /\ v.label = a.label
        /\ v.pool = work[c].pool /\ v.cred = CredOf(a) /\ v.after = work[c].after
    BY <2>1, <2>3 DEF Works, Steps
  <2> HIDE DEF v
  <2>6. Formed(v)
    BY <1>1, <2>1, <2>2, <2>3, <2>5 DEF Formed, Having
  <2>7. Copies(v.pool, work[c].pool)
    BY <2>5 DEF Copies, Kin
  <2>8. Quiet(c) /\ work'[c] = v
    BY <1>1, <1>2, <2>3, <2>4, <2>5, <2>6, <2>7, Moves
  <2>9. ~InFlight(c)'
    BY <2>5, <2>8 DEF InFlight
  <2>10. QED
    BY <1>1, <1>2, <2>8, <2>9 DEF Held
<1>6. QED
  BY <1>3, <1>4, <1>5 DEF Pick

-----------------------------------------------------------------------------
(* The steps that give a credential its place in the pool.                 *)

Alone(pool) == \A i, j \in DOMAIN pool : pool[i].fam = pool[j].fam => i = j

(* Place k of the new pool has the credential, the others are from base;   *)
(* if its account is marked, it is the one base has.                       *)
PlacedAt(c, k, base) ==
  /\ k \in DOMAIN work'[c].pool
  /\ CredOf(work'[c].pool[k]) = work[c].cred
  /\ \A i \in DOMAIN work'[c].pool \ {k} : \E j \in DOMAIN base : work'[c].pool[i] = base[j]
  /\ work[c].cred.fam \in marked' /\ (Alone(work[c].pool))' =>
       \E j \in DOMAIN base : /\ base[j].fam = work[c].cred.fam
                              /\ IsActive(work'[c].pool[k]) => IsActive(base[j])

Placed(c) ==
  /\ Turned(c) /\ UNCHANGED <<file, live, goneVars>> /\ marked' \subseteq marked
  /\ Formed(work'[c]) /\ (Backed(work[c]))'
  /\ InFlight(c) /\ work[c].cred \in Credentials
  /\ work'[c].at = "truncate" /\ work'[c].after = "end"
  /\ \/ Readable /\ \E k \in DOMAIN work'[c].pool : PlacedAt(c, k, file)
     \/ /\ Copying(c) /\ work'[c].fresh = work[c].fresh
        /\ \E k \in DOMAIN work'[c].pool : PlacedAt(c, k, work[c].pool)

LEMMA EnterPlaces ==
  ASSUME PoolInv, NEW c \in CommandIds, Enter(c)
  PROVE  Placed(c)
<1> DEFINE w == IF c \in Window THEN Loaded
                ELSE [work[c] EXCEPT !.cred = Nobody, !.client = None]
           new(l, status) == [label |-> l, fam |-> work[c].cred.fam, pid |-> Pid(c),
                              token |-> work[c].cred.token, status |-> status]
<1>1. /\ work[c].at = "enter" /\ (c \in Window => Readable)
      /\ marked' = marked \ {work[c].cred.fam} /\ UNCHANGED <<file, live, goneVars>>
  BY DEF Enter
<1>2. PICK l \in Labels, status \in {"active", "spent"} :
        work' = [work EXCEPT ![c] = [w EXCEPT !.pool = Upsert(w.pool, new(l, status)),
                                              !.at = "truncate"]]
  BY DEF Enter
<1> DEFINE a == new(l, status)
           pool == Upsert(w.pool, a)
           v == [w EXCEPT !.pool = pool, !.at = "truncate"]
<1>3. work[c].cred \in Credentials /\ work[c].cred.fam \in Families
  BY <1>1, CredentialsHeld DEF Credited
<1>4. a \in Accounts /\ CredOf(a) = work[c].cred /\ a.fam = work[c].cred.fam
      /\ a.token = work[c].cred.token
  <2>1. Pid(c) \in Pids
    BY DEF Pid, Pids, CommandIds
  <2>2. work[c].cred = [fam |-> work[c].cred.fam, token |-> work[c].cred.token]
        /\ work[c].cred.token \in Tokens
    BY <1>3 DEF Credentials
  <2>3. QED
    BY <1>3, <2>1, <2>2 DEF Accounts, Statuses, CredOf
<1>5. Formed(work[c]) /\ Backed(work[c]) /\ work[c] \in Works
  BY DEF PoolInv, Formed
<1> DEFINE base == IF c \in Window THEN file ELSE work[c].pool
<1>6. /\ w \in Works /\ w.pool = base /\ Known(base) /\ w.cred = Nobody /\ w.after = "end"
      /\ c \notin Window => w.fresh = work[c].fresh
  <2>1. CASE c \in Window
    BY <1>1, <2>1, LoadedFormed
  <2>2. CASE c \notin Window
    <3>1. work[c].after = "end"
      BY <1>1, <1>5 DEF Formed, Works
    <3>2. w = [work[c] EXCEPT !.cred = Nobody, !.client = None]
      BY <2>2
    <3>3. base = work[c].pool
      BY <2>2
    <3> HIDE DEF w, base
    <3>4. QED
      BY <1>5, <2>2, <3>1, <3>2, <3>3 DEF Works, Backed
  <2>3. QED
    BY <2>1, <2>2
<1> HIDE DEF w, a, base, new
<1>7. /\ pool \in Seq(Accounts)
      /\ \E k \in DOMAIN pool :
           pool[k] = a /\ \A i \in DOMAIN pool \ {k} : i \in DOMAIN base /\ pool[i] = base[i]
  <2>1. base \in Seq(Accounts)
    BY <1>6 DEF Works
  <2>2. QED
    BY <1>4, <1>6, <2>1, UpsertPlaces
<1> HIDE DEF pool
<1>8. /\ v \in Works /\ v.at = "truncate" /\ v.pool = pool /\ v.cred = Nobody /\ v.after = "end"
      /\ v.fresh = w.fresh
  BY <1>6, <1>7 DEF Works, Steps
<1>9. Turned(c) /\ work'[c] = v
  <2>1. work' = [work EXCEPT ![c] = v]
    BY <1>2 DEF a, pool
  <2> HIDE DEF v
  <2>2. QED
    BY <2>1, Turn
<1> HIDE DEF v
<1>10. Formed(v)
  BY <1>8, NobodyIsNoCredential DEF Formed, Credited, Switching
<1>11. PICK k \in DOMAIN pool :
         pool[k] = a /\ \A i \in DOMAIN pool \ {k} : i \in DOMAIN base /\ pool[i] = base[i]
  BY <1>7
<1>12. a.token <= live[a.fam]
  BY <1>3, <1>4, <1>5 DEF Backed
<1>13. \A i \in DOMAIN pool : pool[i].token <= live[pool[i].fam]
  BY <1>6, <1>11, <1>12 DEF Known
<1>14. (Backed(work[c]))'
  BY <1>1, <1>8, <1>9, <1>13, NobodyIsNoCredential DEF Backed, Known
<1>15. PlacedAt(c, k, base)
  BY <1>1, <1>4, <1>8, <1>9, <1>11 DEF PlacedAt
<1>16. InFlight(c)
  BY <1>1 DEF InFlight
<1>17. CASE c \in Window
  <2>1. base = file
    BY <1>17 DEF base
  <2>2. QED
    BY <1>1, <1>3, <1>8, <1>9, <1>10, <1>11, <1>14, <1>15, <1>16, <1>17, <2>1 DEF Placed
<1>18. CASE c \notin Window
  <2>1. base = work[c].pool
    BY <1>18 DEF base
  <2>2. Copying(c)
    BY <1>1, <1>18 DEF Copying, CommandIds
  <2>3. QED
    BY <1>1, <1>3, <1>6, <1>8, <1>9, <1>10, <1>11, <1>14, <1>15, <1>16, <1>18, <2>1, <2>2 DEF Placed
<1>19. QED
  BY <1>17, <1>18

LEMMA SwapPlacesOne ==
  ASSUME PoolInv, NEW c \in CommandIds, Swap(c)
  PROVE  Placed(c)
<1> DEFINE pool == work[c].pool
           k == First(pool, work[c].label)
           cred == work[c].cred
           new == [pool EXCEPT ![k].fam = cred.fam, ![k].token = cred.token]
           v == [work[c] EXCEPT !.at = "truncate", !.label = None, !.cred = Nobody, !.pool = new]
<1>1. work[c].at = "swap" /\ UNCHANGED <<file, live, goneVars, marked>>
  BY DEF Swap
<1>2. Formed(work[c]) /\ Backed(work[c]) /\ work[c] \in Works
  BY DEF PoolInv, Formed
<1>3. /\ cred \in Credentials /\ Having(pool, work[c].label) # {}
      /\ \E i \in DOMAIN pool : pool[i].fam = cred.fam
      /\ work[c].after = "end"
  BY <1>1, <1>2 DEF Formed, Credited, Switching, Works
<1>4. pool \in Seq(Accounts) /\ k \in DOMAIN pool
  BY <1>2, <1>3, FirstHas DEF Works
<1>5. Turned(c) /\ work'[c] = v
  <2> DEFINE v1 == [work[c] EXCEPT !.at = "truncate", !.label = None, !.cred = Nobody]
             v2 == [v1 EXCEPT !.pool[k].fam = cred.fam, !.pool[k].token = cred.token]
  <2>1. work' = [work EXCEPT ![c].at = "truncate",
                             ![c].label = None,
                             ![c].cred = Nobody,
                             ![c].pool[k].fam = work[c].cred.fam,
                             ![c].pool[k].token = work[c].cred.token]
    BY DEF Swap
  <2>2. c \in DOMAIN work /\ DOMAIN work = CommandIds
    BY DEF PoolInv
  <2>3. Turned(c) /\ work'[c] = v2
    <3> HIDE DEF k
    <3>1. Turned(c)
      BY <2>1, <2>2 DEF Turned
    <3>2. work'[c] = v2
      BY <2>1, <2>2
    <3>3. QED
      BY <3>1, <3>2
  <2>4. v1.pool = pool /\ "pool" \in DOMAIN v1
    BY <1>2 DEF Works
  <2>5. [v1 EXCEPT !.pool = new] = v
    BY <1>2 DEF Works
  <2> HIDE DEF v1, k, v, cred
  <2>6. v2 = [v1 EXCEPT !.pool = new]
    <3> HIDE DEF pool
    <3>1. QED
      BY <2>4
  <2>7. QED
    BY <2>3, <2>5, <2>6
<1>6. /\ new \in Seq(Accounts) /\ DOMAIN new = DOMAIN pool
      /\ CredOf(new[k]) = cred /\ new[k].status = pool[k].status
      /\ \A j \in DOMAIN pool \ {k} : new[j] = pool[j]
  BY <1>3, <1>4, SwapPlaces
<1> HIDE DEF new
<1>7. /\ v \in Works /\ v.at = "truncate" /\ v.pool = new /\ v.cred = Nobody /\ v.after = "end"
      /\ v.fresh = work[c].fresh
  BY <1>2, <1>3, <1>6 DEF Works, Steps
<1> HIDE DEF v
<1>8. Turned(c) /\ work'[c] = v
  BY <1>5
<1>9. Formed(v)
  BY <1>7, NobodyIsNoCredential DEF Formed, Credited, Switching
<1>10. new[k].fam = cred.fam /\ new[k].token = cred.token
  BY <1>3, <1>6 DEF CredOf, Credentials
<1>11. (Backed(work[c]))'
  <2>1. \A i \in DOMAIN new : new[i].token <= live[new[i].fam]
    BY <1>2, <1>3, <1>6, <1>10 DEF Backed, Known
  <2>2. QED
    BY <1>1, <1>7, <1>8, <2>1, NobodyIsNoCredential DEF Backed, Known
<1>12. PlacedAt(c, k, pool)
  <2>1. ASSUME (Alone(work[c].pool))'
        PROVE  pool[k].fam = cred.fam
    <3>1. PICK i \in DOMAIN pool : pool[i].fam = cred.fam
      BY <1>3
    <3>2. CASE i # k
      <4>1. new[i].fam = new[k].fam
        BY <1>6, <1>10, <3>1, <3>2
      <4>2. QED
        BY <1>4, <1>6, <1>7, <1>8, <2>1, <3>2, <4>1 DEF Alone
    <3>3. QED
      BY <3>1, <3>2
  <2>2. IsActive(new[k]) => IsActive(pool[k])
    BY <1>6 DEF IsActive
  <2>3. \A i \in DOMAIN new \ {k} : \E j \in DOMAIN pool : new[i] = pool[j]
    BY <1>6
  <2> HIDE DEF k, pool, cred
  <2>4. work'[c].pool = new /\ k \in DOMAIN new /\ cred = work[c].cred
    BY <1>4, <1>6, <1>7, <1>8 DEF cred
  <2>5. QED
    BY <1>4, <1>6, <2>1, <2>2, <2>3, <2>4 DEF PlacedAt
<1>13. InFlight(c) /\ Copying(c)
  BY <1>1 DEF InFlight, Copying, Switching
<1>14. k \in DOMAIN work'[c].pool
  BY <1>4, <1>6, <1>7, <1>8
<1> HIDE DEF k
<1>15. QED
  BY <1>1, <1>3, <1>7, <1>8, <1>9, <1>11, <1>12, <1>13, <1>14 DEF Placed

-----------------------------------------------------------------------------
(* The steps of a save.                                                    *)

(* Cutting the file makes every other copy stale.                          *)
Cut(c) ==
  /\ work[c].at = "truncate" /\ work'[c].at = "write" /\ work'[c].fresh = work[c].fresh
  /\ file' = Torn /\ UNCHANGED <<live, goneVars, marked>>
  /\ DOMAIN work' = CommandIds
  /\ \A o \in CommandIds :
       /\ Formed(work'[o]) /\ (Backed(work[o]))'
       /\ work'[o].pool = work[o].pool /\ work'[o].cred = work[o].cred
       /\ work'[o].label = work[o].label /\ work'[o].after = work[o].after
       /\ work'[o].client = work[o].client
       /\ o # c => work'[o].at = work[o].at
                   /\ (work'[o].fresh => work[o].at \in {"rest", "over"})
  /\ "stale" \notin mishaps' => work[c].fresh

LEMMA TruncateCuts ==
  ASSUME PoolInv, NEW c \in CommandIds, Truncate(c)
  PROVE  Cut(c)
<1> DEFINE at(o) == IF o = c THEN "write" ELSE work[o].at
           fresh(o) == IF o = c THEN work[o].fresh ELSE work[o].at \in {"rest", "over"}
           v(o) == [work[o] EXCEPT !.at = at(o), !.fresh = fresh(o)]
<1>1. /\ work[c].at = "truncate" /\ file' = Torn /\ UNCHANGED <<live, goneVars, marked>>
      /\ "stale" \notin mishaps' => work[c].fresh
      /\ work' = [o \in CommandIds |->
                    IF o = c THEN [work[o] EXCEPT !.at = "write"]
                    ELSE [work[o] EXCEPT !.fresh = work[o].at \in {"rest", "over"}]]
  BY DEF Truncate
<1>2. ASSUME NEW o \in CommandIds
      PROVE  /\ work'[o] \in Works
             /\ work'[o].pool = work[o].pool /\ work'[o].cred = work[o].cred
             /\ work'[o].label = work[o].label /\ work'[o].after = work[o].after
             /\ work'[o].client = work[o].client
             /\ o = c => work'[o].at = "write" /\ work'[o].fresh = work[o].fresh
             /\ o # c => work'[o].at = work[o].at
                         /\ (work'[o].fresh => work[o].at \in {"rest", "over"})
  <2>1. work[o] \in Works
    BY DEF PoolInv, Formed
  <2>2. CASE o = c
    <3>1. work'[o] = [work[o] EXCEPT !.at = "write"]
      BY <1>1, <2>2
    <3>2. QED
      BY <2>1, <2>2, <3>1 DEF Works, Steps
  <2>3. CASE o # c
    <3> DEFINE kept == work[o].at \in {"rest", "over"}
    <3>1. work'[o] = [work[o] EXCEPT !.fresh = kept]
      BY <1>1, <2>3
    <3>2. kept \in BOOLEAN
      OBVIOUS
    <3>3. kept => work[o].at \in {"rest", "over"}
      OBVIOUS
    <3> HIDE DEF kept
    <3>4. QED
      BY <2>1, <2>3, <3>1, <3>2, <3>3 DEF Works
  <2>4. QED
    BY <2>2, <2>3
<1>3. ASSUME NEW o \in CommandIds
      PROVE  Formed(work'[o]) /\ (Backed(work[o]))'
  <2>1. Formed(work[o]) /\ Backed(work[o])
    BY DEF PoolInv
  <2>2. (Backed(work[o]))'
    BY <1>1, <1>2, <2>1 DEF Backed, Known
  <2>3. Formed(work'[o])
    BY <1>1, <1>2, <2>1 DEF Formed, Credited, Switching
  <2>4. QED
    BY <2>2, <2>3
<1>4. DOMAIN work' = CommandIds
  BY <1>1
<1>5. QED
  BY <1>1, <1>2, <1>3, <1>4 DEF Cut

(* The pool is written, whole unless the file was not empty.               *)
Written(c) ==
  /\ work[c].at = "write" /\ Turned(c)
  /\ Formed(work'[c]) /\ (Backed(work[c]))'
  /\ work'[c].at \in {"pick", "over"} /\ work'[c].after = "end"
  /\ work'[c].at = "pick" => work'[c].pool = work[c].pool /\ work'[c].fresh = work[c].fresh
  /\ file' \in {work[c].pool, Torn} /\ UNCHANGED <<live, goneVars, marked>>
  /\ "torn" \notin mishaps' => file' = work[c].pool
  /\ "doubled" \notin mishaps' => Alone(work[c].pool)

LEMMA WriteWrites ==
  ASSUME PoolInv, NEW c \in CommandIds, Write(c)
  PROVE  Written(c)
<1>1. /\ work[c].at = "write" /\ UNCHANGED <<live, goneVars, marked>>
      /\ file' \in Overwritten(file, work[c].pool)
      /\ mishaps' = mishaps \cup Doubled(work[c].pool)
                            \cup (IF file = Torn THEN {} ELSE {"torn"})
  BY DEF Write
<1>2. file' \in {work[c].pool, Torn} /\ ("torn" \notin mishaps' => file' = work[c].pool)
  BY <1>1 DEF Overwritten
<1>3. "doubled" \notin mishaps' => Alone(work[c].pool)
  BY <1>1 DEF Doubled, Alone
<1>4. Formed(work[c]) /\ Backed(work[c]) /\ work[c] \in Works
  BY DEF PoolInv, Formed
<1>5. CASE work[c].after = "pick"
  <2> DEFINE v == [work[c] EXCEPT !.at = "pick", !.after = "end", !.label = None]
  <2>1. work' = [work EXCEPT ![c] = v]
    BY <1>5 DEF Write
  <2>2. /\ v \in Works /\ v.at = "pick" /\ v.after = "end" /\ v.pool = work[c].pool
        /\ v.cred = work[c].cred /\ v.fresh = work[c].fresh
    BY <1>4 DEF Works, Steps
  <2> HIDE DEF v
  <2>3. Turned(c) /\ work'[c] = v
    BY <2>1, Turn
  <2>4. Formed(v)
    BY <2>2 DEF Formed, Credited, Switching
  <2>5. (Backed(work[c]))'
    BY <1>1, <1>4, <2>2, <2>3 DEF Backed, Known
  <2>6. QED
    BY <1>1, <1>2, <1>3, <2>2, <2>3, <2>4, <2>5 DEF Written
<1>6. CASE work[c].after # "pick"
  <2>1. Turned(c) /\ work'[c] = Idle("over")
    BY <1>6, Turn DEF Write, Ended
  <2>2. /\ work'[c].at = "over" /\ work'[c].after = "end"
        /\ Formed(work'[c]) /\ (Backed(work[c]))'
    <3>1. work'[c].pool = <<>> /\ work'[c].cred = Nobody
      BY <2>1 DEF Idle
    <3>2. QED
      BY <2>1, <3>1, IdleFormed, NobodyIsNoCredential DEF Backed, Known
  <2>3. QED
    BY <1>1, <1>2, <1>3, <2>1, <2>2 DEF Written
<1>7. QED
  BY <1>5, <1>6

(* A save that fails takes the mark it was to make back.                   *)
Unsaved(c) ==
  /\ Saving(c) /\ Turned(c) /\ Formed(work'[c]) /\ (Backed(work[c]))'
  /\ work'[c].at = "over" /\ UNCHANGED <<file, live>>
  /\ marked' \subseteq marked /\ \A f \in marked' : ~Marking(c, f)
  /\ mishaps' # {} /\ (work[c].at = "write" => "torn" \in mishaps')

LEMMA SaveFailsUnsaved ==
  ASSUME PoolInv, NEW c \in CommandIds, SaveFails(c)
  PROVE  Unsaved(c)
<1>1. Turned(c) /\ work'[c] = Idle("over")
  BY Turn DEF SaveFails, Ended
<1>2. work'[c].at = "over" /\ Formed(work'[c]) /\ (Backed(work[c]))'
  <2>1. work'[c].pool = <<>> /\ work'[c].cred = Nobody
    BY <1>1 DEF Idle
  <2>2. QED
    BY <1>1, <2>1, IdleFormed, NobodyIsNoCredential DEF Backed, Known
<1>3. marked' \subseteq marked /\ \A f \in marked' : ~Marking(c, f)
  BY DEF SaveFails, Marking
<1>4. QED
  BY <1>1, <1>2, <1>3 DEF SaveFails, Unsaved, Saving

-----------------------------------------------------------------------------
(* Types.                                                                  *)

(* Every step of a command is of one of these kinds.                       *)
LEMMA CommandSteps ==
  ASSUME PoolInv, NEW c \in CommandIds, Command(c)
  PROVE  \/ Quiet(c) /\ (mishaps' = {} => Held(c) \/ Rolled(c) \/ Dropped(c))
         \/ Placed(c) \/ Cut(c) \/ Written(c) \/ Unsaved(c)
<1>1. CASE \/ BeginAutoSwitch(c) \/ BeginUsage(c) \/ BeginImport(c)
           \/ \E l \in Labels : BeginSwitch(c, l) \/ BeginExhaust(c, l) \/ BeginRemove(c, l)
  <2>1. Begun(c) /\ MarksFollow(c)
    <3>1. marked' \subseteq marked => MarksFollow(c)
      BY DEF MarksFollow
    <3>2. QED
      BY <1>1, <3>1, AutoSwitchBegins, UsageBegins, ImportBegins, SwitchByLabelBegins,
         ExhaustBegins, RemoveBegins
  <2>2. QED
    BY <2>1, BegunQuiet
<1>2. CASE \/ Refresh(c) \/ RefreshFails(c) \/ ProfileResolved(c) \/ ImportFails(c)
           \/ UsageRead(c) \/ Register(c) \/ Blank(c) \/ Fill(c) \/ CacheFails(c) \/ Pick(c)
  BY <1>2, RefreshQuiet, FailuresQuiet, ProfileQuiet, UsageQuiet, CacheCallsQuiet, PickQuiet
<1>3. CASE Enter(c) \/ Swap(c)
  BY <1>3, EnterPlaces, SwapPlacesOne
<1>4. CASE Truncate(c) \/ Write(c) \/ SaveFails(c)
  BY <1>4, TruncateCuts, WriteWrites, SaveFailsUnsaved
<1>5. QED
  BY <1>1, <1>2, <1>3, <1>4 DEF Command

LEMMA OutsideKept ==
  ASSUME PoolInv, NEW c \in CommandIds, Command(c)
  PROVE  Outside'
<1>1. Outside /\ (work[c].at \in Credited => work[c].cred.fam \in Families)
  BY CredentialsHeld DEF PoolInv
<1>2. CASE \/ BeginAutoSwitch(c) \/ BeginUsage(c) \/ BeginImport(c)
           \/ \E l \in Labels : BeginSwitch(c, l) \/ BeginRemove(c, l)
  BY <1>1, <1>2 DEF BeginAutoSwitch, BeginUsage, BeginImport, BeginSwitch, BeginRemove, Begin,
     Outside, cacheVars, goneVars
<1>3. ASSUME NEW l \in Labels, BeginExhaust(c, l)
      PROVE  Outside'
  BY <1>1, <1>3, ExhaustBegins DEF Begun, Outside, cacheVars, goneVars
<1>4. CASE Refresh(c) \/ RefreshFails(c) \/ ProfileResolved(c) \/ ImportFails(c)
           \/ Enter(c) \/ UsageRead(c) \/ CacheFails(c) \/ Pick(c)
  BY <1>1, <1>4 DEF Refresh, RefreshFails, ProfileResolved, ImportFails, Enter, UsageRead,
     CacheFails, Pick, Crossed, Credited, Switching, Mishaps, Outside, cacheVars, goneVars
<1>5. CASE Register(c) \/ Blank(c) \/ Swap(c)
  BY <1>1, <1>5 DEF Register, Blank, Swap, Clash, Credited, Switching, Mishaps, Outside, goneVars
<1>6. CASE Fill(c)
  BY <1>1, <1>6 DEF Fill, Overwritten, Credited, Switching, Outside, goneVars
<1>7. CASE Truncate(c) \/ Write(c) \/ SaveFails(c)
  BY <1>1, <1>7 DEF Truncate, Write, SaveFails, Doubled, Mishaps, Outside, cacheVars, goneVars
<1>8. QED
  BY <1>1, <1>2, <1>3, <1>4, <1>5, <1>6, <1>7 DEF Command

LEMMA TurnKeepsTypes ==
  ASSUME PoolInv, NEW c \in CommandIds, Turned(c), Grown, Formed(work'[c]), (Backed(work[c]))',
         file' \in {file, work[c].pool, Torn}, Outside'
  PROVE  PoolInv'
<1>1. Readable' => file' \in Seq(Accounts) /\ (Known(file))'
  <2>1. SUFFICES ASSUME Readable'
                 PROVE  file' \in Seq(Accounts) /\ (Known(file))'
    OBVIOUS
  <2>2. CASE file' = file
    <3>1. file \in Seq(Accounts) /\ Known(file)
      BY <2>1, <2>2 DEF PoolInv, Readable
    <3>2. \A i \in DOMAIN file : file[i].token <= live'[file[i].fam]
      BY <3>1, StillKnown
    <3>3. QED
      BY <2>2, <3>1, <3>2 DEF Known
  <2>3. CASE file' = work[c].pool
    <3>1. work[c] \in Works /\ Backed(work[c])
      BY DEF PoolInv, Formed
    <3>2. /\ work[c].pool \in Seq(Accounts)
          /\ \A i \in DOMAIN work[c].pool : work[c].pool[i].token <= live'[work[c].pool[i].fam]
      BY <3>1, StillBacked DEF Works
    <3>3. QED
      BY <2>3, <3>2 DEF Known
  <2>4. QED
    BY <2>1, <2>2, <2>3 DEF Readable
<1>2. ASSUME NEW o \in CommandIds
      PROVE  Formed(work'[o]) /\ (Backed(work[o]))'
  <2>1. CASE o = c
    BY <2>1
  <2>2. CASE o # c
    <3>1. work'[o] = work[o] /\ Formed(work[o]) /\ Backed(work[o]) /\ work[o] \in Works
      BY <2>2 DEF Turned, PoolInv, Formed
    <3>2. /\ \A i \in DOMAIN work[o].pool : work[o].pool[i].token <= live'[work[o].pool[i].fam]
          /\ work[o].cred \in Credentials => work[o].cred.token <= live'[work[o].cred.fam]
      BY <3>1, StillBacked
    <3>3. QED
      BY <3>1, <3>2 DEF Backed, Known
  <2>3. QED
    BY <2>1, <2>2
<1>3. QED
  BY <1>1, <1>2 DEF PoolInv, Turned, Grown

LEMMA CommandKeepsTypes ==
  ASSUME PoolInv, NEW c \in CommandIds, Command(c)
  PROVE  PoolInv'
<1>1. Outside'
  BY OutsideKept
<1>2. CASE Quiet(c)
  BY <1>1, <1>2, TurnKeepsTypes DEF Quiet
<1>3. CASE Placed(c)
  BY <1>1, <1>3, TurnKeepsTypes, Untouched DEF Placed
<1>4. CASE Cut(c)
  BY <1>1, <1>4 DEF Cut, PoolInv, Readable
<1>5. CASE Written(c)
  BY <1>1, <1>5, TurnKeepsTypes, Untouched DEF Written
<1>6. CASE Unsaved(c)
  BY <1>1, <1>6, TurnKeepsTypes, Untouched DEF Unsaved
<1>7. QED
  BY <1>2, <1>3, <1>4, <1>5, <1>6, CommandSteps

LEMMA OthersKeepTypes ==
  ASSUME PoolInv, NEW dead \in SUBSET CommandIds, Crash(dead) \/ IdeRefreshes \/ UNCHANGED vars
  PROVE  PoolInv'
<1>1. CASE Crash(dead)
  <2>1. UNCHANGED <<file, live>> /\ Outside' /\ DOMAIN work' = CommandIds
    BY <1>1 DEF Crash, PoolInv, Outside, Mishaps, cacheVars, goneVars
  <2>2. ASSUME NEW o \in CommandIds
        PROVE  Formed(work'[o]) /\ (Backed(work[o]))'
    <3>1. Formed(work[o]) /\ Backed(work[o])
      BY DEF PoolInv
    <3>2. \/ work'[o] = work[o] \/ work'[o] = Idle("rest") \/ work'[o] = Idle("over")
      BY <1>1 DEF Crash
    <3>3. CASE work'[o] = work[o]
      BY <2>1, <3>1, <3>3 DEF Backed, Known
    <3>4. ASSUME NEW at \in {"rest", "over"}, work'[o] = Idle(at)
          PROVE  Formed(work'[o]) /\ (Backed(work[o]))'
      <4>1. work'[o].pool = <<>> /\ work'[o].cred = Nobody
        BY <3>4 DEF Idle
      <4>2. QED
        BY <3>4, <4>1, IdleFormed, NobodyIsNoCredential DEF Backed, Known
    <3>5. QED
      BY <3>2, <3>3, <3>4
  <2>3. Readable' => file' \in Seq(Accounts) /\ (Known(file))'
    BY <2>1 DEF PoolInv, Readable, Known
  <2>4. QED
    BY <2>1, <2>2, <2>3 DEF PoolInv
<1>2. CASE IdeRefreshes
  <2>1. UNCHANGED <<file, work>> /\ Outside' /\ Grown
    BY <1>2, Bumped DEF IdeRefreshes, Rolls, PoolInv, Outside, Mishaps, cacheVars, goneVars
  <2>2. ASSUME NEW o \in CommandIds
        PROVE  Formed(work'[o]) /\ (Backed(work[o]))'
    <3>1. Formed(work[o]) /\ Backed(work[o]) /\ work[o] \in Works
      BY DEF PoolInv, Formed
    <3>2. /\ \A i \in DOMAIN work[o].pool : work[o].pool[i].token <= live'[work[o].pool[i].fam]
          /\ work[o].cred \in Credentials => work[o].cred.token <= live'[work[o].cred.fam]
      BY <2>1, <3>1, StillBacked
    <3>3. QED
      BY <2>1, <3>1, <3>2 DEF Backed, Known
  <2>3. Readable' => file' \in Seq(Accounts) /\ (Known(file))'
    <3>1. SUFFICES ASSUME Readable
                   PROVE  /\ file \in Seq(Accounts)
                          /\ \A i \in DOMAIN file : file[i].token <= live'[file[i].fam]
      BY <2>1 DEF Readable, Known
    <3>2. QED
      BY <2>1, <3>1, StillKnown DEF PoolInv
  <2>4. QED
    BY <2>1, <2>2, <2>3 DEF PoolInv, Grown
<1>3. CASE UNCHANGED vars
  <2>1. UNCHANGED <<file, live, work>> /\ Outside'
    BY <1>3 DEF vars, cacheVars, goneVars, PoolInv, Outside
  <2>2. QED
    BY <2>1 DEF PoolInv, Readable, Known, Backed
<1>4. QED
  BY <1>1, <1>2, <1>3

LEMMA PoolInvStep ==
  ASSUME PoolInv, [Next]_vars
  PROVE  PoolInv'
<1>1. {} \in SUBSET CommandIds /\ Window \in SUBSET CommandIds
      /\ \A c \in Cli : {c} \in SUBSET CommandIds
  BY DEF CommandIds
<1>2. QED
  BY <1>1, CommandKeepsTypes, OthersKeepTypes DEF Next

LEMMA PoolInvStarts == Init => PoolInv
<1>1. SUFFICES ASSUME Init
               PROVE  PoolInv
  OBVIOUS
<1>2. PICK n \in 0 .. MaxAccounts : file \in Pools(n)
  BY <1>1 DEF Init
<1>3. n \in Nat /\ file \in [1 .. n -> [label : Labels, fam : Families,
        pid : {"window", "earlier"}, token : {0}, status : Statuses \ {"suspended"}]]
  BY <1>2, BoundsAssumption DEF Pools
<1>4. \A i \in 1 .. n : file[i] \in Accounts /\ file[i].token = 0 /\ file[i].fam \in Families
  <2>1. ASSUME NEW i \in 1 .. n
        PROVE  file[i] \in Accounts /\ file[i].token = 0 /\ file[i].fam \in Families
    <3>1. file[i] \in [label : Labels, fam : Families, pid : {"window", "earlier"},
                       token : {0}, status : Statuses \ {"suspended"}]
      BY <1>3
    <3>2. 0 \in Tokens /\ {"window", "earlier"} \subseteq Pids
      BY BoundsAssumption DEF Tokens, Pids
    <3>3. QED
      BY <3>1, <3>2 DEF Accounts
  <2>2. QED
    BY <2>1
<1>5. file \in Seq(Accounts)
  BY <1>3, <1>4
<1>6. live = [f \in Families |-> 0] /\ live \in [Families -> Tokens]
  BY <1>1, BoundsAssumption DEF Init, Tokens
<1>7. Known(file)
  BY <1>3, <1>4, <1>6 DEF Known
<1>8. Outside
  BY <1>1 DEF Init, Outside
<1>9. DOMAIN work = CommandIds /\ \A c \in CommandIds : Formed(work[c]) /\ Backed(work[c])
  BY <1>1, IdleFormed DEF Init
<1>10. QED
  BY <1>5, <1>6, <1>7, <1>8, <1>9 DEF PoolInv

(* The types, and that no token is known that the server has not given     *)
(* out, whatever fails, crosses or dies.                                   *)
THEOREM PoolTypeCorrect == Spec => []PoolTypeOK
<1>1. PoolInv => PoolTypeOK
  <2>1. SUFFICES ASSUME PoolInv
                 PROVE  PoolTypeOK
    OBVIOUS
  <2>2. Readable => /\ \A i \in DOMAIN file : file[i] \in Accounts
                    /\ \A i \in DOMAIN file : file[i].token <= live[file[i].fam]
    BY <2>1, FileAccounts
  <2>3. ASSUME NEW c \in CommandIds
        PROVE  /\ work[c].at \in Steps
               /\ work[c].cred \in Credentials \cup {Nobody}
               /\ work[c].client \in Families \cup {None}
               /\ work[c].at \in {"refresh", "register", "blank", "fill", "swap"}
                    => work[c].label \in Labels /\ work[c].cred # Nobody
               /\ work[c].after \in {"pick", "end"}
    BY <2>1, NobodyIsNoCredential DEF PoolInv, Formed, Works, Credited, Switching
  <2>4. QED
    BY <2>1, <2>2, <2>3 DEF PoolInv, Outside, PoolTypeOK
<1>2. QED
  BY <1>1, PoolInvStarts, PoolInvStep, PTL DEF Spec

-----------------------------------------------------------------------------
(* Whose copy is the file's.                                               *)

Orderly == mishaps \cap {"crash", "stale", "torn", "doubled"} = {}

(* While saves neither cross nor fail halfway: who writes has the file to  *)
(* itself, and every other copy is stale by then.                          *)
FileOrder ==
  /\ Readable => Alone(file)
  /\ \A c \in CommandIds : work[c].at = "write" => file = Torn /\ work[c].fresh
  /\ \A c, d \in CommandIds :
       work[c].at = "write" /\ Copying(d) /\ work[d].fresh => c = d

LEMMA NoneWrites ==
  ASSUME FileOrder, Readable, NEW c \in CommandIds
  PROVE  work[c].at # "write"
  BY DEF FileOrder, Readable

LEMMA FileUntouched ==
  ASSUME FileOrder, NEW c \in CommandIds, Turned(c), UNCHANGED file, work'[c].at # "write",
         Copying(c)' /\ work'[c].fresh => Readable \/ (Copying(c) /\ work[c].fresh)
  PROVE  FileOrder'
<1>1. (Readable => Alone(file))'
  BY DEF FileOrder, Readable, Alone
<1>2. ASSUME NEW o \in CommandIds, work'[o].at = "write"
      PROVE  file' = Torn /\ work'[o].fresh
  BY <1>2 DEF FileOrder, Turned
<1>3. ASSUME NEW o \in CommandIds, NEW d \in CommandIds, work'[o].at = "write",
             Copying(d)', work'[d].fresh
      PROVE  o = d
  <2>1. o # c /\ work'[o] = work[o]
    BY <1>3 DEF Turned
  <2>2. CASE d = c
    BY <1>3, <2>1, <2>2, NoneWrites DEF FileOrder
  <2>3. CASE d # c
    <3>1. work'[d] = work[d]
      BY <2>3 DEF Turned
    <3>2. Copying(d)
      BY <1>3, <3>1 DEF Copying
    <3>3. QED
      BY <1>3, <2>1, <3>1, <3>2 DEF FileOrder
  <2>4. QED
    BY <2>2, <2>3
<1>4. QED
  BY <1>1, <1>2, <1>3 DEF FileOrder

LEMMA CutOrder ==
  ASSUME FileOrder, NEW c \in CommandIds, Cut(c), Orderly'
  PROVE  FileOrder' /\ work[c].fresh
<1>1. work[c].fresh /\ Copying(c)
  BY DEF Cut, Orderly, Copying
<1>2. \A o \in CommandIds : work[o].at = "write" => o = c
  BY <1>1 DEF FileOrder
<1>3. \A o \in CommandIds : work'[o].at = "write" => o = c
  BY <1>2 DEF Cut
<1>4. \A d \in CommandIds : Copying(d)' /\ work'[d].fresh => d = c
  BY DEF Cut, Copying, Switching
<1>5. file' = Torn /\ work'[c].fresh
  BY <1>1 DEF Cut
<1>6. (Readable => Alone(file))'
  BY <1>5 DEF Readable
<1>7. FileOrder'
  BY <1>3, <1>4, <1>5, <1>6 DEF FileOrder
<1>8. QED
  BY <1>1, <1>7

LEMMA WrittenOrder ==
  ASSUME FileOrder, NEW c \in CommandIds, Written(c), Orderly'
  PROVE  /\ FileOrder' /\ file' = work[c].pool /\ work[c].fresh /\ Alone(work[c].pool)
         /\ \A d \in CommandIds \ {c} : ~(Copying(d)' /\ work'[d].fresh)
<1>1. file' = work[c].pool /\ Alone(work[c].pool) /\ work[c].fresh /\ Copying(c)
  BY DEF Written, Orderly, FileOrder, Copying
<1>2. \A o \in CommandIds : work'[o].at # "write"
  BY <1>1 DEF Written, FileOrder, Turned
<1>3. ASSUME NEW d \in CommandIds \ {c}
      PROVE  ~(Copying(d)' /\ work'[d].fresh)
  <2>1. work'[d] = work[d] /\ (Copying(d)' => Copying(d))
    BY DEF Written, Turned, Copying
  <2>2. QED
    BY <2>1 DEF Written, FileOrder
<1>4. FileOrder'
  BY <1>1, <1>2 DEF FileOrder, Alone
<1>5. QED
  BY <1>1, <1>3, <1>4

LEMMA CommandKeepsFile ==
  ASSUME PoolInv, FileOrder, NEW c \in CommandIds, Command(c), Orderly'
  PROVE  FileOrder'
<1>1. CASE Quiet(c)
  BY <1>1, FileUntouched DEF Quiet
<1>2. CASE Placed(c)
  BY <1>2, FileUntouched DEF Placed
<1>3. CASE Cut(c) \/ Written(c)
  BY <1>3, CutOrder, WrittenOrder
<1>4. CASE Unsaved(c)
  BY <1>4, FileUntouched DEF Unsaved, Copying, Switching
<1>5. QED
  BY <1>1, <1>2, <1>3, <1>4, CommandSteps

-----------------------------------------------------------------------------
(* Whose token is the server's.                                            *)

Carries(c, f) ==
  \/ InFlight(c) /\ work[c].cred = [fam |-> f, token |-> live[f]]
  \/ /\ work[c].at = "truncate"
     /\ \E j \in DOMAIN work[c].pool :
          CredOf(work[c].pool[j]) = [fam |-> f, token |-> live[f]]

(* A copy that, saved, gives the file back whole.                          *)
Sound(c) == work[c].fresh /\ Copying(c) /\ (Saving(c) => Alone(work[c].pool))

(* What a command has received is the server's, unless it is known to be   *)
(* dropped.                                                                *)
InHand(c) ==
  InFlight(c) => \/ work[c].cred.token = live[work[c].cred.fam]
                 \/ work[c].cred.fam \in Gone

(* The tokens the file has are the server's, or on their way to it, or     *)
(* known to be dropped; a copy that may be saved is as good, but for the   *)
(* account its command is about to put in it.                              *)
Covered(c) ==
  Sound(c) => \A i \in DOMAIN work[c].pool : \E f \in Families :
    /\ work[c].pool[i].fam = f
    /\ \/ work[c].pool[i].token = live[f] \/ f \in Gone
       \/ \E o \in CommandIds \ {c} : Carries(o, f)
       \/ InFlight(c) /\ work[c].cred.fam = f

FileCovered ==
  Readable => \A i \in DOMAIN file : \E f \in Families :
    /\ file[i].fam = f
    /\ file[i].token = live[f] \/ f \in Gone \/ \E o \in CommandIds : Carries(o, f)

TokenOrder ==
  /\ FileCovered
  /\ \A c \in CommandIds : InHand(c)
  /\ \A c \in CommandIds : Covered(c)

LEMMA InFlightCredited ==
  ASSUME PoolInv, NEW c \in CommandIds, InFlight(c)
  PROVE  /\ work[c].cred \in Credentials /\ work[c].cred.fam \in Families
         /\ work[c].cred = [fam |-> work[c].cred.fam, token |-> work[c].cred.token]
<1>1. work[c].cred \in Credentials
  BY CredentialsHeld DEF InFlight, Credited, Switching
<1>2. QED
  BY <1>1 DEF Credentials

LEMMA OthersCarry ==
  ASSUME NEW c \in CommandIds, Turned(c), NEW o \in CommandIds \ {c}, NEW f, live'[f] = live[f]
  PROVE  Carries(o, f)' <=> Carries(o, f)
  BY DEF Turned, Carries, InFlight

LEMMA OthersSound ==
  ASSUME NEW c \in CommandIds, Turned(c), NEW o \in CommandIds \ {c}
  PROVE  /\ Sound(o)' <=> Sound(o)
         /\ InFlight(o)' <=> InFlight(o)
  BY DEF Turned, Sound, Copying, Saving, Alone, InFlight

(* What a step of c keeps, once it is known that what c carried is still   *)
(* carried.                                                                *)
LEMMA OthersTokens ==
  ASSUME PoolInv, TokenOrder, NEW c \in CommandIds, Turned(c),
         UNCHANGED <<live, goneVars>>,
         \A f \in Families : Carries(c, f) => Carries(c, f)'
  PROVE  /\ \A f \in Families :
              (\E o \in CommandIds : Carries(o, f)) => (\E o \in CommandIds : Carries(o, f)')
         /\ \A o \in CommandIds \ {c} :
              /\ InHand(o)'
              /\ Covered(o)'
<1>0. live' = live /\ Gone' = Gone
  BY DEF goneVars, Gone
<1>1. \A d \in CommandIds, f \in Families : Carries(d, f) => Carries(d, f)'
  <2>1. ASSUME NEW d \in CommandIds, NEW f \in Families, Carries(d, f)
        PROVE  Carries(d, f)'
    <3>1. CASE d = c
      BY <2>1, <3>1
    <3>2. CASE d # c
      BY <1>0, <2>1, <3>2, OthersCarry
    <3>3. QED
      BY <3>1, <3>2
  <2>2. QED
    BY <2>1
<1>2. ASSUME NEW o \in CommandIds \ {c}
      PROVE  InHand(o)'
  <2>1. work'[o] = work[o] /\ (InFlight(o)' <=> InFlight(o)) /\ InHand(o)
    BY OthersSound DEF Turned, TokenOrder
  <2>2. QED
    BY <1>0, <2>1 DEF InHand
<1>3. ASSUME NEW o \in CommandIds \ {c}
      PROVE  Covered(o)'
  <2>1. work'[o] = work[o] /\ (Sound(o)' => Sound(o)) /\ (InFlight(o) => InFlight(o)')
    BY OthersSound DEF Turned
  <2>2. SUFFICES ASSUME Sound(o)', NEW i \in DOMAIN work[o].pool
                 PROVE  \E f \in Families :
                          /\ work[o].pool[i].fam = f
                          /\ \/ work[o].pool[i].token = live[f] \/ f \in Gone
                             \/ \E d \in CommandIds \ {o} : Carries(d, f)'
                             \/ InFlight(o)' /\ work[o].cred.fam = f
    BY <1>0, <2>1 DEF Covered
  <2>3. Covered(o) /\ Sound(o)
    BY <2>1, <2>2 DEF TokenOrder
  <2>4. PICK f \in Families :
          /\ work[o].pool[i].fam = f
          /\ \/ work[o].pool[i].token = live[f] \/ f \in Gone
             \/ \E d \in CommandIds \ {o} : Carries(d, f)
             \/ InFlight(o) /\ work[o].cred.fam = f
    BY <2>2, <2>3 DEF Covered
  <2>5. QED
    BY <1>1, <2>1, <2>4
<1>4. QED
  BY <1>1, <1>2, <1>3

LEMMA FileStaysCovered ==
  ASSUME PoolInv, TokenOrder, UNCHANGED <<file, live, goneVars>>,
         \A f \in Families :
           (\E o \in CommandIds : Carries(o, f)) => (\E o \in CommandIds : Carries(o, f)')
  PROVE  FileCovered'
<1>1. Gone' = Gone
  BY DEF goneVars, Gone
<1>2. QED
  BY <1>1 DEF TokenOrder, FileCovered, Readable

LEMMA HeldTokens ==
  ASSUME PoolInv, TokenOrder, NEW c \in CommandIds, Quiet(c), Held(c)
  PROVE  TokenOrder'
<1>1. /\ Turned(c) /\ UNCHANGED <<file, live, goneVars>> /\ Gone' = Gone /\ ~Saving(c)
      /\ InFlight(c) <=> InFlight(c)'
      /\ InFlight(c) => work'[c].cred = work[c].cred
  BY DEF Quiet, Held, goneVars, Gone
<1>2. \A f \in Families : Carries(c, f) => Carries(c, f)'
  BY <1>1 DEF Carries, Saving
<1>3. FileCovered'
  BY <1>1, <1>2, OthersTokens, FileStaysCovered
<1>4. \A o \in CommandIds : InHand(o)'
  <2>1. InHand(c)'
    BY <1>1 DEF TokenOrder, InHand
  <2>2. QED
    BY <1>1, <1>2, <2>1, OthersTokens
<1>5. Covered(c)'
  <2>1. SUFFICES ASSUME Sound(c)', NEW i \in DOMAIN work'[c].pool
                 PROVE  \E f \in Families :
                          /\ work'[c].pool[i].fam = f
                          /\ \/ work'[c].pool[i].token = live'[f] \/ f \in Gone'
                             \/ \E o \in CommandIds \ {c} : Carries(o, f)'
                             \/ InFlight(c)' /\ work'[c].cred.fam = f
    BY DEF Covered
  <2>2. \A o \in CommandIds \ {c}, f \in Families : Carries(o, f) => Carries(o, f)'
    BY <1>1, OthersCarry
  <2>3. \A f \in Families : Carries(c, f) => InFlight(c) /\ work[c].cred.fam = f
    BY <1>1 DEF Carries, Saving
  <2>4. CASE Readable /\ ~InFlight(c) /\ Copies(work'[c].pool, file)
    <3>1. PICK j \in DOMAIN file : Kin(work'[c].pool[i], file[j])
      BY <2>1, <2>4 DEF Copies
    <3>2. PICK f \in Families :
            /\ file[j].fam = f
            /\ file[j].token = live[f] \/ f \in Gone \/ \E o \in CommandIds : Carries(o, f)
      BY <2>4, <3>1 DEF TokenOrder, FileCovered
    <3>3. file[j].token = live[f] \/ f \in Gone \/ \E o \in CommandIds \ {c} : Carries(o, f)'
      BY <2>2, <2>3, <2>4, <3>2
    <3>4. QED
      BY <1>1, <3>1, <3>2, <3>3 DEF Kin
  <2>5. CASE Copying(c) /\ work[c].fresh /\ Copies(work'[c].pool, work[c].pool)
    <3>1. PICK j \in DOMAIN work[c].pool : Kin(work'[c].pool[i], work[c].pool[j])
      BY <2>1, <2>5 DEF Copies
    <3>2. PICK f \in Families :
            /\ work[c].pool[j].fam = f
            /\ \/ work[c].pool[j].token = live[f] \/ f \in Gone
               \/ \E o \in CommandIds \ {c} : Carries(o, f)
               \/ InFlight(c) /\ work[c].cred.fam = f
      BY <1>1, <2>5, <3>1 DEF TokenOrder, Covered, Sound
    <3>3. \/ work[c].pool[j].token = live[f] \/ f \in Gone
          \/ \E o \in CommandIds \ {c} : Carries(o, f)'
          \/ InFlight(c)' /\ work'[c].cred.fam = f
      BY <1>1, <2>2, <3>2
    <3>4. QED
      BY <1>1, <3>1, <3>2, <3>3 DEF Kin
  <2>6. QED
    BY <2>1, <2>4, <2>5 DEF Quiet, Sound
<1>6. \A o \in CommandIds : Covered(o)'
  BY <1>1, <1>2, <1>5, OthersTokens
<1>7. QED
  BY <1>3, <1>4, <1>6 DEF TokenOrder

LEMMA PlacedTokens ==
  ASSUME PoolInv, TokenOrder, NEW c \in CommandIds, Placed(c)
  PROVE  TokenOrder'
<1>1. /\ Turned(c) /\ UNCHANGED <<file, live, goneVars>> /\ Gone' = Gone /\ InFlight(c)
      /\ work'[c].at = "truncate" /\ ~InFlight(c)' /\ ~Saving(c)
  BY DEF Placed, InFlight, Saving, goneVars, Gone
<1>2. PICK k \in DOMAIN work'[c].pool :
        \/ Readable /\ PlacedAt(c, k, file)
        \/ Copying(c) /\ work'[c].fresh = work[c].fresh /\ PlacedAt(c, k, work[c].pool)
  BY DEF Placed
<1>3. PICK f \in Families :
        /\ work[c].cred.fam = f
        /\ work[c].cred.token = live[f] \/ f \in Gone
  BY <1>1, InFlightCredited DEF TokenOrder, InHand
<1>4. /\ CredOf(work'[c].pool[k]) = work[c].cred
      /\ work'[c].pool[k].fam = f /\ work'[c].pool[k].token = work[c].cred.token
  BY <1>2, <1>3 DEF PlacedAt, CredOf
<1>5. \A g \in Families : Carries(c, g) => g = f
  BY <1>1, <1>3 DEF Carries, Saving
<1>6. \A g \in Families : Carries(c, g) => work[c].cred = [fam |-> g, token |-> live[g]]
  BY <1>1 DEF Carries, Saving
<1>7. \A g \in Families : Carries(c, g) => Carries(c, g)'
  BY <1>1, <1>4, <1>6 DEF Carries
<1>8. FileCovered'
  BY <1>1, <1>7, OthersTokens, FileStaysCovered
<1>9. \A o \in CommandIds : InHand(o)'
  BY <1>1, <1>7, OthersTokens DEF InHand
<1>10. Covered(c)'
  <2>1. SUFFICES ASSUME Sound(c)', NEW i \in DOMAIN work'[c].pool
                 PROVE  \E g \in Families :
                          /\ work'[c].pool[i].fam = g
                          /\ \/ work'[c].pool[i].token = live'[g] \/ g \in Gone'
                             \/ \E o \in CommandIds \ {c} : Carries(o, g)'
    BY DEF Covered
  <2>2. \A o \in CommandIds \ {c}, g \in Families : Carries(o, g) => Carries(o, g)'
    BY <1>1, OthersCarry
  <2>3. CASE i = k
    BY <1>1, <1>3, <1>4, <2>3
  <2>4. CASE i # k
    <3>1. work'[c].pool[i].fam # f
      BY <1>1, <1>2, <1>4, <2>1, <2>4 DEF Sound, Saving, Alone
    <3>2. CASE Readable /\ PlacedAt(c, k, file)
      <4>1. PICK j \in DOMAIN file : work'[c].pool[i] = file[j]
        BY <2>1, <2>4, <3>2 DEF PlacedAt
      <4>2. PICK g \in Families :
              /\ file[j].fam = g
              /\ file[j].token = live[g] \/ g \in Gone \/ \E o \in CommandIds : Carries(o, g)
        BY <3>2, <4>1 DEF TokenOrder, FileCovered
      <4>3. QED
        BY <1>1, <1>5, <2>2, <3>1, <4>1, <4>2
    <3>3. CASE Copying(c) /\ work'[c].fresh = work[c].fresh /\ PlacedAt(c, k, work[c].pool)
      <4>1. PICK j \in DOMAIN work[c].pool : work'[c].pool[i] = work[c].pool[j]
        BY <2>1, <2>4, <3>3 DEF PlacedAt
      <4>2. Sound(c)
        BY <1>1, <2>1, <3>3 DEF Sound
      <4>3. PICK g \in Families :
              /\ work[c].pool[j].fam = g
              /\ \/ work[c].pool[j].token = live[g] \/ g \in Gone
                 \/ \E o \in CommandIds \ {c} : Carries(o, g)
                 \/ InFlight(c) /\ work[c].cred.fam = g
        BY <4>1, <4>2 DEF TokenOrder, Covered
      <4>4. work[c].cred.fam # g
        BY <1>3, <3>1, <4>1, <4>3
      <4>5. QED
        BY <1>1, <2>2, <4>1, <4>3, <4>4
    <3>4. QED
      BY <1>2, <3>2, <3>3
  <2>5. QED
    BY <2>3, <2>4
<1>11. \A o \in CommandIds : Covered(o)'
  BY <1>1, <1>7, <1>10, OthersTokens
<1>12. QED
  BY <1>8, <1>9, <1>11 DEF TokenOrder

(* The account whose token has rolled is carried by the command that holds *)
(* the new one.                                                            *)
LEMMA RolledTokens ==
  ASSUME PoolInv, TokenOrder, NEW c \in CommandIds, Quiet(c), Rolled(c)
  PROVE  TokenOrder'
<1>1. /\ Turned(c) /\ UNCHANGED file /\ ~Saving(c) /\ ~InFlight(c) /\ InFlight(c)'
      /\ work'[c].pool = work[c].pool /\ work'[c].fresh = work[c].fresh
      /\ Copying(c)' => Copying(c)
  BY DEF Quiet, Rolled
<1>2. PICK f : f = work[c].cred.fam
  OBVIOUS
<1>3. /\ f \in Families /\ work'[c].cred = [fam |-> f, token |-> live'[f]]
      /\ \A g \in Families \ {f} : live'[g] = live[g] /\ (g \in Gone => g \in Gone')
      /\ \A o \in CommandIds \ {c} : InFlight(o) => work[o].cred.fam # f
  BY <1>2 DEF Rolled, Credentials
<1>4. Carries(c, f)'
  BY <1>1, <1>3 DEF Carries
<1>5. \A g \in Families : ~Carries(c, g)
  BY <1>1 DEF Carries, Saving
<1>6. \A o \in CommandIds \ {c}, g \in Families \ {f} : Carries(o, g) => Carries(o, g)'
  BY <1>1, <1>3, OthersCarry
<1>7. FileCovered'
  <2>1. SUFFICES ASSUME Readable, NEW i \in DOMAIN file
                 PROVE  \E g \in Families :
                          /\ file[i].fam = g
                          /\ \/ file[i].token = live'[g] \/ g \in Gone'
                             \/ \E o \in CommandIds : Carries(o, g)'
    BY <1>1 DEF FileCovered, Readable
  <2>2. PICK g \in Families :
          /\ file[i].fam = g
          /\ file[i].token = live[g] \/ g \in Gone \/ \E o \in CommandIds : Carries(o, g)
    BY <2>1 DEF TokenOrder, FileCovered
  <2>3. QED
    BY <1>3, <1>4, <1>5, <1>6, <2>2
<1>8. \A o \in CommandIds : InHand(o)'
  <2>1. InHand(c)'
    BY <1>3 DEF InHand
  <2>2. ASSUME NEW o \in CommandIds \ {c}, InFlight(o)'
        PROVE  InHand(o)'
    <3>1. work'[o] = work[o] /\ InFlight(o) /\ InHand(o)
      BY <1>1, <2>2, OthersSound DEF Turned, TokenOrder
    <3>2. work[o].cred.fam \in Families \ {f}
      BY <1>3, <3>1, InFlightCredited
    <3>3. QED
      BY <1>3, <3>1, <3>2 DEF InHand
  <2>3. QED
    BY <2>1, <2>2 DEF InHand
<1>9. ASSUME NEW o \in CommandIds
      PROVE  Covered(o)'
  <2>1. Sound(o)' => Sound(o)
    <3>1. CASE o = c
      BY <1>1, <3>1 DEF Sound
    <3>2. CASE o # c
      BY <1>1, <3>2, OthersSound
    <3>3. QED
      BY <3>1, <3>2
  <2>2. work'[o].pool = work[o].pool
    BY <1>1 DEF Turned
  <2>3. SUFFICES ASSUME Sound(o)', NEW i \in DOMAIN work[o].pool
                 PROVE  \E g \in Families :
                          /\ work[o].pool[i].fam = g
                          /\ \/ work[o].pool[i].token = live'[g] \/ g \in Gone'
                             \/ \E d \in CommandIds \ {o} : Carries(d, g)'
                             \/ InFlight(o)' /\ work'[o].cred.fam = g
    BY <2>2 DEF Covered
  <2>4. PICK g \in Families :
          /\ work[o].pool[i].fam = g
          /\ \/ work[o].pool[i].token = live[g] \/ g \in Gone
             \/ \E d \in CommandIds \ {o} : Carries(d, g)
             \/ InFlight(o) /\ work[o].cred.fam = g
    BY <2>1, <2>3 DEF TokenOrder, Covered
  <2>5. CASE g = f
    <3>1. CASE o = c
      BY <1>1, <1>3, <2>4, <2>5, <3>1
    <3>2. CASE o # c
      BY <1>4, <2>4, <2>5, <3>2
    <3>3. QED
      BY <3>1, <3>2
  <2>6. CASE g # f
    <3>1. live'[g] = live[g] /\ (g \in Gone => g \in Gone')
      BY <1>3, <2>6
    <3>2. ASSUME NEW d \in CommandIds \ {o}, Carries(d, g)
          PROVE  Carries(d, g)'
      BY <1>5, <1>6, <2>6, <3>2
    <3>3. ASSUME InFlight(o), work[o].cred.fam = g
          PROVE  InFlight(o)' /\ work'[o].cred.fam = g
      BY <1>1, <3>3, OthersSound DEF Turned
    <3>4. QED
      BY <2>4, <3>1, <3>2, <3>3
  <2>7. QED
    BY <2>5, <2>6
<1>10. QED
  BY <1>7, <1>8, <1>9 DEF TokenOrder

(* A dropped token is noted, and no other account is touched.              *)
LEMMA DroppedTokens ==
  ASSUME PoolInv, TokenOrder, NEW c \in CommandIds, Quiet(c), Dropped(c)
  PROVE  TokenOrder'
<1>1. /\ Turned(c) /\ UNCHANGED file /\ ~Saving(c)
      /\ InFlight(c)' => InFlight(c) /\ work'[c].cred = work[c].cred
  BY DEF Quiet, Dropped
<1>2. PICK f : f = work[c].cred.fam
  OBVIOUS
<1>3. /\ f \in Gone'
      /\ \A g \in Families \ {f} : live'[g] = live[g] /\ (g \in Gone => g \in Gone')
  BY <1>2 DEF Dropped
<1>4. \A g \in Families : Carries(c, g) => g = f
  BY <1>1, <1>2 DEF Carries, Saving
<1>5. \A o \in CommandIds \ {c}, g \in Families \ {f} : Carries(o, g) => Carries(o, g)'
  BY <1>1, <1>3, OthersCarry
<1>6. FileCovered'
  <2>1. SUFFICES ASSUME Readable, NEW i \in DOMAIN file
                 PROVE  \E g \in Families :
                          /\ file[i].fam = g
                          /\ \/ file[i].token = live'[g] \/ g \in Gone'
                             \/ \E o \in CommandIds : Carries(o, g)'
    BY <1>1 DEF FileCovered, Readable
  <2>2. PICK g \in Families :
          /\ file[i].fam = g
          /\ file[i].token = live[g] \/ g \in Gone \/ \E o \in CommandIds : Carries(o, g)
    BY <2>1 DEF TokenOrder, FileCovered
  <2>3. QED
    BY <1>3, <1>4, <1>5, <2>2
<1>7. \A o \in CommandIds : InHand(o)'
  <2>1. SUFFICES ASSUME NEW o \in CommandIds, InFlight(o)'
                 PROVE  \/ work'[o].cred.token = live'[work'[o].cred.fam]
                        \/ work'[o].cred.fam \in Gone'
    BY DEF InHand
  <2>2. InFlight(o) /\ work'[o].cred = work[o].cred
    BY <1>1, <2>1, OthersSound DEF Turned
  <2>3. work[o].cred.fam \in Families /\ InHand(o)
    BY <2>2, InFlightCredited DEF TokenOrder
  <2>4. QED
    BY <1>3, <2>2, <2>3 DEF InHand
<1>8. ASSUME NEW o \in CommandIds
      PROVE  Covered(o)'
  <2>1. SUFFICES ASSUME Sound(o)', NEW i \in DOMAIN work'[o].pool
                 PROVE  \E g \in Families :
                          /\ work'[o].pool[i].fam = g
                          /\ \/ work'[o].pool[i].token = live'[g] \/ g \in Gone'
                             \/ \E d \in CommandIds \ {o} : Carries(d, g)'
                             \/ InFlight(o)' /\ work'[o].cred.fam = g
    BY DEF Covered
  <2>2. CASE o # c
    <3>1. work'[o] = work[o] /\ Sound(o) /\ (InFlight(o) => InFlight(o)')
      BY <1>1, <2>1, <2>2, OthersSound DEF Turned
    <3>2. PICK g \in Families :
            /\ work[o].pool[i].fam = g
            /\ \/ work[o].pool[i].token = live[g] \/ g \in Gone
               \/ \E d \in CommandIds \ {o} : Carries(d, g)
               \/ InFlight(o) /\ work[o].cred.fam = g
      BY <2>1, <3>1 DEF TokenOrder, Covered
    <3>3. QED
      BY <1>3, <1>4, <1>5, <3>1, <3>2
  <2>3. CASE o = c
    <3>1. CASE Readable /\ ~InFlight(c) /\ Copies(work'[c].pool, file)
      <4>1. PICK j \in DOMAIN file : Kin(work'[c].pool[i], file[j])
        BY <2>1, <2>3, <3>1 DEF Copies
      <4>2. PICK g \in Families :
              /\ file[j].fam = g
              /\ file[j].token = live[g] \/ g \in Gone \/ \E d \in CommandIds : Carries(d, g)
        BY <3>1, <4>1 DEF TokenOrder, FileCovered
      <4>3. work'[c].pool[i].fam = g /\ work'[c].pool[i].token = file[j].token
        BY <4>1, <4>2 DEF Kin
      <4>4. QED
        BY <1>3, <1>4, <1>5, <2>3, <4>2, <4>3
    <3>2. CASE Copying(c) /\ work[c].fresh /\ Copies(work'[c].pool, work[c].pool)
      <4>1. PICK j \in DOMAIN work[c].pool : Kin(work'[c].pool[i], work[c].pool[j])
        BY <2>1, <2>3, <3>2 DEF Copies
      <4>2. PICK g \in Families :
              /\ work[c].pool[j].fam = g
              /\ \/ work[c].pool[j].token = live[g] \/ g \in Gone
                 \/ \E d \in CommandIds \ {c} : Carries(d, g)
                 \/ InFlight(c) /\ work[c].cred.fam = g
        BY <1>1, <3>2, <4>1 DEF TokenOrder, Covered, Sound
      <4>3. work'[c].pool[i].fam = g /\ work'[c].pool[i].token = work[c].pool[j].token
        BY <4>1, <4>2 DEF Kin
      <4>4. QED
        BY <1>2, <1>3, <1>5, <2>3, <4>2, <4>3
    <3>3. QED
      BY <2>1, <2>3, <3>1, <3>2 DEF Quiet, Sound
  <2>4. QED
    BY <2>2, <2>3
<1>9. QED
  BY <1>6, <1>7, <1>8 DEF TokenOrder

LEMMA CutTokens ==
  ASSUME FileOrder, TokenOrder, NEW c \in CommandIds, Cut(c), Orderly'
  PROVE  TokenOrder'
<1>1. /\ work[c].fresh /\ live' = live /\ Gone' = Gone
      /\ ~Readable' /\ work[c].at = "truncate"
  BY CutOrder DEF Cut, Readable, goneVars, Gone
<1>2. \A o \in CommandIds : (InFlight(o) <=> InFlight(o)') /\ work'[o].cred = work[o].cred
  BY DEF Cut, InFlight
<1>3. \A o \in CommandIds \ {c} : ~Sound(o)'
  BY DEF Cut, Sound, Copying, Switching
<1>4. \A o \in CommandIds \ {c}, f \in Families : Carries(o, f) => Carries(o, f)'
  BY <1>1, <1>2 DEF Cut, Carries
<1>5. Covered(c)'
  <2>1. Sound(c)' => Sound(c)
    BY <1>1 DEF Cut, Sound, Copying, Saving, Alone
  <2>2. work'[c].pool = work[c].pool /\ ~InFlight(c)
    BY <1>1 DEF Cut, InFlight
  <2>3. QED
    BY <1>1, <1>4, <2>1, <2>2 DEF TokenOrder, Covered
<1>6. \A o \in CommandIds : InHand(o)'
  BY <1>1, <1>2 DEF TokenOrder, InHand
<1>7. QED
  BY <1>1, <1>3, <1>5, <1>6 DEF TokenOrder, FileCovered, Covered

LEMMA WrittenTokens ==
  ASSUME PoolInv, FileOrder, TokenOrder, NEW c \in CommandIds, Written(c), Orderly'
  PROVE  TokenOrder'
<1>1. /\ file' = work[c].pool /\ Turned(c)
      /\ live' = live /\ UNCHANGED goneVars /\ Gone' = Gone
      /\ work[c].at = "write" /\ work'[c].at \in {"pick", "over"}
      /\ work'[c].at = "pick" => work'[c].pool = work[c].pool
  BY WrittenOrder DEF Written, goneVars, Gone
<1>2. Sound(c) /\ ~InFlight(c) /\ ~InFlight(c)' /\ \A f \in Families : ~Carries(c, f)
  BY <1>1, WrittenOrder DEF Sound, Copying, InFlight, Carries
<1>3. \A o \in CommandIds \ {c}, f \in Families : Carries(o, f) => Carries(o, f)'
  BY <1>1, OthersCarry
<1>4. ASSUME NEW i \in DOMAIN work[c].pool
      PROVE  \E f \in Families :
               /\ work[c].pool[i].fam = f
               /\ \/ work[c].pool[i].token = live'[f] \/ f \in Gone'
                  \/ \E o \in CommandIds \ {c} : Carries(o, f)'
  <2>1. PICK f \in Families :
          /\ work[c].pool[i].fam = f
          /\ \/ work[c].pool[i].token = live[f] \/ f \in Gone
             \/ \E o \in CommandIds \ {c} : Carries(o, f)
    BY <1>2 DEF TokenOrder, Covered
  <2>2. QED
    BY <1>1, <1>3, <2>1
<1>5. FileCovered'
  <2>1. SUFFICES ASSUME NEW i \in DOMAIN work[c].pool
                 PROVE  \E f \in Families :
                          /\ work[c].pool[i].fam = f
                          /\ \/ work[c].pool[i].token = live'[f] \/ f \in Gone'
                             \/ \E o \in CommandIds : Carries(o, f)'
    BY <1>1 DEF FileCovered
  <2>2. QED
    BY <1>4
<1>6. \A o \in CommandIds : InHand(o)'
  BY <1>1, <1>2, <1>3, OthersTokens DEF InHand
<1>7. Covered(c)'
  <2>1. Sound(c)' => work'[c].pool = work[c].pool
    BY <1>1 DEF Sound, Copying, Switching
  <2>2. QED
    BY <1>4, <2>1 DEF Covered
<1>8. \A o \in CommandIds : Covered(o)'
  BY <1>1, <1>2, <1>7, OthersTokens
<1>9. QED
  BY <1>5, <1>6, <1>8 DEF TokenOrder

LEMMA CommandKeepsTokens ==
  ASSUME PoolInv, FileOrder, TokenOrder, NEW c \in CommandIds, Command(c), mishaps' = {}
  PROVE  TokenOrder'
<1>1. Orderly'
  BY DEF Orderly
<1>2. ~Unsaved(c)
  BY DEF Unsaved
<1>3. QED
  BY <1>1, <1>2, CommandSteps, HeldTokens, RolledTokens, DroppedTokens, PlacedTokens,
     CutTokens, WrittenTokens

-----------------------------------------------------------------------------
(* Whose account is marked.                                                *)

FileSpoken ==
  Readable => \A i \in DOMAIN file, f \in marked :
    file[i].fam = f => ~IsActive(file[i]) \/ \E o \in CommandIds : Marking(o, f)

CopySpoken(c) ==
  Sound(c) => \A i \in DOMAIN work[c].pool, f \in marked :
    work[c].pool[i].fam = f =>
      ~IsActive(work[c].pool[i]) \/ \E o \in CommandIds \ {c} : Marking(o, f)

(* What the window was told is exhausted is so in the file and in every    *)
(* copy that may be saved, or another command is about to save that it is. *)
MarkOrder == FileSpoken /\ \A c \in CommandIds : CopySpoken(c)

LEMMA OthersMark ==
  ASSUME NEW c \in CommandIds, Turned(c), NEW o \in CommandIds \ {c}, NEW f
  PROVE  Marking(o, f)' <=> Marking(o, f)
  BY DEF Turned, Marking

LEMMA OthersMarks ==
  ASSUME MarkOrder, NEW c \in CommandIds, Turned(c),
         \A f \in marked' : Marking(c, f)' \/ (f \in marked /\ ~Marking(c, f))
  PROVE  /\ file' = file => FileSpoken'
         /\ \A o \in CommandIds \ {c} : CopySpoken(o)'
<1>1. \A o \in CommandIds \ {c} : /\ work'[o] = work[o] /\ (Sound(o)' => Sound(o))
                                  /\ \A f \in marked' : Marking(o, f) => Marking(o, f)'
  BY OthersSound, OthersMark DEF Turned
<1>2. ASSUME file' = file
      PROVE  FileSpoken'
  <2>1. SUFFICES ASSUME Readable, NEW i \in DOMAIN file, NEW f \in marked', file[i].fam = f
                 PROVE  ~IsActive(file[i]) \/ \E o \in CommandIds : Marking(o, f)'
    BY <1>2 DEF FileSpoken, Readable
  <2>2. CASE Marking(c, f)'
    BY <2>2
  <2>3. CASE f \in marked /\ ~Marking(c, f)
    <3>1. ~IsActive(file[i]) \/ \E o \in CommandIds : Marking(o, f)
      BY <2>1, <2>3 DEF MarkOrder, FileSpoken
    <3>2. QED
      BY <1>1, <2>1, <2>3, <3>1
  <2>4. QED
    BY <2>1, <2>2, <2>3
<1>3. ASSUME NEW o \in CommandIds \ {c}
      PROVE  CopySpoken(o)'
  <2>1. SUFFICES ASSUME Sound(o), NEW i \in DOMAIN work[o].pool, NEW f \in marked',
                        work[o].pool[i].fam = f
                 PROVE  ~IsActive(work[o].pool[i]) \/ \E d \in CommandIds \ {o} : Marking(d, f)'
    BY <1>1 DEF CopySpoken
  <2>2. CASE Marking(c, f)'
    BY <2>2
  <2>3. CASE f \in marked /\ ~Marking(c, f)
    <3>1. ~IsActive(work[o].pool[i]) \/ \E d \in CommandIds \ {o} : Marking(d, f)
      BY <2>1, <2>3 DEF MarkOrder, CopySpoken
    <3>2. QED
      BY <1>1, <2>1, <2>3, <3>1
  <2>4. QED
    BY <2>1, <2>2, <2>3
<1>4. QED
  BY <1>2, <1>3

LEMMA QuietMarks ==
  ASSUME MarkOrder, NEW c \in CommandIds, Quiet(c)
  PROVE  MarkOrder'
<1>1. /\ Turned(c) /\ UNCHANGED file /\ ~Saving(c)
      /\ \A f : ~Marking(c, f)
      /\ \A f \in marked' : f \in marked \/ Marking(c, f)'
  BY DEF Quiet, MarksFollow, Marking, Saving
<1>2. FileSpoken' /\ \A o \in CommandIds \ {c} : CopySpoken(o)'
  BY <1>1, OthersMarks
<1>3. CopySpoken(c)'
  <2>1. SUFFICES ASSUME Sound(c)', NEW i \in DOMAIN work'[c].pool, NEW f \in marked',
                        work'[c].pool[i].fam = f, IsActive(work'[c].pool[i])
                 PROVE  \E o \in CommandIds \ {c} : Marking(o, f)'
    BY DEF CopySpoken
  <2>2. CASE f \in marked
    <3>1. \E o \in CommandIds : Marking(o, f)
      <4>1. CASE Readable /\ Copies(work'[c].pool, file)
        <5>1. PICK j \in DOMAIN file : Kin(work'[c].pool[i], file[j])
          BY <2>1, <4>1 DEF Copies
        <5>2. file[j].fam = f /\ IsActive(file[j])
          BY <2>1, <5>1 DEF Kin
        <5>3. QED
          BY <2>2, <4>1, <5>2 DEF MarkOrder, FileSpoken
      <4>2. CASE Copying(c) /\ work[c].fresh /\ Copies(work'[c].pool, work[c].pool)
        <5>1. PICK j \in DOMAIN work[c].pool : Kin(work'[c].pool[i], work[c].pool[j])
          BY <2>1, <4>2 DEF Copies
        <5>2. work[c].pool[j].fam = f /\ IsActive(work[c].pool[j]) /\ Sound(c)
          BY <1>1, <2>1, <4>2, <5>1 DEF Kin, Sound
        <5>3. QED
          BY <2>2, <5>2 DEF MarkOrder, CopySpoken
      <4>3. QED
        BY <2>1, <4>1, <4>2 DEF Quiet, Sound
    <3>2. PICK o \in CommandIds : Marking(o, f)
      BY <3>1
    <3>3. o # c
      BY <1>1, <3>2
    <3>4. QED
      BY <1>1, <3>2, <3>3, OthersMark
  <2>3. CASE f \notin marked
    <3>1. PICK k \in DOMAIN work'[c].pool :
            work'[c].pool[k].fam = f /\ ~IsActive(work'[c].pool[k])
      BY <2>1, <2>3 DEF Quiet, MarksFollow
    <3>2. Marking(c, f)'
      BY <1>1, <2>1, <2>3
    <3>3. (Alone(work[c].pool))'
      BY <2>1, <3>2 DEF Marking, Sound, Saving
    <3>4. k = i
      BY <2>1, <3>1, <3>3 DEF Alone
    <3>5. QED
      BY <2>1, <3>1, <3>4
  <2>4. QED
    BY <2>2, <2>3
<1>4. QED
  BY <1>2, <1>3 DEF MarkOrder

LEMMA PlacedMarks ==
  ASSUME MarkOrder, NEW c \in CommandIds, Placed(c)
  PROVE  MarkOrder'
<1>1. /\ Turned(c) /\ UNCHANGED file /\ marked' \subseteq marked /\ ~Saving(c)
      /\ work'[c].at = "truncate" /\ \A f : ~Marking(c, f)
  BY DEF Placed, InFlight, Saving, Marking
<1>2. FileSpoken' /\ \A o \in CommandIds \ {c} : CopySpoken(o)'
  BY <1>1, OthersMarks
<1>3. CopySpoken(c)'
  <2>1. SUFFICES ASSUME Sound(c)', NEW i \in DOMAIN work'[c].pool, NEW f \in marked',
                        work'[c].pool[i].fam = f, IsActive(work'[c].pool[i])
                 PROVE  \E o \in CommandIds \ {c} : Marking(o, f)'
    BY DEF CopySpoken
  <2>2. (Alone(work[c].pool))'
    BY <1>1, <2>1 DEF Sound, Saving
  <2>3. PICK k \in DOMAIN work'[c].pool :
          \/ Readable /\ PlacedAt(c, k, file)
          \/ Copying(c) /\ work'[c].fresh = work[c].fresh /\ PlacedAt(c, k, work[c].pool)
    BY DEF Placed
  <2>4. \E o \in CommandIds : Marking(o, f)
    <3>1. ASSUME NEW base, PlacedAt(c, k, base)
          PROVE  \E j \in DOMAIN base : base[j].fam = f /\ IsActive(base[j])
      <4>1. CASE i = k
        <5>1. work[c].cred.fam = f
          BY <2>1, <3>1, <4>1 DEF PlacedAt, CredOf
        <5>2. QED
          BY <2>1, <2>2, <3>1, <4>1, <5>1 DEF PlacedAt
      <4>2. CASE i # k
        BY <2>1, <3>1, <4>2 DEF PlacedAt
      <4>3. QED
        BY <4>1, <4>2
    <3>2. CASE Readable /\ PlacedAt(c, k, file)
      <4>1. PICK j \in DOMAIN file : file[j].fam = f /\ IsActive(file[j])
        BY <3>1, <3>2
      <4>2. QED
        BY <1>1, <2>1, <3>2, <4>1 DEF MarkOrder, FileSpoken
    <3>3. CASE Copying(c) /\ work'[c].fresh = work[c].fresh /\ PlacedAt(c, k, work[c].pool)
      <4>1. PICK j \in DOMAIN work[c].pool : work[c].pool[j].fam = f /\ IsActive(work[c].pool[j])
        BY <3>1, <3>3
      <4>2. Sound(c)
        BY <1>1, <2>1, <3>3 DEF Sound
      <4>3. QED
        BY <1>1, <2>1, <4>1, <4>2 DEF MarkOrder, CopySpoken
    <3>4. QED
      BY <2>3, <3>2, <3>3
  <2>5. PICK o \in CommandIds : Marking(o, f)
    BY <2>4
  <2>6. o # c
    BY <1>1, <2>5
  <2>7. QED
    BY <1>1, <2>5, <2>6, OthersMark
<1>4. QED
  BY <1>2, <1>3 DEF MarkOrder

LEMMA CutMarks ==
  ASSUME FileOrder, MarkOrder, NEW c \in CommandIds, Cut(c), Orderly'
  PROVE  MarkOrder'
<1>1. work[c].fresh /\ marked' = marked /\ ~Readable' /\ work[c].at = "truncate"
  BY CutOrder DEF Cut, Readable
<1>2. \A o \in CommandIds \ {c} : ~Sound(o)'
  BY DEF Cut, Sound, Copying, Switching
<1>3. \A o \in CommandIds \ {c}, f \in marked : Marking(o, f) => Marking(o, f)'
  BY DEF Cut, Marking
<1>4. CopySpoken(c)'
  <2>1. (Sound(c)' => Sound(c)) /\ work'[c].pool = work[c].pool
    BY <1>1 DEF Cut, Sound, Copying, Saving, Alone
  <2>2. QED
    BY <1>1, <1>3, <2>1 DEF MarkOrder, CopySpoken
<1>5. QED
  BY <1>1, <1>2, <1>4 DEF MarkOrder, FileSpoken, CopySpoken

LEMMA WrittenMarks ==
  ASSUME FileOrder, MarkOrder, NEW c \in CommandIds, Written(c), Orderly'
  PROVE  MarkOrder'
<1>1. /\ file' = work[c].pool /\ marked' = marked /\ Turned(c)
      /\ work[c].at = "write" /\ work'[c].at \in {"pick", "over"}
      /\ work'[c].at = "pick" => work'[c].pool = work[c].pool
  BY WrittenOrder DEF Written
<1>2. Sound(c) /\ \A f : ~Marking(c, f)
  BY <1>1, WrittenOrder DEF Sound, Copying, Marking
<1>3. \A i \in DOMAIN work[c].pool, f \in marked :
        work[c].pool[i].fam = f =>
          ~IsActive(work[c].pool[i]) \/ \E o \in CommandIds \ {c} : Marking(o, f)'
  BY <1>1, <1>2, OthersMark DEF MarkOrder, CopySpoken
<1>4. FileSpoken'
  BY <1>1, <1>3 DEF FileSpoken
<1>5. CopySpoken(c)'
  <2>1. Sound(c)' => work'[c].pool = work[c].pool
    BY <1>1 DEF Sound, Copying, Switching
  <2>2. QED
    BY <1>1, <1>3, <2>1 DEF CopySpoken
<1>6. \A o \in CommandIds \ {c} : CopySpoken(o)'
  BY <1>1, <1>2, OthersMarks
<1>7. QED
  BY <1>4, <1>5, <1>6 DEF MarkOrder

LEMMA UnsavedMarks ==
  ASSUME MarkOrder, NEW c \in CommandIds, Unsaved(c)
  PROVE  MarkOrder'
<1>1. /\ Turned(c) /\ UNCHANGED file /\ work'[c].at = "over"
      /\ \A f \in marked' : f \in marked /\ ~Marking(c, f)
  BY DEF Unsaved
<1>2. FileSpoken' /\ \A o \in CommandIds \ {c} : CopySpoken(o)'
  BY <1>1, OthersMarks
<1>3. CopySpoken(c)'
  BY <1>1 DEF CopySpoken, Sound, Copying, Switching
<1>4. QED
  BY <1>2, <1>3 DEF MarkOrder

LEMMA CommandKeepsMarks ==
  ASSUME PoolInv, FileOrder, MarkOrder, NEW c \in CommandIds, Command(c), Orderly'
  PROVE  MarkOrder'
  BY CommandSteps, QuietMarks, PlacedMarks, CutMarks, WrittenMarks, UnsavedMarks

-----------------------------------------------------------------------------
(* The three orders together.                                              *)

OrderInv ==
  /\ PoolInv
  /\ Orderly => FileOrder /\ MarkOrder
  /\ mishaps = {} => TokenOrder

LEMMA MishapsStay ==
  ASSUME [Next]_vars
  PROVE  mishaps \subseteq mishaps'
<1>1. ASSUME NEW c \in CommandIds, Command(c)
      PROVE  mishaps \subseteq mishaps'
  BY <1>1 DEF Command, BeginAutoSwitch, BeginUsage, BeginImport, BeginSwitch, BeginExhaust,
     BeginRemove, Begin, Refresh, RefreshFails, ProfileResolved, ImportFails, Enter, UsageRead,
     Register, Blank, Fill, Swap, CacheFails, Truncate, Write, SaveFails, Pick
<1>2. QED
  BY <1>1 DEF Next, Crash, IdeRefreshes, vars

LEMMA OrderInvStep ==
  ASSUME OrderInv, [Next]_vars
  PROVE  OrderInv'
<1>1. PoolInv /\ PoolInv' /\ mishaps \subseteq mishaps'
  BY PoolInvStep, MishapsStay DEF OrderInv
<1>2. (Orderly' => Orderly) /\ (mishaps' = {} => mishaps = {}) /\ (mishaps = {} => Orderly)
  BY <1>1 DEF Orderly
<1>3. ASSUME NEW c \in CommandIds, Command(c)
      PROVE  /\ Orderly' => (FileOrder /\ MarkOrder)'
             /\ mishaps' = {} => TokenOrder'
  BY <1>1, <1>2, <1>3, CommandKeepsFile, CommandKeepsMarks, CommandKeepsTokens DEF OrderInv
<1>4. ASSUME NEW dead, Crash(dead)
      PROVE  ~Orderly' /\ mishaps' # {}
  BY <1>4 DEF Crash, Orderly
<1>5. CASE IdeRefreshes
  <2>1. UNCHANGED <<file, work, marked>> /\ mishaps' # {}
    BY <1>5 DEF IdeRefreshes
  <2>2. FileOrder /\ MarkOrder => (FileOrder /\ MarkOrder)'
    BY <2>1 DEF FileOrder, MarkOrder, FileSpoken, CopySpoken, Readable, Alone, Copying, Sound,
       Saving, Marking
  <2>3. QED
    BY <1>1, <1>2, <2>1, <2>2 DEF OrderInv
<1>6. CASE UNCHANGED vars
  <2>1. UNCHANGED <<file, live, work, marked, mishaps>> /\ Gone' = Gone
    BY <1>6 DEF vars, Gone
  <2>2. FileOrder /\ MarkOrder => (FileOrder /\ MarkOrder)'
    BY <2>1 DEF FileOrder, MarkOrder, FileSpoken, CopySpoken, Readable, Alone, Copying, Sound,
       Saving, Marking
  <2>3. TokenOrder => TokenOrder'
    BY <2>1 DEF TokenOrder, FileCovered, Covered, InHand, Carries, InFlight, Readable, Sound,
       Saving, Copying, Alone
  <2>4. QED
    BY <1>1, <1>2, <2>1, <2>2, <2>3 DEF OrderInv
<1>7. QED
  BY <1>1, <1>3, <1>4, <1>5, <1>6 DEF OrderInv, Next

LEMMA OrderInvStarts == Init => OrderInv
<1>1. SUFFICES ASSUME Init
               PROVE  OrderInv
  OBVIOUS
<1>2. PICK n \in 0 .. MaxAccounts : file \in Pools(n)
  BY <1>1 DEF Init
<1>3. /\ DOMAIN file = 1 .. n
      /\ \A i, j \in 1 .. n : i # j => file[i].fam # file[j].fam
      /\ \A i \in 1 .. n : file[i] \in [label : Labels, fam : Families,
           pid : {"window", "earlier"}, token : {0}, status : Statuses \ {"suspended"}]
  BY <1>2 DEF Pools
<1>4. PoolInv
  BY <1>1, PoolInvStarts
<1>5. \A c \in CommandIds : work[c].at = "rest"
  BY <1>1, IdleFormed DEF Init
<1>6. live = [f \in Families |-> 0] /\ marked = {}
  BY <1>1 DEF Init
<1>7. FileOrder
  BY <1>3, <1>5 DEF FileOrder, Alone, Copying, Switching
<1>8. MarkOrder
  BY <1>6 DEF MarkOrder, FileSpoken, CopySpoken
<1>9. \A c \in CommandIds : ~Sound(c) /\ ~InFlight(c)
  BY <1>5 DEF Sound, Copying, Switching, InFlight
<1>10. FileCovered
  <2>1. ASSUME NEW i \in DOMAIN file
        PROVE  file[i].fam \in Families /\ file[i].token = live[file[i].fam]
    <3>1. file[i] \in [label : Labels, fam : Families, pid : {"window", "earlier"},
                       token : {0}, status : Statuses \ {"suspended"}]
      BY <1>3, <2>1
    <3>2. QED
      BY <1>6, <3>1
  <2>2. QED
    BY <2>1 DEF FileCovered
<1>11. TokenOrder
  BY <1>9, <1>10 DEF TokenOrder, Covered, InHand
<1>12. QED
  BY <1>4, <1>7, <1>8, <1>11 DEF OrderInv

(* The pool's tokens stay the server's, or a command is about to save the *)
(* newer one, for any number of commands, accounts and rolls: of every     *)
(* account but one whose new token a failed call dropped, and one that was *)
(* rolled once more for its profile, until it is refreshed again; as long  *)
(* as no save failed or was lost to another, no process died, no account   *)
(* was refreshed from two sides and none is in the pool twice              *)
(* (pool.rs:120-155, commands.rs:536-545 and 598-602).                     *)
THEOREM TokensKept == Spec => []TokensSurvive
<1>1. OrderInv => TokensSurvive
  <2>1. SUFFICES ASSUME OrderInv, mishaps = {}, Readable, NEW i \in DOMAIN file,
                        file[i].fam \notin Gone
                 PROVE  Kept(file[i])
    BY DEF TokensSurvive, Gone
  <2>2. \/ file[i].token = live[file[i].fam]
        \/ \E c \in CommandIds : Carries(c, file[i].fam)
    BY <2>1 DEF OrderInv, TokenOrder, FileCovered
  <2>3. QED
    BY <2>2 DEF Kept, Carries
<1>2. QED
  BY <1>1, OrderInvStarts, OrderInvStep, PTL DEF Spec

(* A mark the window was told of stands until the account is imported      *)
(* again or removed, whatever call fails, for any number of commands, as   *)
(* long as no save is lost to another or torn (commands.rs:609-611).       *)
THEOREM MarksKept == Spec => []MarksStand
<1>1. OrderInv => MarksStand
  <2>1. SUFFICES ASSUME OrderInv, Orderly, \A c \in Window : work[c].at \in {"rest", "over"},
                        Readable, NEW i \in DOMAIN file, file[i].fam \in marked
                 PROVE  file[i].status # "active"
    BY DEF MarksStand, Orderly
  <2>2. \A o \in CommandIds, f \in marked : ~Marking(o, f)
    BY <2>1 DEF Marking
  <2>3. ~IsActive(file[i])
    BY <2>1, <2>2 DEF OrderInv, MarkOrder, FileSpoken
  <2>4. QED
    BY <2>3 DEF IsActive
<1>2. QED
  BY <1>1, OrderInvStarts, OrderInvStep, PTL DEF Spec

-----------------------------------------------------------------------------
(* Imports.                                                                *)

(* The client is the credential's as long as no two commands have been in  *)
(* the temporary token file at once.                                       *)
ImportInv ==
  /\ PoolInv /\ CacheInv
  /\ "clash" \notin mishaps =>
       \A c \in CommandIds : work[c].at = "resolve" => work[c].client = work[c].cred.fam

LEMMA ImportIsWhole ==
  ASSUME ImportInv, "clash" \notin mishaps, NEW c \in CommandIds, BeginImport(c)
  PROVE  work'[c].client = work'[c].cred.fam
<1>1. PICK folder \in Shared \cup IdeCache : \E f \in find_client_registration(folder) :
        /\ c \in Cli => Readable
        /\ Begin(c, [(IF c \in Window THEN Idle("rest") ELSE Loaded) EXCEPT
                       !.at = "resolve", !.client = f,
                       !.cred = [fam |-> folder.fam, token |-> live[folder.fam]]])
  BY DEF BeginImport
<1> DEFINE before == IF c \in Window THEN Idle("rest") ELSE Loaded
<1>2. PICK f \in find_client_registration(folder) :
        /\ c \in Cli => Readable
        /\ Begin(c, [before EXCEPT !.at = "resolve", !.client = f,
                                   !.cred = [fam |-> folder.fam, token |-> live[folder.fam]]])
  BY <1>1
<1>3. before \in Works
  <2>1. c \notin Window => Readable
    BY <1>2 DEF CommandIds
  <2>2. QED
    BY <2>1, IdleFormed, LoadedFormed DEF ImportInv
<1> HIDE DEF before
<1>4. work'[c] = [before EXCEPT !.at = "resolve", !.client = f,
                               !.cred = [fam |-> folder.fam, token |-> live[folder.fam]]]
  BY <1>2, Turn DEF Begin, ImportInv
<1>5. work'[c].client = f /\ work'[c].cred.fam = folder.fam
  BY <1>3, <1>4 DEF Works
<1>6. f = folder.fam
  BY <1>2, Folders DEF ImportInv, CacheInv, CacheOrder, PoolInv, Outside
<1>7. QED
  BY <1>5, <1>6

LEMMA ImportInvStep ==
  ASSUME ImportInv, [Next]_vars
  PROVE  ImportInv'
<1>1. PoolInv' /\ CacheInv' /\ mishaps \subseteq mishaps'
  BY PoolInvStep, CacheInvStep, MishapsStay DEF ImportInv
<1>2. ASSUME "clash" \notin mishaps, NEW o \in CommandIds, work'[o].at = "resolve"
      PROVE  work'[o].client = work'[o].cred.fam
  <2>1. work[o].at = "resolve" => work[o].client = work[o].cred.fam
    BY <1>2 DEF ImportInv
  <2>2. ASSUME NEW c \in CommandIds, Command(c)
        PROVE  work'[o].client = work'[o].cred.fam
    <3>1. CASE Cut(c)
      BY <1>2, <2>1, <3>1 DEF Cut
    <3>2. CASE Quiet(c) \/ Placed(c) \/ Written(c) \/ Unsaved(c)
      <4>1. Turned(c) /\ (work'[c].at = "resolve" => BeginImport(c))
        BY <3>2 DEF Quiet, Placed, Written, Unsaved
      <4>2. QED
        BY <1>2, <2>1, <4>1, ImportIsWhole DEF Turned
    <3>3. QED
      BY <2>2, <3>1, <3>2, CommandSteps DEF ImportInv
  <2>3. ASSUME NEW dead, Crash(dead)
        PROVE  work'[o].client = work'[o].cred.fam
    <3>1. work'[o] = work[o] \/ work'[o] = Idle("rest") \/ work'[o] = Idle("over")
      BY <2>3 DEF Crash
    <3>2. QED
      BY <1>2, <2>1, <3>1, IdleFormed
  <2>4. CASE IdeRefreshes \/ UNCHANGED vars
    BY <1>2, <2>1, <2>4 DEF IdeRefreshes, vars
  <2>5. QED
    BY <2>2, <2>3, <2>4 DEF Next
<1>3. QED
  BY <1>1, <1>2 DEF ImportInv

(* No account is imported with another's registration, from whatever       *)
(* folder and while whatever else runs, fails or dies, as long as no two   *)
(* commands write the IDE's token file at once (import.rs:102-106).        *)
THEOREM ImportsWhole == Spec => []ImportsAreWhole
<1>1. Init => ImportInv
  <2>1. SUFFICES ASSUME Init
                 PROVE  ImportInv
    OBVIOUS
  <2>2. PoolInv /\ CacheInv
    BY <2>1, PoolInvStarts, CacheInvStarts
  <2>3. \A c \in CommandIds : work[c].at = "rest"
    BY <2>1, IdleFormed DEF Init
  <2>4. QED
    BY <2>2, <2>3 DEF ImportInv
<1>2. ImportInv => ImportsAreWhole
  BY DEF ImportInv, ImportsAreWhole
<1>3. QED
  BY <1>1, <1>2, ImportInvStep, PTL DEF Spec
=============================================================================
