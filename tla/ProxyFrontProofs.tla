---------------------------- MODULE ProxyFrontProofs ----------------------------
(***************************************************************************)
(* The serving daemon, for any number of listeners, connections, hosts and *)
(* addresses.                                                              *)
(***************************************************************************)
EXTENDS ProxyFront, FiniteSetTheorems, SequenceTheorems, TLAPS

(* A connection that dials has yet to try every address of its answer that *)
(* has not refused it, and a cached answer lacks none.                     *)
GoodConnections ==
  {k \in Connections :
     /\ k.at \in {"ask", "heard", "dial"} => k.host \in Hosts
     /\ k.at = "heard" => k.full # {}
     /\ k.at = "dial" => k.ips # <<>> /\ k.full \subseteq Range(k.ips) \cup k.refused}

GoodAnswers == {a \in Answers : a.ips # <<>> /\ a.full \subseteq Range(a.ips)}

TasksOK ==
  /\ phase \in {"running", "returned", "gone"}
  /\ shutdown \in BOOLEAN
  /\ stop \in {0, 1}
  /\ spawned \in 0 .. NListeners
  /\ seen \in [Listeners -> {0, 1}]
  /\ ended \subseteq 1 .. spawned
  /\ phase # "running" => Looping = {} /\ spawned = NListeners
  /\ stop = 1 => shutdown

FrontInv ==
  /\ TasksOK
  /\ conn \in [Conns -> GoodConnections]
  /\ phase = "gone" => \A c \in Conns : conn[c].at = "none"
  /\ cache \in [Hosts -> GoodAnswers \cup {None}]
  /\ zone \in [Hosts -> (SUBSET Addrs) \ {{}}]

LEMMA FrontInvTypeOK == FrontInv => FrontTypeOK
  BY DEF FrontInv, TasksOK, FrontTypeOK, GoodConnections, GoodAnswers

-----------------------------------------------------------------------------
(* An answer put in order is no shorter than it was.                       *)
LEMMA OrderedKeepsAll ==
  ASSUME NEW S \in SUBSET Addrs, S # {}, NEW s \in Ordered(S)
  PROVE  s \in Seq(Addrs) /\ s # <<>> /\ Range(s) = S
<1>1. IsFiniteSet(S)
  BY AddrsAssumption, FS_Subset DEF Addrs
<1>2. Cardinality(S) \in Nat \ {0}
  BY <1>1, FS_CardinalityType, FS_EmptySet
<1>3. s \in [1 .. Cardinality(S) -> S] /\ \A a \in S : \E i \in 1 .. Cardinality(S) : s[i] = a
  BY DEF Ordered, Bijection, Surjection, Injection
<1>4. s \in Seq(Addrs) /\ Len(s) = Cardinality(S)
  BY <1>2, <1>3
<1>5. Range(s) = S
  BY <1>3 DEF Range
<1>6. QED
  BY <1>2, <1>4, <1>5

(* Striking the first address off a list.                                  *)
LEMMA TailKeepsRest ==
  ASSUME NEW s \in Seq(Addrs), s # <<>>
  PROVE  /\ Head(s) \in Addrs
         /\ Tail(s) \in Seq(Addrs)
         /\ Range(s) \subseteq Range(Tail(s)) \cup {Head(s)}
         /\ Tail(s) = <<>> => Range(s) \subseteq {Head(s)}
<1>1. /\ Head(s) \in Addrs
      /\ Tail(s) \in Seq(Addrs)
      /\ Len(Tail(s)) = Len(s) - 1
      /\ \A i \in 1 .. Len(Tail(s)) : Tail(s)[i] = s[i + 1]
  BY HeadTailProperties
<1>2. ASSUME NEW i \in DOMAIN s, s[i] # Head(s)
      PROVE  s[i] \in Range(Tail(s)) /\ Tail(s) # <<>>
  <2>1. i \in 1 .. Len(s) /\ i # 1 /\ Len(s) \in Nat
    BY <1>2
  <2>2. i - 1 \in 1 .. Len(Tail(s)) /\ Tail(s)[i - 1] = s[i]
    BY <1>1, <2>1
  <2>3. QED
    BY <1>1, <2>2 DEF Range
<1>3. QED
  BY <1>1, <1>2 DEF Range

-----------------------------------------------------------------------------
LEMMA IdleIsGood ==
  ASSUME NEW at \in Steps \ {"ask", "heard", "dial"}
  PROVE  Idle(at) \in GoodConnections /\ Idle(at).at = at
<1>1. <<>> \in Seq(Addrs)
  BY EmptySeq
<1>2. QED
  BY <1>1 DEF Idle, GoodConnections, Connections

LEMMA DialingIsGood ==
  ASSUME NEW h \in Hosts, NEW ips \in Seq(Addrs), ips # <<>>,
         NEW full \in SUBSET Addrs, full \subseteq Range(ips)
  PROVE  Dialing(h, ips, full) \in GoodConnections
  BY DEF Dialing, Idle, GoodConnections, Connections, Steps

(* A connection's move keeps the invariant if the move and the cache do.   *)
LEMMA MovesKeeps ==
  ASSUME FrontInv, NEW c \in Conns, NEW from, NEW to \in GoodConnections,
         Moves(c, from, to), cache' \in [Hosts -> GoodAnswers \cup {None}]
  PROVE  FrontInv'
  BY DEF FrontInv, TasksOK, Moves, taskVars, Looping, Listeners

LEMMA ClientSteps ==
  ASSUME FrontInv, NEW c \in Conns,
         \/ Accept(c) \/ Handshake(c) \/ RequestArrives(c) \/ RequestFails(c)
         \/ LookupFails(c) \/ DialAccepted(c) \/ UpstreamEnds(c) \/ Leave(c)
  PROVE  FrontInv'
<1>1. cache' \in [Hosts -> GoodAnswers \cup {None}]
  BY DEF FrontInv, Accept, Handshake, RequestArrives, RequestFails, LookupFails,
         DialAccepted, UpstreamEnds, Leave
<1>2. \E from, to : to \in GoodConnections /\ Moves(c, from, to)
  BY IdleIsGood DEF Accept, Handshake, RequestArrives, RequestFails, LookupFails,
         DialAccepted, UpstreamEnds, Leave, Steps
<1>3. QED
  BY <1>1, <1>2, MovesKeeps

LEMMA RouteKeeps ==
  ASSUME FrontInv, NEW c \in Conns, Route(c)
  PROVE  FrontInv'
<1>1. cache' \in [Hosts -> GoodAnswers \cup {None}]
  BY DEF FrontInv, Route
<1>2. PICK q \in Requests :
        \/ Moves(c, "body", Idle("open"))
        \/ /\ Fresh(q.host)
           /\ Moves(c, "body", Dialing(q.host, cache[q.host].ips, cache[q.host].full))
        \/ Moves(c, "body", [Idle("ask") EXCEPT !.host = q.host])
  BY DEF Route
<1>3. q.host \in Hosts
  BY DEF Requests
<1>4. CASE Moves(c, "body", Idle("open"))
  BY <1>1, <1>4, IdleIsGood, MovesKeeps DEF Steps
<1>5. CASE /\ Fresh(q.host)
           /\ Moves(c, "body", Dialing(q.host, cache[q.host].ips, cache[q.host].full))
  <2>1. cache[q.host] \in GoodAnswers
    BY <1>3, <1>5 DEF Fresh, FrontInv
  <2>2. Dialing(q.host, cache[q.host].ips, cache[q.host].full) \in GoodConnections
    BY <1>3, <2>1, DialingIsGood DEF GoodAnswers, Answers
  <2>3. QED
    BY <1>1, <1>5, <2>2, MovesKeeps
<1>6. CASE Moves(c, "body", [Idle("ask") EXCEPT !.host = q.host])
  <2>1. [Idle("ask") EXCEPT !.host = q.host] \in GoodConnections
    BY <1>3, EmptySeq DEF Idle, GoodConnections, Connections, Steps
  <2>2. QED
    BY <1>1, <1>6, <2>1, MovesKeeps
<1>7. QED
  BY <1>2, <1>4, <1>5, <1>6

LEMMA LookupAnsweredKeeps ==
  ASSUME FrontInv, NEW c \in Conns, LookupAnswered(c)
  PROVE  FrontInv'
<1>1. conn[c] \in GoodConnections /\ conn[c].at = "ask"
  BY DEF FrontInv, LookupAnswered, Moves
<1>2. zone[conn[c].host] \in (SUBSET Addrs) \ {{}}
  BY <1>1 DEF FrontInv, GoodConnections
<1>3. [conn[c] EXCEPT !.at = "heard", !.full = zone[conn[c].host]] \in GoodConnections
  BY <1>1, <1>2 DEF GoodConnections, Connections, Steps
<1>4. cache' \in [Hosts -> GoodAnswers \cup {None}]
  BY DEF FrontInv, LookupAnswered
<1>5. QED
  BY <1>3, <1>4, MovesKeeps DEF LookupAnswered

LEMMA LookupStoredKeeps ==
  ASSUME FrontInv, NEW c \in Conns, LookupStored(c)
  PROVE  FrontInv'
<1>1. /\ conn[c] \in GoodConnections
      /\ conn[c].host \in Hosts
      /\ conn[c].full \in (SUBSET Addrs) \ {{}}
  BY DEF FrontInv, LookupStored, Moves, GoodConnections, Connections
<1>2. PICK s \in Ordered(conn[c].full) :
        /\ Moves(c, "heard", Dialing(conn[c].host, s, conn[c].full))
        /\ cache' = [cache EXCEPT ![conn[c].host] =
                       [ips |-> s, full |-> conn[c].full, age |-> 0]]
  BY DEF LookupStored
<1>3. s \in Seq(Addrs) /\ s # <<>> /\ Range(s) = conn[c].full
  BY <1>1, OrderedKeepsAll
<1>4. Dialing(conn[c].host, s, conn[c].full) \in GoodConnections
  BY <1>1, <1>3, DialingIsGood
<1>5. [ips |-> s, full |-> conn[c].full, age |-> 0] \in GoodAnswers
  BY <1>1, <1>3, SizesAssumption DEF GoodAnswers, Answers
<1>6. cache' \in [Hosts -> GoodAnswers \cup {None}]
  BY <1>2, <1>5 DEF FrontInv
<1>7. QED
  BY <1>2, <1>4, <1>6, MovesKeeps

(* What a refusal leaves of a request.                                     *)
LEMMA RefusedIsGood ==
  ASSUME NEW c \in Conns, conn[c] \in GoodConnections, conn[c].at = "dial"
  PROVE  /\ Tail(conn[c].ips) # <<>> => Refused(c) \in GoodConnections
         /\ [Refused(c) EXCEPT !.at = "open"] \in GoodConnections
         /\ Tail(conn[c].ips) = <<>> => conn[c].full \subseteq Refused(c).refused
<1>1. /\ conn[c] \in Connections
      /\ conn[c].ips \in Seq(Addrs) /\ conn[c].ips # <<>>
      /\ conn[c].host \in Hosts
      /\ conn[c].full \subseteq Range(conn[c].ips) \cup conn[c].refused
  BY DEF GoodConnections, Connections
<1> DEFINE r == Refused(c)
<1>2. /\ r.refused = conn[c].refused \cup {Head(conn[c].ips)}
      /\ r.ips = Tail(conn[c].ips)
      /\ r.at = "dial" /\ r.host = conn[c].host /\ r.full = conn[c].full
  BY <1>1 DEF Refused, Connections
<1>3. /\ Head(conn[c].ips) \in Addrs
      /\ Tail(conn[c].ips) \in Seq(Addrs)
      /\ Range(conn[c].ips) \subseteq Range(Tail(conn[c].ips)) \cup {Head(conn[c].ips)}
      /\ Tail(conn[c].ips) = <<>> => Range(conn[c].ips) \subseteq {Head(conn[c].ips)}
  BY <1>1, TailKeepsRest
<1>4. r \in Connections
  BY <1>1, <1>3 DEF Refused, Connections
<1>5. r.full \subseteq Range(r.ips) \cup r.refused
  BY <1>1, <1>2, <1>3
<1>6. Tail(conn[c].ips) # <<>> => r \in GoodConnections
  BY <1>1, <1>2, <1>4, <1>5 DEF GoodConnections
<1>7. [r EXCEPT !.at = "open"] \in GoodConnections
  BY <1>4 DEF GoodConnections, Connections, Steps
<1>8. Tail(conn[c].ips) = <<>> => conn[c].full \subseteq r.refused
  BY <1>1, <1>2, <1>3
<1>9. QED
  BY <1>6, <1>7, <1>8

LEMMA DialRefusedKeeps ==
  ASSUME FrontInv, NEW c \in Conns, DialRefused(c)
  PROVE  FrontInv'
<1>1. conn[c] \in GoodConnections /\ conn[c].at = "dial"
  BY DEF FrontInv, DialRefused, Moves
<1>2. (IF Tail(conn[c].ips) # <<>> THEN Refused(c)
       ELSE [Refused(c) EXCEPT !.at = "open"]) \in GoodConnections
  BY <1>1, RefusedIsGood
<1>3. cache' \in [Hosts -> GoodAnswers \cup {None}]
  BY DEF FrontInv, DialRefused
<1>4. QED
  BY <1>2, <1>3, MovesKeeps DEF DialRefused

-----------------------------------------------------------------------------
LEMMA TaskSteps ==
  ASSUME FrontInv, Tasks
  PROVE  FrontInv'
<1> USE SizesAssumption DEF FrontInv, TasksOK, Looping, Listeners
<1>1. CASE ShutdownResolves \/ SendStop
  BY <1>1 DEF ShutdownResolves, SendStop
<1>2. CASE Spawn
  BY <1>2 DEF Spawn
<1>3. CASE Join
  BY <1>3 DEF Join
<1>4. CASE Exit
  BY <1>4, IdleIsGood DEF Exit, Steps
<1>5. ASSUME NEW l \in Listeners, StopSeen(l)
      PROVE  FrontInv'
  BY <1>5 DEF StopSeen
<1>6. QED
  BY <1>1, <1>2, <1>3, <1>4, <1>5 DEF Tasks

LEMMA TickKeeps ==
  ASSUME FrontInv, Tick
  PROVE  FrontInv'
<1>1. ASSUME NEW h \in Hosts, Fresh(h)
      PROVE  [cache[h] EXCEPT !.age = @ + 1] \in GoodAnswers
  BY <1>1, SizesAssumption DEF FrontInv, Fresh, GoodAnswers, Answers
<1>2. cache' \in [Hosts -> GoodAnswers \cup {None}]
  BY <1>1 DEF Tick, FrontInv
<1>3. QED
  BY <1>2 DEF Tick, FrontInv, TasksOK, taskVars, Looping, Listeners

LEMMA FrontInvStep ==
  ASSUME FrontInv, [Next]_vars
  PROVE  FrontInv'
<1>1. CASE Tasks
  BY <1>1, TaskSteps
<1>2. ASSUME NEW c \in Conns, Connection(c)
      PROVE  FrontInv'
  BY <1>2, ClientSteps, RouteKeeps, LookupAnsweredKeeps, LookupStoredKeeps,
     DialRefusedKeeps DEF Connection, Resolving
<1>3. CASE Tick
  BY <1>3, TickKeeps
<1>4. ASSUME NEW h \in Hosts, ZoneMoves(h)
      PROVE  FrontInv'
  BY <1>4 DEF ZoneMoves, FrontInv, TasksOK, taskVars, Looping, Listeners
<1>5. CASE UNCHANGED vars
  BY <1>5 DEF vars, FrontInv, TasksOK, Looping, Listeners
<1>6. QED
  BY <1>1, <1>2, <1>3, <1>4, <1>5 DEF Next

LEMMA FrontInvInit == Init => FrontInv
<1> SUFFICES ASSUME Init PROVE FrontInv
  OBVIOUS
<1>1. TasksOK
  <2>1. spawned \in 0 .. NListeners /\ ended \subseteq 1 .. spawned
    BY SizesAssumption DEF Init
  <2>2. seen \in [Listeners -> {0, 1}]
    BY DEF Init
  <2>3. shutdown \in BOOLEAN
    BY Zenon DEF Init
  <2>4. stop \in {0, 1} /\ stop # 1 /\ phase = "running"
    BY DEF Init
  <2>5. QED
    BY <2>1, <2>2, <2>3, <2>4 DEF TasksOK
<1>2. conn \in [Conns -> GoodConnections]
  BY IdleIsGood DEF Init, Steps
<1>3. phase # "gone" /\ cache \in [Hosts -> GoodAnswers \cup {None}]
  BY DEF Init
<1>4. QED
  BY <1>1, <1>2, <1>3 DEF Init, FrontInv

(* Only a refusal takes a request from dialing back to its connection, and *)
(* only the last address's.                                                *)
LEMMA StrandedOnlyByRefusals ==
  ASSUME FrontInv, [Next]_vars, NEW c \in Conns,
         conn[c].at = "dial", conn'[c].at = "open"
  PROVE  conn[c].full \subseteq conn'[c].refused
<1>1. conn[c] \in GoodConnections
  BY DEF FrontInv
<1>2. DialRefused(c)
  <2>1. PICK d \in Conns : Connection(d) /\ conn'[c] # conn[c]
    <3>1. conn' # conn
      OBVIOUS
    <3>2. ~ Exit
      BY DEF Exit, Idle
    <3>3. ~ Tasks
      BY <3>1, <3>2 DEF Tasks, ShutdownResolves, SendStop, Spawn, Join, StopSeen
    <3>4. QED
      BY <3>1, <3>3 DEF Next, vars, Tick, ZoneMoves
  <2>2. ASSUME NEW from, NEW to, Moves(d, from, to)
        PROVE  c = d /\ from = "dial" /\ to.at = "open"
    BY <2>1, <2>2 DEF Moves, FrontInv
  <2>3. c = d
    BY <2>1, <2>2 DEF Connection, Resolving, Accept, Handshake, RequestArrives,
      RequestFails, Route, LookupAnswered, LookupFails, LookupStored, DialRefused,
      DialAccepted, UpstreamEnds, Leave
  <2>4. ~ (\/ Accept(c) \/ Handshake(c) \/ RequestArrives(c) \/ RequestFails(c)
           \/ Route(c) \/ LookupAnswered(c) \/ LookupFails(c) \/ LookupStored(c)
           \/ UpstreamEnds(c))
    BY DEF Moves, Accept, Handshake, RequestArrives, RequestFails, Route,
      LookupAnswered, LookupFails, LookupStored, UpstreamEnds
  <2>5. ~ DialAccepted(c) /\ ~ Leave(c)
    BY <2>2, <2>3 DEF DialAccepted, Leave, Idle
  <2>6. QED
    BY <2>1, <2>3, <2>4, <2>5 DEF Connection, Resolving
<1>3. Tail(conn[c].ips) = <<>> /\ conn'[c] = [Refused(c) EXCEPT !.at = "open"]
  <2>1. conn'[c] = IF Tail(conn[c].ips) # <<>> THEN Refused(c)
                   ELSE [Refused(c) EXCEPT !.at = "open"]
    BY <1>2 DEF DialRefused, Moves, FrontInv
  <2>2. Refused(c).at = "dial"
    BY <1>1 DEF Refused, GoodConnections, Connections
  <2>3. QED
    BY <2>1, <2>2
<1>4. conn[c].full \subseteq Refused(c).refused
  BY <1>1, <1>3, RefusedIsGood
<1>5. conn'[c].refused = Refused(c).refused
  BY <1>3
<1>6. QED
  BY <1>4, <1>5

-----------------------------------------------------------------------------
(* Type correctness: among it, that serve_many does not return before every *)
(* listener task has ended, and that no connection outlives the process     *)
(* (mod.rs:141-173).                                                        *)
THEOREM FrontTypeCorrect == Spec => []FrontTypeOK
<1>1. QED
  BY FrontInvInit, FrontInvStep, FrontInvTypeOK, PTL DEF Spec

(* With any number of requests, hosts and addresses, a request fails for    *)
(* want of a connection only when every address of the answer it was given  *)
(* has refused it (dns.rs:62, passthrough.rs:73).                           *)
THEOREM NobodyIsStranded == Spec => NeverStranded
<1>1. FrontInv /\ [Next]_vars =>
        [\A c \in Conns :
           conn[c].at = "dial" /\ conn'[c].at = "open"
             => conn[c].full \subseteq conn'[c].refused]_vars
  BY StrandedOnlyByRefusals
<1>2. QED
  BY <1>1, FrontInvInit, FrontInvStep, PTL DEF Spec, NeverStranded
=============================================================================
