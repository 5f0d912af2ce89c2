------------------------------- MODULE ProxyFront -------------------------------
(***************************************************************************)
(* The daemon while it serves (crates/core/src/proxy/mod.rs): its listener *)
(* tasks and their stop, the connections they accept, the routing of a     *)
(* request, and for one that is passed through the address cache (dns.rs)  *)
(* and the way upstream (passthrough.rs).                                  *)
(***************************************************************************)
EXTENDS Naturals, Sequences, FiniteSets, Functions

CONSTANTS
  NListeners,  \* listening sockets: IPv4 and, where there is one, IPv6
  Conns,       \* connections at a time
  Hosts,       \* names a client may ask for
  Hijacked,    \* those of TOOL_HOSTS
  V4, V6,      \* upstream addresses
  Models,      \* model ids a body may name
  Mapped,      \* those the ModelMap resolves, by an entry or by its default
  None,
  TTL          \* the cache's TTL, in ticks

ASSUME SizesAssumption == NListeners \in Nat \ {0} /\ TTL \in Nat \ {0}
ASSUME HostsAssumption == Hijacked \subseteq Hosts /\ Mapped \subseteq Models
ASSUME AddrsAssumption == IsFiniteSet(V4 \cup V6) /\ V4 \cap V6 = {}

VARIABLES
  phase,     \* serve_many: "running", "returned"; "gone" when the process ends
  shutdown,  \* the shutdown future has resolved
  stop,      \* version of the watch channel's value
  spawned,   \* how many listener tasks have been spawned
  seen,      \* per listener, the version its receiver has seen
  ended,     \* the listener tasks that have left their loop
  conn,      \* what each connection is doing
  cache,     \* DnsResolver::cache: per host an answer and its age, or None
  zone       \* the addresses the public resolver gives for each host

taskVars == <<phase, shutdown, stop, spawned, seen, ended>>
vars == <<phase, shutdown, stop, spawned, seen, ended, conn, cache, zone>>

Listeners == 1 .. NListeners
Addrs == V4 \cup V6
Looping == (1 .. spawned) \ ended

(* ips are the addresses still to be tried; full (history) what the public *)
(* resolver had answered, refused (history) which of it refused this       *)
(* request.                                                                *)
Idle(at) == [at |-> at, host |-> None, ips |-> <<>>, full |-> {}, refused |-> {}]

Steps == {"none", "hello", "open", "body", "ask", "heard", "dial", "upstream"}

Connections ==
  [at : Steps, host : Hosts \cup {None}, ips : Seq(Addrs),
   full : SUBSET Addrs, refused : SUBSET Addrs]
Answers == [ips : Seq(Addrs), full : SUBSET Addrs, age : 0 .. TTL]

FrontTypeOK ==
  /\ phase \in {"running", "returned", "gone"}
  /\ shutdown \in BOOLEAN
  /\ stop \in {0, 1}
  /\ spawned \in 0 .. NListeners
  /\ seen \in [Listeners -> {0, 1}]
  /\ ended \subseteq 1 .. spawned
  /\ phase # "running" => Looping = {} /\ spawned = NListeners
  /\ phase = "gone" => \A c \in Conns : conn[c].at = "none"
  /\ stop = 1 => shutdown
  /\ conn \in [Conns -> Connections]
  /\ \A c \in Conns :
       /\ conn[c].at \in {"ask", "heard", "dial"} => conn[c].host \in Hosts
       /\ conn[c].at = "heard" => conn[c].full # {}
       /\ conn[c].at = "dial" => conn[c].ips # <<>>
  /\ cache \in [Hosts -> Answers \cup {None}]
  /\ \A h \in Hosts : cache[h] # None => cache[h].ips # <<>>
  /\ zone \in [Hosts -> (SUBSET Addrs) \ {{}}]

Init ==
  /\ phase = "running"
  /\ shutdown = FALSE
  /\ stop = 0
  /\ spawned = 0
  /\ seen = [l \in Listeners |-> 0]
  /\ ended = {}
  /\ conn = [c \in Conns |-> Idle("none")]
  /\ cache = [h \in Hosts |-> None]
  /\ zone \in [Hosts -> (SUBSET Addrs) \ {{}}]

-----------------------------------------------------------------------------
(* The listener tasks and their stop.                                      *)

(* POST /stop or Ctrl+C.                                                   *)
ShutdownResolves ==
  /\ phase = "running"
  /\ ~ shutdown
  /\ shutdown' = TRUE
  /\ UNCHANGED <<phase, stop, spawned, seen, ended, conn, cache, zone>>

(* The task that fans the stop out.                                        *)
SendStop ==
  /\ phase = "running"
  /\ shutdown /\ stop = 0
  /\ stop' = 1
  /\ UNCHANGED <<phase, shutdown, spawned, seen, ended, conn, cache, zone>>

(* As Spawn would be, did each task subscribe for itself.                  *)
Spawn_Subscribes ==
  /\ phase = "running"
  /\ spawned < NListeners
  /\ spawned' = spawned + 1
  /\ seen' = [seen EXCEPT ![spawned'] = stop]
  /\ UNCHANGED <<phase, shutdown, stop, ended, conn, cache, zone>>

(* A clone of the first receiver: it has seen what that one has, nothing.  *)
Spawn ==
  /\ phase = "running"
  /\ spawned < NListeners
  /\ spawned' = spawned + 1
  /\ seen' = [seen EXCEPT ![spawned'] = 0]
  /\ UNCHANGED <<phase, shutdown, stop, ended, conn, cache, zone>>

StopSeen(l) ==
  /\ phase = "running"
  /\ l \in Looping
  /\ seen[l] # stop
  /\ seen' = [seen EXCEPT ![l] = stop]
  /\ ended' = ended \cup {l}
  /\ UNCHANGED <<phase, shutdown, stop, spawned, conn, cache, zone>>

(* As Join would be, did the first task to end end them all.               *)
Join_First ==
  /\ phase = "running"
  /\ spawned = NListeners
  /\ ended # {}
  /\ phase' = "returned"
  /\ UNCHANGED <<shutdown, stop, spawned, seen, ended, conn, cache, zone>>

Join ==
  /\ phase = "running"
  /\ spawned = NListeners
  /\ Looping = {}
  /\ phase' = "returned"
  /\ UNCHANGED <<shutdown, stop, spawned, seen, ended, conn, cache, zone>>

(* run_daemon returns, and the runtime drops every connection.             *)
Exit ==
  /\ phase = "returned"
  /\ phase' = "gone"
  /\ conn' = [c \in Conns |-> Idle("none")]
  /\ UNCHANGED <<shutdown, stop, spawned, seen, ended, cache, zone>>

-----------------------------------------------------------------------------
(* A connection, one request after the other.                              *)

Moves(c, from, to) ==
  /\ phase # "gone"
  /\ conn[c].at = from
  /\ conn' = [conn EXCEPT ![c] = to]
  /\ UNCHANGED <<taskVars, zone>>

(* A listener that has not looked yet may accept after the stop.           *)
Accept(c) ==
  /\ Looping # {}
  /\ Moves(c, "none", Idle("hello"))
  /\ UNCHANGED cache

(* SniResolver::resolve has a leaf for a hijacked name only; the client    *)
(* may refuse it.                                                          *)
Handshake(c) ==
  /\ \E sni \in Hosts \cup {None} :
       Moves(c, "hello", Idle(IF sni \in Hijacked THEN "open" ELSE "none"))
  /\ UNCHANGED cache

RequestArrives(c) == Moves(c, "open", Idle("body")) /\ UNCHANGED cache

(* The body is too large or breaks off, or the request cannot be rebuilt:  *)
(* a 502.                                                                  *)
RequestFails(c) == Moves(c, "body", Idle("open")) /\ UNCHANGED cache

Requests == [host : Hosts, health : BOOLEAN, chat : BOOLEAN,
             model : Models \cup {None}]     \* None: the body does not parse

Decision(q) ==
  IF q.health THEN "health"
  ELSE IF q.host \in Hijacked /\ q.chat /\ q.model \in Mapped THEN "intercept"
  ELSE "passthrough"

Dialing(h, ips, full) ==
  [Idle("dial") EXCEPT !.host = h, !.ips = ips, !.full = full]

Fresh(h) == cache[h] # None /\ cache[h].age < TTL

(* As Route would be, did every use of an answer prolong it.               *)
Route_Prolongs(c) ==
  \E q \in Requests :
    \/ /\ Decision(q) # "passthrough"
       /\ Moves(c, "body", Idle("open"))
       /\ UNCHANGED cache
    \/ /\ Decision(q) = "passthrough"
       /\ Fresh(q.host)
       /\ Moves(c, "body", Dialing(q.host, cache[q.host].ips, cache[q.host].full))
       /\ cache' = [cache EXCEPT ![q.host].age = 0]
    \/ /\ Decision(q) = "passthrough"
       /\ ~ Fresh(q.host)
       /\ Moves(c, "body", [Idle("ask") EXCEPT !.host = q.host])
       /\ UNCHANGED cache

(* classify; the answer to a health probe or a chat turn is not followed   *)
(* here.  A request to be passed on takes the cached answer or asks.       *)
Route(c) ==
  /\ \E q \in Requests :
       \/ /\ Decision(q) # "passthrough"
          /\ Moves(c, "body", Idle("open"))
       \/ /\ Decision(q) = "passthrough"
          /\ Fresh(q.host)
          /\ Moves(c, "body", Dialing(q.host, cache[q.host].ips, cache[q.host].full))
       \/ /\ Decision(q) = "passthrough"
          /\ ~ Fresh(q.host)
          /\ Moves(c, "body", [Idle("ask") EXCEPT !.host = q.host])
  /\ UNCHANGED cache

-----------------------------------------------------------------------------
(* The way upstream.                                                       *)

(* The addresses in any order, IPv4 before IPv6.                           *)
Ordered(S) ==
  {s \in Bijection(1 .. Cardinality(S), S) :
     \A i, j \in DOMAIN s : s[i] \in V4 /\ s[j] \in V6 => i < j}

(* What the public resolver answers, and later what the request makes of   *)
(* it: others may have asked, been answered and stored in between.         *)
LookupAnswered(c) ==
  /\ Moves(c, "ask", [conn[c] EXCEPT !.at = "heard", !.full = zone[conn[c].host]])
  /\ UNCHANGED cache

LookupFails(c) == Moves(c, "ask", Idle("open")) /\ UNCHANGED cache

(* As LookupStored would be, did the cache keep one address.               *)
LookupStored_One(c) ==
  /\ conn[c].at = "heard"
  /\ \E s \in Ordered(conn[c].full) :
       LET answer == [ips |-> SubSeq(s, 1, 1), full |-> conn[c].full, age |-> 0] IN
       /\ Moves(c, "heard", Dialing(conn[c].host, s, conn[c].full))
       /\ cache' = [cache EXCEPT ![conn[c].host] = answer]

LookupStored(c) ==
  /\ conn[c].at = "heard"
  /\ \E s \in Ordered(conn[c].full) :
       LET answer == [ips |-> s, full |-> conn[c].full, age |-> 0] IN
       /\ Moves(c, "heard", Dialing(conn[c].host, s, conn[c].full))
       /\ cache' = [cache EXCEPT ![conn[c].host] = answer]

(* connect_any: on to the next address, or a 502.                          *)
Refused(c) ==
  [conn[c] EXCEPT !.ips = Tail(@), !.refused = @ \cup {Head(conn[c].ips)}]

(* As DialRefused would be, did it start over after the last address.      *)
DialRefused_Restarts(c) ==
  /\ Moves(c, "dial",
       IF Tail(conn[c].ips) # <<>> THEN Refused(c)
       ELSE [Refused(c) EXCEPT !.ips = CHOOSE s \in Ordered(conn[c].full) : TRUE])
  /\ UNCHANGED cache

DialRefused(c) ==
  /\ Moves(c, "dial",
       IF Tail(conn[c].ips) # <<>> THEN Refused(c)
       ELSE [Refused(c) EXCEPT !.at = "open"])
  /\ UNCHANGED cache

DialAccepted(c) == Moves(c, "dial", Idle("upstream")) /\ UNCHANGED cache

(* The response is relayed; or TLS, the request or the response fails, and *)
(* the client has a 502 or a body cut short.                               *)
UpstreamEnds(c) == Moves(c, "upstream", Idle("open")) /\ UNCHANGED cache

(* The client closes the connection, and hyper drops what it was doing.    *)
Leave(c) ==
  /\ conn[c].at # "none"
  /\ Moves(c, conn[c].at, Idle("none"))
  /\ UNCHANGED cache

-----------------------------------------------------------------------------
(* Time and the world.                                                     *)

Tick ==
  /\ \E h \in Hosts : Fresh(h)
  /\ cache' = [h \in Hosts |->
                 IF Fresh(h) THEN [cache[h] EXCEPT !.age = @ + 1] ELSE cache[h]]
  /\ UNCHANGED <<taskVars, conn, zone>>

ZoneMoves(h) ==
  /\ \E S \in (SUBSET Addrs) \ {{}} : S # zone[h] /\ zone' = [zone EXCEPT ![h] = S]
  /\ UNCHANGED <<taskVars, conn, cache>>

Tasks == ShutdownResolves \/ SendStop \/ Spawn \/ Join \/ Exit
         \/ \E l \in Listeners : StopSeen(l)

(* What ends by itself: hickory gives up after seconds, a connect when the *)
(* system does.                                                            *)
Resolving(c) ==
  LookupAnswered(c) \/ LookupFails(c) \/ LookupStored(c)
  \/ DialRefused(c) \/ DialAccepted(c)

Connection(c) ==
  \/ Accept(c) \/ Handshake(c) \/ RequestArrives(c) \/ RequestFails(c) \/ Route(c)
  \/ Resolving(c) \/ UpstreamEnds(c) \/ Leave(c)

Next ==
  \/ Tasks
  \/ \E c \in Conns : Connection(c)
  \/ Tick
  \/ \E h \in Hosts : ZoneMoves(h)

Spec == Init /\ [][Next]_vars

(* The runtime polls its tasks, and select! picks among ready branches at  *)
(* random; clients and upstreams are granted nothing.                      *)
FairSpec ==
  /\ Spec
  /\ WF_vars(SendStop) /\ WF_vars(Spawn) /\ WF_vars(Join)
  /\ \A l \in Listeners : WF_vars(StopSeen(l))
  /\ \A c \in Conns : WF_vars(Resolving(c))
  /\ WF_vars(Tick)

-----------------------------------------------------------------------------
(* Properties.                                                             *)

(* A request fails for want of a connection only when every address that   *)
(* the public resolver gave for its host has refused it, whichever request *)
(* asked and whatever was cached (dns.rs:62, passthrough.rs:73).           *)
NeverStranded ==
  [][\A c \in Conns :
       conn[c].at = "dial" /\ conn'[c].at = "open"
         => conn[c].full \subseteq conn'[c].refused]_vars

(* Once a host's addresses have changed for good, requests come to use the *)
(* new ones, also when requests never pause and answers overtake each      *)
(* other (dns.rs:63-100).                                                  *)
MovesAreNoticed ==
  <>[][zone' = zone]_vars =>
  <>[][\A c \in Conns :
         conn[c].at # "dial" /\ conn'[c].at = "dial"
           => Range(conn'[c].ips) = zone[conn'[c].host]]_vars

(* A request that is passed on gets upstream or comes back with an error:  *)
(* route_request "always return[s] a response" (mod.rs:256), as far as it  *)
(* is in the proxy's hands.                                                *)
DialingEnds ==
  \A c \in Conns :
    conn[c].at \in {"ask", "heard", "dial"} ~> conn[c].at \in {"upstream", "open", "none"}

(* A stop ends every listener and lets serve_many return, whenever it      *)
(* comes, also before the tasks are spawned (mod.rs:134-171).              *)
StopEndsListening == shutdown ~> phase # "running"
=============================================================================
