----------------------------- MODULE RootRegistry -----------------------------
(***************************************************************************)
(* What the files of the data directory promise of the root certificate:   *)
(* there is one at a time, with its key, in one step from nowhere; none is *)
(* made before the one in use has expired, none that has expired comes     *)
(* back, and only the one in use is served or given to the user to trust.  *)
(***************************************************************************)
EXTENDS Naturals

CONSTANTS Actors, None

VARIABLES
  current,   \* the root in use, or None
  issued,    \* how many have been made
  expired,   \* those that have expired
  served,    \* the root each daemon serves, until it expires
  trusted    \* the roots the user trusts, until they expire

registry == <<current, issued, expired, served, trusted>>

Init ==
  /\ issued \in {0, 1}
  /\ current = IF issued = 0 THEN None ELSE issued
  /\ expired = {}
  /\ served = [a \in Actors |-> None]
  /\ trusted = {}

Issue ==
  /\ current = None
  /\ issued' = issued + 1
  /\ UNCHANGED <<current, expired, served, trusted>>

(* It is the newest; the maker of an older one has given up.               *)
Publish ==
  /\ current = None
  /\ issued \notin expired
  /\ current' = issued
  /\ UNCHANGED <<issued, expired, served, trusted>>

Expire(r) ==
  /\ expired' = expired \cup {r}
  /\ current' = IF current = r THEN None ELSE current
  /\ served' = [a \in Actors |-> IF served[a] = r THEN None ELSE served[a]]
  /\ trusted' = trusted \ {r}
  /\ UNCHANGED issued

Serve(a) ==
  /\ current # None
  /\ served[a] = None
  /\ served' = [served EXCEPT ![a] = current]
  /\ UNCHANGED <<current, issued, expired, trusted>>

StopServing(gone) ==
  /\ served' = [a \in Actors |-> IF a \in gone THEN None ELSE served[a]]
  /\ UNCHANGED <<current, issued, expired, trusted>>

Trust ==
  /\ current # None
  /\ trusted' = trusted \cup {current}
  /\ UNCHANGED <<current, issued, expired, served>>

Next ==
  \/ Issue \/ Publish \/ Trust
  \/ \E r \in 1 .. issued : Expire(r)
  \/ \E a \in Actors : Serve(a)
  \/ \E gone \in SUBSET Actors : StopServing(gone)
=============================================================================
