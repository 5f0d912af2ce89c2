----------------------------- MODULE EventStream -----------------------------
(***************************************************************************)
(* What the proxy promises the IDE's decoder of an intercepted chat turn:  *)
(* the stream is opened at most once, a tool call is begun and ended at    *)
(* most once and gets no input after its end, the stream is stopped only   *)
(* when every call begun has ended, and nothing follows a stop or an       *)
(* exception.                                                              *)
(***************************************************************************)
EXTENDS Naturals

CONSTANT Tools

VARIABLES
  phase,   \* of the stream
  begun,   \* how often each tool call was announced with a name
  ended    \* how often each was stopped

stream == <<phase, begun, ended>>

Never == [t \in Tools |-> 0]

Init == phase = "waiting" /\ begun = Never /\ ended = Never

Open ==
  /\ phase = "waiting"
  /\ phase' = "open"
  /\ UNCHANGED <<begun, ended>>

Begin(t) ==
  /\ phase = "open"
  /\ begun[t] = 0 /\ ended[t] = 0
  /\ begun' = [begun EXCEPT ![t] = 1]
  /\ UNCHANGED <<phase, ended>>

End(t) ==
  /\ phase = "open"
  /\ ended[t] = 0
  /\ ended' = [ended EXCEPT ![t] = 1]
  /\ UNCHANGED <<phase, begun>>

(* An announced call has ended by now.                                     *)
Stop ==
  /\ phase = "open"
  /\ \A t \in Tools : begun[t] \leq ended[t]
  /\ phase' = "stopped"
  /\ UNCHANGED <<begun, ended>>

(* A failed provider; the stream need not have been opened.                *)
Fail ==
  /\ phase \in {"waiting", "open"}
  /\ ended = Never
  /\ phase' = "failed"
  /\ UNCHANGED <<begun, ended>>

Next == (\E t \in Tools : Begin(t) \/ End(t)) \/ Open \/ Stop \/ Fail

Promise == Init /\ [][Next]_stream
=============================================================================
