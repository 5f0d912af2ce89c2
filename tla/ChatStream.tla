------------------------------ MODULE ChatStream ------------------------------
(***************************************************************************)
(* One intercepted chat turn (crates/core/src/proxy/intercept.rs): the     *)
(* provider's byte stream, the spawned task that translates it, the        *)
(* bounded channel of frames, and the response body the IDE reads.         *)
(*                                                                         *)
(* The task gives way at every await: in the select over the provider and  *)
(* the client's departure, and at every send into a full channel.          *)
(***************************************************************************)
EXTENDS StreamState, RequestTranslator

CONSTANTS
  Asks,         \* the conversations the IDE may send
  Chunks,       \* the payloads the provider may send
  MaxPayloads,  \* bound on the payloads of one turn
  Depth         \* CHANNEL_DEPTH

ASSUME AsksAssumption == Asks \subseteq Conversations
ASSUME ChunksAssumption == Chunks \subseteq Payloads
ASSUME BoundsAssumption == MaxPayloads \in Nat /\ Depth \in Nat \ {0, 1}

VARIABLES
  asked,   \* the conversation, until it has been sent on
  request, \* what it was translated to, until that has been sent on
  pc,      \* what the turn is doing
  line,    \* SseReader's buffer: a payload whose line has not ended yet
  todo,    \* payloads of this read still to be fed
  st,      \* the StreamState
  out,     \* frames it returned that are still to be sent
  wire,    \* every frame put on the stream so far
  read,    \* how many of them the client has read
  client,  \* the IDE's end of the response
  told     \* history: every payload the provider sent

turn == <<asked, request>>
vars == <<turn, pc, line, todo, st, out, wire, read, client, told>>

Spent == <<>>

TypeOK ==
  /\ asked \in Asks \cup {Spent}
  /\ request = Spent <=> pc # "calling"
  /\ pc \in {"translating", "calling", "selecting", "feeding", "flushing", "finishing", "failing", "done"}
  /\ line \in Seq(Chunks) /\ Len(line) \leq 1
  /\ todo \in Seq(Chunks)
  /\ st \in TranslatorState
  /\ read \in 0..Len(wire)
  /\ Len(wire) - read \leq Depth
  /\ client \in {"reading", "gone", "refused", "finished"}
  /\ Len(told) \leq MaxPayloads
  /\ pc \in {"translating", "calling", "selecting"} => todo = <<>> /\ out = <<>>

Init ==
  /\ asked \in Asks
  /\ request = Spent
  /\ pc = "translating"
  /\ line = <<>>
  /\ todo = <<>>
  /\ st = Fresh
  /\ out = <<>>
  /\ wire = <<>>
  /\ read = 0
  /\ client = "reading"
  /\ told = <<>>

-----------------------------------------------------------------------------
(* The call to the provider, before there is a stream.                     *)

Translate ==
  /\ pc = "translating"
  /\ Messages(asked) # <<>>
  /\ request' = ChatRequest(asked)
  /\ pc' = "calling"
  /\ UNCHANGED <<asked, line, todo, st, out, wire, read, client, told>>

(* The conversation produced no messages: the IDE gets a 502.              *)
Refuse ==
  /\ pc = "translating"
  /\ Messages(asked) = <<>>
  /\ pc' = "done"
  /\ asked' = Spent
  /\ client' = IF client = "gone" THEN "gone" ELSE "refused"
  /\ UNCHANGED <<request, line, todo, st, out, wire, read, told>>

(* The provider cannot be reached or answers with an error.                *)
CallFails ==
  /\ pc = "calling" /\ client = "reading"
  /\ pc' = "done"
  /\ asked' = Spent /\ request' = Spent
  /\ wire' = <<Initial, Exception>>
  /\ UNCHANGED <<line, todo, st, out, read, client, told>>

CallSucceeds ==
  /\ pc = "calling" /\ client = "reading"
  /\ pc' = "selecting"
  /\ asked' = Spent /\ request' = Spent
  /\ UNCHANGED <<line, todo, st, out, wire, read, client, told>>

(* The server drops the handler with the connection.                       *)
CallDropped ==
  /\ pc = "calling" /\ client = "gone"
  /\ pc' = "done"
  /\ asked' = Spent /\ request' = Spent
  /\ UNCHANGED <<line, todo, st, out, wire, read, client, told>>

-----------------------------------------------------------------------------
(* The task.                                                               *)

(* As Abandon would be, were the client looked for only between reads.     *)
Abandon_BetweenReads ==
  /\ pc = "selecting" /\ client = "gone" /\ told # <<>>
  /\ pc' = "done"
  /\ UNCHANGED <<turn, line, todo, st, out, wire, read, client, told>>

(* tx.closed() resolves.                                                   *)
Abandon ==
  /\ pc = "selecting" /\ client = "gone"
  /\ pc' = "done"
  /\ UNCHANGED <<turn, line, todo, st, out, wire, read, client, told>>

(* A read completes some lines and may leave an unfinished one behind.     *)
Receive ==
  /\ pc = "selecting"
  /\ \E came \in BoundedSeq(Chunks, 2) \ {<<>>}, whole \in BOOLEAN :
       /\ Len(told) + Len(came) \leq MaxPayloads
       /\ told' = told \o came
       /\ todo' = line \o (IF whole THEN came ELSE Front(came))
       /\ line' = IF whole THEN <<>> ELSE <<Last(came)>>
  /\ pc' = "feeding"
  /\ UNCHANGED <<turn, st, out, wire, read, client>>

(* The number of the payload that is fed next.                             *)
Turn == Len(told) - Len(line) - Len(todo) + 1

Feed ==
  /\ pc \in {"feeding", "flushing"}
  /\ out = <<>> /\ todo # <<>>
  /\ \E split \in {Push(st.thinking, Head(todo).content)} :
       /\ out' = Emit(st, ChunkFrames(st, Head(todo), split))
       /\ st' = AfterChunk(st, Head(todo), Turn, split)
  /\ todo' = Tail(todo)
  /\ UNCHANGED <<turn, pc, line, wire, read, client, told>>

(* The read is dealt with: back to the select.                             *)
Fed ==
  /\ pc = "feeding"
  /\ out = <<>> /\ todo = <<>>
  /\ pc' = "selecting"
  /\ UNCHANGED <<turn, line, todo, st, out, wire, read, client, told>>

(* The provider's connection breaks.                                       *)
UpstreamFails ==
  /\ pc = "selecting"
  /\ pc' = "failing"
  /\ out' = <<Exception>>
  /\ UNCHANGED <<turn, line, todo, st, wire, read, client, told>>

(* The provider's stream ends; a last line need not end with a newline.    *)
UpstreamEnds ==
  /\ pc = "selecting"
  /\ pc' = "flushing"
  /\ todo' = line
  /\ line' = <<>>
  /\ UNCHANGED <<turn, st, out, wire, read, client, told>>

Finish ==
  /\ pc = "flushing"
  /\ out = <<>> /\ todo = <<>>
  /\ out' = Emit(st, FinishFrames(st))
  /\ st' = [Emitted(st, FinishFrames(st)) EXCEPT !.thinking = Fresh.thinking]
  /\ pc' = "finishing"
  /\ UNCHANGED <<turn, line, todo, wire, read, client, told>>

(* As Send would be into an unbounded channel.                             *)
Send_Unbounded ==
  /\ out # <<>> /\ client = "reading"
  /\ wire' = Append(wire, Head(out))
  /\ out' = Tail(out)
  /\ UNCHANGED <<turn, pc, line, todo, st, read, client, told>>

Send ==
  /\ out # <<>> /\ client = "reading"
  /\ Len(wire) - read < Depth
  /\ wire' = Append(wire, Head(out))
  /\ out' = Tail(out)
  /\ UNCHANGED <<turn, pc, line, todo, st, read, client, told>>

(* Nobody is left to send to: the task returns.                            *)
SendFails ==
  /\ out # <<>> /\ client = "gone"
  /\ pc' = "done"
  /\ out' = <<>>
  /\ todo' = <<>>
  /\ UNCHANGED <<turn, line, st, wire, read, client, told>>

(* As Return would be, did the loop go on after a broken read.             *)
Return_GoesOn ==
  /\ pc \in {"finishing", "failing"}
  /\ out = <<>>
  /\ pc' = IF pc = "failing" THEN "selecting" ELSE "done"
  /\ UNCHANGED <<turn, line, todo, st, out, wire, read, client, told>>

(* The task returns, and its end of the channel is dropped with it.        *)
Return ==
  /\ pc \in {"finishing", "failing"}
  /\ out = <<>>
  /\ pc' = "done"
  /\ UNCHANGED <<turn, line, todo, st, out, wire, read, client, told>>

-----------------------------------------------------------------------------
(* The IDE.                                                                *)

Read ==
  /\ client = "reading" /\ read < Len(wire)
  /\ read' = read + 1
  /\ UNCHANGED <<turn, pc, line, todo, st, out, wire, client, told>>

(* The body ends once the sender is gone and the channel is empty.         *)
ReadEnd ==
  /\ client = "reading" /\ read = Len(wire) /\ pc = "done"
  /\ client' = "finished"
  /\ UNCHANGED <<turn, pc, line, todo, st, out, wire, read, told>>

Abort ==
  /\ client = "reading"
  /\ client' = "gone"
  /\ UNCHANGED <<turn, pc, line, todo, st, out, wire, read, told>>

-----------------------------------------------------------------------------
TaskStep ==
  \/ Translate \/ Refuse \/ CallDropped \/ Abandon \/ Feed \/ Fed \/ Finish \/ Send \/ SendFails \/ Return

ProviderStep ==
  CallFails \/ CallSucceeds \/ Receive \/ UpstreamFails \/ UpstreamEnds

ClientStep == Read \/ ReadEnd

Next == TaskStep \/ ProviderStep \/ ClientStep \/ Abort

Spec == Init /\ [][Next]_vars

(* The runtime polls a task that can go on, and the IDE drains what it is  *)
(* sent.  The provider owes nobody an answer, and no timeout bounds it.    *)
FairSpec == Spec /\ WF_vars(TaskStep) /\ WF_vars(ClientStep)

-----------------------------------------------------------------------------
(* Properties.                                                             *)

(* If every tool result answers a call of the turn before it, the provider *)
(* finds it behind that call, with nothing but other results in between,   *)
(* whatever else the turn says or shows (request.rs:31-93, 95-125).        *)
RequestIsAnswerable ==
  pc = "calling" /\ Orderly(asked) => Answered(request.messages)

(* The provider is told all that was said, in order, a failed tool as      *)
(* failed, and no empty message is made up for a turn that carries only    *)
(* results (request.rs:36-93, 183-208).                                    *)
RequestIsWhole ==
  pc = "calling" =>
    LET turns == Turns(asked)
        messages == request.messages
    IN  /\ FlattenSeq([k \in DOMAIN turns |-> SaidInTurn(turns[k])])
              = FlattenSeq([m \in DOMAIN messages |-> SaidInMessage(messages[m])])
        /\ Cardinality(Hollow(messages)) = Cardinality(Silent(turns))

OnWire(kind) == {k \in DOMAIN wire : wire[k].kind = kind}
Complete == OnWire("stop") # {}

(* What a channel carries of the provider's content, in the wire's order.  *)
Bears(frame, channel) ==
  IF frame.kind = channel /\ frame.text # <<Aside>> THEN frame.text ELSE <<>>
Carried(channel) == FlattenSeq([k \in DOMAIN wire |-> Bears(wire[k], channel)])

Said == FlattenSeq([n \in DOMAIN told |-> told[n].content])

(* However the content is cut into chunks, lines and reads, the IDE gets   *)
(* what splitting it whole would give, in order and, unless the provider   *)
(* or the client breaks off, all of it (thinking.rs:60-124,                *)
(* intercept.rs:77-86).                                                    *)
ContentIsWhole ==
  LET whole == Divided(Said)
  IN  \A channel \in {"text", "reasoning"} :
        /\ IsPrefix(Carried(channel), whole[channel])
        /\ Complete => Carried(channel) = whole[channel]

(* Once a tool call has been announced with id and name, every frame of it *)
(* carries both, whatever later deltas say (response.rs:131-169).         *)
ToolFramesAgree ==
  \A k \in OnWire("toolInit") :
    wire[k].id # NoId /\ wire[k].named =>
      \A m \in OnWire("toolInit") \cup OnWire("toolInput") \cup OnWire("toolStop") :
        m > k /\ wire[m].tool = wire[k].tool =>
          wire[m].id = wire[k].id /\ wire[m].named

(* A complete reply reports usage once, the latest the provider sent, even *)
(* when that came after the finish or after the text (response.rs:122,     *)
(* 182-186, 214-223).                                                      *)
UsageIsLatest ==
  LET sent == {n \in DOMAIN told : told[n].usage}
      latest == {n \in sent : \A m \in sent : m \leq n}
  IN  /\ Cardinality(OnWire("usage")) \leq 1
      /\ Complete => {wire[k].value : k \in OnWire("usage")} = latest

(* A body that ends has said why: its last frame is messageStop or an      *)
(* exception (response.rs:225-228, intercept.rs:67-72).                    *)
EndIsMarked ==
  client = "finished" => wire # <<>> /\ Last(wire).kind \in {"stop", "exception"}

(* The turn keeps the promise made to the decoder.                         *)
Phase ==
  CASE wire = <<>> -> "waiting"
    [] OnWire("exception") # {} -> "failed"
    [] Complete -> "stopped"
    [] OTHER -> "open"

Announced(t) == {k \in OnWire("toolInit") : wire[k].tool = t /\ wire[k].named}
Stopped(t) == {k \in OnWire("toolStop") : wire[k].tool = t}

Decoder == INSTANCE EventStream WITH
  phase <- Phase,
  begun <- [t \in Tools |-> Cardinality(Announced(t))],
  ended <- [t \in Tools |-> Cardinality(Stopped(t))]

KeepsPromise == Decoder!Promise

(* A client that goes away frees the task, and with it the provider's      *)
(* connection, though the provider may never say another word              *)
(* (intercept.rs:56-59).                                                   *)
AbortFreesTask == client = "gone" ~> pc = "done"

(* Once the provider has ended or failed, the IDE reaches the end of its   *)
(* body: nobody waits for room in the channel for ever.                    *)
EndReachesClient ==
  pc \in {"flushing", "failing"} ~> client \in {"finished", "gone"}
=============================================================================
