--------------------------- MODULE RequestTranslator ---------------------------
(***************************************************************************)
(* to_chat_request (crates/core/src/translate/request.rs): from the        *)
(* conversation the IDE sends to the messages the provider is sent.        *)
(*                                                                         *)
(* A text, an image, a tool's result and its specification are names; what *)
(* is told apart is which of them get through, in what order, and to which *)
(* tool call a result belongs.                                             *)
(***************************************************************************)
EXTENDS Naturals, Sequences, SequencesExt

CONSTANTS
  Texts,      \* what the user, the model or a tool may have said
  NoText,     \* absent, or nothing but blanks
  Images,     \* images of a known format that have data
  BadImages,  \* images of another format, or without data
  UseIds,     \* the ids of the conversation's tool calls
  NoUseId,    \* an id that is absent
  Specs       \* specifications of tools

ASSUME ConversationAssumption ==
  /\ NoText \notin Texts /\ NoUseId \notin UseIds
  /\ Images \cap BadImages = {}

-----------------------------------------------------------------------------
(* The IDE's side.                                                         *)

Results == [id : UseIds \cup {NoUseId}, text : Texts \cup {NoText}, failed : BOOLEAN]

UserTurns == [role : {"user"}, text : Texts \cup {NoText}, results : Seq(Results),
              images : Seq(Images \cup BadImages), tools : Seq(Specs)]

AssistantTurns == [role : {"assistant"}, text : Texts \cup {NoText},
                   uses : Seq(UseIds \cup {NoUseId})]

(* A slot of the history that holds neither.                               *)
EmptyTurn == [role |-> "none"]

(* At the end comes the current message, if there is one and it is a       *)
(* user's; all before it is history.                                       *)
Conversations == [history : Seq(UserTurns \cup AssistantTurns \cup {EmptyTurn}),
                  current : {turns \in Seq(UserTurns) : Len(turns) \leq 1}]

-----------------------------------------------------------------------------
(* The provider's side.                                                    *)

NoMessage == [role |-> "none", text |-> NoText, id |-> NoUseId, failed |-> FALSE,
              images |-> <<>>, calls |-> <<>>]

ResultMessage(result) ==
  [NoMessage EXCEPT !.role = "tool", !.id = result.id, !.text = result.text,
                    !.failed = result.failed]

UserMessage(text, images) ==
  [NoMessage EXCEPT !.role = "user", !.text = text, !.images = images]

Inlined(images) ==
  FlattenSeq([k \in DOMAIN images |-> IF images[k] \in Images THEN <<images[k]>> ELSE <<>>])

(* As UserMessages would be, did what the user says come first.            *)
UserMessages_TextFirst(turn) ==
  LET results == [k \in DOMAIN turn.results |-> ResultMessage(turn.results[k])]
      images == Inlined(turn.images)
      speaks == images # <<>> \/ turn.text # NoText \/ results = <<>>
  IN  (IF speaks THEN <<UserMessage(turn.text, images)>> ELSE <<>>) \o results

(* As UserMessages would be, did tool results take the place of what the   *)
(* user says.                                                              *)
UserMessages_Either(turn) ==
  LET results == [k \in DOMAIN turn.results |-> ResultMessage(turn.results[k])]
      images == Inlined(turn.images)
  IN  IF results = <<>> THEN <<UserMessage(turn.text, images)>> ELSE results

(* convert_user_message.                                                   *)
UserMessages(turn) ==
  LET results == [k \in DOMAIN turn.results |-> ResultMessage(turn.results[k])]
      images == Inlined(turn.images)
      speaks == images # <<>> \/ turn.text # NoText \/ results = <<>>
  IN  results \o (IF speaks THEN <<UserMessage(turn.text, images)>> ELSE <<>>)

(* convert_assistant_message: a call without an id is named by its place.  *)
AssistantMessage(turn) ==
  [NoMessage EXCEPT
     !.role = "assistant", !.text = turn.text,
     !.calls = [k \in DOMAIN turn.uses |->
                  IF turn.uses[k] = NoUseId THEN <<"call", k - 1>> ELSE turn.uses[k]]]

TurnMessages(turn) ==
  CASE turn.role = "user" -> UserMessages(turn)
    [] turn.role = "assistant" -> <<AssistantMessage(turn)>>
    [] OTHER -> <<>>

Turns(conversation) == conversation.history \o conversation.current

Messages(conversation) ==
  LET turns == Turns(conversation)
  IN  FlattenSeq([k \in DOMAIN turns |-> TurnMessages(turns[k])])

(* extract_tools: the current turn's, or those of the first turn that      *)
(* declares any.                                                           *)
Declaring(conversation) ==
  SelectSeq(conversation.current \o conversation.history,
            LAMBDA turn : turn.role = "user" /\ turn.tools # <<>>)

Offered(conversation) ==
  LET declaring == Declaring(conversation)
  IN  IF declaring = <<>> THEN <<>> ELSE Head(declaring).tools

ChatRequest(conversation) ==
  [messages |-> Messages(conversation), tools |-> Offered(conversation)]

-----------------------------------------------------------------------------
(* What a request owes to its conversation.                                *)

(* A conversation in which the user's turn after a model's turn answers    *)
(* only calls that this made, and every call has an id.                    *)
Orderly(conversation) ==
  LET turns == Turns(conversation)
      calls(k) == IF k > 0 /\ turns[k].role = "assistant" THEN ToSet(turns[k].uses) ELSE {}
  IN  \A k \in DOMAIN turns :
        /\ NoUseId \notin calls(k)
        /\ turns[k].role = "user" =>
             \A r \in ToSet(turns[k].results) : r.id \in calls(k - 1)

(* Every tool message is preceded, with none but tool messages in between, *)
(* by the message that makes the call: providers reject it anywhere else.  *)
Answered(messages) ==
  \A m \in DOMAIN messages : messages[m].role = "tool" =>
    \E a \in 1..(m - 1) :
      /\ messages[m].id \in ToSet(messages[a].calls)
      /\ \A b \in (a + 1)..(m - 1) : messages[b].role = "tool"

(* All that was said, in order, whoever says it.                           *)
SaidInTurn(turn) ==
  CASE turn.role = "user" ->
         [k \in DOMAIN turn.results |-> turn.results[k]]
         \o (IF turn.text = NoText THEN <<>> ELSE <<turn.text>>)
         \o FlattenSeq([k \in DOMAIN turn.images |->
              IF turn.images[k] \in BadImages THEN <<>> ELSE <<turn.images[k]>>])
    [] turn.role = "assistant" -> IF turn.text = NoText THEN <<>> ELSE <<turn.text>>
    [] OTHER -> <<>>

SaidInMessage(message) ==
  IF message.role = "tool"
    THEN <<[id |-> message.id, text |-> message.text, failed |-> message.failed]>>
    ELSE (IF message.text = NoText THEN <<>> ELSE <<message.text>>) \o message.images

(* A user's message that says nothing stands only for a turn that said     *)
(* nothing.                                                                *)
Hollow(messages) ==
  {m \in DOMAIN messages : messages[m].role = "user" /\ SaidInMessage(messages[m]) = <<>>}

Silent(turns) ==
  {k \in DOMAIN turns : turns[k].role = "user" /\ SaidInTurn(turns[k]) = <<>>}
=============================================================================
