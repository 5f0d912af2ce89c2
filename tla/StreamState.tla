----------------------------- MODULE StreamState -----------------------------
(***************************************************************************)
(* The translator of a provider's chunks into event-stream frames:         *)
(* StreamState (crates/core/src/translate/response.rs) with its            *)
(* ThinkingSplitter (translate/thinking.rs), as operators on its state.    *)
(*                                                                         *)
(* Content is a sequence of symbols (see ThinkingSplitter); Aside stands   *)
(* for reasoning that arrived in a field of its own.                       *)
(***************************************************************************)
EXTENDS ThinkingSplitter

CONSTANTS
  Aside,
  Tools,   \* the indices of a reply's tool calls
  Ids,     \* the ids the provider gives tool calls
  NoId     \* no id: absent in a delta, empty in a frame

ASSUME ToolsAssumption == Tools \subseteq Nat /\ NoId \notin Ids
ASSUME AsideAssumption == Aside \notin Symbols

Entries == [id : Ids \cup {NoId}, named : BOOLEAN]
Blank == [id |-> NoId, named |-> FALSE]

(* A delta's name may be absent, an empty string, or a name.               *)
Deltas == [index : Tools, id : Ids \cup {NoId},
           name : {"absent", "empty", "named"}, args : BOOLEAN]

(* One payload: at most one tool-call delta, whether it carries reasoning  *)
(* and usage, and its content.  All of them absent: a malformed payload,   *)
(* or a chunk with nothing in it.                                          *)
Payloads == [tool : Seq(Deltas), reasoning : BOOLEAN, content : Seq(Symbols),
             usage : BOOLEAN]

Fresh ==
  [opened |-> FALSE, tools |-> [i \in Tools |-> Blank], known |-> {},
   calls |-> FALSE, usage |-> 0, thinking |-> [pending |-> <<>>, close |-> Outside]]

TranslatorState ==
  [opened : BOOLEAN, tools : [Tools -> Entries], known : SUBSET Tools,
   calls : BOOLEAN, usage : Nat, thinking : SplitterState]

-----------------------------------------------------------------------------
(* Frames.                                                                 *)

Initial == [kind |-> "initial"]
Exception == [kind |-> "exception"]
MessageStop == [kind |-> "stop"]
UsageFrame(n) == [kind |-> "usage", value |-> n]
ToolFrame(kind, i, entry) ==
  [kind |-> kind, tool |-> i, id |-> entry.id, named |-> entry.named]

(* emit_content leaves out what is empty.                                  *)
Content(channel, text) ==
  IF text = <<>> THEN <<>> ELSE <<[kind |-> channel, text |-> text]>>

(* emit: initial-response goes out with the first frame there is.          *)
Emit(st, frames) ==
  IF st.opened \/ frames = <<>> THEN frames ELSE <<Initial>> \o frames

Emitted(st, frames) == [st EXCEPT !.opened = @ \/ frames # <<>>]

-----------------------------------------------------------------------------
(* StreamState::on_chunk.                                                  *)

(* As Entry would be, did the latest id win.                               *)
Entry_LatestId(old, delta) ==
  [id |-> IF delta.id # NoId THEN delta.id ELSE old.id,
   named |-> old.named \/ delta.name = "named"]

(* The first id and the first real name of an index stay.                  *)
Entry(old, delta) ==
  [id |-> IF old.id = NoId THEN delta.id ELSE old.id,
   named |-> old.named \/ delta.name = "named"]

(* As ToolFrames would be, did every name announce the call.               *)
ToolFrames_EveryName(st, delta) ==
  LET new == Entry(st.tools[delta.index], delta)
  IN  (IF delta.name # "absent" THEN <<ToolFrame("toolInit", delta.index, new)>> ELSE <<>>)
      \o (IF delta.args THEN <<ToolFrame("toolInput", delta.index, new)>> ELSE <<>>)

ToolFrames(st, delta) ==
  LET old == st.tools[delta.index]
      new == Entry(old, delta)
      opening == delta.name # "absent" /\ ~old.named
  IN  (IF opening THEN <<ToolFrame("toolInit", delta.index, new)>> ELSE <<>>)
      \o (IF delta.args THEN <<ToolFrame("toolInput", delta.index, new)>> ELSE <<>>)

WithDelta(st, delta) ==
  [st EXCEPT
     !.calls = TRUE,
     !.tools[delta.index] = Entry(@, delta),
     !.known = IF delta.id # NoId \/ delta.name # "absent"
               THEN @ \cup {delta.index} ELSE @]

(* The frames of a payload whose content splits like this: tool calls,     *)
(* then reasoning, then text, in whatever order they came.                 *)
ChunkFrames(st, payload, split) ==
  (IF payload.tool = <<>> THEN <<>> ELSE ToolFrames(st, payload.tool[1]))
  \o (IF payload.reasoning THEN Content("reasoning", <<Aside>>) ELSE <<>>)
  \o Content("reasoning", split.reasoning) \o Content("text", split.text)

(* The state after payload number n.                                       *)

(* As AfterChunk would be, were the first usage kept.                      *)
AfterChunk_FirstUsage(st, payload, n, split) ==
  LET called == IF payload.tool = <<>> THEN st ELSE WithDelta(st, payload.tool[1])
  IN  [Emitted(called, ChunkFrames(st, payload, split)) EXCEPT
         !.usage = IF payload.usage /\ @ = 0 THEN n ELSE @,
         !.thinking = [pending |-> split.pending, close |-> split.close]]

AfterChunk(st, payload, n, split) ==
  LET called == IF payload.tool = <<>> THEN st ELSE WithDelta(st, payload.tool[1])
  IN  [Emitted(called, ChunkFrames(st, payload, split)) EXCEPT
         !.usage = IF payload.usage THEN n ELSE @,
         !.thinking = [pending |-> split.pending, close |-> split.close]]

-----------------------------------------------------------------------------
(* StreamState::finish.                                                    *)

Rest(st) ==
  LET rest == Flush(st.thinking)
  IN  Content("reasoning", rest.reasoning) \o Content("text", rest.text)

(* A BTreeMap is walked by index.                                          *)
ByIndex(indices) ==
  CHOOSE order \in Bijection(1..Cardinality(indices), indices) :
    \A j, k \in DOMAIN order : j < k => order[j] < order[k]

ToolStops(st) ==
  LET order == ByIndex(st.known)
  IN  [j \in DOMAIN order |-> ToolFrame("toolStop", order[j], st.tools[order[j]])]

(* As FinishFrames was in the JS reference: no stop after tool calls.      *)
FinishFrames_NoStop(st) ==
  Rest(st)
  \o (IF st.calls THEN ToolStops(st) ELSE <<>>)
  \o (IF st.usage # 0 THEN <<UsageFrame(st.usage)>> ELSE <<>>)
  \o (IF st.calls THEN <<>> ELSE <<MessageStop>>)

FinishFrames(st) ==
  Rest(st)
  \o (IF st.calls THEN ToolStops(st) ELSE <<>>)
  \o (IF st.usage # 0 THEN <<UsageFrame(st.usage)>> ELSE <<>>)
  \o <<MessageStop>>
=============================================================================
