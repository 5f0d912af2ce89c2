--------------------------- MODULE ChatStreamProofs ---------------------------
(***************************************************************************)
(* What holds of every chat turn, whatever the provider sends, in however  *)
(* many payloads, and whenever the client goes away (ChatStream).          *)
(***************************************************************************)
EXTENDS ChatStream, CommonLemmas, FiniteSetTheorems

-----------------------------------------------------------------------------
(* What the translator is built from.                                      *)

Tags == {p[1] : p \in TagPairs} \cup Closings

LEMMA TagsAreSequences ==
  /\ Tags \subseteq Seq(Symbols) \ {Outside}
  /\ \A close \in Closings \cup {Outside} : Awaited(close) \subseteq Tags
BY TagsAssumption DEF Tags, Closings, Awaited

(* No more is held back than there is.                                     *)
LEMMA HeldBack ==
  ASSUME NEW text \in Seq(Symbols), NEW tags
  PROVE  HoldBack(text, tags) \in 0..Len(text)
<1> DEFINE S == {0} \cup {n \in DOMAIN text :
                  \E t \in tags : n < Len(t) /\ Agree(text, Len(text) - n + 1, t, n)}
<1>1. S \subseteq Nat /\ S # {} /\ Len(text) \in Nat /\ \A i \in S : i <= Len(text)
  OBVIOUS
<1>2. HoldBack(text, tags) = Max(S)
  BY DEF HoldBack
<1>3. Max(S) \in S
  <2> HIDE DEF S
  <2>1. QED
    BY <1>1, MaxOf
<1>4. Max(S) \in 0..Len(text)
  BY <1>1, <1>3
<1>5. QED
  BY <1>2, <1>4

(* The first tag in the text begins within it.                             *)
LEMMA FirstFound ==
  ASSUME NEW text \in Seq(Symbols), NEW tags, tags \subseteq Tags,
         ~(\A t \in tags : Found(text, t) = {})
  PROVE  LET first == Min(UNION {Found(text, t) : t \in tags})
             tag == CHOOSE t \in tags : first \in Found(text, t)
         IN  /\ tag \in tags /\ Len(tag) \in Nat \ {0}
             /\ first \in 1..(Len(text) - Len(tag) + 1)
             /\ first \in Found(text, tag)
<1> DEFINE S == UNION {Found(text, t) : t \in tags}
           first == Min(S)
           tag == CHOOSE t \in tags : first \in Found(text, t)
<1>1. ASSUME NEW t \in tags
      PROVE  Len(t) \in Nat \ {0} /\ Found(text, t) \subseteq 1..(Len(text) - Len(t) + 1)
  <2>1. t \in Seq(Symbols) /\ t # <<>>
    BY TagsAreSequences DEF Outside
  <2>2. QED
    BY <2>1 DEF Found
<1>2. S \subseteq Nat
  <2>1. ASSUME NEW t \in tags, NEW i \in Found(text, t)
        PROVE  i \in Nat
    BY <1>1
  <2>2. QED
    BY <2>1
<1>3. S # {}
  OBVIOUS
<1>4. first \in S
  <2> HIDE DEF S
  <2>1. QED
    BY <1>2, <1>3, MinOf
<1>5. \E t \in tags : first \in Found(text, t)
  BY <1>4
<1>6. tag \in tags /\ first \in Found(text, tag)
  <2> HIDE DEF first
  <2>1. QED
    BY <1>5
<1> HIDE DEF first, tag
<1>7. Len(tag) \in Nat \ {0} /\ first \in 1..(Len(text) - Len(tag) + 1)
  BY <1>1, <1>6
<1>8. QED
  BY <1>6, <1>7 DEF first, tag

(* What Release gives out and leaves.                                      *)
LEMMA Released ==
  ASSUME NEW split \in Split, NEW n \in Nat, NEW gone \in Nat,
         n + gone <= Len(split.pending)
  PROVE  /\ Release(split, n, gone) \in Split
         /\ Release(split, n, gone).close = split.close
         /\ Release(split, n, gone).more = split.more
         /\ Len(Release(split, n, gone).pending) = Len(split.pending) - n - gone
<1> DEFINE passed == SubSeq(split.pending, 1, n)
           rest == SubSeq(split.pending, n + gone + 1, Len(split.pending))
           text == IF split.close = Outside THEN split.text \o passed ELSE split.text
           reasoning == IF split.close = Outside THEN split.reasoning ELSE split.reasoning \o passed
<1>1. split.pending \in Seq(Symbols) /\ split.text \in Seq(Symbols)
      /\ split.reasoning \in Seq(Symbols)
  BY DEF Split
<1>2. passed \in Seq(Symbols)
  BY <1>1
<1>3. rest \in Seq(Symbols) /\ Len(rest) = Len(split.pending) - n - gone
  <2>1. \A i \in (n + gone + 1)..Len(split.pending) : split.pending[i] \in Symbols
    BY <1>1
  <2>2. Len(split.pending) \in Nat /\ n + gone + 1 \in Int
    BY <1>1
  <2>3. /\ rest \in Seq(Symbols)
        /\ Len(rest) = IF n + gone + 1 <= Len(split.pending)
                        THEN Len(split.pending) - (n + gone + 1) + 1 ELSE 0
    BY <2>1, <2>2, SubSeqProperties
  <2> HIDE DEF rest
  <2>4. QED
    BY <2>2, <2>3
<1>4. text \in Seq(Symbols) /\ reasoning \in Seq(Symbols)
  <2> HIDE DEF passed
  <2>1. QED
    BY <1>1, <1>2
<1>5. Release(split, n, gone)
        = [split EXCEPT !.pending = rest, !.text = text, !.reasoning = reasoning]
  BY DEF Release
<1> HIDE DEF rest, text, reasoning, passed
<1>6. QED
  BY <1>3, <1>4, <1>5 DEF Split

LEMMA TogglesTyped ==
  ASSUME NEW close \in Closings \cup {Outside}, NEW tag \in Awaited(close)
  PROVE  Toggled(close, tag) \in Closings \cup {Outside}
<1>1. CASE close = Outside
  <2>1. \E p \in TagPairs : p[1] = tag
    BY <1>1 DEF Awaited
  <2>2. QED
    BY <1>1, <2>1 DEF Toggled, Closings
<1>2. CASE close # Outside
  BY <1>2 DEF Toggled
<1>3. QED
  BY <1>1, <1>2

Measure == [s \in Split |-> IF s.more THEN Len(s.pending) + 1 ELSE 0]

LEMMA MeasureTyped == Measure \in [Split -> Nat]
BY DEF Measure, Split

(* A turn of the loop stays in its states and brings it nearer to its end. *)
LEMMA PassTyped ==
  ASSUME NEW split \in Split
  PROVE  /\ Pass(split) \in Split
         /\ split.more => Measure[Pass(split)] < Measure[split]
<1> DEFINE text == split.pending
           tags == Awaited(split.close)
           first == Min(UNION {Found(text, t) : t \in tags})
           tag == CHOOSE t \in tags : first \in Found(text, t)
<1>1. text \in Seq(Symbols) /\ split.close \in Closings \cup {Outside} /\ tags \subseteq Tags
  BY TagsAreSequences DEF Split
<1>2. CASE \A t \in tags : Found(text, t) = {}
  <2> DEFINE n == Len(text) - HoldBack(text, tags)
             next == Release(split, n, 0)
  <2>1. n \in Nat /\ n + 0 <= Len(text)
    BY <1>1, HeldBack
  <2>2. next \in Split
    <3> HIDE DEF n
    <3>1. QED
      BY <2>1, Released
  <2>3. Pass(split) = [next EXCEPT !.more = FALSE]
    BY <1>2 DEF Pass
  <2> HIDE DEF next
  <2>4. Pass(split) \in Split /\ Pass(split).more = FALSE
    BY <2>2, <2>3 DEF Split
  <2>5. QED
    BY <1>1, <2>4 DEF Measure
<1>3. CASE ~(\A t \in tags : Found(text, t) = {})
  <2> DEFINE next == Release(split, first - 1, Len(tag))
  <2>1. tag \in tags /\ Len(tag) \in Nat \ {0} /\ first \in 1..(Len(text) - Len(tag) + 1)
    <3> HIDE DEF text, tags
    <3>1. QED
      BY <1>1, <1>3, FirstFound
  <2>2. Pass(split) = [next EXCEPT !.close = Toggled(@, tag)]
    BY <1>3 DEF Pass
  <2> HIDE DEF first, tag
  <2>3. Len(text) \in Nat /\ first - 1 \in Nat /\ (first - 1) + Len(tag) <= Len(text)
    BY <1>1, <2>1
  <2>4. /\ next \in Split /\ next.close = split.close /\ next.more = split.more
        /\ Len(next.pending) = Len(text) - (first - 1) - Len(tag)
    BY <2>1, <2>3, Released
  <2>5. Toggled(split.close, tag) \in Closings \cup {Outside}
    BY <1>1, <2>1, TogglesTyped
  <2> HIDE DEF next
  <2>6. Pass(split) \in Split /\ Pass(split).pending = next.pending /\ Pass(split).more = split.more
    BY <2>2, <2>4, <2>5 DEF Split
  <2>7. Len(next.pending) < Len(text)
    BY <2>1, <2>3, <2>4
  <2>8. Len(next.pending) \in Nat
    BY <2>4 DEF Split
  <2>9. QED
    BY <2>3, <2>6, <2>7, <2>8 DEF Measure
<1>4. QED
  BY <1>2, <1>3

(* What a chunk's text comes out as.                                       *)
LEMMA PushTyped ==
  ASSUME NEW splitter \in SplitterState, NEW input \in Seq(Symbols)
  PROVE  Push(splitter, input) \in Split /\ ~Push(splitter, input).more
<1> DEFINE start == [pending |-> splitter.pending \o input, close |-> splitter.close,
                     reasoning |-> <<>>, text |-> <<>>, more |-> TRUE]
           more == [s \in Split |-> s.more]
           next == [s \in Split |-> Pass(s)]
           loop == CHOOSE f : f = [s \in Split |-> IF s.more THEN f[Pass(s)] ELSE s]
<1>1. start \in Split
  BY DEF SplitterState, Split
<1>2. more \in [Split -> BOOLEAN] /\ next \in [Split -> Split]
  BY PassTyped DEF Split
<1>3. \A s \in Split : more[s] => Measure[next[s]] < Measure[s]
  BY PassTyped
<1>4. \A f : IsLoop(f, Split, more, next) <=> f = [s \in Split |-> IF s.more THEN f[Pass(s)] ELSE s]
  <2>1. ASSUME NEW f
        PROVE  [s \in Split |-> IF more[s] THEN f[next[s]] ELSE s]
                 = [s \in Split |-> IF s.more THEN f[Pass(s)] ELSE s]
    OBVIOUS
  <2>2. QED
    BY <2>1 DEF IsLoop
<1>5. Push(splitter, input) = loop[start]
  BY DEF Push
<1> HIDE DEF start, more, next
<1>6. IsLoop(loop, Split, more, next)
  <2>1. \E f : IsLoop(f, Split, more, next)
    BY <1>2, <1>3, MeasureTyped, LoopExists
  <2>2. QED
    BY <1>4, <2>1
<1> HIDE DEF loop
<1>7. loop[start] \in Split /\ ~more[loop[start]]
  <2>1. Measure \in [Split -> Nat]
    BY MeasureTyped
  <2> HIDE DEF Measure
  <2>2. \A s \in Split : loop[s] \in Split /\ ~more[loop[s]]
    BY <1>2, <1>3, <1>6, <2>1, LoopStays
  <2>3. QED
    BY <1>1, <2>2
<1>8. QED
  BY <1>5, <1>7 DEF more

-----------------------------------------------------------------------------
(* StreamState: the frames of a chunk, and the state after it.             *)

ToolKinds == {"toolInit", "toolInput", "toolStop"}
Channels == {"text", "reasoning"}

ContentFrames == [kind : Channels, text : Seq(Symbols \cup {Aside})]

Frames ==
  {Initial, Exception, MessageStop}
  \cup [kind : {"usage"}, value : Nat]
  \cup [kind : ToolKinds, tool : Tools, id : Ids \cup {NoId}, named : BOOLEAN]
  \cup ContentFrames

Named(f) == f.kind = "toolInit" /\ f.named

LEMMA ContentTyped ==
  ASSUME NEW channel \in Channels, NEW text \in Seq(Symbols \cup {Aside})
  PROVE  Content(channel, text) \in Seq(ContentFrames)
<1> DEFINE f == [kind |-> channel, text |-> text]
<1>1. f \in ContentFrames
  BY DEF ContentFrames
<1>2. Content(channel, text) = IF text = <<>> THEN <<>> ELSE <<f>>
  BY DEF Content
<1> HIDE DEF f
<1>3. QED
  BY <1>1, <1>2

LEMMA EntryTyped ==
  ASSUME NEW old \in Entries, NEW delta \in Deltas
  PROVE  /\ Entry(old, delta) \in Entries
         /\ old.id # NoId => Entry(old, delta).id = old.id
         /\ old.named => Entry(old, delta).named
BY DEF Entry, Entries, Deltas

(* What ToolFrames says of a tool call.                                    *)
SaysOf(old, delta) ==
  {f \in Frames :
     /\ f.kind \in {"toolInit", "toolInput"}
     /\ f.tool = delta.index
     /\ f.id = Entry(old, delta).id /\ f.named = Entry(old, delta).named
     /\ f.kind = "toolInit" => ~old.named /\ delta.name # "absent"}

LEMMA ToolFramesSay ==
  ASSUME NEW s \in TranslatorState, NEW delta \in Deltas
  PROVE  /\ ToolFrames(s, delta) \in Seq(SaysOf(s.tools[delta.index], delta))
         /\ \A k \in DOMAIN ToolFrames(s, delta) :
              ToolFrames(s, delta)[k].kind = "toolInit" => k = 1
<1> DEFINE old == s.tools[delta.index]
           new == Entry(old, delta)
           opening == delta.name # "absent" /\ ~old.named
           i == delta.index
           says == SaysOf(old, delta)
           init == ToolFrame("toolInit", i, new)
           input == ToolFrame("toolInput", i, new)
           first == IF opening THEN <<init>> ELSE <<>>
           second == IF delta.args THEN <<input>> ELSE <<>>
<1>1. old \in Entries /\ i \in Tools /\ new \in Entries
  BY EntryTyped DEF TranslatorState, Deltas
<1>2. ToolFrames(s, delta) = first \o second
  BY DEF ToolFrames
<1>3. opening => init \in says
  BY <1>1 DEF SaysOf, Frames, ToolFrame, Entries, ToolKinds
<1>4. input \in says /\ input.kind # "toolInit"
  BY <1>1 DEF SaysOf, Frames, ToolFrame, Entries, ToolKinds
<1> HIDE DEF init, input, says, opening
<1>5. first \in Seq(says) /\ second \in Seq(says)
  BY <1>3, <1>4
<1>6. Len(first) \in Nat /\ Len(first) <= 1 /\ Len(second) \in Nat
  OBVIOUS
<1>7. \A k \in DOMAIN second : second[k] = input
  OBVIOUS
<1> HIDE DEF first, second
<1>8. /\ first \o second \in Seq(says)
      /\ Len(first \o second) = Len(first) + Len(second)
      /\ \A k \in 1..(Len(first) + Len(second)) :
           (first \o second)[k] = IF k <= Len(first) THEN first[k] ELSE second[k - Len(first)]
  BY <1>5, ConcatProperties
<1>9. ASSUME NEW k \in DOMAIN (first \o second), (first \o second)[k].kind = "toolInit"
      PROVE  k = 1
  <2>1. k \in 1..(Len(first) + Len(second))
    BY <1>8
  <2>2. CASE k <= Len(first)
    <3>1. k \in Int /\ 1 <= k
      BY <1>6, <2>1
    <3>2. QED
      BY <1>6, <2>2, <3>1
  <2>3. CASE ~(k <= Len(first))
    <3>1. k - Len(first) \in 1..Len(second) /\ (first \o second)[k] = second[k - Len(first)]
      BY <1>6, <1>8, <2>1, <2>3
    <3>2. DOMAIN second = 1..Len(second)
      BY <1>5
    <3>3. QED
      BY <1>4, <1>7, <1>9, <3>1, <3>2
  <2>4. QED
    BY <2>2, <2>3
<1>10. QED
  BY <1>2, <1>8, <1>9 DEF says

(* A chunk's frames: those of its tool call, then content.                 *)
ChunkSays(s, payload) ==
  ContentFrames
  \cup (IF payload.tool = <<>> THEN {}
        ELSE SaysOf(s.tools[payload.tool[1].index], payload.tool[1]))

LEMMA ChunkFramesSay ==
  ASSUME NEW s \in TranslatorState, NEW payload \in Payloads, NEW split \in Split
  PROVE  /\ ChunkFrames(s, payload, split) \in Seq(ChunkSays(s, payload))
         /\ \A k \in DOMAIN ChunkFrames(s, payload, split) :
              ChunkFrames(s, payload, split)[k].kind = "toolInit" => k = 1
<1> DEFINE says == ChunkSays(s, payload)
           delta == payload.tool[1]
           calls == IF payload.tool = <<>> THEN <<>> ELSE ToolFrames(s, delta)
           aside == IF payload.reasoning THEN Content("reasoning", <<Aside>>) ELSE <<>>
           rest == aside \o Content("reasoning", split.reasoning) \o Content("text", split.text)
<1>1. payload.tool # <<>> => delta \in Deltas
  BY DEF Payloads
<1>2. calls \in Seq(says) /\ \A k \in DOMAIN calls : calls[k].kind = "toolInit" => k = 1
  <2>1. CASE payload.tool = <<>>
    BY <2>1
  <2>2. CASE payload.tool # <<>>
    <3> HIDE DEF delta
    <3>1. /\ ToolFrames(s, delta) \in Seq(SaysOf(s.tools[delta.index], delta))
          /\ \A k \in DOMAIN ToolFrames(s, delta) : ToolFrames(s, delta)[k].kind = "toolInit" => k = 1
      BY <1>1, <2>2, ToolFramesSay
    <3>2. SaysOf(s.tools[delta.index], delta) \subseteq says
      BY <2>2 DEF ChunkSays, delta
    <3> HIDE DEF says
    <3>3. ToolFrames(s, delta) \in Seq(says)
      BY <3>1, <3>2, SeqMonotonic
    <3>4. QED
      BY <2>2, <3>1, <3>3
  <2>3. QED
    BY <2>1, <2>2
<1>3. rest \in Seq(ContentFrames)
  <2>1. /\ <<Aside>> \in Seq(Symbols \cup {Aside})
        /\ split.reasoning \in Seq(Symbols \cup {Aside})
        /\ split.text \in Seq(Symbols \cup {Aside})
    BY DEF Split
  <2>2. "reasoning" \in Channels /\ "text" \in Channels
    BY DEF Channels
  <2>3. aside \in Seq(ContentFrames)
    <3>1. Content("reasoning", <<Aside>>) \in Seq(ContentFrames)
      BY <2>1, <2>2, ContentTyped
    <3>2. QED
      BY <3>1
  <2>4. Content("reasoning", split.reasoning) \in Seq(ContentFrames)
    BY <2>1, <2>2, ContentTyped
  <2>5. Content("text", split.text) \in Seq(ContentFrames)
    BY <2>1, <2>2, ContentTyped
  <2> HIDE DEF aside
  <2>6. QED
    BY <2>3, <2>4, <2>5
<1>4. rest \in Seq(says) /\ \A k \in DOMAIN rest : rest[k].kind # "toolInit"
  <2>1. ContentFrames \subseteq says
    BY DEF ChunkSays
  <2>2. \A f \in ContentFrames : f.kind # "toolInit"
    BY DEF ContentFrames, Channels
  <2> HIDE DEF rest, says
  <2>3. rest \in Seq(says)
    BY <1>3, <2>1, SeqMonotonic
  <2>4. QED
    BY <1>3, <2>2, <2>3
<1>5. ChunkFrames(s, payload, split) = calls \o rest
  <2>1. /\ calls \in Seq(says) /\ aside \in Seq(says)
        /\ Content("reasoning", split.reasoning) \in Seq(says)
        /\ Content("text", split.text) \in Seq(says)
    <3>1. /\ <<Aside>> \in Seq(Symbols \cup {Aside})
          /\ split.reasoning \in Seq(Symbols \cup {Aside})
          /\ split.text \in Seq(Symbols \cup {Aside})
          /\ "reasoning" \in Channels /\ "text" \in Channels
      BY DEF Split, Channels
    <3>2. /\ Content("reasoning", <<Aside>>) \in Seq(ContentFrames)
          /\ Content("reasoning", split.reasoning) \in Seq(ContentFrames)
          /\ Content("text", split.text) \in Seq(ContentFrames)
      <4>1. Content("reasoning", <<Aside>>) \in Seq(ContentFrames)
        BY <3>1, ContentTyped
      <4>2. Content("reasoning", split.reasoning) \in Seq(ContentFrames)
        BY <3>1, ContentTyped
      <4>3. Content("text", split.text) \in Seq(ContentFrames)
        BY <3>1, ContentTyped
      <4>4. QED
        BY <4>1, <4>2, <4>3
    <3>3. ContentFrames \subseteq says
      BY DEF ChunkSays
    <3>4. aside \in Seq(ContentFrames)
      BY <3>2
    <3> HIDE DEF aside, says, calls
    <3>5. aside \in Seq(says)
      BY <3>3, <3>4, SeqMonotonic
    <3>6. QED
      BY <1>2, <3>2, <3>3, <3>5, SeqMonotonic
  <2>2. ChunkFrames(s, payload, split)
          = calls \o aside \o Content("reasoning", split.reasoning) \o Content("text", split.text)
    BY DEF ChunkFrames
  <2> DEFINE u == Content("reasoning", split.reasoning)
             v == Content("text", split.text)
  <2> HIDE DEF calls, aside, u, v, says
  <2>3. calls \o aside \o u \o v = calls \o (aside \o u \o v)
    <3>1. /\ (calls \o aside) \o u = calls \o (aside \o u)
          /\ aside \o u \in Seq(says)
      BY <2>1, ConcatAssociative, ConcatProperties DEF u, v
    <3>2. (calls \o (aside \o u)) \o v = calls \o ((aside \o u) \o v)
      BY <2>1, <3>1, ConcatAssociative DEF u, v
    <3>3. QED
      BY <3>1, <3>2
  <2>4. QED
    BY <2>2, <2>3 DEF u, v
<1> HIDE DEF calls, rest, says
<1>6. /\ calls \o rest \in Seq(says)
      /\ Len(calls \o rest) = Len(calls) + Len(rest)
      /\ \A k \in 1..(Len(calls) + Len(rest)) :
           (calls \o rest)[k] = IF k <= Len(calls) THEN calls[k] ELSE rest[k - Len(calls)]
  BY <1>2, <1>4, ConcatProperties
<1>7. ASSUME NEW k \in DOMAIN (calls \o rest), (calls \o rest)[k].kind = "toolInit"
      PROVE  k = 1
  <2>1. k \in 1..(Len(calls) + Len(rest)) /\ Len(calls) \in Nat /\ Len(rest) \in Nat
        /\ DOMAIN calls = 1..Len(calls) /\ DOMAIN rest = 1..Len(rest)
    BY <1>2, <1>4, <1>6
  <2>2. CASE k <= Len(calls)
    BY <1>2, <1>6, <1>7, <2>1, <2>2
  <2>3. CASE ~(k <= Len(calls))
    <3>1. k - Len(calls) \in 1..Len(rest) /\ (calls \o rest)[k] = rest[k - Len(calls)]
      BY <1>6, <2>1, <2>3
    <3>2. QED
      BY <1>4, <1>7, <2>1, <3>1
  <2>4. QED
    BY <2>2, <2>3
<1>8. QED
  BY <1>5, <1>6, <1>7 DEF says

(* initial-response comes before the first frame there is.                 *)
Shifted(E, F, d) ==
  /\ Len(E) = Len(F) + d
  /\ \A k \in 1..Len(F) : E[k + d] = F[k]
  /\ d = 1 => E[1] = Initial

LEMMA EmitSays ==
  ASSUME NEW T, NEW F \in Seq(T), NEW s
  PROVE  /\ Emit(s, F) \in Seq(T \cup {Initial})
         /\ Emit(s, F) = <<>> <=> F = <<>>
         /\ F # <<>> /\ ~s.opened => Emit(s, F)[1] = Initial
         /\ \E d \in {0, 1} : Shifted(Emit(s, F), F, d)
<1>1. F \in Seq(T \cup {Initial})
  BY SeqMonotonic
<1>2. CASE s.opened \/ F = <<>>
  <2>1. Emit(s, F) = F
    BY <1>2 DEF Emit
  <2>2. Shifted(F, F, 0)
    BY DEF Shifted
  <2>3. QED
    BY <1>1, <1>2, <2>1, <2>2
<1>3. CASE ~(s.opened \/ F = <<>>)
  <2> DEFINE E == <<Initial>> \o F
             I == <<Initial>>
  <2>1. Emit(s, F) = I \o F
    BY <1>3 DEF Emit
  <2>2. I \in Seq(T \cup {Initial}) /\ Len(I) = 1 /\ I[1] = Initial
    BY DEF Initial
  <2> HIDE DEF I
  <2>3. /\ I \o F \in Seq(T \cup {Initial})
        /\ Len(I \o F) = Len(I) + Len(F)
        /\ \A i \in 1..(Len(I) + Len(F)) : (I \o F)[i] = IF i <= Len(I) THEN I[i] ELSE F[i - Len(I)]
    BY <1>1, <2>2, ConcatProperties
  <2>4. Len(F) \in Nat /\ Len(F) # 0
    BY <1>3
  <2>5. Len(I \o F) = Len(F) + 1 /\ (I \o F)[1] = Initial
    BY <2>2, <2>3, <2>4
  <2>6. \A k \in 1..Len(F) : (I \o F)[k + 1] = F[k]
    BY <2>2, <2>3, <2>4
  <2> HIDE DEF Initial
  <2>7. I \o F # <<>>
    BY <2>3, <2>4, <2>5
  <2>8. Shifted(I \o F, F, 1)
    BY <2>5, <2>6 DEF Shifted
  <2>9. QED
    BY <1>3, <2>1, <2>3, <2>5, <2>7, <2>8
<1>4. QED
  BY <1>2, <1>3

(* What a tool call's delta leaves in the state a.                         *)
NoteOf(s, d, a) ==
  /\ a.tools = [s.tools EXCEPT ![d.index] = Entry(s.tools[d.index], d)]
  /\ a.known = IF d.id # NoId \/ d.name # "absent" THEN s.known \cup {d.index} ELSE s.known
  /\ a.calls = TRUE

(* The state after a chunk, part by part.                                  *)
LEMMA AfterChunkParts ==
  ASSUME NEW s \in TranslatorState, NEW p \in Payloads, NEW n \in Nat, NEW split \in Split,
         NEW a, a = AfterChunk(s, p, n, split)
  PROVE  /\ a \in TranslatorState
         /\ a.opened = (s.opened \/ ChunkFrames(s, p, split) # <<>>)
         /\ a.usage = IF p.usage THEN n ELSE s.usage
         /\ p.tool = <<>> => a.tools = s.tools /\ a.known = s.known /\ a.calls = s.calls
         /\ p.tool # <<>> => p.tool[1] \in Deltas /\ NoteOf(s, p.tool[1], a)
<1> DEFINE d == p.tool[1]
           called == IF p.tool = <<>> THEN s ELSE WithDelta(s, d)
           F == ChunkFrames(s, p, split)
           thinking == [pending |-> split.pending, close |-> split.close]
           usage == IF p.usage THEN n ELSE called.usage
           opened == called.opened \/ F # <<>>
<1>1. p.tool # <<>> => d \in Deltas /\ d.index \in Tools
  <2>1. p.tool # <<>> => d \in Deltas
    BY DEF Payloads
  <2>2. \A x \in Deltas : x.index \in Tools
    BY DEF Deltas
  <2> HIDE DEF d
  <2>3. QED
    BY <2>1, <2>2
<1>2. thinking \in SplitterState /\ p.usage \in BOOLEAN
  BY DEF Split, SplitterState, Payloads
<1>3. /\ called \in TranslatorState
      /\ called.opened = s.opened /\ called.usage = s.usage
      /\ p.tool = <<>> => called.tools = s.tools /\ called.known = s.known /\ called.calls = s.calls
      /\ p.tool # <<>> =>
           /\ called.tools = [s.tools EXCEPT ![d.index] = Entry(s.tools[d.index], d)]
           /\ called.known = IF d.id # NoId \/ d.name # "absent"
                              THEN s.known \cup {d.index} ELSE s.known
           /\ called.calls = TRUE
  <2>1. CASE p.tool = <<>>
    BY <2>1
  <2>2. CASE p.tool # <<>>
    <3> DEFINE tools == [s.tools EXCEPT ![d.index] = Entry(s.tools[d.index], d)]
               known == IF d.id # NoId \/ d.name # "absent"
                          THEN s.known \cup {d.index} ELSE s.known
    <3> HIDE DEF d
    <3>1. s.tools \in [Tools -> Entries] /\ s.known \in SUBSET Tools
      BY DEF TranslatorState
    <3>2. Entry(s.tools[d.index], d) \in Entries
      BY <1>1, <2>2, <3>1, EntryTyped
    <3>3. tools \in [Tools -> Entries] /\ known \in SUBSET Tools
      BY <1>1, <2>2, <3>1, <3>2
    <3>4. called = [s EXCEPT !.calls = TRUE, !.tools = tools, !.known = known]
      BY <2>2 DEF WithDelta
    <3> HIDE DEF tools, known, called
    <3>5. /\ called \in TranslatorState
          /\ called.opened = s.opened /\ called.usage = s.usage
          /\ called.tools = tools /\ called.known = known /\ called.calls = TRUE
      BY <3>3, <3>4 DEF TranslatorState
    <3>6. QED
      BY <2>2, <3>5 DEF tools, known
  <2>3. QED
    BY <2>1, <2>2
<1>4. a = [called EXCEPT !.opened = opened, !.usage = usage, !.thinking = thinking]
  BY DEF AfterChunk, Emitted
<1>5. opened \in BOOLEAN
  OBVIOUS
<1>6. usage \in Nat /\ usage = IF p.usage THEN n ELSE s.usage
  <2> HIDE DEF called
  <2>1. QED
    BY <1>2, <1>3 DEF TranslatorState
<1>7. opened = (s.opened \/ F # <<>>)
  <2> HIDE DEF called
  <2>1. QED
    BY <1>3
<1> HIDE DEF called, opened, usage, thinking, d, F
<1>8. a \in TranslatorState
  BY <1>2, <1>3, <1>4, <1>5, <1>6 DEF TranslatorState
<1>9. /\ a.opened = opened /\ a.usage = usage /\ a.tools = called.tools
      /\ a.known = called.known /\ a.calls = called.calls
  BY <1>3, <1>4 DEF TranslatorState
<1>10. QED
  BY <1>1, <1>3, <1>6, <1>7, <1>8, <1>9 DEF d, F, NoteOf

-----------------------------------------------------------------------------
(* StreamState::finish.                                                    *)

(* A finite set of numbers can be gone through in ascending order.         *)
Ascending(S, order) ==
  order \in Bijection(1..Cardinality(S), S)
  /\ \A j, k \in DOMAIN order : j < k => order[j] < order[k]

LEMMA AscendingExists ==
  ASSUME NEW S, S \subseteq Nat, IsFiniteSet(S)
  PROVE  \E order : Ascending(S, order)
<1> DEFINE T == {n \in Nat : \A U \in SUBSET Nat :
                    IsFiniteSet(U) /\ Cardinality(U) = n => \E order : Ascending(U, order)}
<1>1. 0 \in T
  <2>1. ASSUME NEW U \in SUBSET Nat, IsFiniteSet(U), Cardinality(U) = 0
        PROVE  \E order : Ascending(U, order)
    <3>1. U = {} /\ 1..Cardinality(U) = {}
      BY <2>1, FS_EmptySet
    <3>2. Ascending(U, [i \in {} |-> 0])
      BY <3>1 DEF Ascending, Bijection, Injection, Surjection, IsInjective
    <3>3. QED
      BY <3>2
  <2>2. QED
    BY <2>1
<1>2. ASSUME NEW n \in Nat, n \in T
      PROVE  n + 1 \in T
  <2>1. ASSUME NEW U \in SUBSET Nat, IsFiniteSet(U), Cardinality(U) = n + 1
        PROVE  \E order : Ascending(U, order)
    <3>1. U # {}
      BY <2>1, FS_EmptySet
    <3>2. PICK x \in U : \A y \in U : x <= y
      BY <3>1, LeastNat
    <3> DEFINE V == U \ {x}
    <3>3. IsFiniteSet(V) /\ Cardinality(V) = n
      <4>1. IsFiniteSet(V) /\ Cardinality(V) = Cardinality(U) - 1
        BY <2>1, <3>2, FS_RemoveElement
      <4> HIDE DEF V
      <4>2. QED
        BY <2>1, <4>1
    <3>4. PICK rest : Ascending(V, rest)
      BY <1>2, <3>3
    <3>5. /\ rest \in [1..n -> V]
          /\ \A j, k \in 1..n : j < k => rest[j] < rest[k]
          /\ \A t \in V : \E j \in 1..n : rest[j] = t
      BY <3>3, <3>4 DEF Ascending, Bijection, Injection, Surjection
    <3> DEFINE order == [j \in 1..(n + 1) |-> IF j = 1 THEN x ELSE rest[j - 1]]
    <3>6. order[1] = x /\ \A j \in 1..n : order[j + 1] = rest[j]
      BY <1>2
    <3>7. order \in [1..(n + 1) -> U]
      BY <3>2, <3>5
    <3>8. ASSUME NEW j \in 1..(n + 1), NEW k \in 1..(n + 1), j < k
          PROVE  order[j] < order[k]
      <4>1. k - 1 \in 1..n /\ order[k] = rest[k - 1] /\ rest[k - 1] \in V
        BY <3>5, <3>8
      <4>2. CASE j = 1
        <5>1. order[j] = x /\ x \in Nat
          BY <3>2, <3>6, <4>2
        <5>2. x <= order[k] /\ x # order[k] /\ order[k] \in Nat
          BY <3>2, <4>1
        <5> HIDE DEF order
        <5>3. QED
          BY <5>1, <5>2
      <4>3. CASE j # 1
        <5>1. j - 1 \in 1..n /\ order[j] = rest[j - 1] /\ j - 1 < k - 1
          BY <3>8, <4>3
        <5> HIDE DEF order
        <5>2. QED
          BY <3>5, <4>1, <5>1
      <4>4. QED
        BY <4>2, <4>3
    <3>9. ASSUME NEW t \in U
          PROVE  \E j \in 1..(n + 1) : order[j] = t
      <4>1. CASE t = x
        BY <3>6, <4>1
      <4>2. CASE t # x
        <5>1. PICK j \in 1..n : rest[j] = t
          BY <3>5, <3>9, <4>2
        <5>2. j + 1 \in 1..(n + 1) /\ order[j + 1] = t
          BY <3>6, <5>1
        <5>3. QED
          BY <5>2
      <4>3. QED
        BY <4>1, <4>2
    <3> HIDE DEF order
    <3>10. DOMAIN order = 1..(n + 1)
      BY <3>7
    <3>11. \A j, k \in 1..(n + 1) : order[j] = order[k] => j = k
      <4>1. ASSUME NEW j \in 1..(n + 1), NEW k \in 1..(n + 1), order[j] = order[k]
            PROVE  j = k
        <5>1. order[j] \in Nat /\ order[k] \in Nat
          BY <3>7
        <5>2. ~(j < k) /\ ~(k < j)
          BY <3>8, <4>1, <5>1
        <5>3. QED
          BY <5>2
      <4>2. QED
        BY <4>1
    <3>12. order \in Bijection(1..(n + 1), U)
      BY <3>7, <3>9, <3>10, <3>11 DEF Bijection, Injection, Surjection, IsInjective
    <3>13. Ascending(U, order)
      BY <2>1, <3>8, <3>10, <3>12 DEF Ascending
    <3>14. QED
      BY <3>13
  <2>2. QED
    BY <2>1
<1>3. T = Nat
  <2>1. \A n \in Nat : n \in T => n + 1 \in T
    <3> HIDE DEF T
    <3>1. QED
      BY <1>2
  <2>2. T \subseteq Nat
    OBVIOUS
  <2> HIDE DEF T
  <2>3. QED
    BY <1>1, <2>1, <2>2, SetInduction
<1>4. QED
  <2>1. Cardinality(S) \in T
    BY <1>3, FS_CardinalityType
  <2>2. QED
    BY <2>1

LEMMA ByIndexCovers ==
  ASSUME NEW S, S \subseteq Nat, IsFiniteSet(S)
  PROVE  /\ Cardinality(S) \in Nat
         /\ ByIndex(S) \in [1..Cardinality(S) -> S]
         /\ \A j, k \in 1..Cardinality(S) : ByIndex(S)[j] = ByIndex(S)[k] => j = k
         /\ \A t \in S : \E j \in 1..Cardinality(S) : ByIndex(S)[j] = t
<1>1. \E order \in Bijection(1..Cardinality(S), S) :
        \A j, k \in DOMAIN order : j < k => order[j] < order[k]
  BY AscendingExists DEF Ascending
<1>2. ByIndex(S) \in Bijection(1..Cardinality(S), S)
  BY <1>1 DEF ByIndex
<1>3. Cardinality(S) \in Nat
  BY FS_CardinalityType
<1>4. QED
  BY <1>2, <1>3 DEF Bijection, Injection, Surjection, IsInjective

(* Frames of which a turn has at most one: a tool call's announcement with *)
(* its name, its stop, and the usage.                                      *)
Same(f, g) ==
  \/ f.kind = "usage" /\ g.kind = "usage"
  \/ f.kind = "toolStop" /\ g.kind = "toolStop" /\ f.tool = g.tool
  \/ Named(f) /\ Named(g) /\ f.tool = g.tool

Unlike(s) == \A j, k \in DOMAIN s : Same(s[j], s[k]) => j = k

LEMMA UnlikeConcat ==
  ASSUME NEW S, NEW s \in Seq(S), NEW t \in Seq(S), Unlike(s), Unlike(t),
         \A j \in DOMAIN s, k \in DOMAIN t : ~Same(s[j], t[k]) /\ ~Same(t[k], s[j])
  PROVE  Unlike(s \o t)
<1> DEFINE u == s \o t
<1>1. /\ u \in Seq(S) /\ Len(u) = Len(s) + Len(t)
      /\ \A i \in 1..(Len(s) + Len(t)) : u[i] = IF i <= Len(s) THEN s[i] ELSE t[i - Len(s)]
  BY ConcatProperties
<1>2. /\ Len(s) \in Nat /\ Len(t) \in Nat
      /\ DOMAIN s = 1..Len(s) /\ DOMAIN t = 1..Len(t) /\ DOMAIN u = 1..Len(u)
  BY <1>1
<1> HIDE DEF u
<1>3. ASSUME NEW j \in DOMAIN u, NEW k \in DOMAIN u, Same(u[j], u[k])
      PROVE  j = k
  <2>1. j \in Int /\ 1 <= j /\ k \in Int /\ 1 <= k /\ j <= Len(s) + Len(t) /\ k <= Len(s) + Len(t)
    BY <1>1, <1>2
  <2>2. CASE j <= Len(s) /\ k <= Len(s)
    <3>1. u[j] = s[j] /\ u[k] = s[k] /\ j \in DOMAIN s /\ k \in DOMAIN s
      BY <1>1, <1>2, <2>1, <2>2
    <3>2. Same(s[j], s[k])
      BY <1>3, <3>1
    <3>3. QED
      BY <3>1, <3>2 DEF Unlike
  <2>3. CASE j <= Len(s) /\ ~(k <= Len(s))
    <3>1. u[j] = s[j] /\ u[k] = t[k - Len(s)] /\ j \in DOMAIN s /\ k - Len(s) \in DOMAIN t
      BY <1>1, <1>2, <2>1, <2>3
    <3>2. Same(s[j], t[k - Len(s)])
      BY <1>3, <3>1
    <3>3. QED
      BY <3>1, <3>2
  <2>4. CASE ~(j <= Len(s)) /\ k <= Len(s)
    <3>1. u[k] = s[k] /\ u[j] = t[j - Len(s)] /\ k \in DOMAIN s /\ j - Len(s) \in DOMAIN t
      BY <1>1, <1>2, <2>1, <2>4
    <3>2. Same(t[j - Len(s)], s[k])
      BY <1>3, <3>1
    <3>3. QED
      BY <3>1, <3>2
  <2>5. CASE ~(j <= Len(s)) /\ ~(k <= Len(s))
    <3>1. /\ u[k] = t[k - Len(s)] /\ u[j] = t[j - Len(s)]
          /\ k - Len(s) \in DOMAIN t /\ j - Len(s) \in DOMAIN t
      BY <1>1, <1>2, <2>1, <2>5
    <3>2. Same(t[j - Len(s)], t[k - Len(s)])
      BY <1>3, <3>1
    <3>3. j - Len(s) = k - Len(s)
      BY <3>1, <3>2 DEF Unlike
    <3>4. QED
      BY <1>2, <2>1, <3>3
  <2>6. QED
    BY <2>2, <2>3, <2>4, <2>5
<1>4. QED
  BY <1>3 DEF Unlike, u

(* The stop of each tool call, and the usage, that a turn ends with.       *)
StopFrame(s, t) == ToolFrame("toolStop", t, s.tools[t])
EndUsage(s) == IF s.usage # 0 THEN {UsageFrame(s.usage)} ELSE {}
EndStops(s) == IF s.calls THEN {StopFrame(s, t) : t \in s.known} ELSE {}

LEMMA ToolStopsSay ==
  ASSUME NEW s \in TranslatorState, IsFiniteSet(s.known)
  PROVE  /\ ToolStops(s) \in Seq({StopFrame(s, t) : t \in s.known})
         /\ Unlike(ToolStops(s))
         /\ \A t \in s.known : \E k \in DOMAIN ToolStops(s) : ToolStops(s)[k] = StopFrame(s, t)
<1> DEFINE order == ByIndex(s.known)
           n == Cardinality(s.known)
           stops == {StopFrame(s, t) : t \in s.known}
<1>1. s.known \subseteq Nat
  BY ToolsAssumption DEF TranslatorState
<1>2. /\ n \in Nat /\ order \in [1..n -> s.known]
      /\ \A j, k \in 1..n : order[j] = order[k] => j = k
      /\ \A t \in s.known : \E j \in 1..n : order[j] = t
  BY <1>1, ByIndexCovers
<1>3. ToolStops(s) = [j \in 1..n |-> StopFrame(s, order[j])]
  <2>1. DOMAIN order = 1..n
    BY <1>2
  <2>2. ToolStops(s) = [j \in DOMAIN order |-> StopFrame(s, order[j])]
    BY DEF ToolStops, StopFrame
  <2>3. QED
    BY <2>1, <2>2
<1> HIDE DEF order, n
<1>4. ToolStops(s) \in Seq(stops)
  <2>1. ToolStops(s) \in [1..n -> stops]
    BY <1>2, <1>3
  <2>2. QED
    BY <1>2, <2>1, SeqDef
<1>5. DOMAIN ToolStops(s) = 1..n
  BY <1>3
<1>6. ASSUME NEW j \in 1..n, NEW k \in 1..n, Same(ToolStops(s)[j], ToolStops(s)[k])
      PROVE  j = k
  <2>1. ToolStops(s)[j] = StopFrame(s, order[j]) /\ ToolStops(s)[k] = StopFrame(s, order[k])
    BY <1>3
  <2>2. order[j] = order[k]
    BY <1>6, <2>1 DEF Same, StopFrame, ToolFrame, Named
  <2>3. QED
    BY <1>2, <2>2
<1>7. ASSUME NEW t \in s.known
      PROVE  \E k \in DOMAIN ToolStops(s) : ToolStops(s)[k] = StopFrame(s, t)
  <2>1. PICK j \in 1..n : order[j] = t
    BY <1>2
  <2>2. ToolStops(s)[j] = StopFrame(s, t)
    BY <1>3, <2>1
  <2>3. QED
    BY <1>5, <2>2
<1>8. QED
  BY <1>4, <1>5, <1>6, <1>7 DEF Unlike

LEMMA RestTyped ==
  ASSUME NEW s \in TranslatorState
  PROVE  Rest(s) \in Seq(ContentFrames)
<1> DEFINE rest == Flush(s.thinking)
<1>1. rest.reasoning \in Seq(Symbols \cup {Aside}) /\ rest.text \in Seq(Symbols \cup {Aside})
  <2>1. s.thinking.pending \in Seq(Symbols)
    BY DEF TranslatorState, SplitterState
  <2>2. s.thinking.pending \in Seq(Symbols \cup {Aside})
    BY <2>1
  <2>3. QED
    BY <2>2 DEF Flush
<1> HIDE DEF rest
<1>2. Content("reasoning", rest.reasoning) \in Seq(ContentFrames)
  BY <1>1, ContentTyped DEF Channels
<1>3. Content("text", rest.text) \in Seq(ContentFrames)
  BY <1>1, ContentTyped DEF Channels
<1>4. Rest(s) = Content("reasoning", rest.reasoning) \o Content("text", rest.text)
  BY DEF Rest, rest
<1>5. QED
  BY <1>2, <1>3, <1>4

LEMMA FinishFramesSay ==
  ASSUME NEW s \in TranslatorState, IsFiniteSet(s.known)
  PROVE  \E body \in Seq(ContentFrames \cup EndStops(s) \cup EndUsage(s)) :
           /\ FinishFrames(s) = body \o <<MessageStop>>
           /\ Unlike(body)
           /\ \A f \in EndStops(s) \cup EndUsage(s) : \E k \in DOMAIN body : body[k] = f
<1> DEFINE says == ContentFrames \cup EndStops(s) \cup EndUsage(s)
           rest == Rest(s)
           stops == IF s.calls THEN ToolStops(s) ELSE <<>>
           usage == IF s.usage # 0 THEN <<UsageFrame(s.usage)>> ELSE <<>>
           ahead == rest \o stops
           body == ahead \o usage
<1>1. rest \in Seq(says) /\ \A k \in DOMAIN rest : rest[k].kind \in Channels
  <2>1. rest \in Seq(ContentFrames)
    BY RestTyped
  <2>2. ContentFrames \subseteq says
    OBVIOUS
  <2>3. \A f \in ContentFrames : f.kind \in Channels
    BY DEF ContentFrames
  <2> HIDE DEF rest, says
  <2>4. QED
    BY <2>1, <2>2, <2>3, SeqMonotonic
<1>2. /\ stops \in Seq(says) /\ Unlike(stops)
      /\ \A k \in DOMAIN stops : stops[k] \in EndStops(s)
      /\ \A f \in EndStops(s) : \E k \in DOMAIN stops : stops[k] = f
  <2>1. CASE s.calls
    <3>1. stops = ToolStops(s) /\ EndStops(s) = {StopFrame(s, t) : t \in s.known}
      BY <2>1 DEF EndStops
    <3>2. stops \in Seq(EndStops(s)) /\ Unlike(stops)
      BY <3>1, ToolStopsSay
    <3>3. \A f \in EndStops(s) : \E k \in DOMAIN stops : stops[k] = f
      BY <3>1, ToolStopsSay
    <3>4. EndStops(s) \subseteq says
      OBVIOUS
    <3> HIDE DEF stops, says
    <3>5. stops \in Seq(says) /\ \A k \in DOMAIN stops : stops[k] \in EndStops(s)
      BY <3>2, <3>4, SeqMonotonic
    <3>6. QED
      BY <3>2, <3>3, <3>5
  <2>2. CASE ~s.calls
    <3>1. stops = <<>> /\ EndStops(s) = {}
      BY <2>2 DEF EndStops
    <3> HIDE DEF stops, says
    <3>2. QED
      BY <3>1 DEF Unlike
  <2>3. QED
    BY <2>1, <2>2
<1>3. /\ usage \in Seq(says) /\ Unlike(usage)
      /\ \A k \in DOMAIN usage : usage[k] \in EndUsage(s)
      /\ \A f \in EndUsage(s) : \E k \in DOMAIN usage : usage[k] = f
  <2>1. CASE s.usage # 0
    <3> DEFINE f == UsageFrame(s.usage)
    <3>1. usage = <<f>> /\ EndUsage(s) = {f} /\ f \in says
      BY <2>1 DEF EndUsage
    <3> HIDE DEF usage, says, f
    <3>2. DOMAIN usage = {1} /\ usage[1] = f /\ usage \in Seq(says)
      BY <3>1
    <3>3. QED
      BY <3>1, <3>2 DEF Unlike
  <2>2. CASE s.usage = 0
    <3>1. usage = <<>> /\ EndUsage(s) = {}
      BY <2>2 DEF EndUsage
    <3> HIDE DEF usage, says
    <3>2. QED
      BY <3>1 DEF Unlike
  <2>3. QED
    BY <2>1, <2>2
<1>4. /\ \A f \in EndStops(s) : f.kind = "toolStop"
      /\ \A f \in EndUsage(s) : f.kind = "usage"
  BY DEF EndStops, EndUsage, StopFrame, ToolFrame, UsageFrame
<1> HIDE DEF rest, stops, usage, says
<1>5. Unlike(rest)
  BY <1>1 DEF Unlike, Same, Named, Channels
<1>6. ahead \in Seq(says) /\ Unlike(ahead)
  <2>1. \A j \in DOMAIN rest, k \in DOMAIN stops : ~Same(rest[j], stops[k]) /\ ~Same(stops[k], rest[j])
    BY <1>1, <1>2, <1>4 DEF Same, Named, Channels
  <2>2. QED
    BY <1>1, <1>2, <1>5, <2>1, UnlikeConcat
<1>7. /\ Len(ahead) = Len(rest) + Len(stops)
      /\ \A i \in 1..(Len(rest) + Len(stops)) : ahead[i] = IF i <= Len(rest) THEN rest[i] ELSE stops[i - Len(rest)]
      /\ Len(rest) \in Nat /\ Len(stops) \in Nat
      /\ DOMAIN rest = 1..Len(rest) /\ DOMAIN stops = 1..Len(stops)
  BY <1>1, <1>2, ConcatProperties
<1>8. DOMAIN ahead = 1..Len(ahead)
  BY <1>6
<1>9. \A k \in DOMAIN ahead : ahead[k].kind \in Channels \cup {"toolStop"}
  <2>1. ASSUME NEW k \in DOMAIN ahead
        PROVE  ahead[k].kind \in Channels \cup {"toolStop"}
    <3> HIDE DEF ahead
    <3>1. k \in Int /\ 1 <= k /\ k <= Len(rest) + Len(stops)
      BY <1>7, <1>8
    <3>2. CASE k <= Len(rest)
      BY <1>1, <1>7, <3>1, <3>2
    <3>3. CASE ~(k <= Len(rest))
      <4>1. k - Len(rest) \in DOMAIN stops /\ ahead[k] = stops[k - Len(rest)]
        BY <1>7, <3>1, <3>3
      <4>2. QED
        BY <1>2, <1>4, <4>1
    <3>4. QED
      BY <3>2, <3>3
  <2>2. QED
    BY <2>1
<1>10. \A f \in EndStops(s) : \E k \in DOMAIN ahead : ahead[k] = f
  <2>1. ASSUME NEW f \in EndStops(s)
        PROVE  \E k \in DOMAIN ahead : ahead[k] = f
    <3>1. PICK j \in DOMAIN stops : stops[j] = f
      BY <1>2
    <3> HIDE DEF ahead
    <3>2. j + Len(rest) \in DOMAIN ahead /\ ahead[j + Len(rest)] = f
      BY <1>7, <1>8, <3>1
    <3>3. QED
      BY <3>2
  <2>2. QED
    BY <2>1
<1> HIDE DEF ahead
<1>11. body \in Seq(says) /\ Unlike(body)
  <2>1. \A j \in DOMAIN ahead, k \in DOMAIN usage : ~Same(ahead[j], usage[k]) /\ ~Same(usage[k], ahead[j])
    BY <1>3, <1>4, <1>9 DEF Same, Named, Channels
  <2>2. QED
    BY <1>3, <1>6, <2>1, UnlikeConcat
<1>12. /\ Len(body) = Len(ahead) + Len(usage)
       /\ \A i \in 1..(Len(ahead) + Len(usage)) : body[i] = IF i <= Len(ahead) THEN ahead[i] ELSE usage[i - Len(ahead)]
       /\ Len(ahead) \in Nat /\ Len(usage) \in Nat
       /\ DOMAIN body = 1..Len(body) /\ DOMAIN usage = 1..Len(usage)
  BY <1>3, <1>6, ConcatProperties
<1>13. \A f \in EndStops(s) \cup EndUsage(s) : \E k \in DOMAIN body : body[k] = f
  <2>1. ASSUME NEW f \in EndStops(s)
        PROVE  \E k \in DOMAIN body : body[k] = f
    <3>1. PICK j \in DOMAIN ahead : ahead[j] = f
      BY <1>10
    <3> HIDE DEF body
    <3>2. j \in DOMAIN body /\ body[j] = f
      BY <1>8, <1>12, <3>1
    <3>3. QED
      BY <3>2
  <2>2. ASSUME NEW f \in EndUsage(s)
        PROVE  \E k \in DOMAIN body : body[k] = f
    <3>1. PICK j \in DOMAIN usage : usage[j] = f
      BY <1>3
    <3> HIDE DEF body
    <3>2. j + Len(ahead) \in DOMAIN body /\ body[j + Len(ahead)] = f
      BY <1>12, <3>1
    <3>3. QED
      BY <3>2
  <2>3. QED
    BY <2>1, <2>2
<1>14. FinishFrames(s) = body \o <<MessageStop>>
  BY DEF FinishFrames, body, ahead, rest, stops, usage
<1> HIDE DEF body
<1>15. QED
  BY <1>11, <1>13, <1>14 DEF says

-----------------------------------------------------------------------------
(* The types of a turn's parts, and what each of its phases has left.      *)

Typed ==
  /\ asked \in Asks \cup {Spent}
  /\ request = Spent <=> pc # "calling"
  /\ pc \in {"translating", "calling", "selecting", "feeding", "flushing", "finishing", "failing", "done"}
  /\ line \in Seq(Chunks) /\ Len(line) \leq 1
  /\ todo \in Seq(Chunks)
  /\ st \in TranslatorState /\ IsFiniteSet(st.known)
  /\ out \in Seq(Frames)
  /\ wire \in Seq(Frames)
  /\ read \in 0..Len(wire) /\ Len(wire) - read \leq Depth
  /\ client \in {"reading", "gone", "refused", "finished"}
  /\ told \in Seq(Chunks) /\ Len(told) \leq MaxPayloads
  /\ Len(line) + Len(todo) \leq Len(told)
  /\ pc \in {"translating", "calling", "selecting"} => todo = <<>> /\ out = <<>>
  /\ pc \in {"translating", "calling"} => wire = <<>> /\ line = <<>>
  /\ pc \in {"flushing", "finishing"} => line = <<>>
  /\ pc \in {"finishing", "failing"} => todo = <<>>
  /\ pc = "done" => out = <<>>

LEMMA TypedGivesTypes == Typed => TypeOK
BY DEF Typed, TypeOK

LEMMA InitTyped == Init => Typed
<1> SUFFICES ASSUME Init PROVE Typed
  OBVIOUS
<1>1. st \in TranslatorState
  <2>1. Blank \in Entries
    BY DEF Blank, Entries
  <2>2. [i \in Tools |-> Blank] \in [Tools -> Entries]
    BY <2>1
  <2>3. [pending |-> <<>>, close |-> Outside] \in SplitterState
    BY DEF SplitterState
  <2>4. QED
    BY <2>2, <2>3 DEF Init, Fresh, TranslatorState
<1>2. IsFiniteSet(st.known)
  <2>1. st.known = {}
    BY DEF Init, Fresh
  <2>2. QED
    BY <2>1, FS_EmptySet
<1>3. QED
  BY <1>1, <1>2, BoundsAssumption DEF Init, Typed, Spent

(* A read adds its payloads to what is told; all but an unfinished line of *)
(* them are to be fed.                                                     *)
LEMMA ReceiveParts ==
  ASSUME Typed, Receive
  PROVE  \E came \in Seq(Chunks) :
           /\ came # <<>> /\ told' = told \o came /\ Len(told) + Len(came) \leq MaxPayloads
           /\ \/ todo' = line \o came /\ line' = <<>>
              \/ todo' = line \o Front(came) /\ line' = <<Last(came)>>
           /\ pc = "selecting" /\ pc' = "feeding"
           /\ UNCHANGED <<turn, st, out, wire, read, client>>
<1>1. PICK came \in BoundedSeq(Chunks, 2) \ {<<>>}, whole \in BOOLEAN :
        /\ Len(told) + Len(came) \leq MaxPayloads
        /\ told' = told \o came
        /\ todo' = line \o (IF whole THEN came ELSE Front(came))
        /\ line' = IF whole THEN <<>> ELSE <<Last(came)>>
  BY DEF Receive
<1>2. came \in Seq(Chunks)
  <2>1. PICK m \in 0..2 : came \in [1..m -> Chunks]
    BY <1>1 DEF BoundedSeq, SeqOf
  <2>2. QED
    BY <2>1, SeqDef
<1>3. QED
  BY <1>1, <1>2 DEF Receive

(* Feeding a payload: the frames it gives and the state it leaves.         *)
LEMMA FeedParts ==
  ASSUME Typed, Feed
  PROVE  \E p \in Payloads, split \in Split, F \in Seq(Frames) :
           /\ p = todo[1] /\ todo # <<>>
           /\ F = ChunkFrames(st, p, split)
           /\ F \in Seq(ChunkSays(st, p))
           /\ out' = Emit(st, F) /\ out' \in Seq(Frames)
           /\ Turn \in Nat \ {0}
           /\ st' = AfterChunk(st, p, Turn, split) /\ st' \in TranslatorState
<1> DEFINE p == Head(todo)
           split == Push(st.thinking, p.content)
           F == ChunkFrames(st, p, split)
<1>1. todo \in Seq(Chunks) /\ todo # <<>> /\ st \in TranslatorState
  BY DEF Typed, Feed
<1>2. p = todo[1] /\ p \in Payloads
  BY <1>1, ChunksAssumption
<1>3. split \in Split
  <2>1. p.content \in Seq(Symbols) /\ st.thinking \in SplitterState
    BY <1>1, <1>2 DEF Payloads, TranslatorState
  <2> HIDE DEF p
  <2>2. QED
    BY <2>1, PushTyped
<1>4. out' = Emit(st, F) /\ st' = AfterChunk(st, p, Turn, split)
  BY DEF Feed
<1>5. Turn \in Nat \ {0}
  <2>1. Len(told) \in Nat /\ Len(line) \in Nat /\ Len(todo) \in Nat /\ Len(line) + Len(todo) \leq Len(told)
    BY DEF Typed
  <2>2. QED
    BY <2>1 DEF Turn
<1> HIDE DEF p, split
<1>6. F \in Seq(ChunkSays(st, p))
  BY <1>1, <1>2, <1>3, ChunkFramesSay
<1>7. ChunkSays(st, p) \subseteq Frames
  BY DEF ChunkSays, SaysOf, Frames
<1> HIDE DEF F
<1>8. F \in Seq(Frames) /\ Emit(st, F) \in Seq(Frames)
  <2>1. F \in Seq(Frames)
    BY <1>6, <1>7, SeqMonotonic
  <2>2. Emit(st, F) \in Seq(Frames \cup {Initial})
    BY <2>1, EmitSays
  <2>3. Frames \cup {Initial} = Frames
    BY DEF Frames
  <2>4. QED
    BY <2>1, <2>2, <2>3
<1>9. AfterChunk(st, p, Turn, split) \in TranslatorState
  BY <1>1, <1>2, <1>3, <1>5, AfterChunkParts
<1>10. QED
  BY <1>1, <1>2, <1>3, <1>4, <1>5, <1>6, <1>8, <1>9 DEF F

(* Finishing: content, stops, usage, and at the very end messageStop.      *)
LEMMA FinishParts ==
  ASSUME Typed, Finish
  PROVE  \E body \in Seq(ContentFrames \cup EndStops(st) \cup EndUsage(st)) :
           /\ body \in Seq(Frames)
           /\ Unlike(body)
           /\ \A f \in EndStops(st) \cup EndUsage(st) : \E k \in DOMAIN body : body[k] = f
           /\ out' = Emit(st, body \o <<MessageStop>>) /\ out' \in Seq(Frames)
           /\ st' \in TranslatorState
           /\ st'.tools = st.tools /\ st'.known = st.known
           /\ st'.calls = st.calls /\ st'.usage = st.usage
<1>1. st \in TranslatorState /\ IsFiniteSet(st.known)
  BY DEF Typed
<1> DEFINE says == ContentFrames \cup EndStops(st) \cup EndUsage(st)
<1>2. PICK body \in Seq(says) :
           /\ FinishFrames(st) = body \o <<MessageStop>>
           /\ Unlike(body)
           /\ \A f \in EndStops(st) \cup EndUsage(st) : \E k \in DOMAIN body : body[k] = f
  BY <1>1, FinishFramesSay
<1>3. says \subseteq Frames
  <2>1. EndStops(st) \subseteq Frames
    <3>1. ASSUME NEW t \in st.known
          PROVE  StopFrame(st, t) \in Frames
      <4>1. t \in Tools /\ st.tools[t] \in Entries
        BY <1>1 DEF TranslatorState
      <4>2. QED
        BY <4>1 DEF StopFrame, ToolFrame, Frames, ToolKinds, Entries
    <3>2. QED
      BY <3>1 DEF EndStops
  <2>2. EndUsage(st) \subseteq Frames
    BY <1>1 DEF EndUsage, UsageFrame, Frames, TranslatorState
  <2>3. QED
    BY <2>1, <2>2 DEF Frames
<1> HIDE DEF says
<1>4. body \in Seq(Frames)
  BY <1>2, <1>3, SeqMonotonic
<1>5. body \o <<MessageStop>> \in Seq(Frames)
  <2>1. <<MessageStop>> \in Seq(Frames)
    BY DEF Frames
  <2>2. QED
    BY <1>4, <2>1
<1>6. Emit(st, FinishFrames(st)) \in Seq(Frames)
  <2>1. Frames \cup {Initial} = Frames
    BY DEF Frames
  <2>2. QED
    BY <1>2, <1>5, <2>1, EmitSays
<1>7. out' = Emit(st, FinishFrames(st))
      /\ st' = [Emitted(st, FinishFrames(st)) EXCEPT !.thinking = Fresh.thinking]
  BY DEF Finish
<1>8. /\ st' \in TranslatorState
      /\ st'.tools = st.tools /\ st'.known = st.known
      /\ st'.calls = st.calls /\ st'.usage = st.usage
  <2> DEFINE opened == st.opened \/ FinishFrames(st) # <<>>
             thinking == Fresh.thinking
  <2>1. st' = [st EXCEPT !.opened = opened, !.thinking = thinking]
    BY <1>7 DEF Emitted
  <2>2. thinking \in SplitterState /\ opened \in BOOLEAN
    BY DEF Fresh, SplitterState
  <2> HIDE DEF opened, thinking
  <2>3. QED
    BY <1>1, <2>1, <2>2 DEF TranslatorState
<1>9. QED
  BY <1>2, <1>4, <1>6, <1>7, <1>8 DEF says

(* What is put on the stream is what is left over of it.                   *)
LEMMA SendParts ==
  ASSUME Typed, Send
  PROVE  /\ wire' \in Seq(Frames) /\ out' \in Seq(Frames)
         /\ Len(wire') = Len(wire) + 1
         /\ wire' = wire \o <<out[1]>>
         /\ wire' \o out' = wire \o out
<1>1. wire \in Seq(Frames) /\ out \in Seq(Frames) /\ out # <<>>
  BY DEF Typed, Send
<1>2. wire' = Append(wire, Head(out)) /\ out' = Tail(out) /\ Head(out) \in Frames
  BY <1>1 DEF Send
<1>3. /\ wire' \in Seq(Frames) /\ out' \in Seq(Frames) /\ Len(wire') = Len(wire) + 1
      /\ wire' = wire \o <<out[1]>>
  BY <1>1, <1>2
<1>4. out = <<out[1]>> \o out'
  BY <1>1, <1>2
<1>5. <<out[1]>> \in Seq(Frames)
  BY <1>1, <1>2
<1>6. (wire \o <<out[1]>>) \o out' = wire \o (<<out[1]>> \o out')
  BY <1>1, <1>3, <1>5, ConcatAssociative
<1>7. QED
  BY <1>3, <1>4, <1>6

LEMMA TypedKept ==
  ASSUME Typed, [Next]_vars
  PROVE  Typed'
<1>1. CASE UNCHANGED vars
  BY <1>1 DEF vars, turn, Typed
<1>2. CASE Translate
  <2>1. ChatRequest(asked) # Spent
    BY DEF ChatRequest, Spent
  <2> DEFINE r == ChatRequest(asked)
  <2>2. request' = r /\ r # Spent
    BY <1>2, <2>1 DEF Translate
  <2> HIDE DEF r
  <2>3. QED
    BY <1>2, <2>2 DEF Translate, Typed
<1>3. CASE Refuse
  BY <1>3 DEF Refuse, Typed
<1>4. CASE CallFails
  <2>1. wire' \in Seq(Frames) /\ Len(wire') = 2
    <3>1. Initial \in Frames /\ Exception \in Frames
      BY DEF Frames
    <3>2. wire' = <<Initial, Exception>>
      BY <1>4 DEF CallFails
    <3> HIDE DEF Initial, Exception
    <3>3. QED
      BY <3>1, <3>2
  <2>2. wire = <<>> /\ read = 0 /\ read' = read /\ out' = out
    BY <1>4 DEF CallFails, Typed
  <2>3. read' \in 0..Len(wire') /\ Len(wire') - read' \leq Depth
    BY <2>1, <2>2, BoundsAssumption
  <2>4. QED
    BY <1>4, <2>1, <2>3 DEF CallFails, Typed
<1>5. CASE CallSucceeds
  BY <1>5 DEF CallSucceeds, Typed
<1>6. CASE CallDropped
  BY <1>6 DEF CallDropped, Typed
<1>7. CASE Abandon
  BY <1>7 DEF Abandon, Typed, turn
<1>8. CASE Receive
  <2>1. PICK came \in Seq(Chunks) :
           /\ came # <<>> /\ told' = told \o came /\ Len(told) + Len(came) \leq MaxPayloads
           /\ \/ todo' = line \o came /\ line' = <<>>
              \/ todo' = line \o Front(came) /\ line' = <<Last(came)>>
           /\ pc = "selecting" /\ pc' = "feeding"
           /\ UNCHANGED <<turn, st, out, wire, read, client>>
    BY <1>8, ReceiveParts
  <2>2. /\ Last(came) \in Chunks /\ Front(came) \in Seq(Chunks)
        /\ Len(Front(came)) = Len(came) - 1 /\ Len(came) \in Nat \ {0}
    BY <2>1, LastOf, FrontOf
  <2>3. told' \in Seq(Chunks) /\ Len(told') = Len(told) + Len(came)
    BY <2>1 DEF Typed
  <2>4. /\ line' \in Seq(Chunks) /\ Len(line') \leq 1 /\ todo' \in Seq(Chunks)
        /\ Len(line') + Len(todo') \leq Len(told')
    <3>1. line \in Seq(Chunks) /\ Len(line) \in Nat /\ Len(line) \leq Len(told) /\ Len(told) \in Nat
      <4>1. Len(todo) \in Nat
        BY DEF Typed
      <4>2. QED
        BY <4>1 DEF Typed
    <3>2. CASE todo' = line \o came /\ line' = <<>>
      BY <2>1, <2>3, <3>1, <3>2
    <3>3. CASE todo' = line \o Front(came) /\ line' = <<Last(came)>>
      <4> DEFINE last == Last(came)
                 front == Front(came)
      <4>1. last \in Chunks /\ front \in Seq(Chunks) /\ Len(front) = Len(came) - 1
        BY <2>2
      <4>2. todo' = line \o front /\ line' = <<last>>
        BY <3>3
      <4> HIDE DEF last, front
      <4>3. line' \in Seq(Chunks) /\ Len(line') = 1
        BY <4>1, <4>2
      <4>4. todo' \in Seq(Chunks) /\ Len(todo') = Len(line) + Len(front)
        <5>1. line \o front \in Seq(Chunks) /\ Len(line \o front) = Len(line) + Len(front)
          BY <3>1, <4>1, ConcatProperties
        <5>2. QED
          BY <4>2, <5>1
      <4>5. QED
        BY <2>2, <2>3, <3>1, <4>1, <4>3, <4>4
    <3>4. QED
      BY <2>1, <3>2, <3>3
  <2>5. QED
    BY <2>1, <2>3, <2>4 DEF Typed, turn
<1>9. CASE Feed
  <2>1. out' \in Seq(Frames) /\ st' \in TranslatorState /\ todo # <<>>
    BY <1>9, FeedParts
  <2>2. IsFiniteSet(st'.known)
    <3>1. PICK p \in Payloads, split \in Split, F \in Seq(Frames) :
            Turn \in Nat \ {0} /\ st' = AfterChunk(st, p, Turn, split)
      BY <1>9, FeedParts
    <3>2. st \in TranslatorState /\ IsFiniteSet(st.known)
      BY DEF Typed
    <3>3. st'.known = st.known \/ st'.known = st.known \cup {p.tool[1].index}
      <4> DEFINE n == Turn
                 a == st'
      <4>1. n \in Nat /\ a = AfterChunk(st, p, n, split)
        BY <3>1
      <4> HIDE DEF n, a
      <4>2. CASE p.tool = <<>>
        <5>1. a.known = st.known
          BY <3>2, <4>1, <4>2, AfterChunkParts
        <5>2. QED
          BY <5>1 DEF a
      <4>3. CASE p.tool # <<>>
        <5>1. NoteOf(st, p.tool[1], a)
          BY <3>2, <4>1, <4>3, AfterChunkParts
        <5>2. a.known = st.known \/ a.known = st.known \cup {p.tool[1].index}
          BY <5>1 DEF NoteOf
        <5>3. QED
          BY <5>2 DEF a
      <4>4. QED
        BY <4>2, <4>3
    <3> DEFINE i == p.tool[1].index
    <3>4. IsFiniteSet(st.known \cup {i})
      <4> HIDE DEF i
      <4>1. QED
        BY <3>2, FS_AddElement
    <3>5. QED
      BY <3>2, <3>3, <3>4
  <2>3. todo' \in Seq(Chunks) /\ Len(todo') = Len(todo) - 1 /\ Len(todo) \in Nat \ {0} /\ Len(line) \in Nat
    BY <1>9, <2>1 DEF Typed, Feed
  <2>4. Len(line) + Len(todo') \leq Len(told)
    BY <2>3 DEF Typed
  <2>5. UNCHANGED <<turn, pc, line, wire, read, client, told>> /\ pc \in {"feeding", "flushing"}
    BY <1>9 DEF Feed
  <2>6. QED
    BY <2>1, <2>2, <2>3, <2>4, <2>5 DEF Typed, turn
<1>10. CASE Fed
  BY <1>10 DEF Fed, Typed, turn
<1>11. CASE UpstreamFails
  <2>1. out' \in Seq(Frames)
    BY <1>11 DEF UpstreamFails, Frames
  <2>2. QED
    BY <1>11, <2>1 DEF UpstreamFails, Typed, turn
<1>12. CASE UpstreamEnds
  <2>1. Len(line') = 0 /\ line' = <<>> /\ todo' = line /\ Len(todo) = 0
    BY <1>12 DEF UpstreamEnds, Typed
  <2>2. Len(line') + Len(todo') \leq Len(told')
    BY <1>12, <2>1 DEF UpstreamEnds, Typed
  <2>3. QED
    BY <1>12, <2>1, <2>2 DEF UpstreamEnds, Typed, turn
<1>13. CASE Finish
  <2>1. out' \in Seq(Frames) /\ st' \in TranslatorState /\ st'.known = st.known
    BY <1>13, FinishParts
  <2>2. UNCHANGED <<turn, line, todo, wire, read, client, told>> /\ pc = "flushing" /\ pc' = "finishing"
        /\ todo = <<>>
    BY <1>13 DEF Finish
  <2>3. QED
    BY <2>1, <2>2 DEF Typed, turn
<1>14. CASE Send
  <2>1. wire' \in Seq(Frames) /\ out' \in Seq(Frames) /\ Len(wire') = Len(wire) + 1
    BY <1>14, SendParts
  <2>2. UNCHANGED <<turn, pc, line, todo, st, read, client, told>> /\ out # <<>> /\ Len(wire) - read < Depth
    BY <1>14 DEF Send
  <2>3. read' \in 0..Len(wire') /\ Len(wire') - read' \leq Depth
    <3>1. Len(wire) \in Nat /\ read \in 0..Len(wire)
      BY DEF Typed
    <3>2. QED
      BY <2>1, <2>2, <3>1, BoundsAssumption
  <2>4. pc \notin {"translating", "calling", "selecting", "done"}
    BY <2>2 DEF Typed
  <2>5. QED
    BY <2>1, <2>2, <2>3, <2>4 DEF Typed, turn
<1>15. CASE SendFails
  <2>1. Len(todo') = 0 /\ todo' = <<>> /\ out' = <<>>
    BY <1>15 DEF SendFails
  <2>2. Len(line) \in Nat /\ Len(todo) \in Nat /\ Len(line) + Len(todo) \leq Len(told) /\ Len(told) \in Nat
    BY DEF Typed
  <2>3. pc \notin {"translating", "calling", "selecting", "done"}
    BY <1>15 DEF Typed, SendFails
  <2>4. QED
    BY <1>15, <2>1, <2>2, <2>3 DEF SendFails, Typed, turn
<1>16. CASE Return
  BY <1>16 DEF Return, Typed, turn
<1>17. CASE Read
  <2>1. read' \in 0..Len(wire') /\ Len(wire') - read' \leq Depth
    <3>1. Len(wire) \in Nat /\ read \in 0..Len(wire) /\ Len(wire) - read \leq Depth
      BY DEF Typed
    <3>2. read < Len(wire) /\ read' = read + 1 /\ wire' = wire
      BY <1>17 DEF Read
    <3>3. QED
      BY <3>1, <3>2, BoundsAssumption
  <2>2. ~(pc \in {"translating", "calling"})
    <3>1. SUFFICES ASSUME pc \in {"translating", "calling"} PROVE FALSE
      OBVIOUS
    <3>2. Len(wire) = 0
      BY <3>1 DEF Typed
    <3>3. QED
      BY <1>17, <3>2 DEF Read, Typed
  <2>3. QED
    BY <1>17, <2>1, <2>2 DEF Read, Typed, turn
<1>18. CASE ReadEnd
  BY <1>18 DEF ReadEnd, Typed, turn
<1>19. CASE Abort
  BY <1>19 DEF Abort, Typed, turn
<1>20. QED
  BY <1>1, <1>2, <1>3, <1>4, <1>5, <1>6, <1>7, <1>8, <1>9, <1>10, <1>11, <1>12, <1>13,
     <1>14, <1>15, <1>16, <1>17, <1>18, <1>19
     DEF Next, TaskStep, ProviderStep, ClientStep

(* However the turn goes, its parts have the types they are given: no more *)
(* than CHANNEL_DEPTH frames wait for the IDE, and between two reads       *)
(* nothing is left to feed or to send (intercept.rs:21-23, 46-99).         *)
THEOREM StreamTypeCorrect == Spec => []TypeOK
<1>1. Spec => []Typed
  BY InitTyped, TypedKept, PTL DEF Spec
<1>2. QED
  BY <1>1, TypedGivesTypes, PTL

-----------------------------------------------------------------------------
(* What a payload and the end put on the stream.                           *)

LEMMA FeedSays ==
  ASSUME Typed, Feed
  PROVE  \E p \in Payloads :
           /\ p = todo[1] /\ todo # <<>>
           /\ out' \in Seq(Frames) /\ out' \in Seq(ChunkSays(st, p) \cup {Initial})
           /\ Unlike(out')
           /\ out' # <<>> /\ ~st.opened => out'[1] = Initial
           /\ st'.opened = (st.opened \/ out' # <<>>)
           /\ st'.usage = IF p.usage THEN Turn ELSE st.usage
           /\ p.tool = <<>> => st'.tools = st.tools /\ st'.known = st.known /\ st'.calls = st.calls
           /\ p.tool # <<>> => p.tool[1] \in Deltas /\ NoteOf(st, p.tool[1], st')
<1>1. PICK p \in Payloads, split \in Split, F \in Seq(Frames) :
           /\ p = todo[1] /\ todo # <<>>
           /\ F = ChunkFrames(st, p, split)
           /\ F \in Seq(ChunkSays(st, p))
           /\ out' = Emit(st, F) /\ out' \in Seq(Frames)
           /\ Turn \in Nat \ {0}
           /\ st' = AfterChunk(st, p, Turn, split)
  BY FeedParts
<1>2. st \in TranslatorState /\ Turn \in Nat
  BY <1>1 DEF Typed
<1>3. \A k \in DOMAIN F : F[k].kind = "toolInit" => k = 1
  BY <1>1, <1>2, ChunkFramesSay
<1> DEFINE E == Emit(st, F)
<1>4. /\ E \in Seq(ChunkSays(st, p) \cup {Initial})
      /\ E = <<>> <=> F = <<>>
      /\ F # <<>> /\ ~st.opened => E[1] = Initial
  BY <1>1, EmitSays
<1>5. PICK d \in {0, 1} :
         /\ Len(E) = Len(F) + d
         /\ \A k \in 1..Len(F) : E[k + d] = F[k]
         /\ d = 1 => E[1] = Initial
  <2>1. \E d \in {0, 1} : Shifted(E, F, d)
    <3>1. F \in Seq(Frames)
      OBVIOUS
    <3>2. \E d \in {0, 1} : Shifted(Emit(st, F), F, d)
      BY <3>1, EmitSays
    <3>3. QED
      BY <3>2
  <2> HIDE DEF E
  <2>2. QED
    BY <2>1 DEF Shifted
<1>6. E = out'
  BY <1>1
<1> HIDE DEF E
<1>7. ASSUME NEW j \in DOMAIN E, Named(E[j])
      PROVE  j = 1 + d
  <2>1. Len(F) \in Nat /\ Len(E) \in Nat /\ DOMAIN E = 1..Len(E) /\ DOMAIN F = 1..Len(F)
    BY <1>1, <1>4
  <2>2. E[j].kind = "toolInit"
    BY <1>7 DEF Named
  <2>3. CASE d = 1 /\ j = 1
    BY <1>5, <2>2, <2>3 DEF Initial
  <2>4. CASE ~(d = 1 /\ j = 1)
    <3>1. j - d \in 1..Len(F) /\ E[j] = F[j - d]
      BY <1>5, <2>1, <2>4
    <3>2. j - d = 1
      BY <1>3, <2>1, <2>2, <3>1
    <3>3. QED
      BY <2>1, <3>2
  <2>5. QED
    BY <2>3, <2>4
<1>8. \A f \in ChunkSays(st, p) \cup {Initial} : f.kind \notin {"usage", "toolStop"}
  BY DEF ChunkSays, SaysOf, ContentFrames, Channels, Initial
<1>9. Unlike(E)
  <2>1. ASSUME NEW j \in DOMAIN E, NEW k \in DOMAIN E, Same(E[j], E[k])
        PROVE  j = k
    <3>1. E[j] \in ChunkSays(st, p) \cup {Initial}
      BY <1>4
    <3>2. Named(E[j]) /\ Named(E[k])
      BY <1>8, <2>1, <3>1 DEF Same
    <3>3. QED
      BY <1>7, <3>2
  <2>2. QED
    BY <2>1 DEF Unlike
<1> DEFINE a == st'
           n == Turn
<1>10. a = AfterChunk(st, p, n, split) /\ n \in Nat
  BY <1>1, <1>2
<1> HIDE DEF a, n
<1>11. /\ a.opened = (st.opened \/ ChunkFrames(st, p, split) # <<>>)
       /\ a.usage = IF p.usage THEN n ELSE st.usage
       /\ p.tool = <<>> => a.tools = st.tools /\ a.known = st.known /\ a.calls = st.calls
       /\ p.tool # <<>> => p.tool[1] \in Deltas /\ NoteOf(st, p.tool[1], a)
  <2>1. a.opened = (st.opened \/ ChunkFrames(st, p, split) # <<>>)
    BY <1>2, <1>10, AfterChunkParts
  <2>2. a.usage = IF p.usage THEN n ELSE st.usage
    BY <1>2, <1>10, AfterChunkParts
  <2>3. p.tool = <<>> => a.tools = st.tools /\ a.known = st.known /\ a.calls = st.calls
    BY <1>2, <1>10, AfterChunkParts
  <2>4. p.tool # <<>> => p.tool[1] \in Deltas /\ NoteOf(st, p.tool[1], a)
    BY <1>2, <1>10, AfterChunkParts
  <2>5. QED
    BY <2>1, <2>2, <2>3, <2>4
<1>12. a.opened = (st.opened \/ E # <<>>)
  BY <1>1, <1>4, <1>11
<1>13. QED
  BY <1>1, <1>4, <1>6, <1>9, <1>11, <1>12 DEF a, n

LEMMA FinishSays ==
  ASSUME Typed, Finish
  PROVE  /\ out' \in Seq(Frames)
         /\ Len(out') \in Nat \ {0} /\ out'[Len(out')] = MessageStop
         /\ \A k \in 1..(Len(out') - 1) :
              out'[k] \in ContentFrames \cup EndStops(st) \cup EndUsage(st) \cup {Initial}
         /\ Unlike(out')
         /\ \A f \in EndStops(st) \cup EndUsage(st) : \E k \in DOMAIN out' : out'[k] = f
         /\ ~st.opened => out'[1] = Initial
<1> DEFINE says == ContentFrames \cup EndStops(st) \cup EndUsage(st)
<1>1. PICK body \in Seq(says) :
           /\ body \in Seq(Frames)
           /\ Unlike(body)
           /\ \A f \in EndStops(st) \cup EndUsage(st) : \E k \in DOMAIN body : body[k] = f
           /\ out' = Emit(st, body \o <<MessageStop>>) /\ out' \in Seq(Frames)
  BY FinishParts
<1> DEFINE F == body \o <<MessageStop>>
           E == Emit(st, F)
           m == Len(body)
<1>2. /\ F \in Seq(says \cup {MessageStop}) /\ Len(F) = m + 1 /\ m \in Nat
      /\ F[m + 1] = MessageStop /\ \A k \in 1..m : F[k] = body[k]
  <2> DEFINE T == says \cup {MessageStop}
             end == <<MessageStop>>
  <2>1. body \in Seq(T)
    BY <1>1, SeqMonotonic
  <2>2. end \in Seq(T) /\ Len(end) = 1 /\ end[1] = MessageStop
    <3> HIDE DEF says, MessageStop
    <3>1. QED
      OBVIOUS
  <2> HIDE DEF T, end, says, MessageStop
  <2>3. /\ body \o end \in Seq(T)
        /\ Len(body \o end) = Len(body) + Len(end)
        /\ \A i \in 1..(Len(body) + Len(end)) :
             (body \o end)[i] = IF i <= Len(body) THEN body[i] ELSE end[i - Len(body)]
    BY <2>1, <2>2, ConcatProperties
  <2>4. F = body \o end
    BY DEF end
  <2>5. m \in Nat
    BY <2>1
  <2> HIDE DEF F, m
  <2>6. F[m + 1] = MessageStop /\ \A k \in 1..m : F[k] = body[k]
    BY <2>2, <2>3, <2>4, <2>5 DEF m
  <2>7. QED
    BY <2>2, <2>3, <2>4, <2>5, <2>6 DEF T, m
<1>3. E = out'
  BY <1>1
<1> HIDE DEF F, m
<1>4. F # <<>>
  BY <1>2
<1>5. PICK d \in {0, 1} :
         /\ Len(E) = Len(F) + d
         /\ \A k \in 1..Len(F) : E[k + d] = F[k]
         /\ d = 1 => E[1] = Initial
  <2>1. \E d \in {0, 1} : Shifted(E, F, d)
    BY <1>2, EmitSays
  <2> HIDE DEF E
  <2>2. QED
    BY <2>1 DEF Shifted
<1>6. ~st.opened => E[1] = Initial
  <2>1. F # <<>> /\ ~st.opened => Emit(st, F)[1] = Initial
    BY <1>2, EmitSays
  <2>2. QED
    BY <1>4, <2>1
<1> HIDE DEF E
<1>7. E \in Seq(Frames)
  BY <1>1, <1>3
<1>8. Len(E) = m + 1 + d /\ Len(E) \in Nat \ {0} /\ E[Len(E)] = MessageStop
  BY <1>2, <1>5
<1>9. \A k \in 1..m : E[k + d] = body[k] /\ k + d \in 1..(m + d)
  BY <1>2, <1>5
<1>10. \A k \in 1..(m + d) : (k = 1 /\ d = 1 /\ E[k] = Initial) \/ (k - d \in 1..m /\ E[k] = body[k - d])
  <2>1. ASSUME NEW k \in 1..(m + d)
        PROVE  (k = 1 /\ d = 1 /\ E[k] = Initial) \/ (k - d \in 1..m /\ E[k] = body[k - d])
    <3>1. CASE k = 1 /\ d = 1
      <4>1. E[k] = Initial
        BY <1>5, <3>1
      <4>2. QED
        BY <3>1, <4>1
    <3>2. CASE ~(k = 1 /\ d = 1)
      <4>1. k - d \in 1..m /\ (k - d) + d = k
        BY <1>2, <2>1, <3>2
      <4>2. QED
        BY <1>9, <4>1
    <3>3. QED
      BY <3>1, <3>2
  <2>2. QED
    BY <2>1
<1>11. DOMAIN body = 1..m /\ DOMAIN E = 1..Len(E)
  BY <1>1, <1>7 DEF m
<1>12. \A k \in 1..(Len(E) - 1) : E[k] \in says \cup {Initial}
  <2>1. ASSUME NEW k \in 1..(Len(E) - 1)
        PROVE  E[k] \in says \cup {Initial}
    <3>1. k \in 1..(m + d)
      BY <1>2, <1>8, <2>1
    <3> HIDE DEF says
    <3>2. CASE E[k] = Initial
      BY <3>2
    <3>3. CASE k - d \in 1..m /\ E[k] = body[k - d]
      <4>1. body \in Seq(says) /\ k - d \in DOMAIN body
        BY <1>1, <1>11, <3>3
      <4>2. body[k - d] \in says
        BY <4>1
      <4>3. QED
        BY <3>3, <4>2
    <3>4. QED
      BY <1>10, <3>1, <3>2, <3>3
  <2>2. QED
    BY <2>1
<1>13. Unlike(E)
  <2>1. ASSUME NEW j \in DOMAIN E, NEW k \in DOMAIN E, Same(E[j], E[k])
        PROVE  j = k
    <3>1. E[j] # MessageStop /\ E[k] # MessageStop /\ E[j] # Initial /\ E[k] # Initial
      BY <2>1 DEF Same, Named, MessageStop, Initial
    <3>2. j \in 1..(m + d) /\ k \in 1..(m + d)
      BY <1>2, <1>8, <1>11, <3>1
    <3>3. j - d \in 1..m /\ E[j] = body[j - d] /\ k - d \in 1..m /\ E[k] = body[k - d]
      BY <1>10, <3>1, <3>2
    <3>4. j - d = k - d
      BY <1>1, <1>11, <2>1, <3>3 DEF Unlike
    <3>5. QED
      BY <3>2, <3>4, <1>2
  <2>2. QED
    BY <2>1 DEF Unlike
<1>14. \A f \in EndStops(st) \cup EndUsage(st) : \E k \in DOMAIN E : E[k] = f
  <2>1. ASSUME NEW f \in EndStops(st) \cup EndUsage(st)
        PROVE  \E k \in DOMAIN E : E[k] = f
    <3>1. PICK k \in DOMAIN body : body[k] = f
      BY <1>1
    <3>2. E[k + d] = f /\ k + d \in DOMAIN E
      BY <1>2, <1>8, <1>9, <1>11, <3>1
    <3>3. QED
      BY <3>2
  <2>2. QED
    BY <2>1
<1>15. QED
  BY <1>3, <1>6, <1>7, <1>8, <1>12, <1>13, <1>14

-----------------------------------------------------------------------------
(* The stream: what is on the wire and what is still to be sent.           *)

Stream == wire \o out

Ends == {"stop", "exception"}
Closing == Ends \cup {"toolStop", "usage"}

Opens(s) == s # <<>> => s[1].kind \in {"initial", "exception"}
EndsLast(s) == \A k \in DOMAIN s : s[k].kind \in Ends => k = Len(s)
StopsLate(s) ==
  \A j, k \in DOMAIN s : s[j].kind = "toolStop" /\ s[k].kind = "toolInit" => k < j
StopsAll(s) ==
  \A j, k \in DOMAIN s : s[k].kind = "stop" /\ Named(s[j]) =>
    \E i \in DOMAIN s : s[i].kind = "toolStop" /\ s[i].tool = s[j].tool
FailsBare(s) ==
  \A j, k \in DOMAIN s : s[k].kind = "exception" => s[j].kind # "toolStop"

Follows(f, g) ==
  f.kind \in ToolKinds /\ g.kind \in ToolKinds /\ f.tool = g.tool =>
    (f.id # NoId => g.id = f.id) /\ (f.named => g.named)
Agrees(s) == \A j, k \in DOMAIN s : j < k => Follows(s[j], s[k])

WellFormed(s) ==
  /\ Opens(s) /\ EndsLast(s) /\ Unlike(s) /\ StopsLate(s) /\ StopsAll(s) /\ FailsBare(s)
  /\ Agrees(s)

(* What a frame says of a tool call, the translator x knows.               *)
Mirrored(f, x) ==
  /\ f.kind \in ToolKinds =>
       (f.id # NoId => x.tools[f.tool].id = f.id) /\ (f.named => x.tools[f.tool].named)
  /\ f.kind = "toolInit" => f.tool \in x.known /\ x.calls
Mirrors(s, x) == \A k \in DOMAIN s : Mirrored(s[k], x)

(* Nothing that closes a turn or a call.                                   *)
Plain(s) == \A k \in DOMAIN s : s[k].kind \notin Closing

LEMMA ConcatParts ==
  ASSUME NEW S, NEW s \in Seq(S), NEW t \in Seq(S)
  PROVE  /\ s \o t \in Seq(S)
         /\ Len(s) \in Nat /\ Len(t) \in Nat /\ Len(s \o t) = Len(s) + Len(t)
         /\ DOMAIN s = 1..Len(s) /\ DOMAIN t = 1..Len(t) /\ DOMAIN (s \o t) = 1..(Len(s) + Len(t))
         /\ \A k \in DOMAIN s : k \in DOMAIN (s \o t) /\ (s \o t)[k] = s[k]
         /\ \A k \in DOMAIN t : Len(s) + k \in DOMAIN (s \o t) /\ (s \o t)[Len(s) + k] = t[k]
         /\ \A k \in DOMAIN (s \o t) :
              \/ k \in DOMAIN s
              \/ k > Len(s) /\ k - Len(s) \in DOMAIN t /\ (s \o t)[k] = t[k - Len(s)]
<1> DEFINE u == s \o t
<1>1. /\ u \in Seq(S) /\ Len(u) = Len(s) + Len(t)
      /\ \A i \in 1..(Len(s) + Len(t)) : u[i] = IF i <= Len(s) THEN s[i] ELSE t[i - Len(s)]
  BY ConcatProperties
<1>2. /\ Len(s) \in Nat /\ Len(t) \in Nat
      /\ DOMAIN s = 1..Len(s) /\ DOMAIN t = 1..Len(t) /\ DOMAIN u = 1..(Len(s) + Len(t))
  BY <1>1
<1> HIDE DEF u
<1>3. \A k \in DOMAIN s : k \in DOMAIN u /\ u[k] = s[k]
  BY <1>1, <1>2
<1>4. \A k \in DOMAIN t : Len(s) + k \in DOMAIN u /\ u[Len(s) + k] = t[k]
  <2>1. ASSUME NEW k \in DOMAIN t
        PROVE  Len(s) + k \in DOMAIN u /\ u[Len(s) + k] = t[k]
    <3>1. Len(s) + k \in 1..(Len(s) + Len(t)) /\ ~(Len(s) + k <= Len(s)) /\ (Len(s) + k) - Len(s) = k
      BY <1>2
    <3>2. QED
      BY <1>1, <1>2, <3>1
  <2>2. QED
    BY <2>1
<1>5. ASSUME NEW k \in DOMAIN u, k \notin DOMAIN s
      PROVE  k > Len(s) /\ k - Len(s) \in DOMAIN t /\ u[k] = t[k - Len(s)]
  BY <1>1, <1>2, <1>5
<1>6. QED
  BY <1>1, <1>2, <1>3, <1>4, <1>5 DEF u

(* A part of a well-formed stream is one.                                  *)
LEMMA PrefixWellFormed ==
  ASSUME NEW s \in Seq(Frames), NEW t \in Seq(Frames), WellFormed(s \o t)
  PROVE  WellFormed(s)
<1> DEFINE u == s \o t
<1>1. /\ Len(s) \in Nat /\ Len(t) \in Nat /\ Len(u) = Len(s) + Len(t)
      /\ DOMAIN s = 1..Len(s) /\ DOMAIN u = 1..(Len(s) + Len(t))
      /\ \A k \in DOMAIN s : k \in DOMAIN u /\ u[k] = s[k]
  BY ConcatParts
<1>2. WellFormed(u)
  OBVIOUS
<1> HIDE DEF u
<1>3. Opens(s)
  <2>1. ASSUME s # <<>>
        PROVE  s[1].kind \in {"initial", "exception"}
    <3>1. 1 \in DOMAIN s
      BY <1>1, <2>1
    <3>2. u[1] = s[1] /\ u # <<>>
      BY <1>1, <3>1
    <3>3. QED
      BY <1>2, <3>2 DEF WellFormed, Opens
  <2>2. QED
    BY <2>1 DEF Opens
<1>4. ASSUME NEW k \in DOMAIN s, s[k].kind \in Ends
      PROVE  k = Len(s) /\ Len(t) = 0
  <2>1. k = Len(s) + Len(t)
    BY <1>1, <1>2, <1>4 DEF WellFormed, EndsLast
  <2>2. k \in Nat /\ k <= Len(s)
    BY <1>1
  <2>3. Len(s) \in Nat /\ Len(t) \in Nat
    BY <1>1
  <2>4. QED
    BY <2>1, <2>2, <2>3
<1>5. EndsLast(s) /\ Unlike(s) /\ StopsLate(s) /\ FailsBare(s) /\ Agrees(s)
  BY <1>1, <1>2, <1>4 DEF WellFormed, EndsLast, Unlike, StopsLate, FailsBare, Agrees
<1>6. StopsAll(s)
  <2>1. ASSUME NEW j \in DOMAIN s, NEW k \in DOMAIN s, s[k].kind = "stop", Named(s[j])
        PROVE  \E i \in DOMAIN s : s[i].kind = "toolStop" /\ s[i].tool = s[j].tool
    <3>1. Len(t) = 0
      BY <1>4, <2>1 DEF Ends
    <3>2. u[j] = s[j] /\ u[k] = s[k] /\ j \in DOMAIN u /\ k \in DOMAIN u
      BY <1>1
    <3>3. PICK i \in DOMAIN u : u[i].kind = "toolStop" /\ u[i].tool = u[j].tool
      BY <1>2, <2>1, <3>2 DEF WellFormed, StopsAll
    <3>4. i \in DOMAIN s
      BY <1>1, <3>1
    <3>5. QED
      BY <1>1, <3>2, <3>3, <3>4
  <2>2. QED
    BY <2>1 DEF StopsAll
<1>7. QED
  BY <1>3, <1>5, <1>6 DEF WellFormed

(* More of what does not close anything: a stream stays well-formed.       *)
LEMMA PlainGrows ==
  ASSUME NEW s \in Seq(Frames), NEW t \in Seq(Frames), WellFormed(s), Plain(s), Plain(t),
         Opens(s \o t), Unlike(s \o t), Agrees(s \o t)
  PROVE  WellFormed(s \o t) /\ Plain(s \o t)
<1> DEFINE u == s \o t
<1>1. \A k \in DOMAIN u :
        \/ k \in DOMAIN s /\ u[k] = s[k]
        \/ k - Len(s) \in DOMAIN t /\ u[k] = t[k - Len(s)]
  BY ConcatParts
<1>2. Opens(u) /\ Unlike(u) /\ Agrees(u)
  OBVIOUS
<1> HIDE DEF u
<1>3. Plain(u)
  BY <1>1 DEF Plain
<1>4. EndsLast(u) /\ StopsLate(u) /\ StopsAll(u) /\ FailsBare(u)
  BY <1>3 DEF Plain, Closing, Ends, EndsLast, StopsLate, StopsAll, FailsBare
<1>5. QED
  BY <1>2, <1>3, <1>4 DEF u, WellFormed

(* A payload's frames, after a stream that the translator knows.           *)
LEMMA FeedGrows ==
  ASSUME Typed, Feed, WellFormed(Stream), Mirrors(Stream, st), Plain(Stream),
         st.opened <=> Stream # <<>>
  PROVE  WellFormed(Stream \o out') /\ Plain(Stream \o out') /\ Mirrors(Stream \o out', st')
<1>1. PICK p \in Payloads :
           /\ out' \in Seq(Frames) /\ out' \in Seq(ChunkSays(st, p) \cup {Initial})
           /\ Unlike(out')
           /\ out' # <<>> /\ ~st.opened => out'[1] = Initial
           /\ p.tool = <<>> => st'.tools = st.tools /\ st'.known = st.known /\ st'.calls = st.calls
           /\ p.tool # <<>> => p.tool[1] \in Deltas /\ NoteOf(st, p.tool[1], st')
  BY FeedSays
<1> DEFINE s == Stream
           t == out'
           u == s \o t
           d == p.tool[1]
           old == st.tools[d.index]
           new == Entry(old, d)
<1>2. s \in Seq(Frames) /\ st \in TranslatorState
  BY DEF Typed, Stream
<1>3. WellFormed(s) /\ Plain(s) /\ Mirrors(s, st) /\ (st.opened <=> s # <<>>)
  OBVIOUS
<1>4. /\ t \in Seq(Frames) /\ t \in Seq(ChunkSays(st, p) \cup {Initial})
      /\ Unlike(t)
      /\ t # <<>> /\ ~st.opened => t[1] = Initial
  BY <1>1
<1>5. p.tool # <<>> => /\ d \in Deltas /\ d.index \in Tools /\ old \in Entries /\ new \in Entries
                       /\ old.id # NoId => new.id = old.id
                       /\ old.named => new.named
  <2>1. p.tool # <<>> => d \in Deltas
    BY <1>1
  <2>2. \A x \in Deltas : x.index \in Tools
    BY DEF Deltas
  <2>3. p.tool # <<>> => d.index \in Tools /\ old \in Entries
    BY <1>2, <2>1, <2>2 DEF TranslatorState
  <2> HIDE DEF d, old
  <2>4. QED
    BY <2>1, <2>3, EntryTyped
<1>6. p.tool # <<>> => /\ st'.tools = [st.tools EXCEPT ![d.index] = new]
                       /\ st'.known = IF d.id # NoId \/ d.name # "absent"
                                       THEN st.known \cup {d.index} ELSE st.known
                       /\ st'.calls = TRUE
  BY <1>1 DEF NoteOf
<1>7. ASSUME NEW f \in ChunkSays(st, p), f.kind \in ToolKinds
      PROVE  /\ p.tool # <<>> /\ f.tool = d.index /\ f.id = new.id /\ f.named = new.named
             /\ f.kind = "toolInit" => ~old.named /\ d.name # "absent"
             /\ f.kind # "toolStop"
  <2>1. f \notin ContentFrames
    BY <1>7 DEF ContentFrames, Channels, ToolKinds
  <2>2. p.tool # <<>> /\ f \in SaysOf(old, d)
    BY <1>7, <2>1 DEF ChunkSays
  <2>3. QED
    BY <2>2 DEF SaysOf
<1> HIDE DEF s, t, d, old, new
<1>8. \A k \in DOMAIN t : t[k] \in ChunkSays(st, p) \cup {Initial}
  BY <1>4
<1>9. ASSUME NEW k \in DOMAIN t, t[k].kind \in ToolKinds
      PROVE  /\ p.tool # <<>> /\ t[k].tool = d.index /\ t[k].id = new.id /\ t[k].named = new.named
             /\ t[k].kind = "toolInit" => ~old.named /\ d.name # "absent"
             /\ t[k].kind # "toolStop"
  <2>1. Initial.kind \notin ToolKinds
    BY DEF Initial, ToolKinds
  <2>2. t[k] \in ChunkSays(st, p)
    BY <1>8, <1>9, <2>1
  <2>3. QED
    BY <1>7, <1>9, <2>2
<1>10. Plain(t)
  <2>1. ASSUME NEW k \in DOMAIN t
        PROVE  t[k].kind \notin Closing
    <3>1. \A f \in ChunkSays(st, p) \cup {Initial} : f.kind \notin Closing
      BY DEF ChunkSays, SaysOf, ContentFrames, Channels, Initial, Closing, Ends
    <3>2. QED
      BY <1>8, <3>1
  <2>2. QED
    BY <2>1 DEF Plain
<1>11. ASSUME NEW j \in DOMAIN s, s[j].kind \in ToolKinds, p.tool # <<>>, s[j].tool = d.index
       PROVE  (s[j].id # NoId => old.id = s[j].id) /\ (s[j].named => old.named)
  BY <1>3, <1>11 DEF Mirrors, Mirrored, old
<1>12. Unlike(u)
  <2>1. ASSUME NEW j \in DOMAIN s, NEW k \in DOMAIN t, Same(s[j], t[k]) \/ Same(t[k], s[j])
        PROVE  FALSE
    <3>1. s[j].kind \notin Closing /\ t[k].kind \notin Closing
      BY <1>3, <1>10 DEF Plain
    <3>2. Named(s[j]) /\ Named(t[k]) /\ s[j].tool = t[k].tool
      BY <2>1, <3>1 DEF Same, Closing
    <3>3. t[k].kind \in ToolKinds /\ t[k].kind = "toolInit" /\ s[j].kind \in ToolKinds /\ s[j].named
      BY <3>2 DEF Named, ToolKinds
    <3>4. p.tool # <<>> /\ t[k].tool = d.index /\ ~old.named
      BY <1>9, <3>3
    <3>5. QED
      BY <1>11, <3>2, <3>3, <3>4
  <2>2. Unlike(s)
    BY <1>3 DEF WellFormed
  <2>3. QED
    BY <1>2, <1>4, <2>1, <2>2, UnlikeConcat
<1>13. /\ Len(s) \in Nat
       /\ DOMAIN s = 1..Len(s)
       /\ \A k \in DOMAIN s : k \in DOMAIN u /\ u[k] = s[k]
       /\ \A k \in DOMAIN u :
            \/ k \in DOMAIN s
            \/ k > Len(s) /\ k - Len(s) \in DOMAIN t /\ u[k] = t[k - Len(s)]
       /\ DOMAIN u \subseteq Nat
  <2>1. DOMAIN u = 1..(Len(s) + Len(t)) /\ Len(s) \in Nat /\ Len(t) \in Nat
    BY <1>2, <1>4, ConcatParts
  <2>2. QED
    BY <1>2, <1>4, <2>1, ConcatParts
<1> HIDE DEF u
<1>14. Agrees(u)
  <2>1. ASSUME NEW j \in DOMAIN u, NEW k \in DOMAIN u, j < k,
               u[j].kind \in ToolKinds, u[k].kind \in ToolKinds, u[j].tool = u[k].tool
        PROVE  (u[j].id # NoId => u[k].id = u[j].id) /\ (u[j].named => u[k].named)
    <3>1. CASE j \in DOMAIN s /\ k \in DOMAIN s
      BY <1>3, <1>13, <2>1, <3>1 DEF WellFormed, Agrees, Follows
    <3>2. CASE j \in DOMAIN s /\ k \notin DOMAIN s
      <4>1. k - Len(s) \in DOMAIN t /\ u[k] = t[k - Len(s)] /\ u[j] = s[j]
        BY <1>13, <3>2
      <4>2. p.tool # <<>> /\ u[k].tool = d.index /\ u[k].id = new.id /\ u[k].named = new.named
        BY <1>9, <2>1, <4>1
      <4>3. (u[j].id # NoId => old.id = u[j].id) /\ (u[j].named => old.named)
        BY <1>11, <2>1, <3>2, <4>1, <4>2
      <4>4. QED
        BY <1>5, <4>2, <4>3
    <3>3. CASE j \notin DOMAIN s /\ k \notin DOMAIN s
      <4>1. k - Len(s) \in DOMAIN t /\ u[k] = t[k - Len(s)] /\ j - Len(s) \in DOMAIN t /\ u[j] = t[j - Len(s)]
        BY <1>13, <3>3
      <4>2. u[k].id = new.id /\ u[k].named = new.named
        BY <1>9, <2>1, <4>1
      <4>3. u[j].id = new.id /\ u[j].named = new.named
        BY <1>9, <2>1, <4>1
      <4>4. QED
        BY <4>2, <4>3
    <3>4. CASE j \notin DOMAIN s /\ k \in DOMAIN s
      <4>1. j > Len(s) /\ k <= Len(s) /\ j \in Nat /\ k \in Nat
        BY <1>13, <3>4
      <4>2. QED
        BY <1>13, <2>1, <4>1
    <3>5. QED
      BY <3>1, <3>2, <3>3, <3>4
  <2>2. QED
    BY <2>1 DEF Agrees, Follows
<1>15. Opens(u)
  <2>1. ASSUME u # <<>>
        PROVE  u[1].kind \in {"initial", "exception"}
    <3>1. CASE s # <<>>
      <4>1. 1 \in DOMAIN s
        BY <1>2, <3>1
      <4>2. QED
        BY <1>3, <1>13, <3>1, <4>1 DEF WellFormed, Opens
    <3>2. CASE s = <<>>
      <4>1. u = t
        BY <1>4, <3>2 DEF u
      <4>2. t[1] = Initial
        BY <1>3, <1>4, <2>1, <3>2, <4>1
      <4>3. QED
        BY <4>1, <4>2 DEF Initial
    <3>3. QED
      BY <3>1, <3>2
  <2>2. QED
    BY <2>1 DEF Opens
<1>16. WellFormed(u) /\ Plain(u)
  BY <1>2, <1>3, <1>4, <1>10, <1>12, <1>14, <1>15, PlainGrows DEF u
<1>17. Mirrors(u, st')
  <2>1. ASSUME NEW k \in DOMAIN s
        PROVE  Mirrored(s[k], st')
    <3>1. Mirrored(s[k], st)
      BY <1>3 DEF Mirrors
    <3>2. CASE p.tool = <<>>
      BY <1>1, <3>1, <3>2 DEF Mirrored
    <3>3. CASE p.tool # <<>>
      <4> DEFINE f == s[k]
      <4>1. f \in Frames
        BY <1>2
      <4>2. f.kind \in ToolKinds => f.tool \in Tools
        BY <4>1 DEF Frames, ToolKinds, Initial, Exception, MessageStop, ContentFrames, Channels
      <4> HIDE DEF f
      <4>3. st.tools \in [Tools -> Entries]
        BY <1>2 DEF TranslatorState
      <4>4. ASSUME f.kind \in ToolKinds
            PROVE  (f.id # NoId => st'.tools[f.tool].id = f.id) /\ (f.named => st'.tools[f.tool].named)
        <5>1. (f.id # NoId => st.tools[f.tool].id = f.id) /\ (f.named => st.tools[f.tool].named)
          BY <3>1, <4>4 DEF Mirrored, f
        <5>2. CASE f.tool = d.index
          <6>1. st'.tools[f.tool] = new /\ st.tools[f.tool] = old
            BY <1>5, <1>6, <3>3, <4>3, <5>2 DEF old
          <6>2. QED
            BY <1>5, <3>3, <5>1, <6>1
        <5>3. CASE f.tool # d.index
          <6>1. st'.tools[f.tool] = st.tools[f.tool]
            BY <1>6, <3>3, <4>2, <4>3, <4>4, <5>3
          <6>2. QED
            BY <5>1, <6>1
        <5>4. QED
          BY <5>2, <5>3
      <4>5. f.kind = "toolInit" => f.tool \in st'.known /\ st'.calls
        BY <1>6, <3>1, <3>3 DEF Mirrored, f
      <4>6. QED
        BY <4>4, <4>5 DEF Mirrored, f
    <3>4. QED
      BY <3>2, <3>3
  <2>2. ASSUME NEW k \in DOMAIN t
        PROVE  Mirrored(t[k], st')
    <3>1. CASE t[k].kind \notin ToolKinds
      <4>1. t[k].kind # "toolInit"
        BY <3>1 DEF ToolKinds
      <4>2. QED
        BY <3>1, <4>1 DEF Mirrored
    <3>2. CASE t[k].kind \in ToolKinds
      <4>1. /\ p.tool # <<>> /\ t[k].tool = d.index /\ t[k].id = new.id /\ t[k].named = new.named
            /\ t[k].kind = "toolInit" => ~old.named /\ d.name # "absent"
        BY <1>9, <3>2
      <4>2. st'.tools[d.index] = new
        BY <1>2, <1>5, <1>6, <4>1 DEF TranslatorState
      <4>3. t[k].kind = "toolInit" => d.index \in st'.known /\ st'.calls
        BY <1>6, <4>1
      <4>4. QED
        BY <4>1, <4>2, <4>3 DEF Mirrored
    <3>3. QED
      BY <3>1, <3>2
  <2>3. QED
    BY <1>13, <2>1, <2>2 DEF Mirrors
<1>18. QED
  BY <1>16, <1>17 DEF u, s, t

(* The usage a stream that has ended reports is the one x holds, if any.   *)
Reports(s, x) ==
  /\ \A k \in DOMAIN s : s[k].kind = "usage" => s[k].value = x.usage /\ x.usage # 0
  /\ x.usage # 0 => \E k \in DOMAIN s : s[k].kind = "usage"

(* The frames a turn ends with, after a stream that the translator knows.  *)
LEMMA FinishGrows ==
  ASSUME Typed, Finish, WellFormed(Stream), Mirrors(Stream, st), Plain(Stream),
         st.opened <=> Stream # <<>>
  PROVE  /\ WellFormed(Stream \o out') /\ Mirrors(Stream \o out', st')
         /\ Stream \o out' # <<>> /\ (Stream \o out')[Len(Stream \o out')] = MessageStop
         /\ Reports(Stream \o out', st')
<1> DEFINE s == Stream
           t == out'
           u == s \o t
<1>1. s \in Seq(Frames) /\ st \in TranslatorState
  BY DEF Typed, Stream
<1>2. WellFormed(s) /\ Plain(s) /\ Mirrors(s, st) /\ (st.opened <=> s # <<>>)
  OBVIOUS
<1>3. /\ t \in Seq(Frames)
      /\ Len(t) \in Nat \ {0} /\ t[Len(t)] = MessageStop
      /\ \A k \in 1..(Len(t) - 1) :
           t[k] \in ContentFrames \cup EndStops(st) \cup EndUsage(st) \cup {Initial}
      /\ Unlike(t)
      /\ \A f \in EndStops(st) \cup EndUsage(st) : \E k \in DOMAIN t : t[k] = f
      /\ ~st.opened => t[1] = Initial
  BY FinishSays
<1>4. st'.tools = st.tools /\ st'.known = st.known /\ st'.calls = st.calls /\ st'.usage = st.usage
  BY FinishParts
<1> HIDE DEF s, t
<1>5. /\ Len(s) \in Nat /\ Len(t) \in Nat
      /\ DOMAIN s = 1..Len(s) /\ DOMAIN t = 1..Len(t) /\ DOMAIN u = 1..(Len(s) + Len(t))
      /\ Len(u) = Len(s) + Len(t)
      /\ \A k \in DOMAIN s : k \in DOMAIN u /\ u[k] = s[k]
      /\ \A k \in DOMAIN t : Len(s) + k \in DOMAIN u /\ u[Len(s) + k] = t[k]
      /\ \A k \in DOMAIN u :
           \/ k \in DOMAIN s
           \/ k > Len(s) /\ k - Len(s) \in DOMAIN t /\ u[k] = t[k - Len(s)]
  BY <1>1, <1>3, ConcatParts
<1>6. ASSUME NEW k \in DOMAIN t
      PROVE  \/ k = Len(t) /\ t[k] = MessageStop
             \/ t[k] \in ContentFrames \cup {Initial}
             \/ t[k] \in EndStops(st)
             \/ t[k] \in EndUsage(st)
  <2>1. CASE k = Len(t)
    BY <1>3, <2>1
  <2>2. CASE k # Len(t)
    <3>1. k \in 1..(Len(t) - 1)
      BY <1>5, <2>2
    <3>2. QED
      BY <1>3, <3>1
  <2>3. QED
    BY <2>1, <2>2
<1>7. ASSUME NEW f \in EndStops(st)
      PROVE  /\ f.kind = "toolStop" /\ st.calls
             /\ f.tool \in st.known /\ f.id = st.tools[f.tool].id /\ f.named = st.tools[f.tool].named
  BY DEF EndStops, StopFrame, ToolFrame
<1>8. ASSUME NEW f \in EndUsage(st)
      PROVE  f.kind = "usage" /\ f.value = st.usage /\ st.usage # 0
  BY DEF EndUsage, UsageFrame
<1>9. ASSUME NEW f \in ContentFrames \cup {Initial}
      PROVE  f.kind \notin Closing \cup ToolKinds
  BY DEF ContentFrames, Channels, Initial, Closing, Ends, ToolKinds
<1>10. MessageStop.kind = "stop"
  BY DEF MessageStop
<1>11. ASSUME NEW k \in DOMAIN t
       PROVE  /\ t[k].kind # "toolInit" /\ t[k].kind # "exception"
              /\ t[k].kind = "stop" => k = Len(t)
              /\ t[k].kind \in ToolKinds => t[k] \in EndStops(st)
              /\ t[k].kind = "usage" => t[k] \in EndUsage(st)
  <2>1. CASE k = Len(t) /\ t[k] = MessageStop
    BY <1>10, <2>1 DEF ToolKinds
  <2>2. CASE t[k] \in ContentFrames \cup {Initial}
    BY <1>9, <2>2 DEF Closing, Ends, ToolKinds
  <2>3. CASE t[k] \in EndStops(st)
    BY <1>7, <2>3
  <2>4. CASE t[k] \in EndUsage(st)
    BY <1>8, <2>4 DEF ToolKinds
  <2>5. QED
    BY <1>6, <2>1, <2>2, <2>3, <2>4
<1>12. Unlike(u)
  <2>1. ASSUME NEW j \in DOMAIN s, NEW k \in DOMAIN t, Same(s[j], t[k]) \/ Same(t[k], s[j])
        PROVE  FALSE
    <3>1. s[j].kind \notin Closing
      BY <1>2 DEF Plain
    <3>2. Named(t[k])
      BY <2>1, <3>1 DEF Same, Closing
    <3>3. QED
      BY <1>11, <3>2 DEF Named
  <2>2. Unlike(s)
    BY <1>2 DEF WellFormed
  <2>3. QED
    BY <1>1, <1>3, <2>1, <2>2, UnlikeConcat
<1> HIDE DEF u
<1>13. Opens(u)
  <2>1. CASE s # <<>>
    <3>1. 1 \in DOMAIN s
      BY <1>1, <2>1
    <3>2. QED
      BY <1>2, <1>5, <2>1, <3>1 DEF WellFormed, Opens
  <2>2. CASE s = <<>>
    <3>1. u = t
      BY <1>3, <2>2 DEF u
    <3>2. t[1] = Initial
      BY <1>2, <1>3, <2>2
    <3>3. QED
      BY <3>1, <3>2 DEF Initial, Opens
  <2>3. QED
    BY <2>1, <2>2
<1>14. ASSUME NEW k \in DOMAIN s
       PROVE  s[k].kind \notin {"stop", "exception", "toolStop", "usage"}
  BY <1>2 DEF Plain, Closing, Ends
<1>15. EndsLast(u)
  <2>1. ASSUME NEW k \in DOMAIN u, u[k].kind \in Ends
        PROVE  k = Len(u)
    <3>1. k \notin DOMAIN s
      BY <1>5, <1>14, <2>1 DEF Ends
    <3>2. k > Len(s) /\ k - Len(s) \in DOMAIN t /\ u[k] = t[k - Len(s)]
      BY <1>5, <3>1
    <3>3. k - Len(s) = Len(t)
      BY <1>11, <2>1, <3>2 DEF Ends
    <3>4. k \in Nat
      BY <1>5
    <3>5. QED
      BY <1>5, <3>3, <3>4
  <2>2. QED
    BY <2>1 DEF EndsLast
<1>16. StopsLate(u) /\ FailsBare(u)
  <2>1. ASSUME NEW k \in DOMAIN u
        PROVE  /\ u[k].kind = "toolInit" => k \in DOMAIN s
               /\ u[k].kind = "toolStop" => k > Len(s)
               /\ u[k].kind # "exception"
    <3>1. CASE k \in DOMAIN s
      BY <1>5, <1>14, <3>1
    <3>2. CASE k > Len(s) /\ k - Len(s) \in DOMAIN t /\ u[k] = t[k - Len(s)]
      BY <1>11, <3>2
    <3>3. QED
      BY <1>5, <3>1, <3>2
  <2>2. FailsBare(u)
    BY <2>1 DEF FailsBare
  <2>3. ASSUME NEW j \in DOMAIN u, NEW k \in DOMAIN u, u[j].kind = "toolStop", u[k].kind = "toolInit"
        PROVE  k < j
    <3>1. k \in DOMAIN s /\ j > Len(s) /\ j \in Nat
      BY <1>5, <2>1, <2>3
    <3>2. k \in Nat /\ k <= Len(s)
      BY <1>5, <3>1
    <3>3. QED
      BY <1>5, <3>1, <3>2
  <2>4. QED
    BY <2>2, <2>3 DEF StopsLate
<1>17. StopsAll(u)
  <2>1. ASSUME NEW j \in DOMAIN u, Named(u[j])
        PROVE  \E i \in DOMAIN u : u[i].kind = "toolStop" /\ u[i].tool = u[j].tool
    <3>1. j \in DOMAIN s /\ u[j] = s[j]
      <4>1. CASE j \in DOMAIN s
        BY <1>5, <4>1
      <4>2. CASE j - Len(s) \in DOMAIN t /\ u[j] = t[j - Len(s)]
        BY <1>11, <2>1, <4>2 DEF Named
      <4>3. QED
        BY <1>5, <4>1, <4>2
    <3>2. s[j].tool \in st.known /\ st.calls
      BY <1>2, <2>1, <3>1 DEF Mirrors, Mirrored, Named
    <3> DEFINE f == StopFrame(st, s[j].tool)
    <3>3. f \in EndStops(st) /\ f.kind = "toolStop" /\ f.tool = s[j].tool
      BY <3>2 DEF EndStops, StopFrame, ToolFrame
    <3> HIDE DEF f
    <3>4. PICK k \in DOMAIN t : t[k] = f
      BY <1>3, <3>3
    <3>5. Len(s) + k \in DOMAIN u /\ u[Len(s) + k] = t[k]
      BY <1>5
    <3>6. QED
      BY <3>1, <3>3, <3>4, <3>5
  <2>2. QED
    BY <2>1 DEF StopsAll
<1>18. ASSUME NEW j \in DOMAIN s, NEW f \in EndStops(st), s[j].kind \in ToolKinds, s[j].tool = f.tool
       PROVE  (s[j].id # NoId => f.id = s[j].id) /\ (s[j].named => f.named)
  <2>1. Mirrored(s[j], st)
    BY <1>2 DEF Mirrors
  <2>2. QED
    BY <1>7, <1>18, <2>1 DEF Mirrored
<1>19. Agrees(u)
  <2>1. ASSUME NEW j \in DOMAIN u, NEW k \in DOMAIN u, j < k,
               u[j].kind \in ToolKinds, u[k].kind \in ToolKinds, u[j].tool = u[k].tool
        PROVE  (u[j].id # NoId => u[k].id = u[j].id) /\ (u[j].named => u[k].named)
    <3>1. CASE j \in DOMAIN s /\ k \in DOMAIN s
      BY <1>2, <1>5, <2>1, <3>1 DEF WellFormed, Agrees, Follows
    <3>2. CASE j \in DOMAIN s /\ k \notin DOMAIN s
      <4>1. k - Len(s) \in DOMAIN t /\ u[k] = t[k - Len(s)] /\ u[j] = s[j]
        BY <1>5, <3>2
      <4>2. u[k] \in EndStops(st)
        BY <1>11, <2>1, <4>1
      <4>3. QED
        BY <1>18, <2>1, <3>2, <4>1, <4>2
    <3>3. CASE j \notin DOMAIN s /\ k \notin DOMAIN s
      <4>1. k - Len(s) \in DOMAIN t /\ u[k] = t[k - Len(s)] /\ j - Len(s) \in DOMAIN t /\ u[j] = t[j - Len(s)]
        BY <1>5, <3>3
      <4>2. u[k] \in EndStops(st) /\ u[j] \in EndStops(st)
        BY <1>11, <2>1, <4>1
      <4>3. QED
        BY <1>7, <2>1, <4>2
    <3>4. CASE j \notin DOMAIN s /\ k \in DOMAIN s
      <4>1. j > Len(s) /\ k <= Len(s) /\ j \in Nat /\ k \in Nat
        BY <1>5, <3>4
      <4>2. QED
        BY <1>5, <2>1, <4>1
    <3>5. QED
      BY <3>1, <3>2, <3>3, <3>4
  <2>2. QED
    BY <2>1 DEF Agrees, Follows
<1>20. WellFormed(u)
  BY <1>12, <1>13, <1>15, <1>16, <1>17, <1>19 DEF WellFormed
<1>21. Mirrors(u, st')
  <2>1. ASSUME NEW k \in DOMAIN s
        PROVE  Mirrored(s[k], st')
    <3>1. Mirrored(s[k], st)
      BY <1>2 DEF Mirrors
    <3>2. QED
      BY <1>4, <3>1 DEF Mirrored
  <2>2. ASSUME NEW k \in DOMAIN t
        PROVE  Mirrored(t[k], st')
    <3>1. t[k].kind # "toolInit" /\ (t[k].kind \in ToolKinds => t[k] \in EndStops(st))
      BY <1>11
    <3>2. CASE t[k].kind \notin ToolKinds
      BY <3>1, <3>2 DEF Mirrored
    <3>3. CASE t[k] \in EndStops(st)
      BY <1>4, <1>7, <3>1, <3>3 DEF Mirrored
    <3>4. QED
      BY <3>1, <3>2, <3>3
  <2>3. QED
    BY <1>5, <2>1, <2>2 DEF Mirrors
<1>22. u # <<>> /\ u[Len(u)] = MessageStop
  <2>1. Len(t) \in DOMAIN t
    BY <1>3, <1>5
  <2>2. u[Len(s) + Len(t)] = t[Len(t)]
    BY <1>5, <2>1
  <2>3. Len(u) # 0
    BY <1>3, <1>5
  <2>4. QED
    BY <1>3, <1>5, <2>2, <2>3
<1>23. Reports(u, st')
  <2>1. ASSUME NEW k \in DOMAIN u, u[k].kind = "usage"
        PROVE  u[k].value = st'.usage /\ st'.usage # 0
    <3>1. k \notin DOMAIN s
      BY <1>5, <1>14, <2>1
    <3>2. k - Len(s) \in DOMAIN t /\ u[k] = t[k - Len(s)]
      BY <1>5, <3>1
    <3>3. u[k] \in EndUsage(st)
      BY <1>11, <2>1, <3>2
    <3>4. QED
      BY <1>4, <1>8, <3>3
  <2>2. ASSUME st'.usage # 0
        PROVE  \E k \in DOMAIN u : u[k].kind = "usage"
    <3> DEFINE f == UsageFrame(st.usage)
    <3>1. f \in EndUsage(st)
      BY <1>4, <2>2 DEF EndUsage
    <3> HIDE DEF f
    <3>2. PICK k \in DOMAIN t : t[k] = f
      BY <1>3, <3>1
    <3>3. Len(s) + k \in DOMAIN u /\ u[Len(s) + k] = f /\ f.kind = "usage"
      BY <1>5, <1>8, <3>1, <3>2
    <3>4. QED
      BY <3>3
  <2>3. QED
    BY <2>1, <2>2 DEF Reports
<1>24. QED
  BY <1>20, <1>21, <1>22, <1>23 DEF u, s, t

(* A failure, after a stream that nothing has closed.                      *)
LEMMA FailGrows ==
  ASSUME NEW s \in Seq(Frames), NEW x, WellFormed(s), Plain(s), Mirrors(s, x)
  PROVE  LET u == s \o <<Exception>>
         IN  /\ WellFormed(u) /\ Mirrors(u, x) /\ u # <<>> /\ u[Len(u)] = Exception
             /\ \A k \in DOMAIN u : u[k].kind # "stop"
<1> DEFINE t == <<Exception>>
           u == s \o t
<1>1. s \in Seq(Frames) /\ t \in Seq(Frames) /\ Len(t) = 1 /\ t[1] = Exception
  BY DEF Frames
<1> HIDE DEF t
<1>2. /\ Len(s) \in Nat
      /\ DOMAIN s = 1..Len(s) /\ DOMAIN t = 1..Len(t) /\ DOMAIN u = 1..(Len(s) + Len(t))
      /\ Len(u) = Len(s) + Len(t)
      /\ \A k \in DOMAIN s : k \in DOMAIN u /\ u[k] = s[k]
      /\ \A k \in DOMAIN u :
           \/ k \in DOMAIN s
           \/ k > Len(s) /\ k - Len(s) \in DOMAIN t /\ u[k] = t[k - Len(s)]
  <2>1. Len(s) \in Nat /\ Len(t) \in Nat /\ Len(u) = Len(s) + Len(t)
    BY <1>1, ConcatParts
  <2>2. DOMAIN s = 1..Len(s) /\ DOMAIN t = 1..Len(t) /\ DOMAIN u = 1..(Len(s) + Len(t))
    <3>1. DOMAIN s = 1..Len(s) /\ DOMAIN t = 1..Len(t)
      BY <1>1
    <3>2. DOMAIN u = 1..(Len(s) + Len(t))
      BY <1>1, ConcatParts
    <3>3. QED
      BY <3>1, <3>2
  <2>3. \A k \in DOMAIN s : k \in DOMAIN u /\ u[k] = s[k]
    BY <1>1, ConcatParts
  <2>4. \A k \in DOMAIN u :
           \/ k \in DOMAIN s
           \/ k > Len(s) /\ k - Len(s) \in DOMAIN t /\ u[k] = t[k - Len(s)]
    BY <1>1, ConcatParts
  <2>5. QED
    BY <2>1, <2>2, <2>3, <2>4
<1> HIDE DEF u
<1>3. /\ Len(u) = Len(s) + 1 /\ DOMAIN u = 1..(Len(s) + 1)
      /\ \A k \in DOMAIN u : (k \in DOMAIN s /\ u[k] = s[k]) \/ (k = Len(s) + 1 /\ u[k] = Exception)
  <2>1. ASSUME NEW k \in DOMAIN u, k \notin DOMAIN s
        PROVE  k = Len(s) + 1 /\ u[k] = Exception
    <3>1. k - Len(s) = 1 /\ u[k] = t[k - Len(s)]
      BY <1>1, <1>2, <2>1
    <3>2. k \in Nat
      BY <1>2
    <3>3. QED
      BY <1>1, <1>2, <3>1, <3>2
  <2>2. QED
    BY <1>1, <1>2, <2>1
<1>4. Len(s) + 1 \notin DOMAIN s /\ Len(s) + 1 \in DOMAIN u
  BY <1>2, <1>3
<1>5. u[Len(u)] = Exception /\ u # <<>>
  <2>1. u[Len(s) + 1] = Exception
    BY <1>3, <1>4
  <2>2. Len(u) # 0
    BY <1>2, <1>3
  <2>3. QED
    BY <1>3, <2>1, <2>2
<1>6. Exception.kind = "exception" /\ ~Named(Exception)
  BY DEF Exception, Named
<1>7. ASSUME NEW k \in DOMAIN s
      PROVE  s[k].kind \notin {"stop", "exception", "toolStop", "usage"}
  BY DEF Plain, Closing, Ends
<1>8. Opens(u)
  <2>1. 1 \in DOMAIN u
    BY <1>2, <1>3
  <2>2. CASE s = <<>>
    <3>1. 1 \notin DOMAIN s
      BY <2>2
    <3>2. QED
      BY <1>3, <1>6, <2>1, <3>1 DEF Opens
  <2>3. CASE s # <<>>
    <3>1. 1 \in DOMAIN s /\ u[1] = s[1]
      BY <1>2, <2>3
    <3>2. QED
      BY <2>3, <3>1 DEF WellFormed, Opens
  <2>4. QED
    BY <2>2, <2>3
<1>9. EndsLast(u)
  BY <1>3, <1>7 DEF EndsLast, Ends
<1>10. StopsLate(u) /\ StopsAll(u) /\ FailsBare(u)
  BY <1>3, <1>6, <1>7 DEF StopsLate, StopsAll, FailsBare
<1>11. Unlike(u)
  <2>1. \A j \in DOMAIN s, k \in DOMAIN t : ~Same(s[j], t[k]) /\ ~Same(t[k], s[j])
    BY <1>1, <1>2, <1>6 DEF Same, Named
  <2>2. Unlike(t)
    BY <1>1, <1>2 DEF Unlike
  <2>3. Unlike(s)
    BY DEF WellFormed
  <2>4. QED
    BY <1>1, <2>1, <2>2, <2>3, UnlikeConcat DEF u
<1>12. Agrees(u)
  <2>1. ASSUME NEW j \in DOMAIN u, NEW k \in DOMAIN u, j < k
        PROVE  Follows(u[j], u[k])
    <3>1. CASE k \in DOMAIN s /\ j \in DOMAIN s
      <4>1. u[k] = s[k] /\ u[j] = s[j]
        BY <1>2, <3>1
      <4>2. QED
        BY <2>1, <3>1, <4>1 DEF WellFormed, Agrees
    <3>2. CASE u[k] = Exception \/ u[j] = Exception
      BY <1>6, <3>2 DEF Follows, ToolKinds
    <3>3. QED
      BY <1>3, <3>1, <3>2
  <2>2. QED
    BY <2>1 DEF Agrees
<1>13. Mirrors(u, x)
  <2>1. ASSUME NEW k \in DOMAIN u
        PROVE  Mirrored(u[k], x)
    <3>1. CASE k \in DOMAIN s /\ u[k] = s[k]
      BY <3>1 DEF Mirrors
    <3>2. CASE u[k] = Exception
      BY <1>6, <3>2 DEF Mirrored, ToolKinds
    <3>3. QED
      BY <1>3, <3>1, <3>2
  <2>2. QED
    BY <2>1 DEF Mirrors
<1>14. \A k \in DOMAIN u : u[k].kind # "stop"
  BY <1>3, <1>6, <1>7
<1>15. QED
  BY <1>5, <1>8, <1>9, <1>10, <1>11, <1>12, <1>13, <1>14 DEF WellFormed, u, t

-----------------------------------------------------------------------------
(* How far the translator has got with what it was told.                   *)

Progress == Len(told) - Len(line) - Len(todo)

(* u is the last of the first n payloads of w that carries usage, if any.  *)
LatestIn(w, n, u) ==
  \/ u = 0 /\ \A i \in 1..n : ~w[i].usage
  \/ u \in 1..n /\ w[u].usage /\ \A i \in (u + 1)..n : ~w[i].usage

(* What is still to be fed are the payloads told last, in their order.     *)
Queued ==
  /\ \A i \in 1..Len(todo) : todo[i] = told[Progress + i]
  /\ \A i \in 1..Len(line) : line[i] = told[Len(told)]

Speaking == {"translating", "calling", "selecting", "feeding", "flushing"}

Ended(s) == s # <<>> /\ s[Len(s)].kind \in Ends

StreamInv ==
  /\ Typed
  /\ WellFormed(Stream) /\ Mirrors(Stream, st)
  /\ pc \in Speaking =>
       /\ Plain(Stream) /\ (st.opened <=> Stream # <<>>)
       /\ Queued /\ LatestIn(told, Progress, st.usage)
  /\ pc \in {"finishing", "failing"} => Ended(Stream)
  /\ \A k \in DOMAIN Stream : Stream[k].kind = "stop" =>
       /\ pc \in {"finishing", "done"}
       /\ Reports(Stream, st) /\ LatestIn(told, Len(told), st.usage)
  /\ client = "finished" => pc = "done"
  /\ pc = "done" /\ client \in {"reading", "finished"} => Ended(Stream)

LEMMA StreamTyped == Typed => Stream \in Seq(Frames)
BY DEF Typed, Stream

LEMMA PlainHasNoStop ==
  ASSUME NEW s, Plain(s)
  PROVE  \A k \in DOMAIN s : s[k].kind # "stop"
BY DEF Plain, Closing, Ends

LEMMA InitStream == Init => StreamInv
<1> SUFFICES ASSUME Init PROVE StreamInv
  OBVIOUS
<1>1. Stream = <<>> /\ DOMAIN Stream = {}
  BY DEF Init, Stream
<1>2. WellFormed(Stream) /\ Mirrors(Stream, st) /\ Plain(Stream)
  BY <1>1 DEF WellFormed, Opens, EndsLast, Unlike, StopsLate, StopsAll, FailsBare, Agrees, Mirrors, Plain
<1>3. st.opened = FALSE /\ st.usage = 0
  BY DEF Init, Fresh
<1>4. pc = "translating" /\ client = "reading" /\ told = <<>> /\ line = <<>> /\ todo = <<>>
  BY DEF Init
<1>5. Queued /\ LatestIn(told, Progress, st.usage)
  BY <1>3, <1>4 DEF Queued, LatestIn, Progress
<1>6. QED
  BY <1>1, <1>2, <1>3, <1>4, <1>5, InitTyped DEF StreamInv

(* A step that puts nothing on the stream and feeds nothing.               *)
LEMMA KeepsStream ==
  ASSUME StreamInv, Typed', Stream' = Stream, UNCHANGED <<st, told, line, todo>>,
         pc' \in Speaking => pc \in Speaking,
         pc' \in {"finishing", "failing"} => pc' = pc,
         pc \in {"finishing", "done"} => pc' \in {"finishing", "done"},
         client' = "finished" => pc' = "done",
         pc' = "done" /\ client' \in {"reading", "finished"} => Ended(Stream)
  PROVE  StreamInv'
<1> DEFINE s == Stream
           r == Stream'
<1>1. r = s /\ st' = st /\ told' = told /\ line' = line /\ todo' = todo
  OBVIOUS
<1>2. /\ WellFormed(s) /\ Mirrors(s, st)
      /\ pc \in Speaking =>
           /\ Plain(s) /\ (st.opened <=> s # <<>>)
           /\ Queued /\ LatestIn(told, Progress, st.usage)
      /\ pc \in {"finishing", "failing"} => Ended(s)
      /\ \A k \in DOMAIN s : s[k].kind = "stop" =>
           /\ pc \in {"finishing", "done"}
           /\ Reports(s, st) /\ LatestIn(told, Len(told), st.usage)
  BY DEF StreamInv
<1>3. Queued' <=> Queued
  BY <1>1 DEF Queued, Progress
<1>4. Progress' = Progress
  BY <1>1 DEF Progress
<1> HIDE DEF s, r
<1>5. /\ Typed'
      /\ WellFormed(r) /\ Mirrors(r, st')
      /\ pc' \in Speaking =>
           /\ Plain(r) /\ (st'.opened <=> r # <<>>)
           /\ Queued' /\ LatestIn(told', Progress', st'.usage)
      /\ pc' \in {"finishing", "failing"} => Ended(r)
      /\ \A k \in DOMAIN r : r[k].kind = "stop" =>
           /\ pc' \in {"finishing", "done"}
           /\ Reports(r, st') /\ LatestIn(told', Len(told'), st'.usage)
      /\ client' = "finished" => pc' = "done"
      /\ pc' = "done" /\ client' \in {"reading", "finished"} => Ended(r)
  BY <1>1, <1>2, <1>3, <1>4 DEF s
<1>6. QED
  BY <1>5 DEF StreamInv, r

(* A step that adds nothing that closes: one of the turn's speaking.       *)
LEMMA SpeaksOn ==
  ASSUME Typed', WellFormed(Stream'), Mirrors(Stream', st'), Plain(Stream'),
         st'.opened <=> Stream' # <<>>, Queued', LatestIn(told', Progress', st'.usage),
         pc' \in Speaking, client' # "finished"
  PROVE  StreamInv'
<1> DEFINE r == Stream'
<1>1. \A k \in DOMAIN r : r[k].kind # "stop"
  <2>1. Plain(r)
    OBVIOUS
  <2> HIDE DEF r
  <2>2. QED
    BY <2>1, PlainHasNoStop
<1>2. pc' \notin {"finishing", "failing", "done"}
  BY DEF Speaking
<1>3. QED
  BY <1>1, <1>2 DEF StreamInv

LEMMA ReceiveKeepsStream ==
  ASSUME StreamInv, Receive, Typed'
  PROVE  StreamInv'
<1>1. PICK came \in Seq(Chunks) :
         /\ came # <<>> /\ told' = told \o came /\ Len(told) + Len(came) \leq MaxPayloads
         /\ \/ todo' = line \o came /\ line' = <<>>
            \/ todo' = line \o Front(came) /\ line' = <<Last(came)>>
         /\ pc = "selecting" /\ pc' = "feeding"
         /\ UNCHANGED <<turn, st, out, wire, read, client>>
  BY ReceiveParts DEF StreamInv
<1>2. /\ Typed /\ WellFormed(Stream) /\ Mirrors(Stream, st) /\ Plain(Stream)
      /\ (st.opened <=> Stream # <<>>)
      /\ Queued /\ LatestIn(told, Progress, st.usage) /\ client # "finished"
  BY <1>1 DEF StreamInv, Speaking
<1>3. Stream' = Stream
  BY <1>1 DEF Stream
<1>4. /\ told \in Seq(Chunks) /\ line \in Seq(Chunks) /\ todo = <<>> /\ Len(line) \leq 1
      /\ Len(line) \leq Len(told)
  <2>1. todo = <<>> /\ Len(todo) = 0
    BY <1>1, <1>2 DEF Typed
  <2>2. QED
    BY <1>2, <2>1 DEF Typed
<1> DEFINE n == Len(told)
           m == Len(came)
           l == Len(line)
<1>5. n \in Nat /\ m \in Nat \ {0} /\ l \in 0..1 /\ l \leq n
  <2>1. n \in Nat /\ l \in Nat
    BY <1>4
  <2>2. m \in Nat \ {0}
    BY <1>1
  <2>3. l \leq 1 /\ l \leq n
    BY <1>4
  <2> HIDE DEF l, n, m
  <2>4. QED
    BY <2>1, <2>2, <2>3
<1>6. /\ Len(told') = n + m
      /\ \A i \in 1..n : told'[i] = told[i]
      /\ \A i \in 1..m : told'[n + i] = came[i]
  <2>1. DOMAIN told = 1..n /\ DOMAIN came = 1..m
    BY <1>1, <1>4
  <2>2. QED
    BY <1>1, <1>4, <2>1, ConcatParts
<1>7. Progress = n - l
  BY <1>4 DEF Progress
<1>8. \A i \in 1..l : line[i] = told[n]
  BY <1>2 DEF Queued
<1>9. \E rest \in Seq(Chunks) :
        /\ todo' = line \o rest
        /\ \A i \in 1..Len(rest) : rest[i] = came[i]
        /\ Len(line') + Len(rest) = m
        /\ \A i \in 1..Len(line') : line'[i] = came[m]
  <2>1. CASE todo' = line \o came /\ line' = <<>>
    <3>1. Len(line') = 0
      BY <2>1
    <3>2. /\ Len(line') + Len(came) = m
          /\ \A i \in 1..Len(line') : line'[i] = came[m]
          /\ \A i \in 1..Len(came) : came[i] = came[i]
      BY <1>5, <3>1
    <3>3. QED
      BY <2>1, <3>2
  <2>2. CASE todo' = line \o Front(came) /\ line' = <<Last(came)>>
    <3>1. /\ Front(came) \in Seq(Chunks) /\ Len(Front(came)) = m - 1
          /\ \A i \in 1..(m - 1) : Front(came)[i] = came[i]
          /\ Last(came) = came[m]
      BY <1>1, FrontOf, LastOf
    <3>2. Len(line') = 1 /\ line'[1] = came[m]
      BY <2>2, <3>1
    <3>3. Len(line') + Len(Front(came)) = m
      BY <1>5, <3>1, <3>2
    <3>4. \A i \in 1..Len(line') : line'[i] = came[m]
      BY <3>2
    <3>5. QED
      BY <2>2, <3>1, <3>3, <3>4
  <2>3. QED
    BY <1>1, <2>1, <2>2
<1>10. PICK rest \in Seq(Chunks) :
        /\ todo' = line \o rest
        /\ \A i \in 1..Len(rest) : rest[i] = came[i]
        /\ Len(line') + Len(rest) = m
        /\ \A i \in 1..Len(line') : line'[i] = came[m]
  BY <1>9
<1>11. /\ Len(todo') = l + Len(rest)
       /\ \A i \in 1..l : todo'[i] = line[i]
       /\ \A i \in 1..Len(rest) : todo'[l + i] = rest[i]
  <2>1. DOMAIN line = 1..l /\ DOMAIN rest = 1..Len(rest)
    BY <1>4
  <2>2. QED
    BY <1>4, <1>10, <2>1, ConcatParts
<1>12. Len(line') \in Nat /\ Len(rest) \in Nat
  BY DEF Typed
<1>13. Progress' = n - l
  <2>1. Progress' = Len(told') - Len(line') - Len(todo')
    BY DEF Progress
  <2> DEFINE a == Len(line')
             b == Len(rest)
  <2>2. Progress' = (n + m) - a - (l + b) /\ a + b = m /\ a \in Nat /\ b \in Nat
    BY <1>6, <1>10, <1>11, <1>12, <2>1
  <2> HIDE DEF a, b, n, m, l
  <2>3. QED
    BY <1>5, <2>2
<1> HIDE DEF n, m, l
<1>14. ASSUME NEW i \in 1..Len(todo')
       PROVE  todo'[i] = told'[Progress' + i]
  <2>1. CASE i \in 1..l
    <3>1. i = 1 /\ l = 1
      BY <1>5, <2>1
    <3>2. Progress' + i = n /\ n \in 1..n
      BY <1>5, <1>13, <3>1
    <3>3. QED
      BY <1>6, <1>8, <1>11, <2>1, <3>2
  <2>2. CASE i \notin 1..l
    <3>1. i - l \in 1..Len(rest) /\ l + (i - l) = i
      BY <1>5, <1>11, <1>12, <2>2
    <3>2. todo'[i] = came[i - l]
      BY <1>10, <1>11, <3>1
    <3>3. i - l \in 1..m /\ Progress' + i = n + (i - l)
      BY <1>5, <1>10, <1>12, <1>13, <3>1
    <3>4. QED
      BY <1>6, <3>2, <3>3
  <2>3. QED
    BY <2>1, <2>2
<1>15. Queued'
  <2>1. \A i \in 1..Len(line') : line'[i] = told'[Len(told')]
    <3>1. m \in 1..m
      BY <1>5
    <3>2. QED
      BY <1>6, <1>10, <3>1
  <2>2. QED
    BY <1>14, <2>1 DEF Queued
<1>16. LatestIn(told', Progress', st'.usage)
  <2>1. Progress' = Progress /\ st' = st /\ Progress \in 0..n
    BY <1>1, <1>5, <1>7, <1>13
  <2>2. \A i \in 1..Progress : told'[i] = told[i]
    BY <1>5, <1>6, <2>1
  <2> DEFINE q == Progress
             w == told'
  <2>3. LatestIn(told, q, st.usage) /\ q \in Nat /\ \A i \in 1..q : w[i] = told[i]
    BY <1>2, <1>5, <2>1, <2>2
  <2> HIDE DEF q, w
  <2>4. LatestIn(w, q, st.usage)
    BY <2>3 DEF LatestIn
  <2>5. QED
    BY <2>1, <2>4 DEF q, w
<1>17. QED
  <2>1. WellFormed(Stream') /\ Mirrors(Stream', st') /\ Plain(Stream') /\ (st'.opened <=> Stream' # <<>>)
    BY <1>1, <1>2, <1>3
  <2>2. pc' \in Speaking /\ client' # "finished"
    BY <1>1, <1>2 DEF Speaking
  <2>3. QED
    BY <1>15, <1>16, <2>1, <2>2, SpeaksOn

(* The payload fed is the first that was still to be.                      *)
LEMMA FeedKeepsStream ==
  ASSUME StreamInv, Feed, Typed'
  PROVE  StreamInv'
<1>1. PICK p \in Payloads :
           /\ p = todo[1] /\ todo # <<>>
           /\ out' \in Seq(Frames)
           /\ st'.opened = (st.opened \/ out' # <<>>)
           /\ st'.usage = IF p.usage THEN Turn ELSE st.usage
  <2>1. Typed
    BY DEF StreamInv
  <2>2. QED
    BY <2>1, FeedSays
<1>2. /\ pc \in {"feeding", "flushing"} /\ out = <<>> /\ todo' = Tail(todo)
      /\ UNCHANGED <<turn, pc, line, wire, read, client, told>>
  BY DEF Feed
<1>3. /\ Typed /\ WellFormed(Stream) /\ Mirrors(Stream, st) /\ Plain(Stream)
      /\ (st.opened <=> Stream # <<>>)
      /\ Queued /\ LatestIn(told, Progress, st.usage) /\ client # "finished"
  BY <1>2 DEF StreamInv, Speaking
<1>4. Stream' = Stream \o out' /\ Stream = wire /\ wire \in Seq(Frames)
  BY <1>2, <1>3 DEF Stream, Typed
<1>5. WellFormed(Stream') /\ Plain(Stream') /\ Mirrors(Stream', st')
  BY <1>3, <1>4, FeedGrows
<1>6. st'.opened <=> Stream' # <<>>
  <2>1. wire \o out' # <<>> <=> wire # <<>> \/ out' # <<>>
    BY <1>1, <1>4, ConcatEqualIffEmpty
  <2>2. QED
    BY <1>1, <1>3, <1>4, <2>1
<1>7. /\ todo \in Seq(Chunks) /\ line \in Seq(Chunks) /\ told \in Seq(Chunks)
      /\ Len(line) + Len(todo) \leq Len(told)
  BY <1>3 DEF Typed
<1>8. /\ Len(todo') = Len(todo) - 1 /\ Len(todo) \in Nat \ {0} /\ Len(line) \in Nat /\ Len(told) \in Nat
      /\ \A i \in 1..Len(todo') : todo'[i] = todo[i + 1]
  <2>1. /\ Len(todo') = Len(todo) - 1
        /\ \A i \in 1..Len(todo') : todo'[i] = todo[i + 1]
    BY <1>1, <1>2, <1>7, HeadTailProperties
  <2>2. Len(todo) \in Nat \ {0} /\ Len(line) \in Nat /\ Len(told) \in Nat
    BY <1>1, <1>7
  <2>3. QED
    BY <2>1, <2>2
<1>9. Progress' = Progress + 1 /\ Turn = Progress + 1 /\ Progress \in Nat
  BY <1>2, <1>7, <1>8 DEF Progress, Turn
<1>10. p = told[Progress + 1]
  BY <1>1, <1>3, <1>8 DEF Queued
<1>11. Queued'
  <2>1. ASSUME NEW i \in 1..Len(todo')
        PROVE  todo'[i] = told'[Progress' + i]
    <3>1. i + 1 \in 1..Len(todo) /\ Progress + (i + 1) = Progress' + i
      BY <1>8, <1>9
    <3>2. todo[i + 1] = told[Progress + (i + 1)]
      BY <1>3, <3>1 DEF Queued
    <3>3. QED
      BY <1>2, <1>8, <3>1, <3>2
  <2>2. \A i \in 1..Len(line) : line[i] = told[Len(told)]
    BY <1>3 DEF Queued
  <2>3. line' = line /\ told' = told
    BY <1>2
  <2>4. QED
    BY <2>1, <2>2, <2>3 DEF Queued
<1>12. LatestIn(told', Progress', st'.usage)
  <2> DEFINE q == Progress
             u == st.usage
             v == st'.usage
  <2>1. LatestIn(told, q, u) /\ q \in Nat /\ p = told[q + 1] /\ v = IF p.usage THEN q + 1 ELSE u
    BY <1>1, <1>3, <1>9, <1>10
  <2>2. told' = told /\ Progress' = q + 1
    BY <1>2, <1>9
  <2> HIDE DEF q, u, v
  <2>3. CASE p.usage
    <3>1. v = q + 1 /\ told[v].usage /\ v \in 1..(q + 1) /\ (v + 1)..(q + 1) = {}
      BY <2>1, <2>3
    <3>2. LatestIn(told, q + 1, v)
      BY <3>1 DEF LatestIn
    <3>3. QED
      BY <2>2, <3>2 DEF v
  <2>4. CASE ~p.usage
    <3>1. v = u /\ ~told[q + 1].usage
      BY <2>1, <2>4
    <3>2. \A i \in 1..(q + 1) : i \in 1..q \/ i = q + 1
      BY <2>1
    <3>3. LatestIn(told, q + 1, u)
      BY <2>1, <3>1, <3>2 DEF LatestIn
    <3>4. QED
      BY <2>2, <3>1, <3>3 DEF v
  <2>5. QED
    BY <2>3, <2>4
<1>13. pc' \in Speaking /\ client' # "finished"
  BY <1>2, <1>3 DEF Speaking
<1>14. QED
  BY <1>5, <1>6, <1>11, <1>12, <1>13, SpeaksOn

(* Once the provider has ended, nothing is left of what it said.           *)
LEMMA EndsKeepsStream ==
  ASSUME StreamInv, UpstreamEnds, Typed'
  PROVE  StreamInv'
<1>1. /\ pc = "selecting" /\ pc' = "flushing" /\ todo' = line /\ line' = <<>>
      /\ UNCHANGED <<turn, st, out, wire, read, client, told>>
  BY DEF UpstreamEnds
<1>2. /\ Typed /\ WellFormed(Stream) /\ Mirrors(Stream, st) /\ Plain(Stream)
      /\ (st.opened <=> Stream # <<>>)
      /\ Queued /\ LatestIn(told, Progress, st.usage) /\ client # "finished"
  BY <1>1 DEF StreamInv, Speaking
<1>3. Stream' = Stream
  BY <1>1 DEF Stream
<1>4. Len(todo) = 0 /\ Len(line') = 0 /\ Len(line) \in Nat /\ Len(line) \leq 1 /\ Len(told) \in Nat
  BY <1>1, <1>2 DEF Typed
<1>5. Progress' = Progress /\ Progress = Len(told) - Len(line)
  BY <1>1, <1>4 DEF Progress
<1>6. Queued'
  <2>1. ASSUME NEW i \in 1..Len(todo')
        PROVE  todo'[i] = told'[Progress' + i]
    <3>1. i = 1 /\ Len(line) = 1 /\ i \in 1..Len(line)
      <4> DEFINE n == Len(line)
      <4>1. i \in 1..n /\ n \in Nat /\ n \leq 1
        BY <1>1, <1>4
      <4> HIDE DEF n
      <4>2. i = 1 /\ n = 1
        BY <4>1
      <4>3. QED
        BY <4>1, <4>2 DEF n
    <3>2. Progress' + i = Len(told)
      BY <1>4, <1>5, <3>1
    <3>3. line[i] = told[Len(told)]
      BY <1>2, <3>1 DEF Queued
    <3>4. QED
      BY <1>1, <3>2, <3>3
  <2>2. QED
    BY <1>4, <2>1 DEF Queued
<1>7. LatestIn(told', Progress', st'.usage)
  BY <1>1, <1>2, <1>5
<1>8. WellFormed(Stream') /\ Mirrors(Stream', st') /\ Plain(Stream') /\ (st'.opened <=> Stream' # <<>>)
  BY <1>1, <1>2, <1>3
<1>9. pc' \in Speaking /\ client' # "finished"
  BY <1>1, <1>2 DEF Speaking
<1>10. QED
  BY <1>6, <1>7, <1>8, <1>9, SpeaksOn

LEMMA FinishKeepsStream ==
  ASSUME StreamInv, Finish, Typed'
  PROVE  StreamInv'
<1>1. /\ pc = "flushing" /\ pc' = "finishing" /\ out = <<>> /\ todo = <<>>
      /\ UNCHANGED <<turn, line, todo, wire, read, client, told>>
  BY DEF Finish
<1>2. /\ Typed /\ WellFormed(Stream) /\ Mirrors(Stream, st) /\ Plain(Stream)
      /\ (st.opened <=> Stream # <<>>)
      /\ LatestIn(told, Progress, st.usage) /\ client # "finished"
  BY <1>1 DEF StreamInv, Speaking
<1>3. Stream' = Stream \o out'
  BY <1>1, <1>2 DEF Stream, Typed
<1> DEFINE r == Stream'
<1>4. /\ WellFormed(r) /\ Mirrors(r, st')
      /\ r # <<>> /\ r[Len(r)] = MessageStop /\ Reports(r, st')
  BY <1>2, <1>3, FinishGrows
<1>5. LatestIn(told', Len(told'), st'.usage)
  <2>1. Len(todo) = 0 /\ Len(line) = 0 /\ Len(told) \in Nat
    BY <1>1, <1>2 DEF Typed
  <2>2. Progress = Len(told)
    BY <2>1 DEF Progress
  <2>3. st'.usage = st.usage
    BY <1>2, FinishParts
  <2>4. QED
    BY <1>1, <1>2, <2>2, <2>3
<1>6. Ended(r)
  BY <1>4 DEF Ended, Ends, MessageStop
<1> HIDE DEF r
<1>7. pc' \notin Speaking /\ pc' = "finishing" /\ client' # "finished"
  BY <1>1, <1>2 DEF Speaking
<1>8. QED
  BY <1>4, <1>5, <1>6, <1>7 DEF StreamInv, r

LEMMA FailKeepsStream ==
  ASSUME StreamInv, UpstreamFails, Typed'
  PROVE  StreamInv'
<1>1. /\ pc = "selecting" /\ pc' = "failing" /\ out' = <<Exception>>
      /\ UNCHANGED <<turn, line, todo, st, wire, read, client, told>>
  BY DEF UpstreamFails
<1>2. /\ Typed /\ WellFormed(Stream) /\ Mirrors(Stream, st) /\ Plain(Stream) /\ client # "finished"
  BY <1>1 DEF StreamInv, Speaking
<1>3. Stream' = Stream \o <<Exception>> /\ Stream \in Seq(Frames)
  BY <1>1, <1>2 DEF Stream, Typed
<1> DEFINE r == Stream'
<1>4. /\ WellFormed(r) /\ Mirrors(r, st) /\ r # <<>> /\ r[Len(r)] = Exception
      /\ \A k \in DOMAIN r : r[k].kind # "stop"
  BY <1>2, <1>3, FailGrows
<1>5. Ended(r)
  BY <1>4 DEF Ended, Ends, Exception
<1> HIDE DEF r
<1>6. pc' \notin Speaking /\ pc' = "failing" /\ client' # "finished" /\ st' = st
  BY <1>1, <1>2 DEF Speaking
<1>7. QED
  BY <1>4, <1>5, <1>6 DEF StreamInv, r

LEMMA CallFailsKeepsStream ==
  ASSUME StreamInv, CallFails, Typed'
  PROVE  StreamInv'
<1>1. /\ pc = "calling" /\ client = "reading" /\ pc' = "done" /\ wire' = <<Initial, Exception>>
      /\ UNCHANGED <<line, todo, st, out, read, client, told>>
  BY DEF CallFails
<1>2. out = <<>> /\ Stream' = <<Initial>> \o <<Exception>>
  <2>1. out = <<>>
    BY <1>1 DEF StreamInv, Typed
  <2>2. Stream' = wire' \o <<>>
    BY <1>1, <2>1 DEF Stream
  <2>3. wire' \o <<>> = <<Initial>> \o <<Exception>>
    <3> DEFINE x == <<Initial, Exception>>
               a == <<Initial>>
               b == <<Exception>>
               T == {Initial, Exception}
    <3> HIDE DEF Initial, Exception
    <3>1. x \in Seq(T) /\ Len(x) = 2 /\ x[1] = Initial /\ x[2] = Exception
      OBVIOUS
    <3>2. a \in Seq(T) /\ Len(a) = 1 /\ a[1] = Initial /\ DOMAIN a = {1}
      OBVIOUS
    <3>3. b \in Seq(T) /\ Len(b) = 1 /\ b[1] = Exception /\ DOMAIN b = {1}
      OBVIOUS
    <3>4. wire' \o <<>> = x
      BY <1>1, <3>1
    <3> HIDE DEF x, a, b
    <3>5. a \o b \in Seq(T) /\ Len(a \o b) = 2 /\ (a \o b)[1] = Initial /\ (a \o b)[2] = Exception
      <4>1. a \o b \in Seq(T) /\ Len(a \o b) = Len(a) + Len(b)
        BY <3>2, <3>3, ConcatParts
      <4>2. (a \o b)[1] = a[1] /\ (a \o b)[Len(a) + 1] = b[1]
        BY <3>2, <3>3, ConcatParts
      <4>3. QED
        BY <3>2, <3>3, <4>1, <4>2
    <3>6. \A i \in 1..Len(x) : x[i] = (a \o b)[i]
      BY <3>1, <3>5
    <3>7. x = a \o b
      BY <3>1, <3>5, <3>6, SeqEqual
    <3>8. QED
      BY <3>4, <3>7 DEF a, b
  <2>4. QED
    BY <2>1, <2>2, <2>3
<1> DEFINE s == <<Initial>>
           r == Stream'
<1>3. s \in Seq(Frames) /\ DOMAIN s = {1} /\ s[1].kind = "initial" /\ Len(s) = 1
  BY DEF Frames, Initial
<1> HIDE DEF s
<1>4. WellFormed(s) /\ Plain(s) /\ Mirrors(s, st)
  <2>1. Plain(s) /\ Mirrors(s, st)
    BY <1>3 DEF Plain, Closing, Ends, Mirrors, Mirrored, ToolKinds
  <2>2. Opens(s) /\ EndsLast(s) /\ StopsLate(s) /\ StopsAll(s) /\ FailsBare(s)
    BY <1>3 DEF Opens, EndsLast, StopsLate, StopsAll, FailsBare, Ends
  <2>3. Unlike(s) /\ Agrees(s)
    BY <1>3 DEF Unlike, Agrees, Follows
  <2>4. QED
    BY <2>1, <2>2, <2>3 DEF WellFormed
<1>5. /\ WellFormed(r) /\ Mirrors(r, st) /\ r # <<>> /\ r[Len(r)] = Exception
      /\ \A k \in DOMAIN r : r[k].kind # "stop"
  BY <1>2, <1>3, <1>4, FailGrows DEF s
<1>6. Ended(r)
  BY <1>5 DEF Ended, Ends, Exception
<1> HIDE DEF r
<1>7. pc' \notin Speaking /\ pc' = "done" /\ client' # "finished" /\ st' = st
  BY <1>1 DEF Speaking
<1>8. QED
  BY <1>5, <1>6, <1>7 DEF StreamInv, r

(* Nobody is left to send to: what was to be sent is cut off.              *)
LEMMA CutKeepsStream ==
  ASSUME StreamInv, SendFails, Typed'
  PROVE  StreamInv'
<1>1. /\ out # <<>> /\ client = "gone" /\ pc' = "done" /\ out' = <<>>
      /\ UNCHANGED <<turn, line, st, wire, read, client, told>>
  BY DEF SendFails
<1>2. wire \in Seq(Frames) /\ out \in Seq(Frames)
  BY DEF StreamInv, Typed
<1>3. WellFormed(wire \o out) /\ Mirrors(wire \o out, st)
  BY DEF StreamInv, Stream
<1>4. Stream' = wire
  BY <1>1, <1>2 DEF Stream
<1>5. WellFormed(wire)
  BY <1>2, <1>3, PrefixWellFormed
<1>6. /\ \A k \in DOMAIN wire : k \in DOMAIN (wire \o out) /\ (wire \o out)[k] = wire[k]
      /\ DOMAIN wire = 1..Len(wire) /\ Len(wire) \in Nat /\ Len(out) \in Nat \ {0}
      /\ Len(wire \o out) = Len(wire) + Len(out)
  <2>1. \A k \in DOMAIN wire : k \in DOMAIN (wire \o out) /\ (wire \o out)[k] = wire[k]
    BY <1>2, ConcatParts
  <2>2. DOMAIN wire = 1..Len(wire) /\ Len(wire) \in Nat /\ Len(out) \in Nat \ {0}
    BY <1>1, <1>2
  <2>3. Len(wire \o out) = Len(wire) + Len(out)
    BY <1>2, ConcatParts
  <2>4. QED
    BY <2>1, <2>2, <2>3
<1>7. Mirrors(wire, st)
  BY <1>3, <1>6 DEF Mirrors
<1>8. \A k \in DOMAIN wire : wire[k].kind # "stop"
  <2>1. ASSUME NEW k \in DOMAIN wire, wire[k].kind = "stop"
        PROVE  FALSE
    <3> DEFINE u == wire \o out
    <3>1. EndsLast(u) /\ k \in DOMAIN u /\ u[k] = wire[k]
      BY <1>3, <1>6 DEF WellFormed
    <3> HIDE DEF u
    <3>2. k = Len(u)
      BY <2>1, <3>1 DEF EndsLast, Ends
    <3>3. Len(u) = Len(wire) + Len(out) /\ k \in 1..Len(wire)
      BY <1>6 DEF u
    <3>4. QED
      BY <1>6, <3>2, <3>3
  <2>2. QED
    BY <2>1
<1> DEFINE r == Stream'
<1>9. r = wire /\ st' = st
  BY <1>1, <1>4
<1> HIDE DEF r
<1>10. pc' \notin Speaking /\ pc' = "done" /\ client' = "gone"
  BY <1>1 DEF Speaking
<1>11. QED
  BY <1>5, <1>7, <1>8, <1>9, <1>10 DEF StreamInv, r

LEMMA StreamKept ==
  ASSUME StreamInv, [Next]_vars
  PROVE  StreamInv'
<1>1. Typed'
  <2>1. Typed
    BY DEF StreamInv
  <2>2. QED
    BY <2>1, TypedKept
<1>2. client = "finished" => pc = "done"
  BY DEF StreamInv
<1>3. pc = "done" /\ client \in {"reading", "finished"} => Ended(Stream)
  BY DEF StreamInv
<1>4. pc \in {"finishing", "failing"} => Ended(Stream)
  BY DEF StreamInv
<1>5. CASE UNCHANGED vars
  <2>1. Stream' = Stream /\ UNCHANGED <<st, told, line, todo, pc, client>>
    BY <1>5 DEF vars, Stream
  <2>2. QED
    BY <1>1, <1>2, <1>3, <2>1, KeepsStream
<1>6. CASE Translate
  <2>1. Stream' = Stream /\ UNCHANGED <<st, told, line, todo, client>> /\ pc = "translating" /\ pc' = "calling"
    BY <1>6 DEF Translate, Stream
  <2>2. QED
    BY <1>1, <1>2, <2>1, KeepsStream DEF Speaking
<1>7. CASE Refuse
  <2>1. /\ Stream' = Stream /\ UNCHANGED <<st, told, line, todo>> /\ pc = "translating" /\ pc' = "done"
        /\ client' \in {"gone", "refused"}
    BY <1>7 DEF Refuse, Stream
  <2>2. QED
    BY <1>1, <2>1, KeepsStream DEF Speaking
<1>8. CASE CallFails
  BY <1>1, <1>8, CallFailsKeepsStream
<1>9. CASE CallSucceeds
  <2>1. Stream' = Stream /\ UNCHANGED <<st, told, line, todo, client>> /\ pc = "calling" /\ pc' = "selecting"
    BY <1>9 DEF CallSucceeds, Stream
  <2>2. QED
    BY <1>1, <1>2, <2>1, KeepsStream DEF Speaking
<1>10. CASE CallDropped
  <2>1. /\ Stream' = Stream /\ UNCHANGED <<st, told, line, todo, client>> /\ pc = "calling" /\ pc' = "done"
        /\ client = "gone"
    BY <1>10 DEF CallDropped, Stream
  <2>2. QED
    BY <1>1, <2>1, KeepsStream DEF Speaking
<1>11. CASE Abandon
  <2>1. /\ Stream' = Stream /\ UNCHANGED <<st, told, line, todo, client>> /\ pc = "selecting" /\ pc' = "done"
        /\ client = "gone"
    BY <1>11 DEF Abandon, Stream
  <2>2. QED
    BY <1>1, <2>1, KeepsStream DEF Speaking
<1>12. CASE Receive
  BY <1>1, <1>12, ReceiveKeepsStream
<1>13. CASE Feed
  BY <1>1, <1>13, FeedKeepsStream
<1>14. CASE Fed
  <2>1. Stream' = Stream /\ UNCHANGED <<st, told, line, todo, client>> /\ pc = "feeding" /\ pc' = "selecting"
    BY <1>14 DEF Fed, Stream
  <2>2. QED
    BY <1>1, <1>2, <2>1, KeepsStream DEF Speaking
<1>15. CASE UpstreamFails
  BY <1>1, <1>15, FailKeepsStream
<1>16. CASE UpstreamEnds
  BY <1>1, <1>16, EndsKeepsStream
<1>17. CASE Finish
  BY <1>1, <1>17, FinishKeepsStream
<1>18. CASE Send
  <2>1. Stream' = Stream
    <3>1. Typed
      BY DEF StreamInv
    <3>2. QED
      BY <1>18, <3>1, SendParts DEF Stream
  <2>2. UNCHANGED <<st, told, line, todo, pc, client>>
    BY <1>18 DEF Send
  <2>3. QED
    BY <1>1, <1>2, <1>3, <2>1, <2>2, KeepsStream
<1>19. CASE SendFails
  BY <1>1, <1>19, CutKeepsStream
<1>20. CASE Return
  <2>1. /\ Stream' = Stream /\ UNCHANGED <<st, told, line, todo, client>>
        /\ pc \in {"finishing", "failing"} /\ pc' = "done"
    BY <1>20 DEF Return, Stream
  <2>2. QED
    BY <1>1, <1>4, <2>1, KeepsStream DEF Speaking
<1>21. CASE Read
  <2>1. Stream' = Stream /\ UNCHANGED <<st, told, line, todo, pc, client>>
    BY <1>21 DEF Read, Stream
  <2>2. QED
    BY <1>1, <1>2, <1>3, <2>1, KeepsStream
<1>22. CASE ReadEnd
  <2>1. /\ Stream' = Stream /\ UNCHANGED <<st, told, line, todo, pc>> /\ pc = "done"
        /\ client = "reading"
    BY <1>22 DEF ReadEnd, Stream
  <2>2. QED
    BY <1>1, <1>3, <2>1, KeepsStream
<1>23. CASE Abort
  <2>1. Stream' = Stream /\ UNCHANGED <<st, told, line, todo, pc>> /\ client' = "gone"
    BY <1>23 DEF Abort, Stream
  <2>2. QED
    BY <1>1, <2>1, KeepsStream
<1>24. QED
  BY <1>5, <1>6, <1>7, <1>8, <1>9, <1>10, <1>11, <1>12, <1>13, <1>14, <1>15, <1>16, <1>17,
     <1>18, <1>19, <1>20, <1>21, <1>22, <1>23
     DEF Next, TaskStep, ProviderStep, ClientStep

LEMMA StreamHolds == Spec => []StreamInv
BY InitStream, StreamKept, PTL DEF Spec

-----------------------------------------------------------------------------
(* What the stream's invariant says of the wire.                           *)

LEMMA WireParts ==
  ASSUME StreamInv
  PROVE  /\ wire \in Seq(Frames) /\ WellFormed(wire)
         /\ Len(wire) \in Nat /\ DOMAIN wire = 1..Len(wire)
         /\ \A k \in DOMAIN wire : k \in DOMAIN Stream /\ Stream[k] = wire[k] /\ wire[k] \in Frames
         /\ \A k \in DOMAIN wire : wire[k].kind \in Ends => out = <<>> /\ Stream = wire
<1>1. wire \in Seq(Frames) /\ out \in Seq(Frames) /\ WellFormed(wire \o out)
  BY DEF StreamInv, Typed, Stream
<1>2. WellFormed(wire)
  BY <1>1, PrefixWellFormed
<1> DEFINE u == wire \o out
<1>3. /\ Len(wire) \in Nat /\ Len(out) \in Nat /\ Len(u) = Len(wire) + Len(out)
      /\ DOMAIN wire = 1..Len(wire)
      /\ \A k \in DOMAIN wire : k \in DOMAIN u /\ u[k] = wire[k]
  BY <1>1, ConcatParts
<1>4. u = Stream /\ WellFormed(u)
  BY <1>1 DEF Stream
<1>5. \A k \in DOMAIN wire : wire[k] \in Frames
  BY <1>1
<1> HIDE DEF u
<1>6. ASSUME NEW k \in DOMAIN wire, wire[k].kind \in Ends
      PROVE  out = <<>> /\ Stream = wire
  <2>1. k = Len(u)
    BY <1>3, <1>4, <1>6 DEF WellFormed, EndsLast
  <2>2. k \in Nat /\ k <= Len(wire)
    BY <1>3
  <2>3. Len(out) = 0
    BY <1>3, <2>1, <2>2
  <2>4. out = <<>>
    BY <1>1, <2>3
  <2>5. QED
    BY <1>1, <2>4 DEF Stream
<1>7. QED
  BY <1>1, <1>2, <1>3, <1>4, <1>5, <1>6

(* A stream the client has read to its end has said why it ended           *)
(* (EndIsMarked; response.rs:225-228, intercept.rs:67-72).                 *)
THEOREM EndMarked == Spec => []EndIsMarked
<1>1. ASSUME StreamInv PROVE EndIsMarked
  <2>1. ASSUME client = "finished"
        PROVE  wire # <<>> /\ Last(wire).kind \in {"stop", "exception"}
    <3>1. Ended(Stream) /\ out = <<>> /\ wire \in Seq(Frames)
      BY <1>1, <2>1 DEF StreamInv, Typed
    <3>2. Stream = wire
      BY <3>1 DEF Stream
    <3>3. wire # <<>> /\ wire[Len(wire)].kind \in Ends
      BY <3>1, <3>2 DEF Ended
    <3>4. QED
      BY <3>3 DEF Last, Ends
  <2>2. QED
    BY <2>1 DEF EndIsMarked
<1>2. StreamInv => EndIsMarked
  BY <1>1
<1>3. QED
  BY <1>2, StreamHolds, PTL

(* Once announced with id and name, a tool call keeps both                 *)
(* (ToolFramesAgree; response.rs:131-169).                                 *)
THEOREM ToolFramesKept == Spec => []ToolFramesAgree
<1>1. ASSUME StreamInv PROVE ToolFramesAgree
  <2>1. Agrees(wire)
    BY <1>1, WireParts DEF WellFormed
  <2>2. ASSUME NEW k \in OnWire("toolInit"), wire[k].id # NoId, wire[k].named,
               NEW m \in OnWire("toolInit") \cup OnWire("toolInput") \cup OnWire("toolStop"),
               m > k, wire[m].tool = wire[k].tool
        PROVE  wire[m].id = wire[k].id /\ wire[m].named
    <3>1. k \in DOMAIN wire /\ m \in DOMAIN wire /\ k < m
      BY <1>1, <2>2, WireParts DEF OnWire
    <3>2. wire[k].kind \in ToolKinds /\ wire[m].kind \in ToolKinds
      BY <2>2 DEF OnWire, ToolKinds
    <3>3. Follows(wire[k], wire[m])
      BY <2>1, <3>1 DEF Agrees
    <3>4. QED
      BY <2>2, <3>2, <3>3 DEF Follows
  <2>3. QED
    BY <2>2 DEF ToolFramesAgree
<1>2. StreamInv => ToolFramesAgree
  BY <1>1
<1>3. QED
  BY <1>2, StreamHolds, PTL

LEMMA AtMostOne ==
  ASSUME NEW S, \A x, y \in S : x = y
  PROVE  IsFiniteSet(S) /\ Cardinality(S) = IF S = {} THEN 0 ELSE 1
<1>1. CASE S = {}
  BY <1>1, FS_EmptySet
<1>2. CASE S # {}
  <2>1. PICK x : S = {x}
    BY <1>2
  <2>2. IsFiniteSet({x}) /\ Cardinality({x}) = 1
    BY FS_Singleton
  <2>3. QED
    BY <1>2, <2>1, <2>2
<1>3. QED
  BY <1>1, <1>2

(* The last payload that carries usage, as the property states it.         *)
LEMMA LatestSet ==
  ASSUME NEW w \in Seq(Chunks), NEW u, LatestIn(w, Len(w), u)
  PROVE  LET sent == {n \in DOMAIN w : w[n].usage}
         IN  {n \in sent : \A m \in sent : m \leq n} = IF u = 0 THEN {} ELSE {u}
<1> DEFINE sent == {n \in DOMAIN w : w[n].usage}
           last == {n \in sent : \A m \in sent : m \leq n}
<1>1. Len(w) \in Nat /\ DOMAIN w = 1..Len(w)
  OBVIOUS
<1>2. CASE u = 0 /\ \A i \in 1..Len(w) : ~w[i].usage
  <2>1. sent = {}
    BY <1>1, <1>2
  <2>2. last = {}
    BY <2>1
  <2>3. QED
    BY <1>2, <2>2
<1>3. CASE u \in 1..Len(w) /\ w[u].usage /\ \A i \in (u + 1)..Len(w) : ~w[i].usage
  <2>1. u \in sent
    BY <1>1, <1>3
  <2>2. ASSUME NEW m \in sent PROVE m \in Nat /\ m <= u
    <3>1. m \in 1..Len(w) /\ w[m].usage
      BY <1>1, <2>2
    <3>2. u \in Nat /\ m \in Nat /\ m <= Len(w)
      BY <1>1, <1>3, <3>1
    <3>3. m > u => m \in (u + 1)..Len(w)
      BY <1>1, <3>2
    <3>4. QED
      BY <1>3, <3>1, <3>2, <3>3
  <2>3. u \in last
    BY <2>1, <2>2
  <2>4. \A n \in last : n = u
    <3>1. ASSUME NEW n \in last PROVE n = u
      <4>1. n \in sent /\ u <= n
        BY <2>1, <3>1
      <4>2. n \in Nat /\ n <= u /\ u \in Nat
        BY <1>1, <1>3, <2>2, <4>1
      <4>3. QED
        BY <4>1, <4>2
    <3>2. QED
      BY <3>1
  <2>5. last = {u}
    BY <2>3, <2>4
  <2>6. u # 0
    BY <1>1, <1>3
  <2>7. QED
    BY <2>5, <2>6
<1>4. QED
  BY <1>2, <1>3 DEF LatestIn

(* A complete reply reports usage once, the latest there was               *)
(* (UsageIsLatest; response.rs:122, 182-186, 214-223).                     *)
THEOREM UsageLatest == Spec => []UsageIsLatest
<1>1. ASSUME StreamInv PROVE UsageIsLatest
  <2> DEFINE sent == {n \in DOMAIN told : told[n].usage}
             latest == {n \in sent : \A m \in sent : m \leq n}
             seen == OnWire("usage")
             values == {wire[k].value : k \in seen}
  <2>1. \A j, k \in seen : j = k
    <3>1. Unlike(wire)
      BY <1>1, WireParts DEF WellFormed
    <3>2. QED
      BY <3>1 DEF Unlike, Same, OnWire
  <2>2. Cardinality(seen) = IF seen = {} THEN 0 ELSE 1
    <3> HIDE DEF seen
    <3>1. QED
      BY <2>1, AtMostOne
  <2>3. Cardinality(seen) \leq 1
    <3> HIDE DEF seen
    <3>1. QED
      BY <2>2
  <2>4. ASSUME Complete PROVE values = latest
    <3>1. PICK k \in DOMAIN wire : wire[k].kind = "stop"
      BY <2>4 DEF Complete, OnWire
    <3>2. Stream = wire
      BY <1>1, <3>1, WireParts DEF Ends
    <3>3. Reports(wire, st) /\ LatestIn(told, Len(told), st.usage)
      BY <1>1, <3>1, <3>2 DEF StreamInv
    <3>4. latest = IF st.usage = 0 THEN {} ELSE {st.usage}
      BY <1>1, <3>3, LatestSet DEF StreamInv, Typed
    <3>5. /\ \A j \in seen : wire[j].value = st.usage /\ st.usage # 0
          /\ st.usage # 0 => seen # {}
      BY <3>3 DEF Reports, OnWire
    <3> HIDE DEF latest, seen
    <3>6. values = IF st.usage = 0 THEN {} ELSE {st.usage}
      BY <3>5
    <3>7. QED
      BY <3>4, <3>6
  <2>5. QED
    BY <2>3, <2>4 DEF UsageIsLatest
<1>2. StreamInv => UsageIsLatest
  BY <1>1
<1>3. QED
  BY <1>2, StreamHolds, PTL

-----------------------------------------------------------------------------
(* The splitter, and the one reading of the whole text it is held against. *)

Reading == [close : Closings \cup {Outside}, skip : Nat,
            reasoning : Seq(Symbols), text : Seq(Symbols)]

Unread == [close |-> Outside, skip |-> 0, reasoning |-> <<>>, text |-> <<>>]

(* The tags that begin at the i-th symbol of w.                            *)
Begun(w, i, close) == {t \in Awaited(close) : i \in Found(w, t)}

(* What reading the i-th symbol makes of the state before.                 *)
ReadStep(w, i, before) ==
  LET tags == Begun(w, i, before.close)
      tag == CHOOSE t \in tags : TRUE
      channel == IF before.close = Outside THEN "text" ELSE "reasoning"
  IN  CASE before.skip > 0 -> [before EXCEPT !.skip = @ - 1]
        [] before.skip = 0 /\ tags # {} ->
             [before EXCEPT !.close = Toggled(@, tag), !.skip = Len(tag) - 1]
        [] OTHER -> [before EXCEPT ![channel] = Append(@, w[i])]

IsReading(w, g) ==
  g = [i \in 0..Len(w) |-> IF i = 0 THEN Unread ELSE ReadStep(w, i, g[i - 1])]

ReadingOf(w) == CHOOSE g : IsReading(w, g)
At(w, i) == ReadingOf(w)[i]

(* Divided(text) reads text once, from its first symbol to its last.       *)
LEMMA DividedIs ==
  ASSUME NEW w
  PROVE  Divided(w) = At(w, Len(w))
BY DEF Divided, At, ReadingOf, IsReading, ReadStep, Begun, Unread

(* What it gives to the channel that is open.                              *)
Given(r, s) ==
  IF r.close = Outside THEN [r EXCEPT !.text = @ \o s] ELSE [r EXCEPT !.reasoning = @ \o s]

(* A symbol of a tag is skipped, a tag is begun.                           *)
Skipped(r) == [r EXCEPT !.skip = @ - 1]
Entered(r, tag) == [r EXCEPT !.close = Toggled(@, tag), !.skip = Len(tag) - 1]

LEMMA GivenTyped ==
  ASSUME NEW r \in Reading, NEW s \in Seq(Symbols)
  PROVE  /\ Given(r, s) \in Reading
         /\ Given(r, s).close = r.close /\ Given(r, s).skip = r.skip
<1>1. r.text \o s \in Seq(Symbols) /\ r.reasoning \o s \in Seq(Symbols)
  BY DEF Reading
<1>2. QED
  BY <1>1 DEF Given, Reading

(* The three things that can be next: a symbol to be skipped, a tag, and   *)
(* a symbol for the channel that is open.                                  *)
LEMMA ReadsOn ==
  ASSUME NEW w \in Seq(Symbols), NEW i \in 1..Len(w), NEW r \in Reading
  PROVE  /\ ReadStep(w, i, r) \in Reading
         /\ r.skip > 0 => ReadStep(w, i, r) = Skipped(r)
         /\ r.skip = 0 /\ Begun(w, i, r.close) # {} =>
              \E tag \in Begun(w, i, r.close) :
                ReadStep(w, i, r) = Entered(r, tag)
         /\ r.skip = 0 /\ Begun(w, i, r.close) = {} =>
              ReadStep(w, i, r) = Given(r, <<w[i]>>)
<1>1. r.skip \in Nat /\ r.close \in Closings \cup {Outside}
      /\ r.text \in Seq(Symbols) /\ r.reasoning \in Seq(Symbols) /\ w[i] \in Symbols
  BY DEF Reading
<1>2. CASE r.skip > 0
  <2>1. ReadStep(w, i, r) = Skipped(r)
    BY <1>2 DEF ReadStep, Skipped
  <2>2. r.skip - 1 \in Nat
    BY <1>1, <1>2
  <2>3. Skipped(r) \in Reading
    BY <2>2 DEF Reading, Skipped
  <2>4. r.skip # 0
    BY <1>1, <1>2
  <2>5. ReadStep(w, i, r) \in Reading
    BY <2>1, <2>3
  <2>6. QED
    BY <2>1, <2>4, <2>5
<1>3. CASE r.skip = 0 /\ Begun(w, i, r.close) # {}
  <2> DEFINE tag == CHOOSE t \in Begun(w, i, r.close) : TRUE
  <2>1. ReadStep(w, i, r) = Entered(r, tag)
    BY <1>3 DEF ReadStep, Entered
  <2>2. tag \in Begun(w, i, r.close)
    BY <1>3
  <2> HIDE DEF tag
  <2>3. tag \in Awaited(r.close) /\ tag \in Tags
    BY <1>1, <2>2, TagsAreSequences DEF Begun
  <2>4. Len(tag) - 1 \in Nat
    BY <2>3, TagsAreSequences DEF Outside
  <2>5. Toggled(r.close, tag) \in Closings \cup {Outside}
    BY <1>1, <2>3, TogglesTyped
  <2>6. Entered(r, tag) \in Reading
    BY <2>4, <2>5 DEF Reading, Entered
  <2>7. ~(r.skip > 0) /\ Begun(w, i, r.close) # {}
    BY <1>1, <1>3
  <2> DEFINE next == ReadStep(w, i, r)
  <2>8. next \in Reading
    BY <2>1, <2>6
  <2> HIDE DEF next
  <2>9. QED
    BY <2>1, <2>2, <2>7, <2>8 DEF next
<1>4. CASE r.skip = 0 /\ Begun(w, i, r.close) = {}
  <2> DEFINE channel == IF r.close = Outside THEN "text" ELSE "reasoning"
  <2>1. ReadStep(w, i, r) = [r EXCEPT ![channel] = Append(@, w[i])]
    BY <1>4 DEF ReadStep
  <2>2. Append(r.text, w[i]) = r.text \o <<w[i]>> /\ Append(r.reasoning, w[i]) = r.reasoning \o <<w[i]>>
    <3>1. \A s \in Seq(Symbols), x \in Symbols : Append(s, x) = s \o <<x>>
      BY AppendIsConcat
    <3>2. QED
      BY <1>1, <3>1
  <2>3. ReadStep(w, i, r) = Given(r, <<w[i]>>)
    <3>1. CASE r.close = Outside
      <4>1. Append(r["text"], w[i]) = r.text \o <<w[i]>>
        BY <2>2
      <4>2. QED
        BY <2>1, <3>1, <4>1 DEF Given, Reading
    <3>2. CASE r.close # Outside
      <4>1. Append(r["reasoning"], w[i]) = r.reasoning \o <<w[i]>>
        BY <2>2
      <4>2. QED
        BY <2>1, <3>2, <4>1 DEF Given, Reading
    <3>3. QED
      BY <3>1, <3>2
  <2>4. <<w[i]>> \in Seq(Symbols)
    BY <1>1
  <2>5. Given(r, <<w[i]>>) \in Reading
    BY <2>4, GivenTyped
  <2>6. QED
    BY <1>4, <2>3, <2>5
<1>5. r.skip > 0 \/ r.skip = 0
  BY <1>1
<1>6. QED
  BY <1>2, <1>3, <1>4, <1>5

(* There is such a reading, so the one chosen is one.                      *)
LEMMA ReadingIs ==
  ASSUME NEW w \in Seq(Symbols)
  PROVE  /\ ReadingOf(w) \in [0..Len(w) -> Reading]
         /\ At(w, 0) = Unread
         /\ \A i \in 1..Len(w) : At(w, i) = ReadStep(w, i, At(w, i - 1))
<1> DEFINE N == Len(w)
           step == [i \in 1..N |-> [r \in Reading |-> ReadStep(w, i, r)]]
<1>1. N \in Nat
  OBVIOUS
<1>2. Unread \in Reading
  BY DEF Unread, Reading
<1>3. step \in [1..N -> [Reading -> Reading]]
  <2>1. ASSUME NEW i \in 1..N, NEW r \in Reading PROVE ReadStep(w, i, r) \in Reading
    BY ReadsOn
  <2> HIDE DEF N
  <2>2. QED
    BY <2>1
<1>4. \A i \in 1..N, r \in Reading : step[i][r] = ReadStep(w, i, r) /\ ReadStep(w, i, r) \in Reading
  BY ReadsOn
<1> HIDE DEF step
<1>5. PICK f \in [0..N -> Reading] : f[0] = Unread /\ \A i \in 1..N : f[i] = step[i][f[i - 1]]
  <2> HIDE DEF N
  <2>1. QED
    BY <1>1, <1>2, <1>3, FunctionByStep
<1>6. ASSUME NEW i \in 1..N PROVE f[i] = ReadStep(w, i, f[i - 1])
  <2>1. i - 1 \in 0..N
    BY <1>1
  <2>2. f[i - 1] \in Reading
    BY <1>5, <2>1
  <2>3. QED
    BY <1>4, <1>5, <2>2
<1>7. IsReading(w, f)
  <2> DEFINE h == [i \in 0..N |-> IF i = 0 THEN Unread ELSE ReadStep(w, i, f[i - 1])]
  <2>1. ASSUME NEW i \in 0..N PROVE f[i] = h[i]
    <3>1. i = 0 \/ i \in 1..N
      BY <1>1
    <3>2. QED
      BY <1>5, <1>6, <3>1
  <2>2. f = h
    <3>1. f = [i \in 0..N |-> f[i]]
      BY <1>5
    <3>2. [i \in 0..N |-> f[i]] = [i \in 0..N |-> h[i]]
      BY <2>1
    <3>3. [i \in 0..N |-> h[i]] = h
      OBVIOUS
    <3>4. QED
      BY <3>1, <3>2, <3>3
  <2>3. QED
    BY <2>2 DEF IsReading
<1>8. IsReading(w, ReadingOf(w))
  BY <1>7 DEF ReadingOf
<1> DEFINE g == ReadingOf(w)
<1>9. DOMAIN g = 0..N /\ g[0] = Unread /\ \A i \in 1..N : g[i] = ReadStep(w, i, g[i - 1])
  <2>1. g = [i \in 0..N |-> IF i = 0 THEN Unread ELSE ReadStep(w, i, g[i - 1])]
    BY <1>8 DEF IsReading
  <2> HIDE DEF g
  <2>2. DOMAIN g = 0..N
    BY <2>1
  <2>3. 0 \in 0..N /\ \A i \in 1..N : i \in 0..N /\ i # 0
    BY <1>1
  <2>4. QED
    BY <2>1, <2>2, <2>3
<1>10. \A i \in 0..N : g[i] \in Reading
  <2> DEFINE T == {n \in Nat : n <= N => g[n] \in Reading}
  <2> HIDE DEF g, N
  <2>1. 0 \in T
    BY <1>2, <1>9
  <2>2. ASSUME NEW n \in Nat, n \in T PROVE n + 1 \in T
    <3>1. SUFFICES ASSUME n + 1 <= N PROVE g[n + 1] \in Reading
      OBVIOUS
    <3>2. n + 1 \in 1..N /\ (n + 1) - 1 = n /\ g[n] \in Reading
      BY <1>1, <2>2, <3>1
    <3>3. g[n + 1] = ReadStep(w, n + 1, g[n])
      BY <1>9, <3>2
    <3>4. QED
      BY <1>4, <3>2, <3>3
  <2>3. T = Nat
    <3>1. T \subseteq Nat /\ \A n \in Nat : n \in T => n + 1 \in T
      BY <2>2
    <3> HIDE DEF T
    <3>2. QED
      BY <2>1, <3>1, SetInduction
  <2>4. QED
    BY <1>1, <2>3
<1>11. g \in [0..N -> Reading]
  <2>1. g = [i \in 0..N |-> g[i]]
    <3>1. g = [i \in 0..N |-> IF i = 0 THEN Unread ELSE ReadStep(w, i, g[i - 1])]
      BY <1>8 DEF IsReading
    <3> HIDE DEF g
    <3>2. QED
      BY <3>1
  <2> HIDE DEF g
  <2>2. QED
    BY <1>10, <2>1
<1>12. QED
  BY <1>9, <1>11 DEF At

(* One more symbol is read.                                                *)
LEMMA AtNext ==
  ASSUME NEW w \in Seq(Symbols), NEW i \in Nat, i + 1 <= Len(w)
  PROVE  /\ At(w, i) \in Reading /\ At(w, i + 1) \in Reading
         /\ At(w, i + 1) = ReadStep(w, i + 1, At(w, i))
         /\ i + 1 \in 1..Len(w)
<1>1. Len(w) \in Nat /\ i \in 0..Len(w) /\ i + 1 \in 0..Len(w) /\ i + 1 \in 1..Len(w) /\ (i + 1) - 1 = i
  OBVIOUS
<1>2. \A j \in 0..Len(w) : At(w, j) \in Reading
  BY ReadingIs DEF At
<1>3. QED
  BY <1>1, <1>2, ReadingIs

(* p is what w has behind its first q symbols.                             *)
Behind(w, q, p) == q + Len(p) <= Len(w) /\ \A k \in 1..Len(p) : w[q + k] = p[k]

(* What is given symbol by symbol is given as a run.                       *)
LEMMA GivenOn ==
  ASSUME NEW r \in Reading, NEW s \in Seq(Symbols), NEW x \in Symbols
  PROVE  Given(Given(r, s), <<x>>) = Given(r, Append(s, x))
<1>1. r.text \in Seq(Symbols) /\ r.reasoning \in Seq(Symbols)
  BY DEF Reading
<1>2. \A a \in Seq(Symbols) : (a \o s) \o <<x>> = a \o Append(s, x)
  <2>1. ASSUME NEW a \in Seq(Symbols) PROVE (a \o s) \o <<x>> = a \o Append(s, x)
    <3>1. Append(s, x) = s \o <<x>> /\ <<x>> \in Seq(Symbols)
      BY AppendIsConcat
    <3>2. QED
      BY <3>1, ConcatAssociative
  <2>2. QED
    BY <2>1
<1>3. (r.text \o s) \o <<x>> = r.text \o Append(s, x)
      /\ (r.reasoning \o s) \o <<x>> = r.reasoning \o Append(s, x)
  BY <1>1, <1>2
<1>4. CASE r.close = Outside
  BY <1>3, <1>4 DEF Given, Reading
<1>5. CASE r.close # Outside
  BY <1>3, <1>5 DEF Given, Reading
<1>6. QED
  BY <1>4, <1>5

(* Where no tag begins, what is read is given to the channel.              *)
LEMMA RunsOn ==
  ASSUME NEW w \in Seq(Symbols), NEW q \in Nat, NEW p \in Seq(Symbols), Behind(w, q, p),
         NEW r, r = At(w, q), r.skip = 0,
         \A j \in 1..Len(p) : Begun(w, q + j, r.close) = {}
  PROVE  At(w, q + Len(p)) = Given(r, p)
<1> DEFINE Free(s) == Behind(w, q, s) /\ \A j \in 1..Len(s) : Begun(w, q + j, r.close) = {}
           T == {s \in Seq(Symbols) : Free(s) => At(w, q + Len(s)) = Given(r, s)}
<1>1. r \in Reading
  <2>1. q \in 0..Len(w)
    BY DEF Behind
  <2>2. QED
    BY <2>1, ReadingIs DEF At
<1>2. <<>> \in T
  <2>1. q + Len(<<>>) = q /\ <<>> \in Seq(Symbols)
    OBVIOUS
  <2>2. \A a \in Seq(Symbols) : a \o <<>> = a
    BY ConcatEmptySeq
  <2>3. r.text \o <<>> = r.text /\ r.reasoning \o <<>> = r.reasoning
    BY <1>1, <2>2 DEF Reading
  <2>4. Given(r, <<>>) = r
    BY <1>1, <2>3 DEF Given, Reading
  <2>5. QED
    BY <2>1, <2>4
<1>3. ASSUME NEW s \in Seq(Symbols), NEW x \in Symbols, s \in T, Free(Append(s, x))
      PROVE  At(w, q + Len(Append(s, x))) = Given(r, Append(s, x))
  <2> DEFINE t == Append(s, x)
             n == Len(s)
  <2>1. /\ t \in Seq(Symbols) /\ Len(t) = n + 1 /\ n \in Nat /\ t[n + 1] = x
        /\ \A k \in 1..n : t[k] = s[k]
    BY AppendProperties
  <2>2. /\ q + (n + 1) <= Len(w) /\ \A k \in 1..(n + 1) : w[q + k] = t[k]
        /\ \A j \in 1..(n + 1) : Begun(w, q + j, r.close) = {}
    BY <1>3, <2>1 DEF Behind
  <2> HIDE DEF t
  <2>3. Free(s)
    <3>1. q + n <= Len(w) /\ \A k \in 1..n : k \in 1..(n + 1)
      BY <2>1, <2>2
    <3>2. QED
      BY <2>1, <2>2, <3>1 DEF Behind
  <2>4. At(w, q + n) = Given(r, s)
    BY <1>3, <2>3
  <2> HIDE DEF n
  <2>5. q + n \in Nat /\ (q + n) + 1 <= Len(w) /\ q + (n + 1) = (q + n) + 1 /\ n + 1 \in 1..(n + 1)
    BY <2>1, <2>2
  <2>6. w[q + (n + 1)] = x /\ Begun(w, q + (n + 1), r.close) = {}
    BY <2>1, <2>2, <2>5
  <2>7. w[(q + n) + 1] = x /\ Begun(w, (q + n) + 1, r.close) = {}
    BY <2>5, <2>6
  <2> DEFINE j == (q + n) + 1
             a == At(w, q + n)
  <2>8. At(w, j) = ReadStep(w, j, a) /\ a \in Reading /\ j \in 1..Len(w)
    BY <2>5, AtNext
  <2>9. a.skip = 0 /\ a.close = r.close
    BY <1>1, <2>4, GivenTyped
  <2>10. w[j] = x /\ Begun(w, j, a.close) = {}
    BY <2>7, <2>9
  <2> HIDE DEF j, a
  <2>11. At(w, j) = Given(a, <<x>>)
    BY <2>8, <2>9, <2>10, ReadsOn
  <2>12. Given(a, <<x>>) = Given(r, t)
    BY <1>1, <2>4, GivenOn DEF a, t
  <2>13. q + Len(t) = j
    BY <2>1, <2>5 DEF j
  <2>14. QED
    BY <2>11, <2>12, <2>13 DEF t
<1>4. Seq(Symbols) \subseteq T
  <2>1. \A s \in Seq(Symbols), x \in Symbols : s \in T => Append(s, x) \in T
    BY <1>3
  <2> HIDE DEF T
  <2>2. QED
    BY <1>2, <2>1, SeqInduction
<1>5. QED
  BY <1>4

(* What a tag has left to be skipped is skipped.                           *)
LEMMA SkipsOn ==
  ASSUME NEW w \in Seq(Symbols), NEW q \in Nat, NEW r, r = At(w, q), q + r.skip <= Len(w), q <= Len(w)
  PROVE  At(w, q + r.skip) = [r EXCEPT !.skip = 0]
<1>1. r \in Reading /\ r.skip \in Nat
  <2>1. q \in 0..Len(w)
    OBVIOUS
  <2>2. r \in Reading
    BY <2>1, ReadingIs DEF At
  <2>3. QED
    BY <2>2 DEF Reading
<1> DEFINE k == r.skip
           T == {n \in Nat : n <= k => At(w, q + n) = [r EXCEPT !.skip = k - n]}
<1>2. 0 \in T
  <2>1. q + 0 = q /\ k - 0 = k
    BY <1>1
  <2>2. [r EXCEPT !.skip = k] = r
    BY <1>1 DEF Reading
  <2>3. QED
    BY <2>1, <2>2
<1>3. ASSUME NEW n \in Nat, n \in T, n + 1 <= k
      PROVE  At(w, q + (n + 1)) = [r EXCEPT !.skip = k - (n + 1)]
  <2> DEFINE a == At(w, q + n)
             left == k - n
  <2>1. a = [r EXCEPT !.skip = left]
    BY <1>1, <1>3
  <2>2. a.skip = left /\ left \in Nat /\ left > 0 /\ left - 1 = k - (n + 1)
    BY <1>1, <1>3, <2>1 DEF Reading
  <2>3. q + n \in Nat /\ (q + n) + 1 <= Len(w) /\ (q + n) + 1 = q + (n + 1)
    BY <1>1, <1>3
  <2>4. At(w, q + (n + 1)) = ReadStep(w, q + (n + 1), a) /\ a \in Reading /\ q + (n + 1) \in 1..Len(w)
    BY <2>3, AtNext
  <2> HIDE DEF a
  <2>5. ReadStep(w, q + (n + 1), a) = Skipped(a)
    BY <2>2, <2>4, ReadsOn
  <2>6. Skipped(a) = [r EXCEPT !.skip = left - 1]
    BY <1>1, <2>1, <2>2 DEF Skipped, Reading
  <2>7. QED
    BY <2>2, <2>4, <2>5, <2>6
<1>4. T = Nat
  <2>1. T \subseteq Nat /\ \A n \in Nat : n \in T => n + 1 \in T
    BY <1>3
  <2> HIDE DEF T
  <2>2. QED
    BY <1>2, <2>1, SetInduction
<1>5. k - k = 0 /\ k \in T
  BY <1>1, <1>4
<1>6. QED
  BY <1>1, <1>5

(* What has been given is never taken back.                                *)
Extends(a, b) ==
  /\ \E u \in Seq(Symbols) : b.text = a.text \o u
  /\ \E u \in Seq(Symbols) : b.reasoning = a.reasoning \o u

LEMMA StepExtends ==
  ASSUME NEW w \in Seq(Symbols), NEW i \in 1..Len(w), NEW r \in Reading
  PROVE  Extends(r, ReadStep(w, i, r))
<1>1. r.skip \in Nat /\ r.text \in Seq(Symbols) /\ r.reasoning \in Seq(Symbols) /\ w[i] \in Symbols
  BY DEF Reading
<1>2. \A a \in Seq(Symbols) : \E u \in Seq(Symbols) : a = a \o u
  <2>1. ASSUME NEW a \in Seq(Symbols) PROVE a = a \o <<>> /\ <<>> \in Seq(Symbols)
    BY ConcatEmptySeq
  <2>2. QED
    BY <2>1
<1>3. \A b : b.text = r.text /\ b.reasoning = r.reasoning => Extends(r, b)
  BY <1>1, <1>2 DEF Extends
<1>4. CASE r.skip > 0
  <2>1. ReadStep(w, i, r) = Skipped(r)
    BY <1>4, ReadsOn
  <2>2. ReadStep(w, i, r).text = r.text /\ ReadStep(w, i, r).reasoning = r.reasoning
    BY <2>1 DEF Reading, Entered, Skipped
  <2>3. QED
    BY <1>3, <2>2
<1>5. CASE r.skip = 0 /\ Begun(w, i, r.close) # {}
  <2>1. PICK tag \in Begun(w, i, r.close) :
          ReadStep(w, i, r) = Entered(r, tag)
    BY <1>5, ReadsOn
  <2>2. ReadStep(w, i, r).text = r.text /\ ReadStep(w, i, r).reasoning = r.reasoning
    BY <2>1 DEF Reading, Entered, Skipped
  <2>3. QED
    BY <1>3, <2>2
<1>6. CASE r.skip = 0 /\ Begun(w, i, r.close) = {}
  <2> DEFINE s == <<w[i]>>
             b == Given(r, s)
  <2>1. ReadStep(w, i, r) = b
    BY <1>6, ReadsOn
  <2>2. s \in Seq(Symbols)
    BY <1>1
  <2> HIDE DEF s
  <2>3. \/ b.text = r.text \o s /\ b.reasoning = r.reasoning
        \/ b.text = r.text /\ b.reasoning = r.reasoning \o s
    BY DEF Given, Reading
  <2> HIDE DEF b
  <2>4. Extends(r, b)
    BY <1>1, <1>2, <2>2, <2>3 DEF Extends
  <2>5. QED
    BY <2>1, <2>4
<1>7. r.skip > 0 \/ r.skip = 0
  BY <1>1
<1>8. QED
  BY <1>4, <1>5, <1>6, <1>7

LEMMA ExtendsOn ==
  ASSUME NEW a \in Reading, NEW b, NEW c, Extends(a, b), Extends(b, c)
  PROVE  Extends(a, c)
<1>1. a.text \in Seq(Symbols) /\ a.reasoning \in Seq(Symbols)
  BY DEF Reading
<1>2. \A s, x, y \in Seq(Symbols) : (s \o x) \o y = s \o (x \o y) /\ x \o y \in Seq(Symbols)
  BY ConcatAssociative
<1>3. \E u \in Seq(Symbols) : c.text = a.text \o u
  <2>1. PICK x \in Seq(Symbols) : b.text = a.text \o x
    BY DEF Extends
  <2>2. PICK y \in Seq(Symbols) : c.text = b.text \o y
    BY DEF Extends
  <2>3. (a.text \o x) \o y = a.text \o (x \o y) /\ x \o y \in Seq(Symbols)
    BY <1>1, <1>2
  <2>4. c.text = a.text \o (x \o y)
    BY <2>1, <2>2, <2>3, Zenon
  <2>5. QED
    BY <2>3, <2>4
<1>4. \E u \in Seq(Symbols) : c.reasoning = a.reasoning \o u
  <2>1. PICK x \in Seq(Symbols) : b.reasoning = a.reasoning \o x
    BY DEF Extends
  <2>2. PICK y \in Seq(Symbols) : c.reasoning = b.reasoning \o y
    BY DEF Extends
  <2>3. (a.reasoning \o x) \o y = a.reasoning \o (x \o y) /\ x \o y \in Seq(Symbols)
    BY <1>1, <1>2
  <2>4. c.reasoning = a.reasoning \o (x \o y)
    BY <2>1, <2>2, <2>3, Zenon
  <2>5. QED
    BY <2>3, <2>4
<1>5. QED
  BY <1>3, <1>4 DEF Extends

LEMMA ReadingGrows ==
  ASSUME NEW w \in Seq(Symbols), NEW q \in 0..Len(w)
  PROVE  Extends(At(w, q), At(w, Len(w)))
<1> DEFINE N == Len(w)
           T == {n \in Nat : q + n <= N => Extends(At(w, q), At(w, q + n))}
<1>1. N \in Nat /\ q \in Nat /\ At(w, q) \in Reading
  BY ReadingIs DEF At
<1>2. 0 \in T
  <2>1. \A a \in Seq(Symbols) : a = a \o <<>> /\ <<>> \in Seq(Symbols)
    BY ConcatEmptySeq
  <2>2. q + 0 = q
    BY <1>1
  <2>3. Extends(At(w, q), At(w, q))
    BY <1>1, <2>1 DEF Extends, Reading
  <2>4. QED
    BY <2>2, <2>3
<1>3. ASSUME NEW n \in Nat, n \in T, q + (n + 1) <= N
      PROVE  Extends(At(w, q), At(w, q + (n + 1)))
  <2> DEFINE i == q + n
  <2>1. i \in Nat /\ i + 1 <= Len(w) /\ q + (n + 1) = i + 1 /\ q + n <= N
    BY <1>1, <1>3
  <2>2. Extends(At(w, q), At(w, i))
    BY <1>3, <2>1
  <2> HIDE DEF i
  <2>3. At(w, i) \in Reading /\ At(w, i + 1) = ReadStep(w, i + 1, At(w, i)) /\ i + 1 \in 1..Len(w)
    BY <2>1, AtNext
  <2>4. Extends(At(w, i), At(w, i + 1))
    BY <2>3, StepExtends
  <2>5. Extends(At(w, q), At(w, i + 1))
    BY <1>1, <2>2, <2>4, ExtendsOn
  <2>6. QED
    BY <2>1, <2>5
<1>4. T = Nat
  <2>1. ASSUME NEW n \in Nat, n \in T PROVE n + 1 \in T
    BY <1>3, <2>1
  <2>2. T \subseteq Nat
    OBVIOUS
  <2> HIDE DEF T
  <2>3. QED
    BY <1>2, <2>1, <2>2, SetInduction
<1>5. \A n \in Nat : q + n <= N => Extends(At(w, q), At(w, q + n))
  BY <1>4
<1>6. N - q \in Nat /\ q + (N - q) = N /\ N <= N
  BY <1>1
<1> HIDE DEF N
<1>7. Extends(At(w, q), At(w, q + (N - q)))
  BY <1>1, <1>5, <1>6
<1>8. QED
  BY <1>6, <1>7 DEF N

(* A tag in a part of w is one in w, and the other way round if it is      *)
(* there as a whole.                                                       *)
LEMMA FoundAcross ==
  ASSUME NEW w \in Seq(Symbols), NEW p \in Seq(Symbols), NEW q \in Nat, Behind(w, q, p),
         NEW t \in Tags, NEW i \in Nat \ {0}
  PROVE  /\ i \in Found(p, t) => q + i \in Found(w, t)
         /\ q + i \in Found(w, t) /\ i + Len(t) - 1 <= Len(p) => i \in Found(p, t)
<1> DEFINE n == Len(t)
           l == Len(p)
           m == Len(w)
<1>1. n \in Nat \ {0} /\ l \in Nat /\ m \in Nat
  <2>1. t \in Seq(Symbols) /\ t # <<>>
    BY TagsAreSequences DEF Outside
  <2>2. QED
    BY <2>1
<1>2. q + l <= m /\ \A k \in 1..l : w[q + k] = p[k]
  BY DEF Behind
<1> HIDE DEF n, l, m
<1>3. ASSUME i + n - 1 <= l, NEW k \in 1..n
      PROVE  w[(q + i) + k - 1] = p[i + k - 1]
  <2>1. i + k - 1 \in 1..l /\ q + (i + k - 1) = (q + i) + k - 1
    BY <1>1, <1>3
  <2>2. w[q + (i + k - 1)] = p[i + k - 1]
    BY <1>2, <2>1
  <2>3. QED
    BY <2>1, <2>2
<1>4. ASSUME i + n - 1 <= l
      PROVE  Agree(w, q + i, t, n) <=> Agree(p, i, t, n)
  BY <1>3, <1>4 DEF Agree
<1>5. ASSUME i \in Found(p, t) PROVE q + i \in Found(w, t)
  <2>1. i \in 1..(l - n + 1) /\ Agree(p, i, t, n)
    BY <1>5 DEF Found, n, l
  <2>2. i + n - 1 <= l /\ q + i \in 1..(m - n + 1)
    BY <1>1, <1>2, <2>1
  <2>3. Agree(w, q + i, t, n)
    BY <1>4, <2>1, <2>2
  <2>4. QED
    BY <2>2, <2>3 DEF Found, n, m
<1>6. ASSUME q + i \in Found(w, t), i + n - 1 <= l PROVE i \in Found(p, t)
  <2>1. Agree(w, q + i, t, n)
    BY <1>6 DEF Found, n
  <2>2. i \in 1..(l - n + 1) /\ Agree(p, i, t, n)
    BY <1>1, <1>4, <1>6, <2>1
  <2>3. QED
    BY <2>2 DEF Found, n, l
<1>7. QED
  BY <1>5, <1>6 DEF n, l

(* What is released without a tag in sight belongs to no tag, whatever     *)
(* comes behind it.                                                        *)
LEMMA NoTagReleased ==
  ASSUME NEW w \in Seq(Symbols), NEW p \in Seq(Symbols), NEW q \in Nat, Behind(w, q, p),
         NEW close \in Closings \cup {Outside},
         \A t \in Awaited(close) : Found(p, t) = {},
         NEW i \in 1..(Len(p) - HoldBack(p, Awaited(close)))
  PROVE  Begun(w, q + i, close) = {}
<1> SUFFICES ASSUME NEW t \in Awaited(close), q + i \in Found(w, t)
             PROVE  FALSE
  BY DEF Begun
<1> DEFINE tags == Awaited(close)
           S == {0} \cup {n \in DOMAIN p :
                   \E u \in tags : n < Len(u) /\ Agree(p, Len(p) - n + 1, u, n)}
           n == Len(t)
           l == Len(p)
           h == l - i + 1
<1>1. t \in Tags /\ n \in Nat \ {0} /\ l \in Nat
  <2>1. t \in Tags
    BY TagsAreSequences
  <2>2. t \in Seq(Symbols) /\ t # <<>>
    BY <2>1, TagsAreSequences DEF Outside
  <2>3. QED
    BY <2>1, <2>2
<1>2. HoldBack(p, tags) = Max(S) /\ S \subseteq Nat /\ S # {} /\ \A j \in S : j <= l
  BY DEF HoldBack
<1>3. \A j \in S : j <= Max(S)
  <2> HIDE DEF S
  <2>1. QED
    BY <1>1, <1>2, MaxOf
<1>4. HoldBack(p, tags) \in 0..l
  BY HeldBack
<1>5. i \in Nat \ {0} /\ i <= l /\ h \in 1..l /\ h > HoldBack(p, tags)
  BY <1>1, <1>4
<1>6. i + n - 1 > l
  <2>1. Found(p, t) = {}
    OBVIOUS
  <2>2. ~(i + n - 1 <= l)
    <3> SUFFICES ASSUME i + n - 1 <= l PROVE FALSE
      OBVIOUS
    <3>1. i \in Found(p, t)
      BY <1>1, <1>5, FoundAcross
    <3>2. QED
      BY <2>1, <3>1
  <2>3. QED
    BY <1>1, <1>5, <2>2
<1>7. h < n /\ l - h + 1 = i
  BY <1>1, <1>5, <1>6
<1>8. Agree(p, i, t, h)
  <2>1. \A k \in 1..n : Lower[w[(q + i) + k - 1]] = t[k]
    BY DEF Found, Agree
  <2>2. ASSUME NEW k \in 1..h PROVE Lower[p[i + k - 1]] = t[k]
    <3>1. k \in 1..n /\ i + k - 1 \in 1..l /\ q + (i + k - 1) = (q + i) + k - 1
      BY <1>1, <1>5, <1>7
    <3>2. w[q + (i + k - 1)] = p[i + k - 1]
      BY <3>1 DEF Behind
    <3>3. QED
      BY <2>1, <3>1, <3>2
  <2>3. QED
    BY <2>2 DEF Agree
<1>9. h \in S
  BY <1>1, <1>5, <1>7, <1>8
<1>10. h <= HoldBack(p, tags)
  BY <1>2, <1>3, <1>9
<1>11. QED
  BY <1>1, <1>4, <1>5, <1>10

(* Two tags that are awaited at once are not one within the other.         *)
LEMMA AwaitedApart ==
  ASSUME NEW close, NEW t \in Awaited(close), NEW u \in Awaited(close), Within(t, u)
  PROVE  t = u
BY ApartAssumption DEF Awaited

(* The tag found first in p.                                               *)
Foremost(p, close, first, tag) ==
  /\ tag \in Awaited(close) /\ first \in Found(p, tag)
  /\ \A t \in Awaited(close) : \A j \in Found(p, t) : first <= j

AtFirst(i, t, first, tag) == i = first /\ t = tag

(* No tag begins before the first that is there as a whole, and at its     *)
(* place no other one, whatever comes behind.                              *)
LEMMA NoTagAhead ==
  ASSUME NEW w \in Seq(Symbols), NEW p \in Seq(Symbols), NEW q \in Nat, Behind(w, q, p),
         NEW close \in Closings \cup {Outside},
         NEW first, NEW tag, Foremost(p, close, first, tag),
         NEW t \in Awaited(close), NEW i \in 1..first, q + i \in Found(w, t)
  PROVE  AtFirst(i, t, first, tag)
<1>0. /\ tag \in Awaited(close) /\ first \in Found(p, tag)
      /\ \A u \in Awaited(close) : \A j \in Found(p, u) : first <= j
  BY DEF Foremost
<1> DEFINE n == Len(t)
           m == Len(tag)
           l == Len(p)
           d == first - i
<1>1. /\ t \in Tags /\ tag \in Tags
      /\ n \in Nat \ {0} /\ m \in Nat \ {0} /\ l \in Nat
  <2>1. t \in Tags /\ tag \in Tags
    BY <1>0, TagsAreSequences
  <2>2. t \in Seq(Symbols) /\ t # <<>> /\ tag \in Seq(Symbols) /\ tag # <<>>
    BY <2>1, TagsAreSequences DEF Outside
  <2>3. QED
    BY <2>1, <2>2
<1>2. first \in 1..(l - m + 1) /\ \A k \in 1..m : Lower[p[first + k - 1]] = tag[k]
  BY <1>0 DEF Found, Agree
<1>3. \A k \in 1..n : Lower[w[(q + i) + k - 1]] = t[k]
  BY DEF Found, Agree
<1>4. first \in Nat /\ i \in Nat \ {0} /\ i <= first /\ d \in Nat /\ d = first - i /\ first + m - 1 <= l
  BY <1>1, <1>2
<1>5. \A k \in 1..l : w[q + k] = p[k]
  BY DEF Behind
<1>6. ASSUME i + n - 1 >= first + m - 1 PROVE t = tag
  <2>1. d + m <= n
    BY <1>1, <1>4, <1>6
  <2>2. ASSUME NEW k \in 1..m PROVE t[d + k] = tag[k]
    <3>1. /\ d + k \in 1..n /\ (q + i) + (d + k) - 1 = q + (first + k - 1)
          /\ first + k - 1 \in 1..l
      BY <1>1, <1>2, <1>4, <2>1
    <3>2. Lower[w[q + (first + k - 1)]] = t[d + k]
      BY <1>3, <3>1
    <3>3. w[q + (first + k - 1)] = p[first + k - 1]
      BY <1>5, <3>1
    <3>4. QED
      BY <1>2, <3>2, <3>3
  <2>3. Within(tag, t)
    <3>1. d \in 0..(n - m)
      BY <1>1, <1>4, <2>1
    <3>2. QED
      BY <2>2, <3>1 DEF Within
  <2>4. QED
    BY <1>0, <2>3, AwaitedApart
<1>7. i + n - 1 <= l
  <2>1. CASE i + n - 1 >= first + m - 1
    <3>1. n = m
      BY <1>6, <2>1
    <3>2. QED
      BY <1>1, <1>4, <3>1
  <2>2. CASE ~(i + n - 1 >= first + m - 1)
    BY <1>1, <1>4, <2>2
  <2>3. QED
    BY <2>1, <2>2
<1>8. i \in Found(p, t)
  BY <1>1, <1>4, <1>7, FoundAcross
<1>9. i = first
  <2>1. first <= i
    BY <1>0, <1>8
  <2>2. QED
    BY <1>4, <2>1
<1>10. t = tag
  <2>1. CASE i + n - 1 >= first + m - 1
    BY <1>6, <2>1
  <2>2. CASE ~(i + n - 1 >= first + m - 1)
    <3>1. 0 \in 0..(m - n)
      BY <1>1, <1>4, <1>9, <2>2
    <3>2. ASSUME NEW k \in 1..n PROVE tag[0 + k] = t[k]
      <4>1. k \in 1..m /\ 0 + k = k /\ first + k - 1 \in 1..l /\ (q + i) + k - 1 = q + (first + k - 1)
        BY <1>1, <1>2, <1>4, <1>9, <2>2
      <4>2. w[q + (first + k - 1)] = p[first + k - 1]
        BY <1>5, <4>1
      <4>3. QED
        BY <1>2, <1>3, <4>1, <4>2
    <3>3. Within(t, tag)
      BY <3>1, <3>2 DEF Within
    <3>4. QED
      BY <1>0, <3>3, AwaitedApart
  <2>3. QED
    BY <2>1, <2>2
<1>11. QED
  BY <1>9, <1>10 DEF AtFirst

(* Where reading stands when the splitter, having given R and T before     *)
(* this call, has come so far in it.                                       *)
Shown(s, R, T) ==
  [close |-> s.close, skip |-> 0, reasoning |-> R \o s.reasoning, text |-> T \o s.text]

Settled(p, close) == \A t \in Awaited(close) : Found(p, t) = {}

(* Nothing is begun by the n symbols behind the q-th.                      *)
Clear(w, q, n, close) == \A i \in 1..n : Begun(w, q + i, close) = {}

(* A run of the text pending is one of the whole text.                     *)
LEMMA RunsAcross ==
  ASSUME NEW w \in Seq(Symbols), NEW q \in Nat, NEW p \in Seq(Symbols), Behind(w, q, p),
         At(w, q).skip = 0, Clear(w, q, Len(p), At(w, q).close)
  PROVE  At(w, q + Len(p)) = Given(At(w, q), p)
<1> DEFINE r == At(w, q)
<1>1. \A j \in 1..Len(p) : Begun(w, q + j, r.close) = {}
  BY DEF Clear
<1>2. r = At(w, q) /\ r.skip = 0
  OBVIOUS
<1> HIDE DEF r
<1>3. At(w, q + Len(p)) = Given(r, p)
  BY <1>1, <1>2, RunsOn
<1>4. QED
  BY <1>3 DEF r

LEMMA Joined == \A x, y, z \in Seq(Symbols) : (x \o y) \o z = x \o (y \o z)
BY ConcatAssociative

LEMMA ShownTyped ==
  ASSUME NEW s \in Split, NEW R \in Seq(Symbols), NEW T \in Seq(Symbols)
  PROVE  Shown(s, R, T) \in Reading
<1>1. R \o s.reasoning \in Seq(Symbols) /\ T \o s.text \in Seq(Symbols)
  BY DEF Split
<1>2. QED
  BY <1>1 DEF Shown, Reading, Split

(* What a release gives out, and what it leaves.                           *)
Releases(s, n, gone, passed, next, R, T) ==
  /\ passed \in Seq(Symbols) /\ Len(passed) = n
  /\ \A k \in 1..n : passed[k] = s.pending[k]
  /\ next \in Split /\ next.close = s.close
  /\ Len(next.pending) = Len(s.pending) - n - gone
  /\ \A k \in 1..Len(next.pending) : next.pending[k] = s.pending[n + gone + k]
  /\ Shown(next, R, T) = Given(Shown(s, R, T), passed)

LEMMA ReleasedGives ==
  ASSUME NEW s \in Split, NEW n \in Nat, NEW gone \in Nat, n + gone <= Len(s.pending),
         NEW passed, passed = SubSeq(s.pending, 1, n),
         NEW next, next = Release(s, n, gone),
         NEW R \in Seq(Symbols), NEW T \in Seq(Symbols)
  PROVE  Releases(s, n, gone, passed, next, R, T)
<1> DEFINE p == s.pending
           rest == SubSeq(p, n + gone + 1, Len(p))
           a == s.text
           b == s.reasoning
           text == IF s.close = Outside THEN a \o passed ELSE a
           reasoning == IF s.close = Outside THEN b ELSE b \o passed
<1>1. p \in Seq(Symbols) /\ Len(p) \in Nat /\ a \in Seq(Symbols) /\ b \in Seq(Symbols)
  BY DEF Split
<1>2. passed \in Seq(Symbols) /\ Len(passed) = n /\ \A k \in 1..n : passed[k] = p[k]
  <2>1. n \in 0..Len(p)
    BY <1>1
  <2> HIDE DEF p
  <2>2. QED
    BY <1>1, <2>1, CutInTwo DEF p
<1>3. /\ next \in Split /\ next.close = s.close
      /\ Len(next.pending) = Len(p) - n - gone
  BY Released
<1>4. \A k \in 1..(Len(p) - (n + gone)) : rest[k] = p[(n + gone) + k]
  <2> DEFINE i == n + gone
  <2>1. i \in 0..Len(p)
    BY <1>1
  <2> HIDE DEF p, i
  <2>2. \A k \in 1..(Len(p) - i) : SubSeq(p, i + 1, Len(p))[k] = p[i + k]
    BY <1>1, <2>1, CutInTwo
  <2>3. QED
    BY <2>2 DEF p, i
<1>5. next = [s EXCEPT !.pending = rest, !.text = text, !.reasoning = reasoning]
  BY DEF Release
<1> HIDE DEF rest, text, reasoning
<1>6. next.pending = rest /\ next.text = text /\ next.reasoning = reasoning
  BY <1>5 DEF Split
<1>7. \A k \in 1..Len(next.pending) : next.pending[k] = p[n + gone + k]
  <2>1. Len(next.pending) = Len(p) - (n + gone)
    BY <1>1, <1>3
  <2>2. QED
    BY <1>4, <1>6, <2>1
<1> HIDE DEF p, a, b
<1>8. (T \o a) \o passed = T \o (a \o passed) /\ (R \o b) \o passed = R \o (b \o passed)
  <2>2. passed \in Seq(Symbols)
    BY <1>2
  <2>3. QED
    <3>1. T \in Seq(Symbols) /\ R \in Seq(Symbols) /\ a \in Seq(Symbols) /\ b \in Seq(Symbols)
      BY <1>1
    <3>2. (T \o a) \o passed = T \o (a \o passed)
      BY Zenon, <2>2, <3>1, Joined
    <3>3. (R \o b) \o passed = R \o (b \o passed)
      BY Zenon, <2>2, <3>1, Joined
    <3>4. QED
      BY <3>2, <3>3
<1>9. Shown(next, R, T) = Given(Shown(s, R, T), passed)
  <2>1. CASE s.close = Outside
    <3>1. text = a \o passed /\ reasoning = b
      BY <2>1 DEF text, reasoning
    <3>2. Shown(next, R, T) = [close |-> s.close, skip |-> 0, reasoning |-> R \o b, text |-> T \o (a \o passed)]
      BY <1>3, <1>6, <3>1 DEF Shown
    <3>3. Given(Shown(s, R, T), passed)
            = [close |-> s.close, skip |-> 0, reasoning |-> R \o b, text |-> (T \o a) \o passed]
      BY <2>1 DEF Shown, Given, a, b
    <3>4. QED
      BY <1>8, <3>2, <3>3
  <2>2. CASE s.close # Outside
    <3>1. text = a /\ reasoning = b \o passed
      BY <2>2 DEF text, reasoning
    <3>2. Shown(next, R, T) = [close |-> s.close, skip |-> 0, reasoning |-> R \o (b \o passed), text |-> T \o a]
      BY <1>3, <1>6, <3>1 DEF Shown
    <3>3. Given(Shown(s, R, T), passed)
            = [close |-> s.close, skip |-> 0, reasoning |-> (R \o b) \o passed, text |-> T \o a]
      BY <2>2 DEF Shown, Given, a, b
    <3>4. QED
      BY <1>8, <3>2, <3>3
  <2>3. QED
    BY <2>1, <2>2
<1>10. QED
  BY <1>2, <1>3, <1>7, <1>9 DEF p, Releases

(* Releasing what no tag begins in is reading on.                          *)
ReadsPast(w, q, s, n, gone, next, R, T) ==
  /\ next \in Split /\ next.close = s.close
  /\ Len(next.pending) = Len(s.pending) - n - gone
  /\ Behind(s.pending, n + gone, next.pending)
  /\ Behind(w, q + (n + gone), next.pending)
  /\ At(w, q + n) = Shown(next, R, T)

LEMMA ReleaseReads ==
  ASSUME NEW w \in Seq(Symbols), NEW q \in Nat, NEW s \in Split,
         NEW R \in Seq(Symbols), NEW T \in Seq(Symbols),
         Behind(w, q, s.pending), At(w, q) = Shown(s, R, T),
         NEW n \in Nat, NEW gone \in Nat, n + gone <= Len(s.pending),
         Clear(w, q, n, s.close),
         NEW next, next = Release(s, n, gone)
  PROVE  ReadsPast(w, q, s, n, gone, next, R, T)
<1> DEFINE p == s.pending
           passed == SubSeq(p, 1, n)
           rest == next.pending
           l == Len(p)
           i == n + gone
<1>1. /\ passed \in Seq(Symbols) /\ Len(passed) = n
      /\ \A k \in 1..n : passed[k] = p[k]
      /\ next \in Split /\ next.close = s.close
      /\ Len(rest) = l - n - gone
      /\ \A k \in 1..Len(rest) : rest[k] = p[n + gone + k]
      /\ Shown(next, R, T) = Given(Shown(s, R, T), passed)
  <2>1. passed = SubSeq(s.pending, 1, n)
    OBVIOUS
  <2> HIDE DEF passed
  <2>2. Releases(s, n, gone, passed, next, R, T)
    BY ZenonT(30), <2>1, ReleasedGives
  <2>3. QED
    BY <2>2 DEF Releases
<1>2. q + l <= Len(w) /\ \A k \in 1..l : w[q + k] = p[k]
  BY DEF Behind
<1>3. l \in Nat /\ Len(w) \in Nat /\ i \in Nat /\ i <= l /\ Len(rest) = l - i /\ n <= l
  <2>1. l \in Nat
    BY DEF Split
  <2>2. QED
    BY <1>1, <2>1
<1> HIDE DEF p, passed, rest, l
<1>4. Behind(w, q, passed)
  <2>1. q + n <= Len(w) /\ \A k \in 1..n : k \in 1..l
    BY <1>2, <1>3
  <2>2. QED
    BY <1>1, <1>2, <2>1 DEF Behind
<1>5. Behind(p, i, rest)
  <2>1. i + Len(rest) <= Len(p)
    BY <1>3 DEF l
  <2>2. QED
    BY <1>1, <2>1 DEF Behind
<1>6. Behind(w, q + i, rest)
  <2>1. (q + i) + Len(rest) <= Len(w)
    BY <1>2, <1>3
  <2>2. ASSUME NEW k \in 1..Len(rest) PROVE w[(q + i) + k] = rest[k]
    <3>1. i + k \in 1..l /\ (q + i) + k = q + (i + k)
      BY <1>3
    <3>2. w[q + (i + k)] = p[i + k]
      BY <1>2, <3>1
    <3>3. QED
      BY <1>1, <3>1, <3>2
  <2>3. QED
    BY <2>1, <2>2 DEF Behind
<1>7. At(w, q + n) = Shown(next, R, T)
  <2> DEFINE r == Shown(s, R, T)
  <2>1. r.skip = 0 /\ r.close = s.close
    BY DEF Shown
  <2>2. r = At(w, q)
    OBVIOUS
  <2>3. Clear(w, q, Len(passed), r.close) /\ passed \in Seq(Symbols)
    BY <1>1, <2>1
  <2> HIDE DEF r
  <2>4. At(w, q + Len(passed)) = Given(r, passed)
    BY <1>4, <2>1, <2>2, <2>3, RunsAcross
  <2>5. QED
    BY <1>1, <2>4 DEF r
<1>8. QED
  BY <1>1, <1>5, <1>6, <1>7 DEF p, rest, l, ReadsPast

(* What a turn of the loop does to where reading stands.                   *)
PassReads(w, q, s, R, T, next) ==
  LET d == Len(s.pending) - Len(next.pending)
  IN  /\ next \in Split /\ d \in Nat
      /\ Behind(w, q + d, next.pending)
      /\ At(w, q + d) = Shown(next, R, T)

TurnReads(w, q, s, R, T, next) ==
  /\ PassReads(w, q, s, R, T, next)
  /\ Settled(next.pending, next.close) \/ next.more = s.more

(* So is a turn of the loop, and one that ends it leaves no tag behind.    *)
LEMMA LastPassReads ==
  ASSUME NEW w \in Seq(Symbols), NEW q \in Nat, NEW s \in Split,
         NEW R \in Seq(Symbols), NEW T \in Seq(Symbols),
         Behind(w, q, s.pending), At(w, q) = Shown(s, R, T), Settled(s.pending, s.close),
         NEW next, next = Pass(s)
  PROVE  TurnReads(w, q, s, R, T, next)
<1> DEFINE p == s.pending
           tags == Awaited(s.close)
           n == Len(p) - HoldBack(p, tags)
           rel == Release(s, n, 0)
<1>1. p \in Seq(Symbols) /\ s.close \in Closings \cup {Outside} /\ Len(p) \in Nat
  BY DEF Split
<1>2. n \in Nat /\ n + 0 <= Len(p) /\ n + 0 = n
  BY <1>1, HeldBack
<1>3. \A t \in tags : Found(p, t) = {}
  BY DEF Settled
<1>4. Clear(w, q, n, s.close)
  BY <1>1, <1>3, NoTagReleased DEF Clear
<1>5. next = [rel EXCEPT !.more = FALSE]
  BY <1>3 DEF Pass
<1> HIDE DEF n, rel
<1>6. /\ rel \in Split /\ rel.close = s.close
      /\ Len(rel.pending) = Len(p) - n - 0
      /\ Behind(p, n + 0, rel.pending)
      /\ Behind(w, q + (n + 0), rel.pending)
      /\ At(w, q + n) = Shown(rel, R, T)
  <2> DEFINE none == 0
  <2>1. rel = Release(s, n, none) /\ none \in Nat
    BY DEF rel
  <2>2. n + none <= Len(s.pending)
    BY <1>2
  <2> HIDE DEF none, tags
  <2>3. ReadsPast(w, q, s, n, none, rel, R, T)
    BY ZenonT(30), <1>2, <1>4, <2>1, <2>2, ReleaseReads
  <2>4. QED
    BY <2>3 DEF none, ReadsPast
<1>7. /\ next \in Split /\ next.close = s.close /\ next.pending = rel.pending
      /\ next.text = rel.text /\ next.reasoning = rel.reasoning
  BY <1>5, <1>6 DEF Split
<1>8. Shown(next, R, T) = Shown(rel, R, T)
  BY <1>6, <1>7 DEF Shown
<1> DEFINE rest == next.pending
<1>9. rest \in Seq(Symbols) /\ Len(rest) \in Nat /\ Len(p) - Len(rest) = n
  <2>1. rest \in Seq(Symbols)
    BY <1>7 DEF Split
  <2>2. QED
    BY <1>1, <1>2, <1>6, <1>7, <2>1
<1>10. Settled(rest, next.close)
  <2> SUFFICES ASSUME NEW t \in tags, NEW i \in Found(rest, t)
               PROVE  FALSE
    BY <1>7 DEF Settled
  <2>1. t \in Tags
    BY <1>1, TagsAreSequences
  <2>2. i \in Nat \ {0}
    BY DEF Found
  <2>3. Behind(p, n, rest)
    BY <1>2, <1>6, <1>7
  <2> HIDE DEF rest, p
  <2>4. n + i \in Found(p, t)
    BY <1>1, <1>2, <1>9, <2>1, <2>2, <2>3, FoundAcross
  <2>5. QED
    BY <1>3, <2>4
<1>11. QED
  <2>1. Len(p) - Len(next.pending) = n /\ n \in Nat
    BY <1>2, <1>9
  <2>2. Behind(w, q + n, next.pending) /\ At(w, q + n) = Shown(next, R, T)
    BY <1>2, <1>6, <1>7, <1>8
  <2>3. next \in Split
    BY <1>7
  <2> HIDE DEF n
  <2>4. PassReads(w, q, s, R, T, next)
    BY <2>1, <2>2, <2>3 DEF PassReads
  <2>5. QED
    BY <2>4, <1>10 DEF TurnReads

(* A turn that finds a tag whole.                                          *)
LEMMA TagPassReads ==
  ASSUME NEW w \in Seq(Symbols), NEW q \in Nat, NEW s \in Split,
         NEW R \in Seq(Symbols), NEW T \in Seq(Symbols),
         Behind(w, q, s.pending), At(w, q) = Shown(s, R, T), ~Settled(s.pending, s.close),
         NEW next, next = Pass(s)
  PROVE  TurnReads(w, q, s, R, T, next)
<1> DEFINE p == s.pending
           tags == Awaited(s.close)
           S == UNION {Found(p, t) : t \in tags}
           first == Min(S)
           tag == CHOOSE t \in tags : first \in Found(p, t)
           rel == Release(s, first - 1, Len(tag))
<1>1. p \in Seq(Symbols) /\ s.close \in Closings \cup {Outside} /\ Len(p) \in Nat /\ tags \subseteq Tags
  BY TagsAreSequences DEF Split
<1>2. ~(\A t \in tags : Found(p, t) = {})
  BY DEF Settled
<1>3. /\ tag \in tags /\ Len(tag) \in Nat \ {0} /\ first \in 1..(Len(p) - Len(tag) + 1)
      /\ first \in Found(p, tag)
  <2> HIDE DEF p, tags
  <2>1. QED
    BY <1>1, <1>2, FirstFound
<1>4. \A t \in tags : \A j \in Found(p, t) : first <= j
  <2>1. ASSUME NEW t \in tags, NEW j \in Found(p, t) PROVE j \in Nat
    BY DEF Found
  <2>2. S \subseteq Nat /\ S # {}
    BY <1>2, <2>1
  <2>3. \A j \in S : first <= j
    <3> HIDE DEF S
    <3>1. QED
      BY <2>2, MinOf
  <2>4. QED
    BY <2>3
<1>5. next = [rel EXCEPT !.close = Toggled(s.close, tag)]
  <2>1. next = [rel EXCEPT !.close = Toggled(@, tag)]
    BY <1>2 DEF Pass
  <2>2. rel.close = s.close
    BY DEF Release, Split
  <2>3. QED
    BY <2>1, <2>2
<1> HIDE DEF S, first, tag
<1> DEFINE n == first - 1
           m == Len(tag)
<1>6. n \in Nat /\ m \in Nat \ {0} /\ n + m <= Len(p) /\ first \in Nat \ {0} /\ first = n + 1
  BY <1>1, <1>3
<1>7. ASSUME NEW t \in tags, NEW i \in 1..first, q + i \in Found(w, t)
      PROVE  i = first /\ t = tag
  <2> HIDE DEF p
  <2>1. Behind(w, q, p)
    BY DEF p
  <2>2. QED
    <3>1. Foremost(p, s.close, first, tag) /\ t \in Awaited(s.close)
      BY <1>3, <1>4 DEF Foremost
    <3>2. p \in Seq(Symbols) /\ s.close \in Closings \cup {Outside}
      BY <1>1
    <3> HIDE DEF tags
    <3>3. AtFirst(i, t, first, tag)
      BY ZenonT(30), <1>7, <2>1, <3>1, <3>2, NoTagAhead
    <3>4. QED
      BY <3>3 DEF AtFirst
<1>8. \A i \in 1..n : Begun(w, q + i, s.close) = {}
  <2> SUFFICES ASSUME NEW i \in 1..n, NEW t \in tags, q + i \in Found(w, t) PROVE FALSE
    BY DEF Begun
  <2>1. i \in 1..first /\ i # first
    BY <1>6
  <2>2. QED
    BY <1>7, <2>1
<1>9. Begun(w, q + first, s.close) = {tag}
  <2>1. first \in 1..first
    BY <1>6
  <2>2. q + first \in Found(w, tag)
    <3>1. tag \in Tags /\ Behind(w, q, p)
      BY <1>1, <1>3
    <3> HIDE DEF p
    <3>2. QED
      BY <1>1, <1>3, <1>6, <3>1, FoundAcross
  <2>3. QED
    BY <1>3, <1>7, <2>1, <2>2 DEF Begun
<1>10. /\ rel \in Split /\ rel.close = s.close
       /\ Len(rel.pending) = Len(p) - n - m
       /\ Behind(w, q + (n + m), rel.pending)
       /\ At(w, q + n) = Shown(rel, R, T)
  <2> HIDE DEF n, m
  <2>1. rel = Release(s, n, m)
    BY DEF n, m
  <2> HIDE DEF rel
  <2>2. QED
    <3>1. n \in Nat /\ m \in Nat /\ n + m <= Len(s.pending)
      BY <1>6
    <3>2. Clear(w, q, n, s.close)
      BY <1>8 DEF Clear
    <3> HIDE DEF p, tags
    <3>3. ReadsPast(w, q, s, n, m, rel, R, T)
      BY ZenonT(30), <2>1, <3>1, <3>2, ReleaseReads
    <3>4. QED
      BY <3>3 DEF p, ReadsPast
<1>11. rel.more = s.more /\ Toggled(s.close, tag) \in Closings \cup {Outside}
  <2>1. rel.more = s.more
    BY DEF Release, Split
  <2>2. QED
    BY <1>1, <1>3, <2>1, TogglesTyped
<1> HIDE DEF rel
<1>12. /\ next \in Split /\ next.close = Toggled(s.close, tag) /\ next.pending = rel.pending
       /\ next.text = rel.text /\ next.reasoning = rel.reasoning /\ next.more = s.more
  BY <1>5, <1>10, <1>11 DEF Split
<1>13. Len(p) - Len(next.pending) = n + m
  <2> DEFINE k == Len(next.pending)
             l == Len(p)
  <2>1. k = l - n - m /\ l \in Nat
    BY <1>1, <1>10, <1>12
  <2>2. n \in Nat /\ m \in Nat
    BY <1>6
  <2> HIDE DEF n, m, k, l
  <2>3. l - k = n + m
    BY <2>1, <2>2
  <2>4. QED
    BY <2>3 DEF k, l
<1>14. At(w, q + (n + m)) = Shown(next, R, T)
  <2> DEFINE r == Shown(rel, R, T)
             e == Entered(r, tag)
  <2>1. r \in Reading /\ r.skip = 0 /\ r.close = s.close
    BY <1>10, ShownTyped DEF Shown
  <2>2. e.skip = m - 1 /\ [e EXCEPT !.skip = 0] = Shown(next, R, T)
    <3> DEFINE x == R \o rel.reasoning
               y == T \o rel.text
               c == Toggled(s.close, tag)
    <3>1. r = [close |-> s.close, skip |-> 0, reasoning |-> x, text |-> y]
      BY <1>10 DEF Shown
    <3>2. Shown(next, R, T) = [close |-> c, skip |-> 0, reasoning |-> x, text |-> y]
      BY <1>12 DEF Shown
    <3>3. e = [r EXCEPT !.close = Toggled(@, tag), !.skip = Len(tag) - 1]
      BY DEF Entered
    <3> HIDE DEF x, y, r
    <3>4. e = [close |-> c, skip |-> m - 1, reasoning |-> x, text |-> y]
      BY <3>1, <3>3
    <3> HIDE DEF c, m, e
    <3>5. QED
      BY <3>2, <3>4
  <2>3. q + (n + m) <= Len(w)
    BY <1>6, <1>10 DEF Behind, Split
  <2> HIDE DEF n, m, r, e
  <2>4. /\ q + n \in Nat /\ (q + n) + 1 <= Len(w) /\ (q + n) + 1 = q + first
        /\ q + first \in Nat /\ (q + first) + (m - 1) = q + (n + m)
    BY <1>6, <2>3
  <2>5. At(w, q + first) = ReadStep(w, q + first, r) /\ q + first \in 1..Len(w)
    <3>1. At(w, (q + n) + 1) = ReadStep(w, (q + n) + 1, At(w, q + n)) /\ (q + n) + 1 \in 1..Len(w)
      BY <2>4, AtNext
    <3>2. QED
      BY <1>10, <2>4, <3>1 DEF r
  <2>6. \E t \in Begun(w, q + first, r.close) : ReadStep(w, q + first, r) = Entered(r, t)
    BY <1>9, <2>1, <2>5, ReadsOn
  <2>7. At(w, q + first) = e
    BY <1>9, <2>1, <2>5, <2>6 DEF e
  <2>8. At(w, (q + first) + (m - 1)) = [e EXCEPT !.skip = 0]
    <3>1. (q + first) + e.skip <= Len(w) /\ q + first <= Len(w)
      BY <2>2, <2>3, <2>4, <1>6
    <3>2. At(w, (q + first) + e.skip) = [e EXCEPT !.skip = 0]
      BY <2>4, <2>7, <3>1, SkipsOn
    <3>3. QED
      BY <2>2, <3>2
  <2>9. QED
    BY <2>2, <2>4, <2>8
<1>15. n + m \in Nat
  <2>1. n \in Nat /\ m \in Nat
    BY <1>6
  <2> HIDE DEF n, m
  <2>2. QED
    BY <2>1
<1>16. Behind(w, q + (n + m), next.pending) /\ next \in Split /\ next.more = s.more
  BY <1>10, <1>12
<1> HIDE DEF n, m
<1>17. PassReads(w, q, s, R, T, next)
  BY <1>13, <1>14, <1>15, <1>16 DEF PassReads
<1>18. QED
  BY <1>16, <1>17 DEF TurnReads

(* Every turn is of one kind or the other.                                 *)
LEMMA PassOn ==
  ASSUME NEW w \in Seq(Symbols), NEW q \in Nat, NEW s \in Split,
         NEW R \in Seq(Symbols), NEW T \in Seq(Symbols),
         Behind(w, q, s.pending), At(w, q) = Shown(s, R, T),
         NEW next, next = Pass(s)
  PROVE  TurnReads(w, q, s, R, T, next)
<1>1. CASE Settled(s.pending, s.close)
  BY Zenon, <1>1, LastPassReads
<1>2. CASE ~Settled(s.pending, s.close)
  BY Zenon, <1>2, TagPassReads
<1>3. QED
  BY <1>1, <1>2

(* All that was fed has been read but for what is pending, whatever comes  *)
(* next.                                                                   *)
Place(close, R, T) == [close |-> close, skip |-> 0, reasoning |-> R, text |-> T]

Stands(F, q, p, close, R, T) ==
  /\ q \in Nat /\ Len(F) = q + Len(p) /\ Behind(F, q, p)
  /\ \A X \in Seq(Symbols) : At(F \o X, q) = Place(close, R, T)

Standing(F, p, close, R, T) == \E q \in Nat : Stands(F, q, p, close, R, T)

(* What is behind a place stays there when more comes.                     *)
LEMMA BehindMore ==
  ASSUME NEW F \in Seq(Symbols), NEW q \in Nat, NEW p \in Seq(Symbols),
         Len(F) = q + Len(p), Behind(F, q, p), NEW u \in Seq(Symbols)
  PROVE  /\ Len(F \o u) = q + Len(p \o u)
         /\ Behind(F \o u, q, p \o u)
         /\ Behind(F \o u, q, p)
<1> DEFINE n == Len(F)
           l == Len(p)
           k == Len(u)
           Fu == F \o u
           pu == p \o u
<1>1. n \in Nat /\ l \in Nat /\ k \in Nat /\ n = q + l /\ \A i \in 1..l : F[q + i] = p[i]
  BY DEF Behind
<1>2. /\ Fu \in Seq(Symbols) /\ Len(Fu) = n + k
      /\ \A i \in 1..(n + k) : Fu[i] = IF i <= n THEN F[i] ELSE u[i - n]
  BY ConcatAs
<1>3. /\ pu \in Seq(Symbols) /\ Len(pu) = l + k
      /\ \A i \in 1..(l + k) : pu[i] = IF i <= l THEN p[i] ELSE u[i - l]
  BY ConcatAs
<1> HIDE DEF n, l, k, Fu, pu
<1>4. ASSUME NEW i \in 1..(l + k) PROVE Fu[q + i] = pu[i]
  <2>1. q + i \in 1..(n + k)
    BY <1>1
  <2>2. CASE i <= l
    <3>1. q + i <= n /\ i \in 1..l
      BY <1>1, <2>2
    <3>2. QED
      BY <1>1, <1>2, <1>3, <2>1, <2>2, <3>1
  <2>3. CASE ~(i <= l)
    <3>1. ~(q + i <= n) /\ (q + i) - n = i - l
      BY <1>1, <2>3
    <3>2. QED
      BY <1>2, <1>3, <2>1, <2>3, <3>1
  <2>4. QED
    BY <2>2, <2>3
<1>5. ASSUME NEW i \in 1..l PROVE Fu[q + i] = p[i]
  <2>1. i \in 1..(l + k) /\ i <= l
    BY <1>1
  <2>2. QED
    BY <1>3, <1>4, <2>1
<1>6. n + k = q + (l + k) /\ q + l <= n + k
  BY <1>1
<1>7. Len(Fu) = q + Len(pu) /\ Behind(Fu, q, pu)
  BY <1>2, <1>3, <1>4, <1>6 DEF Behind
<1>8. Behind(Fu, q, p)
  BY <1>2, <1>5, <1>6 DEF Behind, l
<1>9. QED
  BY <1>7, <1>8 DEF Fu, pu

(* More is fed.                                                            *)
LEMMA FedMore ==
  ASSUME NEW F \in Seq(Symbols), NEW p \in Seq(Symbols), NEW close, NEW R, NEW T,
         Standing(F, p, close, R, T), NEW u \in Seq(Symbols)
  PROVE  Standing(F \o u, p \o u, close, R, T)
<1>1. PICK q \in Nat : Stands(F, q, p, close, R, T)
  BY DEF Standing
<1>2. Len(F) = q + Len(p) /\ Behind(F, q, p)
  BY <1>1 DEF Stands
<1>3. Len(F \o u) = q + Len(p \o u) /\ Behind(F \o u, q, p \o u)
  BY <1>2, BehindMore
<1>4. ASSUME NEW X \in Seq(Symbols) PROVE At((F \o u) \o X, q) = Place(close, R, T)
  <2>1. (F \o u) \o X = F \o (u \o X) /\ u \o X \in Seq(Symbols)
    BY Joined
  <2>2. At(F \o (u \o X), q) = Place(close, R, T)
    BY <1>1, <2>1 DEF Stands
  <2>3. QED
    BY <2>1, <2>2
<1>5. Stands(F \o u, q, p \o u, close, R, T)
  BY <1>3, <1>4 DEF Stands
<1>6. QED
  BY <1>5 DEF Standing

(* A turn of the loop.                                                     *)
StandsIn(F, s, R, T) ==
  Standing(F, s.pending, s.close, R \o s.reasoning, T \o s.text)

LEMMA PassStands ==
  ASSUME NEW F \in Seq(Symbols), NEW s \in Split,
         NEW R \in Seq(Symbols), NEW T \in Seq(Symbols), StandsIn(F, s, R, T),
         NEW next, next = Pass(s)
  PROVE  /\ StandsIn(F, next, R, T)
         /\ Settled(next.pending, next.close) \/ next.more = s.more
<1> DEFINE p == s.pending
           d == Len(p) - Len(next.pending)
<1>1. PICK q \in Nat : Stands(F, q, p, s.close, R \o s.reasoning, T \o s.text)
  BY DEF StandsIn, Standing
<1>2. p \in Seq(Symbols) /\ Len(p) \in Nat
  BY DEF Split
<1>3. Len(F) = q + Len(p) /\ Behind(F, q, p)
  BY <1>1 DEF Stands
<1>4. ASSUME NEW X \in Seq(Symbols)
      PROVE  /\ PassReads(F \o X, q, s, R, T, next)
             /\ Settled(next.pending, next.close) \/ next.more = s.more
  <2> DEFINE w == F \o X
  <2>1. w \in Seq(Symbols)
    OBVIOUS
  <2>2. Behind(w, q, s.pending)
    BY <1>2, <1>3, BehindMore
  <2>3. At(w, q) = Shown(s, R, T)
    BY <1>1 DEF Stands, Shown, Place
  <2> HIDE DEF w, p
  <2>4. TurnReads(w, q, s, R, T, next)
    BY Zenon, <2>1, <2>2, <2>3, PassOn
  <2>5. QED
    BY <2>4 DEF w, TurnReads
<1>5. <<>> \in Seq(Symbols) /\ F \o <<>> = F
  BY ConcatEmptySeq
<1>6. PassReads(F, q, s, R, T, next)
  BY <1>4, <1>5
<1>7. next \in Split /\ d \in Nat /\ Behind(F, q + d, next.pending)
  BY <1>6 DEF PassReads
<1>8. Len(F) = (q + d) + Len(next.pending) /\ q + d \in Nat
  <2> DEFINE l == Len(p)
             k == Len(next.pending)
  <2>1. l \in Nat /\ k \in Nat /\ d = l - k /\ Len(F) = q + l /\ d \in Nat
    BY <1>2, <1>3, <1>7 DEF Split
  <2> HIDE DEF l, k, d
  <2>2. q + l = (q + d) + k /\ q + d \in Nat
    BY <2>1
  <2>3. QED
    BY <2>1, <2>2 DEF k
<1>9. \A X \in Seq(Symbols) : At(F \o X, q + d) = Place(next.close, R \o next.reasoning, T \o next.text)
  BY <1>4 DEF PassReads, Shown, Place
<1> HIDE DEF d, p
<1>10. Stands(F, q + d, next.pending, next.close, R \o next.reasoning, T \o next.text)
  BY <1>7, <1>8, <1>9 DEF Stands
<1>11. QED
  BY <1>4, <1>5, <1>8, <1>10 DEF StandsIn, Standing

(* A chunk's text is fed: reading stands as far on, and no tag is pending. *)
LEMMA PushStands ==
  ASSUME NEW splitter \in SplitterState, NEW input \in Seq(Symbols),
         NEW F \in Seq(Symbols), NEW R \in Seq(Symbols), NEW T \in Seq(Symbols),
         Standing(F, splitter.pending, splitter.close, R, T),
         NEW split, split = Push(splitter, input)
  PROVE  /\ StandsIn(F \o input, split, R, T)
         /\ Settled(split.pending, split.close)
<1> DEFINE start == [pending |-> splitter.pending \o input, close |-> splitter.close,
                     reasoning |-> <<>>, text |-> <<>>, more |-> TRUE]
           more == [s \in Split |-> s.more]
           next == [s \in Split |-> Pass(s)]
           loop == CHOOSE f : f = [s \in Split |-> IF s.more THEN f[Pass(s)] ELSE s]
           G == F \o input
           I == {s \in Split : StandsIn(G, s, R, T) /\ (~s.more => Settled(s.pending, s.close))}
<1>1. start \in Split
  BY DEF SplitterState, Split
<1>2. more \in [Split -> BOOLEAN] /\ next \in [Split -> Split]
  BY PassTyped DEF Split
<1>3. \A s \in Split : more[s] => Measure[next[s]] < Measure[s]
  BY PassTyped
<1>4. \A f : IsLoop(f, Split, more, next) <=> f = [s \in Split |-> IF s.more THEN f[Pass(s)] ELSE s]
  <2>1. ASSUME NEW f
        PROVE  [s \in Split |-> IF more[s] THEN f[next[s]] ELSE s]
                 = [s \in Split |-> IF s.more THEN f[Pass(s)] ELSE s]
    OBVIOUS
  <2>2. QED
    BY <2>1 DEF IsLoop
<1>5. split = loop[start]
  BY DEF Push
<1>6. start \in I
  <2>1. start.pending = splitter.pending \o input /\ start.close = splitter.close /\ start.more
        /\ start.reasoning = <<>> /\ start.text = <<>>
    OBVIOUS
  <2>2. R \o <<>> = R /\ T \o <<>> = T /\ splitter.pending \in Seq(Symbols) /\ G \in Seq(Symbols)
    BY ConcatEmptySeq DEF SplitterState
  <2>3. Standing(G, splitter.pending \o input, splitter.close, R, T)
    BY <2>2, FedMore
  <2> HIDE DEF start, G
  <2>4. StandsIn(G, start, R, T)
    BY <2>1, <2>2, <2>3 DEF StandsIn
  <2>5. QED
    BY <1>1, <2>1, <2>4
<1>7. \A s \in I : more[s] => next[s] \in I
  <2> SUFFICES ASSUME NEW s \in I, more[s] PROVE next[s] \in I
    OBVIOUS
  <2> DEFINE t == next[s]
  <2>1. s \in Split /\ StandsIn(G, s, R, T) /\ s.more
    OBVIOUS
  <2>2. t = Pass(s) /\ t \in Split /\ G \in Seq(Symbols)
    BY <1>2, <2>1
  <2> HIDE DEF t, G, next
  <2>3. /\ StandsIn(G, t, R, T)
        /\ Settled(t.pending, t.close) \/ t.more = s.more
    BY <2>1, <2>2, PassStands
  <2>4. ~t.more => Settled(t.pending, t.close)
    BY <2>1, <2>3
  <2>5. t \in I
    BY <2>2, <2>3, <2>4
  <2>6. QED
    BY <2>5 DEF t
<1>8. I \subseteq Split
  OBVIOUS
<1>9. ASSUME NEW s \in I, ~more[s]
      PROVE  StandsIn(G, s, R, T) /\ Settled(s.pending, s.close)
  BY <1>9
<1> HIDE DEF start, more, next, I, G
<1>10. IsLoop(loop, Split, more, next)
  <2>1. \E f : IsLoop(f, Split, more, next)
    BY <1>2, <1>3, MeasureTyped, LoopExists
  <2>2. QED
    BY <1>4, <2>1
<1> HIDE DEF loop
<1>11. loop[start] \in I /\ ~more[loop[start]]
  <2>1. Measure \in [Split -> Nat]
    BY MeasureTyped
  <2> HIDE DEF Measure
  <2>2. \A J : Lasts(J, Split, more, next) => \A s \in J : loop[s] \in J /\ ~more[loop[s]]
    BY <1>2, <1>3, <1>10, <2>1, LoopKeeps
  <2>3. Lasts(I, Split, more, next)
    BY <1>7, <1>8 DEF Lasts
  <2>4. QED
    BY <1>6, <2>2, <2>3
<1>12. QED
  BY <1>5, <1>9, <1>11 DEF G

Divides(d, R, T) == d.reasoning = R /\ d.text = T

(* What is flushed is the rest of what reading it whole gives.             *)
LEMMA FlushStands ==
  ASSUME NEW F \in Seq(Symbols), NEW splitter \in SplitterState,
         NEW R \in Seq(Symbols), NEW T \in Seq(Symbols),
         Standing(F, splitter.pending, splitter.close, R, T),
         Settled(splitter.pending, splitter.close),
         NEW rest, rest = Flush(splitter)
  PROVE  Divides(Divided(F), R \o rest.reasoning, T \o rest.text)
<1> DEFINE p == splitter.pending
           close == splitter.close
<1>1. PICK q \in Nat : Stands(F, q, p, close, R, T)
  BY DEF Standing
<1>2. p \in Seq(Symbols) /\ Len(p) \in Nat /\ close \in Closings \cup {Outside}
  BY DEF SplitterState
<1>3. Len(F) = q + Len(p) /\ Behind(F, q, p) /\ At(F, q) = Place(close, R, T)
  <2>1. <<>> \in Seq(Symbols) /\ F \o <<>> = F
    BY ConcatEmptySeq
  <2>2. QED
    BY <1>1, <2>1 DEF Stands
<1>4. At(F, q).skip = 0 /\ At(F, q).close = close
  BY <1>3 DEF Place
<1>5. Clear(F, q, Len(p), close)
  <2> SUFFICES ASSUME NEW i \in 1..Len(p), NEW t \in Awaited(close), q + i \in Found(F, t)
               PROVE  FALSE
    BY DEF Clear, Begun
  <2>1. t \in Tags /\ Len(t) \in Nat
    BY <1>2, TagsAreSequences
  <2>2. q + i <= Len(F) - Len(t) + 1
    BY DEF Found
  <2> DEFINE l == Len(p)
             m == Len(t)
             n == Len(F)
  <2>3. i + m - 1 <= l
    <3>1. i \in Nat /\ n = q + l /\ q + i <= n - m + 1 /\ m \in Nat /\ l \in Nat
      BY <1>2, <1>3, <2>1, <2>2
    <3> HIDE DEF l, m, n
    <3>2. QED
      BY <3>1
  <2>4. i \in Nat \ {0}
    BY <1>2
  <2> HIDE DEF p, close
  <2>5. i \in Found(p, t)
    BY <1>2, <1>3, <2>1, <2>3, <2>4, FoundAcross
  <2>6. QED
    BY <2>5 DEF Settled, p, close
<1> HIDE DEF p, close
<1>6. At(F, q + Len(p)) = Given(At(F, q), p)
  BY <1>2, <1>3, <1>4, <1>5, RunsAcross
<1>7. Divided(F) = Given(Place(close, R, T), p)
  BY <1>3, <1>6, DividedIs
<1>8. R \o <<>> = R /\ T \o <<>> = T
  BY ConcatEmptySeq
<1>9. CASE close = Outside
  <2>1. Divided(F) = [close |-> close, skip |-> 0, reasoning |-> R, text |-> T \o p]
    BY <1>7, <1>9 DEF Given, Place
  <2>2. rest = [reasoning |-> <<>>, text |-> p]
    BY <1>9 DEF Flush, p, close
  <2>3. QED
    BY <1>8, <2>1, <2>2 DEF Divides
<1>10. CASE close # Outside
  <2>1. Divided(F) = [close |-> close, skip |-> 0, reasoning |-> R \o p, text |-> T]
    BY <1>7, <1>10 DEF Given, Place
  <2>2. rest = [reasoning |-> p, text |-> <<>>]
    BY <1>10 DEF Flush, p, close
  <2>3. QED
    BY <1>8, <2>1, <2>2 DEF Divides
<1>11. QED
  BY <1>9, <1>10

GoesOn(d, R, T) ==
  /\ \E u \in Seq(Symbols) : d.reasoning = R \o u
  /\ \E u \in Seq(Symbols) : d.text = T \o u

(* What has been given is the beginning of what reading it whole gives,    *)
(* whatever comes behind.                                                  *)
LEMMA StandsBegins ==
  ASSUME NEW F \in Seq(Symbols), NEW p \in Seq(Symbols), NEW close,
         NEW R \in Seq(Symbols), NEW T \in Seq(Symbols),
         Standing(F, p, close, R, T), NEW X \in Seq(Symbols)
  PROVE  GoesOn(Divided(F \o X), R, T)
<1> DEFINE w == F \o X
<1>1. PICK q \in Nat : Stands(F, q, p, close, R, T)
  BY DEF Standing
<1>2. w \in Seq(Symbols) /\ At(w, q) = Place(close, R, T) /\ Len(F) = q + Len(p)
  BY <1>1 DEF Stands
<1>3. q \in 0..Len(w)
  <2>1. Len(w) = Len(F) + Len(X) /\ Len(F) \in Nat /\ Len(X) \in Nat /\ Len(p) \in Nat
    BY ConcatProperties
  <2>2. QED
    BY <1>2, <2>1
<1> HIDE DEF w
<1>4. Extends(At(w, q), Divided(w))
  BY <1>2, <1>3, ReadingGrows, DividedIs
<1>5. At(w, q).text = T /\ At(w, q).reasoning = R
  BY <1>2 DEF Place
<1>6. QED
  BY <1>4, <1>5 DEF Extends, GoesOn, w

-----------------------------------------------------------------------------
(* What the frames of a stream carry.                                      *)

Glyphs == Symbols \cup {Aside}
Bearing(channel) == [f \in Frames |-> Bears(f, channel)]
CarriedIn(s, channel) == Gathered(s, Bearing(channel))

LEMMA BearsTyped ==
  ASSUME NEW channel \in Channels
  PROVE  Gives(Bearing(channel), Frames, Seq(Glyphs))
<1>1. ASSUME NEW f \in Frames PROVE Bears(f, channel) \in Seq(Glyphs)
  <2>1. CASE f.kind = channel
    <3>1. f \in ContentFrames
      BY <2>1 DEF Frames, Channels, ToolKinds, Initial, Exception, MessageStop
    <3>2. f.text \in Seq(Glyphs)
      BY <3>1 DEF ContentFrames, Glyphs
    <3>3. QED
      BY <3>2 DEF Bears
  <2>2. CASE f.kind # channel
    BY <2>2 DEF Bears
  <2>3. QED
    BY <2>1, <2>2
<1>2. QED
  BY <1>1 DEF Bearing, Gives

(* Streams put one behind the other carry what each of them does.          *)
LEMMA CarriedParts ==
  ASSUME NEW channel \in Channels
  PROVE  /\ CarriedIn(<<>>, channel) = <<>>
         /\ \A s, t \in Seq(Frames) :
              /\ CarriedIn(s, channel) \in Seq(Glyphs)
              /\ CarriedIn(s \o t, channel) = CarriedIn(s, channel) \o CarriedIn(t, channel)
         /\ \A s \in Seq(Frames), f \in Frames :
              CarriedIn(Append(s, f), channel) = CarriedIn(s, channel) \o Bears(f, channel)
<1> DEFINE g == Bearing(channel)
<1>1. Gives(g, Frames, Seq(Glyphs))
  BY BearsTyped
<1>2. \A f \in Frames : g[f] = Bears(f, channel)
  BY DEF Bearing
<1> HIDE DEF g
<1>3. /\ Gathered(<<>>, g) = <<>>
      /\ \A s \in Seq(Frames) : Gathered(s, g) \in Seq(Glyphs)
      /\ \A s \in Seq(Frames), f \in Frames : Gathered(Append(s, f), g) = Gathered(s, g) \o g[f]
  BY <1>1, GatheredParts
<1>4. ASSUME NEW s \in Seq(Frames)
      PROVE  \A t \in Seq(Frames) : Gathered(s \o t, g) = Gathered(s, g) \o Gathered(t, g)
  BY <1>1, GatheredConcat
<1>5. QED
  BY <1>2, <1>3, <1>4 DEF CarriedIn, g

(* The frames that carry nothing of the provider's content.                *)
Mute == {f \in Frames : f.kind \notin Channels \/ f.text = <<Aside>>}

(* They carry nothing, however many.                                       *)
LEMMA MuteCarries ==
  ASSUME NEW channel \in Channels, NEW s \in Seq(Mute)
  PROVE  s \in Seq(Frames) /\ CarriedIn(s, channel) = <<>>
<1> DEFINE T == {u \in Seq(Frames) : CarriedIn(u, channel) = <<>>}
<1>1. <<>> \in T
  BY CarriedParts
<1>2. ASSUME NEW u \in Seq(Mute), NEW f \in Mute, u \in T
      PROVE  Append(u, f) \in T
  <2>1. f \in Frames /\ u \in Seq(Frames) /\ CarriedIn(u, channel) = <<>>
    BY <1>2 DEF Mute
  <2>2. Bears(f, channel) = <<>>
    BY DEF Bears, Mute
  <2>3. CarriedIn(Append(u, f), channel) = <<>> \o <<>>
    BY <2>1, <2>2, CarriedParts
  <2>4. QED
    BY <2>1, <2>3
<1>3. \A u \in Seq(Mute), f \in Mute : u \in T => Append(u, f) \in T
  BY <1>2
<1> HIDE DEF T
<1>4. Seq(Mute) \subseteq T
  BY <1>1, <1>3, SeqInduction
<1>5. s \in T
  BY <1>4
<1>6. QED
  BY <1>5 DEF T

(* A content frame carries its text, an empty one is not sent.             *)
LEMMA ContentCarries ==
  ASSUME NEW channel \in Channels, NEW other \in Channels, NEW text \in Seq(Symbols)
  PROVE  /\ Content(other, text) \in Seq(Frames)
         /\ CarriedIn(Content(other, text), channel) = IF channel = other THEN text ELSE <<>>
<1> DEFINE f == [kind |-> other, text |-> text]
<1>1. f \in Frames
  BY DEF Frames, ContentFrames
<1>2. text # <<Aside>>
  <2>1. ASSUME text = <<Aside>> PROVE FALSE
    <3>1. text[1] = Aside /\ 1 \in 1..Len(text)
      BY <2>1
    <3>2. text[1] \in Symbols
      BY <3>1
    <3>3. QED
      BY <3>1, <3>2, AsideAssumption
  <2>2. QED
    BY <2>1
<1>3. Bears(f, channel) = IF channel = other THEN text ELSE <<>>
  BY <1>2 DEF Bears
<1>4. Content(other, text) = IF text = <<>> THEN <<>> ELSE <<f>>
  BY DEF Content
<1> HIDE DEF f
<1>5. <<f>> \in Seq(Frames) /\ <<>> \in Seq(Frames) /\ Append(<<>>, f) = <<f>>
  BY <1>1
<1>6. CarriedIn(<<f>>, channel) = <<>> \o Bears(f, channel)
  <2> DEFINE none == <<>>
  <2>1. none \in Seq(Frames) /\ Append(none, f) = <<f>> /\ CarriedIn(none, channel) = <<>>
    BY <1>5, CarriedParts
  <2> HIDE DEF none
  <2>2. CarriedIn(Append(none, f), channel) = CarriedIn(none, channel) \o Bears(f, channel)
    BY <1>1, <2>1, CarriedParts
  <2>3. QED
    BY <2>1, <2>2
<1>7. <<>> \o Bears(f, channel) = Bears(f, channel)
  <2>1. Bears(f, channel) \in Seq(Symbols)
    BY <1>3
  <2>2. QED
    BY <2>1, ConcatEmptySeq
<1>8. CarriedIn(<<>>, channel) = <<>>
  BY CarriedParts
<1>9. QED
  BY <1>3, <1>4, <1>5, <1>6, <1>7, <1>8

(* Emit adds no content.                                                   *)
LEMMA EmitCarries ==
  ASSUME NEW channel \in Channels, NEW s, NEW frames \in Seq(Frames)
  PROVE  /\ Emit(s, frames) \in Seq(Frames)
         /\ CarriedIn(Emit(s, frames), channel) = CarriedIn(frames, channel)
<1> DEFINE first == <<Initial>>
<1>1. first \in Seq(Mute)
  BY DEF Mute, Frames, Initial, Channels
<1> HIDE DEF first
<1>2. first \in Seq(Frames) /\ CarriedIn(first, channel) = <<>>
  BY <1>1, MuteCarries
<1>3. CarriedIn(first \o frames, channel) = <<>> \o CarriedIn(frames, channel)
  BY <1>2, CarriedParts
<1>4. CarriedIn(frames, channel) \in Seq(Glyphs)
  BY CarriedParts
<1>5. <<>> \o CarriedIn(frames, channel) = CarriedIn(frames, channel)
  BY <1>4, ConcatEmptySeq
<1>6. first \o frames \in Seq(Frames)
  BY <1>2
<1>7. QED
  BY <1>3, <1>5, <1>6 DEF Emit, first

(* Two pieces of content, behind frames that carry none.                   *)
LEMMA BothCarry ==
  ASSUME NEW mute \in Seq(Mute), NEW a \in Seq(Symbols), NEW b \in Seq(Symbols)
  PROVE  LET s == mute \o Content("reasoning", a) \o Content("text", b)
         IN  /\ s \in Seq(Frames)
             /\ CarriedIn(s, "reasoning") = a /\ CarriedIn(s, "text") = b
<1> DEFINE x == Content("reasoning", a)
           y == Content("text", b)
<1>1. "reasoning" \in Channels /\ "text" \in Channels /\ "reasoning" # "text"
  BY DEF Channels
<1>2. /\ x \in Seq(Frames) /\ CarriedIn(x, "reasoning") = a /\ CarriedIn(x, "text") = <<>>
      /\ y \in Seq(Frames) /\ CarriedIn(y, "reasoning") = <<>> /\ CarriedIn(y, "text") = b
  BY <1>1, ContentCarries
<1>3. mute \in Seq(Frames) /\ CarriedIn(mute, "reasoning") = <<>> /\ CarriedIn(mute, "text") = <<>>
  BY <1>1, MuteCarries
<1> HIDE DEF x, y
<1>4. ASSUME NEW channel \in Channels
      PROVE  CarriedIn(mute \o x \o y, channel)
               = (CarriedIn(mute, channel) \o CarriedIn(x, channel)) \o CarriedIn(y, channel)
  <2>1. CarriedIn(mute \o x, channel) = CarriedIn(mute, channel) \o CarriedIn(x, channel)
    BY <1>2, <1>3, CarriedParts
  <2>2. mute \o x \in Seq(Frames)
    BY <1>2, <1>3
  <2>3. CarriedIn((mute \o x) \o y, channel) = CarriedIn(mute \o x, channel) \o CarriedIn(y, channel)
    BY <1>2, <2>2, CarriedParts
  <2>4. QED
    BY <2>1, <2>3
<1>5. (<<>> \o a) \o <<>> = a /\ (<<>> \o <<>>) \o b = b
  BY ConcatEmptySeq
<1>6. CarriedIn(mute \o x \o y, "reasoning") = a /\ CarriedIn(mute \o x \o y, "text") = b
  BY <1>1, <1>2, <1>3, <1>4, <1>5
<1>7. mute \o x \o y \in Seq(Frames)
  BY <1>2, <1>3
<1>8. QED
  BY <1>6, <1>7 DEF x, y

(* What a chunk puts on the stream carries what its splitting gave.        *)
LEMMA ChunkCarries ==
  ASSUME NEW s \in TranslatorState, NEW payload \in Payloads, NEW split \in Split
  PROVE  LET frames == ChunkFrames(s, payload, split)
         IN  /\ frames \in Seq(Frames)
             /\ CarriedIn(frames, "reasoning") = split.reasoning
             /\ CarriedIn(frames, "text") = split.text
<1> DEFINE delta == payload.tool[1]
           calls == IF payload.tool = <<>> THEN <<>> ELSE ToolFrames(s, delta)
           thought == [kind |-> "reasoning", text |-> <<Aside>>]
           aside == IF payload.reasoning THEN Content("reasoning", <<Aside>>) ELSE <<>>
           frames == ChunkFrames(s, payload, split)
<1>1. calls \in Seq(Mute)
  <2>1. CASE payload.tool = <<>>
    BY <2>1
  <2>2. CASE payload.tool # <<>>
    <3>1. delta \in Deltas
      BY <2>2 DEF Payloads
    <3> HIDE DEF delta
    <3> DEFINE says == SaysOf(s.tools[delta.index], delta)
    <3>2. ToolFrames(s, delta) \in Seq(says)
      BY <3>1, ToolFramesSay
    <3>3. says \subseteq Mute
      BY DEF SaysOf, Mute, Channels
    <3> HIDE DEF says
    <3>4. ToolFrames(s, delta) \in Seq(Mute)
      BY <3>2, <3>3, SeqMonotonic
    <3>5. QED
      BY <2>2, <3>4
  <2>3. QED
    BY <2>1, <2>2
<1>2. aside \in Seq(Mute)
  <2>1. thought \in Mute
    <3>1. <<Aside>> \in Seq(Symbols \cup {Aside})
      OBVIOUS
    <3>2. thought \in ContentFrames
      BY <3>1 DEF ContentFrames, Channels
    <3>3. QED
      BY <3>2 DEF Mute, Frames
  <2>2. Content("reasoning", <<Aside>>) = <<thought>>
    BY DEF Content
  <2> HIDE DEF thought
  <2>3. <<thought>> \in Seq(Mute)
    BY <2>1
  <2>4. Content("reasoning", <<Aside>>) \in Seq(Mute)
    BY Zenon, <2>2, <2>3
  <2> DEFINE c == Content("reasoning", <<Aside>>)
  <2>5. <<>> \in Seq(Mute) /\ c \in Seq(Mute)
    BY <2>4
  <2> HIDE DEF c
  <2>6. (IF payload.reasoning THEN c ELSE <<>>) \in Seq(Mute)
    BY <2>5
  <2>7. QED
    BY <2>6 DEF c
<1>3. split.reasoning \in Seq(Symbols) /\ split.text \in Seq(Symbols)
  BY DEF Split
<1> HIDE DEF calls, aside
<1>4. calls \o aside \in Seq(Mute)
  BY <1>1, <1>2
<1>5. frames = calls \o aside \o Content("reasoning", split.reasoning) \o Content("text", split.text)
  BY DEF ChunkFrames, calls, aside
<1> HIDE DEF frames
<1> DEFINE mute == calls \o aside
<1>6. /\ frames = mute \o Content("reasoning", split.reasoning) \o Content("text", split.text)
      /\ mute \in Seq(Mute)
  BY <1>4, <1>5
<1> HIDE DEF mute
<1>7. /\ frames \in Seq(Frames)
      /\ CarriedIn(frames, "reasoning") = split.reasoning
      /\ CarriedIn(frames, "text") = split.text
  BY <1>3, <1>6, BothCarry
<1>8. QED
  BY <1>7 DEF frames

LEMMA MuteBehind ==
  ASSUME NEW channel \in Channels, NEW s \in Seq(Frames), NEW mute \in Seq(Mute)
  PROVE  /\ s \o mute \in Seq(Frames)
         /\ CarriedIn(s \o mute, channel) = CarriedIn(s, channel)
<1>1. mute \in Seq(Frames) /\ CarriedIn(mute, channel) = <<>>
  BY MuteCarries
<1>2. CarriedIn(s \o mute, channel) = CarriedIn(s, channel) \o <<>>
  BY <1>1, CarriedParts
<1>3. CarriedIn(s, channel) \in Seq(Glyphs)
  BY CarriedParts
<1>4. CarriedIn(s, channel) \o <<>> = CarriedIn(s, channel)
  BY <1>3, ConcatEmptySeq
<1>5. QED
  BY <1>1, <1>2, <1>4

(* So does what finishing puts there, in front of the stop.                *)
LEMMA FinishCarries ==
  ASSUME NEW s \in TranslatorState, IsFiniteSet(s.known)
  PROVE  LET frames == FinishFrames(s)
             rest == Flush(s.thinking)
         IN  /\ frames \in Seq(Frames)
             /\ CarriedIn(frames, "reasoning") = rest.reasoning
             /\ CarriedIn(frames, "text") = rest.text
<1> DEFINE rest == Flush(s.thinking)
           a == Content("reasoning", rest.reasoning)
           b == Content("text", rest.text)
           said == a \o b
           stops == IF s.calls THEN ToolStops(s) ELSE <<>>
           usage == IF s.usage # 0 THEN <<UsageFrame(s.usage)>> ELSE <<>>
           stop == <<MessageStop>>
           frames == FinishFrames(s)
<1>1. rest.reasoning \in Seq(Symbols) /\ rest.text \in Seq(Symbols)
  <2>1. s.thinking.pending \in Seq(Symbols)
    BY DEF TranslatorState, SplitterState
  <2>2. QED
    BY <2>1 DEF Flush
<1>2. stops \in Seq(Mute)
  <2>1. \A t \in s.known : StopFrame(s, t) \in Mute
    <3> SUFFICES ASSUME NEW t \in s.known PROVE StopFrame(s, t) \in Mute
      OBVIOUS
    <3>1. t \in Tools /\ s.tools[t] \in Entries
      BY DEF TranslatorState
    <3>2. QED
      BY <3>1 DEF StopFrame, ToolFrame, Mute, Frames, Entries, ToolKinds, Channels
  <2>2. {StopFrame(s, t) : t \in s.known} \subseteq Mute
    BY <2>1
  <2>3. ToolStops(s) \in Seq({StopFrame(s, t) : t \in s.known})
    BY ToolStopsSay
  <2>4. ToolStops(s) \in Seq(Mute)
    BY <2>2, <2>3, SeqMonotonic
  <2>5. QED
    BY <2>4
<1>3. usage \in Seq(Mute)
  <2>1. s.usage \in Nat
    BY DEF TranslatorState
  <2>2. UsageFrame(s.usage) \in Mute
    BY <2>1 DEF UsageFrame, Mute, Frames, Channels
  <2>3. QED
    BY <2>2
<1>4. stop \in Seq(Mute)
  BY DEF MessageStop, Mute, Frames, Channels
<1>5. /\ said \in Seq(Frames)
      /\ CarriedIn(said, "reasoning") = rest.reasoning /\ CarriedIn(said, "text") = rest.text
  <2> DEFINE none == <<>>
  <2>1. none \in Seq(Mute)
    OBVIOUS
  <2>2. a \in Seq(Frames)
    BY <1>1, ContentCarries DEF Channels
  <2> HIDE DEF rest
  <2>3. none \o a = a
    BY <2>2, ConcatEmptySeq
  <2> HIDE DEF none
  <2>4. /\ none \o a \o b \in Seq(Frames)
        /\ CarriedIn(none \o a \o b, "reasoning") = rest.reasoning
        /\ CarriedIn(none \o a \o b, "text") = rest.text
    BY <1>1, <2>1, BothCarry
  <2>5. QED
    BY <2>3, <2>4
<1>6. frames = ((said \o stops) \o usage) \o stop
  BY DEF FinishFrames, Rest
<1> HIDE DEF said, stops, usage, stop, frames, rest
<1>7. ASSUME NEW channel \in Channels
      PROVE  frames \in Seq(Frames) /\ CarriedIn(frames, channel) = CarriedIn(said, channel)
  <2> DEFINE x == said \o stops
             y == x \o usage
  <2>1. x \in Seq(Frames) /\ CarriedIn(x, channel) = CarriedIn(said, channel)
    BY <1>2, <1>5, MuteBehind
  <2> HIDE DEF x
  <2>2. y \in Seq(Frames) /\ CarriedIn(y, channel) = CarriedIn(x, channel)
    BY <1>3, <2>1, MuteBehind
  <2>3. frames = y \o stop
    BY <1>6 DEF x
  <2> HIDE DEF y
  <2>4. y \o stop \in Seq(Frames) /\ CarriedIn(y \o stop, channel) = CarriedIn(y, channel)
    BY <1>4, <2>2, MuteBehind
  <2>5. QED
    BY <2>1, <2>2, <2>3, <2>4
<1>8. frames \in Seq(Frames) /\ CarriedIn(frames, "reasoning") = rest.reasoning
      /\ CarriedIn(frames, "text") = rest.text
  BY <1>5, <1>7 DEF Channels
<1>9. QED
  BY <1>8 DEF frames, rest

-----------------------------------------------------------------------------
(* What a stream owes to what was said: its beginning, and all of it once  *)
(* the stream has its stop.                                                *)

Begins(a, b) == \E u \in Seq(Glyphs) : b = a \o u
Stops(s) == \E k \in DOMAIN s : s[k].kind = "stop"

WholeOf(w, s) ==
  \A channel \in Channels :
    /\ Begins(CarriedIn(s, channel), Divided(w)[channel])
    /\ Stops(s) => CarriedIn(s, channel) = Divided(w)[channel]

(* What has been fed is on the stream but for what the splitter holds.     *)
SpokenOf(F, s, t) ==
  /\ CarriedIn(s, "reasoning") \in Seq(Symbols) /\ CarriedIn(s, "text") \in Seq(Symbols)
  /\ Standing(F, t.pending, t.close, CarriedIn(s, "reasoning"), CarriedIn(s, "text"))
  /\ Settled(t.pending, t.close)

LEMMA GlyphsHaveSymbols ==
  ASSUME NEW u \in Seq(Symbols)
  PROVE  u \in Seq(Glyphs)
BY DEF Glyphs

LEMMA BeginsAll ==
  ASSUME NEW a \in Seq(Glyphs)
  PROVE  Begins(a, a) /\ Begins(<<>>, a)
<1>1. <<>> \in Seq(Glyphs) /\ a = a \o <<>> /\ a = <<>> \o a
  BY ConcatEmptySeq
<1>2. QED
  BY <1>1 DEF Begins

LEMMA BeginsShorter ==
  ASSUME NEW a \in Seq(Glyphs), NEW b \in Seq(Glyphs), NEW c, Begins(a \o b, c)
  PROVE  Begins(a, c)
<1>1. PICK u \in Seq(Glyphs) : c = (a \o b) \o u
  BY DEF Begins
<1>2. (a \o b) \o u = a \o (b \o u) /\ b \o u \in Seq(Glyphs)
  BY ConcatAssociative
<1>3. QED
  BY <1>1, <1>2 DEF Begins

(* As long as it has no stop, it is enough that the rest may come.         *)
LEMMA SpokenWhole ==
  ASSUME NEW F \in Seq(Symbols), NEW X \in Seq(Symbols), NEW s, NEW t \in SplitterState,
         SpokenOf(F, s, t), ~Stops(s)
  PROVE  WholeOf(F \o X, s)
<1> DEFINE R == CarriedIn(s, "reasoning")
           T == CarriedIn(s, "text")
           w == F \o X
<1>1. /\ R \in Seq(Symbols) /\ T \in Seq(Symbols)
      /\ Standing(F, t.pending, t.close, R, T) /\ t.pending \in Seq(Symbols)
  BY DEF SpokenOf, SplitterState
<1> HIDE DEF R, T
<1>2. /\ \E u \in Seq(Symbols) : Divided(w).reasoning = R \o u
      /\ \E u \in Seq(Symbols) : Divided(w).text = T \o u
  <2> DEFINE p == t.pending
             close == t.close
  <2>1. Standing(F, p, close, R, T) /\ p \in Seq(Symbols)
    BY <1>1
  <2> HIDE DEF p, close, w
  <2>2. GoesOn(Divided(F \o X), R, T)
    BY <1>1, <2>1, StandsBegins
  <2>3. QED
    BY <2>2 DEF w, GoesOn
<1> HIDE DEF w
<1>3. Begins(R, Divided(w).reasoning) /\ Begins(T, Divided(w).text)
  BY <1>2, GlyphsHaveSymbols DEF Begins
<1>4. \A channel \in Channels : Begins(CarriedIn(s, channel), Divided(w)[channel])
  BY <1>3 DEF Channels, R, T
<1>5. QED
  BY <1>4 DEF WholeOf, w

(* A payload is fed.                                                       *)
LEMMA SpokenFeeds ==
  ASSUME NEW F \in Seq(Symbols), NEW s \in Seq(Frames), NEW x \in TranslatorState,
         SpokenOf(F, s, x.thinking), NEW p \in Payloads,
         NEW split, split = Push(x.thinking, p.content),
         NEW new, new = Emit(x, ChunkFrames(x, p, split)),
         NEW t, t = [pending |-> split.pending, close |-> split.close]
  PROVE  SpokenOf(F \o p.content, s \o new, t)
<1> DEFINE R == CarriedIn(s, "reasoning")
           T == CarriedIn(s, "text")
           th == x.thinking
           input == p.content
           G == F \o input
<1>1. /\ R \in Seq(Symbols) /\ T \in Seq(Symbols)
      /\ Standing(F, th.pending, th.close, R, T)
      /\ th \in SplitterState /\ input \in Seq(Symbols)
  BY DEF SpokenOf, TranslatorState, Payloads
<1>2. split = Push(th, input) /\ split \in Split
  BY <1>1, PushTyped
<1> HIDE DEF R, T, th, input
<1>3. StandsIn(G, split, R, T) /\ Settled(split.pending, split.close)
  BY <1>1, <1>2, PushStands
<1> DEFINE frames == ChunkFrames(x, p, split)
<1>4. /\ frames \in Seq(Frames)
      /\ CarriedIn(frames, "reasoning") = split.reasoning
      /\ CarriedIn(frames, "text") = split.text
  BY <1>2, ChunkCarries
<1> HIDE DEF frames
<1>5. "reasoning" \in Channels /\ "text" \in Channels
  BY DEF Channels
<1>6. /\ new \in Seq(Frames)
      /\ CarriedIn(new, "reasoning") = split.reasoning
      /\ CarriedIn(new, "text") = split.text
  BY <1>4, <1>5, EmitCarries DEF frames
<1>7. /\ CarriedIn(s \o new, "reasoning") = R \o split.reasoning
      /\ CarriedIn(s \o new, "text") = T \o split.text
  <2>1. \A channel \in Channels :
          CarriedIn(s \o new, channel) = CarriedIn(s, channel) \o CarriedIn(new, channel)
    BY <1>6, CarriedParts
  <2>2. QED
    BY <1>5, <1>6, <2>1 DEF R, T
<1>8. R \o split.reasoning \in Seq(Symbols) /\ T \o split.text \in Seq(Symbols)
  <2>1. split.reasoning \in Seq(Symbols) /\ split.text \in Seq(Symbols)
    BY <1>2 DEF Split
  <2>2. QED
    BY <1>1, <2>1
<1>9. t.pending = split.pending /\ t.close = split.close
  OBVIOUS
<1> HIDE DEF G
<1>10. SpokenOf(G, s \o new, t)
  BY <1>3, <1>7, <1>8, <1>9 DEF SpokenOf, StandsIn
<1>11. QED
  BY <1>10 DEF G, input

(* The rest is flushed.                                                    *)
LEMMA SpokenEnds ==
  ASSUME NEW F \in Seq(Symbols), NEW s \in Seq(Frames), NEW x \in TranslatorState,
         IsFiniteSet(x.known), SpokenOf(F, s, x.thinking),
         NEW new, new = Emit(x, FinishFrames(x))
  PROVE  WholeOf(F, s \o new)
<1> DEFINE R == CarriedIn(s, "reasoning")
           T == CarriedIn(s, "text")
           th == x.thinking
           rest == Flush(th)
           frames == FinishFrames(x)
<1>1. /\ R \in Seq(Symbols) /\ T \in Seq(Symbols)
      /\ Standing(F, th.pending, th.close, R, T) /\ Settled(th.pending, th.close)
      /\ th \in SplitterState
  BY DEF SpokenOf, TranslatorState
<1>2. /\ frames \in Seq(Frames)
      /\ CarriedIn(frames, "reasoning") = rest.reasoning
      /\ CarriedIn(frames, "text") = rest.text
  BY FinishCarries
<1>3. rest = Flush(th)
  OBVIOUS
<1> HIDE DEF R, T, th, rest
<1>4. Divides(Divided(F), R \o rest.reasoning, T \o rest.text)
  BY Zenon, <1>1, <1>3, FlushStands
<1> HIDE DEF frames
<1>5. "reasoning" \in Channels /\ "text" \in Channels
  BY DEF Channels
<1>6. /\ new \in Seq(Frames)
      /\ CarriedIn(new, "reasoning") = rest.reasoning
      /\ CarriedIn(new, "text") = rest.text
  BY <1>2, <1>5, EmitCarries DEF frames
<1>7. /\ CarriedIn(s \o new, "reasoning") = Divided(F).reasoning
      /\ CarriedIn(s \o new, "text") = Divided(F).text
  BY <1>4, <1>5, <1>6, CarriedParts DEF R, T, Divides
<1>8. \A channel \in Channels : CarriedIn(s \o new, channel) = Divided(F)[channel]
  BY <1>7 DEF Channels
<1>9. s \o new \in Seq(Frames)
  BY <1>6
<1> DEFINE u == s \o new
<1> HIDE DEF u
<1>10. \A channel \in Channels : CarriedIn(u, channel) \in Seq(Glyphs)
  BY <1>9, CarriedParts DEF u
<1>11. \A channel \in Channels : Begins(CarriedIn(u, channel), CarriedIn(u, channel))
  BY <1>10, BeginsAll
<1>12. QED
  BY <1>8, <1>11 DEF WholeOf, u

(* The stream is cut before its stop, or goes on with what carries nothing.*)
LEMMA WholeCut ==
  ASSUME NEW w, NEW a \in Seq(Frames), NEW b \in Seq(Frames), WholeOf(w, a \o b), ~Stops(a)
  PROVE  WholeOf(w, a)
<1>1. ASSUME NEW channel \in Channels PROVE Begins(CarriedIn(a, channel), Divided(w)[channel])
  <2>1. /\ CarriedIn(a, channel) \in Seq(Glyphs) /\ CarriedIn(b, channel) \in Seq(Glyphs)
        /\ CarriedIn(a \o b, channel) = CarriedIn(a, channel) \o CarriedIn(b, channel)
    BY CarriedParts
  <2>2. Begins(CarriedIn(a, channel) \o CarriedIn(b, channel), Divided(w)[channel])
    BY <2>1 DEF WholeOf
  <2>3. QED
    BY <2>1, <2>2, BeginsShorter
<1>2. QED
  BY <1>1 DEF WholeOf

LEMMA WholeMuted ==
  ASSUME NEW w, NEW s \in Seq(Frames), NEW mute \in Seq(Mute), WholeOf(w, s), ~Stops(s \o mute)
  PROVE  WholeOf(w, s \o mute)
<1>1. \A channel \in Channels : CarriedIn(s \o mute, channel) = CarriedIn(s, channel)
  BY MuteBehind
<1>2. QED
  BY <1>1 DEF WholeOf

-----------------------------------------------------------------------------
(* What was said, and how much of it has been fed.                         *)

Contents == [p \in Payloads |-> p.content]
SaidBy(t) == Gathered(t, Contents)
FedText == SaidBy(SubSeq(told, 1, Progress))

(* What is said in order is said one after the other.                      *)
LEMMA SaidParts ==
  /\ SaidBy(<<>>) = <<>>
  /\ \A s, t \in Seq(Payloads) : SaidBy(s) \in Seq(Symbols) /\ SaidBy(s \o t) = SaidBy(s) \o SaidBy(t)
  /\ \A s \in Seq(Payloads), p \in Payloads : SaidBy(Append(s, p)) = SaidBy(s) \o p.content
<1>1. Gives(Contents, Payloads, Seq(Symbols)) /\ \A p \in Payloads : Contents[p] = p.content
  BY DEF Gives, Contents, Payloads
<1>2. /\ Gathered(<<>>, Contents) = <<>>
      /\ \A s \in Seq(Payloads) : Gathered(s, Contents) \in Seq(Symbols)
      /\ \A s \in Seq(Payloads), p \in Payloads :
           Gathered(Append(s, p), Contents) = Gathered(s, Contents) \o Contents[p]
  BY <1>1, GatheredParts
<1>3. ASSUME NEW s \in Seq(Payloads)
      PROVE  \A t \in Seq(Payloads) :
               Gathered(s \o t, Contents) = Gathered(s, Contents) \o Gathered(t, Contents)
  BY <1>1, GatheredConcat
<1>4. QED
  BY <1>1, <1>2, <1>3 DEF SaidBy

LEMMA SaidIs ==
  ASSUME told \in Seq(Chunks)
  PROVE  told \in Seq(Payloads) /\ Said = SaidBy(told)
<1>1. told \in Seq(Payloads)
  BY ChunksAssumption, SeqMonotonic
<1>2. [n \in DOMAIN told |-> told[n].content] = [n \in DOMAIN told |-> Contents[told[n]]]
  <2>1. \A n \in DOMAIN told : told[n] \in Payloads
    BY <1>1
  <2>2. \A n \in DOMAIN told : Contents[told[n]] = told[n].content
    BY <2>1 DEF Contents
  <2>3. QED
    BY <2>2
<1>3. QED
  BY <1>1, <1>2 DEF Said, SaidBy, Gathered, Mapped

(* The first n of them, and the rest.                                      *)
LEMMA FirstSaid ==
  ASSUME NEW t \in Seq(Payloads), NEW n \in 0..Len(t)
  PROVE  /\ SubSeq(t, 1, n) \in Seq(Payloads) /\ SaidBy(SubSeq(t, 1, n)) \in Seq(Symbols)
         /\ \E X \in Seq(Symbols) : SaidBy(t) = SaidBy(SubSeq(t, 1, n)) \o X
         /\ n = Len(t) => SubSeq(t, 1, n) = t
<1> DEFINE a == SubSeq(t, 1, n)
           b == SubSeq(t, n + 1, Len(t))
<1>1. a \in Seq(Payloads) /\ b \in Seq(Payloads) /\ t = a \o b
  BY CutInTwo
<1>2. n = Len(t) => a = t
  OBVIOUS
<1> HIDE DEF a, b
<1>3. SaidBy(a) \in Seq(Symbols) /\ SaidBy(b) \in Seq(Symbols) /\ SaidBy(a \o b) = SaidBy(a) \o SaidBy(b)
  BY <1>1, SaidParts
<1>4. \E X \in Seq(Symbols) : SaidBy(t) = SaidBy(a) \o X
  BY <1>1, <1>3
<1>5. QED
  BY <1>1, <1>2, <1>3, <1>4 DEF a

(* The next payload adds what it says.                                     *)
LEMMA OneMoreSaid ==
  ASSUME NEW t \in Seq(Payloads), NEW n \in Nat, n + 1 <= Len(t)
  PROVE  SaidBy(SubSeq(t, 1, n + 1)) = SaidBy(SubSeq(t, 1, n)) \o t[n + 1].content
<1> DEFINE a == SubSeq(t, 1, n)
           c == SubSeq(t, 1, n + 1)
           p == t[n + 1]
<1>1. n \in 0..Len(t) /\ n + 1 \in 0..Len(t) /\ n + 1 \in 1..Len(t)
  OBVIOUS
<1>2. p \in Payloads
  BY <1>1
<1>3. /\ a \in Seq(Payloads) /\ Len(a) = n /\ \A k \in 1..n : a[k] = t[k]
  BY <1>1, CutInTwo
<1>4. /\ c \in Seq(Payloads) /\ Len(c) = n + 1 /\ \A k \in 1..(n + 1) : c[k] = t[k]
  <2> DEFINE m == n + 1
  <2>1. m \in 0..Len(t)
    BY <1>1
  <2> HIDE DEF m
  <2>2. SubSeq(t, 1, m) \in Seq(Payloads) /\ Len(SubSeq(t, 1, m)) = m
        /\ \A k \in 1..m : SubSeq(t, 1, m)[k] = t[k]
    BY <2>1, CutInTwo
  <2>3. QED
    BY <2>2 DEF m
<1>5. p = t[n + 1]
  OBVIOUS
<1> HIDE DEF a, c, p
<1>6. /\ Append(a, p) \in Seq(Payloads) /\ Len(Append(a, p)) = n + 1
      /\ \A k \in 1..(n + 1) : Append(a, p)[k] = t[k]
  BY <1>2, <1>3, <1>5
<1>7. c = Append(a, p)
  <2> DEFINE d == Append(a, p)
  <2>1. d \in Seq(Payloads) /\ Len(d) = n + 1 /\ \A k \in 1..(n + 1) : d[k] = t[k]
    BY <1>6
  <2> HIDE DEF d
  <2>2. c = d
    BY <1>4, <2>1, SeqEqual
  <2>3. QED
    BY <2>2 DEF d
<1>8. SaidBy(Append(a, p)) = SaidBy(a) \o p.content
  BY <1>2, <1>3, SaidParts
<1>9. QED
  BY <1>7, <1>8 DEF a, c, p

(* What the first of them said stays when more is said.                    *)
LEMMA SaidStays ==
  ASSUME NEW t \in Seq(Payloads), NEW u \in Seq(Payloads), NEW n \in 0..Len(t)
  PROVE  SubSeq(t \o u, 1, n) = SubSeq(t, 1, n) /\ n \in 0..Len(t \o u)
<1> DEFINE a == SubSeq(t, 1, n)
           w == t \o u
           b == SubSeq(w, 1, n)
<1>1. w \in Seq(Payloads) /\ Len(w) = Len(t) + Len(u) /\ \A k \in 1..Len(t) : w[k] = t[k]
  BY ConcatProperties
<1>2. n \in 0..Len(w) /\ Len(t) \in Nat /\ n \in Nat /\ n <= Len(t)
  BY <1>1
<1>3. a \in Seq(Payloads) /\ Len(a) = n /\ \A k \in 1..n : a[k] = t[k]
  BY CutInTwo
<1> HIDE DEF w
<1>4. b \in Seq(Payloads) /\ Len(b) = n /\ \A k \in 1..n : b[k] = w[k]
  BY <1>1, <1>2, CutInTwo
<1> HIDE DEF a, b
<1>5. \A k \in 1..n : b[k] = a[k]
  BY <1>1, <1>2, <1>3, <1>4
<1>6. b = a
  BY <1>3, <1>4, <1>5, SeqEqual
<1>7. QED
  BY <1>2, <1>6 DEF a, b, w

LEMMA ProgressTyped ==
  ASSUME Typed
  PROVE  /\ Progress \in 0..Len(told) /\ told \in Seq(Payloads) /\ Said = SaidBy(told)
         /\ FedText \in Seq(Symbols)
         /\ \E X \in Seq(Symbols) : Said = FedText \o X
         /\ line = <<>> /\ todo = <<>> => FedText = Said
<1>1. told \in Seq(Payloads) /\ Said = SaidBy(told)
  BY SaidIs DEF Typed
<1> DEFINE n == Len(told)
           l == Len(line)
           m == Len(todo)
<1>2. n \in Nat /\ l \in Nat /\ m \in Nat /\ l + m <= n
  BY DEF Typed
<1>3. Progress = n - l - m
  BY DEF Progress
<1>4. line = <<>> /\ todo = <<>> => l = 0 /\ m = 0
  OBVIOUS
<1> HIDE DEF l, m, n
<1>5. Progress \in 0..n /\ (l = 0 /\ m = 0 => Progress = n)
  BY <1>2, <1>3
<1> DEFINE q == Progress
<1>6. q \in 0..Len(told) /\ (line = <<>> /\ todo = <<>> => q = Len(told))
  BY <1>4, <1>5 DEF n
<1> HIDE DEF q
<1>7. /\ SaidBy(SubSeq(told, 1, q)) \in Seq(Symbols)
      /\ \E X \in Seq(Symbols) : SaidBy(told) = SaidBy(SubSeq(told, 1, q)) \o X
      /\ q = Len(told) => SubSeq(told, 1, q) = told
  BY <1>1, <1>6, FirstSaid
<1>8. FedText = SaidBy(SubSeq(told, 1, q))
  BY DEF FedText, q
<1>9. QED
  BY <1>1, <1>6, <1>7, <1>8 DEF q

-----------------------------------------------------------------------------
(* On top of the stream's invariant: what has been fed is on the stream    *)
(* but for what the splitter holds; once the turn has stopped speaking,    *)
(* the stream has what it owes.                                            *)
ContentInv ==
  /\ StreamInv
  /\ pc \in Speaking => SpokenOf(FedText, Stream, st.thinking)
  /\ pc \notin Speaking => WholeOf(Said, Stream)

LEMMA AlwaysWhole ==
  ASSUME ContentInv
  PROVE  /\ Stream \in Seq(Frames) /\ WholeOf(Said, Stream)
         /\ pc \in Speaking => ~Stops(Stream)
<1>1. Typed /\ Stream \in Seq(Frames) /\ st.thinking \in SplitterState
  BY StreamTyped DEF ContentInv, StreamInv, Typed, TranslatorState
<1>2. CASE pc \in Speaking
  <2>1. ~Stops(Stream) /\ SpokenOf(FedText, Stream, st.thinking)
    BY <1>2, PlainHasNoStop DEF ContentInv, StreamInv, Stops
  <2>2. FedText \in Seq(Symbols)
    BY <1>1, ProgressTyped
  <2>3. PICK X \in Seq(Symbols) : Said = FedText \o X
    BY <1>1, ProgressTyped
  <2>4. WholeOf(FedText \o X, Stream)
    BY <1>1, <2>1, <2>2, SpokenWhole
  <2>5. QED
    BY <1>1, <2>1, <2>3, <2>4
<1>3. CASE pc \notin Speaking
  BY <1>1, <1>3 DEF ContentInv
<1>4. QED
  BY <1>2, <1>3

(* Nothing is fed, nothing put on the stream.                              *)
LEMMA KeepsContent ==
  ASSUME ContentInv, StreamInv', Stream' = Stream, UNCHANGED <<st, told, line, todo>>,
         pc' \in Speaking => pc \in Speaking
  PROVE  ContentInv'
<1>1. Progress' = Progress /\ Said' = Said
  BY DEF Progress, Said
<1>2. FedText' = FedText
  BY <1>1 DEF FedText
<1>3. pc' \in Speaking => SpokenOf(FedText', Stream', st'.thinking)
  BY <1>2 DEF ContentInv
<1>4. WholeOf(Said', Stream')
  BY <1>1, AlwaysWhole
<1>5. QED
  BY <1>3, <1>4 DEF ContentInv

LEMMA InitContent == Init => ContentInv
<1> SUFFICES ASSUME Init PROVE ContentInv
  OBVIOUS
<1>1. Stream = <<>> /\ told = <<>> /\ line = <<>> /\ todo = <<>> /\ pc = "translating"
  BY DEF Init, Stream
<1>2. StreamInv
  BY InitStream
<1>3. st.thinking.pending = <<>> /\ st.thinking.close = Outside
  BY DEF Init, Fresh
<1>4. FedText = <<>>
  <2>1. FedText = Said /\ Said = SaidBy(told)
    BY <1>1, <1>2, ProgressTyped DEF StreamInv
  <2>2. QED
    BY <1>1, <2>1, SaidParts
<1>5. \A channel \in Channels : CarriedIn(Stream, channel) = <<>>
  BY <1>1, CarriedParts
<1>6. Standing(<<>>, <<>>, Outside, <<>>, <<>>)
  <2> DEFINE none == <<>>
  <2>1. none \in Seq(Symbols) /\ Len(none) = 0
    OBVIOUS
  <2>2. ASSUME NEW X \in Seq(Symbols) PROVE At(none \o X, 0) = Place(Outside, <<>>, <<>>)
    <3>1. none \o X = X
      BY ConcatEmptySeq
    <3>2. At(X, 0) = Unread
      BY ReadingIs
    <3>3. QED
      BY <3>1, <3>2 DEF Unread, Place
  <2>3. Behind(none, 0, none)
    BY <2>1 DEF Behind
  <2>4. 0 \in Nat /\ Len(none) = 0 + Len(none)
    BY <2>1
  <2>5. Stands(none, 0, none, Outside, <<>>, <<>>)
    BY <2>2, <2>3, <2>4 DEF Stands
  <2>6. QED
    BY <2>4, <2>5 DEF Standing
<1>7. Settled(<<>>, Outside)
  <2> SUFFICES ASSUME NEW t \in Awaited(Outside), NEW i \in Found(<<>>, t) PROVE FALSE
    BY DEF Settled
  <2>1. t \in Tags
    BY TagsAreSequences
  <2>2. Len(t) \in Nat \ {0}
    BY <2>1, TagsAreSequences DEF Outside
  <2>3. i \in 1..(0 - Len(t) + 1)
    BY DEF Found
  <2>4. QED
    BY <2>2, <2>3
<1>8. SpokenOf(FedText, Stream, st.thinking)
  <2>1. CarriedIn(Stream, "reasoning") = <<>> /\ CarriedIn(Stream, "text") = <<>>
    BY <1>5 DEF Channels
  <2>2. <<>> \in Seq(Symbols)
    OBVIOUS
  <2> DEFINE none == <<>>
             out0 == Outside
             th == st.thinking
  <2>3. /\ CarriedIn(Stream, "reasoning") = none /\ CarriedIn(Stream, "text") = none
        /\ none \in Seq(Symbols) /\ FedText = none /\ th.pending = none /\ th.close = out0
        /\ Standing(none, none, out0, none, none) /\ Settled(none, out0)
    BY <1>3, <1>4, <1>6, <1>7, <2>1, <2>2
  <2> HIDE DEF none, out0, th
  <2>4. SpokenOf(FedText, Stream, th)
    BY <2>3 DEF SpokenOf
  <2>5. QED
    BY <2>4 DEF th
<1>9. pc \in Speaking
  BY <1>1 DEF Speaking
<1>10. QED
  BY <1>2, <1>8, <1>9 DEF ContentInv

(* A call that fails has said nothing.                                     *)
LEMMA CallFailsContent ==
  ASSUME ContentInv, StreamInv', CallFails
  PROVE  ContentInv'
<1>1. pc' = "done" /\ wire' = <<Initial, Exception>> /\ UNCHANGED out /\ out = <<>>
  BY DEF CallFails, ContentInv, StreamInv, Typed
<1>2. Stream' = wire'
  BY <1>1 DEF Stream
<1> DEFINE s == <<Initial, Exception>>
<1>3. s \in Seq(Mute)
  BY DEF Mute, Frames, Initial, Exception, Channels
<1>4. ~Stops(s)
  BY DEF Stops, Initial, Exception
<1> HIDE DEF s
<1>5. \A channel \in Channels : CarriedIn(s, channel) = <<>>
  BY <1>3, MuteCarries
<1>6. WholeOf(Said, Stream)
  BY AlwaysWhole
<1>7. \A channel \in Channels : Begins(<<>>, Divided(Said)[channel])
  <2> SUFFICES ASSUME NEW channel \in Channels PROVE Begins(<<>>, Divided(Said)[channel])
    OBVIOUS
  <2>1. /\ Begins(CarriedIn(Stream, channel), Divided(Said)[channel])
        /\ CarriedIn(Stream, channel) \in Seq(Glyphs)
    BY <1>6, AlwaysWhole, CarriedParts DEF WholeOf
  <2>2. CarriedIn(Stream, channel) = <<>> \o CarriedIn(Stream, channel) /\ <<>> \in Seq(Glyphs)
    BY <2>1, ConcatEmptySeq
  <2>3. QED
    BY <2>1, <2>2, BeginsShorter
<1>8. WholeOf(Said, s)
  BY <1>4, <1>5, <1>7 DEF WholeOf
<1>9. Said' = Said
  BY DEF Said, CallFails
<1>10. pc' \notin Speaking
  BY <1>1 DEF Speaking
<1>11. Stream' = s
  BY <1>1, <1>2 DEF s
<1>12. WholeOf(Said', Stream')
  BY <1>8, <1>9, <1>11
<1>13. QED
  BY <1>10, <1>12 DEF ContentInv

(* What is received is not fed yet.                                        *)
LEMMA ReceiveContent ==
  ASSUME ContentInv, StreamInv', Receive
  PROVE  ContentInv'
<1>1. Typed
  BY DEF ContentInv, StreamInv
<1>2. PICK came \in Seq(Chunks) :
         /\ came # <<>> /\ told' = told \o came /\ Len(told) + Len(came) \leq MaxPayloads
         /\ \/ todo' = line \o came /\ line' = <<>>
            \/ todo' = line \o Front(came) /\ line' = <<Last(came)>>
         /\ pc = "selecting" /\ pc' = "feeding"
         /\ UNCHANGED <<turn, st, out, wire, read, client>>
  BY <1>1, ReceiveParts
<1>3. Stream' = Stream
  BY <1>2 DEF Stream
<1>4. /\ told \in Seq(Chunks) /\ line \in Seq(Chunks) /\ todo = <<>>
  BY <1>1, <1>2 DEF Typed
<1>5. Len(line') + Len(todo') = Len(line) + Len(came) /\ Len(line') \in Nat /\ Len(todo') \in Nat
  <2>1. CASE todo' = line \o came /\ line' = <<>>
    <3>1. Len(line \o came) = Len(line) + Len(came) /\ Len(line) \in Nat /\ Len(came) \in Nat
      BY <1>4, ConcatParts
    <3>2. QED
      BY <2>1, <3>1
  <2>2. CASE todo' = line \o Front(came) /\ line' = <<Last(came)>>
    <3>1. Front(came) \in Seq(Chunks) /\ Len(Front(came)) = Len(came) - 1 /\ Len(came) \in Nat
      BY <1>2, FrontOf
    <3>2. Len(line \o Front(came)) = Len(line) + Len(Front(came)) /\ Len(line) \in Nat /\ Len(Front(came)) \in Nat
      BY <1>4, <3>1, ConcatParts
    <3>3. Len(line') = 1
      BY <2>2
    <3> DEFINE a == Len(line)
               b == Len(came)
               c == Len(Front(came))
    <3>4. Len(todo') = a + c /\ c = b - 1 /\ a \in Nat /\ b \in Nat /\ c \in Nat
      BY <2>2, <3>1, <3>2
    <3> HIDE DEF a, b, c
    <3>5. 1 + (a + c) = a + b /\ a + c \in Nat
      BY <3>4
    <3>6. QED
      BY <3>3, <3>4, <3>5 DEF a, b
  <2>3. QED
    BY <1>2, <2>1, <2>2
<1>6. Len(told') = Len(told) + Len(came) /\ Len(told) \in Nat /\ Len(came) \in Nat /\ Len(line) \in Nat
  BY <1>2, <1>4, ConcatParts
<1>7. Progress' = Progress
  <2> DEFINE a == Len(line)
             b == Len(came)
             n == Len(told)
             x == Len(line')
             y == Len(todo')
  <2>1. Progress = n - a - 0 /\ Progress' = (n + b) - x - y
    BY <1>4, <1>6 DEF Progress
  <2>2. x + y = a + b /\ x \in Nat /\ y \in Nat /\ a \in Nat /\ b \in Nat /\ n \in Nat
    BY <1>5, <1>6
  <2> HIDE DEF a, b, n, x, y
  <2>3. QED
    BY <2>1, <2>2
<1>8. FedText' = FedText
  <2> DEFINE n == Progress
  <2>1. told \in Seq(Payloads) /\ n \in 0..Len(told) /\ came \in Seq(Payloads)
    BY <1>1, ProgressTyped, ChunksAssumption, SeqMonotonic
  <2>2. n' = n
    BY <1>7
  <2> HIDE DEF n
  <2>3. SubSeq(told \o came, 1, n) = SubSeq(told, 1, n)
    BY <2>1, SaidStays
  <2>4. SubSeq(told', 1, n') = SubSeq(told, 1, n)
    BY <1>2, <2>2, <2>3
  <2>5. QED
    BY <2>4 DEF FedText, n
<1>9. pc \in Speaking /\ pc' \in Speaking
  BY <1>2 DEF Speaking
<1>10. SpokenOf(FedText', Stream', st'.thinking)
  BY <1>2, <1>3, <1>8, <1>9 DEF ContentInv
<1>11. QED
  BY <1>9, <1>10 DEF ContentInv

LEMMA ThinksOn ==
  ASSUME NEW x \in TranslatorState, NEW p \in Payloads, NEW n \in Nat, NEW split \in Split
  PROVE  AfterChunk(x, p, n, split).thinking = [pending |-> split.pending, close |-> split.close]
<1> DEFINE called == IF p.tool = <<>> THEN x ELSE WithDelta(x, p.tool[1])
           frames == ChunkFrames(x, p, split)
           t == [pending |-> split.pending, close |-> split.close]
           emitted == Emitted(called, frames)
<1>1. DOMAIN called = DOMAIN x
  BY DEF WithDelta
<1>2. "thinking" \in DOMAIN x /\ "usage" \in DOMAIN x
  BY DEF TranslatorState
<1>3. DOMAIN emitted = DOMAIN called
  <2> HIDE DEF called, frames
  <2>1. QED
    BY DEF Emitted
<1>4. AfterChunk(x, p, n, split)
        = [emitted EXCEPT !.usage = IF p.usage THEN n ELSE @, !.thinking = t]
  BY DEF AfterChunk
<1> HIDE DEF called, frames, emitted, t
<1>5. AfterChunk(x, p, n, split).thinking = t
  BY <1>1, <1>2, <1>3, <1>4
<1>6. QED
  BY <1>5 DEF t

(* The payload fed is the next that was said.                              *)
LEMMA FeedContent ==
  ASSUME ContentInv, StreamInv', Feed
  PROVE  ContentInv'
<1> DEFINE p == Head(todo)
           split == Push(st.thinking, p.content)
           frames == ChunkFrames(st, p, split)
           new == Emit(st, frames)
           t == [pending |-> split.pending, close |-> split.close]
<1>1. /\ Typed /\ Typed' /\ Queued /\ pc \in Speaking
      /\ SpokenOf(FedText, Stream, st.thinking)
  <2>1. pc \in Speaking
    BY DEF Feed, Speaking
  <2>2. QED
    BY <2>1 DEF ContentInv, StreamInv
<1>2. /\ out = <<>> /\ todo # <<>> /\ out' = new /\ st' = AfterChunk(st, p, Turn, split)
      /\ todo' = Tail(todo)
      /\ UNCHANGED <<turn, pc, line, wire, read, client, told>>
  BY DEF Feed
<1>3. /\ todo \in Seq(Chunks) /\ line \in Seq(Chunks) /\ told \in Seq(Chunks)
      /\ st \in TranslatorState /\ wire \in Seq(Frames)
      /\ Len(line) + Len(todo) <= Len(told)
  BY <1>1 DEF Typed
<1>4. p = todo[1] /\ Len(todo) \in Nat \ {0} /\ p \in Payloads /\ Len(todo') = Len(todo) - 1
  <2>1. p = todo[1] /\ Len(todo) \in Nat \ {0} /\ p \in Chunks /\ Len(Tail(todo)) = Len(todo) - 1
    BY <1>2, <1>3
  <2>2. QED
    BY <1>2, <2>1, ChunksAssumption
<1>5. /\ Progress \in Nat /\ Progress' = Progress + 1 /\ Progress + 1 <= Len(told)
      /\ Turn = Progress + 1 /\ p = told[Progress + 1]
  <2> DEFINE n == Len(told)
             a == Len(line)
             b == Len(todo)
  <2>1. /\ n \in Nat /\ a \in Nat /\ b \in Nat \ {0} /\ a + b <= n
        /\ Progress = n - a - b /\ Progress' = n - a - (b - 1) /\ Turn = n - a - b + 1
    BY <1>2, <1>3, <1>4 DEF Progress, Turn
  <2> HIDE DEF n, a, b
  <2>2. Progress \in Nat /\ Progress' = Progress + 1 /\ Progress + 1 <= n /\ Turn = Progress + 1
    BY <2>1
  <2>3. 1 \in 1..Len(todo)
    BY <1>4
  <2>4. todo[1] = told[Progress + 1]
    BY <1>1, <2>3 DEF Queued
  <2>5. QED
    BY <1>4, <2>2, <2>4 DEF n
<1>6. split \in Split
  <2>1. st.thinking \in SplitterState /\ p.content \in Seq(Symbols)
    BY <1>3, <1>4 DEF TranslatorState, Payloads
  <2> HIDE DEF p
  <2>2. QED
    BY <2>1, PushTyped
<1> HIDE DEF p
<1>7. st'.thinking = t
  <2>1. Turn \in Nat
    BY <1>5
  <2> DEFINE x == split
  <2>2. x \in Split /\ st' = AfterChunk(st, p, Turn, x)
    BY <1>2, <1>6
  <2> HIDE DEF x
  <2>3. st'.thinking = [pending |-> x.pending, close |-> x.close]
    BY <1>3, <1>4, <2>1, <2>2, ThinksOn
  <2>4. QED
    BY <2>3 DEF x
<1>8. FedText \in Seq(Symbols) /\ told \in Seq(Payloads)
  BY <1>1, ProgressTyped
<1>9. FedText' = FedText \o p.content
  <2> DEFINE q == Progress
  <2>1. q \in Nat /\ q + 1 <= Len(told) /\ p = told[q + 1] /\ q' = q + 1
    BY <1>5
  <2>2. FedText' = SaidBy(SubSeq(told, 1, q + 1))
    BY <1>2, <2>1 DEF FedText
  <2>3. FedText = SaidBy(SubSeq(told, 1, q))
    BY DEF FedText
  <2> HIDE DEF q
  <2>4. SaidBy(SubSeq(told, 1, q + 1)) = SaidBy(SubSeq(told, 1, q)) \o told[q + 1].content
    BY <1>8, <2>1, OneMoreSaid
  <2>5. QED
    BY <2>1, <2>2, <2>3, <2>4
<1>10. Stream' = Stream \o new /\ Stream \in Seq(Frames)
  <2>1. Stream = wire
    BY <1>2, <1>3 DEF Stream
  <2>2. Stream' = wire \o new
    BY <1>2 DEF Stream
  <2>3. QED
    BY <1>3, <2>1, <2>2
<1>11. SpokenOf(FedText \o p.content, Stream \o new, t)
  <2> DEFINE y == split
             u == t
             v == new
             F == FedText
             s == Stream
  <2>1. y = Push(st.thinking, p.content) /\ v = Emit(st, ChunkFrames(st, p, y))
        /\ u = [pending |-> y.pending, close |-> y.close]
        /\ F \in Seq(Symbols) /\ s \in Seq(Frames) /\ SpokenOf(F, s, st.thinking)
    BY <1>1, <1>8, <1>10
  <2> HIDE DEF y, u, v, F, s
  <2>2. SpokenOf(F \o p.content, s \o v, u)
    BY Zenon, <1>3, <1>4, <2>1, SpokenFeeds
  <2>3. QED
    BY <2>2 DEF u, v, F, s, y
<1>12. pc' \in Speaking
  BY <1>1, <1>2
<1> HIDE DEF t, new
<1>13. SpokenOf(FedText', Stream', st'.thinking)
  BY <1>7, <1>9, <1>10, <1>11
<1>14. QED
  BY <1>12, <1>13 DEF ContentInv

(* The last line is not fed yet when the provider ends.                    *)
LEMMA EndsContent ==
  ASSUME ContentInv, StreamInv', UpstreamEnds
  PROVE  ContentInv'
<1>1. /\ pc = "selecting" /\ pc' = "flushing" /\ todo' = line /\ line' = <<>>
      /\ UNCHANGED <<turn, st, out, wire, read, client, told>>
  BY DEF UpstreamEnds
<1>2. todo = <<>> /\ line \in Seq(Chunks) /\ told \in Seq(Chunks)
  BY <1>1 DEF ContentInv, StreamInv, Typed
<1>3. Progress' = Progress
  <2>1. Len(todo) = 0 /\ Len(line') = 0 /\ Len(line) \in Nat /\ Len(told) \in Nat
    BY <1>1, <1>2
  <2>2. QED
    BY <1>1, <2>1 DEF Progress
<1>4. FedText' = FedText
  BY <1>1, <1>3 DEF FedText
<1>5. Stream' = Stream /\ pc \in Speaking /\ pc' \in Speaking
  BY <1>1 DEF Stream, Speaking
<1>6. SpokenOf(FedText', Stream', st'.thinking)
  BY <1>1, <1>4, <1>5 DEF ContentInv
<1>7. QED
  BY <1>5, <1>6 DEF ContentInv

(* A provider that fails leaves the stream without its stop.               *)
LEMMA FailsContent ==
  ASSUME ContentInv, StreamInv', UpstreamFails
  PROVE  ContentInv'
<1> DEFINE mute == <<Exception>>
           s == Stream
<1>1. /\ pc = "selecting" /\ pc' = "failing" /\ out' = mute
      /\ UNCHANGED <<turn, line, todo, st, wire, read, client, told>>
  BY DEF UpstreamFails
<1>2. out = <<>> /\ wire \in Seq(Frames)
  BY <1>1 DEF ContentInv, StreamInv, Typed
<1>3. s \in Seq(Frames) /\ WholeOf(Said, s) /\ ~Stops(s)
  <2>1. pc \in Speaking
    BY <1>1 DEF Speaking
  <2>2. QED
    BY <2>1, AlwaysWhole
<1>4. mute \in Seq(Mute)
  BY DEF Mute, Frames, Exception, Channels
<1>5. \A k \in DOMAIN mute : mute[k].kind # "stop"
  BY DEF Exception
<1>6. Stream' = s \o mute
  <2>1. s = wire
    BY <1>2 DEF Stream
  <2>2. QED
    BY <1>1, <2>1 DEF Stream
<1> HIDE DEF mute, s
<1>7. ~Stops(s \o mute)
  <2>1. mute \in Seq(Frames)
    BY <1>4, MuteCarries DEF Channels
  <2> DEFINE u == s \o mute
  <2>2. \A k \in DOMAIN u :
          \/ k \in DOMAIN s /\ u[k] = s[k]
          \/ \E i \in DOMAIN mute : u[k] = mute[i]
    <3>1. /\ Len(s) \in Nat /\ Len(mute) \in Nat /\ DOMAIN s = 1..Len(s) /\ DOMAIN mute = 1..Len(mute)
          /\ DOMAIN u = 1..(Len(s) + Len(mute))
          /\ \A k \in 1..(Len(s) + Len(mute)) : u[k] = IF k <= Len(s) THEN s[k] ELSE mute[k - Len(s)]
      BY <1>3, <2>1, ConcatProperties
    <3> DEFINE n == Len(s)
               m == Len(mute)
    <3> HIDE DEF u, n, m
    <3>2. ASSUME NEW k \in 1..(n + m), ~(k <= n) PROVE k - n \in 1..m
      BY <3>1, <3>2 DEF n, m
    <3>3. ASSUME NEW k \in 1..(n + m), k <= n PROVE k \in 1..n
      BY <3>1, <3>3 DEF n, m
    <3>4. QED
      BY <3>1, <3>2, <3>3 DEF n, m
  <2> HIDE DEF u
  <2>3. \A k \in DOMAIN u : u[k].kind # "stop"
    BY <1>3, <1>5, <2>2 DEF Stops
  <2>4. QED
    BY <2>3 DEF Stops, u
<1>8. WholeOf(Said, s \o mute)
  BY <1>3, <1>4, <1>7, WholeMuted
<1>9. Said' = Said
  BY <1>1 DEF Said
<1>10. pc' \notin Speaking
  BY <1>1 DEF Speaking
<1>11. WholeOf(Said', Stream')
  BY <1>6, <1>8, <1>9
<1>12. QED
  BY <1>10, <1>11 DEF ContentInv

(* What the splitter holds is flushed in front of the stop.                *)
LEMMA FinishContent ==
  ASSUME ContentInv, StreamInv', Finish
  PROVE  ContentInv'
<1> DEFINE new == Emit(st, FinishFrames(st))
           F == FedText
           s == Stream
<1>1. /\ pc = "flushing" /\ pc' = "finishing" /\ out = <<>> /\ todo = <<>> /\ out' = new
      /\ UNCHANGED <<turn, line, todo, wire, read, client, told>>
  BY DEF Finish
<1>2. Typed /\ pc \in Speaking /\ SpokenOf(F, s, st.thinking)
  <2>1. pc \in Speaking
    BY <1>1 DEF Speaking
  <2>2. QED
    BY <2>1 DEF ContentInv, StreamInv
<1>3. /\ st \in TranslatorState /\ IsFiniteSet(st.known) /\ wire \in Seq(Frames) /\ line = <<>>
  BY <1>1, <1>2 DEF Typed
<1>4. F \in Seq(Symbols) /\ F = Said
  BY <1>1, <1>2, <1>3, ProgressTyped
<1>5. Stream' = s \o new /\ s \in Seq(Frames)
  <2>1. s = wire
    BY <1>1, <1>3 DEF Stream
  <2>2. Stream' = wire \o new
    BY <1>1 DEF Stream
  <2>3. QED
    BY <1>3, <2>1, <2>2
<1>6. new = Emit(st, FinishFrames(st))
  OBVIOUS
<1> HIDE DEF new, F, s
<1>7. WholeOf(F, s \o new)
  BY <1>2, <1>3, <1>4, <1>5, <1>6, SpokenEnds
<1>8. Said' = Said
  BY <1>1 DEF Said
<1>9. pc' \notin Speaking
  BY <1>1 DEF Speaking
<1>10. WholeOf(Said', Stream')
  BY <1>4, <1>5, <1>7, <1>8
<1>11. QED
  BY <1>9, <1>10 DEF ContentInv

(* What was still to be sent is cut off.                                   *)
LEMMA CutContent ==
  ASSUME ContentInv, StreamInv', SendFails
  PROVE  ContentInv'
<1>1. out # <<>> /\ pc' = "done" /\ out' = <<>> /\ UNCHANGED <<wire, told>>
  BY DEF SendFails
<1>2. wire \in Seq(Frames) /\ out \in Seq(Frames)
  BY DEF ContentInv, StreamInv, Typed
<1>3. WholeOf(Said, wire \o out)
  BY AlwaysWhole DEF Stream
<1>4. ~Stops(wire)
  BY <1>1, WireParts DEF ContentInv, Stops, Ends
<1>5. WholeOf(Said, wire)
  BY <1>2, <1>3, <1>4, WholeCut
<1>6. Stream' = wire /\ Said' = Said
  BY <1>1, <1>2 DEF Stream, Said
<1>7. pc' \notin Speaking
  BY <1>1 DEF Speaking
<1>8. WholeOf(Said', Stream')
  BY <1>5, <1>6
<1>9. QED
  BY <1>7, <1>8 DEF ContentInv

(* Every step of a turn.                                                   *)
LEMMA ContentStep ==
  ASSUME ContentInv, [Next]_vars
  PROVE  ContentInv'
<1>1. StreamInv'
  BY StreamKept DEF ContentInv
<1>2. CASE UNCHANGED vars
  <2>1. Stream' = Stream /\ UNCHANGED <<st, told, line, todo, pc>>
    BY <1>2 DEF vars, Stream
  <2>2. QED
    BY <1>1, <2>1, KeepsContent
<1>3. CASE Translate \/ CallSucceeds \/ Fed \/ Read \/ ReadEnd \/ Abort
  <2>1. Stream' = Stream /\ UNCHANGED <<st, told, line, todo>> /\ (pc' \in Speaking => pc \in Speaking)
    BY <1>3 DEF Translate, CallSucceeds, Fed, Read, ReadEnd, Abort, Stream, Speaking
  <2>2. QED
    BY <1>1, <2>1, KeepsContent
<1>4. CASE Refuse \/ CallDropped \/ Abandon \/ Return
  <2>1. Stream' = Stream /\ UNCHANGED <<st, told, line, todo>> /\ pc' \notin Speaking
    BY <1>4 DEF Refuse, CallDropped, Abandon, Return, Stream, Speaking
  <2>2. QED
    BY <1>1, <2>1, KeepsContent
<1>5. CASE Send
  <2>1. Stream' = Stream
    <3>1. Typed
      BY DEF ContentInv, StreamInv
    <3>2. QED
      BY <1>5, <3>1, SendParts DEF Stream
  <2>2. UNCHANGED <<st, told, line, todo, pc>>
    BY <1>5 DEF Send
  <2>3. QED
    BY <1>1, <2>1, <2>2, KeepsContent
<1>6. CASE CallFails
  BY <1>1, <1>6, CallFailsContent
<1>7. CASE Receive
  BY <1>1, <1>7, ReceiveContent
<1>8. CASE Feed
  BY <1>1, <1>8, FeedContent
<1>9. CASE UpstreamEnds
  BY <1>1, <1>9, EndsContent
<1>10. CASE UpstreamFails
  BY <1>1, <1>10, FailsContent
<1>11. CASE Finish
  BY <1>1, <1>11, FinishContent
<1>12. CASE SendFails
  BY <1>1, <1>12, CutContent
<1>13. QED
  BY <1>2, <1>3, <1>4, <1>5, <1>6, <1>7, <1>8, <1>9, <1>10, <1>11, <1>12
     DEF Next, TaskStep, ProviderStep, ClientStep

LEMMA ContentHolds == Spec => []ContentInv
BY InitContent, ContentStep, PTL DEF Spec

(* What the wire carries is what the stream's beginning does.              *)
LEMMA WireWhole ==
  ASSUME ContentInv
  PROVE  /\ WholeOf(Said, wire) /\ wire \in Seq(Frames)
         /\ \A channel \in Channels : Carried(channel) = CarriedIn(wire, channel)
<1>1. StreamInv /\ wire \in Seq(Frames) /\ out \in Seq(Frames) /\ Stream = wire \o out
  BY DEF ContentInv, StreamInv, Typed, Stream
<1>2. WholeOf(Said, wire \o out)
  BY <1>1, AlwaysWhole
<1>3. WholeOf(Said, wire)
  <2>1. CASE Stops(wire)
    <3>1. Stream = wire
      BY <1>1, <2>1, WireParts DEF Stops, Ends
    <3>2. QED
      BY <3>1, AlwaysWhole
  <2>2. CASE ~Stops(wire)
    BY <1>1, <1>2, <2>2, WholeCut
  <2>3. QED
    BY <2>1, <2>2
<1>4. ASSUME NEW channel \in Channels PROVE Carried(channel) = CarriedIn(wire, channel)
  <2>1. \A k \in DOMAIN wire : wire[k] \in Frames
    BY <1>1
  <2>2. \A k \in DOMAIN wire : Bearing(channel)[wire[k]] = Bears(wire[k], channel)
    BY <2>1 DEF Bearing
  <2>3. [k \in DOMAIN wire |-> Bears(wire[k], channel)] = [k \in DOMAIN wire |-> Bearing(channel)[wire[k]]]
    BY <2>2
  <2>4. QED
    BY <2>3 DEF Carried, CarriedIn, Gathered, Mapped
<1>5. QED
  BY <1>1, <1>3, <1>4

(* However the content is cut into chunks, lines and reads, what the IDE   *)
(* gets on each channel is what one reading of the whole would put there:  *)
(* its beginning and, once the reply is complete, all of it                *)
(* (ContentIsWhole; thinking.rs:60-124, intercept.rs:77-86).               *)
THEOREM ContentWhole == Spec => []ContentIsWhole
<1>1. ASSUME ContentInv PROVE ContentIsWhole
  <2>1. ASSUME NEW channel \in Channels
        PROVE  /\ IsPrefix(Carried(channel), Divided(Said)[channel])
               /\ Complete => Carried(channel) = Divided(Said)[channel]
    <3> DEFINE c == CarriedIn(wire, channel)
               d == Divided(Said)[channel]
    <3>1. c \in Seq(Glyphs) /\ Begins(c, d) /\ (Stops(wire) => c = d) /\ Carried(channel) = c
      BY <1>1, WireWhole, CarriedParts DEF WholeOf
    <3>2. Complete => Stops(wire)
      BY DEF Complete, OnWire, Stops
    <3> HIDE DEF c, d
    <3>3. PICK u \in Seq(Glyphs) : d = c \o u
      BY <3>1 DEF Begins
    <3>4. IsPrefix(c, d)
      BY <3>1, <3>3, ConcatBegins
    <3>5. IsPrefix(Carried(channel), d) /\ (Complete => Carried(channel) = d)
      BY <3>1, <3>2, <3>4
    <3>6. QED
      BY <3>5 DEF d
  <2>2. QED
    BY <2>1 DEF ContentIsWhole, Channels
<1>2. ContentInv => ContentIsWhole
  BY <1>1
<1>3. QED
  BY <1>2, ContentHolds, PTL

-----------------------------------------------------------------------------
(* The promise to the decoder: every step of a turn is one of EventStream  *)
(* or leaves its state alone.                                              *)

AnnouncedIn(w, t) == {k \in DOMAIN w : w[k].kind = "toolInit" /\ w[k].tool = t /\ w[k].named}
StoppedIn(w, t) == {k \in DOMAIN w : w[k].kind = "toolStop" /\ w[k].tool = t}
BegunIn(w) == [t \in Tools |-> Cardinality(AnnouncedIn(w, t))]
EndedIn(w) == [t \in Tools |-> Cardinality(StoppedIn(w, t))]
Marks(w, kind) == \E k \in DOMAIN w : w[k].kind = kind
PhaseIn(w) ==
  IF w = <<>> THEN "waiting"
  ELSE IF Marks(w, "exception") THEN "failed"
  ELSE IF Marks(w, "stop") THEN "stopped" ELSE "open"

LEMMA DecoderSees ==
  /\ EndsLast(wire) => Phase = PhaseIn(wire)
  /\ EndsLast(wire') => Phase' = PhaseIn(wire')
  /\ [t \in Tools |-> Cardinality(Announced(t))] = BegunIn(wire)
  /\ [t \in Tools |-> Cardinality(Announced(t))]' = BegunIn(wire')
  /\ [t \in Tools |-> Cardinality(Stopped(t))] = EndedIn(wire)
  /\ [t \in Tools |-> Cardinality(Stopped(t))]' = EndedIn(wire')
<1>1. ASSUME EndsLast(wire) PROVE Phase = PhaseIn(wire)
  <2>1. OnWire("exception") # {} <=> Marks(wire, "exception")
    BY DEF Marks, OnWire
  <2>2. Complete <=> Marks(wire, "stop")
    BY DEF Marks, Complete, OnWire
  <2>3. ~(Marks(wire, "exception") /\ Marks(wire, "stop"))
    BY <1>1 DEF Marks, EndsLast, Ends
  <2>4. wire = <<>> => ~Marks(wire, "exception") /\ ~Marks(wire, "stop")
    BY DEF Marks
  <2>5. QED
    BY <2>1, <2>2, <2>3, <2>4 DEF Phase, PhaseIn
<1>2. ASSUME EndsLast(wire') PROVE Phase' = PhaseIn(wire')
  <2>1. OnWire("exception")' # {} <=> Marks(wire', "exception")
    BY DEF Marks, OnWire
  <2>2. Complete' <=> Marks(wire', "stop")
    BY DEF Marks, Complete, OnWire
  <2>3. ~(Marks(wire', "exception") /\ Marks(wire', "stop"))
    BY <1>2 DEF Marks, EndsLast, Ends
  <2>4. wire' = <<>> => ~Marks(wire', "exception") /\ ~Marks(wire', "stop")
    BY DEF Marks
  <2>5. QED
    BY <2>1, <2>2, <2>3, <2>4 DEF Phase, PhaseIn
<1>3. \A t : {k \in OnWire("toolInit") : wire[k].tool = t /\ wire[k].named} = AnnouncedIn(wire, t)
  BY DEF AnnouncedIn, OnWire
<1>4. \A t : {k \in OnWire("toolInit")' : wire'[k].tool = t /\ wire'[k].named} = AnnouncedIn(wire', t)
  BY DEF AnnouncedIn, OnWire
<1>5. \A t : {k \in OnWire("toolStop") : wire[k].tool = t} = StoppedIn(wire, t)
  BY DEF StoppedIn, OnWire
<1>6. \A t : {k \in OnWire("toolStop")' : wire'[k].tool = t} = StoppedIn(wire', t)
  BY DEF StoppedIn, OnWire
<1>7. [t \in Tools |-> Cardinality(Announced(t))] = BegunIn(wire)
  BY <1>3 DEF BegunIn, Announced
<1>8. [t \in Tools |-> Cardinality(Announced(t))]' = BegunIn(wire')
  BY <1>4 DEF BegunIn, Announced
<1>9. [t \in Tools |-> Cardinality(Stopped(t))] = EndedIn(wire)
  BY <1>5 DEF EndedIn, Stopped
<1>10. [t \in Tools |-> Cardinality(Stopped(t))]' = EndedIn(wire')
  BY <1>6 DEF EndedIn, Stopped
<1>11. QED
  BY <1>1, <1>2, <1>7, <1>8, <1>9, <1>10

(* How one more frame shows.                                               *)
LEMMA OneMore ==
  ASSUME NEW w \in Seq(Frames), NEW f \in Frames
  PROVE  LET v == w \o <<f>> IN
         /\ v \in Seq(Frames) /\ v # <<>> /\ Len(v) = Len(w) + 1
         /\ DOMAIN w = 1..Len(w) /\ Len(w) \in Nat /\ DOMAIN v = DOMAIN w \cup {Len(w) + 1}
         /\ \A k \in DOMAIN w : v[k] = w[k] /\ k < Len(w) + 1
         /\ v[Len(w) + 1] = f
<1> DEFINE one == <<f>>
           v == w \o one
<1>1. one \in Seq(Frames) /\ Len(one) = 1 /\ DOMAIN one = {1} /\ one[1] = f
  OBVIOUS
<1> HIDE DEF one
<1>2. /\ v \in Seq(Frames) /\ Len(w) \in Nat /\ Len(v) = Len(w) + 1
      /\ DOMAIN w = 1..Len(w) /\ DOMAIN v = 1..(Len(w) + 1)
      /\ \A k \in DOMAIN w : v[k] = w[k]
      /\ \A k \in DOMAIN one : v[Len(w) + k] = one[k]
  BY <1>1, ConcatParts
<1>3. v[Len(w) + 1] = f
  BY <1>1, <1>2
<1> HIDE DEF v
<1>4. DOMAIN v = DOMAIN w \cup {Len(w) + 1} /\ v # <<>> /\ \A k \in DOMAIN w : k < Len(w) + 1
  BY <1>2
<1>5. QED
  BY <1>2, <1>3, <1>4 DEF v, one

LEMMA OneMoreCounted ==
  ASSUME NEW w \in Seq(Frames), NEW f \in Frames, WellFormed(w \o <<f>>)
  PROVE  LET v == w \o <<f>> IN
         /\ BegunIn(v) = IF Named(f) THEN [BegunIn(w) EXCEPT ![f.tool] = 1] ELSE BegunIn(w)
         /\ EndedIn(v) = IF f.kind = "toolStop" THEN [EndedIn(w) EXCEPT ![f.tool] = 1] ELSE EndedIn(w)
         /\ Named(f) => BegunIn(w)[f.tool] = 0 /\ f.tool \in Tools
         /\ f.kind = "toolStop" => EndedIn(w)[f.tool] = 0 /\ f.tool \in Tools
<1> DEFINE v == w \o <<f>>
           n == Len(w) + 1
<1>1. /\ v \in Seq(Frames) /\ DOMAIN v = DOMAIN w \cup {n}
      /\ \A k \in DOMAIN w : v[k] = w[k] /\ k # n
      /\ v[n] = f
  BY OneMore
<1>2. Unlike(v)
  BY DEF WellFormed
<1>3. f.kind \in ToolKinds => f.tool \in Tools
  BY DEF Frames, ToolKinds, ContentFrames, Channels, Initial, Exception, MessageStop
<1> HIDE DEF v, n
<1>4. ASSUME NEW t
      PROVE  AnnouncedIn(v, t) = IF Named(f) /\ f.tool = t THEN {n} ELSE AnnouncedIn(w, t)
  <2>1. CASE Named(f) /\ f.tool = t
    <3>1. n \in AnnouncedIn(v, t)
      BY <1>1, <2>1 DEF AnnouncedIn, Named
    <3>2. ASSUME NEW k \in AnnouncedIn(v, t) PROVE k = n
      <4>1. k \in DOMAIN v /\ n \in DOMAIN v /\ Same(v[k], v[n])
        BY <1>1, <2>1, <3>2 DEF AnnouncedIn, Named, Same
      <4>2. QED
        BY <1>2, <4>1 DEF Unlike
    <3>3. QED
      BY <2>1, <3>1, <3>2
  <2>2. CASE ~(Named(f) /\ f.tool = t)
    <3>1. n \notin AnnouncedIn(v, t)
      BY <1>1, <2>2 DEF AnnouncedIn, Named
    <3>2. QED
      BY <1>1, <2>2, <3>1 DEF AnnouncedIn
  <2>3. QED
    BY <2>1, <2>2
<1>5. ASSUME NEW t
      PROVE  StoppedIn(v, t) = IF f.kind = "toolStop" /\ f.tool = t THEN {n} ELSE StoppedIn(w, t)
  <2>1. CASE f.kind = "toolStop" /\ f.tool = t
    <3>1. n \in StoppedIn(v, t)
      BY <1>1, <2>1 DEF StoppedIn
    <3>2. ASSUME NEW k \in StoppedIn(v, t) PROVE k = n
      <4>1. k \in DOMAIN v /\ n \in DOMAIN v /\ Same(v[k], v[n])
        BY <1>1, <2>1, <3>2 DEF StoppedIn, Same
      <4>2. QED
        BY <1>2, <4>1 DEF Unlike
    <3>3. QED
      BY <2>1, <3>1, <3>2
  <2>2. CASE ~(f.kind = "toolStop" /\ f.tool = t)
    <3>1. n \notin StoppedIn(v, t)
      BY <1>1, <2>2 DEF StoppedIn
    <3>2. QED
      BY <1>1, <2>2, <3>1 DEF StoppedIn
  <2>3. QED
    BY <2>1, <2>2
<1>6. ASSUME Named(f) PROVE AnnouncedIn(w, f.tool) = {}
  <2>1. ASSUME NEW k \in AnnouncedIn(w, f.tool) PROVE FALSE
    <3>1. k \in DOMAIN v /\ n \in DOMAIN v /\ Same(v[k], v[n]) /\ k # n
      BY <1>1, <1>6, <2>1 DEF AnnouncedIn, Named, Same
    <3>2. QED
      BY <1>2, <3>1 DEF Unlike
  <2>2. QED
    BY <2>1
<1>7. ASSUME f.kind = "toolStop" PROVE StoppedIn(w, f.tool) = {}
  <2>1. ASSUME NEW k \in StoppedIn(w, f.tool) PROVE FALSE
    <3>1. k \in DOMAIN v /\ n \in DOMAIN v /\ Same(v[k], v[n]) /\ k # n
      BY <1>1, <1>7, <2>1 DEF StoppedIn, Same
    <3>2. QED
      BY <1>2, <3>1 DEF Unlike
  <2>2. QED
    BY <2>1
<1>8. Cardinality({n}) = 1 /\ Cardinality({}) = 0
  BY FS_Singleton, FS_EmptySet
<1>9. Named(f) => BegunIn(w)[f.tool] = 0 /\ f.tool \in Tools
  BY <1>3, <1>6, <1>8 DEF BegunIn, Named, ToolKinds
<1>10. f.kind = "toolStop" => EndedIn(w)[f.tool] = 0 /\ f.tool \in Tools
  BY <1>3, <1>7, <1>8 DEF EndedIn, ToolKinds
<1>11. BegunIn(v) = IF Named(f) THEN [BegunIn(w) EXCEPT ![f.tool] = 1] ELSE BegunIn(w)
  <2>1. \A t \in Tools : Cardinality(AnnouncedIn(v, t))
           = IF Named(f) /\ f.tool = t THEN 1 ELSE Cardinality(AnnouncedIn(w, t))
    BY <1>4, <1>8
  <2>2. QED
    BY <2>1 DEF BegunIn
<1>12. EndedIn(v) = IF f.kind = "toolStop" THEN [EndedIn(w) EXCEPT ![f.tool] = 1] ELSE EndedIn(w)
  <2>1. \A t \in Tools : Cardinality(StoppedIn(v, t))
           = IF f.kind = "toolStop" /\ f.tool = t THEN 1 ELSE Cardinality(StoppedIn(w, t))
    BY <1>5, <1>8
  <2>2. QED
    BY <2>1 DEF EndedIn
<1>13. QED
  BY <1>9, <1>10, <1>11, <1>12 DEF v

(* EventStream's steps, as what they say of the wire before and after.     *)
Moves(w, v) ==
  \/ \E t \in Tools :
       /\ PhaseIn(w) = "open" /\ PhaseIn(v) = "open"
       /\ BegunIn(w)[t] = 0 /\ EndedIn(w)[t] = 0
       /\ BegunIn(v) = [BegunIn(w) EXCEPT ![t] = 1] /\ EndedIn(v) = EndedIn(w)
  \/ \E t \in Tools :
       /\ PhaseIn(w) = "open" /\ PhaseIn(v) = "open"
       /\ EndedIn(w)[t] = 0
       /\ EndedIn(v) = [EndedIn(w) EXCEPT ![t] = 1] /\ BegunIn(v) = BegunIn(w)
  \/ /\ BegunIn(v) = BegunIn(w) /\ EndedIn(v) = EndedIn(w)
     /\ \/ PhaseIn(w) = "waiting" /\ PhaseIn(v) = "open"
        \/ /\ PhaseIn(w) = "open" /\ PhaseIn(v) = "stopped"
           /\ \A t \in Tools : BegunIn(w)[t] \leq EndedIn(w)[t]
        \/ /\ PhaseIn(w) \in {"waiting", "open"} /\ PhaseIn(v) = "failed"
           /\ EndedIn(w) = [t \in Tools |-> 0]
        \/ PhaseIn(v) = PhaseIn(w)

LEMMA OneMorePromised ==
  ASSUME NEW w \in Seq(Frames), NEW f \in Frames, WellFormed(w), WellFormed(w \o <<f>>)
  PROVE  Moves(w, w \o <<f>>)
<1> DEFINE v == w \o <<f>>
           n == Len(w) + 1
<1>1. /\ v \in Seq(Frames) /\ v # <<>> /\ DOMAIN v = DOMAIN w \cup {n} /\ Len(v) = n
      /\ DOMAIN w = 1..Len(w) /\ Len(w) \in Nat
      /\ \A k \in DOMAIN w : v[k] = w[k] /\ k < n
      /\ v[n] = f
  BY OneMore
<1>2. /\ BegunIn(v) = IF Named(f) THEN [BegunIn(w) EXCEPT ![f.tool] = 1] ELSE BegunIn(w)
      /\ EndedIn(v) = IF f.kind = "toolStop" THEN [EndedIn(w) EXCEPT ![f.tool] = 1] ELSE EndedIn(w)
      /\ Named(f) => BegunIn(w)[f.tool] = 0 /\ f.tool \in Tools
      /\ f.kind = "toolStop" => EndedIn(w)[f.tool] = 0 /\ f.tool \in Tools
  BY OneMoreCounted
<1>3. WellFormed(v)
  OBVIOUS
<1>4. Cardinality({}) = 0
  BY FS_EmptySet
<1> HIDE DEF v
<1>5. \A k \in DOMAIN w : w[k].kind \notin Ends
  BY <1>1, <1>3 DEF WellFormed, EndsLast
<1>6. PhaseIn(w) = IF w = <<>> THEN "waiting" ELSE "open"
  BY <1>5 DEF PhaseIn, Marks, Ends
<1>7. PhaseIn(v) = IF f.kind = "exception" THEN "failed"
                   ELSE IF f.kind = "stop" THEN "stopped" ELSE "open"
  <2>1. \A kind \in Ends : Marks(v, kind) <=> f.kind = kind
    BY <1>1, <1>5 DEF Marks
  <2>2. QED
    BY <1>1, <2>1 DEF PhaseIn, Ends
<1>8. w = <<>> => f.kind \in {"initial", "exception"}
  <2>1. w = <<>> => n = 1
    BY <1>1
  <2>2. QED
    BY <1>1, <1>3, <2>1 DEF WellFormed, Opens
<1>9. CASE f.kind = "exception"
  <2>1. \A t \in Tools : StoppedIn(w, t) = {}
    BY <1>1, <1>3, <1>9 DEF WellFormed, FailsBare, StoppedIn
  <2>2. EndedIn(w) = [t \in Tools |-> 0]
    BY <1>4, <2>1 DEF EndedIn
  <2>3. BegunIn(v) = BegunIn(w) /\ EndedIn(v) = EndedIn(w)
    BY <1>2, <1>9 DEF Named
  <2>4. PhaseIn(w) \in {"waiting", "open"} /\ PhaseIn(v) = "failed"
    BY <1>6, <1>7, <1>9
  <2>5. QED
    BY <2>2, <2>3, <2>4 DEF Moves, v
<1>10. CASE f.kind = "stop"
  <2>1. ASSUME NEW t \in Tools PROVE BegunIn(w)[t] \leq EndedIn(w)[t]
    <3>1. IsFiniteSet(DOMAIN w)
      BY <1>1, FS_Interval
    <3>2. \A x, y \in AnnouncedIn(w, t) : x = y
      BY <1>1, <1>3 DEF AnnouncedIn, WellFormed, Unlike, Same, Named
    <3>3. \A x, y \in StoppedIn(w, t) : x = y
      BY <1>1, <1>3 DEF StoppedIn, WellFormed, Unlike, Same
    <3>4. AnnouncedIn(w, t) # {} => StoppedIn(w, t) # {}
      <4>1. ASSUME NEW j \in AnnouncedIn(w, t) PROVE \E i \in StoppedIn(w, t) : TRUE
        <5>1. j \in DOMAIN v /\ n \in DOMAIN v /\ Named(v[j]) /\ v[n].kind = "stop" /\ v[j].tool = t
          BY <1>1, <1>10, <4>1 DEF AnnouncedIn, Named
        <5>2. PICK i \in DOMAIN v : v[i].kind = "toolStop" /\ v[i].tool = v[j].tool
          BY <1>3, <5>1 DEF WellFormed, StopsAll
        <5>3. i # n
          BY <1>1, <1>10, <5>2
        <5>4. i \in StoppedIn(w, t)
          BY <1>1, <5>1, <5>2, <5>3 DEF StoppedIn
        <5>5. QED
          BY <5>4
      <4>2. QED
        BY <4>1
    <3>5. Cardinality(AnnouncedIn(w, t)) = IF AnnouncedIn(w, t) = {} THEN 0 ELSE 1
      BY <3>2, AtMostOne
    <3>6. Cardinality(StoppedIn(w, t)) = IF StoppedIn(w, t) = {} THEN 0 ELSE 1
      BY <3>3, AtMostOne
    <3>7. BegunIn(w)[t] = Cardinality(AnnouncedIn(w, t)) /\ EndedIn(w)[t] = Cardinality(StoppedIn(w, t))
      BY DEF BegunIn, EndedIn
    <3>8. QED
      BY <3>4, <3>5, <3>6, <3>7
  <2>2. BegunIn(v) = BegunIn(w) /\ EndedIn(v) = EndedIn(w)
    BY <1>2, <1>10 DEF Named
  <2>3. PhaseIn(w) = "open" /\ PhaseIn(v) = "stopped"
    BY <1>6, <1>7, <1>8, <1>10
  <2>4. QED
    BY <2>1, <2>2, <2>3 DEF Moves, v
<1>11. CASE Named(f)
  <2>1. StoppedIn(w, f.tool) = {}
    <3>1. ASSUME NEW j \in StoppedIn(w, f.tool) PROVE FALSE
      <4>1. j \in DOMAIN v /\ n \in DOMAIN v /\ v[j].kind = "toolStop" /\ v[n].kind = "toolInit" /\ j < n
        BY <1>1, <1>11, <3>1 DEF StoppedIn, Named
      <4>2. n < j
        BY <1>3, <4>1 DEF WellFormed, StopsLate
      <4>3. j \in Nat /\ n \in Nat
        BY <1>1, <3>1 DEF StoppedIn
      <4>4. QED
        BY <4>1, <4>2, <4>3
    <3>2. QED
      BY <3>1
  <2>2. f.tool \in Tools /\ EndedIn(w)[f.tool] = 0 /\ BegunIn(w)[f.tool] = 0
    BY <1>2, <1>4, <1>11, <2>1 DEF EndedIn
  <2>3. BegunIn(v) = [BegunIn(w) EXCEPT ![f.tool] = 1] /\ EndedIn(v) = EndedIn(w)
    BY <1>2, <1>11 DEF Named
  <2>4. PhaseIn(w) = "open" /\ PhaseIn(v) = "open"
    BY <1>6, <1>7, <1>8, <1>11 DEF Named
  <2>5. QED
    BY <2>2, <2>3, <2>4 DEF Moves, v
<1>12. CASE f.kind = "toolStop"
  <2>1. f.tool \in Tools /\ EndedIn(w)[f.tool] = 0
    BY <1>2, <1>12
  <2>2. EndedIn(v) = [EndedIn(w) EXCEPT ![f.tool] = 1] /\ BegunIn(v) = BegunIn(w)
    BY <1>2, <1>12 DEF Named
  <2>3. PhaseIn(w) = "open" /\ PhaseIn(v) = "open"
    BY <1>6, <1>7, <1>8, <1>12
  <2>4. QED
    BY <2>1, <2>2, <2>3 DEF Moves, v
<1>13. CASE f.kind \notin {"exception", "stop", "toolStop"} /\ ~Named(f)
  <2>1. BegunIn(v) = BegunIn(w) /\ EndedIn(v) = EndedIn(w)
    BY <1>2, <1>13
  <2>2. PhaseIn(w) \in {"waiting", "open"} /\ PhaseIn(v) = "open"
    BY <1>6, <1>7, <1>13
  <2>3. QED
    BY <2>1, <2>2 DEF Moves, v
<1>14. QED
  BY <1>9, <1>10, <1>11, <1>12, <1>13

(* A provider that cannot be called fails a stream nothing was put on.     *)
LEMMA CallFailsPromised == Moves(<<>>, <<Initial, Exception>>)
<1> DEFINE v == <<Initial, Exception>>
<1>1. DOMAIN v = {1, 2} /\ v[1] = Initial /\ v[2] = Exception /\ v # <<>>
  OBVIOUS
<1> HIDE DEF v
<1>2. v[1].kind = "initial" /\ v[2].kind = "exception"
  BY <1>1 DEF Initial, Exception
<1>3. PhaseIn(<<>>) = "waiting"
  BY DEF PhaseIn
<1>4. PhaseIn(v) = "failed"
  BY <1>1, <1>2 DEF PhaseIn, Marks
<1>5. \A t : AnnouncedIn(v, t) = {} /\ StoppedIn(v, t) = {}
  BY <1>1, <1>2 DEF AnnouncedIn, StoppedIn
<1>6. \A t : AnnouncedIn(<<>>, t) = {} /\ StoppedIn(<<>>, t) = {}
  BY DEF AnnouncedIn, StoppedIn
<1>7. BegunIn(v) = BegunIn(<<>>) /\ EndedIn(v) = EndedIn(<<>>) /\ EndedIn(<<>>) = [t \in Tools |-> 0]
  BY <1>5, <1>6, FS_EmptySet DEF BegunIn, EndedIn
<1>8. QED
  BY <1>3, <1>4, <1>7 DEF Moves, v

LEMMA WireMoves ==
  ASSUME StreamInv, StreamInv', Next
  PROVE  wire' = wire \/ Moves(wire, wire')
<1>1. CASE Send
  <2>1. wire' = wire \o <<out[1]>> /\ wire' \in Seq(Frames) /\ wire \in Seq(Frames) /\ out[1] \in Frames
    <3>1. wire' = wire \o <<out[1]>> /\ wire' \in Seq(Frames)
      BY <1>1, SendParts DEF StreamInv
    <3>2. out \in Seq(Frames) /\ out # <<>> /\ wire \in Seq(Frames)
      BY <1>1 DEF Send, StreamInv, Typed
    <3>3. QED
      BY <3>1, <3>2
  <2>2. WellFormed(wire)
    BY WireParts
  <2>3. WellFormed(wire')
    <3>1. wire' \in Seq(Frames) /\ out' \in Seq(Frames) /\ WellFormed(wire' \o out')
      BY DEF StreamInv, Typed, Stream
    <3>2. QED
      BY <3>1, PrefixWellFormed
  <2>4. QED
    BY <2>1, <2>2, <2>3, OneMorePromised
<1>2. CASE CallFails
  <2>1. wire = <<>> /\ wire' = <<Initial, Exception>>
    BY <1>2 DEF CallFails, StreamInv, Typed
  <2>2. QED
    BY <2>1, CallFailsPromised
<1>3. CASE ~Send /\ ~CallFails
  BY <1>3 DEF Next, TaskStep, ProviderStep, ClientStep, Translate, Refuse, CallSucceeds, CallDropped,
       Abandon, Receive, Feed, Fed, UpstreamFails, UpstreamEnds, Finish, SendFails, Return, Read,
       ReadEnd, Abort
<1>4. QED
  BY <1>1, <1>2, <1>3

LEMMA PromisedStep ==
  ASSUME Moves(wire, wire'), EndsLast(wire), EndsLast(wire')
  PROVE  [Decoder!Next]_(Decoder!stream)
<1> DEFINE p == Phase
           q == Phase'
           b == [t \in Tools |-> Cardinality(Announced(t))]
           c == [t \in Tools |-> Cardinality(Announced(t))]'
           e == [t \in Tools |-> Cardinality(Stopped(t))]
           g == [t \in Tools |-> Cardinality(Stopped(t))]'
<1>1. /\ p = PhaseIn(wire) /\ q = PhaseIn(wire')
      /\ b = BegunIn(wire) /\ c = BegunIn(wire')
      /\ e = EndedIn(wire) /\ g = EndedIn(wire')
  BY DecoderSees
<1> HIDE DEF p, q, b, c, e, g
<1>2. CASE \E t \in Tools :
             /\ p = "open" /\ q = p /\ b[t] = 0 /\ e[t] = 0
             /\ c = [b EXCEPT ![t] = 1] /\ g = e
  BY <1>2 DEF p, q, b, c, e, g, Decoder!Next, Decoder!Begin
<1>3. CASE \E t \in Tools :
             /\ p = "open" /\ q = p /\ e[t] = 0
             /\ g = [e EXCEPT ![t] = 1] /\ c = b
  BY <1>3 DEF p, q, b, c, e, g, Decoder!Next, Decoder!End
<1>4. CASE c = b /\ g = e /\ p = "waiting" /\ q = "open"
  BY <1>4 DEF p, q, b, c, e, g, Decoder!Next, Decoder!Open
<1>5. CASE c = b /\ g = e /\ p = "open" /\ q = "stopped" /\ \A t \in Tools : b[t] \leq e[t]
  BY <1>5 DEF p, q, b, c, e, g, Decoder!Next, Decoder!Stop
<1>6. CASE c = b /\ g = e /\ p \in {"waiting", "open"} /\ q = "failed" /\ e = [t \in Tools |-> 0]
  BY <1>6 DEF p, q, b, c, e, g, Decoder!Next, Decoder!Fail, Decoder!Never
<1>7. CASE c = b /\ g = e /\ q = p
  BY <1>7 DEF p, q, b, c, e, g, Decoder!stream
<1>8. QED
  BY <1>1, <1>2, <1>3, <1>4, <1>5, <1>6, <1>7 DEF Moves

LEMMA PromiseBegins == Init => Decoder!Init
<1> SUFFICES ASSUME Init PROVE Decoder!Init
  OBVIOUS
<1>1. wire = <<>> /\ EndsLast(wire)
  BY DEF Init, EndsLast
<1>2. Phase = "waiting"
  BY <1>1, DecoderSees DEF PhaseIn
<1>3. \A t : AnnouncedIn(wire, t) = {} /\ StoppedIn(wire, t) = {}
  BY <1>1 DEF AnnouncedIn, StoppedIn
<1>4. BegunIn(wire) = [t \in Tools |-> 0] /\ EndedIn(wire) = [t \in Tools |-> 0]
  BY <1>3, FS_EmptySet DEF BegunIn, EndedIn
<1>5. QED
  BY <1>2, <1>4, DecoderSees DEF Decoder!Init, Decoder!Never

LEMMA PromiseKeptByStep ==
  ASSUME StreamInv, StreamInv', [Next]_vars
  PROVE  [Decoder!Next]_(Decoder!stream)
<1>1. EndsLast(wire)
  BY WireParts DEF WellFormed
<1>2. EndsLast(wire')
  <2>1. wire' \in Seq(Frames) /\ out' \in Seq(Frames) /\ WellFormed(wire' \o out')
    BY DEF StreamInv, Typed, Stream
  <2>2. QED
    BY <2>1, PrefixWellFormed DEF WellFormed
<1>3. wire' = wire \/ Moves(wire, wire')
  BY WireMoves DEF vars
<1>4. CASE wire' = wire
  BY <1>4 DEF Decoder!stream, Phase, Complete, OnWire, Announced, Stopped
<1>5. QED
  BY <1>1, <1>2, <1>3, <1>4, PromisedStep

(* The turn implements EventStream: whatever the provider, the client and  *)
(* the channel do, the decoder gets a stream opened once, each call begun  *)
(* and ended at most once, and nothing after a stop or an exception        *)
(* (KeepsPromise; response.rs:131-169, 188-228, intercept.rs:51-90).       *)
THEOREM PromiseKept == Spec => KeepsPromise
<1>1. StreamInv /\ StreamInv' /\ [Next]_vars => [Decoder!Next]_(Decoder!stream)
  BY PromiseKeptByStep
<1>2. QED
  BY <1>1, PromiseBegins, StreamHolds, PTL DEF Spec, KeepsPromise, Decoder!Promise

-----------------------------------------------------------------------------
(* The request: what every turn becomes, and what it says.                 *)

AnyTurn == UserTurns \cup AssistantTurns \cup {EmptyTurn}

AnyMessage ==
  [role : {"user", "assistant", "tool"}, text : Texts \cup {NoText},
   id : UseIds \cup {NoUseId}, failed : BOOLEAN, images : Seq(Images),
   calls : Seq(UseIds \cup ({"call"} \X Nat))]

Sayings == Results \cup Texts \cup Images

Become == [t \in AnyTurn |-> TurnMessages(t)]
SaysThen == [t \in AnyTurn |-> SaidInTurn(t)]
SaysNow == [m \in AnyMessage |-> SaidInMessage(m)]
AsMessage == [r \in Results |-> ResultMessage(r)]

(* What gets through of the images, as the code and as the property see it.*)
LEMMA ImagesAgree ==
  ASSUME NEW images \in Seq(Images \cup BadImages)
  PROVE  /\ Inlined(images) \in Seq(Images)
         /\ FlattenSeq([k \in DOMAIN images |-> IF images[k] \in BadImages THEN <<>> ELSE <<images[k]>>])
              = Inlined(images)
<1> DEFINE all == Images \cup BadImages
           f == [i \in all |-> IF i \in Images THEN <<i>> ELSE <<>>]
           m == [k \in DOMAIN images |-> IF images[k] \in Images THEN <<images[k]>> ELSE <<>>]
           n == [k \in DOMAIN images |-> IF images[k] \in BadImages THEN <<>> ELSE <<images[k]>>]
<1>1. \A k \in DOMAIN images : images[k] \in all
  OBVIOUS
<1>2. Gives(f, all, Seq(Images))
  BY DEF Gives
<1>3. Mapped(images, f) = m
  BY <1>1 DEF Mapped
<1>4. n = m
  BY <1>1, ConversationAssumption
<1> HIDE DEF all, f
<1>5. images \in Seq(all)
  BY DEF all
<1>6. Gathered(images, f) \in Seq(Images)
  BY <1>2, <1>5, GatheredParts
<1>7. QED
  BY <1>3, <1>4, <1>6 DEF Gathered, Inlined

Blanks ==
  [role : {"none", "user", "assistant", "tool"}, text : Texts \cup {NoText},
   id : UseIds \cup {NoUseId}, failed : BOOLEAN, images : Seq(Images),
   calls : Seq(UseIds \cup ({"call"} \X Nat))]

LEMMA BlankTyped ==
  /\ NoMessage \in Blanks /\ NoMessage.images = <<>>
  /\ \A m \in Blanks : m.role # "none" => m \in AnyMessage
<1>1. <<>> \in Seq(Images) /\ <<>> \in Seq(UseIds \cup ({"call"} \X Nat))
  OBVIOUS
<1>2. NoMessage \in Blanks /\ NoMessage.images = <<>>
  BY <1>1 DEF NoMessage, Blanks
<1>3. \A m \in Blanks : m.role # "none" => m \in AnyMessage
  BY DEF Blanks, AnyMessage
<1>4. QED
  BY <1>2, <1>3

LEMMA ResultTyped ==
  ASSUME NEW r \in Results
  PROVE  /\ ResultMessage(r) \in AnyMessage /\ ResultMessage(r).role = "tool"
         /\ ResultMessage(r).id = r.id
         /\ SaidInMessage(ResultMessage(r)) = <<r>>
<1> DEFINE m == ResultMessage(r)
<1>1. r = [id |-> r.id, text |-> r.text, failed |-> r.failed]
      /\ r.id \in UseIds \cup {NoUseId} /\ r.text \in Texts \cup {NoText} /\ r.failed \in BOOLEAN
  BY DEF Results
<1>2. m = [NoMessage EXCEPT !.role = "tool", !.id = r.id, !.text = r.text, !.failed = r.failed]
  BY DEF ResultMessage
<1>3. /\ m \in Blanks /\ m.role = "tool" /\ m.id = r.id /\ m.text = r.text
      /\ m.failed = r.failed
  BY <1>1, <1>2, BlankTyped DEF Blanks
<1> HIDE DEF m
<1>4. m \in AnyMessage
  BY <1>3, BlankTyped
<1>5. SaidInMessage(m) = <<[id |-> m.id, text |-> m.text, failed |-> m.failed]>>
  BY <1>3 DEF SaidInMessage
<1>6. QED
  BY <1>1, <1>3, <1>4, <1>5 DEF m

LEMMA UserTyped ==
  ASSUME NEW text \in Texts \cup {NoText}, NEW images \in Seq(Images)
  PROVE  /\ UserMessage(text, images) \in AnyMessage
         /\ UserMessage(text, images).role = "user"
         /\ SaidInMessage(UserMessage(text, images))
              = (IF text = NoText THEN <<>> ELSE <<text>>) \o images
<1> DEFINE m == UserMessage(text, images)
<1>1. m = [NoMessage EXCEPT !.role = "user", !.text = text, !.images = images]
  BY DEF UserMessage
<1>2. m \in Blanks /\ m.role = "user" /\ m.text = text /\ m.images = images
  BY <1>1, BlankTyped DEF Blanks
<1> HIDE DEF m
<1>3. m \in AnyMessage
  BY <1>2, BlankTyped
<1>4. QED
  BY <1>2, <1>3 DEF SaidInMessage, m

LEMMA AssistantTyped ==
  ASSUME NEW t \in AssistantTurns
  PROVE  /\ AssistantMessage(t) \in AnyMessage
         /\ AssistantMessage(t).role = "assistant"
         /\ NoUseId \notin ToSet(t.uses) =>
              ToSet(t.uses) \subseteq ToSet(AssistantMessage(t).calls)
         /\ SaidInMessage(AssistantMessage(t))
              = IF t.text = NoText THEN <<>> ELSE <<t.text>>
<1> DEFINE m == AssistantMessage(t)
           calls == [k \in DOMAIN t.uses |->
                       IF t.uses[k] = NoUseId THEN <<"call", k - 1>> ELSE t.uses[k]]
           names == UseIds \cup ({"call"} \X Nat)
<1>1. t.uses \in Seq(UseIds \cup {NoUseId}) /\ t.text \in Texts \cup {NoText}
  BY DEF AssistantTurns
<1>2. Len(t.uses) \in Nat /\ DOMAIN t.uses = 1..Len(t.uses)
  BY <1>1
<1>3. \A k \in 1..Len(t.uses) : calls[k] \in names
  <2>1. ASSUME NEW k \in 1..Len(t.uses) PROVE calls[k] \in names
    <3>1. t.uses[k] \in UseIds \cup {NoUseId} /\ k - 1 \in Nat
      BY <1>1, <1>2
    <3>2. calls[k] = IF t.uses[k] = NoUseId THEN <<"call", k - 1>> ELSE t.uses[k]
      BY <1>2
    <3>3. QED
      BY <3>1, <3>2
  <2>2. QED
    BY <2>1
<1>4. calls \in Seq(names)
  <2>1. calls = [k \in 1..Len(t.uses) |-> calls[k]]
    BY <1>2
  <2> HIDE DEF calls, names
  <2>2. QED
    BY <1>2, <1>3, <2>1
<1>5. m = [NoMessage EXCEPT !.role = "assistant", !.text = t.text, !.calls = calls]
  BY DEF AssistantMessage
<1>6. NoUseId \notin ToSet(t.uses) => ToSet(t.uses) \subseteq ToSet(calls)
  BY <1>2 DEF ToSet
<1> HIDE DEF calls
<1>7. /\ m \in AnyMessage /\ m.role = "assistant" /\ m.text = t.text /\ m.images = <<>>
      /\ m.calls = calls
  <2>1. /\ m \in Blanks /\ m.role = "assistant" /\ m.text = t.text /\ m.images = <<>>
        /\ m.calls = calls
    BY <1>1, <1>4, <1>5, BlankTyped DEF Blanks
  <2> HIDE DEF m
  <2>2. QED
    BY <2>1, BlankTyped
<1> HIDE DEF m
<1>8. SaidInMessage(m) = (IF t.text = NoText THEN <<>> ELSE <<t.text>>) \o <<>>
  BY <1>7 DEF SaidInMessage
<1>9. IF t.text = NoText THEN TRUE ELSE <<t.text>> \o <<>> = <<t.text>>
  OBVIOUS
<1>10. <<>> \o <<>> = <<>>
  OBVIOUS
<1>11. SaidInMessage(m) = IF t.text = NoText THEN <<>> ELSE <<t.text>>
  BY <1>8, <1>9, <1>10
<1>12. QED
  BY <1>6, <1>7, <1>11 DEF m

LEMMA TurnCases ==
  ASSUME NEW t \in AnyTurn
  PROVE  \/ t \in UserTurns /\ t.role = "user"
         \/ t \in AssistantTurns /\ t.role = "assistant"
         \/ t = EmptyTurn /\ t.role = "none"
BY DEF AnyTurn, UserTurns, AssistantTurns, EmptyTurn

(* A user's turn: a message for every result, then what the user says.     *)
ResultsOf(t) == Mapped(t.results, AsMessage)
SpeaksIn(t) == Inlined(t.images) # <<>> \/ t.text # NoText \/ t.results = <<>>
SpokenIn(t) == IF SpeaksIn(t) THEN <<UserMessage(t.text, Inlined(t.images))>> ELSE <<>>

LEMMA UserBecomes ==
  ASSUME NEW t \in UserTurns
  PROVE  /\ TurnMessages(t) = ResultsOf(t) \o SpokenIn(t)
         /\ ResultsOf(t) \in Seq(AnyMessage) /\ SpokenIn(t) \in Seq(AnyMessage)
         /\ t.results \in Seq(Results) /\ Len(ResultsOf(t)) = Len(t.results)
         /\ \A k \in 1..Len(t.results) : /\ ResultsOf(t)[k].role = "tool"
                                         /\ ResultsOf(t)[k].id = t.results[k].id
         /\ \A k \in DOMAIN SpokenIn(t) : SpokenIn(t)[k].role = "user"
<1>1. /\ t.role = "user" /\ t.results \in Seq(Results) /\ t.text \in Texts \cup {NoText}
      /\ t.images \in Seq(Images \cup BadImages)
  BY DEF UserTurns
<1>2. Gives(AsMessage, Results, AnyMessage)
  BY ResultTyped DEF AsMessage, Gives
<1>3. /\ ResultsOf(t) \in Seq(AnyMessage) /\ Len(ResultsOf(t)) = Len(t.results)
      /\ \A k \in 1..Len(t.results) : ResultsOf(t)[k] = AsMessage[t.results[k]]
  <2> DEFINE rs == t.results
  <2>1. rs \in Seq(Results)
    BY <1>1
  <2> HIDE DEF rs
  <2>2. /\ Mapped(rs, AsMessage) \in Seq(AnyMessage) /\ Len(Mapped(rs, AsMessage)) = Len(rs)
        /\ \A k \in 1..Len(rs) : Mapped(rs, AsMessage)[k] = AsMessage[rs[k]]
    BY <1>2, <2>1, MappedTyped
  <2>3. QED
    BY <2>2 DEF rs, ResultsOf
<1>4. \A k \in 1..Len(t.results) : t.results[k] \in Results
  BY <1>1
<1>5. \A k \in 1..Len(t.results) : ResultsOf(t)[k].role = "tool" /\ ResultsOf(t)[k].id = t.results[k].id
  BY <1>3, <1>4, ResultTyped DEF AsMessage
<1> DEFINE said == UserMessage(t.text, Inlined(t.images))
<1>6. said \in AnyMessage /\ said.role = "user"
  BY <1>1, ImagesAgree, UserTyped
<1> HIDE DEF said
<1>7. SpokenIn(t) = <<said>> \/ SpokenIn(t) = <<>>
  BY DEF SpokenIn, said
<1>8. SpokenIn(t) \in Seq(AnyMessage) /\ \A k \in DOMAIN SpokenIn(t) : SpokenIn(t)[k].role = "user"
  <2>1. CASE SpokenIn(t) = <<>>
    BY <2>1
  <2>2. CASE SpokenIn(t) = <<said>>
    <3>1. <<said>> \in Seq(AnyMessage) /\ DOMAIN <<said>> = {1} /\ <<said>>[1] = said
      BY <1>6
    <3>2. QED
      BY <1>6, <2>2, <3>1
  <2>3. QED
    BY <1>7, <2>1, <2>2
<1> DEFINE results == [k \in DOMAIN t.results |-> ResultMessage(t.results[k])]
<1>9. ResultsOf(t) = results
  BY <1>1, <1>4 DEF ResultsOf, Mapped, AsMessage
<1>10. results = <<>> <=> t.results = <<>>
  BY <1>1, <1>3, <1>9
<1>11. UserMessages(t) = results \o SpokenIn(t)
  <2> HIDE DEF results
  <2>1. SpokenIn(t) = IF Inlined(t.images) # <<>> \/ t.text # NoText \/ results = <<>>
                        THEN <<UserMessage(t.text, Inlined(t.images))>> ELSE <<>>
    BY <1>10 DEF SpokenIn, SpeaksIn
  <2>2. QED
    BY <2>1 DEF UserMessages, results
<1>12. TurnMessages(t) = UserMessages(t)
  BY <1>1 DEF TurnMessages
<1>13. QED
  BY <1>1, <1>3, <1>5, <1>8, <1>9, <1>11, <1>12

LEMMA OthersBecome ==
  /\ \A t \in AssistantTurns : TurnMessages(t) = <<AssistantMessage(t)>>
  /\ TurnMessages(EmptyTurn) = <<>>
BY DEF TurnMessages, AssistantTurns, EmptyTurn

LEMMA BecomeTyped ==
  /\ Gives(Become, AnyTurn, Seq(AnyMessage))
  /\ \A t \in AnyTurn : Become[t] = TurnMessages(t) /\ Become[t] \in Seq(AnyMessage)
<1>1. ASSUME NEW t \in AnyTurn PROVE TurnMessages(t) \in Seq(AnyMessage)
  <2>1. CASE t \in UserTurns
    BY <2>1, UserBecomes, ConcatProperties
  <2>2. CASE t \in AssistantTurns
    <3> DEFINE a == AssistantMessage(t)
    <3>1. a \in AnyMessage
      BY <2>2, AssistantTyped
    <3>2. TurnMessages(t) = <<a>>
      BY <2>2, OthersBecome
    <3> HIDE DEF a
    <3>3. QED
      BY <3>1, <3>2
  <2>3. CASE t = EmptyTurn
    BY <2>3, OthersBecome
  <2>4. QED
    BY <2>1, <2>2, <2>3 DEF AnyTurn
<1>2. QED
  BY <1>1 DEF Become, Gives

LEMMA ConversationTyped ==
  ASSUME NEW c \in Conversations
  PROVE  Turns(c) \in Seq(AnyTurn) /\ Messages(c) = Gathered(Turns(c), Become)
<1>1. c.history \in Seq(UserTurns \cup AssistantTurns \cup {EmptyTurn}) /\ c.current \in Seq(UserTurns)
  BY DEF Conversations
<1>2. c.history \in Seq(AnyTurn) /\ c.current \in Seq(AnyTurn)
  BY <1>1, SeqMonotonic DEF AnyTurn
<1>3. Turns(c) \in Seq(AnyTurn)
  BY <1>2, ConcatProperties DEF Turns
<1>4. \A k \in DOMAIN Turns(c) : Turns(c)[k] \in AnyTurn
  BY <1>3
<1>5. [k \in DOMAIN Turns(c) |-> TurnMessages(Turns(c)[k])] = Mapped(Turns(c), Become)
  BY <1>4 DEF Mapped, Become
<1>6. QED
  BY <1>3, <1>5 DEF Messages, Gathered

-----------------------------------------------------------------------------
(* Every tool message stands behind the message that makes its call.       *)

LEMMA AnsweredGrows ==
  ASSUME NEW ms \in Seq(AnyMessage), NEW new \in Seq(AnyMessage), Answered(ms),
         \A k \in DOMAIN new : new[k].role = "tool" =>
           /\ ms # <<>> /\ new[k].id \in ToSet(ms[Len(ms)].calls)
           /\ \A j \in 1..(k - 1) : new[j].role = "tool"
  PROVE  Answered(ms \o new)
<1> DEFINE u == ms \o new
           n == Len(ms)
<1>1. /\ n \in Nat /\ Len(new) \in Nat /\ DOMAIN ms = 1..n /\ DOMAIN new = 1..Len(new)
      /\ DOMAIN u = 1..(n + Len(new))
      /\ \A i \in 1..(n + Len(new)) : u[i] = IF i <= n THEN ms[i] ELSE new[i - n]
  BY ConcatProperties
<1> HIDE DEF u
<1>2. ASSUME NEW m \in DOMAIN u, u[m].role = "tool", m <= n
      PROVE  \E a \in 1..(m - 1) : /\ u[m].id \in ToSet(u[a].calls)
                                   /\ \A b \in (a + 1)..(m - 1) : u[b].role = "tool"
  <2>1. m \in DOMAIN ms /\ u[m] = ms[m]
    BY <1>1, <1>2
  <2>2. PICK a \in 1..(m - 1) : /\ ms[m].id \in ToSet(ms[a].calls)
                                /\ \A b \in (a + 1)..(m - 1) : ms[b].role = "tool"
    BY <1>2, <2>1 DEF Answered
  <2>3. \A b \in 1..(m - 1) : u[b] = ms[b]
    BY <1>1, <1>2
  <2>4. \A b \in (a + 1)..(m - 1) : b \in 1..(m - 1)
    BY <1>1, <2>1
  <2>5. QED
    BY <2>1, <2>2, <2>3, <2>4
<1>3. ASSUME NEW m \in DOMAIN u, u[m].role = "tool", ~(m <= n)
      PROVE  \E a \in 1..(m - 1) : /\ u[m].id \in ToSet(u[a].calls)
                                   /\ \A b \in (a + 1)..(m - 1) : u[b].role = "tool"
  <2>1. m - n \in DOMAIN new /\ u[m] = new[m - n]
    BY <1>1, <1>3
  <2>2. /\ ms # <<>> /\ new[m - n].id \in ToSet(ms[n].calls)
        /\ \A j \in 1..((m - n) - 1) : new[j].role = "tool"
    BY <1>3, <2>1
  <2>3. n # 0
    BY <2>2
  <2>4. n \in 1..(m - 1) /\ u[n] = ms[n]
    BY <1>1, <1>3, <2>3
  <2>5. \A b \in (n + 1)..(m - 1) : b - n \in 1..((m - n) - 1) /\ u[b] = new[b - n]
    BY <1>1
  <2>6. QED
    BY <2>1, <2>2, <2>4, <2>5
<1>4. Answered(u)
  BY <1>2, <1>3 DEF Answered
<1>5. QED
  BY <1>4 DEF u

CallsOf(turns, k) ==
  IF k > 0 /\ turns[k].role = "assistant" THEN ToSet(turns[k].uses) ELSE {}
OrderlyTurns(turns) ==
  \A k \in DOMAIN turns :
    /\ NoUseId \notin CallsOf(turns, k)
    /\ turns[k].role = "user" =>
         \A r \in ToSet(turns[k].results) : r.id \in CallsOf(turns, k - 1)

(* What the messages ms of turns that end with the model's end with.       *)
CallsLast(ms, turns) ==
  turns # <<>> /\ turns[Len(turns)].role = "assistant" =>
    ms # <<>> /\ ToSet(turns[Len(turns)].uses) \subseteq ToSet(ms[Len(ms)].calls)

Answerable ==
  {t \in Seq(AnyTurn) : OrderlyTurns(t) =>
     Answered(Gathered(t, Become)) /\ CallsLast(Gathered(t, Become), t)}

LEMMA AnswerableGrows ==
  ASSUME NEW t \in Seq(AnyTurn), NEW x \in AnyTurn, t \in Answerable
  PROVE  Append(t, x) \in Answerable
<1> DEFINE u == Append(t, x)
           n == Len(t)
           ms == Gathered(t, Become)
           new == TurnMessages(x)
<1>1. /\ u \in Seq(AnyTurn) /\ n \in Nat /\ Len(u) = n + 1 /\ u[n + 1] = x
      /\ DOMAIN t = 1..n /\ DOMAIN u = 1..(n + 1) /\ \A i \in 1..n : u[i] = t[i]
      /\ t = <<>> <=> n = 0
  OBVIOUS
<1>2. Gathered(u, Become) = ms \o new /\ ms \in Seq(AnyMessage) /\ new \in Seq(AnyMessage)
  <2>1. Become[x] = new /\ Become[x] \in Seq(AnyMessage)
    BY BecomeTyped DEF Become
  <2>2. QED
    BY <2>1, BecomeTyped, GatheredStep
<1> HIDE DEF u, ms, new
<1> SUFFICES ASSUME OrderlyTurns(u)
             PROVE  Answered(ms \o new) /\ CallsLast(ms \o new, u)
  BY <1>1, <1>2 DEF Answerable, u
<1>3. /\ NoUseId \notin CallsOf(u, n + 1)
      /\ x.role = "user" => \A r \in ToSet(x.results) : r.id \in CallsOf(u, n)
  <2>1. n + 1 \in DOMAIN u /\ (n + 1) - 1 = n
    BY <1>1
  <2>2. QED
    BY <1>1, <2>1 DEF OrderlyTurns
<1>4. \A k \in 0..n : CallsOf(u, k) = CallsOf(t, k)
  BY <1>1 DEF CallsOf
<1>5. OrderlyTurns(t)
  <2>1. ASSUME NEW k \in 1..n
        PROVE  /\ k \in DOMAIN u /\ u[k] = t[k]
               /\ CallsOf(u, k) = CallsOf(t, k) /\ CallsOf(u, k - 1) = CallsOf(t, k - 1)
    <3>1. k \in 0..n /\ k - 1 \in 0..n /\ k \in DOMAIN u
      BY <1>1
    <3>2. QED
      BY <1>1, <1>4, <3>1
  <2>2. QED
    BY <1>1, <2>1 DEF OrderlyTurns
<1>6. Answered(ms) /\ CallsLast(ms, t)
  BY <1>5 DEF Answerable, ms
<1>7. CASE x \in UserTurns /\ x.role = "user"
  <2> DEFINE rs == ResultsOf(x)
             sp == SpokenIn(x)
  <2>1. /\ new = rs \o sp /\ rs \in Seq(AnyMessage) /\ sp \in Seq(AnyMessage)
        /\ x.results \in Seq(Results) /\ Len(rs) = Len(x.results)
        /\ \A k \in 1..Len(x.results) : rs[k].role = "tool" /\ rs[k].id = x.results[k].id
        /\ \A k \in DOMAIN sp : sp[k].role = "user"
    BY <1>7, UserBecomes DEF new
  <2> HIDE DEF rs, sp
  <2>2. /\ Len(rs) \in Nat /\ Len(sp) \in Nat /\ DOMAIN sp = 1..Len(sp)
        /\ DOMAIN new = 1..(Len(rs) + Len(sp))
        /\ \A i \in 1..(Len(rs) + Len(sp)) : new[i] = IF i <= Len(rs) THEN rs[i] ELSE sp[i - Len(rs)]
    BY <2>1, ConcatProperties
  <2>3. ASSUME NEW k \in DOMAIN new, new[k].role = "tool"
        PROVE  k \in 1..Len(rs)
    <3>1. ~(k <= Len(rs)) => k - Len(rs) \in DOMAIN sp /\ new[k] = sp[k - Len(rs)]
      BY <2>2
    <3>2. k <= Len(rs)
      BY <2>1, <2>3, <3>1
    <3>3. QED
      BY <2>2, <3>2
  <2>4. \A k \in 1..Len(rs) : new[k] = rs[k]
    BY <2>2
  <2>5. ASSUME NEW k \in DOMAIN new, new[k].role = "tool"
        PROVE  /\ ms # <<>> /\ new[k].id \in ToSet(ms[Len(ms)].calls)
               /\ \A j \in 1..(k - 1) : new[j].role = "tool"
    <3>1. k \in 1..Len(rs) /\ new[k].id = x.results[k].id
      BY <2>1, <2>3, <2>4, <2>5
    <3>2. x.results[k] \in ToSet(x.results)
      BY <2>1, <3>1 DEF ToSet
    <3>3. x.results[k].id \in CallsOf(t, n)
      BY <1>1, <1>3, <1>4, <1>7, <3>2
    <3>4. n > 0 /\ t[n].role = "assistant" /\ x.results[k].id \in ToSet(t[n].uses)
      BY <3>3 DEF CallsOf
    <3>5. ms # <<>> /\ ToSet(t[n].uses) \subseteq ToSet(ms[Len(ms)].calls)
      BY <1>1, <1>6, <3>4 DEF CallsLast
    <3>6. \A j \in 1..(k - 1) : j \in 1..Len(rs)
      BY <2>2, <3>1
    <3>7. QED
      BY <2>1, <2>4, <3>1, <3>4, <3>5, <3>6
  <2>6. Answered(ms \o new)
    BY <1>2, <1>6, <2>5, AnsweredGrows
  <2>7. CallsLast(ms \o new, u)
    BY <1>1, <1>7 DEF CallsLast
  <2>8. QED
    BY <2>6, <2>7
<1>8. CASE x \in AssistantTurns /\ x.role = "assistant"
  <2> DEFINE a == AssistantMessage(x)
             us == x.uses
  <2>1. new = <<a>>
    BY <1>8, OthersBecome DEF new
  <2>2. a.role = "assistant" /\ (NoUseId \notin ToSet(us) => ToSet(us) \subseteq ToSet(a.calls))
    BY <1>8, AssistantTyped
  <2> HIDE DEF a
  <2>3. NoUseId \notin ToSet(us)
    BY <1>1, <1>3, <1>8 DEF CallsOf
  <2>4. \A k \in DOMAIN new : new[k].role # "tool"
    BY <2>1, <2>2
  <2>5. Answered(ms \o new)
    BY <1>2, <1>6, <2>4, AnsweredGrows
  <2>6. ms \o new # <<>> /\ (ms \o new)[Len(ms \o new)] = a
    BY <1>2, <2>1
  <2>7. CallsLast(ms \o new, u)
    BY <1>1, <2>2, <2>3, <2>6 DEF CallsLast
  <2>8. QED
    BY <2>5, <2>7
<1>9. CASE x = EmptyTurn /\ x.role = "none"
  <2>1. new = <<>>
    BY <1>9, OthersBecome DEF new
  <2>2. ms \o new = ms
    BY <1>2, <2>1, ConcatEmptySeq
  <2>3. CallsLast(ms \o new, u)
    BY <1>1, <1>9 DEF CallsLast
  <2>4. QED
    BY <1>6, <2>2, <2>3
<1>10. QED
  BY <1>7, <1>8, <1>9, TurnCases

LEMMA ConversationAnswerable ==
  ASSUME NEW c \in Conversations, Orderly(c)
  PROVE  Answered(Messages(c))
<1>1. <<>> \in Answerable
  <2>1. Gathered(<<>>, Become) = <<>>
    BY BecomeTyped, GatheredParts
  <2>2. QED
    BY <2>1 DEF Answerable, Answered, CallsLast
<1>2. Seq(AnyTurn) \subseteq Answerable
  BY <1>1, AnswerableGrows, SeqInduction
<1>3. OrderlyTurns(Turns(c))
  BY DEF Orderly, OrderlyTurns, CallsOf
<1>4. QED
  BY <1>2, <1>3, ConversationTyped DEF Answerable

-----------------------------------------------------------------------------
(* All that the turns say, the messages say.                               *)

LEMMA SaysTyped ==
  /\ Gives(SaysNow, AnyMessage, Seq(Sayings))
  /\ \A m \in AnyMessage : SaysNow[m] = SaidInMessage(m)
<1>1. ASSUME NEW m \in AnyMessage PROVE SaidInMessage(m) \in Seq(Sayings)
  <2>1. /\ m.text \in Texts \cup {NoText} /\ m.id \in UseIds \cup {NoUseId}
        /\ m.failed \in BOOLEAN /\ m.images \in Seq(Images)
    BY DEF AnyMessage
  <2>2. CASE m.role = "tool"
    <3> DEFINE r == [id |-> m.id, text |-> m.text, failed |-> m.failed]
    <3>1. r \in Results
      BY <2>1 DEF Results
    <3> HIDE DEF r
    <3>2. <<r>> \in Seq(Sayings)
      BY <3>1 DEF Sayings
    <3>3. QED
      BY <2>2, <3>2 DEF SaidInMessage, r
  <2>3. CASE m.role # "tool"
    <3> DEFINE words == IF m.text = NoText THEN <<>> ELSE <<m.text>>
               shown == m.images
    <3>1. shown \in Seq(Sayings)
      BY <2>1, SeqMonotonic DEF Sayings
    <3>2. words \in Seq(Sayings)
      <4>1. CASE m.text = NoText
        BY <4>1
      <4>2. CASE m.text # NoText
        <5>1. m.text \in Sayings
          BY <2>1, <4>2 DEF Sayings
        <5>2. <<m.text>> \in Seq(Sayings)
          BY <5>1
        <5>3. QED
          BY <4>2, <5>2
      <4>3. QED
        BY <4>1, <4>2
    <3>3. SaidInMessage(m) = words \o shown
      BY <2>3 DEF SaidInMessage
    <3> HIDE DEF words, shown
    <3>4. QED
      BY <3>1, <3>2, <3>3, ConcatProperties
  <2>4. QED
    BY <2>2, <2>3
<1>2. QED
  BY <1>1 DEF SaysNow, Gives

LEMMA OneSays ==
  ASSUME NEW m \in AnyMessage
  PROVE  Gathered(<<m>>, SaysNow) = SaidInMessage(m)
<1>1. <<>> \in Seq(AnyMessage) /\ <<m>> = Append(<<>>, m)
  OBVIOUS
<1>2. Gathered(<<>>, SaysNow) = <<>> /\ SaysNow[m] \in Seq(Sayings)
  BY SaysTyped, GatheredParts DEF Gives
<1> DEFINE none == <<>>
<1>3. Gathered(Append(none, m), SaysNow) = Gathered(none, SaysNow) \o SaysNow[m]
  <2>1. none \in Seq(AnyMessage)
    BY <1>1
  <2> HIDE DEF none
  <2>2. QED
    BY <2>1, SaysTyped, GatheredStep
<1>4. <<>> \o SaysNow[m] = SaysNow[m]
  BY <1>2, ConcatEmptySeq
<1>5. QED
  BY <1>1, <1>2, <1>3, <1>4, SaysTyped

LEMMA ResultsSaid ==
  ASSUME NEW rs \in Seq(Results)
  PROVE  Gathered(Mapped(rs, AsMessage), SaysNow) = rs
<1> DEFINE T == {s \in Seq(Results) : Gathered(Mapped(s, AsMessage), SaysNow) = s}
<1>1. Gives(AsMessage, Results, AnyMessage)
  BY ResultTyped DEF AsMessage, Gives
<1>2. <<>> \in T
  <2>1. Mapped(<<>>, AsMessage) = <<>>
    BY DEF Mapped
  <2>2. Gathered(<<>>, SaysNow) = <<>>
    BY SaysTyped, GatheredParts
  <2>3. QED
    BY <2>1, <2>2
<1>3. ASSUME NEW s \in Seq(Results), NEW r \in Results, Gathered(Mapped(s, AsMessage), SaysNow) = s
      PROVE  Gathered(Mapped(Append(s, r), AsMessage), SaysNow) = Append(s, r)
  <2> DEFINE ms == Mapped(s, AsMessage)
             m == AsMessage[r]
  <2>1. ms \in Seq(AnyMessage)
    BY <1>1, MappedTyped
  <2>2. m \in AnyMessage /\ SaidInMessage(m) = <<r>>
    BY ResultTyped DEF AsMessage
  <2>3. Mapped(Append(s, r), AsMessage) = Append(ms, m)
    BY MappedAppend
  <2> HIDE DEF ms, m
  <2>4. Gathered(Append(ms, m), SaysNow) = Gathered(ms, SaysNow) \o SaysNow[m]
    BY <2>1, <2>2, SaysTyped, GatheredStep
  <2>5. Gathered(ms, SaysNow) = s /\ SaysNow[m] = <<r>>
    BY <1>3, <2>2, SaysTyped DEF ms
  <2>6. s \o <<r>> = Append(s, r)
    OBVIOUS
  <2>7. QED
    BY <2>3, <2>4, <2>5, <2>6
<1>4. \A s \in Seq(Results), r \in Results : s \in T => Append(s, r) \in T
  BY <1>3
<1>5. Seq(Results) \subseteq T
  <2> HIDE DEF T
  <2>1. QED
    BY <1>2, <1>4, SeqInduction
<1>6. QED
  BY <1>5

(* A user's turn says its results, then what the user says and shows.      *)
Words(t) == IF t.text = NoText THEN <<>> ELSE <<t.text>>
Utters(t) == Words(t) \o Inlined(t.images)

LEMMA UserUtters ==
  ASSUME NEW t \in UserTurns
  PROVE  /\ t.results \in Seq(Sayings) /\ Words(t) \in Seq(Sayings)
         /\ Inlined(t.images) \in Seq(Sayings)
         /\ SaidInTurn(t) = t.results \o Utters(t)
         /\ Utters(t) = <<>> <=> t.text = NoText /\ Inlined(t.images) = <<>>
<1>1. /\ t.role = "user" /\ t.results \in Seq(Results) /\ t.text \in Texts \cup {NoText}
      /\ t.images \in Seq(Images \cup BadImages)
  BY DEF UserTurns
<1> DEFINE rs == t.results
           said == Words(t)
           shown == Inlined(t.images)
<1>2. shown \in Seq(Images)
  BY <1>1, ImagesAgree
<1>3. rs \in Seq(Sayings) /\ shown \in Seq(Sayings)
  BY <1>1, <1>2, SeqMonotonic DEF Sayings
<1>4. /\ said \in Seq(Sayings)
      /\ said = <<>> <=> t.text = NoText
  <2>1. CASE t.text = NoText
    BY <2>1 DEF Words
  <2>2. CASE t.text # NoText
    <3>1. t.text \in Sayings
      BY <1>1, <2>2 DEF Sayings
    <3>2. <<t.text>> \in Seq(Sayings) /\ <<t.text>> # <<>>
      BY <3>1
    <3>3. QED
      BY <2>2, <3>2 DEF Words
  <2>3. QED
    BY <2>1, <2>2
<1>5. [k \in DOMAIN t.results |-> t.results[k]] = rs
  BY <1>1
<1>6. SaidInTurn(t) = (rs \o said) \o shown
  <2> DEFINE listed == [k \in DOMAIN t.results |-> t.results[k]]
             seen == FlattenSeq([k \in DOMAIN t.images |->
                       IF t.images[k] \in BadImages THEN <<>> ELSE <<t.images[k]>>])
  <2>1. seen = shown
    BY <1>1, ImagesAgree
  <2>2. SaidInTurn(t) = listed \o said \o seen
    BY <1>1 DEF SaidInTurn, Words
  <2> HIDE DEF listed, seen, said, shown
  <2>3. listed = rs
    BY <1>5 DEF listed
  <2>4. QED
    BY <2>1, <2>2, <2>3
<1> HIDE DEF rs, said, shown
<1>7. (rs \o said) \o shown = rs \o (said \o shown)
  BY <1>3, <1>4, ConcatAssociative
<1>8. said \o shown = <<>> <=> said = <<>> /\ shown = <<>>
  BY <1>3, <1>4
<1>9. Utters(t) = said \o shown
  BY DEF Utters, said, shown
<1>10. QED
  BY <1>3, <1>4, <1>6, <1>7, <1>8, <1>9 DEF rs, said, shown

LEMMA SpokenSays ==
  ASSUME NEW t \in UserTurns
  PROVE  /\ Gathered(SpokenIn(t), SaysNow) = Utters(t)
         /\ SpeaksIn(t) => UserMessage(t.text, Inlined(t.images)) \in AnyMessage
                        /\ SaidInMessage(UserMessage(t.text, Inlined(t.images))) = Utters(t)
<1>1. t.text \in Texts \cup {NoText} /\ t.images \in Seq(Images \cup BadImages)
  BY DEF UserTurns
<1> DEFINE m == UserMessage(t.text, Inlined(t.images))
<1>2. m \in AnyMessage /\ SaidInMessage(m) = Utters(t)
  <2>1. Inlined(t.images) \in Seq(Images)
    BY <1>1, ImagesAgree
  <2>2. QED
    BY <1>1, <2>1, UserTyped DEF Utters, Words
<1>3. SpokenIn(t) = IF SpeaksIn(t) THEN <<m>> ELSE <<>>
  BY DEF SpokenIn
<1> HIDE DEF m
<1>4. CASE SpeaksIn(t)
  BY <1>2, <1>3, <1>4, OneSays DEF m
<1>5. CASE ~SpeaksIn(t)
  <2>1. Utters(t) = <<>>
    BY <1>5, UserUtters DEF SpeaksIn
  <2>2. Gathered(<<>>, SaysNow) = <<>>
    BY SaysTyped, GatheredParts
  <2>3. QED
    BY <1>3, <1>5, <2>1, <2>2
<1>6. QED
  BY <1>4, <1>5

LEMMA TurnSays ==
  ASSUME NEW t \in AnyTurn
  PROVE  SaidInTurn(t) \in Seq(Sayings) /\ Gathered(TurnMessages(t), SaysNow) = SaidInTurn(t)
<1>0. Gathered(TurnMessages(t), SaysNow) \in Seq(Sayings)
  BY BecomeTyped, SaysTyped, GatheredParts
<1>1. CASE t \in UserTurns /\ t.role = "user"
  <2> DEFINE rs == ResultsOf(t)
             sp == SpokenIn(t)
  <2>1. TurnMessages(t) = rs \o sp /\ rs \in Seq(AnyMessage) /\ sp \in Seq(AnyMessage)
        /\ t.results \in Seq(Results)
    BY <1>1, UserBecomes
  <2>2. Gathered(rs, SaysNow) = t.results
    BY <2>1, ResultsSaid DEF ResultsOf
  <2>3. Gathered(sp, SaysNow) = Utters(t)
    BY <1>1, SpokenSays
  <2> HIDE DEF rs, sp
  <2>4. Gathered(rs \o sp, SaysNow) = Gathered(rs, SaysNow) \o Gathered(sp, SaysNow)
    BY <2>1, SaysTyped, GatheredConcat
  <2>5. SaidInTurn(t) = t.results \o Utters(t)
    BY <1>1, UserUtters
  <2>6. QED
    BY <1>0, <2>1, <2>2, <2>3, <2>4, <2>5
<1>2. CASE t \in AssistantTurns /\ t.role = "assistant"
  <2> DEFINE m == AssistantMessage(t)
  <2>1. m \in AnyMessage /\ SaidInMessage(m) = IF t.text = NoText THEN <<>> ELSE <<t.text>>
    BY <1>2, AssistantTyped
  <2>2. TurnMessages(t) = <<m>>
    BY <1>2, OthersBecome
  <2>3. SaidInTurn(t) = IF t.text = NoText THEN <<>> ELSE <<t.text>>
    BY <1>2 DEF SaidInTurn
  <2> HIDE DEF m
  <2>4. QED
    BY <1>0, <2>1, <2>2, <2>3, OneSays
<1>3. CASE t = EmptyTurn /\ t.role = "none"
  <2>1. TurnMessages(t) = <<>> /\ SaidInTurn(t) = <<>>
    BY <1>3, OthersBecome DEF SaidInTurn
  <2>2. Gathered(<<>>, SaysNow) = <<>>
    BY SaysTyped, GatheredParts
  <2>3. QED
    BY <2>1, <2>2
<1>4. QED
  BY <1>1, <1>2, <1>3, TurnCases

LEMMA TurnsSay ==
  ASSUME NEW turns \in Seq(AnyTurn)
  PROVE  Gathered(Gathered(turns, Become), SaysNow) = Gathered(turns, SaysThen)
<1> DEFINE Alike(t) == Gathered(Gathered(t, Become), SaysNow) = Gathered(t, SaysThen)
           T == {t \in Seq(AnyTurn) : Alike(t)}
<1>1. Gives(SaysThen, AnyTurn, Seq(Sayings)) /\ \A t \in AnyTurn : SaysThen[t] = SaidInTurn(t)
  BY TurnSays DEF SaysThen, Gives
<1>2. <<>> \in T
  <2>1. Gathered(<<>>, Become) = <<>> /\ Gathered(<<>>, SaysNow) = <<>> /\ Gathered(<<>>, SaysThen) = <<>>
    BY <1>1, BecomeTyped, SaysTyped, GatheredParts
  <2>2. QED
    BY <2>1
<1>3. ASSUME NEW t \in Seq(AnyTurn), NEW x \in AnyTurn, Alike(t)
      PROVE  Alike(Append(t, x))
  <2> DEFINE ms == Gathered(t, Become)
             new == TurnMessages(x)
  <2>1. ms \in Seq(AnyMessage) /\ new \in Seq(AnyMessage)
    BY BecomeTyped, GatheredParts
  <2>2. Gathered(Append(t, x), Become) = ms \o new
    <3>1. Gathered(Append(t, x), Become) = ms \o Become[x]
      BY BecomeTyped, GatheredStep
    <3>2. QED
      BY <3>1, BecomeTyped
  <2>3. Gathered(ms, SaysNow) = Gathered(t, SaysThen) /\ Gathered(new, SaysNow) = SaidInTurn(x)
    BY <1>3, TurnSays
  <2>4. Gathered(Append(t, x), SaysThen) = Gathered(t, SaysThen) \o SaidInTurn(x)
    <3>1. Gathered(Append(t, x), SaysThen) = Gathered(t, SaysThen) \o SaysThen[x]
      BY <1>1, GatheredStep
    <3>2. QED
      BY <1>1, <3>1
  <2> HIDE DEF ms, new
  <2>5. Gathered(ms \o new, SaysNow) = Gathered(ms, SaysNow) \o Gathered(new, SaysNow)
    BY <2>1, SaysTyped, GatheredConcat
  <2>6. QED
    BY <2>2, <2>3, <2>4, <2>5
<1>4. \A t \in Seq(AnyTurn), x \in AnyTurn : t \in T => Append(t, x) \in T
  BY <1>3
<1>5. Seq(AnyTurn) \subseteq T
  <2> HIDE DEF T
  <2>1. QED
    BY <1>2, <1>4, SeqInduction
<1>6. QED
  BY <1>5

-----------------------------------------------------------------------------
(* A hollow message for every silent turn, and no other.                   *)

LEMMA HollowGrows ==
  ASSUME NEW ms \in Seq(AnyMessage), NEW new \in Seq(AnyMessage)
  PROVE  Hollow(ms \o new) = Hollow(ms) \cup {Len(ms) + k : k \in Hollow(new)}
<1> DEFINE u == ms \o new
           n == Len(ms)
           Is(m) == m.role = "user" /\ SaidInMessage(m) = <<>>
<1>1. /\ n \in Nat /\ Len(new) \in Nat /\ DOMAIN ms = 1..n /\ DOMAIN new = 1..Len(new)
      /\ DOMAIN u = 1..(n + Len(new))
      /\ \A i \in 1..(n + Len(new)) : u[i] = IF i <= n THEN ms[i] ELSE new[i - n]
  BY ConcatProperties
<1> HIDE DEF u
<1>2. \A s : Hollow(s) = {k \in DOMAIN s : Is(s[k])}
  BY DEF Hollow
<1> HIDE DEF Is
<1>3. ASSUME NEW k \in Hollow(u)
      PROVE  k \in Hollow(ms) \/ \E j \in Hollow(new) : k = n + j
  <2>1. k \in 1..(n + Len(new)) /\ Is(u[k])
    BY <1>1, <1>2
  <2>2. CASE k <= n
    BY <1>1, <1>2, <2>1, <2>2
  <2>3. CASE ~(k <= n)
    <3>1. k - n \in DOMAIN new /\ u[k] = new[k - n] /\ k = n + (k - n)
      BY <1>1, <2>1, <2>3
    <3>2. k - n \in Hollow(new)
      BY <1>2, <2>1, <3>1
    <3>3. QED
      BY <3>1, <3>2
  <2>4. QED
    BY <2>2, <2>3
<1>4. ASSUME NEW k \in Hollow(ms) PROVE k \in Hollow(u)
  <2>1. k \in 1..n /\ Is(ms[k])
    BY <1>1, <1>2
  <2>2. k \in DOMAIN u /\ u[k] = ms[k]
    BY <1>1, <2>1
  <2>3. QED
    BY <1>2, <2>1, <2>2
<1>5. ASSUME NEW j \in Hollow(new) PROVE n + j \in Hollow(u)
  <2>1. j \in 1..Len(new) /\ Is(new[j])
    BY <1>1, <1>2
  <2>2. n + j \in DOMAIN u /\ ~(n + j <= n) /\ (n + j) - n = j
    BY <1>1, <2>1
  <2>3. u[n + j] = new[j]
    BY <1>1, <2>2
  <2>4. QED
    BY <1>2, <2>1, <2>2, <2>3
<1>6. Hollow(u) = Hollow(ms) \cup {n + j : j \in Hollow(new)}
  BY <1>3, <1>4, <1>5
<1>7. QED
  BY <1>6 DEF u

Quiet(t) == t.role = "user" /\ SaidInTurn(t) = <<>>

LEMMA TurnHollow ==
  ASSUME NEW t \in AnyTurn
  PROVE  Hollow(TurnMessages(t)) = IF Quiet(t) THEN {1} ELSE {}
<1>1. CASE t \in UserTurns /\ t.role = "user"
  <2> DEFINE rs == ResultsOf(t)
             sp == SpokenIn(t)
             m == UserMessage(t.text, Inlined(t.images))
  <2>1. /\ TurnMessages(t) = rs \o sp /\ rs \in Seq(AnyMessage) /\ sp \in Seq(AnyMessage)
        /\ t.results \in Seq(Results) /\ Len(rs) = Len(t.results)
        /\ \A k \in 1..Len(t.results) : rs[k].role = "tool"
    BY <1>1, UserBecomes
  <2>2. SaidInTurn(t) = t.results \o Utters(t) /\ Utters(t) \in Seq(Sayings)
        /\ t.results \in Seq(Sayings)
        /\ (Utters(t) = <<>> <=> t.text = NoText /\ Inlined(t.images) = <<>>)
    BY <1>1, UserUtters, ConcatProperties DEF Utters
  <2>3. SaidInTurn(t) = <<>> <=> t.results = <<>> /\ Utters(t) = <<>>
    <3> DEFINE a == t.results
               b == Utters(t)
    <3>1. a \in Seq(Sayings) /\ b \in Seq(Sayings) /\ SaidInTurn(t) = a \o b
      BY <2>2
    <3> HIDE DEF a, b
    <3>2. a \o b = <<>> <=> a = <<>> /\ b = <<>>
      BY <3>1
    <3>3. QED
      BY <3>1, <3>2 DEF a, b
  <2>4. Hollow(rs) = {}
    <3>1. \A k \in DOMAIN rs : rs[k].role # "user"
      <4> HIDE DEF rs
      <4>1. DOMAIN rs = 1..Len(t.results)
        BY <2>1
      <4>2. QED
        BY <2>1, <4>1
    <3>2. QED
      BY <3>1 DEF Hollow
  <2>5. Hollow(sp) = IF Quiet(t) THEN {1} ELSE {}
    <3>1. CASE SpeaksIn(t)
      <4>1. m.role = "user" /\ SaidInMessage(m) = Utters(t)
        <5>1. t.text \in Texts \cup {NoText} /\ Inlined(t.images) \in Seq(Images)
          BY <1>1, ImagesAgree DEF UserTurns
        <5>2. QED
          BY <1>1, <3>1, <5>1, SpokenSays, UserTyped
      <4>2. Utters(t) = <<>> => t.results = <<>>
        BY <2>2, <3>1 DEF SpeaksIn
      <4>3. Quiet(t) <=> Utters(t) = <<>>
        BY <1>1, <2>3, <4>2 DEF Quiet
      <4>4. sp = <<m>>
        BY <3>1 DEF SpokenIn
      <4> HIDE DEF m, sp
      <4>5. DOMAIN sp = {1} /\ sp[1] = m
        BY <4>4
      <4>6. Hollow(sp) = {k \in {1} : sp[k].role = "user" /\ SaidInMessage(sp[k]) = <<>>}
        BY <4>5 DEF Hollow
      <4>7. Hollow(sp) = IF Utters(t) = <<>> THEN {1} ELSE {}
        BY <4>1, <4>5, <4>6
      <4>8. QED
        BY <4>3, <4>7
    <3>2. CASE ~SpeaksIn(t)
      <4>1. sp = <<>> /\ t.results # <<>>
        BY <3>2 DEF SpokenIn, SpeaksIn
      <4>2. ~Quiet(t)
        BY <2>3, <4>1 DEF Quiet
      <4>3. Hollow(<<>>) = {}
        BY DEF Hollow
      <4>4. QED
        BY <4>1, <4>2, <4>3
    <3>3. QED
      BY <3>1, <3>2
  <2>6. CASE Quiet(t)
    <3>1. t.results = <<>> /\ Len(rs) = 0
      BY <2>1, <2>3, <2>6 DEF Quiet
    <3>2. Hollow(rs \o sp) = Hollow(rs) \cup {Len(rs) + k : k \in Hollow(sp)}
      <4> HIDE DEF rs, sp
      <4>1. QED
        BY <2>1, HollowGrows
    <3> HIDE DEF rs, sp
    <3>3. QED
      BY <2>1, <2>4, <2>5, <2>6, <3>1, <3>2
  <2>7. CASE ~Quiet(t)
    <3> HIDE DEF rs, sp
    <3>1. Hollow(rs \o sp) = Hollow(rs) \cup {Len(rs) + k : k \in Hollow(sp)}
      BY <2>1, HollowGrows
    <3>2. QED
      BY <2>1, <2>4, <2>5, <2>7, <3>1
  <2>8. QED
    BY <2>6, <2>7
<1>2. CASE t \in AssistantTurns /\ t.role = "assistant"
  <2> DEFINE m == AssistantMessage(t)
  <2>1. m.role = "assistant"
    BY <1>2, AssistantTyped
  <2>2. TurnMessages(t) = <<m>>
    BY <1>2, OthersBecome
  <2> HIDE DEF m
  <2>3. \A k \in DOMAIN <<m>> : <<m>>[k].role # "user"
    BY <2>1
  <2>4. Hollow(<<m>>) = {}
    BY <2>3 DEF Hollow
  <2>5. QED
    BY <1>2, <2>2, <2>4 DEF Quiet
<1>3. CASE t = EmptyTurn /\ t.role = "none"
  BY <1>3, OthersBecome DEF Hollow, Quiet
<1>4. QED
  BY <1>1, <1>2, <1>3, TurnCases

LEMMA SilentGrows ==
  ASSUME NEW t \in Seq(AnyTurn), NEW x \in AnyTurn
  PROVE  Silent(Append(t, x)) = Silent(t) \cup (IF Quiet(x) THEN {Len(t) + 1} ELSE {})
<1> DEFINE u == Append(t, x)
           n == Len(t)
<1>1. /\ n \in Nat /\ DOMAIN t = 1..n /\ DOMAIN u = 1..(n + 1) /\ u[n + 1] = x
      /\ \A i \in 1..n : u[i] = t[i]
  OBVIOUS
<1>2. \A s : Silent(s) = {k \in DOMAIN s : Quiet(s[k])}
  BY DEF Silent, Quiet
<1> HIDE DEF u
<1>3. 1..(n + 1) = (1..n) \cup {n + 1}
  BY <1>1
<1>4. Silent(u) = Silent(t) \cup (IF Quiet(x) THEN {n + 1} ELSE {})
  BY <1>1, <1>2, <1>3
<1>5. QED
  BY <1>4 DEF u

(* How many of them there are, and that there are finitely many.           *)
Counted(ms, t) ==
  /\ IsFiniteSet(Hollow(ms)) /\ IsFiniteSet(Silent(t))
  /\ Cardinality(Hollow(ms)) = Cardinality(Silent(t))

LEMMA CountedGrows ==
  ASSUME NEW ms \in Seq(AnyMessage), NEW t \in Seq(AnyTurn), NEW x \in AnyTurn, Counted(ms, t)
  PROVE  Counted(ms \o TurnMessages(x), Append(t, x))
<1> DEFINE new == TurnMessages(x)
           h == Hollow(ms)
           z == Silent(t)
           n == Len(ms)
           l == Len(t)
<1>1. Hollow(ms \o new) = h \cup {n + k : k \in Hollow(new)}
  BY BecomeTyped, HollowGrows
<1>2. Hollow(new) = IF Quiet(x) THEN {1} ELSE {}
  BY TurnHollow
<1>3. Silent(Append(t, x)) = z \cup (IF Quiet(x) THEN {l + 1} ELSE {})
  BY SilentGrows
<1>4. n \in Nat /\ l \in Nat /\ h \subseteq 1..n /\ z \subseteq 1..l
  BY DEF Hollow, Silent
<1>5. IsFiniteSet(h) /\ IsFiniteSet(z) /\ Cardinality(h) = Cardinality(z)
  BY DEF Counted
<1> HIDE DEF new, h, z, n, l
<1>6. CASE ~Quiet(x)
  <2>1. Hollow(ms \o new) = h /\ Silent(Append(t, x)) = z
    BY <1>1, <1>2, <1>3, <1>6
  <2>2. QED
    BY <1>5, <2>1 DEF Counted, new
<1>7. CASE Quiet(x)
  <2>1. Hollow(ms \o new) = h \cup {n + 1} /\ Silent(Append(t, x)) = z \cup {l + 1}
    BY <1>1, <1>2, <1>3, <1>7
  <2>2. n + 1 \notin h /\ l + 1 \notin z
    BY <1>4
  <2>3. /\ IsFiniteSet(h \cup {n + 1}) /\ Cardinality(h \cup {n + 1}) = Cardinality(h) + 1
        /\ IsFiniteSet(z \cup {l + 1}) /\ Cardinality(z \cup {l + 1}) = Cardinality(z) + 1
    BY <1>5, <2>2, FS_AddElement
  <2>4. QED
    BY <1>5, <2>1, <2>3 DEF Counted, new
<1>8. QED
  BY <1>6, <1>7

LEMMA TurnsCounted ==
  ASSUME NEW turns \in Seq(AnyTurn)
  PROVE  Cardinality(Hollow(Gathered(turns, Become))) = Cardinality(Silent(turns))
<1> DEFINE T == {t \in Seq(AnyTurn) : Counted(Gathered(t, Become), t)}
<1>1. <<>> \in T
  <2>1. Gathered(<<>>, Become) = <<>>
    BY BecomeTyped, GatheredParts
  <2>2. Hollow(<<>>) = {} /\ Silent(<<>>) = {}
    BY DEF Hollow, Silent
  <2>3. IsFiniteSet({})
    BY FS_EmptySet
  <2>4. Counted(<<>>, <<>>)
    BY <2>2, <2>3 DEF Counted
  <2>5. QED
    BY <2>1, <2>4
<1>2. ASSUME NEW t \in Seq(AnyTurn), NEW x \in AnyTurn, Counted(Gathered(t, Become), t)
      PROVE  Counted(Gathered(Append(t, x), Become), Append(t, x))
  <2> DEFINE ms == Gathered(t, Become)
  <2>1. ms \in Seq(AnyMessage)
    BY BecomeTyped, GatheredParts
  <2>2. Gathered(Append(t, x), Become) = ms \o Become[x]
    BY BecomeTyped, GatheredStep
  <2>3. Become[x] = TurnMessages(x)
    BY BecomeTyped
  <2>4. Counted(ms, t)
    BY <1>2
  <2> HIDE DEF ms
  <2>5. Counted(ms \o TurnMessages(x), Append(t, x))
    BY <2>1, <2>4, CountedGrows
  <2>6. QED
    BY <2>2, <2>3, <2>5
<1>3. \A t \in Seq(AnyTurn), x \in AnyTurn : t \in T => Append(t, x) \in T
  BY <1>2
<1>4. Seq(AnyTurn) \subseteq T
  <2> HIDE DEF T
  <2>1. QED
    BY <1>1, <1>3, SeqInduction
<1>5. QED
  BY <1>4 DEF Counted

LEMMA ConversationWhole ==
  ASSUME NEW c \in Conversations
  PROVE  /\ FlattenSeq([k \in DOMAIN Turns(c) |-> SaidInTurn(Turns(c)[k])])
              = FlattenSeq([m \in DOMAIN Messages(c) |-> SaidInMessage(Messages(c)[m])])
         /\ Cardinality(Hollow(Messages(c))) = Cardinality(Silent(Turns(c)))
<1> DEFINE turns == Turns(c)
           ms == Messages(c)
<1>1. turns \in Seq(AnyTurn) /\ ms = Gathered(turns, Become)
  BY ConversationTyped
<1> HIDE DEF turns, ms
<1>2. ms \in Seq(AnyMessage)
  BY <1>1, BecomeTyped, GatheredParts
<1>3. [k \in DOMAIN turns |-> SaidInTurn(turns[k])] = Mapped(turns, SaysThen)
  <2>1. \A k \in DOMAIN turns : turns[k] \in AnyTurn
    BY <1>1
  <2>2. QED
    BY <2>1 DEF Mapped, SaysThen
<1>4. [m \in DOMAIN ms |-> SaidInMessage(ms[m])] = Mapped(ms, SaysNow)
  <2>1. \A m \in DOMAIN ms : ms[m] \in AnyMessage
    BY <1>2
  <2>2. QED
    BY <2>1 DEF Mapped, SaysNow
<1>5. Gathered(ms, SaysNow) = Gathered(turns, SaysThen)
  BY <1>1, TurnsSay
<1>6. Cardinality(Hollow(ms)) = Cardinality(Silent(turns))
  BY <1>1, TurnsCounted
<1>7. QED
  BY <1>3, <1>4, <1>5, <1>6 DEF Gathered, turns, ms

-----------------------------------------------------------------------------
(* From the conversation to the call: what is sent is what was asked for.  *)

AskInv ==
  /\ pc \in {"translating", "calling"} => asked \in Asks
  /\ pc = "calling" => request = ChatRequest(asked)

LEMMA AskKept == AskInv /\ [Next]_vars => AskInv'
<1> SUFFICES ASSUME AskInv, [Next]_vars PROVE AskInv'
  OBVIOUS
<1>1. CASE Translate
  BY <1>1 DEF AskInv, Translate
<1>2. CASE Refuse \/ CallFails \/ CallSucceeds \/ CallDropped
  BY <1>2 DEF Refuse, CallFails, CallSucceeds, CallDropped, AskInv
<1>3. CASE Abandon \/ Receive \/ Feed \/ Fed \/ UpstreamFails \/ UpstreamEnds \/ Finish \/ SendFails \/ Return
  <2>1. pc' \notin {"translating", "calling"}
    BY <1>3 DEF Abandon, Receive, Feed, Fed, UpstreamFails, UpstreamEnds, Finish, SendFails, Return
  <2>2. QED
    BY <2>1 DEF AskInv
<1>4. CASE Send \/ Read \/ ReadEnd \/ Abort \/ UNCHANGED vars
  <2>1. pc' = pc /\ asked' = asked /\ request' = request
    BY <1>4 DEF Send, Read, ReadEnd, Abort, vars, turn
  <2>2. QED
    BY <2>1 DEF AskInv
<1>5. QED
  BY <1>1, <1>2, <1>3, <1>4 DEF Next, TaskStep, ProviderStep, ClientStep

LEMMA AskHolds == Spec => []AskInv
<1>1. Init => AskInv
  BY DEF Init, AskInv
<1>2. QED
  BY <1>1, AskKept, PTL DEF Spec

(* In a conversation whose tool results answer the calls of the turn       *)
(* before them, however long it is and whatever else its turns say or      *)
(* show, every tool message of the request stands behind the message that  *)
(* makes its call, with none but tool messages in between                  *)
(* (request.rs:31-93, 95-125).                                             *)
THEOREM RequestAnswerable == Spec => []RequestIsAnswerable
<1>1. AskInv => RequestIsAnswerable
  <2> SUFFICES ASSUME AskInv, pc = "calling", Orderly(asked) PROVE Answered(request.messages)
    BY DEF RequestIsAnswerable
  <2>1. asked \in Conversations /\ request = ChatRequest(asked)
    BY AsksAssumption DEF AskInv
  <2>2. request.messages = Messages(asked)
    BY <2>1 DEF ChatRequest
  <2>3. QED
    BY <2>1, <2>2, ConversationAnswerable
<1>2. QED
  BY <1>1, AskHolds, PTL

(* The request says all that the conversation's turns say, in their order  *)
(* and nothing twice, a failed tool as failed, and holds as many empty     *)
(* user messages as the conversation has user turns that say nothing       *)
(* (request.rs:36-93, 183-208).                                            *)
THEOREM RequestWhole == Spec => []RequestIsWhole
<1>1. AskInv => RequestIsWhole
  <2> SUFFICES ASSUME AskInv, pc = "calling" PROVE RequestIsWhole
    BY DEF RequestIsWhole
  <2>1. asked \in Conversations /\ request = ChatRequest(asked)
    BY AsksAssumption DEF AskInv
  <2>2. request.messages = Messages(asked)
    BY <2>1 DEF ChatRequest
  <2>3. QED
    BY <2>1, <2>2, ConversationWhole DEF RequestIsWhole
<1>2. QED
  BY <1>1, AskHolds, PTL
=============================================================================
