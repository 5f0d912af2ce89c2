--------------------------- MODULE ThinkingSplitter ---------------------------
(***************************************************************************)
(* ThinkingSplitter (crates/core/src/translate/thinking.rs) as operators   *)
(* on its state: what is pending, the closing tag it looks for while it is *)
(* inside a block, and what it has given out in this call.                 *)
(*                                                                         *)
(* Text is a sequence of symbols, each a run of characters that nothing in *)
(* the code tells apart: a tag is several symbols, and a cut between two   *)
(* of them stands for every cut there.                                     *)
(***************************************************************************)
EXTENDS Naturals, Sequences, SequencesExt, FiniteSetsExt

CONSTANTS
  Symbols,
  Lower,     \* the symbol in lower case
  TagPairs   \* an opening tag and the closing tag it requires

Outside == <<>>

ASSUME SymbolsAssumption == Lower \in [Symbols -> Symbols]
ASSUME TagsAssumption ==
  \A p \in TagPairs : p \in (Seq(Symbols) \ {Outside}) \X (Seq(Symbols) \ {Outside})

(* No opening tag has another one in it (thinking.rs:10).                  *)
Within(t, u) == \E d \in 0..(Len(u) - Len(t)) : \A k \in 1..Len(t) : u[d + k] = t[k]
ASSUME ApartAssumption ==
  \A p, q \in TagPairs : Within(p[1], q[1]) => p[1] = q[1]

Closings == {p[2] : p \in TagPairs}

SplitterState == [pending : Seq(Symbols), close : Closings \cup {Outside}]

Split == [pending : Seq(Symbols), close : Closings \cup {Outside},
          reasoning : Seq(Symbols), text : Seq(Symbols), more : BOOLEAN]

(* The tags that change the channel next.                                  *)
Awaited(close) == IF close = Outside THEN {p[1] : p \in TagPairs} ELSE {close}

(* Whether n symbols of text, from the i-th on, are those of the tag.      *)
Agree(text, i, tag, n) == \A k \in 1..n : Lower[text[i + k - 1]] = tag[k]

(* Where the tag is found in text.                                         *)
Found(text, tag) ==
  {i \in 1..(Len(text) - Len(tag) + 1) : Agree(text, i, tag, Len(tag))}

(* As HoldBack was in the JS reference: nothing waits for its rest.        *)
HoldBack_Nothing(text, tags) == 0

(* holdback: the longest suffix that is a proper prefix of a tag.          *)
HoldBack(text, tags) ==
  Max({0} \cup {n \in DOMAIN text :
                  \E t \in tags : n < Len(t) /\ Agree(text, Len(text) - n + 1, t, n)})

(* The first n symbols pending are given out, the next gone are dropped.   *)
Release(split, n, gone) ==
  LET passed == SubSeq(split.pending, 1, n)
  IN  [split EXCEPT
         !.pending = SubSeq(@, n + gone + 1, Len(@)),
         !.text = IF split.close = Outside THEN @ \o passed ELSE @,
         !.reasoning = IF split.close = Outside THEN @ ELSE @ \o passed]

Toggled(close, tag) ==
  IF close = Outside THEN (CHOOSE p \in TagPairs : p[1] = tag)[2] ELSE Outside

(* One turn of push's loop: up to the first tag, or all that cannot become *)
(* one.                                                                    *)
Pass(split) ==
  LET text == split.pending
      tags == Awaited(split.close)
      first == Min(UNION {Found(text, t) : t \in tags})
      tag == CHOOSE t \in tags : first \in Found(text, t)
  IN  IF \A t \in tags : Found(text, t) = {}
        THEN [Release(split, Len(text) - HoldBack(text, tags), 0) EXCEPT !.more = FALSE]
        ELSE [Release(split, first - 1, Len(tag)) EXCEPT !.close = Toggled(@, tag)]

(* ThinkingSplitter::push.                                                 *)
Push(splitter, input) ==
  LET start == [pending |-> splitter.pending \o input, close |-> splitter.close,
                reasoning |-> <<>>, text |-> <<>>, more |-> TRUE]
      loop[split \in Split] == IF split.more THEN loop[Pass(split)] ELSE split
  IN  loop[start]

(* ThinkingSplitter::flush.                                                *)
Flush(splitter) ==
  IF splitter.close = Outside
    THEN [reasoning |-> <<>>, text |-> splitter.pending]
    ELSE [reasoning |-> splitter.pending, text |-> <<>>]

-----------------------------------------------------------------------------
(* The reference: one reading of the whole text with nothing held back.    *)

(* After i symbols: the closing tag looked for, how many symbols of a tag  *)
(* are still to be skipped, and what each channel has got.                 *)
Divided(text) ==
  LET begun(i, close) == {t \in Awaited(close) : i \in Found(text, t)}
      after[i \in 0..Len(text)] ==
        IF i = 0 THEN [close |-> Outside, skip |-> 0, reasoning |-> <<>>, text |-> <<>>]
        ELSE LET before == after[i - 1]
                 tags == begun(i, before.close)
                 tag == CHOOSE t \in tags : TRUE
                 channel == IF before.close = Outside THEN "text" ELSE "reasoning"
             IN  CASE before.skip > 0 -> [before EXCEPT !.skip = @ - 1]
                   [] before.skip = 0 /\ tags # {} ->
                        [before EXCEPT !.close = Toggled(@, tag), !.skip = Len(tag) - 1]
                   [] OTHER -> [before EXCEPT ![channel] = Append(@, text[i])]
  IN  after[Len(text)]
=============================================================================
