----------------------------- MODULE HostsText -----------------------------
(***************************************************************************)
(* The hosts file as crates/core/src/hosts.rs edits it: a text, here a     *)
(* sequence of symbols.  A symbol is one of the two line terminators, the  *)
(* first or the last line of our block, or anything else (a word of the    *)
(* user's, a redirected host).  The remark and the second address of every *)
(* host that the block also holds are left out.                            *)
(***************************************************************************)
EXTENDS Sequences, SequencesExt

CONSTANTS
  Words,  \* what may stand on a line
  Hosts   \* the names our block redirects, in order

BEGIN == "# BEGIN 9rai"
END == "# END 9rai"

Terminators == {"\n", "\r"}

(* The tool's hosts are a list in the code (config.rs:6-13), and not an   *)
(* empty one.                                                              *)
ASSUME HostsAssumption ==
  /\ Words \cap {BEGIN, END} = {}
  /\ Hosts \in Seq(Words) \ {<<>>}

First(symbol, text) == SelectInSeq(text, LAMBDA s : s = symbol)

EndsIn(text, symbol) == text # <<>> /\ Last(text) = symbol

(* A text without its last newline, and the carriage return before it.     *)
Chomp(text) ==
  IF ~EndsIn(text, "\n") THEN text
  ELSE IF EndsIn(Front(text), "\r") THEN Front(Front(text)) ELSE Front(text)

(* A text without the newline it starts with.                              *)
Unled(text) ==
  CASE IsPrefix(<<"\n">>, text) -> SubSeq(text, 2, Len(text))
    [] IsPrefix(<<"\r", "\n">>, text) -> SubSeq(text, 3, Len(text))
    [] OTHER -> text

TrimEnd(text) ==
  LET kept == SelectLastInSeq(text, LAMBDA s : s \notin Terminators)
  IN  SubSeq(text, 1, kept)

ensure_trailing_newline(text) ==
  IF text = <<>> \/ EndsIn(text, "\n") THEN text ELSE text \o <<"\n">>

is_applied(text) == Contains(text, BEGIN)

(* Where our block ends: a block without its last line runs to the end.    *)
BlockEnd(text) ==
  LET end == First(END, text) IN IF end = 0 THEN Len(text) ELSE end

Before(text) == SubSeq(text, 1, First(BEGIN, text) - 1)
After(text) == SubSeq(text, BlockEnd(text) + 1, Len(text))

(* As strip would be, were a block without its last line left alone.       *)
strip_Closed(text) ==
  IF ~is_applied(text) \/ First(END, text) = 0 THEN text
  ELSE Chomp(Before(text)) \o <<"\n">> \o Unled(After(text))

(* As strip would be, were everything from the block on dropped.           *)
strip_Rest(text) ==
  IF ~is_applied(text) THEN text ELSE ensure_trailing_newline(Before(text))

strip(text) ==
  IF ~is_applied(text) THEN text
  ELSE LET head == Chomp(Before(text))
           tail == Unled(After(text))
       IN  CASE head = <<>> -> tail
             [] head # <<>> /\ tail = <<>> -> ensure_trailing_newline(head)
             [] OTHER -> head \o <<"\n">> \o tail

Block ==
  <<BEGIN, "\n">> \o FlattenSeq([i \in 1..Len(Hosts) |-> <<Hosts[i], "\n">>])
    \o <<END>>

(* As apply would be, were the block appended without the trimming.        *)
apply_Untrimmed(text) ==
  IF strip(text) = <<>> THEN Block \o <<"\n">>
  ELSE strip(text) \o <<"\n">> \o Block \o <<"\n">>

apply(text) ==
  LET trimmed == TrimEnd(strip(text))
  IN  IF Hosts = <<>> THEN strip(text)
      ELSE IF trimmed = <<>> THEN Block \o <<"\n">>
      ELSE trimmed \o <<"\n", "\n">> \o Block \o <<"\n">>

is_current(text) == apply(text) = ensure_trailing_newline(text)
=============================================================================
