----------------------------- MODULE MCChatStream -----------------------------
(* A provider that may send each of these payloads, up to MaxPayloads times. *)
EXTENDS ChatStream

CONSTANTS i1, i2, u1, u2, shot, scan, said, spec

MCTools == {0, 2}
MCIds == {i1, i2}

(* <think>, <thinking> and what they share, in either case.                  *)
MCSymbols == {"<", "/", "think", "THINK", "ing", ">", "word"}
MCLower == [s \in MCSymbols |-> IF s = "THINK" THEN "think" ELSE s]
MCTagPairs ==
  { << <<"<", "think", "ing", ">">>, <<"<", "/", "think", "ing", ">">> >>,
    << <<"<", "think", ">">>, <<"<", "/", "think", ">">> >> }

(* Conversations of up to two earlier turns and the current one.             *)
MCUseIds == {u1, u2}
MCTexts == {said}
MCImages == {shot}
MCBadImages == {scan}
MCSpecs == {spec}

Result(id, failed) == [id |-> id, text |-> said, failed |-> failed]
MCResults ==
  {<<>>, <<Result(u1, FALSE)>>, <<Result(u1, FALSE), Result(u2, TRUE)>>,
   <<Result(NoUseId, FALSE)>>}

MCUser(text, results, images, tools) ==
  [role |-> "user", text |-> text, results |-> results, images |-> images, tools |-> tools]

MCUsers ==
  {MCUser(t, r, i, <<>>) : t \in {NoText, said}, r \in MCResults,
                           i \in {<<>>, <<scan>>, <<scan, shot>>}}
  \cup {MCUser(said, <<>>, <<>>, <<spec>>)}

MCAssistants ==
  [role : {"assistant"}, text : {NoText, said},
   uses : {<<>>, <<u1>>, <<u2, u1>>, <<NoUseId>>}]

MCHistory ==
  MCAssistants
  \cup {EmptyTurn, MCUser(said, <<>>, <<shot>>, <<spec>>),
        MCUser(said, <<Result(u1, TRUE)>>, <<>>, <<>>), MCUser(NoText, <<>>, <<>>, <<>>)}

MCAsks ==
  [history : BoundedSeq(MCHistory, 2), current : {<<>>} \cup {<<u>> : u \in MCUsers}]

Nothing == [tool |-> <<>>, reasoning |-> FALSE, content |-> <<>>, usage |-> FALSE]
Says(content) == [Nothing EXCEPT !.content = content]
Calls(index, id, name, args) ==
  [Nothing EXCEPT !.tool = <<[index |-> index, id |-> id, name |-> name, args |-> args]>>]

MCChunks ==
  { Nothing,
    [Nothing EXCEPT !.usage = TRUE],
    [Nothing EXCEPT !.usage = TRUE, !.reasoning = TRUE, !.content = <<"word">>],
    Says(<<"word", "<">>), Says(<<"<", "THINK">>), Says(<<"ing", ">">>),
    Says(<<">", "word", "<", "/", "think">>),
    Says(<<"<", "think", ">", "word", "<", "/", "think", ">", "word">>),
    Calls(2, i1, "named", FALSE), Calls(2, i2, "named", TRUE),
    Calls(2, NoId, "absent", TRUE), Calls(2, i2, "empty", FALSE),
    Calls(0, i2, "named", TRUE) }
=============================================================================
