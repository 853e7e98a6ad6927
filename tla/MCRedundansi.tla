---------------------------- MODULE MCRedundansi ----------------------------
(* Sequences of every form the parser knows, one of them as long as the     *)
(* buffer allows, and ESC bytes in any number.                              *)
EXTENDS Redundansi

Byte(kind) == [kind |-> kind, value |-> 0, width |-> 1]
Number(n) ==
  [kind |-> "number", value |-> n, width |-> IF n < 10 THEN 1 ELSE IF n < 100 THEN 2 ELSE 3]
Spelling(numbers) ==
  [i \in 1 .. 2 * Len(numbers) - 1 |->
     IF i % 2 = 1 THEN Number(numbers[(i + 1) \div 2]) ELSE Byte(";")]
Sequence(inner, groups) ==
  [bytes |-> <<Byte("escape"), Byte("[")>> \o inner \o <<Byte("m")>>, groups |-> groups]
Attributes(groups) == Sequence(Spelling(FlattenSeq(groups)), groups)
Plain(kinds) == [bytes |-> [i \in DOMAIN kinds |-> Byte(kinds[i])], groups |-> <<>>]

\* No SGR sequence, and longer than the buffer.
Long == [bytes |-> <<Byte("escape"), Byte("[")>> \o Spelling(<<200, 200, 200, 200>>)
                   \o <<Byte("text")>>,
         groups |-> <<>>]

Others == {Plain(<<"text">>), Plain(<<"newline">>), Plain(<<"escape", "m">>),
           Plain(<<"escape", "[", "text", "m">>), Plain(<<"m">>),
           Plain(<<"escape">>)}
Empties ==
  {Sequence(<<>>, <<<<0>>>>),
   Sequence(<<Byte(";"), Number(4)>>, <<<<0>>, <<4>>>>),
   Sequence(<<Number(3), Byte(";")>>, <<<<3>>, <<0>>>>)}
MCPiece ==
  Others \cup Empties \cup {Long} \cup
  {Attributes(<<<<2>>, <<7>>>>), Attributes(<<<<27>>, <<9>>>>),
   Attributes(<<<<28>>, <<29>>>>), Attributes(<<<<8>>>>), Attributes(<<<<1>>>>),
   Attributes(<<<<6>>, <<31>>>>), Attributes(<<<<38, 5, 1>>, <<24>>>>),
   Attributes(<<<<48, 2, 38, 5, 1>>, <<3>>>>),
   Attributes(<<<<39>>, <<23>>, <<25>>, <<49>>>>)}

\* What the proofs assume of the input.
ASSUME InputAssumption == Piece = MCPiece => DocumentedInput

\* Left behind by other sequences, or nothing but a NUL.
MCStale == {<<0>>, <<5, 1>>}

\* Normal intensity, written as 22.
MCPiece22 ==
  {Plain(<<"text">>), Plain(<<"newline">>), Attributes(<<<<1>>>>), Attributes(<<<<22>>>>)}
=============================================================================
