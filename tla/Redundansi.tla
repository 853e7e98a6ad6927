----------------------------- MODULE Redundansi -----------------------------
(***************************************************************************)
(* The filter of redundansi.c: it copies its input, follows the SGR escape *)
(* sequences in it, and begins every line with the attributes in force, so *)
(* that less, which applies attributes to one line only, shows the text as *)
(* a terminal does.                                                        *)
(*                                                                         *)
(* The input comes in pieces: text, newlines, escape sequences.  A piece   *)
(* says what its bytes are and, for SGR sequences, which attributes a      *)
(* terminal finds in them.  A number is one token, below 2^31, with the    *)
(* value strtol() gives it and as many bytes wide as it has digits.        *)
(*                                                                         *)
(* Nothing checks the size of the buffer where an ESC is appended to it.   *)
(* What the program does after it has written behind the buffer is left    *)
(* out.                                                                    *)
(***************************************************************************)
EXTENDS Naturals, Sequences, SequencesExt

CONSTANTS
  Piece,      \* what the input is made of
  EscapeSize, \* sizeof(escape)
  Stale       \* numbers that may stand behind the last byte of a sequence

ASSUME SizeAssumption == EscapeSize \in Nat /\ EscapeSize > 3

Kinds == {"newline", "escape", "[", ";", "m", "number", "text"}

\* A group sets or clears attributes: a code and its parameters.
ASSUME PieceAssumption ==
  \A p \in Piece :
    /\ p.bytes \in Seq([kind : Kinds, value : Nat, width : Nat \ {0}])
    /\ p.groups \in Seq(Seq(Nat) \ {<<>>})
    /\ \A i \in DOMAIN p.bytes : p.bytes[i].kind = "number" =>
         i < Len(p.bytes) /\ p.bytes[i + 1].kind # "number"

ASSUME StaleAssumption == Stale \subseteq Seq(Nat) \ {<<>>}

VARIABLES
  inside,        \* inside_sgr_escape_sequence
  escape,        \* the bytes of the sequence so far
  attr,          \* the last parameters of each class of attributes
  print_escapes,
  piece, next,   \* the piece being read and its next token
  orderly,       \* each piece has been Orderly
  terminal,      \* the attributes of a terminal that reads the input
  less           \* those less applies to the line of the output, so far

filter == <<inside, escape, attr, print_escapes>>
vars == <<filter, piece, next, orderly, terminal, less>>

\* In the order in which they are written.
Classes == <<"bgcolor", "blink", "bold", "faint", "fgcolor", "hidden", "italic",
             "reverse", "strike", "underline">>
Class == Range(Classes)
Off == [c \in Class |-> <<>>]

-----------------------------------------------------------------------------
(* What SGR parameters mean                                                 *)

\* The classes that 1 to 9 set, and the same with two mixed up.
AttributesMixed == <<"bold", "faint", "italic", "underline", "blink", "blink", "hidden",
                     "reverse", "strike">>
AttributesNumbered == <<"bold", "faint", "italic", "underline", "blink", "blink", "reverse",
                        "hidden", "strike">>

\* The class that a first parameter sets, or "none".
Sets(code) ==
  IF code \in 30 .. 38 THEN "fgcolor"
  ELSE IF code \in 40 .. 48 THEN "bgcolor"
  ELSE IF code \notin 1 .. 9 THEN "none"
  ELSE AttributesNumbered[code]

\* The classes that a first parameter clears.
Clears(code) ==
  CASE code = 0  -> Class
    [] code = 22 -> {"faint", "italic"}
    [] code = 23 -> {"italic"}
    [] code = 24 -> {"underline"}
    [] code = 25 -> {"blink"}
    [] code = 27 -> {"reverse"}
    [] code = 28 -> {"hidden"}
    [] code = 29 -> {"strike"}
    [] code = 39 -> {"fgcolor"}
    [] code = 49 -> {"bgcolor"}
    [] OTHER -> {}

Applied(attributes, parameters) ==
  [c \in Class |-> IF c \in Clears(Head(parameters)) THEN <<>>
                   ELSE IF c = Sets(Head(parameters)) THEN parameters
                   ELSE attributes[c]]

Followed(attributes, groups) == FoldLeft(Applied, attributes, groups)

\* The same for a terminal, and for less (external): the standard, ECMA-48, and the
\* bright colours of xterm.
TerminalSets ==
  [bold |-> {1}, faint |-> {2}, italic |-> {3}, underline |-> {4, 21}, blink |-> {5, 6},
   reverse |-> {7}, hidden |-> {8}, strike |-> {9},
   fgcolor |-> 30 .. 38 \cup 90 .. 97, bgcolor |-> 40 .. 48 \cup 100 .. 107]

TerminalClears ==
  [bold |-> {22}, faint |-> {22}, italic |-> {23}, underline |-> {24}, blink |-> {25},
   reverse |-> {27}, hidden |-> {28}, strike |-> {29}, fgcolor |-> {39}, bgcolor |-> {49}]

TerminalApplied(attributes, parameters) ==
  [c \in Class |-> IF Head(parameters) \in {0} \cup TerminalClears[c] THEN <<>>
                   ELSE IF Head(parameters) \in TerminalSets[c] THEN parameters
                   ELSE attributes[c]]

Rendered(attributes, groups) == FoldLeft(TerminalApplied, attributes, groups)

-----------------------------------------------------------------------------
(* The parser                                                               *)

Width(token) == IF token.kind = "number" THEN token.width ELSE 1

escapelen(e) == FoldLeft(LAMBDA n, token : n + Width(token), 0, e)
FitsBeyond(e, token) == escapelen(e) + Width(token) <= EscapeSize
Fits(e, token) == escapelen(e) + Width(token) <= EscapeSize - 1

Zero == [kind |-> "number", value |-> 0, width |-> 1]

\* An empty parameter is written as 0.
Filled(e, token) ==
  IF token.kind \in {";", "m"} /\ Last(e).kind \in {"[", ";"} THEN Append(e, Zero) ELSE e

\* A byte more of a sequence.
Longer(e, token) == Append(Filled(e, token), token)

Unfinished(e) ==
  \/ Len(e) = 2 /\ Last(e).kind = "["
  \/ Len(e) > 2 /\ Last(e).kind \in {";", "number"}

\* parse_sgr_escape() puts the numbers into groups, one for each attribute.
GroupedApart(numbers) == [i \in DOMAIN numbers |-> <<numbers[i]>>]
Extended(group) == Head(group) \in {38, 48}
More(group) ==
  IF Len(group) = 1 /\ Extended(group) THEN 1
  ELSE IF Len(group) = 2 /\ Extended(group) /\ group[2] = 2 THEN 3
  ELSE IF Len(group) = 2 /\ Extended(group) /\ group[2] = 5 THEN 1
  ELSE 0
Take(so, n) ==
  LET group == IF so.consume = 0 THEN <<n>> ELSE Append(Last(so.groups), n)
      rest == IF so.consume = 0 THEN 0 ELSE so.consume - 1
  IN [groups |-> Append(IF so.consume = 0 THEN so.groups ELSE Front(so.groups), group),
      consume |-> rest + More(group)]
Reading(numbers) == FoldLeft(Take, [groups |-> <<>>, consume |-> 0], numbers)
Grouped(numbers) == Reading(numbers).groups

AddNumber(numbers, token) ==
  IF token.kind = "number" THEN Append(numbers, token.value) ELSE numbers
Numbers(e) == FoldLeft(AddNumber, <<>>, e)

\* Numbers are looked for behind the "m" of a sequence when an ESC is before it.
Beyond(e) == IF Last(e).kind = "escape" THEN Stale ELSE {<<>>}

-----------------------------------------------------------------------------
\* The escape that begins a sequence comes before the other bytes of the piece, and
\* the piece ends after it (external).
Orderly(p) ==
  \A i \in DOMAIN p.bytes : p.bytes[i].kind = "escape" =>
    i = 1 /\ p.bytes[Len(p.bytes)].kind \in {"newline", "m", "text"}

\* Only ESC bytes fill the buffer to its end, and beyond it.
TypeOK ==
  /\ {inside, print_escapes, orderly} \subseteq BOOLEAN
  /\ inside <=> escape # <<>>
  /\ escapelen(escape) <= EscapeSize + 1
  /\ escapelen(escape) >= EscapeSize => Last(escape).kind = "escape"
  /\ {attr, terminal, less} \subseteq [Class -> Seq(Nat)]
  /\ \A c \in Class : Len(attr[c]) <= 5
  /\ piece \in Piece /\ next \in 1 .. Len(piece.bytes) + 1

Init ==
  /\ inside = FALSE /\ escape = <<>> /\ attr = Off /\ print_escapes = FALSE
  /\ piece \in Piece /\ next = 1 /\ orderly = Orderly(piece)
  /\ terminal = Off /\ less = Off

Done == next > Len(piece.bytes)
Token == piece.bytes[next]

\* What is seen is followed while the input is orderly.
Seen(in_order, attributes) == IF in_order THEN attributes ELSE Off

Another ==
  /\ Done
  /\ piece' \in Piece /\ next' = 1
  /\ orderly' = (orderly /\ Orderly(piece'))
  /\ terminal' = Seen(orderly', terminal) /\ less' = Seen(orderly', less)
  /\ UNCHANGED filter

\* The attributes in force, as they are written before the first byte of a line.
ShowClass(attributes, shown, c) ==
  IF attributes[c] = <<>> THEN shown ELSE TerminalApplied(shown, attributes[c])
Emitted(attributes, classes) ==
  FoldLeft(LAMBDA shown, c : ShowClass(attributes, shown, c), Off, classes)
Shown == IF print_escapes THEN Emitted(attr, Classes) ELSE less

\* Nothing has been written behind the buffer.
InBuffer == escapelen(escape) <= EscapeSize

\* What a terminal and less make of the next byte: the last one of an SGR
\* sequence takes effect.
Copy ==
  LET groups == IF next = Len(piece.bytes) THEN piece.groups ELSE <<>>
  IN /\ InBuffer
     /\ next' = next + 1
     /\ terminal' = Seen(orderly, Rendered(terminal, groups))
     /\ less' = Seen(orderly, IF Token.kind = "newline" THEN Off ELSE Rendered(Shown, groups))
     /\ UNCHANGED <<piece, orderly>>

Leave == inside' = FALSE /\ escape' = <<>>

\* A NUL may stand anywhere; it is dropped, the attributes due are written.
Nul ==
  /\ InBuffer
  /\ less' = Seen(orderly, Shown) /\ print_escapes' = FALSE
  /\ UNCHANGED <<inside, escape, attr, piece, next, orderly, terminal>>

Newline ==
  /\ ~Done /\ Token.kind = "newline"
  /\ Copy /\ Leave
  /\ print_escapes' = TRUE
  /\ UNCHANGED attr

EscapeByte ==
  /\ ~Done /\ Token.kind = "escape"
  /\ Copy
  /\ inside' = TRUE /\ escape' = Append(escape, Token)
  /\ print_escapes' = FALSE
  /\ UNCHANGED attr

Text ==
  /\ ~Done /\ ~inside /\ Token.kind \notin {"newline", "escape"}
  /\ Copy
  /\ print_escapes' = FALSE
  /\ UNCHANGED <<inside, escape, attr>>

SequenceByte ==
  LET filled == Filled(escape, Token)
      longer == Longer(escape, Token)
  IN /\ ~Done /\ inside /\ Token.kind \notin {"newline", "escape"}
     /\ Copy
     /\ print_escapes' = FALSE
     /\ IF ~Fits(filled, Token) THEN Leave /\ UNCHANGED attr
        ELSE IF Token.kind = "m" /\ Len(longer) > 2
        THEN /\ Leave
             /\ \E beyond \in Beyond(escape) :
                  attr' = Followed(attr, Grouped(Numbers(longer) \o beyond))
        ELSE /\ UNCHANGED attr
             /\ IF Unfinished(longer)
                THEN escape' = longer /\ UNCHANGED inside
                ELSE Leave

Next == Another \/ Nul \/ Newline \/ EscapeByte \/ Text \/ SequenceByte

Spec == Init /\ [][Next]_vars

-----------------------------------------------------------------------------
(* Input the filter is written for (external)                               *)

\* One attribute: a code that the filter and a terminal understand alike, or an
\* extended colour.
Shared(code) == code \notin {21, 22, 38, 48} \cup 90 .. 97 \cup 100 .. 107
OneAttribute(group) ==
  \/ Len(group) = 1 /\ Shared(group[1])
  \/ Len(group) = 3 /\ group[1] \in {38, 48} /\ group[2] = 5
  \/ Len(group) = 5 /\ group[1] \in {38, 48} /\ group[2] = 2

\* A byte that no parameters of a sequence have.
Breaks(p, i) ==
  IF i = 2 THEN p.bytes[i].kind # "[" ELSE p.bytes[i].kind \notin {";", "number"}

\* An SGR sequence that fits the buffer and spells its attributes.
Complete(bytes) == FoldLeft(Longer, <<>>, bytes)
Spelled(groups) == FoldLeft(LAMBDA numbers, group : numbers \o group, <<>>, groups)
Sgr(p) ==
  /\ Len(p.bytes) > 2 /\ p.bytes[1].kind = "escape"
  /\ \A i \in 2 .. Len(p.bytes) - 1 : ~Breaks(p, i)
  /\ p.bytes[Len(p.bytes)].kind = "m"
  /\ escapelen(Complete(p.bytes)) < EscapeSize
  /\ \A i \in 1 .. Len(p.groups) : OneAttribute(p.groups[i])
  /\ Numbers(Complete(p.bytes)) = Spelled(p.groups)

\* Text, a newline, or another sequence.
Ignored(p) ==
  /\ p.groups = <<>>
  /\ p.bytes[1].kind = "escape" =>
       \A i \in 3 .. Len(p.bytes) :
         p.bytes[i].kind = "m" => \E j \in 2 .. i - 1 : Breaks(p, j)

DocumentedInput == \A p \in Piece : Orderly(p) => Sgr(p) \/ Ignored(p)

-----------------------------------------------------------------------------
\* "to ensure Less renders the output the way a terminal would": between the
\* pieces, the text that comes next looks the same in less as on a terminal, as
\* long as the input is orderly.
LessLikeTerminal == orderly /\ Done => Shown = terminal
=============================================================================
