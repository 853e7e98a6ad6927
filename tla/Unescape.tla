------------------------------- MODULE Unescape -------------------------------
(***************************************************************************)
(* unescape() of dwm-hooks.c: the regular expressions of a "select" on the *)
(* command pipe are written with the escapes of C.  A text is a sequence   *)
(* of bytes; in it the result never overtakes what is still to be read.    *)
(***************************************************************************)
EXTENDS Integers, Sequences, SequencesExt

CONSTANTS
  Tokens,    \* pieces of text: [text, bytes, errno, open, numeric], what is
             \* written and what it means, which is an error if errno is not "",
             \* whether a digit that follows would belong to it, and whether it
             \* is plain or a numeric escape
  MaxTokens, \* bound on the pieces of a text
  Nothing

Backslash == 92
\* " ' ? \ and the letters a b t n v f r, with what they stand for.
SingleEscapes == {<<34, 34>>, <<39, 39>>, <<63, 63>>, <<92, 92>>, <<97, 7>>, <<98, 8>>,
                  <<116, 9>>, <<110, 10>>, <<118, 11>>, <<102, 12>>, <<114, 13>>}
Octal == 48 .. 55
HexDigits == (48 .. 57) \cup (65 .. 70) \cup (97 .. 102)
DigitValue(byte) ==
  IF byte <= 57 THEN byte - 48 ELSE IF byte <= 70 THEN byte - 55 ELSE byte - 87

At(text, i) == IF i <= Len(text) THEN text[i] ELSE 0

Value(digits, base) == FoldLeft(LAMBDA value, d : base * value + DigitValue(d), 0, digits)

\* How many bytes from i on are of a set, up to a limit.
Run(text, i, set, limit) ==
  CHOOSE n \in 0 .. limit :
    /\ \A k \in 0 .. n - 1 : At(text, i + k) \in set
    /\ n < limit => At(text, i + n) \notin set

Out(bytes, next) == [bytes |-> bytes, next |-> next, errno |-> ""]
Unparsable(errno) == [bytes |-> <<>>, next |-> 0, errno |-> errno]

\* A code point in UTF-8.
Six(value, shift) == (value \div 2^shift) % 64
Bytes(value) ==
  IF value < 128 THEN <<value>>
  ELSE IF value < 2048 THEN <<192 + Six(value, 6), 128 + Six(value, 0)>>
  ELSE IF value < 65536
  THEN <<224 + Six(value, 12), 128 + Six(value, 6), 128 + Six(value, 0)>>
  ELSE <<240 + Six(value, 18), 128 + Six(value, 12), 128 + Six(value, 6), 128 + Six(value, 0)>>

TooLarge(value) == value > 1114111
Surrogate(value) == 55296 <= value /\ value <= 57343
Encoded(value, next) ==
  IF TooLarge(value) THEN Unparsable("ERANGE")
  ELSE IF Surrogate(value) THEN Unparsable("EDOM")
  ELSE Out(Bytes(value), next)

\* \x, \u or \U, the letter being at i.  32 bits hold eight digits; a longer
\* value of \x is refused at the digit that makes it too large.
Hexadecimal(text, i) ==
  IF text[i] = 120
  THEN LET n == Run(text, i + 1, HexDigits, Len(text))
           digits(k) == SubSeq(text, i + 1, i + k)
       IN IF n = 0 THEN Unparsable("EILSEQ")
          ELSE IF \E k \in 1 .. n : Value(digits(k), 16) > 255 THEN Unparsable("ERANGE")
          ELSE Out(<<Value(digits(n), 16)>>, i + n + 1)
  ELSE LET wanted == IF text[i] = 117 THEN 4 ELSE 8
           n == Run(text, i + 1, HexDigits, wanted)
       IN IF n < wanted THEN Unparsable("EILSEQ")
          ELSE Encoded(Value(SubSeq(text, i + 1, i + n), 16), i + n + 1)

\* A bug of the kind the property is for: any number of octal digits.
OctalLong(text, i) ==
  LET n == Run(text, i, Octal, Len(text))
      value == Value(SubSeq(text, i, i + n - 1), 8)
  IN IF value > 255 THEN Unparsable("ERANGE") ELSE Out(<<value>>, i + n)

\* Another: the character behind the digits is passed by.
OctalPast(text, i) ==
  LET n == Run(text, i, Octal, 3)
      value == Value(SubSeq(text, i, i + n - 1), 8)
  IN IF value > 255 THEN Unparsable("ERANGE") ELSE Out(<<value>>, i + n + 1)

OctalEscape(text, i) ==
  LET n == Run(text, i, Octal, 3)
      value == Value(SubSeq(text, i, i + n - 1), 8)
  IN IF value > 255 THEN Unparsable("ERANGE") ELSE Out(<<value>>, i + n)

\* What is written for the text from i on, and where reading goes on.  A single
\* character is not passed by; of an unknown one, the next is taken and is not
\* passed by either.
Piece(text, i) ==
  LET e == At(text, i + 1)
  IN IF text[i] # Backslash THEN Out(<<text[i]>>, i + 1)
     ELSE IF \E s \in SingleEscapes : s[1] = e
     THEN Out(<<(CHOOSE s \in SingleEscapes : s[1] = e)[2]>>, i + 1)
     ELSE IF e = 0 THEN Unparsable("EBADMSG")
     ELSE IF e \in {117, 85, 120} THEN Hexadecimal(text, i + 1)
     ELSE IF e \in Octal THEN OctalEscape(text, i + 1)
     ELSE Out(<<At(text, i + 2)>>, i + 2)

unescape(text) ==
  LET from[i \in 1 .. Len(text) + 1] ==
        IF i > Len(text) THEN [bytes |-> <<>>, errno |-> ""]
        ELSE LET piece == Piece(text, i)
             IN IF piece.errno # "" THEN [bytes |-> <<>>, errno |-> piece.errno]
                ELSE [from[piece.next] EXCEPT
                        !.bytes = IF from[piece.next].errno = "" THEN piece.bytes \o @ ELSE <<>>]
  IN from[1]

-----------------------------------------------------------------------------
(* What a piece of text means in C (external)                               *)

\* The bytes of a code point in UTF-8.
UTF8(bytes, point) ==
  /\ \A i \in 2 .. Len(bytes) : bytes[i] \in 128 .. 191
  /\ \/ /\ point < 128
        /\ bytes = <<point>>
     \/ /\ 128 <= point /\ point < 2048 /\ Len(bytes) = 2
        /\ point = 64 * (bytes[1] - 192) + (bytes[2] - 128)
     \/ /\ 2048 <= point /\ point < 65536 /\ Len(bytes) = 3
        /\ point = 4096 * (bytes[1] - 224) + 64 * (bytes[2] - 128) + (bytes[3] - 128)
     \/ /\ 65536 <= point /\ point <= 1114111 /\ Len(bytes) = 4
        /\ point = 262144 * (bytes[1] - 240) + 4096 * (bytes[2] - 128)
                   + 64 * (bytes[3] - 128) + (bytes[4] - 128)

IsByte(t, value) ==
  IF value > 255 THEN t.errno = "ERANGE" ELSE t.errno = "" /\ t.bytes = <<value>>
IsPoint(t, value) ==
  IF TooLarge(value) THEN t.errno = "ERANGE"
  ELSE IF Surrogate(value) THEN t.errno = "EDOM"
  ELSE t.errno = "" /\ UTF8(t.bytes, value)

\* A character other than a backslash, or an escape with octal digits, x, u or U,
\* where it may have fewer digits than are wanted.
Literal(t) == Len(t.text) = 1 /\ t.text[1] # Backslash /\ t.errno = "" /\ t.bytes = t.text
OctalByte(t) ==
  LET digits == Tail(t.text)
  IN /\ Len(digits) \in 1 .. 3 /\ (Len(digits) < 3 => t.open)
     /\ \A i \in DOMAIN digits : digits[i] \in Octal
     /\ IsByte(t, Value(digits, 8))
Hex(t) ==
  LET digits == Tail(Tail(t.text))
      wanted == IF t.text[2] = 117 THEN 4 ELSE 8
  IN /\ Len(t.text) >= 2 /\ t.text[2] \in {117, 85, 120}
     /\ \A i \in DOMAIN digits : digits[i] \in HexDigits
     /\ t.text[2] = 120 \/ Len(digits) < wanted => t.open
     /\ IF t.text[2] = 120
        THEN IF digits = <<>> THEN t.errno = "EILSEQ" ELSE IsByte(t, Value(digits, 16))
        ELSE /\ Len(digits) <= wanted
             /\ IF Len(digits) < wanted THEN t.errno = "EILSEQ"
                ELSE IsPoint(t, Value(digits, 16))
Numeric(t) == Literal(t) \/ (t.text[1] = Backslash /\ (OctalByte(t) \/ Hex(t)))

ASSUME TokensAssumption ==
  /\ MaxTokens \in Nat
  /\ \A t \in Tokens : /\ t.text \in Seq(Nat \ {0}) /\ t.text # <<>>
                       /\ t.bytes \in Seq(Nat)
                       /\ t.numeric => Numeric(t)

-----------------------------------------------------------------------------
VARIABLES
  written,   \* the pieces the text of a "select" is made of, or Nothing
  result     \* what unescape() returns, or Nothing

textVars == <<written, result>>

\* The argument of unescape().
Text == FlattenSeq([i \in DOMAIN written |-> written[i].text])

\* A hexadecimal escape takes all digits that follow: no digit follows here.
Plain(pieces) ==
  \A i \in 1 .. Len(pieces) - 1 :
    pieces[i].open => pieces[i + 1].text[1] \notin HexDigits

UnescapeInit ==
  /\ written \in {Nothing} \cup
       {s \in UNION {[1 .. n -> Tokens] : n \in 1 .. MaxTokens} : Plain(s)}
  /\ result = Nothing

Convert ==
  /\ written # Nothing /\ result = Nothing
  /\ result' = unescape(Text)
  /\ UNCHANGED written

UnescapeSpec == UnescapeInit /\ [][Convert]_textVars

-----------------------------------------------------------------------------
\* What a text means in C: its bytes, or the first error.
Meaning ==
  LET wrong == {i \in DOMAIN written : written[i].errno # ""}
  IN IF wrong = {} THEN [bytes |-> FlattenSeq([i \in DOMAIN written |-> written[i].bytes]), errno |-> ""]
     ELSE [bytes |-> <<>>, errno |-> written[Min(wrong)].errno]

\* Octal, hexadecimal and Unicode escapes next to each other and to other
\* characters come out as in C or with the error that is documented
\* (dwm-hooks.c:17).  A text with \n, \\ or an unknown escape does not: what
\* follows the backslash is written once more.
NumericEscapesDecoded ==
  result # Nothing /\ (\A i \in DOMAIN written : written[i].numeric) => result = Meaning

\* "This will be modified in-place" (dwm-hooks.c:14): wherever a piece begins, what
\* is written for it takes no more room than what was read, and reading does not
\* pass the end of the text.
NeverOvertakes ==
  written # Nothing => \A i \in DOMAIN Text :
    LET piece == Piece(Text, i)
    IN piece.errno = "" => /\ piece.next \in i + 1 .. Len(Text) + 1
                           /\ Len(piece.bytes) <= piece.next - i
=============================================================================
