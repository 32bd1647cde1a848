-------------------------------- MODULE Json --------------------------------
(***************************************************************************)
(* The JSON text format of the RPC layer: JsonParser, JsonWriter, the      *)
(* UTF-8 check they share.  Text is a sequence of bytes, a JsonValue a      *)
(* record; parsing and writing are functions.                              *)
(*                                                                         *)
(* std::to_chars and std::from_chars are external.  A finite double is an exact   *)
(* decimal m * 10^e (m not a multiple of 10): how the library rounds the   *)
(* digits a double cannot hold is left out, its range is not.              *)
(***************************************************************************)
EXTENDS Integers, SequencesExt

CONSTANTS
    maxDepth_,     \* deepest nesting that is read or written
    Int64Max,      \* the largest int64_t, scaled down
    MaxExponent    \* a finite double has a decimal exponent of at most this size

ASSUME JsonAssumption ==
    {maxDepth_, Int64Max, MaxExponent} \subseteq Nat

(***************************************************************************)
(* Values.                                                                 *)
(***************************************************************************)
Null == [type |-> "kNull"]
Bool(b) == [type |-> "kBool", bool |-> b]
Integer(n) == [type |-> "kNumber", isInteger |-> TRUE, integer |-> n]
Number(d) == [type |-> "kNumber", isInteger |-> FALSE, number |-> d]
String(s) == [type |-> "kString", string |-> s]
Array(a) == [type |-> "kArray", array |-> a]
Object(o) == [type |-> "kObject", object |-> o]   \* a sequence of <<key, value>>

Double(neg, m, e) == [finite |-> TRUE, neg |-> neg, m |-> m, e |-> e]
NonFinite == [Double(FALSE, 0, 0) EXCEPT !.finite = FALSE]    \* infinities, NaN
\* What an operation that can fail returns; pos is the reader's pos_ afterwards.
Fail == [ok |-> FALSE]
Written(text) == [ok |-> TRUE, text |-> text]
Read(v, pos) == [ok |-> TRUE, v |-> v, pos |-> pos]

\* Go on with the result of a read that succeeded.
Then(r, F(_)) == IF r.ok THEN F(r) ELSE Fail

(***************************************************************************)
(* Bytes.                                                                  *)
(***************************************************************************)
Quote == 34
Backslash == 92
Minus == 45
Dot == 46
Zero == 48
LowerU == 117
Digits == 48..57
Whitespace == {9, 10, 13, 32}
NullText == <<110, 117, 108, 108>>
TrueText == <<116, 114, 117, 101>>
FalseText == <<102, 97, 108, 115, 101>>

\* The byte at pos, and no byte past the end.
At(in, pos) == IF pos <= Len(in) THEN in[pos] ELSE -1

\* The first position from pos on whose byte is not in S.
PastAll(in, pos, S) == Min({i \in pos..(Len(in) + 1) : At(in, i) \notin S})

hexDigit(c) ==
    CASE c \in 48..57 -> c - 48
      [] c \in 97..102 -> c - 97 + 10
      [] c \in 65..70 -> c - 65 + 10
      [] OTHER -> -1

\* The number n >= 0 in decimal.
RECURSIVE Decimal(_)
Decimal(n) == IF n < 10 THEN <<Zero + n>> ELSE Append(Decimal(n \div 10), Zero + (n % 10))

\* The number a sequence of decimal digits stands for.
DigitsValue(ds) == FoldLeft(LAMBDA n, c : 10 * n + c - Zero, 0, ds)

(***************************************************************************)
(* UTF-8.                                                                  *)
(***************************************************************************)
Surrogates == 55296..57343
HighSurrogates == 55296..56319
LowSurrogates == 56320..57343

appendUtf8(cp) ==
    CASE cp <= 127 -> <<cp>>
      [] cp \in 128..2047 -> <<192 + (cp \div 64), 128 + (cp % 64)>>
      [] cp \in 2048..65535 -> <<224 + (cp \div 4096), 128 + ((cp \div 64) % 64), 128 + (cp % 64)>>
      [] OTHER -> <<240 + (cp \div 262144), 128 + ((cp \div 4096) % 64),
                    128 + ((cp \div 64) % 64), 128 + (cp % 64)>>

\* The length a lead byte announces; 0 for a byte that may not lead.
SequenceLength(lead) ==
    CASE lead < 128 -> 1
      [] lead \in 194..223 -> 2
      [] lead \in 224..239 -> 3
      [] lead \in 240..244 -> 4
      [] OTHER -> 0

\* The code point the n bytes at i assemble to.
CodePoint(text, i, n) ==
    FoldLeft(LAMBDA cp, c : 64 * cp + (c % 64),
             text[i] % (IF n = 1 THEN 128 ELSE 2 ^ (7 - n)), SubSeq(text, i + 1, i + n - 1))

\* Mutated form of SequenceOK: overlong three and four byte forms are let through.
OverlongAccepted(text, i, n) ==
    /\ n # 0 /\ i + n - 1 <= Len(text)
    /\ \A j \in (i + 1)..(i + n - 1) : text[j] \in 128..191
    /\ CodePoint(text, i, n) \notin Surrogates
    /\ CodePoint(text, i, n) <= 1114111

SequenceOK(text, i, n) ==
    /\ n # 0 /\ i + n - 1 <= Len(text)
    /\ \A j \in (i + 1)..(i + n - 1) : text[j] \in 128..191
    /\ n = 3 => CodePoint(text, i, n) >= 2048
    /\ n = 4 => CodePoint(text, i, n) >= 65536
    /\ CodePoint(text, i, n) \notin Surrogates
    /\ CodePoint(text, i, n) <= 1114111

isValidUtf8(text) ==
    LET RECURSIVE From(_)
        From(i) == \/ i > Len(text)
                   \/ LET n == SequenceLength(text[i])
                      IN  SequenceOK(text, i, n) /\ From(i + n)
    IN  From(1)

(***************************************************************************)
(* JsonWriter.                                                             *)
(***************************************************************************)
\* The bytes with a short escape, each with the letter that follows the backslash.
ShortEscape == (34 :> 34) @@ (92 :> 92) @@ (8 :> 98) @@ (12 :> 102)
                   @@ (10 :> 110) @@ (13 :> 114) @@ (9 :> 116)

HexText(d) == IF d < 10 THEN Zero + d ELSE 87 + d

EscapedByte(c) ==
    CASE c \in DOMAIN ShortEscape -> <<Backslash, ShortEscape[c]>>
      [] c \in 0..31 \ DOMAIN ShortEscape ->
             <<Backslash, LowerU, Zero, Zero, HexText(c \div 16), HexText(c % 16)>>
      [] OTHER -> <<c>>

writeString(text) ==
    IF isValidUtf8(text)
    THEN Written(<<Quote>> \o FlattenSeq([i \in DOMAIN text |-> EscapedByte(text[i])])
                           \o <<Quote>>)
    ELSE Fail

\* std::to_chars (external): the shorter of the fixed and the scientific form.
SignText(neg) == IF neg THEN <<Minus>> ELSE <<>>
FixedText(m, e) ==
    LET ds == Decimal(m)
        point == Len(ds) + e                   \* digits in front of the point
    IN  CASE e >= 0 -> ds \o [i \in 1..e |-> Zero]
          [] e < 0 /\ point > 0 -> SubSeq(ds, 1, point) \o <<Dot>> \o SubSeq(ds, point + 1, Len(ds))
          [] OTHER -> <<Zero, Dot>> \o [i \in 1..(-point) |-> Zero] \o ds
ScientificText(m, e) ==
    LET ds == Decimal(m)
        x == e + Len(ds) - 1
        xs == Decimal(IF x < 0 THEN -x ELSE x)
    IN  <<ds[1]>> \o (IF Len(ds) > 1 THEN <<Dot>> \o Tail(ds) ELSE <<>>)
            \o <<101, IF x < 0 THEN Minus ELSE 43>> \o (IF Len(xs) = 1 THEN <<Zero>> ELSE <<>>) \o xs
to_chars(d) ==
    SignText(d.neg) \o IF Len(FixedText(d.m, d.e)) <= Len(ScientificText(d.m, d.e))
                       THEN FixedText(d.m, d.e) ELSE ScientificText(d.m, d.e)

\* Mutated form of writeNumber: a whole double is written like an integer.
WholeWithoutPoint(value) ==
    CASE value.isInteger -> Written(SignText(value.integer < 0)
                                \o Decimal(IF value.integer < 0 THEN -value.integer ELSE value.integer))
      [] ~value.isInteger /\ ~value.number.finite -> Fail
      [] OTHER -> Written(to_chars(value.number))

writeNumber(value) ==
    CASE value.isInteger -> Written(SignText(value.integer < 0)
                                \o Decimal(IF value.integer < 0 THEN -value.integer ELSE value.integer))
      [] ~value.isInteger /\ ~value.number.finite -> Fail
      [] OTHER -> LET text == to_chars(value.number)
                  IN  Written(IF {Dot, 101} \cap ToSet(text) = {} THEN text \o <<Dot, Zero>> ELSE text)

\* The texts of the members of a container, or the failure of one of them.
Joined(open, parts, close) ==
    IF \E i \in DOMAIN parts : ~parts[i].ok THEN Fail
    ELSE Written(<<open>> \o FlattenSeq([i \in DOMAIN parts |->
                     (IF i = 1 THEN <<>> ELSE <<44>>) \o parts[i].text]) \o <<close>>)

RECURSIVE writeValue(_, _)
writeValue(value, depth) ==
    CASE value.type = "kNull" -> Written(NullText)
      [] value.type = "kBool" -> Written(IF value.bool THEN TrueText ELSE FalseText)
      [] value.type = "kNumber" -> writeNumber(value)
      [] value.type = "kString" -> writeString(value.string)
      [] value.type \in {"kArray", "kObject"} /\ depth >= maxDepth_ -> Fail
      [] value.type = "kArray" /\ depth < maxDepth_ ->
             Joined(91, [i \in DOMAIN value.array |-> writeValue(value.array[i], depth + 1)], 93)
      [] value.type = "kObject" /\ depth < maxDepth_ ->
             Joined(123, [i \in DOMAIN value.object |->
                              LET key == writeString(value.object[i][1])
                                  v == writeValue(value.object[i][2], depth + 1)
                              IN  IF key.ok /\ v.ok THEN Written(key.text \o <<58>> \o v.text)
                                                    ELSE Fail], 125)

write(value) == writeValue(value, 0)

(***************************************************************************)
(* JsonParser: one cursor that moves through the text.                     *)
(***************************************************************************)
skipWhitespace(in, pos) == PastAll(in, pos, Whitespace)

consume(in, pos, literal, v) ==
    IF IsPrefix(literal, SubSeq(in, pos, Len(in))) THEN Read(v, pos + Len(literal)) ELSE Fail

\* std::from_chars for a double (external): the digits m scaled by 10^e, normalised.
RECURSIVE from_chars(_, _, _)
from_chars(neg, m, e) ==
    CASE m = 0 -> Double(neg, 0, 0)
      [] m # 0 /\ m % 10 = 0 -> from_chars(neg, m \div 10, e + 1)
      [] m # 0 /\ m % 10 # 0 ->
             [Double(neg, m, e) EXCEPT !.finite = e + Len(Decimal(m)) - 1 \in (-MaxExponent)..MaxExponent]

parseNumber(in, pos) ==
    LET neg == At(in, pos) = Minus
        int == IF neg THEN pos + 1 ELSE pos
        point == IF At(in, int) = Zero THEN int + 1 ELSE PastAll(in, int, Digits)
        hasFraction == At(in, point) = Dot
        exp == IF hasFraction THEN PastAll(in, point + 1, Digits) ELSE point
        hasExponent == At(in, exp) \in {69, 101}
        expDigits == IF At(in, exp + 1) \in {43, Minus} THEN exp + 2 ELSE exp + 1
        end == IF hasExponent THEN PastAll(in, Min({expDigits, Len(in) + 1}), Digits) ELSE exp
        digits == DigitsValue(SubSeq(in, int, point - 1))
        fraction == SubSeq(in, point + 1, exp - 1)
        exponent == IF ~hasExponent THEN 0
                    ELSE (IF At(in, exp + 1) = Minus THEN -1 ELSE 1)
                             * DigitsValue(SubSeq(in, expDigits, end - 1))
        integer == IF neg THEN -digits ELSE digits
        number == from_chars(neg, digits * 10 ^ Len(fraction) + DigitsValue(fraction),
                             exponent - Len(fraction))
    IN  CASE \/ point = int                                       \* no digit at all
             \/ At(in, int) = Zero /\ At(in, point) \in Digits    \* leading zero
             \/ hasFraction /\ exp = point + 1
             \/ hasExponent /\ end <= expDigits -> Fail
          [] OTHER ->
             IF ~hasFraction /\ ~hasExponent /\ integer \in (-Int64Max - 1)..Int64Max
             THEN Read(Integer(integer), end)
             ELSE IF number.finite THEN Read(Number(number), end) ELSE Fail

\* The four hexadecimal digits of a \u escape.
readHex4(in, pos) ==
    IF \A i \in 0..3 : hexDigit(At(in, pos + i)) >= 0
    THEN Read(FoldLeft(LAMBDA v, c : 16 * v + hexDigit(c), 0, SubSeq(in, pos, pos + 3)), pos + 4)
    ELSE Fail

parseUnicodeEscape(in, pos) ==
    Then(readHex4(in, pos), LAMBDA high :
        CASE high.v \in LowSurrogates -> Fail
          [] high.v \in HighSurrogates ->
                 IF At(in, high.pos) = Backslash /\ At(in, high.pos + 1) = LowerU
                 THEN Then(readHex4(in, high.pos + 2), LAMBDA low :
                          IF low.v \in LowSurrogates
                          THEN Read(appendUtf8(65536 + (high.v - 55296) * 1024 + (low.v - 56320)), low.pos)
                          ELSE Fail)
                 ELSE Fail
          [] high.v \notin Surrogates -> Read(appendUtf8(high.v), high.pos))

\* The letters after a backslash that stand for one byte.
Unescape == (34 :> 34) @@ (92 :> 92) @@ (47 :> 47) @@ (98 :> 8)
                @@ (102 :> 12) @@ (110 :> 10) @@ (114 :> 13) @@ (116 :> 9)

parseEscape(in, pos) ==
    LET c == At(in, pos)
    IN  CASE c = LowerU -> parseUnicodeEscape(in, pos + 1)
          [] c \in DOMAIN Unescape -> Read(<<Unescape[c]>>, pos + 1)
          [] OTHER -> Fail

\* The bytes up to the closing quote; no byte at all counts as a control character.
RECURSIVE Characters(_, _, _)
Characters(in, pos, text) ==
    LET c == At(in, pos)
    IN  CASE c = Quote -> IF isValidUtf8(text) THEN Read(text, pos + 1) ELSE Fail
          [] c = Backslash ->
                 Then(parseEscape(in, pos + 1), LAMBDA escape : Characters(in, escape.pos, text \o escape.v))
          [] c < 32 -> Fail
          [] OTHER -> Characters(in, pos + 1, Append(text, c))

parseString(in, pos) == IF At(in, pos) = Quote THEN Characters(in, pos + 1, <<>>) ELSE Fail

RECURSIVE parseValue(_, _, _)
RECURSIVE parseItems(_, _, _, _, _)

\* One element of an array or one member of an object.
parseItem(in, pos, depth, close) ==
    IF close = 93 THEN parseValue(in, pos, depth + 1)
    ELSE Then(parseString(in, pos), LAMBDA key :
             LET colon == skipWhitespace(in, key.pos)
             IN  IF At(in, colon) # 58 THEN Fail
                 ELSE Then(parseValue(in, skipWhitespace(in, colon + 1), depth + 1), LAMBDA value :
                          Read(<<key.v, value.v>>, value.pos)))

\* Mutated form of parseItems: a container may also end after a comma.
TrailingComma(in, pos, depth, close, items) ==
    LET start == skipWhitespace(in, pos)
    IN  IF At(in, start) = close THEN Read(items, start + 1)
        ELSE Then(parseItem(in, start, depth, close), LAMBDA item :
                 LET next == skipWhitespace(in, item.pos)
                 IN  CASE At(in, next) = 44 ->
                              parseItems(in, next + 1, depth, close, Append(items, item.v))
                       [] At(in, next) = close -> Read(Append(items, item.v), next + 1)
                       [] OTHER -> Fail)

\* The loop parseArray() and parseObject() both have; close is the byte that ends it.
parseItems(in, pos, depth, close, items) ==
    Then(parseItem(in, skipWhitespace(in, pos), depth, close), LAMBDA item :
        LET next == skipWhitespace(in, item.pos)
        IN  CASE At(in, next) = 44 ->
                     parseItems(in, next + 1, depth, close, Append(items, item.v))
              [] At(in, next) = close -> Read(Append(items, item.v), next + 1)
              [] OTHER -> Fail)

\* parseArray() and parseObject(): the items of the container that opens at pos.
parseContainer(in, pos, depth, close) ==
    LET first == skipWhitespace(in, pos + 1)
    IN  CASE depth >= maxDepth_ -> Fail
          [] depth < maxDepth_ /\ At(in, first) = close -> Read(<<>>, first + 1)
          [] OTHER -> parseItems(in, first, depth, close, <<>>)

\* A successful read, its result wrapped in a JsonValue.
As(Make(_), r) == Then(r, LAMBDA read : Read(Make(read.v), read.pos))

parseValue(in, pos, depth) ==
    LET c == At(in, pos)
    IN  CASE c = 110 -> consume(in, pos, NullText, Null)
          [] c = 116 -> consume(in, pos, TrueText, Bool(TRUE))
          [] c = 102 -> consume(in, pos, FalseText, Bool(FALSE))
          [] c = Quote -> As(String, parseString(in, pos))
          [] c = 91 -> As(Array, parseContainer(in, pos, depth, 93))
          [] c = 123 -> As(Object, parseContainer(in, pos, depth, 125))
          [] OTHER -> parseNumber(in, pos)       \* fails at the end of the text

parse(in) ==
    Then(parseValue(in, skipWhitespace(in, 1), 0), LAMBDA r :
        IF skipWhitespace(in, r.pos) = Len(in) + 1 THEN r ELSE Fail)

=============================================================================
