------------------------------- MODULE Charset -------------------------------
(***************************************************************************)
(* Characters of texts in the Quake, UTF-8 and ISO-8859-1 schemes          *)
(* (src/src/stdlib/charset.rs).  A code point of 2^31 or more, which FTE   *)
(* cannot encode, is any negative number.  Offsets count from 0.           *)
(***************************************************************************)
EXTENDS Bytes

Schemes == {"Quake", "Utf8", "Iso8859_1"}
Charsets == [utf8 : BOOLEAN, scheme : Schemes]

CARET == 94
REPLACEMENT == 65533
PrivateUse == 57344          \* U+E000
MaxPoint == 1114111          \* U+10FFFF
HighSurrogates == 55296 .. 56319
LowSurrogates == 56320 .. 57343

Decoded(ch, len, error) == [ch |-> ch, len |-> len, error |-> error]

\* How many bytes a lead byte announces; 0 for a byte that leads nothing.
SequenceLength(b) ==
    CASE b < 128 -> 1
      [] b \in 128 .. 191 \/ b \in {254, 255} -> 0
      [] b \in 192 .. 223 -> 2
      [] b \in 224 .. 239 -> 3
      [] b \in 240 .. 247 -> 4
      [] b \in 248 .. 251 -> 5
      [] b \in 252 .. 253 -> 6

\* The smallest code point that needs n bytes.
Smallest(n) == <<0, 128, 2048, 65536, 2097152, 67108864>>[n]

Continues(b) == b \div 64 = 2

\* The character of n bytes that starts with the bits lead; continuation bytes add six each.
CodePoint(lead, rest) == FoldLeft(LAMBDA acc, c : acc * 64 + (c % 64), lead, rest)

\* A character in no more bytes than it needs; NUL takes two.
Shortest(ch, n) == Decoded(ch, n, IF ch >= Smallest(n) \/ (n = 2 /\ ch = 0) THEN "none" ELSE "illegal")

\* The sequence of n bytes at position p.
DecodeSequence(s, p, n) ==
    IF n = 1 THEN Decoded(s[p], 1, "none")
    ELSE IF n = 0 THEN Decoded(PrivateUse + s[p], 1, "malformed")
    ELSE IF \E i \in 1 .. n - 1 : ~Continues(At(s, p + i)) THEN Decoded(REPLACEMENT, 1, "malformed")
    ELSE Shortest(CodePoint(s[p] % 2^(7 - n), SubSeq(s, p + 1, p + n - 1)), n)

\* decode_utf8_basic: one sequence, without surrogates.
DecodeBasic(s, p) ==
    IF p > Len(s) THEN Decoded(0, 1, "none") ELSE DecodeSequence(s, p, SequenceLength(s[p]))

\* The character of a high surrogate and what follows it.
WithLow(high, low) ==
    IF low.error = "none" /\ low.ch \in LowSurrogates
    THEN Decoded(65536 + (high.ch % 1024) * 1024 + (low.ch % 1024), high.len + low.len, "none")
    ELSE [high EXCEPT !.error = "lone high surrogate"]

\* The character that starts with sequence d at position p.
FromSequence(d, s, p) ==
    CASE d.error # "none" -> d
      [] d.error = "none" /\ d.ch \in HighSurrogates -> WithLow(d, DecodeBasic(s, p + d.len))
      [] d.error = "none" /\ d.ch \in LowSurrogates -> [d EXCEPT !.error = "low surrogate"]
      [] d.error = "none" /\ (d.ch \in {65534, 65535} \/ d.ch > MaxPoint) -> [d EXCEPT !.error = "illegal"]
      [] OTHER -> d

\* decode_utf8: a high surrogate and the low one after it are one character.
DecodeUtf8(s, p) == FromSequence(DecodeBasic(s, p), s, p)

\* Bytes the Quake scheme shows as glyphs of its own.
Special(b) == b \notin {NUL, TAB, NL, CR} \cup (32 .. 127)

Decode(s, p, scheme) ==
    CASE scheme = "Utf8" -> DecodeUtf8(s, p)
      [] scheme = "Iso8859_1" -> Decoded(s[p], 1, "none")
      [] scheme = "Quake" -> Decoded(IF Special(s[p]) THEN PrivateUse + s[p] ELSE s[p], 1, "none")

\* chars: the characters from position p on, each with its byte offset.
RECURSIVE CharsFrom(_, _, _), CharsWith(_, _, _, _)
CharsFrom(s, p, scheme) ==
    IF p > Len(s) THEN << >> ELSE CharsWith(Decode(s, p, scheme), s, p, scheme)
CharsWith(d, s, p, scheme) ==
    <<[at |-> p - 1, ch |-> d.ch, len |-> d.len]>> \o CharsFrom(s, p + d.len, scheme)

Chars(s, scheme) == CharsFrom(s, 1, scheme)

CharCount(s, scheme) == IF scheme = "Utf8" THEN Len(Chars(s, scheme)) ELSE Len(s)

\* A mutant: characters are bytes in every scheme.
ByteOffsetBytes(s, index, scheme) == Min({index, Len(s)})

\* Where a character starts; the end if there is no such character.
CharStart(s, chars, index) == IF index < Len(chars) THEN chars[index + 1].at ELSE Len(s)

\* byte_offset
ByteOffset(s, index, scheme) ==
    IF scheme = "Utf8" THEN CharStart(s, Chars(s, scheme), index) ELSE Min({index, Len(s)})

\* How many characters end at or before a byte offset.
CharsEnded(chars, ofs) == Cardinality({i \in DOMAIN chars : chars[i].at + chars[i].len <= ofs})

\* char_offset
CharOffset(s, ofs, scheme) ==
    IF scheme = "Utf8" THEN CharsEnded(Chars(s, scheme), ofs) ELSE Min({ofs, Len(s)})

----------------------------------------------------------------------------
(* Encoding.                                                               *)

HexLower(n) == IF n < 10 THEN 48 + n ELSE 87 + n

\* The n lowest hexadecimal digits of a code point.
HexDigits(ch, n) == [i \in 1 .. n |-> HexLower((ch \div 16^(n - i)) % 16)]

\* encode_markup: ^Uxxxx, or ^{x...} above U+FFFF.
EncodeMarkup(ch) ==
    IF ch > 65535
    THEN <<CARET, 123>> \o HexDigits(ch, Min({k \in 5 .. 7 : ch < 16^k} \cup {8})) \o <<125>>
    ELSE <<CARET, 85>> \o HexDigits(ch, 4)

\* A code point above 127, in n bytes.
Sequence(ch, n) ==
    <<256 - 2^(8 - n) + (ch \div 64^(n - 1))>> \o [i \in 1 .. n - 1 |-> 128 + ((ch \div 64^(n - 1 - i)) % 64)]

\* encode_utf8: NUL takes two bytes, so that it does not end the text.
EncodeUtf8(point) ==
    CASE point < 0 -> Sequence(REPLACEMENT, 3)
      [] point = 0 -> <<192, 128>>
      [] point \in 1 .. 127 -> <<point>>
      [] OTHER -> Sequence(point, Max({k \in 2 .. 6 : point >= Smallest(k)}))

\* The code points a scheme of single bytes can hold.
Direct(ch, scheme) ==
    CASE scheme = "Quake" -> \/ ch \in (32 .. 127) \cup {9, 10, 11, 13}
                             \/ ch - PrivateUse \in Byte \ {9, 10, 13}
      [] scheme = "Iso8859_1" -> ch \in Byte \/ ch - PrivateUse \in 32 .. 127

Encode(ch, scheme, markup) ==
    IF scheme = "Utf8" THEN EncodeUtf8(ch)
    ELSE IF Direct(ch, scheme) THEN <<ch % 256>>
    ELSE IF markup THEN EncodeMarkup(ch)
    ELSE <<QUESTION>>
=============================================================================
