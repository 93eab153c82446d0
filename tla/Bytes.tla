-------------------------------- MODULE Bytes --------------------------------
(* Bytes, and searching in texts (sequences of bytes, positions from 1).    *)
EXTENDS Integers, SequencesExt

Byte == 0 .. 255
NUL == 0
TAB == 9
NL == 10
CR == 13
SPACE == 32
QUOTE == 34
DOLLAR == 36
PERCENT == 37
APOSTROPHE == 39
STAR == 42
SLASH == 47
QUESTION == 63
BACKSLASH == 92

\* The byte at a position; none (-1) beyond the text.
At(s, p) == IF p \in DOMAIN s THEN s[p] ELSE -1

\* The first position from p on that holds one of the bytes, or the end.
RECURSIVE FirstIn(_, _, _)
FirstIn(s, p, bytes) == IF p > Len(s) \/ s[p] \in bytes THEN p ELSE FirstIn(s, p + 1, bytes)

StartsAt(s, p, sub) == p + Len(sub) <= Len(s) + 1 /\ SubSeq(s, p, p + Len(sub) - 1) = sub
From(s, p) == SubSeq(s, p, Len(s))
Upto(s, n) == SubSeq(s, 1, Min({n, Len(s)}))

\* The positions of a text that meet a test, in order.
Positions(s, Test(_)) == SelectSeq([p \in DOMAIN s |-> p], Test)

\* The parts of a text between the occurrences of a byte.
Fields(s, c) ==
    LET cuts == <<0>> \o Positions(s, LAMBDA p : s[p] = c) \o <<Len(s) + 1>> IN
    [i \in 1 .. Len(cuts) - 1 |-> SubSeq(s, cuts[i] + 1, cuts[i + 1] - 1)]

\* A text with every byte exchanged for some bytes.
Exchanged(s, new(_)) == FlattenSeq([i \in DOMAIN s |-> new(s[i])])

Digit(c) == c \in 48 .. 57
HexDigit(c) == c \in (48 .. 57) \cup (65 .. 70) \cup (97 .. 102)
HexValue(c) == IF Digit(c) THEN c - 48 ELSE (c % 32) + 9
HexByte(n) == IF n < 10 THEN 48 + n ELSE 55 + n
Letter(c) == c \in (65 .. 90) \cup (97 .. 122)
Lower(c) == IF c \in 65 .. 90 THEN c + 32 ELSE c
=============================================================================
