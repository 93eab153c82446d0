------------------------------- MODULE Convert -------------------------------
(***************************************************************************)
(* Texts to numbers and back (src/src/stdlib/convert.rs): C's strtol and   *)
(* strtoul, and how much of a text strtod reads.  The doubles themselves   *)
(* are left out; an int has IntBits bits and a long LongBits.              *)
(***************************************************************************)
EXTENDS Strings

CONSTANT LongBits      \* the width of long: 64

ASSUME ConvertAssumption == LongBits \in Nat /\ LongBits >= IntBits /\ IntBits % 4 = 0

ZERO == 48
MINUS == 45
PLUS == 43
POINT == 46
SpaceBytes == (9 .. 13) \cup {SPACE}
IsX(c) == c \in {88, 120}

\* digit_value: the digits of base 36; 36 for a byte that is none.
DigitValue(c) == IF Digit(c) THEN c - 48 ELSE IF Letter(c) THEN Lower(c) - 87 ELSE 36

\* The first byte that is no white space, and the one after a sign there.
Start(s) == Min({p \in 1 .. Len(s) + 1 : At(s, p) \notin SpaceBytes})
AfterSign(s) == IF At(s, Start(s)) \in {MINUS, PLUS} THEN Start(s) + 1 ELSE Start(s)

----------------------------------------------------------------------------
(* Integers.                                                               *)

\* A mutant: 0x is a prefix whatever follows.
HexPrefixBare(s, p) == At(s, p) = ZERO /\ IsX(At(s, p + 1))
\* has_hex_prefix
HexPrefix(s, p) == At(s, p) = ZERO /\ IsX(At(s, p + 1)) /\ HexDigit(At(s, p + 2))

\* The number of some digits; once it is too large it stays so.
Magnitude(digits, base) ==
    FoldLeft(LAMBDA v, c : IF v >= 2 ^ LongBits THEN v ELSE v * base + DigitValue(c), 0, digits)

\* The base in which the digits at p are read.
BaseAt(s, p, asked) ==
    CASE asked # 0 -> asked
      [] asked = 0 /\ HexPrefix(s, p) -> 16
      [] asked = 0 /\ ~HexPrefix(s, p) -> IF At(s, p) = ZERO THEN 8 ELSE 10

DigitsEnd(s, p, base) == Min({q \in p .. Len(s) + 1 : DigitValue(At(s, q)) >= base})

IntegerAt(s, first, base) ==
    LET end == DigitsEnd(s, first, base) IN
    [negative |-> At(s, Start(s)) = MINUS,
     magnitude |-> Magnitude(SubSeq(s, first, end - 1), base),
     used |-> IF end = first THEN 0 ELSE end - 1]

\* The prefix 0x is not part of the digits.
IntegerIn(s, p, base) == IntegerAt(s, IF base = 16 /\ HexPrefix(s, p) THEN p + 2 ELSE p, base)

\* parse_c_integer
ParseSigned(s, p, asked) == IntegerIn(s, p, BaseAt(s, p, asked))
ParseInteger(s, asked) == ParseSigned(s, AfterSign(s), asked)

LongMax == 2 ^ (LongBits - 1) - 1

\* strtol stops at the limits of long; strtoul at its own, and wraps a negative number.
Long(n) == IF n.negative THEN Max({-LongMax - 1, -n.magnitude}) ELSE Min({LongMax, n.magnitude})
UnsignedLong(n) ==
    IF n.magnitude >= 2 ^ LongBits THEN 2 ^ LongBits - 1
    ELSE IF n.negative THEN (-n.magnitude) % 2 ^ LongBits ELSE n.magnitude
strtol(s, base) == Long(ParseInteger(s, base))
strtoul(s, base) == UnsignedLong(ParseInteger(s, base))

\* c_base: the bases C accepts; any other uses nothing.
Bases == {0} \cup 2 .. 36
Converted(value, used, base) ==
    IF base \in Bases THEN [value |-> value, used |-> used] ELSE [value |-> 0, used |-> 0]
stol(s, base) == Converted(strtol(s, base), ParseInteger(s, base).used, base)
stoul(s, base) == Converted(strtoul(s, base), ParseInteger(s, base).used, base)

stoi(s) == Int32(strtol(s, 0))
atoi(s) == Int32(strtol(s, 10))
stoh(s) == strtoul(s, 16) % 2 ^ IntBits

RECURSIVE Decimal(_)
Decimal(n) == IF n < 10 THEN <<ZERO + n>> ELSE Decimal(n \div 10) \o <<ZERO + (n % 10)>>
itos(n) == IF n < 0 THEN <<MINUS>> \o Decimal(-n) ELSE Decimal(n)

\* htos: all the digits of an unsigned int.
htos(n) == [i \in 1 .. IntBits \div 4 |-> Lower(HexByte((n \div 16 ^ (IntBits \div 4 - i)) % 16))]

----------------------------------------------------------------------------
(* Real numbers: the bytes strtod uses.                                    *)

INF == <<105, 110, 102>>
INFINITY == INF \o <<105, 110, 105, 116, 121>>
NAN == <<110, 97, 110>>

StartsCi(s, p, word) == p + Len(word) <= Len(s) + 1 /\ \A i \in DOMAIN word : Lower(s[p + i - 1]) = word[i]

WordByte(c) == Digit(c) \/ Letter(c) \/ c = 95

\* nan(chars): the parenthesis belongs to it only if it is closed.
NanEnd(s, p) ==
    LET close == Min({q \in p + 4 .. Len(s) + 5 : ~WordByte(At(s, q))})
    IN IF At(s, p + 3) = 40 /\ At(s, close) = 41 THEN close ELSE p + 2

\* Digits with at most one point, from p on.
MantissaEnd(s, p, IsDigit(_)) ==
    Min({q \in p .. Len(s) + 1 :
            ~IsDigit(At(s, q)) /\ (At(s, q) # POINT \/ \E r \in p .. q - 1 : s[r] = POINT)})

\* The exponent after them, if it has a digit.
ExponentEnd(s, q, marks) ==
    LET k == IF At(s, q + 1) \in {MINUS, PLUS} THEN q + 2 ELSE q + 1 IN
    IF At(s, q) \in marks /\ Digit(At(s, k)) THEN Min({r \in k .. Len(s) + 1 : ~Digit(At(s, r))}) ELSE q

\* The end of such a number, or p if it has no digit.
RealEnd(s, p, IsDigit(_), marks) ==
    LET q == MantissaEnd(s, p, IsDigit) IN
    IF \E r \in p .. q - 1 : IsDigit(s[r]) THEN ExponentEnd(s, q, marks) ELSE p

strtod_used(s) ==
    LET p == AfterSign(s) IN
    IF StartsCi(s, p, INFINITY) THEN p + 7
    ELSE IF StartsCi(s, p, INF) THEN p + 2
    ELSE IF StartsCi(s, p, NAN) THEN NanEnd(s, p)
    ELSE IF At(s, p) = ZERO /\ IsX(At(s, p + 1))
         THEN LET end == RealEnd(s, p + 2, HexDigit, {80, 112}) IN IF end = p + 2 THEN p ELSE end - 1
    ELSE LET end == RealEnd(s, p, Digit, {69, 101}) IN IF end = p THEN 0 ELSE end - 1
=============================================================================
