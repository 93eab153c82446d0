------------------------------- MODULE Words -------------------------------
(***************************************************************************)
(* The words QuakeC code computes with: what each arithmetic opcode of the *)
(* interpreter puts in its result, as a function of its operand words.     *)
(*                                                                         *)
(* A word is a number of WordBits bits (32 in the code) and a long is      *)
(* two words, the low one first.  Integer opcodes are computed exactly, at *)
(* that width.  Floats are data the properties do not look into: the       *)
(* results of float arithmetic, the float comparisons and the two          *)
(* conversions are parameters, and so is the bitwise operation on words    *)
(* that the others follow from.                                            *)
(***************************************************************************)
EXTENDS Memory

CONSTANTS
    BitAnd(_, _),       \* the bits two words have in common
    FloatOp(_, _, _),   \* the float word `x op y`
    FloatTest(_, _, _), \* whether `x op y` for a comparison of floats
    FloatOf(_),         \* the float word nearest to an integer
    Trunc(_)            \* a float truncated to an integer, whatever its size;
                        \* an integer out of every range for NaN

WordBits == ByteBits * WordBytes

Signed(w) == IF w < WordVals \div 2 THEN w ELSE w - WordVals

IntMin == -(WordVals \div 2)

\* A conversion that leaves the range gives the least integer, as on x86.
F2I(f) == LET i == Trunc(f) IN
          IF i \in IntMin .. -IntMin - 1 THEN i ELSE IntMin

\* The same for longs.
LongVals == WordVals * WordVals
LongMin == -(LongVals \div 2)

D2I64(f) == LET i == Trunc(f) IN IF i \in LongMin .. -LongMin - 1 THEN i ELSE LongMin

\* Unsigned: the low word of the conversion to a long.
F2U(f) == Wrap(D2I64(f))

D2U64(f) == IF Trunc(f) < -LongMin THEN D2I64(f) % LongVals
            ELSE IF Trunc(f) < LongVals THEN Trunc(f) ELSE 0

IBool(b) == IF b THEN 1 ELSE 0

FBool(b) == FloatOf(IBool(b))

BitOr(x, y) == x + y - BitAnd(x, y)
BitXor(x, y) == x + y - 2 * BitAnd(x, y)

\* Float truth masks the sign bit off, so -0 is false.
FloatTrue(w) == w % (WordVals \div 2) # 0

\* Shift counts are taken modulo the width.
Shl(w, n) == Wrap(w * 2 ^ (n % WordBits))
ShrU(w, n) == w \div 2 ^ (n % WordBits)
ShrI(w, n) == Wrap(Signed(w) \div 2 ^ (n % WordBits))

Abs(i) == IF i < 0 THEN -i ELSE i

\* Division that truncates towards zero.
Quotient(i, j) == IF (i < 0) = (j < 0) THEN Abs(i) \div Abs(j)
                                       ELSE -(Abs(i) \div Abs(j))

DivI(i, j) == IF j = 0 THEN 0
              ELSE IF i = IntMin /\ j = -1 THEN -IntMin - 1
              ELSE Quotient(i, j)

DivU(x, y) == IF y = 0 THEN 0 ELSE x \div y

Compare(op, i, j) ==
    CASE op = "Eq" -> i = j
      [] op = "Ne" -> i # j
      [] op = "Le" -> i <= j
      [] op = "Lt" -> i < j
      [] op = "Ge" -> i >= j
      [] op = "Gt" -> i > j

----------------------------------------------------------------------------
(* Bit fields: a descriptor holds the width in its low byte and the        *)
(* position above it.                                                      *)

Width(d) == d % ByteVals
Position(d) == d \div ByteVals

FieldUp(a, d) == Shl(a, (WordBits - Width(d) - Position(d)) % WordBits)

BitExtend(signed, a, d) ==
    IF Width(d) = 0 THEN 0
    ELSE LET down == (WordBits - Width(d)) % WordBits IN
         IF signed THEN ShrI(FieldUp(a, d), down) ELSE ShrU(FieldUp(a, d), down)

FieldMask(d) == IF Width(d) >= WordBits THEN WordVals - 1 ELSE 2 ^ Width(d) - 1

BitCopy(a, d, c) ==
    LET mask == Shl(FieldMask(d), Position(d))
    IN  BitOr(c - BitAnd(c, mask), Shl(BitAnd(a, FieldMask(d)), Position(d)))

----------------------------------------------------------------------------
(* Opcodes with one-word results.                                          *)

FloatOps == {"MulF", "DivF", "AddF", "SubF"}

\* What the parameters make of words is words.
ASSUME WordsAssumption ==
    /\ \A v \in Word, w \in Word : BitAnd(v, w) \in 0 .. v
    /\ \A op \in FloatOps, v \in Word, w \in Word : FloatOp(op, v, w) \in Word
    /\ \A i \in LongMin .. LongVals - 1 : FloatOf(i) \in Word
    /\ \A v \in Word : Trunc(v) \in Int

FloatTests == {"EqF", "NeF", "LeF", "GeF", "LtF", "GtF"}
IntTests == {"EqI", "NeI", "LeI", "GeI", "LtI", "GtI"}
RawTests == {"EqE", "EqFnc", "NeE", "NeFnc"}

\* Opcodes on two ints, as functions of the raw words.
IntResult(op, x, y) ==
    CASE op = "AddI" -> Wrap(x + y)
      [] op = "SubI" -> Wrap(x - y)
      [] op = "MulI" -> Wrap(Signed(x) * Signed(y))
      [] op = "DivI" -> Wrap(DivI(Signed(x), Signed(y)))
      [] op = "BitAndI" -> BitAnd(x, y)
      [] op = "BitOrI" -> BitOr(x, y)
      [] op = "BitXorI" -> BitXor(x, y)
      [] op = "RShiftI" -> ShrI(x, y)
      [] op = "LShiftI" -> Shl(x, y)
      [] op = "AndI" -> IBool(x # 0 /\ y # 0)
      [] op = "OrI" -> IBool(x # 0 \/ y # 0)
      [] op = "LeU" -> IBool(x <= y)
      [] op = "LtU" -> IBool(x < y)
      [] op = "DivU" -> DivU(x, y)
      [] op = "RShiftU" -> ShrU(x, y)
      [] op = "BitExtendI" -> BitExtend(TRUE, x, y)
      [] op = "BitExtendU" -> BitExtend(FALSE, x, y)
      [] op = "AddPIW" -> Wrap(x + y * WordBytes)
      [] op = "SubS" -> Wrap(x - y)

IntOps == {"AddI", "SubI", "MulI", "DivI", "BitAndI", "BitOrI", "BitXorI", "RShiftI",
           "LShiftI", "AndI", "OrI", "LeU", "LtU", "DivU", "RShiftU", "BitExtendI",
           "BitExtendU", "AddPIW", "SubS"}

IntFloatTests == [LeIF |-> "LeF", GeIF |-> "GeF", LtIF |-> "LtF", GtIF |-> "GtF",
                  EqIF |-> "EqF", NeIF |-> "NeF"]
FloatIntTests == [LeFI |-> "LeF", GeFI |-> "GeF", LtFI |-> "LtF", GtFI |-> "GtF",
                  EqFI |-> "EqF", NeFI |-> "NeF"]

\* Opcodes that take floats, or a float and an int: the int side is converted
\* for arithmetic and comparisons, the float side truncated for bits.
MixedResult(op, x, y) ==
    LET i == FloatOf(Signed(x)) j == FloatOf(Signed(y)) IN
    CASE op = "BitAndF" -> FloatOf(Signed(BitAnd(Wrap(F2I(x)), Wrap(F2I(y)))))
      [] op = "BitOrF" -> FloatOf(Signed(BitOr(Wrap(F2I(x)), Wrap(F2I(y)))))
      [] op = "AndF" -> FBool(FloatTrue(x) /\ FloatTrue(y))
      [] op = "OrF" -> FBool(FloatTrue(x) \/ FloatTrue(y))
      [] op = "AddIF" -> FloatOp("AddF", i, y)
      [] op = "AddFI" -> FloatOp("AddF", x, j)
      [] op = "SubIF" -> FloatOp("SubF", i, y)
      [] op = "SubFI" -> FloatOp("SubF", x, j)
      [] op = "MulIF" -> FloatOp("MulF", i, y)
      [] op = "MulFI" -> FloatOp("MulF", x, j)
      [] op = "DivIF" -> FloatOp("DivF", i, y)
      [] op = "DivFI" -> FloatOp("DivF", x, j)
      [] op \in DOMAIN IntFloatTests -> IBool(FloatTest(IntFloatTests[op], i, y))
      [] op \in DOMAIN FloatIntTests -> IBool(FloatTest(FloatIntTests[op], x, j))
      [] op = "BitAndIF" -> BitAnd(x, Wrap(F2I(y)))
      [] op = "BitOrIF" -> BitOr(x, Wrap(F2I(y)))
      [] op = "BitAndFI" -> BitAnd(Wrap(F2I(x)), y)
      [] op = "BitOrFI" -> BitOr(Wrap(F2I(x)), y)
      [] op = "AndIF" -> IBool(x # 0 /\ FloatTest("NeF", y, 0))
      [] op = "OrIF" -> IBool(x # 0 \/ FloatTest("NeF", y, 0))
      [] op = "AndFI" -> IBool(FloatTest("NeF", x, 0) /\ y # 0)
      [] op = "OrFI" -> IBool(FloatTest("NeF", x, 0) \/ y # 0)
      [] op = "AddSF" -> Wrap(x + F2I(y))

MixedOps == {"BitAndF", "BitOrF", "AndF", "OrF", "AddIF", "AddFI", "SubIF", "SubFI",
             "MulIF", "MulFI", "DivIF", "DivFI", "BitAndIF", "BitOrIF", "BitAndFI", "BitOrFI", "AndIF", "OrIF", "AndFI",
             "OrFI", "AddSF"} \union DOMAIN IntFloatTests \union DOMAIN FloatIntTests

\* Opcodes on one word.
UnaryResult(op, x) ==
    CASE op = "NotF" -> FBool(~FloatTrue(x))
      [] op = "NotEnt" -> FBool(x = 0)
      [] op = "NotFnc" -> FBool(x % 2 ^ (WordBits - ByteBits) = 0)
      [] op = "NotI" -> IBool(x = 0)
      [] op \in {"ConvItoF", "StoreIF"} -> FloatOf(Signed(x))
      [] op \in {"ConvFtoI", "StoreFI"} -> Wrap(F2I(x))
      [] op = "ConvUF" -> FloatOf(x)
      [] op = "ConvFU" -> F2U(x)

UnaryOps == {"NotF", "NotEnt", "NotFnc", "NotI", "ConvItoF", "ConvFtoI", "ConvUF", "ConvFU"}

WordOps == FloatOps \union FloatTests \union IntTests \union RawTests \union IntOps
           \union MixedOps \union UnaryOps

\* The comparison an opcode's name starts with.
TestOf(op) == CASE op \in {"EqI", "EqE", "EqFnc", "EqI64"} -> "Eq"
                [] op \in {"NeI", "NeE", "NeFnc", "NeI64"} -> "Ne"
                [] op \in {"LeI", "LeI64", "LeU64"} -> "Le"
                [] op \in {"LtI", "LtI64", "LtU64"} -> "Lt"
                [] op = "GeI" -> "Ge"
                [] op = "GtI" -> "Gt"

\* The word a one-word opcode leaves in C.
WordResult(op, x, y) ==
    CASE op \in FloatOps -> FloatOp(op, x, y)
      [] op \in FloatTests -> FBool(FloatTest(op, x, y))
      [] op \in IntTests -> IBool(Compare(TestOf(op), Signed(x), Signed(y)))
      [] op \in RawTests -> FBool(Compare(TestOf(op), x, y))
      [] op \in IntOps -> IntResult(op, x, y)
      [] op \in MixedOps -> MixedResult(op, x, y)
      [] op \in UnaryOps -> UnaryResult(op, x)

\* What the Hexen 2 compound stores make of the old value.
CompoundResult(op, old, by) ==
    CASE op \in {"MulStoreF", "MulStoreVF", "MulStorePF", "MulStorePVF"} -> FloatOp("MulF", old, by)
      [] op \in {"DivStoreF", "DivStorePF"} -> FloatOp("DivF", old, by)
      [] op \in {"AddStoreF", "AddStoreV", "AddStorePF", "AddStorePV"} -> FloatOp("AddF", old, by)
      [] op \in {"SubStoreF", "SubStoreV", "SubStorePF", "SubStorePV"} -> FloatOp("SubF", old, by)
      [] op \in {"BitSetStoreF", "BitSetStorePF"} ->
             FloatOf(Signed(BitOr(Wrap(F2I(old)), Wrap(F2I(by)))))
      [] op \in {"BitClrStoreF", "BitClrStorePF"} ->
             FloatOf(Signed(Wrap(F2I(old)) - BitAnd(Wrap(F2I(old)), Wrap(F2I(by)))))

----------------------------------------------------------------------------
(* Longs.                                                                  *)

Join(lo, hi) == lo + WordVals * hi
Split(v) == <<v % WordVals, v \div WordVals>>
SignedLong(v) == IF v < LongVals \div 2 THEN v ELSE v - LongVals
\* Unlike DIV_I, MIN / -1 wraps to MIN.
DivI64(i, j) == IF j = 0 THEN 0
                ELSE IF i = LongMin /\ j = -1 THEN LongMin
                ELSE Quotient(i, j)

\* A bitwise operation on longs works on their two words.
Halves(Op(_, _), a, b) == Join(Op(a % WordVals, b % WordVals), Op(a \div WordVals, b \div WordVals))

LongResult(op, a, b) ==
    CASE op = "AddI64" -> (a + b) % LongVals
      [] op = "SubI64" -> (a - b) % LongVals
      [] op = "MulI64" -> (SignedLong(a) * SignedLong(b)) % LongVals
      [] op = "DivI64" -> DivI64(SignedLong(a), SignedLong(b)) % LongVals
      [] op = "DivU64" -> DivU(a, b)
      [] op = "BitAndI64" -> Halves(BitAnd, a, b)
      [] op = "BitOrI64" -> Halves(BitOr, a, b)
      [] op = "BitXorI64" -> Halves(BitXor, a, b)

LongOps == {"AddI64", "SubI64", "MulI64", "DivI64", "DivU64", "BitAndI64", "BitOrI64",
            "BitXorI64"}

\* Shifts of a long take their count from one word.
LongShift(op, a, n) ==
    LET by == 2 ^ (n % (2 * WordBits)) IN
    CASE op = "LShiftI64I" -> (a % (LongVals \div by)) * by
      [] op = "RShiftI64I" -> (SignedLong(a) \div by) % LongVals
      [] op = "RShiftU64I" -> a \div by

LongShifts == {"LShiftI64I", "RShiftI64I", "RShiftU64I"}

\* Comparisons of longs give one word.
LongTest(op, a, b) ==
    IBool(IF op \in {"LeI64", "LtI64"} THEN Compare(TestOf(op), SignedLong(a), SignedLong(b))
                                       ELSE Compare(TestOf(op), a, b))

LongTests == {"LeI64", "LtI64", "EqI64", "NeI64", "LeU64", "LtU64"}

\* Conversions of a word to a long.
ToLong(op, x) == CASE op = "ConvUI64" -> x
                   [] op = "ConvII64" -> Signed(x) % LongVals
                   [] op = "ConvFI64" -> D2I64(x) % LongVals
                   [] op = "ConvFU64" -> D2U64(x)

ToLongs == {"ConvUI64", "ConvII64", "ConvFI64", "ConvFU64"}

\* Conversions of a long to a word.
FromLong(op, a) == CASE op = "ConvI64I" -> a % WordVals
                     [] op = "ConvI64F" -> FloatOf(SignedLong(a))
                     [] op = "ConvU64F" -> FloatOf(a)

FromLongs == {"ConvI64I", "ConvI64F", "ConvU64F"}
=============================================================================
