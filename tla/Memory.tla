------------------------------- MODULE Memory -------------------------------
(***************************************************************************)
(* The memory of a VM: one byte-addressed space in three regions.          *)
(*                                                                         *)
(*   0          strings, globals and the local stack         region S      *)
(*   EBase      entity e at EBase + e * Stride               region E      *)
(*   HBase      the QuakeC heap                              region H      *)
(*                                                                         *)
(* A memory is a record of the three regions' bytes (sequences, so byte    *)
(* offset o is at index o + 1) and the entity slots.  The module defines   *)
(* where an access lands, what a write may touch, and the short cuts (the  *)
(* "views") the interpreter's inner loop takes.  Nothing here changes      *)
(* state: Interpreter does.                                                *)
(***************************************************************************)
EXTENDS Integers, Sequences, FiniteSets

CONSTANTS
    ByteBits,    \* bits of a byte (8)
    WordBytes,   \* bytes of a word (4)
    EBase,       \* address of entity 0
    Stride,      \* bytes of an entity block, a power of two
    FieldBytes,  \* bytes of a block that hold fields; the rest is reserved
    HBase,       \* address of the heap
    Window,      \* bytes of region S the window view reaches (2^22 + 16)
    WindowMask   \* mask of operand offsets in the window (2^22 - 1)

ASSUME MemoryAssumption ==
    /\ ByteBits \in Nat \ {0} /\ WordBytes \in Nat \ {0}
    /\ WindowMask \in Nat /\ Window \in Nat /\ Window >= WindowMask + WordBytes
    /\ EBase \in Nat /\ Stride \in Nat \ {0} /\ HBase \in Nat
    /\ FieldBytes \in 0 .. Stride

\* How many values n bytes have.
Vals(n) == 2 ^ (ByteBits * n)

ByteVals == Vals(1)
WordVals == Vals(WordBytes)

Byte == 0 .. ByteVals - 1
Word == 0 .. WordVals - 1
Wrap(i) == i % WordVals

EntSlot == [inUse : BOOLEAN, protected : BOOLEAN]

NumEdicts(m) == Len(m.slots)
InUse(m, e) == e < NumEdicts(m) /\ m.slots[e + 1].inUse
Protected(m, e) == e < NumEdicts(m) /\ m.slots[e + 1].protected

\* A sane memory: S below E, and region E is exactly the slots' blocks.
IsMemory(m) ==
    /\ m \in [s : Seq(Byte), e : Seq(Byte), h : Seq(Byte), slots : Seq(EntSlot)]
    /\ Len(m.s) <= EBase
    /\ Len(m.e) = NumEdicts(m) * Stride
    /\ EBase + NumEdicts(m) * Stride <= HBase

----------------------------------------------------------------------------
(* Bytes and words.                                                        *)

Zeros(n) == [i \in 1 .. n |-> 0]

\* The n bytes at offset o, and a region with the bytes b put at offset o.
BytesAt(d, o, n) == SubSeq(d, o + 1, o + n)
Patched(d, o, b) == [i \in 1 .. Len(d) |-> IF i - o \in 1 .. Len(b) THEN b[i - o] ELSE d[i]]

\* Little-endian numbers.
Num(b) == LET n[i \in 0 .. Len(b)] ==
                  IF i = 0 THEN 0 ELSE n[i - 1] + b[i] * Vals(i - 1)
          IN  n[Len(b)]

BytesOf(v, n) == [i \in 1 .. n |-> (v \div Vals(i - 1)) % ByteVals]

----------------------------------------------------------------------------
(* Words of region S, as the interpreter reads and writes its operands:    *)
(* through a view that is all of the region, or its first Window bytes.    *)

Views == {"whole", "window"}

\* In the window, offsets are masked rather than checked.
ViewOffset(view, o) == IF view = "whole" THEN o ELSE o % (WindowMask + 1)

\* Reads past the end give zero, writes there are dropped.
WordAt(view, m, o) ==
    LET at == ViewOffset(view, o)
    IN  IF at + WordBytes <= Len(m.s) THEN BytesAt(m.s, at, WordBytes) ELSE Zeros(WordBytes)

PutWord(view, m, o, w) ==
    LET at == ViewOffset(view, o)
    IN  IF at + WordBytes <= Len(m.s) THEN [m EXCEPT !.s = Patched(@, at, w)] ELSE m

\* One step for each of the first n words, in order: no opcode takes more than
\* three.
InTurn(step(_, _), start, n) ==
    LET first == step(start, 1)
        second == step(first, 2)
    IN  CASE n = 1 -> first [] n = 2 -> second [] n = 3 -> step(second, 3)

\* Where the k-th word from offset o is.
Nth(o, k) == o + (k - 1) * WordBytes

\* Copies n words in increasing order, even when they overlap.
CopyWords(view, m, src, dst, n) ==
    InTurn(LAMBDA d, k : PutWord(view, d, Nth(dst, k), WordAt(view, d, Nth(src, k))), m, n)

\* n words from bytes, written in increasing order.
PutWords(view, m, o, bytes, n) ==
    InTurn(LAMBDA d, k : PutWord(view, d, Nth(o, k), BytesAt(bytes, Nth(0, k), WordBytes)), m, n)

----------------------------------------------------------------------------
(* Where an access of n bytes at address p lands.                          *)

Nowhere == [region |-> "none", off |-> 0, ent |-> 0]

EntOf(p) == (p - EBase) \div Stride
Within(p) == (p - EBase) % Stride

InS(m, p, n) == p + n <= Len(m.s)
InE(m, p, n) == p >= EBase /\ EntOf(p) < NumEdicts(m) /\ Within(p) + n <= FieldBytes
InH(m, p, n) == p >= HBase /\ p - HBase + n <= Len(m.h)

Locate(m, p, n) ==
    IF InS(m, p, n) THEN [region |-> "s", off |-> p, ent |-> 0]
    ELSE IF InE(m, p, n) THEN [region |-> "e", off |-> p - EBase, ent |-> EntOf(p)]
    ELSE IF InH(m, p, n) THEN [region |-> "h", off |-> p - HBase, ent |-> 0]
    ELSE Nowhere

Readable(m, p, n) == Locate(m, p, n) # Nowhere

Read(m, p, n) == LET at == Locate(m, p, n) IN BytesAt(m[at.region], at.off, n)

CheckWrite_Protected(m, p, n) ==
    IF p = 0 THEN "null" ELSE IF Locate(m, p, n) = Nowhere THEN "invalid" ELSE "ok"

\* The verdict on a write of n bytes at p: null, invalid, protected or ok.
CheckWrite(m, p, n) ==
    LET at == Locate(m, p, n) IN
    IF p = 0 THEN "null"
    ELSE IF at = Nowhere THEN "invalid"
    ELSE IF at.region = "e" /\ Protected(m, at.ent) THEN "protected"
    ELSE "ok"

\* The memory after a write that CheckWrite allows.
Written(m, p, b) ==
    LET at == Locate(m, p, Len(b))
    IN  [m EXCEPT ![at.region] = Patched(@, at.off, b)]

\* Whether field word f .. f + words - 1 of entity e exists, and its offset.
HasField(m, e, f, words) == e < NumEdicts(m) /\ (f + words) * WordBytes <= FieldBytes
FieldOffset(e, f) == e * Stride + f * WordBytes

Field(m, e, f, words) == BytesAt(m.e, FieldOffset(e, f), words * WordBytes)
WithField(m, e, f, b) == [m EXCEPT !.e = Patched(@, FieldOffset(e, f), b)]

\* What ADDRESS computes, without looking at the field.
FieldAddress(e, f) == Wrap(EBase + e * Stride + f * WordBytes)

\* The bytes of a string at p: up to a zero byte, the end of its region or,
\* inside an entity, the end of that entity's fields.
CStr(m, p) ==
    LET at == Locate(m, p, 1)
        end == IF at.region = "e" THEN at.ent * Stride + FieldBytes
                                  ELSE Len(m[at.region])
        zeros == {i \in at.off + 1 .. end : m[at.region][i] = 0}
        stop == IF zeros = {} THEN end ELSE (CHOOSE z \in zeros : \A y \in zeros : z <= y) - 1
    IN  IF at = Nowhere THEN <<>> ELSE SubSeq(m[at.region], at.off + 1, stop)

----------------------------------------------------------------------------
(* What the interpreter's inner loop reaches through pointers and field    *)
(* references without the checks above.                                    *)

ViewLen(view, m) == IF view = "whole" THEN Len(m.s) ELSE Window

InView(view, m, p, n) == p + n <= ViewLen(view, m)

\* `ent_target`: the same field of an allocated entity that Locate finds.
EntTarget(m, p, n) == p >= EBase /\ EntOf(p) < NumEdicts(m) /\ Within(p) + n <= FieldBytes

ViewReads(view, m, p, n) == InView(view, m, p, n) \/ EntTarget(m, p, n)

ViewRead(view, m, p, n) ==
    IF InView(view, m, p, n) THEN BytesAt(m.s, p, n) ELSE BytesAt(m.e, p - EBase, n)

ViewWrites_Protected(view, m, p, n) ==
    IF InView(view, m, p, n) THEN p # 0 ELSE EntTarget(m, p, n)

ViewWrites(view, m, p, n) ==
    IF InView(view, m, p, n) THEN p # 0
    ELSE EntTarget(m, p, n) /\ ~Protected(m, EntOf(p))

ViewWritten(view, m, p, b) ==
    IF InView(view, m, p, Len(b)) THEN [m EXCEPT !.s = Patched(@, p, b)]
                                  ELSE [m EXCEPT !.e = Patched(@, p - EBase, b)]

\* STOREF_*: the entity exists and is writable, and so does the field.
ViewStores(m, e, f, words) == HasField(m, e, f, words) /\ ~Protected(m, e)

=============================================================================
