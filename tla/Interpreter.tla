----------------------------- MODULE Interpreter -----------------------------
(***************************************************************************)
(* The interpreter loop: what one statement does to memory and to the      *)
(* registers.                                                              *)
(*                                                                         *)
(* Every program is covered at once: the statement executed next is any    *)
(* one the loader lets through, with operands from a small set.  `st` is   *)
(* the statement executed last.                                            *)
(*                                                                         *)
(* The code has short cuts: operands may be reached through a window of    *)
(* region S, and field and pointer accesses try a fast path first.  Both   *)
(* are parameters, so the interpreter without them (View = "whole",        *)
(* FastPaths = FALSE) is the specification of the one with them.           *)
(***************************************************************************)
EXTENDS Words

CONSTANTS
    View,               \* how region S is reached: "whole" or "window"
    FastPaths,          \* whether the inner loop's short cuts are taken
    GBase, NumGlobals,  \* the globals of the running progs
    LsBase, LsTop, LsWords,    \* the local stack: address, words in use, size
    NumStatements,
    MaxTempGrowth,      \* bytes a temp string may grow to (1 MiB)
    TempRoom,           \* bytes the temp strings may still take
    LoadI64Zero3, NeSRawStrcmp,    \* the compatibility flags of the opcodes
    Statements,         \* the statements explored: [op, a, b, c], operands byte
                        \* offsets, indices, immediates or jump targets by op
    Starts,             \* the states explored: [mem, temps, budget, kind, pc]
    Statics,            \* slot -> the bytes of an interned string
    Callees,            \* function reference -> [is, locals]: what it calls,
                        \* and the words of locals a QuakeC function has
    RandomWords,        \* what the random opcodes may produce
    Step                \* bound: statements executed

\* The window is used only when every operand lies in it.
WindowFits == GBase + (NumGlobals + 5) * WordBytes <= WindowMask

ASSUME InterpreterAssumption ==
    /\ View \in Views /\ FastPaths \in BOOLEAN
    /\ View = "window" => WindowFits
    /\ GBase \in Nat \ {0} /\ NumGlobals \in Nat /\ NumStatements \in Nat
    /\ {LsBase, LsTop, LsWords, MaxTempGrowth, TempRoom} \subseteq Nat
    /\ RandomWords \subseteq Word
    /\ \A r \in DOMAIN Statics : Statics[r] \in Seq(Byte)

CalleeKinds == {"qc", "builtin", "null", "missing", "invalid"}

ASSUME CalleesAssumption ==
    \A f \in DOMAIN Callees : Callees[f] \in [is : CalleeKinds, locals : Nat]

\* What the loader checks of a statement: an operand that is a global is one of
\* the globals or of the three words after them, and a jump leads to a
\* statement or to the sentinel that follows them.
IsOperand(o) == o >= GBase /\ o < GBase + (NumGlobals + 3) * WordBytes
IsTarget(t) == t <= NumStatements

Branches == {"IfI", "IfNotI", "IfF", "IfNotF", "IfS", "IfNotS"}
Switches == {"SwitchF", "SwitchV", "SwitchS", "SwitchI"}
Unexecutables == {"GAddress", "Bad", "JumpOutOfRange"}
TakesIndex == {"LoadAF", "LoadAV", "LoadAI64", "FetchGblF", "FetchGblV", "GlobalAddress"}
JumpsToB == Branches \union Switches \union {"Case"}
WithoutC == {"StoreF", "StoreV", "StoreI64", "StoreIF", "StoreFI", "GStorePF", "GStorePV", "BoundCheck"}

ASSUME StatementsAssumption ==
    \A s \in Statements :
        /\ s \in [op : STRING, a : Nat, b : Nat, c : Nat]
        /\ IF s.op = "Goto" THEN IsTarget(s.a)
           ELSE s.op \notin TakesIndex \union Unexecutables => IsOperand(s.a)
        /\ IF s.op \in JumpsToB THEN IsTarget(s.b)
           ELSE s.op \notin {"Goto", "BoundCheck"} \union Unexecutables => IsOperand(s.b)
        /\ IF s.op = "CaseRange" THEN IsTarget(s.c)
           ELSE s.op \notin {"Goto"} \union JumpsToB \union WithoutC \union Unexecutables
                    => IsOperand(s.c)

SwitchKinds == {"Float", "Vector", "String", "Int"}

\* A program starts in a sane memory.
ASSUME StartsAssumption ==
    \A s \in Starts :
        /\ IsMemory(s.mem) /\ s.mem.s # <<>>
        /\ View = "window" => Len(s.mem.s) >= Window
        /\ \A t \in DOMAIN s.temps : s.temps[t] \in Seq(Byte)
        /\ s.budget \in Nat /\ s.pc \in 0 .. NumStatements /\ s.kind \in SwitchKinds

VARIABLES
    mem,      \* the memory
    temps,    \* slot -> its bytes, for the slots in use
    x,        \* registers: pc, switchRef, switchKind, pushed; argc
    budget,   \* statements left before the host is asked
    exit,     \* "run", or why the loop stopped
    warned,   \* the warning the last statement raised, or "none"
    st,       \* the last statement
    steps     \* statements executed

vars == <<mem, temps, x, budget, exit, warned, st, steps>>

NoStatement == [op |-> "none", a |-> 0, b |-> 0, c |-> 0]

OfsReturn == GBase + WordBytes
OfsParm0 == GBase + 4 * WordBytes
OfsParm1 == GBase + 7 * WordBytes

Init ==
    /\ \E s \in Starts :
           /\ mem = s.mem /\ temps = s.temps /\ budget = s.budget
           /\ x = [pc |-> s.pc, switchRef |-> OfsReturn, switchKind |-> s.kind,
                   pushed |-> 0, argc |-> 0]
    /\ exit = "run" /\ warned = "none" /\ st = NoStatement /\ steps = 0

\* The word at an operand, as bytes and as a number.
G(o) == WordAt(View, mem, o)
N(o) == Num(G(o))
N64(o) == Num(G(o) \o G(o + WordBytes))

GlobalWords(o, n) == InTurn(LAMBDA bytes, k : bytes \o G(Nth(o, k)), <<>>, n)

Put(m, o, v) == PutWord(View, m, o, BytesOf(v, WordBytes))

\* Arms that need more than the view write through all of region S.
Set(m, o, v) == PutWord("whole", m, o, BytesOf(v, WordBytes))

Put64(m, o, v) == Put(Put(m, o, v % WordVals), o + WordBytes, v \div WordVals)

----------------------------------------------------------------------------
(* How a statement ends.                                                   *)

Advance == x' = [x EXCEPT !.pc = @ + 1]

\* It has its effect on memory and the next statement follows.
Does(m) == /\ mem' = m /\ Advance
           /\ warned' = "none" /\ UNCHANGED <<temps, budget, exit>>

Warns(kind, m) == /\ mem' = m /\ Advance
                  /\ warned' = kind /\ UNCHANGED <<temps, budget, exit>>

\* It stops the loop with pc on itself, having had no effect.
Faults(kind) == exit' = kind /\ warned' = "none" /\ UNCHANGED <<mem, temps, x, budget>>

\* It leaves the loop with an effect.
Leaves(kind, m, regs) ==
    exit' = kind /\ warned' = "none" /\ mem' = m /\ x' = regs /\ UNCHANGED temps

\* It is counted; a budget spent to the end stops the loop before it.
Spent == budget <= 1
Ticks == budget' = IF budget = 0 THEN 0 ELSE budget - 1
Stops(kind) == /\ Spent /\ Ticks
               /\ exit' = "budget" /\ warned' = kind /\ UNCHANGED <<mem, temps>>

Counted(kind, regs) == /\ ~Spent /\ Ticks
                       /\ x' = regs /\ warned' = kind /\ UNCHANGED <<mem, temps, exit>>

\* It has warned of `kind` when it jumps, or "none".
JumpsTo(kind, target, regs) == \/ Stops(kind) /\ x' = [regs EXCEPT !.pc = x.pc]
                               \/ Counted(kind, [regs EXCEPT !.pc = target])

----------------------------------------------------------------------------
(* Arithmetic.                                                             *)

\* One word from the words of A and B.
WordStatement(s) ==
    /\ s.op \in WordOps
    /\ Does(Put(mem, s.c, WordResult(s.op, N(s.a), N(s.b))))

BitCopyStatement(s) ==
    /\ s.op = "BitCopyI"
    /\ Does(Put(mem, s.c, BitCopy(N(s.a), N(s.b), N(s.c))))

LongStatement(s) ==
    \/ s.op \in LongOps /\ Does(Put64(mem, s.c, LongResult(s.op, N64(s.a), N64(s.b))))
    \/ s.op \in LongShifts /\ Does(Put64(mem, s.c, LongShift(s.op, N64(s.a), N(s.b))))
    \/ s.op \in LongTests /\ Does(Put(mem, s.c, LongTest(s.op, N64(s.a), N64(s.b))))
    \/ s.op \in ToLongs /\ Does(Put64(mem, s.c, ToLong(s.op, N(s.a))))
    \/ s.op \in FromLongs /\ Does(Put(mem, s.c, FromLong(s.op, N64(s.a))))

\* Operations on three components, which read each component after writing
\* the ones before it.  A scalar operand is read once.
VectorArith == [AddV |-> "AddF", SubV |-> "SubF", MulFV |-> "MulF", MulVF |-> "MulF",
                DivVF |-> "DivF", MulIV |-> "MulF", MulVI |-> "MulF"]

Scalar(op, v) == IF op \in {"MulIV", "MulVI"} THEN FloatOf(Signed(v)) ELSE v

VectorResult(s) ==
    LET component(m, o, k) == Num(WordAt(View, m, Nth(o, k)))
        left(m, k) == IF s.op \in {"MulFV", "MulIV"} THEN Scalar(s.op, N(s.a))
                                                     ELSE component(m, s.a, k)
        right(m, k) == IF s.op \in {"MulVF", "DivVF", "MulVI"} THEN Scalar(s.op, N(s.b))
                                                               ELSE component(m, s.b, k)
    IN  InTurn(LAMBDA m, k : Put(m, Nth(s.c, k), FloatOp(VectorArith[s.op], left(m, k), right(m, k))),
               mem, 3)

Component(o, k) == N(o + k * WordBytes)

Dot(a, b) ==
    LET times(k) == FloatOp("MulF", Component(a, k), Component(b, k))
    IN  FloatOp("AddF", FloatOp("AddF", times(0), times(1)), times(2))

SameVector(a, b) == \A k \in 0 .. 2 : FloatTest("EqF", Component(a, k), Component(b, k))
ZeroVector(a) == \A k \in 0 .. 2 : FloatTest("EqF", Component(a, k), 0)

VectorStatement(s) ==
    \/ s.op \in DOMAIN VectorArith /\ Does(VectorResult(s))
    \/ s.op = "MulV" /\ Does(Put(mem, s.c, Dot(s.a, s.b)))
    \/ s.op = "EqV" /\ Does(Put(mem, s.c, FBool(SameVector(s.a, s.b))))
    \/ s.op = "NeV" /\ Does(Put(mem, s.c, FBool(~SameVector(s.a, s.b))))
    \/ s.op = "NotV" /\ Does(Put(mem, s.c, FBool(ZeroVector(s.a))))

\* RAND*: each component is some number, computed from A and B as they are.
RandomStatement(s) ==
    \/ s.op = "Rand" /\ \E r \in RandomWords : Does(Set(mem, s.c, r))
    \/ /\ s.op = "RandV"
       /\ \E r \in RandomWords, q \in RandomWords :
              Does(Set(Set(Set(mem, s.c, r), s.c + WordBytes, q), s.c + 2 * WordBytes, r))

----------------------------------------------------------------------------
(* Strings.                                                                *)

TempTag == WordVals \div 2
StaticTag == TempTag + WordVals \div 4

Kind(r) == IF r >= StaticTag THEN "static" ELSE IF r >= TempTag THEN "temp" ELSE "linear"
SlotOf(r) == r % (WordVals \div 4)

UntilZero(b) ==
    IF \E i \in 1 .. Len(b) : b[i] = 0
    THEN SubSeq(b, 1, (CHOOSE i \in 1 .. Len(b) : b[i] = 0 /\ \A j \in 1 .. i - 1 : b[j] # 0) - 1)
    ELSE b

Resolves(r) == CASE Kind(r) = "linear" -> Readable(mem, r, 1)
                 [] Kind(r) = "temp" -> SlotOf(r) \in DOMAIN temps
                 [] Kind(r) = "static" -> SlotOf(r) \in DOMAIN Statics

Text(r) == IF ~Resolves(r) THEN <<>>
           ELSE CASE Kind(r) = "linear" -> CStr(mem, r)
                  [] Kind(r) = "temp" -> UntilZero(temps[SlotOf(r)])
                  [] Kind(r) = "static" -> Statics[SlotOf(r)]

\* Null equals every text that is empty.
StringsEqual(r, q) ==
    \/ r = q
    \/ r = 0 /\ Text(q) = <<>>
    \/ q = 0 /\ Text(r) = <<>>
    \/ r # 0 /\ q # 0 /\ Text(r) = Text(q)

\* What strcmp gives for two different texts.
Difference(t, u) ==
    LET at(b, i) == IF i <= Len(b) THEN b[i] ELSE 0
        i == CHOOSE i \in 1 .. Len(t) + Len(u) + 1 :
                 \/ i > Len(t) /\ i > Len(u)
                 \/ at(t, i) # at(u, i) /\ \A j \in 1 .. i - 1 : at(t, j) = at(u, j)
    IN  at(t, i) - at(u, i)

\* References that resolve to nothing are warned about, and read as empty.
Looked(r, q) == IF r = q THEN {} ELSE {r, q} \ {0}
StringWarning(refs) == IF \A r \in refs : Resolves(r) THEN "none" ELSE "bad string"

StringStatement(s) ==
    \/ /\ s.op \in {"EqS", "NeS"}
       /\ LET r == N(s.a)  q == N(s.b)
              equal == StringsEqual(r, q)
              v == IF s.op = "EqS" THEN FBool(equal)
                   ELSE IF equal \/ ~NeSRawStrcmp THEN FBool(~equal)
                   ELSE FloatOf(Difference(Text(r), Text(q)))
          IN  Warns(StringWarning(Looked(r, q)), Set(mem, s.c, v))
    \/ /\ s.op = "NotS"
       /\ LET r == N(s.a) IN
          Warns(StringWarning({r} \ {0}), Set(mem, s.c, FBool(r = 0 \/ Text(r) = <<>>)))

----------------------------------------------------------------------------
(* Global stores and arrays of globals.                                    *)

WordsOf(op) == CASE op \in {"StoreV", "LoadV", "StoreFieldV", "StorePV", "LoadPV", "LoadAV",
                            "GLoadV", "GStorePV", "FetchGblV"} -> 3
                 [] op \in {"StoreI64", "LoadI64", "StoreFieldI64", "StorePI64", "LoadPI64",
                            "LoadAI64"} -> 2
                 [] OTHER -> 1

Copied(src, dst, n) == CopyWords(View, mem, src, dst, n)

StoreGlobal(s) ==
    \/ s.op \in {"StoreF", "StoreV", "StoreI64"} /\ Does(Copied(s.a, s.b, WordsOf(s.op)))
    \/ s.op \in {"StoreIF", "StoreFI"} /\ Does(Put(mem, s.b, UnaryResult(s.op, N(s.a))))

\* The Hexen 2 forms that update B in place.
ScalarCompounds == {"MulStoreF", "DivStoreF", "AddStoreF", "SubStoreF", "BitSetStoreF",
                    "BitClrStoreF"}

VectorCompounds == {"MulStoreVF", "AddStoreV", "SubStoreV"}

CompoundVector(s) ==
    LET word(m, o, k) == Num(WordAt(View, m, Nth(o, k)))
        by(m, k) == IF s.op = "MulStoreVF" THEN N(s.a) ELSE word(m, s.a, k)
    IN  InTurn(LAMBDA m, k : Put(m, Nth(s.b, k), CompoundResult(s.op, word(m, s.b, k), by(m, k))),
               mem, 3)

CompoundGlobal(s) ==
    \/ s.op \in ScalarCompounds /\ Does(Put(mem, s.b, CompoundResult(s.op, N(s.b), N(s.a))))
    \/ s.op \in VectorCompounds /\ Does(CompoundVector(s))

GlobalAt(i) == GBase + i * WordBytes
IsIndex(i, n) == i >= 0 /\ i + n <= NumGlobals

\* C = the global A + B, A a base index; or the global numbered by A.
LoadGlobal(s) ==
    /\ s.op \in {"LoadAF", "LoadAV", "LoadAI64", "GLoadF", "GLoadV"}
    /\ LET n == WordsOf(s.op)
           i == IF s.op \in {"GLoadF", "GLoadV"} THEN Signed(N(s.a)) ELSE s.a + Signed(N(s.b))
       IN  IF IsIndex(i, n) THEN Does(Copied(GlobalAt(i), s.c, n)) ELSE Faults("array index")

\* The global numbered by B = A.
GStore(s) ==
    /\ s.op \in {"GStorePF", "GStorePV"}
    /\ LET n == WordsOf(s.op)  i == Signed(N(s.b))
       IN  IF IsIndex(i, n) THEN Does(Copied(s.a, GlobalAt(i), n)) ELSE Faults("array index")

\* The word before the array bounds the index, compared unsigned.  The
\* elements are read in all of region S, whatever the view.
FetchGlobal(s) ==
    /\ s.op \in {"FetchGblF", "FetchGblV"}
    /\ LET i == F2I(Num(WordAt("whole", mem, s.b)))
           n == WordsOf(s.op)
       IN  IF s.a = 0 THEN Faults("array index")
           ELSE IF Wrap(i) > Num(WordAt("whole", mem, GlobalAt(s.a - 1)))
           THEN Faults("array index")
           ELSE Does(CopyWords("whole", mem, GlobalAt(Wrap(s.a + Wrap(i) * n)), s.c, n))

GlobalAddress(s) ==
    /\ s.op = "GlobalAddress"
    /\ Does(Put(mem, s.c, Wrap(GBase + (s.a + N(s.b)) * WordBytes)))

\* B and C are immediates here; the comparison is unsigned.
BoundCheck(s) ==
    /\ s.op = "BoundCheck"
    /\ IF N(s.a) < s.c \/ N(s.a) >= s.b THEN Faults("bound") ELSE Does(mem)

\* PUSH: the address of the first word pushed.
Push(s) ==
    /\ s.op = "Push"
    /\ IF LsTop + x.pushed + N(s.a) >= LsWords THEN Faults("pushed too much")
       ELSE /\ mem' = Put(mem, s.c, Wrap(LsBase + (LsTop + x.pushed) * WordBytes))
            /\ x' = [x EXCEPT !.pc = @ + 1, !.pushed = @ + N(s.a)]
            /\ warned' = "none" /\ UNCHANGED <<temps, budget, exit>>

----------------------------------------------------------------------------
(* Entity fields.                                                          *)

BadAccess(e) == IF e >= NumEdicts(mem) THEN "bad entity" ELSE "bad field"

\* LOAD_*: a bad entity zeroes the whole result, a bad field its first word.
LoadField(s) ==
    /\ s.op \in {"LoadF", "LoadV", "LoadI64"}
    /\ LET e == N(s.a)  f == N(s.b)  n == WordsOf(s.op)
           zeroed == IF e < NumEdicts(mem) THEN 1
                     ELSE IF s.op = "LoadI64" /\ LoadI64Zero3 THEN 3 ELSE n
       IN  IF HasField(mem, e, f, n) THEN Does(PutWords(View, mem, s.c, Field(mem, e, f, n), n))
           ELSE Warns(BadAccess(e), PutWords("whole", mem, s.c, Zeros(zeroed * WordBytes), zeroed))

\* ADDRESS: the field is not looked at, and a protected entity gives the
\* sentinel that later accesses skip.
Address(s) ==
    /\ s.op = "Address"
    /\ LET e == N(s.a) IN
       IF e >= NumEdicts(mem) THEN Warns("bad entity", mem)
       ELSE IF Protected(mem, e) THEN Warns("read only", Set(mem, s.c, WordVals - 1))
       ELSE Does(Put(mem, s.c, FieldAddress(e, N(s.b))))

\* STOREF_*: the fast path, or the checks one by one.
StoreField(s) ==
    /\ s.op \in {"StoreFieldF", "StoreFieldV", "StoreFieldI64"}
    /\ LET e == N(s.a)  f == N(s.b)  n == WordsOf(s.op)
           stored == WithField(mem, e, f, GlobalWords(s.c, n))
       IN  IF FastPaths /\ ViewStores(mem, e, f, n) THEN Does(stored)
           ELSE IF ~HasField(mem, e, f, n) THEN Warns(BadAccess(e), mem)
           ELSE IF Protected(mem, e) THEN Warns("read only", mem)
           ELSE Does(stored)

----------------------------------------------------------------------------
(* Pointers.                                                               *)

\* The bytes of slot t with room for `end`, if it may grow that far.
RoundUp(n) == n + ((-n) % 4)
MayGrow(t, end) == \/ end <= Len(temps[t])
                   \/ end <= MaxTempGrowth /\ RoundUp(end) - Len(temps[t]) <= TempRoom
Grown(t, end) == IF end <= Len(temps[t]) THEN temps[t]
                 ELSE temps[t] \o Zeros(RoundUp(end) - Len(temps[t]))

\* A write that memory refused: skipped at the sentinel, else inside the temp
\* string the base names, else an error.
WriteElsewhere(base, off, bytes) ==
    LET p == Wrap(base + off)
        t == SlotOf(base)
        end == off + Len(bytes)
    IN  IF p = WordVals - 1 THEN Does(mem)
        ELSE IF Kind(base) = "temp"
        THEN IF t \in DOMAIN temps /\ MayGrow(t, end)
             THEN /\ temps' = [temps EXCEPT ![t] = Patched(Grown(t, end), off, bytes)]
                  /\ warned' = "none" /\ Advance /\ UNCHANGED <<mem, budget, exit>>
             ELSE Faults("bad write")
        ELSE Faults(IF p = 0 THEN "null write" ELSE "bad write")

PtrWrite(base, off, bytes) ==
    LET p == Wrap(base + off)
        verdict == CheckWrite(mem, p, Len(bytes))
    IN  CASE verdict = "ok" -> Does(Written(mem, p, bytes))
          [] verdict = "protected" -> Warns("read only", mem)
          [] verdict \in {"null", "invalid"} -> WriteElsewhere(base, off, bytes)

\* The bytes a store writes, and what its index counts.
Stored(s) ==
    CASE s.op \in {"StorePF", "StorePV", "StorePI64"} -> GlobalWords(s.a, WordsOf(s.op))
      [] s.op \in {"StorePIF", "StorePFI"} ->
             BytesOf(IF s.op = "StorePIF" THEN FloatOf(Signed(N(s.a))) ELSE Wrap(F2I(N(s.a))), WordBytes)
      [] s.op = "StorePC" -> BytesOf(Wrap(F2I(N(s.a))) % ByteVals, 1)
      [] s.op = "StorePI8" -> BytesOf(N(s.a) % ByteVals, 1)
      [] s.op = "StorePI16" -> BytesOf(N(s.a) % Vals(WordBytes \div 2), WordBytes \div 2)

Scale(op) == CASE op \in {"StorePC", "StorePI8", "LoadPC", "LoadPI8", "LoadPU8"} -> 1
               [] op \in {"StorePI16", "LoadPI16", "LoadPU16"} -> WordBytes \div 2
               [] OTHER -> WordBytes

StorePointer(s) ==
    /\ s.op \in {"StorePF", "StorePV", "StorePI64", "StorePIF", "StorePFI", "StorePC", "StorePI8",
                 "StorePI16"}
    /\ LET off == Wrap(N(s.c) * Scale(s.op))
           p == Wrap(N(s.b) + off)
           bytes == Stored(s)
       IN  IF /\ FastPaths /\ s.op \in {"StorePF", "StorePV"}
              /\ ViewWrites(View, mem, p, Len(bytes))
           THEN Does(ViewWritten(View, mem, p, bytes))
           ELSE PtrWrite(N(s.b), off, bytes)

\* A read that memory refused: zero at the sentinel, else from the string the
\* base names, zero past its end.
StringData(r) == CASE Kind(r) = "temp" /\ SlotOf(r) \in DOMAIN temps -> temps[SlotOf(r)]
                   [] Kind(r) = "static" /\ SlotOf(r) \in DOMAIN Statics -> Statics[SlotOf(r)]
                   [] OTHER -> <<>>

HasData(r) == \/ Kind(r) = "temp" /\ SlotOf(r) \in DOMAIN temps
              \/ Kind(r) = "static" /\ SlotOf(r) \in DOMAIN Statics

MayRead(base, off, n) == LET p == Wrap(base + off)
                         IN  Readable(mem, p, n) \/ p = WordVals - 1 \/ HasData(base)

PtrRead(base, off, n) ==
    LET p == Wrap(base + off)
        data == StringData(base)
    IN  IF Readable(mem, p, n) THEN Read(mem, p, n)
        ELSE IF p = WordVals - 1 THEN Zeros(n)
        ELSE [i \in 1 .. n |-> IF off + i <= Len(data) THEN data[off + i] ELSE 0]

SignExtended(v, n) == IF v < Vals(n) \div 2 THEN v ELSE Wrap(v - Vals(n))

\* What a load puts in C for the bytes it read.
Loaded(s, b) ==
    CASE s.op \in {"LoadPF", "LoadPV", "LoadPI64"} -> PutWords("whole", mem, s.c, b, WordsOf(s.op))
      [] s.op = "LoadPC" -> Set(mem, s.c, FloatOf(Num(b)))
      [] s.op \in {"LoadPI8", "LoadPI16"} -> Set(mem, s.c, SignExtended(Num(b), Len(b)))
      [] s.op \in {"LoadPU8", "LoadPU16"} -> Set(mem, s.c, Num(b))

LoadedBytes(op) == CASE op \in {"LoadPC", "LoadPI8", "LoadPU8"} -> 1
                     [] op \in {"LoadPI16", "LoadPU16"} -> WordBytes \div 2
                     [] OTHER -> WordsOf(op) * WordBytes

LoadPointer(s) ==
    /\ s.op \in {"LoadPF", "LoadPV", "LoadPI64", "LoadPC", "LoadPI8", "LoadPU8", "LoadPI16",
                 "LoadPU16"}
    /\ LET index == IF s.op = "LoadPC" THEN Wrap(F2I(N(s.b))) ELSE N(s.b)
           off == Wrap(index * Scale(s.op))
           p == Wrap(N(s.a) + off)
           n == LoadedBytes(s.op)
       IN  IF FastPaths /\ s.op \in {"LoadPF", "LoadPV"} /\ ViewReads(View, mem, p, n)
           THEN Does(PutWords(View, mem, s.c, ViewRead(View, mem, p, n), WordsOf(s.op)))
           ELSE IF MayRead(N(s.a), off, n) THEN Does(Loaded(s, PtrRead(N(s.a), off, n)))
           ELSE Faults("bad read")

\* LOADP_ITOF, LOADP_FTOI: A alone is the pointer, and nothing replaces it.
LoadConverted(s) ==
    /\ s.op \in {"LoadPItoF", "LoadPFtoI"}
    /\ IF Readable(mem, N(s.a), WordBytes)
       THEN LET v == Num(Read(mem, N(s.a), WordBytes))
            IN  Does(Set(mem, s.c, IF s.op = "LoadPItoF" THEN FloatOf(Signed(v)) ELSE Wrap(F2I(v))))
       ELSE Faults("bad read")

\* The Hexen 2 forms through a pointer: read, write, and the new value to C.
QuickCompounds == {"MulStorePF", "DivStorePF", "AddStorePF", "SubStorePF"}
BitCompounds == {"BitSetStorePF", "BitClrStorePF"}
PointerVectors == {"MulStorePVF", "AddStorePV", "SubStorePV"}

CompoundAt(s, m, p, o, by) ==
    LET v == CompoundResult(s.op, Num(Read(m, p, WordBytes)), by)
        written == Written(m, p, BytesOf(v, WordBytes))
    IN  IF s.op \in BitCompounds THEN written ELSE Set(written, o, v)

CompoundPointer(s) ==
    /\ s.op \in QuickCompounds \union BitCompounds \union PointerVectors
    /\ LET p == N(s.b)
           n == IF s.op \in PointerVectors THEN 3 ELSE 1
           by(m, k) == IF s.op = "MulStorePVF" THEN Num(WordAt("whole", mem, s.a))
                                               ELSE Num(WordAt("whole", m, Nth(s.a, k)))
           after == InTurn(LAMBDA m, k : CompoundAt(s, m, Nth(p, k), Nth(s.c, k), by(m, k)), mem, n)
           viewed == CompoundResult(s.op, Num(ViewRead(View, mem, p, WordBytes)), N(s.a))
           verdict == CheckWrite(mem, p, n * WordBytes)
       IN  IF FastPaths /\ s.op \in QuickCompounds /\ ViewWrites(View, mem, p, WordBytes)
           THEN Does(Put(ViewWritten(View, mem, p, BytesOf(viewed, WordBytes)), s.c, viewed))
           ELSE CASE verdict = "ok" -> Does(after)
                  [] verdict = "protected" -> Warns("read only", mem)
                  [] verdict = "null" -> Faults("null write")
                  [] verdict = "invalid" -> Faults("bad write")

----------------------------------------------------------------------------
(* Control.                                                                *)

\* A branch jumps or not; both are counted.
Truth(op, v) == IF op \in {"IfF", "IfNotF"} THEN FloatTrue(v) ELSE v # 0

Branch(s) ==
    /\ s.op \in Branches \union {"Goto"}
    /\ LET taken == \/ s.op = "Goto"
                    \/ s.op \in {"IfI", "IfF", "IfS"} /\ Truth(s.op, N(s.a))
                    \/ s.op \in {"IfNotI", "IfNotF", "IfNotS"} /\ ~Truth(s.op, N(s.a))
       IN  JumpsTo("none", IF ~taken THEN x.pc + 1 ELSE IF s.op = "Goto" THEN s.a ELSE s.b, x)

\* SWITCH records a live reference to A before it is counted.
SwitchKindOf(op) == CASE op = "SwitchF" -> "Float" [] op = "SwitchV" -> "Vector"
                      [] op = "SwitchS" -> "String" [] OTHER -> "Int"

Switch(s) ==
    /\ s.op \in Switches
    /\ JumpsTo("none", s.b, [x EXCEPT !.switchRef = s.a, !.switchKind = SwitchKindOf(s.op)])

CaseHits(a) ==
    LET r == x.switchRef IN
    CASE x.switchKind = "Float" -> FloatTest("EqF", N(r), N(a))
      [] x.switchKind = "Vector" -> SameVector(r, a)
      [] x.switchKind = "String" -> StringsEqual(N(r), N(a))
      [] x.switchKind = "Int" -> N(r) = N(a)

RangeHits(a, b) ==
    LET r == x.switchRef
        between(v, lo, hi) == FloatTest("LeF", lo, v) /\ FloatTest("LeF", v, hi)
    IN CASE x.switchKind = "Float" -> between(N(r), N(a), N(b))
         [] x.switchKind = "Vector" -> \A k \in 0 .. 2 : between(Component(r, k), Component(a, k), Component(b, k))
         [] x.switchKind = "Int" -> Signed(N(a)) <= Signed(N(r)) /\ Signed(N(r)) <= Signed(N(b))

\* Comparing strings may warn, before the statement is counted.
CaseWarning(a) == IF x.switchKind = "String" THEN StringWarning(Looked(N(x.switchRef), N(a)))
                                             ELSE "none"

Case_Uncounted(s) ==
    /\ s.op = "Case"
    /\ IF ~CaseHits(s.a) THEN Warns(CaseWarning(s.a), mem)
       ELSE /\ x' = [x EXCEPT !.pc = s.b]
            /\ warned' = CaseWarning(s.a) /\ UNCHANGED <<mem, temps, budget, exit>>

\* CASE and CASERANGE are counted when taken.
Case(s) ==
    /\ s.op = "Case"
    /\ IF CaseHits(s.a) THEN JumpsTo(CaseWarning(s.a), s.b, x) ELSE Warns(CaseWarning(s.a), mem)

CaseRange(s) ==
    /\ s.op = "CaseRange"
    /\ IF x.switchKind = "String" THEN Faults("string case range")
       ELSE IF RangeHits(s.a, s.b) THEN JumpsTo("none", s.c, x) ELSE Does(mem)

\* CALLn and the forms CALLnH, which copy B to PARM0 and, with two parameters or
\* more, C to PARM1 before it.
CallArgc == [Call0 |-> 0, Call1 |-> 1, Call2 |-> 2, Call3 |-> 3, Call4 |-> 4, Call5 |-> 5,
             Call6 |-> 6, Call7 |-> 7, Call8 |-> 8, Call1H |-> 1, Call2H |-> 2, Call3H |-> 3,
             Call4H |-> 4, Call5H |-> 5, Call6H |-> 6, Call7H |-> 7, Call8H |-> 8]

HexenCalls == {"Call1H", "Call2H", "Call3H", "Call4H", "Call5H", "Call6H", "Call7H", "Call8H"}

WithParms(s) ==
    LET second == IF CallArgc[s.op] >= 2 THEN Copied(s.c, OfsParm1, 3) ELSE mem
    IN  IF s.op \in HexenCalls THEN CopyWords(View, second, s.b, OfsParm0, 3) ELSE mem

\* How the call of f may end: "call" leaves for the function.  How many calls
\* deep the program is, is not modelled here.
Callee(f) == IF f \in DOMAIN Callees THEN Callees[f] ELSE [is |-> "invalid", locals |-> 0]

CallEndings(f) ==
    LET room == LsTop + x.pushed + Callee(f).locals <= LsWords IN
    CASE Callee(f).is = "qc" -> {"call depth", IF room THEN "call" ELSE "local stack"}
      [] Callee(f).is = "builtin" -> {"call"}
      [] Callee(f).is = "null" -> {"null function"}
      [] Callee(f).is = "missing" -> {"missing builtin"}
      [] Callee(f).is = "invalid" -> {"invalid function"}

\* What is called is read after the parameters are copied; a call that fails
\* stops at the statement with the parameters and argc in place.
Calls(s) ==
    LET passed == WithParms(s) IN
    \E kind \in CallEndings(Num(WordAt(View, passed, s.a))) :
        Leaves(kind, passed, [x EXCEPT !.pc = IF kind = "call" THEN @ + 1 ELSE @,
                                       !.argc = CallArgc[s.op]])

Call_CopiesFirst(s) ==
    /\ s.op \in DOMAIN CallArgc
    /\ \/ /\ Spent /\ Ticks /\ mem' = WithParms(s)
          /\ exit' = "budget" /\ warned' = "none" /\ UNCHANGED <<temps, x>>
       \/ ~Spent /\ Ticks /\ Calls(s)

\* It is counted before anything else.
Call(s) ==
    /\ s.op \in DOMAIN CallArgc
    /\ \/ Stops("none") /\ UNCHANGED x
       \/ ~Spent /\ Ticks /\ Calls(s)

Return(s) ==
    /\ s.op = "Return"
    /\ \/ Stops("none") /\ UNCHANGED x
       \/ ~Spent /\ Ticks /\ Leaves("returned", Copied(s.a, OfsReturn, 3), x)

\* STATE and the other animation opcodes are the host's to perform.
StateOp(s) ==
    /\ s.op \in {"State", "ThinkTime"}
    /\ Leaves("state op", mem, [x EXCEPT !.pc = @ + 1]) /\ UNCHANGED budget

Unexecutable(s) ==
    /\ s.op \in Unexecutables
    /\ Faults(s.op)

----------------------------------------------------------------------------

\* Statement s is executed.
Execute(s) ==
    /\ exit = "run" /\ steps < Step
    /\ st' = s /\ steps' = steps + 1
    /\ (s.op = "JumpOutOfRange") <=> (x.pc = NumStatements)   \* the sentinel
    /\ \/ WordStatement(s) \/ BitCopyStatement(s) \/ LongStatement(s) \/ VectorStatement(s)
       \/ RandomStatement(s) \/ StringStatement(s) \/ StoreGlobal(s) \/ CompoundGlobal(s)
       \/ LoadGlobal(s) \/ GStore(s) \/ FetchGlobal(s) \/ GlobalAddress(s) \/ BoundCheck(s)
       \/ Push(s) \/ LoadField(s) \/ Address(s) \/ StoreField(s) \/ StorePointer(s)
       \/ LoadPointer(s) \/ LoadConverted(s) \/ CompoundPointer(s) \/ Branch(s) \/ Switch(s)
       \/ Case(s) \/ CaseRange(s) \/ Call(s) \/ Return(s) \/ StateOp(s) \/ Unexecutable(s)

Next == \E s \in Statements : Execute(s)

Spec == Init /\ [][Next]_vars

----------------------------------------------------------------------------
(* Properties.                                                             *)

\* Why the loop stops, and what it warns of.
CallFaults == {"call depth", "local stack", "null function", "missing builtin",
               "invalid function"}
Endings == {"run", "call", "returned", "state op", "budget", "array index", "bound",
            "pushed too much", "bad read", "bad write", "null write", "string case range"}
           \union CallFaults \union Unexecutables
Warnings == {"none", "bad string", "bad entity", "bad field", "read only"}

TypeOK ==
    /\ IsMemory(mem) /\ \A t \in DOMAIN temps : temps[t] \in Seq(Byte)
    /\ x \in [pc : 0 .. NumStatements, switchRef : Nat, switchKind : SwitchKinds, pushed : Nat,
              argc : 0 .. 8]
    /\ budget \in Nat /\ exit \in Endings /\ warned \in Warnings

\* Where a call of the H forms copies to.  A window fits as soon as it holds the
\* operands; parameters beyond the globals of a tiny progs may lie past its end,
\* and the mask then takes them back to the start of memory.
ParmsOf(op) == IF op \notin HexenCalls THEN {}
               ELSE IF CallArgc[op] >= 2 THEN {OfsParm0, OfsParm1} ELSE {OfsParm0}

ParmsInView(s) == View = "window" => \A o \in ParmsOf(s.op) : o + 2 * WordBytes <= WindowMask

ParmBytes(s) == {ViewOffset(View, Nth(o, k)) + i : o \in ParmsOf(s.op), k \in 1 .. 3,
                                                  i \in 1 .. WordBytes}

\* No statement changes a byte of a protected entity, of the part of a block
\* that holds no fields, or the entity table, through any pointer; and null stays
\* an empty text, without which the null rules would make string comparison no
\* equivalence, unless the mask brings the parameters of a call there.
Kept(e) == \A i \in 1 .. Stride :
               \/ mem'.e[e * Stride + i] = mem.e[e * Stride + i]
               \/ ~Protected(mem, e) /\ i <= FieldBytes

ProtectedFieldsKept ==
    [][/\ mem'.slots = mem.slots
       /\ \A e \in 0 .. NumEdicts(mem) - 1 : Kept(e)
       /\ ParmsInView(st') /\ Text(0) = <<>> => Text(0)' = <<>>]_vars

\* A program cannot go back without being charged for it, so that the budget
\* stops every loop.
LoopsCharged == [][exit' = "run" /\ x'.pc <= x.pc => budget' < budget]_vars

Stopped == exit' \notin {"run", "call", "returned", "state op"}

\* A switch sets its reference again when it runs again; a call whose function
\* cannot be entered has set argc.
RegistersStay ==
    \/ x' = x
    \/ /\ exit' = "budget" /\ st'.op \in Switches
       /\ x' = [x EXCEPT !.switchRef = st'.a, !.switchKind = SwitchKindOf(st'.op)]
    \/ exit' \in CallFaults /\ x' = [x EXCEPT !.argc = CallArgc[st'.op]]

\* Such a call has copied its parameters, and nothing else.
MemoryStays ==
    \/ mem' = mem
    \/ /\ exit' \in CallFaults /\ mem' = [mem EXCEPT !.s = mem'.s]
       /\ \A i \in 1 .. Len(mem.s) : mem'.s[i] = mem.s[i] \/ i \in ParmBytes(st')

\* A statement the budget stops runs again, and one that fails is reported where
\* it is: it has not moved on, and changed neither registers nor memory nor a
\* temp string, but for what a switch or a failed call has set by then.
StoppedStaysPut == [][Stopped => RegistersStay /\ MemoryStays /\ UNCHANGED temps]_vars
=============================================================================
