---------------------------- MODULE MCInterpreter ----------------------------
(***************************************************************************)
(* Interpreter on a toy machine: words of two 4-bit bytes, floats of a     *)
(* sign bit and a magnitude that count whole numbers, two entities of      *)
(* three field words.  Every statement is executed once from states whose  *)
(* operand words take every value next to a boundary of the address space. *)
(***************************************************************************)
EXTENDS ShortCuts, TLC, Bitwise

ToyAnd(v, w) == v & w

\* Floats: 127 is NaN and 126 infinity, under either sign.
Magnitude(w) == w % 128
IsNaN(w) == Magnitude(w) = 127
ToyValue(w) == IF w < 128 THEN w ELSE 128 - w
ToyFloat(i) == IF i < 0 THEN 128 + (IF i < -126 THEN 126 ELSE -i)
                        ELSE IF i > 126 THEN 126 ELSE i
ToyTrunc(w) == IF IsNaN(w) THEN -32768 ELSE ToyValue(w)

ToyOp(op, v, w) ==
    LET i == ToyValue(v)  j == ToyValue(w) IN
    CASE IsNaN(v) \/ IsNaN(w) -> 127
      [] ~(IsNaN(v) \/ IsNaN(w)) ->
           (CASE op = "AddF" -> ToyFloat(i + j)
              [] op = "SubF" -> ToyFloat(i - j)
              [] op = "MulF" -> ToyFloat(i * j)
              [] op = "DivF" -> IF j = 0 THEN (IF i = 0 THEN 127 ELSE ToyFloat(i * 126))
                                         ELSE ToyFloat(Quotient(i, j)))

ToyTest(op, v, w) ==
    LET i == ToyValue(v)  j == ToyValue(w) IN
    IF IsNaN(v) \/ IsNaN(w) THEN op = "NeF"
    ELSE CASE op = "EqF" -> i = j
           [] op = "NeF" -> i # j
           [] op = "LeF" -> i <= j
           [] op = "LtF" -> i < j
           [] op = "GeF" -> i >= j
           [] op = "GtF" -> i > j

----------------------------------------------------------------------------
(* Memory: 70 bytes of strings, 15 globals at 2 and a local stack at 32;   *)
(* the window ends at 66; entities at 72 and 80, the second protected; a   *)
(* heap of 8 bytes at 88.  Handles: temp strings from 128, interned 192.   *)

A == 22
B == 24
C == 26

ToyS == [i \in 1 .. 70 |-> CASE i \in {61, 68} -> 5 [] i \in {62, 69} -> 7 [] OTHER -> 0]

ToyMemory(a, b, c) ==
    LET set(s, o, v) == Patched(s, o, BytesOf(v, 2)) IN
    [s |-> set(set(set(ToyS, A, a), B, b), C, c),
     e |-> [i \in 1 .. 16 |-> i % 5],
     h |-> [i \in 1 .. 8 |-> 5],
     slots |-> <<[inUse |-> TRUE, protected |-> FALSE], [inUse |-> TRUE, protected |-> TRUE]>>]

Parm0 == 10   \* where the H forms of a call copy B

\* Functions of every kind; the locals of the second do not fit.
ToyCallees == (0 :> [is |-> "null", locals |-> 0]) @@ (1 :> [is |-> "qc", locals |-> 6])
              @@ (2 :> [is |-> "qc", locals |-> 7]) @@ (26 :> [is |-> "builtin", locals |-> 0])
              @@ (60 :> [is |-> "missing", locals |-> 0])

ToyStatics == (0 :> <<5, 7>>)
ToyTemps == (0 :> <<5, 7, 0, 0>>)

Start(a, b, c, budget0, kind, pc) ==
    [mem |-> ToyMemory(a, b, c), temps |-> ToyTemps, budget |-> budget0, kind |-> kind, pc |-> pc]

\* Words next to a boundary: null, the globals, the end of the window and of
\* region S, fields of both entities and past them, the heap and its end,
\* handles of strings that exist and that do not, and the sentinel.
Near == {0, 1, 2, 26, 60, 65, 66, 69, 72, 77, 80, 87, 88, 95, 128, 129, 192, 255}
Small == {0, 1, 2, 3, 255}

ToyStarts ==
    {Start(a, b, c, 2, "Float", 0) : a \in Near, b \in Near, c \in {0}}
    \union {Start(a, b, c, 2, "Float", 0) : a \in {200}, b \in Near, c \in Small}
    \union {Start(a, b, 0, n, kind, pc) : a \in {0, 1, 128, 192}, b \in {0, 1}, n \in {1, 2},
                                          kind \in {"Float", "Vector", "String", "Int"},
                                          pc \in {0, 1, 2}}

----------------------------------------------------------------------------

Of(ops, as, bs, cs) == {[op |-> o, a |-> i, b |-> j, c |-> k] : o \in ops, i \in as, j \in bs, k \in cs}

ToyStatements ==
    Of(WordOps \union {"BitCopyI"} \union LongOps \union LongShifts \union LongTests \union ToLongs
       \union FromLongs \union {"MulV", "EqV", "NeV", "NotV", "Rand", "RandV", "EqS", "NeS", "NotS",
                                "Push", "GLoadF", "GLoadV"}, {A}, {B}, {C})
    \union Of(DOMAIN VectorArith \union ScalarCompounds \union VectorCompounds, {A}, {B, C}, {A, C})
    \union Of({"StoreF", "StoreV", "StoreI64", "StoreIF", "StoreFI"}, {A}, {B, C}, {0})
    \union Of({"GStorePF", "GStorePV"}, {A, C}, {B}, {0})
    \union Of({"LoadAF", "LoadAV", "LoadAI64"}, {0, 12, 14}, {B}, {C})
    \union Of({"FetchGblF", "FetchGblV"}, {0, 1, 12}, {B}, {C})
    \union Of({"GlobalAddress"}, {0, 14}, {B}, {C})
    \union Of({"BoundCheck"}, {A}, {66}, {0, 2})
    \union Of({"LoadF", "LoadV", "LoadI64", "Address", "StoreFieldF", "StoreFieldV", "StoreFieldI64"},
              {A}, {B, C}, {A, C})
    \union Of({"StorePF", "StorePV", "StorePI64", "StorePIF", "StorePFI", "StorePC", "StorePI8",
               "StorePI16", "LoadPF", "LoadPV", "LoadPI64", "LoadPC", "LoadPI8", "LoadPU8",
               "LoadPI16", "LoadPU16", "LoadPItoF", "LoadPFtoI"}
              \union QuickCompounds \union BitCompounds \union PointerVectors, {A}, {B}, {B, C})
    \union Of({"IfI", "IfNotI", "IfF", "IfNotF", "IfS", "IfNotS", "SwitchF", "SwitchV", "SwitchS",
               "SwitchI", "Case"}, {A, B}, {0, 2}, {0})
    \union Of({"Goto"}, {0, 2}, {0}, {0})
    \union Of({"CaseRange"}, {A}, {B}, {0})
    \union Of({"Return", "State", "GAddress", "Bad", "JumpOutOfRange"}, {A}, {B}, {C})
    \union Of({"Call0", "Call1", "Call8", "Call1H", "Call2H", "Call8H"}, {A, Parm0}, {B}, {C})

=============================================================================
