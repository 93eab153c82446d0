-------------------------- MODULE MultiProgsProofs --------------------------
(***************************************************************************)
(* Loaded code stays inside the block its progs was given: proofs for      *)
(* every file, every limit and every sequence of loads and calls.          *)
(***************************************************************************)
EXTENDS MultiProgs, TLAPS, FiniteSetTheorems, WellFoundedInduction

-----------------------------------------------------------------------------
(* Numbers.                                                                *)

\* A set of numbers has a least one, and Min is it.
LEMMA MinOfNats ==
    ASSUME NEW S, S \subseteq Nat, S # {}
    PROVE  Min(S) \in S /\ \A y \in S : Min(S) <= y
<1> DEFINE Less == {ss \in Nat \X Nat : ss[1] < ss[2]}
<1>1. IsWellFoundedOn(Less, Nat)
  BY NatLessThanWellFounded DEF OpToRel
<1>2. \A x, y \in Nat : y < x => <<y, x>> \in Less
  OBVIOUS
<1> HIDE DEF Less
<1>3. PICK x \in S : \A y \in S : ~ (<<y, x>> \in Less)
  BY <1>1, WFMin
<1>4. x \in Nat /\ \A y \in S : y \in Nat /\ ~ (y < x)
  BY <1>2, <1>3
<1>5. \A y \in S : x <= y
  BY <1>4
<1> QED
  BY <1>5 DEF Min

\* align_up: never below its argument, and a multiple of four for globals.
LEMMA AlignedUp ==
    ASSUME NEW v \in Nat
    PROVE  /\ AlignUp(v, 16) \in Nat /\ AlignUp(v, 16) >= v
           /\ AlignUp(v, 4) \in Nat /\ AlignUp(v, 4) >= v /\ 4 * (AlignUp(v, 4) \div 4) = AlignUp(v, 4)
<1>1. AlignUp(v, 16) \in Nat /\ AlignUp(v, 16) >= v
  BY DEF AlignUp
<1>2. AlignUp(v, 4) \in Nat /\ AlignUp(v, 4) >= v
  BY DEF AlignUp
<1>3. PICK q \in Int : q = (v + 3) \div 4
  OBVIOUS
<1>4. AlignUp(v, 4) = q * 4
  BY <1>3 DEF AlignUp
<1>5. (q * 4) \div 4 = q
  OBVIOUS
<1> QED
  BY <1>1, <1>2, <1>4, <1>5

-----------------------------------------------------------------------------
(* The parameter copies of a function.                                     *)

\* What DecodeFunction gives of a row of a file.
IsFunction(f) ==
    /\ f.first \in Int /\ f.num_parms \in Int /\ f.locals \in Nat /\ f.parm_start \in Nat
    /\ f.sizes \in Seq(Nat) /\ Len(f.sizes) >= NumParms

\* No more parameters are copied than there are sizes.
LEMMA ParamCounts ==
    ASSUME NEW f, IsFunction(f)
    PROVE  ParamCount(f) \in Nat /\ ParamCount(f) <= Len(f.sizes)
<1>1. f.num_parms \in Int /\ Len(f.sizes) \in Nat /\ Len(f.sizes) >= NumParms
  BY DEF IsFunction
<1>2. NumParms \in Nat
  BY ProgramAssumption
<1> QED
  BY <1>1, <1>2 DEF ParamCount

\* The parameters have finitely many words.
LEMMA ParamWordsType ==
    ASSUME NEW f, IsFunction(f), NEW n \in 0 .. ParamCount(f)
    PROVE  ParamWords(f, n) \in Nat
<1> DEFINE Family == {{i} \X (1 .. f.sizes[i]) : i \in 1 .. n}
           g == [i \in 1 .. n |-> {i} \X (1 .. f.sizes[i])]
<1>0. \A i \in 1 .. n : f.sizes[i] \in Nat
  <2>1. n \in Nat /\ n <= Len(f.sizes) /\ f.sizes \in Seq(Nat)
    BY ParamCounts DEF IsFunction
  <2> QED
    BY <2>1
<1>1. g \in Surjection(1 .. n, Family)
  BY DEF Surjection
<1>2. IsFiniteSet(1 .. n)
  BY ParamCounts, FS_Interval
<1>3. \A i \in 1 .. n : IsFiniteSet({i} \X (1 .. f.sizes[i]))
  <2> TAKE i \in 1 .. n
  <2>1. PICK m \in Nat : m = f.sizes[i]
    BY <1>0
  <2>2. IsFiniteSet(1 .. m)
    BY FS_Interval
  <2>3. IsFiniteSet({i})
    BY FS_Singleton
  <2> QED
    BY <2>1, <2>2, <2>3, FS_Product
<1>4. \A F \in Family : IsFiniteSet(F)
  BY <1>3
<1> HIDE DEF Family, g
<1>5. IsFiniteSet(Family)
  BY <1>1, <1>2, FS_Surjection
<1>6. IsFiniteSet(UNION Family)
  BY <1>4, <1>5, FS_UNION
<1>7. Cardinality(UNION Family) \in Nat
  BY <1>6, FS_CardinalityType
<1> QED
  BY <1>7 DEF ParamWords, Family

LEMMA NoParamWords ==
    ASSUME NEW f
    PROVE  ParamWords(f, 0) = 0
<1>1. UNION {{i} \X (1 .. f.sizes[i]) : i \in 1 .. 0} = {}
  OBVIOUS
<1> QED
  BY <1>1, FS_EmptySet DEF ParamWords

\* Copies come from words at or behind the first PARM slot and go to locals.
LEMMA CopiesType ==
    ASSUME NEW f, IsFunction(f), NEW k \in DOMAIN ParamCopies(f)
    PROVE  ParamCopies(f)[k].src \in Nat /\ ParamCopies(f)[k].dst \in Nat
<1> DEFINE n == ParamCount(f)
           S == {i \in 1 .. n : k <= ParamWords(f, i)}
           i == ParamOf(f, k)
           w == ParamWords(f, i - 1)
<1>1. n \in Nat /\ ParamWords(f, n) \in Nat /\ k \in 1 .. ParamWords(f, n)
  BY ParamCounts, ParamWordsType DEF ParamCopies
<1>2. n # 0
  BY <1>1, NoParamWords
<1>3. S # {} /\ S \subseteq Nat
  BY <1>1, <1>2
<1>4. Min(S) \in S /\ \A y \in S : Min(S) <= y
  BY <1>3, MinOfNats
<1>5. i = Min(S)
  BY DEF ParamOf
<1>6. i \in 1 .. n /\ \A y \in 1 .. n : k <= ParamWords(f, y) => i <= y
  BY <1>4, <1>5
<1> HIDE DEF S, i, n
<1>7. w \in Nat /\ w < k
  <2>1. CASE i = 1
    <3>1. i - 1 = 0
      BY <2>1
    <3> QED
      BY <1>1, <3>1, NoParamWords
  <2>2. CASE i # 1
    <3>1. PICK m \in 1 .. n : m = i - 1
      BY <1>1, <1>6, <2>2
    <3>2. ParamWords(f, m) \in Nat
      BY <1>1, <3>1, ParamWordsType DEF n
    <3>3. ~(i <= m)
      BY <1>6, <3>1
    <3>4. ~(k <= ParamWords(f, m))
      BY <1>6, <3>3
    <3> QED
      BY <1>1, <3>1, <3>2, <3>4
  <2> QED
    BY <2>1, <2>2
<1> HIDE DEF w
<1>8. /\ ParamCopies(f)[k].src = 4 + 3 * (i - 1) + k - 1 - w
      /\ ParamCopies(f)[k].dst = f.parm_start + k - 1
  BY DEF ParamCopies, i, w
<1> QED
  BY <1>1, <1>6, <1>7, <1>8 DEF IsFunction

-----------------------------------------------------------------------------
(* What an accepted program is: every operand of its statements, and the    *)
(* words its functions use, lie inside its globals and their tail.          *)

OperandFits(kind, v, last, limit) ==
    /\ IsRelocated(kind) => \E word \in 0 .. limit - 1 : v = 4 * word
    /\ kind = "GlobalIndex" => v < limit
    /\ kind = "Jump" => v \in 0 .. last

StatementFits(st, last, limit) ==
    /\ DOMAIN st = {"op", "breakpoint", "a", "b", "c"}
    /\ OperandFits(Operands(st.op)[1], st.a, last, limit)
    /\ OperandFits(Operands(st.op)[2], st.b, last, limit)
    /\ OperandFits(Operands(st.op)[3], st.c, last, limit)

FunctionFits(f, limit) ==
    /\ f.is.kind \in {"Null", "Invalid", "QuakeC", "NamedBuiltin", "Builtin"}
    /\ f.is.kind = "QuakeC" =>
          /\ f.parm_start \in Nat /\ f.locals \in Nat /\ f.parm_start + f.locals <= limit
          /\ \A k \in DOMAIN f.copies :
                f.copies[k].src \in 0 .. limit - 1 /\ f.copies[k].dst \in 0 .. limit - 1

Limit(program) == Len(program.globals) + GlobalsTail

\* The last index is the sentinel's.
StatementsFit(code, last, limit) ==
    /\ last \in Nat /\ DOMAIN code = 1 .. last + 1
    /\ \A i \in 1 .. last + 1 : StatementFits(code[i], last, limit)

ProgramFits(program) ==
    /\ program.strings \in Nat /\ Len(program.globals) \in Nat
    /\ \E last \in Nat : StatementsFit(program.statements, last, Limit(program))
    /\ DOMAIN program.functions \subseteq Nat
    /\ \A j \in DOMAIN program.functions : FunctionFits(program.functions[j], Limit(program))

\* A jump leads to a statement or to the sentinel.
LEMMA JumpsFit ==
    ASSUME NEW value, NEW index, NEW count \in Nat, NEW wide
    PROVE  JumpTarget(value, index, count, wide) \in 0 .. count
BY DEF JumpTarget

\* An operand the loader accepts is in range once canonical.
LEMMA CanonicalOperandFits ==
    ASSUME NEW kind, NEW value \in Nat, NEW index, NEW count \in Nat, NEW wide,
           NEW limit \in Nat, OperandOk(kind, value, limit)
    PROVE  OperandFits(kind, CanonicalOperand(kind, value, index, count, wide), count, limit)
<1>1. CASE IsRelocated(kind)
  <2>1. value \in 0 .. limit - 1
    <3>1. kind \in {"Global", "Unused"}
      BY <1>1 DEF IsRelocated
    <3>2. value < limit
      BY <3>1 DEF OperandOk
    <3> QED
      BY <3>2
  <2>2. CanonicalOperand(kind, value, index, count, wide) = 4 * value
    BY <1>1 DEF IsRelocated, CanonicalOperand
  <2> QED
    BY <1>1, <2>1, <2>2 DEF IsRelocated, OperandFits
<1>2. CASE kind = "GlobalIndex"
  <2>1. value < limit
    BY <1>2 DEF OperandOk
  <2>2. CanonicalOperand(kind, value, index, count, wide) = value
    BY <1>2 DEF CanonicalOperand
  <2> QED
    BY <1>2, <2>1, <2>2 DEF IsRelocated, OperandFits
<1>3. CASE kind = "Jump"
  <2>1. CanonicalOperand(kind, value, index, count, wide) = JumpTarget(value, index, count, wide)
    BY <1>3 DEF CanonicalOperand
  <2> QED
    BY <1>3, <2>1, JumpsFit DEF IsRelocated, OperandFits
<1> QED
  BY <1>1, <1>2, <1>3 DEF OperandFits

\* The operands of a poisoned statement are in range whatever their kinds.
LEMMA ZeroOperandFits ==
    ASSUME NEW kind, NEW last \in Nat, NEW limit \in Nat \ {0}
    PROVE  OperandFits(kind, 0, last, limit)
<1>1. 0 \in 0 .. limit - 1 /\ 0 = 4 * 0 /\ 0 < limit /\ 0 \in 0 .. last
  OBVIOUS
<1> QED
  BY <1>1 DEF OperandFits

\* A raw statement: its operands are words.
IsRaw(s) ==
    /\ {"op", "a", "b", "c"} \subseteq DOMAIN s
    /\ s.a \in Nat /\ s.b \in Nat /\ s.c \in Nat

\* canonical_statement: whatever the file says, the operands are in range.
LEMMA CanonicalStatementFits ==
    ASSUME NEW s, IsRaw(s), NEW index, NEW count \in Nat, NEW wide, NEW limit \in Nat \ {0}
    PROVE  StatementFits(CanonicalStatement(s, index, count, wide, limit), count, limit)
<1> DEFINE op == FromNumber(WithoutBreakpoint(s.op))
           kind == Operands(op)
           good == CanonicalFields(s, op, kind, index, count, wide)
           bad == [op |-> OpBad, breakpoint |-> HasBreakpoint(s.op), a |-> 0, b |-> 0, c |-> 0]
           st == CanonicalStatement(s, index, count, wide, limit)
           ok == /\ op # OpBad
                 /\ OperandOk(kind[1], s.a, limit)
                 /\ OperandOk(kind[2], s.b, limit)
                 /\ OperandOk(kind[3], s.c, limit)
<1>1. st = IF ok THEN good ELSE bad
  BY DEF CanonicalStatement, CanonicalOp, CanonicalAs
<1>2. CASE ok
  <2>1. st = good
    BY <1>1, <1>2
  <2>2. /\ DOMAIN good = {"op", "breakpoint", "a", "b", "c"} /\ good.op = op
        /\ good.a = CanonicalOperand(kind[1], s.a, index, count, wide)
        /\ good.b = CanonicalOperand(kind[2], s.b, index, count, wide)
        /\ good.c = CanonicalOperand(kind[3], s.c, index, count, wide)
    BY DEF CanonicalFields
  <2>3. s.a \in Nat /\ s.b \in Nat /\ s.c \in Nat /\ limit \in Nat
    BY DEF IsRaw
  <2>4. OperandOk(kind[1], s.a, limit) /\ OperandOk(kind[2], s.b, limit) /\ OperandOk(kind[3], s.c, limit)
    BY <1>2
  <2> HIDE DEF good, st, ok, kind, op
  <2>5. /\ OperandFits(kind[1], good.a, count, limit)
        /\ OperandFits(kind[2], good.b, count, limit)
        /\ OperandFits(kind[3], good.c, count, limit)
    BY <2>2, <2>3, <2>4, CanonicalOperandFits
  <2>6. kind = Operands(good.op)
    BY <2>2 DEF kind
  <2>7. StatementFits(good, count, limit)
    BY <2>2, <2>5, <2>6 DEF StatementFits
  <2> QED
    BY <2>1, <2>7 DEF st
<1>3. CASE ~ok
  <2>1. st = bad
    BY <1>1, <1>3
  <2>2. StatementFits(bad, count, limit)
    BY ZeroOperandFits DEF StatementFits
  <2> QED
    BY <2>1, <2>2
<1> QED
  BY <1>2, <1>3

-----------------------------------------------------------------------------
(* From a file to the program.                                             *)

IsRawCode(raw, n) == n \in Nat /\ DOMAIN raw = 1 .. n /\ Len(raw) = n /\ \A i \in 1 .. n : IsRaw(raw[i])

\* A function on 1 .. n is a sequence of that length.
LEMMA SequenceFrom ==
    ASSUME NEW s, NEW n \in Nat, s = [i \in 1 .. n |-> s[i]]
    PROVE  s \in Seq({s[i] : i \in 1 .. n}) /\ Len(s) = n
OBVIOUS

\* read_header gives a format or an error.
LEMMA HeaderOrError ==
    ASSUME NEW file, "error" \notin DOMAIN Header(file)
    PROVE  "format" \in DOMAIN Header(file)
BY DEF Header

DecodedCode(file, format) == Mapped(LAMBDA row, i : DecodeStatement(format, row), file.statements.rows)

\* Reading the statements of a file yields words.
LEMMA DecodedIsRaw ==
    ASSUME NEW file, IsFile(file), "format" \in DOMAIN Header(file)
    PROVE  IsRawCode(DecodedCode(file, Header(file).format), Len(file.statements.rows))
<1> DEFINE rows == file.statements.rows
           format == Header(file).format
           n == Len(rows)
           raw == DecodedCode(file, format)
<1>1. rows \in Seq(Seq(Nat))
  BY DEF IsFile
<1>2. n \in Nat /\ DOMAIN rows = 1 .. n
  BY <1>1
<1>3. \A i \in 1 .. n : rows[i] \in Seq(Nat) /\ Len(rows[i]) >= (IF format = "QTest" THEN 5 ELSE 4)
  <2>1. ASSUME NEW i \in 1 .. n PROVE rows[i] \in Seq(Nat)
    BY <1>1, <1>2
  <2>2. \A i \in DOMAIN rows : Len(rows[i]) >= (IF format = "QTest" THEN 5 ELSE 4)
    BY DEF IsFile
  <2> QED
    BY <1>2, <2>1, <2>2
<1>4. raw = [i \in 1 .. n |-> DecodeStatement(format, rows[i])]
  BY <1>2 DEF DecodedCode, Mapped
<1> HIDE DEF rows, format, n, raw
<1>5. ASSUME NEW i \in 1 .. n PROVE IsRaw(DecodeStatement(format, rows[i]))
  <2>1. rows[i] \in Seq(Nat) /\ Len(rows[i]) \in Nat /\ Len(rows[i]) >= (IF format = "QTest" THEN 5 ELSE 4)
    BY <1>3
  <2>2. CASE format = "QTest"
    <3>1. rows[i][3] \in Nat /\ rows[i][4] \in Nat /\ rows[i][5] \in Nat
      BY <2>1, <2>2
    <3> QED
      BY <2>2, <3>1 DEF DecodeStatement, IsRaw
  <2>3. CASE format # "QTest"
    <3>1. rows[i][2] \in Nat /\ rows[i][3] \in Nat /\ rows[i][4] \in Nat
      BY <2>1, <2>3
    <3> QED
      BY <2>3, <3>1 DEF DecodeStatement, IsRaw
  <2> QED
    BY <2>2, <2>3
<1>6. Len(raw) = n
  BY <1>2, <1>4
<1> QED
  BY <1>2, <1>4, <1>5, <1>6 DEF IsRawCode, rows, format, n, raw

\* The rewriting of Hexen 2 calls leaves words.
LEMMA RewrittenIsRaw ==
    ASSUME NEW raw, NEW n, IsRawCode(raw, n)
    PROVE  IsRawCode(RewriteHexen2Calls(raw), n)
<1> DEFINE new == RewriteHexen2Calls(raw)
<1>1. n \in Nat /\ DOMAIN new = 1 .. n /\ new = [i \in 1 .. n |-> new[i]]
  BY DEF IsRawCode, RewriteHexen2Calls
<1>2. ASSUME NEW i \in 1 .. n PROVE IsRaw(new[i])
  <2>1. IsRaw(raw[i])
    BY DEF IsRawCode
  <2>2. new[i].a = raw[i].a /\ new[i].b = raw[i].b /\ new[i].c \in {raw[i].c, 1}
    BY <2>1 DEF RewriteHexen2Calls, IsRawCode, IsRaw
  <2>3. DOMAIN new[i] = DOMAIN raw[i]
    BY <2>1 DEF RewriteHexen2Calls, IsRawCode
  <2> QED
    BY <2>1, <2>2, <2>3 DEF IsRaw
<1> HIDE DEF new
<1>3. Len(new) = n
  BY <1>1, SequenceFrom
<1> QED
  BY <1>1, <1>2, <1>3 DEF IsRawCode, new

\* canonical_statements: every statement fits, and so does the sentinel behind them.
LEMMA CanonicalCodeFits ==
    ASSUME NEW raw, NEW n, IsRawCode(raw, n), NEW format, NEW limit \in Nat \ {0}
    PROVE  StatementsFit(CanonicalStatements(raw, format, limit), n, limit)
<1> DEFINE wide == ~Has16BitStatements(format)
           body == [i \in 1 .. n |-> CanonicalStatement(raw[i], i - 1, n, wide, limit)]
           code == CanonicalStatements(raw, format, limit)
<1>1. n \in Nat /\ DOMAIN raw = 1 .. n /\ Len(raw) = n /\ \A i \in 1 .. n : IsRaw(raw[i])
  BY DEF IsRawCode
<1>2. code = Append(body, Sentinel)
  BY <1>1 DEF CanonicalStatements, Mapped
<1>3. \A i \in 1 .. n : StatementFits(body[i], n, limit)
  BY <1>1, CanonicalStatementFits
<1>4. StatementFits(Sentinel, n, limit)
  BY <1>1, ZeroOperandFits DEF StatementFits, Sentinel
<1>5. body \in Seq({body[i] : i \in 1 .. n}) /\ Len(body) = n
  BY <1>1
<1> HIDE DEF body, code
<1>6. DOMAIN code = 1 .. n + 1 /\ (\A i \in 1 .. n : code[i] = body[i]) /\ code[n + 1] = Sentinel
  BY <1>1, <1>2, <1>5
<1> QED
  BY <1>1, <1>3, <1>4, <1>6 DEF StatementsFit, code

\* What the row of a function becomes.
LEMMA CanonicalFunctionFits ==
    ASSUME NEW index \in Nat, NEW f, IsFunction(f), NEW statements, NEW limit \in Nat
    PROVE  FunctionFits(CanonicalFunction(index, f, statements, limit), limit)
<1> DEFINE is == FunctionKind(index, f, statements, limit)
           fn == CanonicalFunction(index, f, statements, limit)
<1>1. /\ fn.is = is /\ fn.parm_start = f.parm_start /\ fn.locals = f.locals
      /\ is.kind = "QuakeC" => fn.copies = ParamCopies(f)
  BY DEF CanonicalFunction, FunctionOf
<1>2. f.first \in Int /\ f.parm_start \in Nat /\ f.locals \in Nat
  BY DEF IsFunction
<1>3. is.kind \in {"Null", "Invalid", "QuakeC", "NamedBuiltin", "Builtin"}
  BY <1>2 DEF FunctionKind
<1>4. is.kind = "QuakeC" => PlanFits(f, ParamCopies(f), limit)
  BY <1>2 DEF FunctionKind
<1> HIDE DEF is, fn
<1>5. ASSUME is.kind = "QuakeC", NEW k \in DOMAIN ParamCopies(f)
      PROVE  ParamCopies(f)[k].src \in 0 .. limit - 1 /\ ParamCopies(f)[k].dst \in 0 .. limit - 1
  <2>1. ParamCopies(f)[k].src < limit /\ ParamCopies(f)[k].dst < limit
    BY <1>4, <1>5 DEF PlanFits
  <2>2. ParamCopies(f)[k].src \in Nat /\ ParamCopies(f)[k].dst \in Nat
    BY CopiesType
  <2> QED
    BY <2>1, <2>2
<1>6. is.kind = "QuakeC" => f.parm_start + f.locals <= limit
  BY <1>4 DEF PlanFits
<1> QED
  BY <1>1, <1>2, <1>3, <1>5, <1>6 DEF FunctionFits, fn

\* What the loader makes of all sections.
LEMMA CanonicalFits ==
    ASSUME NEW file, IsFile(file), "format" \in DOMAIN Header(file), NEW ext, NEW decoded,
           NEW raw, NEW n, IsRawCode(raw, n), NEW limit, limit = Len(file.globals.rows) + GlobalsTail,
           "error" \notin DOMAIN Canonical(file, Header(file).format, ext, decoded, raw, limit)
    PROVE  ProgramFits(Canonical(file, Header(file).format, ext, decoded, raw, limit))
<1> DEFINE format == Header(file).format
           p == Canonical(file, format, ext, decoded, raw, limit)
           rows == file.functions.rows
<1>1. Len(file.globals.rows) \in Nat /\ file.strings.len \in Nat
  BY DEF IsFile
<1>2. limit \in Nat \ {0}
  BY <1>1 DEF GlobalsTail
<1>3. /\ p.strings = file.strings.len /\ p.globals = file.globals.rows
      /\ p.statements = CanonicalStatements(raw, format, limit)
  BY DEF Canonical, Assembled
<1>4. p.functions = [j \in DOMAIN rows |->
                        CanonicalFunction(j - 1, DecodeFunction(format, rows[j]), Len(raw), limit)]
  BY DEF Canonical, Assembled, Mapped
<1>5. ASSUME NEW j \in DOMAIN rows PROVE j - 1 \in Nat /\ IsFunction(DecodeFunction(format, rows[j]))
  <2>1. j \in Nat \ {0}
    BY DEF IsFile
  <2>2. FunctionRow(format, rows[j])
    BY DEF IsFile
  <2> QED
    BY <2>1, <2>2 DEF FunctionRow, IsFunction
<1> HIDE DEF p, rows, format
<1>6. \A j \in DOMAIN p.functions : FunctionFits(p.functions[j], limit)
  BY <1>2, <1>4, <1>5, CanonicalFunctionFits
<1>7. StatementsFit(p.statements, n, limit) /\ n \in Nat
  BY <1>2, <1>3, CanonicalCodeFits DEF IsRawCode
<1>8. DOMAIN p.functions \subseteq Nat
  BY <1>4 DEF IsFile, rows
<1>9. Limit(p) = limit
  BY <1>3 DEF Limit
<1> QED
  BY <1>1, <1>3, <1>6, <1>7, <1>8, <1>9 DEF ProgramFits, p, format

\* Whatever file the host supplies: if it parses, it stays inside itself.
LEMMA ParsedFits ==
    ASSUME NEW file, IsFile(file), "error" \notin DOMAIN Parse(file)
    PROVE  ProgramFits(Parse(file))
<1> DEFINE header == Header(file)
           format == header.format
           decoded == DecodedCode(file, format)
           raw == IF UsesHexen2Calls(format, decoded) THEN RewriteHexen2Calls(decoded) ELSE decoded
           limit == Len(file.globals.rows) + GlobalsTail
           n == Len(file.statements.rows)
<1>1. Parse(file) = ParseAs(file, header)
  BY DEF Parse
<1>2. "error" \notin DOMAIN header
  BY <1>1 DEF ParseAs
<1>3. "format" \in DOMAIN header
  BY <1>2, HeaderOrError
<1>4. Sections(file, format)
  <2> SUFFICES ASSUME ~Sections(file, format) PROVE FALSE
    OBVIOUS
  <2>1. Parse(file) = [error |-> "SectionOutOfBounds"]
    BY <1>1, <1>2 DEF ParseAs
  <2>2. "error" \in DOMAIN Parse(file)
    BY <2>1
  <2> QED
    BY <2>2
<1>5. Parse(file) = WithCalls(file, format, header.ext, decoded)
  BY <1>1, <1>2, <1>4 DEF ParseAs, DecodedCode
<1>6. Parse(file) = Canonical(file, format, header.ext, decoded, raw, limit)
  BY <1>5 DEF WithCalls
<1>7. IsRawCode(decoded, n)
  BY <1>3, DecodedIsRaw
<1>8. IsRawCode(RewriteHexen2Calls(decoded), n)
  BY <1>7, RewrittenIsRaw
<1>9. IsRawCode(raw, n)
  BY <1>7, <1>8
<1> HIDE DEF raw, limit, n, decoded
<1>10. limit = Len(file.globals.rows) + GlobalsTail
  BY DEF limit
<1> QED
  BY <1>3, <1>6, <1>9, <1>10, CanonicalFits

-----------------------------------------------------------------------------
(* A program at a place: what it names lies inside its block.              *)

PlacedWell(p) ==
    /\ ProgramFits(p.program) /\ p.callees = Bind(p.program)
    /\ p.sbase \in Nat /\ p.gbase \in Nat /\ p.end \in Nat
    /\ 4 * (p.gbase \div 4) = p.gbase
    /\ p.gbase + 4 * Len(p.program.globals) + GlobalsTailBytes <= p.end

\* The operands of a relocated statement.
LEMMA RelocatedOperandInside ==
    ASSUME NEW p, PlacedWell(p), NEW kind, NEW v, NEW last \in Nat,
           OperandFits(kind, v, last, Limit(p.program))
    PROVE  LET new == RelocateOperand(kind, v, p.gbase) IN
           /\ IsRelocated(kind) => InBlock(p, p.gbase, 3, new)
           /\ kind = "GlobalIndex" => new < Len(p.program.globals) + GlobalsTail
           /\ kind = "Jump" => new \in 0 .. last
<1> DEFINE globals == Len(p.program.globals)
           new == RelocateOperand(kind, v, p.gbase)
<1>1. globals \in Nat /\ p.gbase \in Nat /\ p.end \in Nat /\ p.gbase + 4 * globals + 20 <= p.end
  BY DEF PlacedWell, ProgramFits, GlobalsTailBytes
<1>2. Limit(p.program) = globals + 3
  BY DEF Limit, GlobalsTail
<1> HIDE DEF globals
<1>3. ASSUME IsRelocated(kind) PROVE InBlock(p, p.gbase, 3, new)
  <2>1. PICK word \in 0 .. globals + 2 : v = 4 * word
    BY <1>1, <1>2, <1>3 DEF OperandFits
  <2>2. new = 4 * word + p.gbase
    BY <1>3, <2>1 DEF RelocateOperand
  <2>3. p.gbase <= new /\ new + 12 <= p.end
    BY <1>1, <2>1, <2>2
  <2> HIDE DEF new
  <2> QED
    BY <2>3 DEF InBlock
<1>4. kind = "GlobalIndex" => new < Len(p.program.globals) + GlobalsTail
  BY <1>2 DEF RelocateOperand, IsRelocated, OperandFits, GlobalsTail, globals
<1>5. kind = "Jump" => new \in 0 .. last
  BY DEF RelocateOperand, IsRelocated, OperandFits
<1> QED
  BY <1>3, <1>4, <1>5

\* Relocated statements stay between the globals of their progs and its end.
LEMMA RelocatedCodeInside ==
    ASSUME NEW p, PlacedWell(p)
    PROVE  CodeStaysInside(p, Relocate(p.program, p.gbase))
<1> DEFINE old == p.program.statements
           code == Relocate(p.program, p.gbase)
           limit == Limit(p.program)
<1>1. PICK last \in Nat : StatementsFit(old, last, limit)
  BY DEF PlacedWell, ProgramFits
<1>2. DOMAIN old = 1 .. last + 1 /\ \A i \in 1 .. last + 1 : StatementFits(old[i], last, limit)
  BY <1>1 DEF StatementsFit
<1>3. code = [i \in 1 .. last + 1 |-> RelocateAs(old[i], Operands(old[i].op), p.gbase)]
  BY <1>2 DEF Relocate
<1> HIDE DEF old, limit, code
<1>4. PICK n \in Nat : n = last + 1
  OBVIOUS
<1>5. Len(code) = n
  <2>1. code = [i \in 1 .. n |-> code[i]]
    BY <1>3, <1>4
  <2> QED
    BY <2>1, SequenceFrom
<1>6. ASSUME NEW i \in 1 .. n PROVE StatementStaysInside(p, code[i], Operands(code[i].op), code)
  <2> DEFINE st == old[i]
             kind == Operands(st.op)
             moved(k, v) == RelocateOperand(kind[k], v, p.gbase)
  <2>1. StatementFits(st, last, limit)
    BY <1>2, <1>4
  <2>2. /\ code[i].op = st.op /\ code[i].a = moved(1, st.a)
        /\ code[i].b = moved(2, st.b) /\ code[i].c = moved(3, st.c)
    <3>1. code[i] = [st EXCEPT !.a = moved(1, @), !.b = moved(2, @), !.c = moved(3, @)]
      BY <1>3, <1>4 DEF RelocateAs
    <3>2. DOMAIN st = {"op", "breakpoint", "a", "b", "c"}
      BY <2>1 DEF StatementFits
    <3> HIDE DEF st, moved
    <3> QED
      BY <3>1, <3>2
  <2>3. /\ OperandFits(kind[1], st.a, last, limit) /\ OperandFits(kind[2], st.b, last, limit)
        /\ OperandFits(kind[3], st.c, last, limit)
    BY <2>1 DEF StatementFits
  <2> DEFINE Inside(k, new) ==
                /\ IsRelocated(kind[k]) => InBlock(p, p.gbase, 3, new)
                /\ kind[k] = "GlobalIndex" => new < Len(p.program.globals) + GlobalsTail
                /\ kind[k] = "Jump" => new \in 0 .. last
  <2>4. Inside(1, moved(1, st.a))
    BY <2>3, RelocatedOperandInside DEF limit
  <2>5. Inside(2, moved(2, st.b))
    BY <2>3, RelocatedOperandInside DEF limit
  <2>6. Inside(3, moved(3, st.c))
    BY <2>3, RelocatedOperandInside DEF limit
  <2>7. Inside(1, code[i].a) /\ Inside(2, code[i].b) /\ Inside(3, code[i].c)
    BY <2>2, <2>4, <2>5, <2>6
  <2>8. last = Len(code) - 1 /\ kind = Operands(code[i].op)
    BY <1>4, <1>5, <2>2
  <2> HIDE DEF st, kind
  <2>9. StatementStaysInside(p, code[i], kind, code)
    <3> DEFINE operand == <<code[i].a, code[i].b, code[i].c>>
    <3>1. \A k \in 1 .. 3 : Inside(k, operand[k])
      BY <2>7
    <3> HIDE DEF operand
    <3>2. \A k \in 1 .. 3 :
             /\ IsRelocated(kind[k]) => InBlock(p, p.gbase, 3, operand[k])
             /\ kind[k] = "GlobalIndex" => operand[k] < Len(p.program.globals) + GlobalsTail
             /\ kind[k] = "Jump" => operand[k] \in 0 .. Len(code) - 1
      BY <2>8, <3>1
    <3> QED
      BY <3>2 DEF StatementStaysInside, operand
  <2> QED
    BY <2>8, <2>9
<1>7. \A st \in ToSet(code) : \E i \in 1 .. n : st = code[i]
  BY <1>3, <1>4 DEF ToSet
<1> QED
  BY <1>6, <1>7 DEF CodeStaysInside, code

\* The locals and parameter copies of a function that can be called stay inside.
LEMMA CallInside ==
    ASSUME NEW p, PlacedWell(p), NEW j \in DOMAIN p.callees, p.callees[j] = "Qc"
    PROVE  CallStaysInside(p, FuncInfo(p.program, p.gbase, j - 1))
<1> DEFINE f == p.program.functions[j]
           globals == Len(p.program.globals)
           base == p.gbase \div 4
           info == FuncInfo(p.program, p.gbase, j - 1)
<1>1. j \in DOMAIN p.program.functions /\ f.is.kind = "QuakeC" /\ FunctionFits(f, globals + 3)
  <2>1. j \in DOMAIN p.program.functions
    BY DEF PlacedWell, Bind, Mapped
  <2>2. FunctionFits(f, globals + 3)
    BY <2>1 DEF PlacedWell, ProgramFits, Limit, GlobalsTail
  <2>3. p.callees[j] =
           CASE f.is.kind = "QuakeC" -> "Qc"
             [] f.is.kind = "Builtin" -> IF f.is.number \in BuiltinNumbers THEN "Builtin" ELSE "Missing"
             [] f.is.kind = "NamedBuiltin" -> IF f.name \in BuiltinNames THEN "Builtin" ELSE "Missing"
             [] OTHER -> f.is.kind
    BY <2>1 DEF PlacedWell, Bind, Mapped
  <2> HIDE DEF f
  <2> QED
    BY <2>1, <2>2, <2>3 DEF FunctionFits
<1>2. /\ info.locals_at = base + f.parm_start /\ info.locals = f.locals
      /\ info.copies = [k \in DOMAIN f.copies |-> [src |-> base + f.copies[k].src,
                                                   dst |-> base + f.copies[k].dst]]
  <2>1. PICK i : i = j - 1
    OBVIOUS
  <2>2. j = i + 1
    BY <1>1, <2>1 DEF PlacedWell, ProgramFits
  <2> QED
    BY <2>1, <2>2 DEF FuncInfo
<1>3. /\ p.gbase \in Nat /\ p.end \in Nat /\ globals \in Nat /\ 4 * base = p.gbase
      /\ p.gbase + 4 * globals + 20 <= p.end
  BY DEF PlacedWell, ProgramFits, GlobalsTailBytes
<1>4. base \in Nat
  BY <1>3
<1>5. /\ f.parm_start \in Nat /\ f.locals \in Nat /\ f.parm_start + f.locals <= globals + 3
      /\ \A k \in DOMAIN f.copies : f.copies[k].src \in 0 .. globals + 2 /\ f.copies[k].dst \in 0 .. globals + 2
  BY <1>1, <1>3 DEF FunctionFits
<1> HIDE DEF f, globals, base, info
<1>6. InBlock(p, p.gbase, info.locals, 4 * info.locals_at)
  BY <1>2, <1>3, <1>4, <1>5 DEF InBlock
<1>7. ASSUME NEW c \in ToSet(info.copies)
      PROVE  InBlock(p, p.gbase, 1, 4 * c.src) /\ InBlock(p, p.gbase, 1, 4 * c.dst)
  <2>1. PICK k \in DOMAIN f.copies : c = [src |-> base + f.copies[k].src, dst |-> base + f.copies[k].dst]
    BY <1>2, <1>7 DEF ToSet
  <2>2. PICK src \in 0 .. globals + 2, dst \in 0 .. globals + 2 : c.src = base + src /\ c.dst = base + dst
    BY <1>5, <2>1
  <2> QED
    BY <1>3, <1>4, <2>2 DEF InBlock
<1> QED
  BY <1>6, <1>7 DEF CallStaysInside, info

\* add_progs places a program behind what is there, with room for its tail.
LEMMA LaterPlacement ==
    ASSUME NEW program, ProgramFits(program), NEW len \in Nat
    PROVE  LET place == Placement(program, len) IN
           /\ PlacedWell(NewProgs(program, place))
           /\ NewProgs(program, place).end = place.end
           /\ len <= NewProgs(program, place).sbase
<1> DEFINE place == Placement(program, len)
           p == NewProgs(program, place)
<1>1. program.strings \in Nat /\ Len(program.globals) \in Nat
  BY DEF ProgramFits
<1>2. PICK sbase : sbase = AlignUp(len, 16)
  OBVIOUS
<1>3. sbase \in Nat /\ len <= sbase
  BY <1>2, AlignedUp
<1>4. PICK before \in Nat : before = sbase + program.strings + 1
  BY <1>1, <1>3
<1>5. PICK gbase : gbase = AlignUp(before, 4)
  OBVIOUS
<1>6. gbase \in Nat /\ 4 * (gbase \div 4) = gbase
  BY <1>5, AlignedUp
<1>7. /\ place.sbase = sbase /\ place.gbase = gbase
      /\ place.end = gbase + 4 * Len(program.globals) + GlobalsTailBytes
  BY <1>2, <1>4, <1>5 DEF Placement
<1> HIDE DEF place
<1>8. /\ p.program = program /\ p.callees = Bind(program)
      /\ p.sbase = sbase /\ p.gbase = gbase /\ p.end = place.end
  BY <1>7 DEF NewProgs
<1>9. place.end \in Nat
  BY <1>1, <1>6, <1>7 DEF GlobalsTailBytes
<1> HIDE DEF p
<1> QED
  BY <1>1, <1>3, <1>6, <1>7, <1>8, <1>9 DEF PlacedWell, p, place, GlobalsTailBytes

\* build_core places the main program with the local stack behind it.
LEMMA MainPlaced ==
    ASSUME NEW program, ProgramFits(program)
    PROVE  LET p == NewProgs(program, MainPlacement(program)) IN
           PlacedWell(p) /\ p.end = MainPlacement(program).end
<1> DEFINE place == MainPlacement(program)
           p == NewProgs(program, place)
<1>1. program.strings \in Nat /\ Len(program.globals) \in Nat
  BY DEF ProgramFits
<1>2. PICK before \in Nat : before = program.strings + 1
  BY <1>1
<1>3. PICK gbase : gbase = AlignUp(before, 4)
  OBVIOUS
<1>4. gbase \in Nat /\ 4 * (gbase \div 4) = gbase
  BY <1>3, AlignedUp
<1>5. /\ place.sbase = 0 /\ place.gbase = gbase
      /\ place.end = gbase + 4 * (Len(program.globals) + 3) + 4 * LsWords + 4
  BY <1>2, <1>3 DEF MainPlacement, GlobalsTail
<1>6. LsWords \in Nat \ {0}
  BY MultiProgsAssumption
<1>7. place.end \in Nat /\ gbase + 4 * Len(program.globals) + 20 <= place.end
  <2>1. PICK globals \in Nat : globals = Len(program.globals)
    BY <1>1
  <2>2. PICK words \in Nat : words = LsWords /\ words >= 1
    BY <1>6
  <2>3. place.end = gbase + 4 * (globals + 3) + 4 * words + 4
    BY <1>5, <2>1, <2>2
  <2>4. PICK end \in Nat : end = gbase + 4 * (globals + 3) + 4 * words + 4
    BY <1>4
  <2>5. gbase + 4 * globals + 20 <= end
    BY <1>4, <2>2, <2>4
  <2> QED
    BY <2>1, <2>3, <2>4, <2>5
<1> HIDE DEF place
<1>8. /\ p.program = program /\ p.callees = Bind(program)
      /\ p.sbase = 0 /\ p.gbase = gbase /\ p.end = place.end
  BY <1>5 DEF NewProgs
<1> HIDE DEF p
<1> QED
  BY <1>1, <1>4, <1>7, <1>8 DEF PlacedWell, p, place, GlobalsTailBytes

-----------------------------------------------------------------------------
(* The invariant: the progs lie one behind the other, each with room for   *)
(* all its code names.                                                     *)

ProgsWell(ps, len) ==
    /\ ps \in Seq(ToSet(ps)) /\ Len(ps) >= 1
    /\ \A i \in 1 .. Len(ps) : PlacedWell(ps[i])
    /\ \A i \in 1 .. Len(ps) - 1 : ps[i].end <= ps[i + 1].sbase
    /\ len = ps[Len(ps)].end /\ len <= EBase

ProgsInv == ProgsWell(progs, sLen)

\* What the invariant is for.
LEMMA WellIsInside == ASSUME ProgsInv PROVE LoadedCodeStaysInside
<1>1. /\ Len(progs) \in Nat /\ DOMAIN progs = 1 .. Len(progs)
      /\ \A i \in 1 .. Len(progs) : PlacedWell(progs[i])
      /\ \A i \in 1 .. Len(progs) - 1 : progs[i].end <= progs[i + 1].sbase
      /\ progs[Len(progs)].end <= EBase
  BY DEF ProgsInv, ProgsWell
<1>2. ASSUME NEW i \in DOMAIN progs
      PROVE  /\ progs[i].end <= (IF i < Len(progs) THEN progs[i + 1].sbase ELSE EBase)
             /\ CodeStaysInside(progs[i], Relocate(progs[i].program, progs[i].gbase))
             /\ \A j \in DOMAIN progs[i].callees :
                   progs[i].callees[j] = "Qc" =>
                      CallStaysInside(progs[i], FuncInfo(progs[i].program, progs[i].gbase, j - 1))
  <2>1. PlacedWell(progs[i])
    BY <1>1
  <2>2. CodeStaysInside(progs[i], Relocate(progs[i].program, progs[i].gbase))
    BY <2>1, RelocatedCodeInside
  <2>3. \A j \in DOMAIN progs[i].callees :
           progs[i].callees[j] = "Qc" =>
              CallStaysInside(progs[i], FuncInfo(progs[i].program, progs[i].gbase, j - 1))
    BY <2>1, CallInside
  <2>4. progs[i].end <= (IF i < Len(progs) THEN progs[i + 1].sbase ELSE EBase)
    <3>1. CASE i < Len(progs)
      BY <1>1, <3>1
    <3>2. CASE ~(i < Len(progs))
      <4>1. i = Len(progs)
        BY <1>1, <3>2
      <4> QED
        BY <1>1, <4>1
    <3> QED
      BY <3>1, <3>2
  <2> QED
    BY <2>2, <2>3, <2>4
<1> QED
  BY <1>2 DEF LoadedCodeStaysInside

\* A VM with the main program only.
LEMMA OneProgsWell ==
    ASSUME NEW p, PlacedWell(p), p.end <= EBase
    PROVE  ProgsWell(<<p>>, p.end)
<1>1. Len(<<p>>) = 1 /\ <<p>>[1] = p /\ <<p>> \in Seq(ToSet(<<p>>))
  BY DEF ToSet
<1> QED
  BY <1>1 DEF ProgsWell

\* One more progs behind the others.
LEMMA MoreProgsWell ==
    ASSUME NEW ps, NEW len, ProgsWell(ps, len), NEW p, PlacedWell(p), len <= p.sbase, p.end <= EBase
    PROVE  ProgsWell(Append(ps, p), p.end)
<1> DEFINE new == Append(ps, p)
           n == Len(ps)
<1>1. /\ ps \in Seq(ToSet(ps)) /\ n \in Nat \ {0} /\ DOMAIN ps = 1 .. n
      /\ \A i \in 1 .. n : PlacedWell(ps[i])
      /\ \A i \in 1 .. n - 1 : ps[i].end <= ps[i + 1].sbase
      /\ len = ps[n].end
  BY DEF ProgsWell
<1>2. ps \in Seq(ToSet(ps) \union {p})
  BY <1>1
<1>3. new \in Seq(ToSet(ps) \union {p}) /\ Len(new) = n + 1
  BY <1>2
<1>4. DOMAIN new = 1 .. n + 1 /\ new[n + 1] = p /\ \A i \in 1 .. n : new[i] = ps[i]
  BY <1>2
<1> HIDE DEF new, n
<1>5. new \in Seq(ToSet(new))
  <2>1. \A i \in 1 .. n + 1 : new[i] \in ToSet(new)
    BY <1>4 DEF ToSet
  <2>2. new = [i \in 1 .. n + 1 |-> new[i]]
    BY <1>1, <1>3, <1>4
  <2> QED
    BY <1>1, <2>1, <2>2
<1>6. \A i \in 1 .. n + 1 : PlacedWell(new[i])
  <2> TAKE i \in 1 .. n + 1
  <2>1. i \in 1 .. n \/ i = n + 1
    BY <1>1
  <2> QED
    BY <1>1, <1>4, <2>1
<1>7. \A i \in 1 .. n : new[i].end <= new[i + 1].sbase
  <2> TAKE i \in 1 .. n
  <2>1. CASE i \in 1 .. n - 1
    <3>1. PICK k \in 1 .. n : k = i + 1
      BY <1>1, <2>1
    <3>2. ps[i].end <= ps[k].sbase
      BY <1>1, <2>1, <3>1
    <3> QED
      BY <1>4, <3>1, <3>2
  <2>2. CASE i = n
    BY <1>1, <1>4, <2>2
  <2> QED
    BY <1>1, <2>1, <2>2
<1>8. n + 1 >= 1 /\ (n + 1) - 1 = n
  BY <1>1
<1>9. ProgsWell(new, p.end)
  BY <1>3, <1>4, <1>5, <1>6, <1>7, <1>8 DEF ProgsWell
<1> QED
  BY <1>9 DEF new

-----------------------------------------------------------------------------
(* Calls, returns and failures leave the progs alone.                      *)

Keeps(c, d) == "progs" \in DOMAIN d /\ d.progs = c.progs

\* Core::enter leaves the progs alone.
LEMMA EnterKeeps ==
    ASSUME NEW c, "progs" \in DOMAIN c, NEW f
    PROVE  Keeps(c, Enter(c, f))
BY DEF Keeps, Enter, EnterWith

\* So does Core::leave,
LEMMA LeaveKeeps ==
    ASSUME NEW c, "progs" \in DOMAIN c
    PROVE  Keeps(c, Leave(c))
<1> DEFINE back == BackTo(c, Last(c.frames))
<1>1. Keeps(c, back)
  BY DEF Keeps, BackTo
<1> HIDE DEF back
<1>2. Keeps(c, SwitchedBack(back, c.x.prnum))
  BY <1>1 DEF Keeps, SwitchedBack
<1> QED
  BY <1>2 DEF Leave, back

\* and unwinding,
LEMMA UnwindKeeps ==
    ASSUME NEW c, "progs" \in DOMAIN c, NEW depth
    PROVE  Keeps(c, Unwind(c, depth))
BY DEF Keeps, Unwind

\* and a call by the host, a builtin or add_progs,
LEMMA CallInnerKeeps ==
    ASSUME NEW c, "progs" \in DOMAIN c, NEW f, NEW v, NEW add
    PROVE  Keeps(c, CallInner(c, f, v, add))
<1> DEFINE to == IF CalleeOf(c, f) = "Qc" THEN c.x.prnum ELSE PrOf(f)
           with == WithArgs(c, to, v)
           callee == CalleeOf(c, f)
<1>1. Keeps(c, with)
  BY DEF Keeps, WithArgs
<1> HIDE DEF to, with, callee
<1>2. Keeps(with, Enter(with, f))
  BY <1>1, EnterKeeps DEF Keeps
<1>3. Keeps(with, CallArrived(with, f, callee, add))
  <2>1. CASE callee = "Qc" /\ CanEnter(with, f)
    BY <1>1, <1>2, <2>1 DEF Keeps, CallArrived
  <2>2. CASE callee = "Qc" /\ ~CanEnter(with, f)
    BY <1>1, <2>2 DEF Keeps, CallArrived
  <2>3. CASE callee = "Builtin"
    BY <1>1, <2>3 DEF Keeps, CallArrived
  <2>4. CASE callee \notin {"Qc", "Builtin"}
    BY <1>1, <2>4 DEF Keeps, CallArrived
  <2> QED
    BY <2>1, <2>2, <2>3, <2>4
<1>4. Keeps(c, CallArrived(with, f, callee, add))
  BY <1>1, <1>3 DEF Keeps
<1> QED
  BY <1>4 DEF CallInner, Keeps, with, to, callee

\* and a failure that unwinds to the last call of the engine,
LEMMA FailsKeep ==
    ASSUME NEW c, "progs" \in DOMAIN c, c.progs = progs, FailsTo(c)
    PROVE  progs' = progs
<1>1. PICK depth : depth = Last(running).depth
  OBVIOUS
<1>2. Keeps(c, Unwind(c, depth))
  BY UnwindKeeps
<1>3. progs' = [Unwind(c, depth) EXCEPT !.running = Front(@)].progs
  BY <1>1 DEF FailsTo, Becomes
<1> QED
  BY <1>2, <1>3 DEF Keeps

\* and a call by QuakeC, whether it arrives or fails.
LEMMA CallsKeep ==
    ASSUME NEW c, "progs" \in DOMAIN c, c.progs = progs, NEW f, Calls(c, f)
    PROVE  progs' = progs
<1>1. CASE CalleeOf(c, f) = "Qc" /\ CanEnter(c, f) /\ Becomes(Enter(c, f))
  BY <1>1, EnterKeeps DEF Becomes, Keeps
<1>2. CASE FailsTo([c EXCEPT !.s = NotEntered(c, f)])
  <2>1. PICK d : d = [c EXCEPT !.s = NotEntered(c, f)]
    OBVIOUS
  <2>2. "progs" \in DOMAIN d /\ d.progs = progs
    BY <2>1
  <2> QED
    BY <1>2, <2>1, <2>2, FailsKeep
<1>3. CASE Becomes([c EXCEPT !.running = Append(@, [k |-> "builtin", back |-> None])])
  BY <1>3 DEF Becomes
<1>4. CASE FailsTo(c)
  BY <1>4, FailsKeep
<1> QED
  BY <1>1, <1>2, <1>3, <1>4 DEF Calls

-----------------------------------------------------------------------------
(* The steps.                                                              *)

\* Every program the host can supply fits, by FilesAssumption.
LEMMA ProgramOfFits ==
    ASSUME NEW file \in Files \union {Main}, "error" \notin DOMAIN ProgramOf[file]
    PROVE  ProgramFits(ProgramOf[file])
<1>1. ProgramOf[file] = Parse(FileOf[file])
  BY DEF ProgramOf
<1>2. IsFile(FileOf[file])
  BY FilesAssumption
<1> QED
  BY <1>1, <1>2, ParsedFits

\* The freshly loaded state.
LEMMA MainWell == ProgsWell(MainCore.progs, MainCore.progs[1].end)
<1> DEFINE p == NewProgs(MainProgram, MainPlacement(MainProgram))
<1>1. "error" \notin DOMAIN MainProgram /\ MainPlacement(MainProgram).end <= EBase
  BY FilesAssumption
<1>2. ProgramFits(MainProgram)
  BY <1>1, ProgramOfFits DEF MainProgram
<1>3. PlacedWell(p) /\ p.end <= EBase
  BY <1>1, <1>2, MainPlaced
<1>4. MainCore.progs = <<p>>
  BY DEF MainCore, InitialCore
<1> HIDE DEF p
<1>5. MainCore.progs[1] = p
  BY <1>4
<1> QED
  BY <1>3, <1>4, <1>5, OneProgsWell

LEMMA Starting == ASSUME Init PROVE ProgsInv
<1>1. progs = MainCore.progs /\ sLen = MainCore.progs[1].end
  BY DEF Init, Starts
<1> QED
  BY <1>1, MainWell DEF ProgsInv

\* add_progs keeps the invariant, whether it loads, refuses or calls init.
LEMMA AddingPreserves ==
    ASSUME ProgsInv, NEW file \in Files, AddProgs(file)
    PROVE  ProgsInv'
<1> DEFINE mapped == MapFields(fields, ProgramOf[file])
<1>1. PICK program : program = ProgramOf[file]
  OBVIOUS
<1>2. "error" \notin DOMAIN program /\ AddAt(program, Placement(program, sLen), MapFields(fields, program))
  BY <1>1 DEF AddProgs, AddProgram
<1>3. PICK place : place = Placement(program, sLen)
  OBVIOUS
<1>4. PICK map : map = MapFields(fields, program)
  OBVIOUS
<1>5. PICK init : init = FunctionIndex(program, "init")
  OBVIOUS
<1>6. /\ place.end <= EBase
      /\ \/ map.ok /\ LoadedInto(Loaded(Core, program, place, map), place, init)
         \/ ~map.ok /\ UNCHANGED <<progs, shared, regionS, exec, frames, running, sLen, latest>>
  BY <1>2, <1>3, <1>4, <1>5 DEF AddAt
<1>7. CASE UNCHANGED <<progs, sLen>>
  BY <1>7 DEF ProgsInv
<1>8. CASE LoadedInto(Loaded(Core, program, place, map), place, init)
  <2> DEFINE p == NewProgs(program, place)
  <2>1. PICK c : c = Loaded(Core, program, place, map)
    OBVIOUS
  <2>2. "progs" \in DOMAIN c /\ c.progs = Append(progs, p)
    BY <2>1 DEF Loaded, WithProgs, Core
  <2>3. ProgramFits(program)
    BY <1>1, <1>2, ProgramOfFits
  <2>4. sLen \in Nat
    <3>1. PlacedWell(progs[Len(progs)]) /\ sLen = progs[Len(progs)].end
      BY DEF ProgsInv, ProgsWell
    <3> QED
      BY <3>1 DEF PlacedWell
  <2>5. PlacedWell(p) /\ p.end = place.end /\ sLen <= p.sbase
    BY <1>3, <2>3, <2>4, LaterPlacement
  <2> HIDE DEF p
  <2>6. ProgsWell(Append(progs, p), p.end)
    BY <1>6, <2>5, MoreProgsWell DEF ProgsInv
  <2>7. sLen' = place.end
    BY <1>8 DEF LoadedInto
  <2>8. progs' = c.progs
    <3>1. PICK f, v, add : f = FuncRef(Len(progs), init) /\ v = Len(progs) - 1 /\ add = Len(progs)
      OBVIOUS
    <3>2. Becomes(IF init = None THEN c ELSE CallInner(c, f, v, add))
      BY <1>8, <2>1, <3>1 DEF LoadedInto
    <3>3. CASE init = None
      BY <3>2, <3>3 DEF Becomes
    <3>4. CASE init # None
      <4>1. Keeps(c, CallInner(c, f, v, add))
        BY <2>2, CallInnerKeeps
      <4>2. Becomes(CallInner(c, f, v, add))
        BY <3>2, <3>4
      <4> QED
        BY <4>1, <4>2 DEF Becomes, Keeps
    <3> QED
      BY <3>3, <3>4
  <2> QED
    BY <2>2, <2>5, <2>6, <2>7, <2>8 DEF ProgsInv
<1> QED
  BY <1>6, <1>7, <1>8

LEMMA ReturningKeeps ==
    ASSUME NEW v, QcReturn(v)
    PROVE  progs' = progs
<1>1. PICK c : c = [Core EXCEPT !.s = SetWord(regionS, At(progs, exec.prnum, ReturnWord), v)]
  OBVIOUS
<1>2. "progs" \in DOMAIN c /\ c.progs = progs
  BY <1>1 DEF Core
<1>3. PICK d : d = Leave(c)
  OBVIOUS
<1>4. "progs" \in DOMAIN d /\ d.progs = progs
  BY <1>2, <1>3, LeaveKeeps DEF Keeps
<1>5. Becomes(IF Len(d.frames) = Last(running).depth THEN [d EXCEPT !.running = Front(@)] ELSE d)
  BY <1>1, <1>3 DEF QcReturn, Returns
<1> QED
  BY <1>4, <1>5 DEF Becomes

LEMMA BuiltinFailureKeeps ==
    ASSUME BuiltinFails
    PROVE  progs' = progs
<1>1. PICK c : c = [Core EXCEPT !.running = Front(running)]
  OBVIOUS
<1>2. "progs" \in DOMAIN c /\ c.progs = progs
  BY <1>1 DEF Core
<1>3. PICK depth : depth = Last(Front(running)).depth
  OBVIOUS
<1>4. \/ Becomes([Unwind(c, depth) EXCEPT !.running = Front(@)])
      \/ Becomes([c EXCEPT !.x.prnum = Last(running).back])
  BY <1>1, <1>3 DEF BuiltinFails
<1>5. Keeps(c, Unwind(c, depth))
  BY <1>2, UnwindKeeps
<1>6. CASE Becomes([Unwind(c, depth) EXCEPT !.running = Front(@)])
  BY <1>2, <1>5, <1>6 DEF Becomes, Keeps
<1>7. CASE Becomes([c EXCEPT !.x.prnum = Last(running).back])
  BY <1>2, <1>7 DEF Becomes
<1> QED
  BY <1>4, <1>6, <1>7

\* Every step keeps the invariant: only add_progs and reset touch the progs.
LEMMA Stepping ==
    ASSUME ProgsInv, [Next]_vars
    PROVE  ProgsInv'
<1> USE DEF ProgsInv
<1>1. ASSUME NEW d, NEW v, Write(d, v) PROVE ProgsInv'
  BY <1>1 DEF Write
<1>2. ASSUME NEW f, NEW v, QcCall(f, v) PROVE ProgsInv'
  <2>1. PICK c : c = [Core EXCEPT !.s = SetWord(regionS, At(progs, exec.prnum, Parm0), v)]
    OBVIOUS
  <2>2. "progs" \in DOMAIN c /\ c.progs = progs
    BY <2>1 DEF Core
  <2>3. Calls(c, f) /\ sLen' = sLen
    BY <1>2, <2>1 DEF QcCall
  <2>4. progs' = progs
    BY <2>2, <2>3, CallsKeep
  <2> QED
    BY <2>3, <2>4
<1>3. ASSUME NEW v, QcReturn(v) PROVE ProgsInv'
  <2>1. progs' = progs
    BY <1>3, ReturningKeeps
  <2>2. sLen' = sLen
    BY <1>3 DEF QcReturn
  <2> QED
    BY <2>1, <2>2
<1>4. ASSUME NEW kind, QcFails(kind) PROVE ProgsInv'
  <2>1. PICK c : c = Core
    OBVIOUS
  <2>2. "progs" \in DOMAIN c /\ c.progs = progs
    BY <2>1 DEF Core
  <2>3. FailsTo(c) /\ sLen' = sLen
    BY <1>4, <2>1 DEF QcFails
  <2>4. progs' = progs
    BY <2>2, <2>3, FailsKeep
  <2> QED
    BY <2>3, <2>4
<1>5. ASSUME NEW f, NEW v, HostCall(f, v) PROVE ProgsInv'
  <2>1. PICK c : c = Core
    OBVIOUS
  <2>2. "progs" \in DOMAIN c /\ c.progs = progs
    BY <2>1 DEF Core
  <2>3. Becomes(CallInner(c, f, v, None)) /\ sLen' = sLen
    BY <1>5, <2>1 DEF HostCall
  <2>4. Keeps(c, CallInner(c, f, v, None))
    BY <2>2, CallInnerKeeps
  <2>5. progs' = progs
    BY <2>2, <2>3, <2>4 DEF Becomes, Keeps
  <2> QED
    BY <2>3, <2>5
<1>6. ASSUME NEW v, BuiltinReturn(v) PROVE ProgsInv'
  BY <1>6 DEF BuiltinReturn
<1>7. CASE BuiltinFails
  <2>1. progs' = progs
    BY <1>7, BuiltinFailureKeeps
  <2>2. sLen' = sLen
    BY <1>7 DEF BuiltinFails
  <2> QED
    BY <2>1, <2>2
<1>8. ASSUME NEW file \in Files, AddProgs(file) PROVE ProgsInv'
  BY <1>8, AddingPreserves
<1>9. ASSUME NEW name, EnsureField(name) PROVE ProgsInv'
  BY <1>9 DEF EnsureField
<1>10. ASSUME NEW cvar, NEW v, SyncAutocvars(cvar, v) PROVE ProgsInv'
  BY <1>10 DEF SyncAutocvars
<1>11. CASE Reset
  <2>1. progs' = MainCore.progs /\ sLen' = MainCore.progs[1].end
    BY <1>11 DEF Reset, ResetTo, Becomes
  <2> QED
    BY <2>1, MainWell
<1>12. CASE UNCHANGED vars
  BY <1>12 DEF vars
<1> QED
  BY <1>1, <1>2, <1>3, <1>4, <1>5, <1>6, <1>7, <1>8, <1>9, <1>10, <1>11, <1>12 DEF Next

\* The progs of a VM lie one behind the other, each placed with its tail.
THEOREM ProgsStayPlaced == Spec => []ProgsInv
<1>1. Init => ProgsInv
  BY Starting
<1>2. ProgsInv /\ [Next]_vars => ProgsInv'
  BY Stepping
<1> QED
  BY <1>1, <1>2, PTL DEF Spec

\* Whatever files the host supplies, whatever is loaded, called or fails: the
\* operands, jumps, locals and parameter copies of loaded code stay inside the
\* block add_progs gave that progs, and the blocks do not overlap.
THEOREM CodeAlwaysInside == Spec => []LoadedCodeStaysInside
<1>1. ProgsInv => LoadedCodeStaysInside
  BY WellIsInside
<1> QED
  BY <1>1, ProgsStayPlaced, PTL

=============================================================================
