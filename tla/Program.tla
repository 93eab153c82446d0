------------------------------- MODULE Program -------------------------------
(***************************************************************************)
(* Loading a progs file (src/src/progs/): from the records of the file to  *)
(* the canonical program every VM shares.  A file is a record of its       *)
(* header and, for each section, its place and its rows; a row is the      *)
(* sequence of the fields the format stores, in the order it stores them.  *)
(* A name stands for the string-table offset that leads to it and "" for   *)
(* an offset that leads to nothing.                                        *)
(***************************************************************************)
EXTENDS Integers, SequencesExt

CONSTANTS
    Word16,        \* the number of values of a 16-bit operand
    Word32,        \* the number of values of a word
    NumParms,      \* parameters passed through PARM slots: 8
    NameBytesMax,  \* NAME_BYTES_MAX
    NameBytes      \* the length of a name

ASSUME ProgramAssumption ==
    /\ Word16 \in Nat \ {0} /\ Word32 \in Nat /\ Word16 <= Word32
    /\ Word16 % 2 = 0 /\ Word32 % 2 = 0
    /\ NumParms \in Nat /\ NameBytesMax \in Nat

\* The value of a lookup that finds nothing.
None == -1

\* The sequence of what Op(e, i) makes of each element e and its index i from 0.
Mapped(Op(_, _), seq) == [i \in DOMAIN seq |-> Op(seq[i], i - 1)]

GlobalsTail == 3

----------------------------------------------------------------------------
(* Opcodes: how each instruction uses its operands a, b and c.             *)

NumReal == 282
OpBad == 282
OpJumpOutOfRange == 283

Operands(op) ==
    CASE op \in {0, 43} \union (51 .. 59) -> <<"Global", "Unused", "Unused">>
      [] op \in (31 .. 36) \union {60} \union (85 .. 87) \union (113 .. 115) \union {152, 246}
                \union (197 .. 203) -> <<"Global", "Global", "Unused">>
      [] op \in (44 .. 48) \union {93, 96, 138, 213, 216} \union (122 .. 125)
                \union (205 .. 210) \union (252 .. 260) \union (276 .. 281)
           -> <<"Global", "Unused", "Global">>
      [] op \in {49, 50, 136, 137, 215, 217, 218} \union (98 .. 103)
           -> <<"Global", "Jump", "Unused">>
      [] op = 61 -> <<"Jump", "Unused", "Unused">>
      [] op \in (80 .. 84) \union {143, 250} \union (145 .. 151)
           -> <<"GlobalIndex", "Global", "Global">>
      [] op \in {92, 95} -> <<"Unused", "Unused", "Global">>
      [] op = 104 -> <<"Global", "Global", "Jump">>
      [] op = 211 -> <<"Global", "Immediate", "Immediate">>
      [] op \in {212, 214, OpBad, OpJumpOutOfRange} -> <<"Unused", "Unused", "Unused">>
      [] OTHER -> <<"Global", "Global", "Global">>

IsRelocated(kind) == kind \in {"Global", "Unused"}
FromNumber(n) == IF n < NumReal THEN n ELSE OpBad

----------------------------------------------------------------------------
(* The formats: their record sizes and the order of their fields.          *)

Has16BitStatements(format) == format \in {"QTest", "V6", "Fte16"}

Layout(format) ==
    CASE format = "QTest" -> [statement |-> 12, def |-> 12, function |-> 64]
      [] format \in {"V6", "Fte16"} -> [statement |-> 8, def |-> 8, function |-> 36]
      [] format \in {"Fte32", "UHexen2"} -> [statement |-> 16, def |-> 12, function |-> 36]
      [] format = "Kk7" -> [statement |-> 16, def |-> 8, function |-> 36]

\* read_header: the format, and whether the extension fields count.
Header(file) ==
    CASE file.bytes < 60 -> [error |-> "Truncated"]
      [] file.bytes >= 60 /\ file.version = 3 -> [format |-> "QTest", ext |-> FALSE]
      [] file.bytes >= 60 /\ file.version = 6 -> [format |-> "V6", ext |-> FALSE]
      [] file.version = 7 /\ file.bytes \in 60 .. 91 -> [error |-> "Truncated"]
      [] file.version = 7 /\ file.bytes >= 92 ->
           LET format == IF file.secondary \in {"Fte16", "Fte32", "UHexen2"}
                         THEN file.secondary ELSE "Kk7"
               ext == format \in {"Fte16", "Fte32"}
           IN IF ext /\ file.compressed THEN [error |-> "Compressed"]
              ELSE [format |-> format, ext |-> ext]
      [] OTHER -> [error |-> "UnsupportedVersion"]

\* Whether `count' records of `size' bytes at `ofs' lie inside the file.
SectionFits(file, ofs, count, size) == count = 0 \/ ofs + count * size <= file.bytes

DecodeStatement(format, row) ==
    LET at == IF format = "QTest" THEN 1 ELSE 0 IN
    [op |-> IF format = "UHexen2" THEN row[1] \div 65536 ELSE row[at + 1],
     a |-> row[at + 2], b |-> row[at + 3], c |-> row[at + 4],
     line |-> IF format = "QTest" THEN row[1] ELSE None]

\* A type is stored with its `save' and `shared' flags.
DecodeDef(format, row) ==
    LET ty == row[1] IN
    [ty |-> ty.type, save |-> ty.save, shared |-> ty.shared,
     ofs |-> IF format = "QTest" THEN row[3] ELSE row[2],
     name |-> IF format = "QTest" THEN row[2] ELSE row[3]]

DecodeFunction(format, row) ==
    [first |-> row[1], locals |-> row[3], name |-> row[5], num_parms |-> row[7],
     parm_start |-> IF format = "QTest" THEN row[8] ELSE row[2],
     sizes |-> IF format = "QTest" THEN row[9] ELSE row[8]]

----------------------------------------------------------------------------
(* Statements.                                                             *)

HasBreakpoint(n) == n >= 32768
WithoutBreakpoint(n) == n % 32768

UsesHexen2Calls(format, raw) ==
    \/ format = "UHexen2"
    \/ /\ format # "QTest"
       /\ \E i \in DOMAIN raw : WithoutBreakpoint(raw[i].op) \in 52 .. 59 /\ raw[i].b # 0

RewriteHexen2Calls(raw) ==
    [i \in DOMAIN raw |->
        LET op == WithoutBreakpoint(raw[i].op) IN
        [raw[i] EXCEPT !.op = IF op \in 52 .. 59 THEN @ + 53 ELSE @,
                       !.c = IF op \in 92 .. 97 /\ @ = 0 THEN 1 ELSE @]]

\* The statement a jump operand leads to from statement `index'; `count', the
\* sentinel that follows the program, when there is none.
JumpTarget(value, index, count, wide) ==
    LET width == IF wide THEN Word32 ELSE Word16
        word == value % width
        target == index + (IF word < width \div 2 THEN word ELSE word - width)
    IN IF target \in 0 .. count - 1 THEN target ELSE count

OperandOk(kind, value, limit) ==
    CASE kind \in {"Global", "Unused"} -> 4 * value < Word32 /\ value < limit
      [] kind = "GlobalIndex" -> value < limit
      [] kind \in {"Jump", "Immediate"} -> TRUE

CanonicalOperand(kind, value, index, count, wide) ==
    CASE kind \in {"Global", "Unused"} -> 4 * value
      [] kind \in {"GlobalIndex", "Immediate"} -> value
      [] kind = "Jump" -> JumpTarget(value, index, count, wide)

Sentinel == [op |-> OpJumpOutOfRange, breakpoint |-> FALSE, a |-> 0, b |-> 0, c |-> 0]

\* A statement of operation op and these operand kinds; a bad one keeps nothing
\* but its breakpoint.
CanonicalFields(s, op, kind, index, count, wide) ==
    [op |-> op, breakpoint |-> HasBreakpoint(s.op),
     a |-> CanonicalOperand(kind[1], s.a, index, count, wide),
     b |-> CanonicalOperand(kind[2], s.b, index, count, wide),
     c |-> CanonicalOperand(kind[3], s.c, index, count, wide)]

CanonicalAs(s, op, kind, index, count, wide, limit) ==
    IF /\ op # OpBad
       /\ OperandOk(kind[1], s.a, limit)
       /\ OperandOk(kind[2], s.b, limit)
       /\ OperandOk(kind[3], s.c, limit)
    THEN CanonicalFields(s, op, kind, index, count, wide)
    ELSE [op |-> OpBad, breakpoint |-> HasBreakpoint(s.op), a |-> 0, b |-> 0, c |-> 0]

CanonicalOp(s, op, index, count, wide, limit) == CanonicalAs(s, op, Operands(op), index, count, wide, limit)

CanonicalStatement(s, index, count, wide, limit) ==
    CanonicalOp(s, FromNumber(WithoutBreakpoint(s.op)), index, count, wide, limit)

\* canonical_statements: every statement, and the out-of-range sentinel.
CanonicalStatements(raw, format, limit) ==
    LET canonical(st, i) ==
            CanonicalStatement(st, i, Len(raw), ~Has16BitStatements(format), limit)
    IN Append(Mapped(canonical, raw), Sentinel)

----------------------------------------------------------------------------
(* Functions.                                                              *)

\* The parameter copies: the words of each parameter go from its PARM slot to the
\* next locals.  Offsets are words.
ParamCount(raw) ==
    IF raw.num_parms < 0 THEN 0 ELSE IF raw.num_parms > NumParms THEN NumParms ELSE raw.num_parms

\* How many words the first n parameters have, and the parameter word k belongs to.
ParamWords(raw, n) == Cardinality(UNION {{i} \X (1 .. raw.sizes[i]) : i \in 1 .. n})
ParamOf(raw, k) == Min({i \in 1 .. ParamCount(raw) : k <= ParamWords(raw, i)})

ParamCopies(raw) ==
    [k \in 1 .. ParamWords(raw, ParamCount(raw)) |->
        LET i == ParamOf(raw, k) IN
        [src |-> 4 + 3 * (i - 1) + k - 1 - ParamWords(raw, i - 1), dst |-> raw.parm_start + k - 1]]

PlanFits(raw, copies, limit) ==
    /\ raw.parm_start + raw.locals <= limit
    /\ \A k \in DOMAIN copies : copies[k].src < limit /\ copies[k].dst < limit

FunctionKind(index, raw, statements, limit) ==
    CASE index = 0 -> [kind |-> "Null"]
      [] index > 0 /\ raw.first > 0 ->
           IF raw.first >= statements THEN [kind |-> "Invalid", reason |-> "EntryOutOfRange"]
           ELSE IF PlanFits(raw, ParamCopies(raw), limit) THEN [kind |-> "QuakeC", entry |-> raw.first]
           ELSE [kind |-> "Invalid", reason |-> "LocalsOutOfRange"]
      [] index > 0 /\ raw.first = 0 -> [kind |-> "NamedBuiltin"]
      [] index > 0 /\ raw.first < 0 -> [kind |-> "Builtin", number |-> -raw.first]

FunctionOf(raw, is) ==
    [is |-> is, parm_start |-> raw.parm_start, locals |-> raw.locals, name |-> raw.name,
     copies |-> IF is.kind = "QuakeC" THEN ParamCopies(raw) ELSE <<>>]

CanonicalFunction(index, raw, statements, limit) ==
    FunctionOf(raw, FunctionKind(index, raw, statements, limit))

----------------------------------------------------------------------------
(* Names.                                                                  *)

\* check_name_bytes: the lengths of the names add up to at most the maximum.
NameBytesFit(names) == FoldLeft(LAMBDA sum, n : sum + NameBytes[n], 0, names) <= NameBytesMax

\* name_map: the index of the first of the entries `from' with that name.
FirstNamed(entries, from, name) ==
    LET found == {i \in from .. Len(entries) : entries[i].name = name} IN
    IF name = "" \/ found = {} THEN None ELSE Min(found) - 1

\* read_bodyless: the names read until the file ends.
ReadBodyless(file, ext) ==
    IF ~ext \/ file.bodyless.ofs > file.bytes THEN <<>>
    ELSE SubSeq(file.bodyless.names, 1, file.bodyless.count)

LineNumbers(file, format, ext, raw) ==
    IF ext /\ file.linenums.ofs # 0 /\ SectionFits(file, file.linenums.ofs, Len(raw), 4)
    THEN file.linenums.rows
    ELSE IF format = "QTest" THEN [i \in DOMAIN raw |-> raw[i].line]
    ELSE None

\* What the loader reports about a program it accepts.
LoadNotes(file, format, ext, raw, statements, functions) ==
    {<<"AssumedKk7">> : x \in {y \in {file.secondary} :
                                 file.version = 7 /\ y \notin {"Fte16", "Fte32", "UHexen2", "Kk7"}}}
    \union {<<"Hexen2Calls">> : x \in {y \in {0} : UsesHexen2Calls(format, raw)}}
    \union {<<"PoisonedStatement", i - 1>> : i \in {j \in DOMAIN raw : statements[j].op = OpBad}}
    \union {<<"JumpOutOfRange", i - 1>> : i \in
              {j \in DOMAIN raw :
                 \E k \in 1 .. 3 :
                    /\ Operands(statements[j].op)[k] = "Jump"
                    /\ <<statements[j].a, statements[j].b, statements[j].c>>[k] = Len(raw)}}
    \union {<<"InvalidFunction", i - 1, functions[i].is.reason>> :
              i \in {j \in DOMAIN functions : functions[j].is.kind = "Invalid"}}
    \union {<<"LineNumbersIgnored">> : x \in
              {y \in {0} : /\ ext /\ file.linenums.ofs # 0
                           /\ ~SectionFits(file, file.linenums.ofs, Len(raw), 4)}}
    \union {<<"BodylessIgnored">> : x \in
              {y \in {0} : /\ ext /\ file.bodyless.count # 0
                           /\ Len(ReadBodyless(file, ext)) < file.bodyless.count}}
    \union {<<"TypesIgnored">> : x \in {y \in {0} : ext /\ file.types # 0}}

----------------------------------------------------------------------------
(* Parsing a file.                                                         *)

Sections(file, format) ==
    LET size == Layout(format) IN
    /\ SectionFits(file, file.statements.ofs, Len(file.statements.rows), size.statement)
    /\ SectionFits(file, file.globaldefs.ofs, Len(file.globaldefs.rows), size.def)
    /\ SectionFits(file, file.fielddefs.ofs, Len(file.fielddefs.rows), size.def)
    /\ SectionFits(file, file.functions.ofs, Len(file.functions.rows), size.function)
    /\ SectionFits(file, file.strings.ofs, file.strings.len, 1)
    /\ SectionFits(file, file.globals.ofs, Len(file.globals.rows), 4)

\* The flag a pointer-typed global carries when it is relative to the globals.
CONSTANT PointerFlag

NamesIn(entries) == Mapped(LAMBDA e, i : e.name, entries)

\* The pointers that are relative to the globals.
PointerRelocs(file, globals) ==
    LET relative(d) == /\ d.ty = "Pointer"
                       /\ d.ofs < Len(file.globals.rows)
                       /\ file.globals.rows[d.ofs + 1] >= PointerFlag
    IN Mapped(LAMBDA d, i : d.ofs, SelectSeq(globals, relative))

\* Where the first global of a name is.
OfsOf(globals, i) == IF i = None THEN None ELSE globals[i + 1].ofs
GlobalOfs(globals, name) == OfsOf(globals, FirstNamed(globals, 1, name))

\* The program, from the rows of every section.
Assembled(file, format, ext, decoded, raw, statements, functions, globals, fields) ==
    IF ~NameBytesFit(NamesIn(functions) \o NamesIn(globals) \o NamesIn(fields)) THEN [error |-> "NamesTooLarge"]
    ELSE [format |-> format,
          strings |-> file.strings.len,
          globals |-> file.globals.rows,
          statements |-> statements,
          functions |-> functions,
          global_defs |-> globals,
          field_defs |-> fields,
          entity_fields |-> file.entity_fields,
          bodyless |-> ReadBodyless(file, ext),
          pointer_relocs |-> PointerRelocs(file, globals),
          thisprogs |-> GlobalOfs(globals, "thisprogs"),
          fasttrackarrays |-> GlobalOfs(globals, "__ext__fasttrackarrays"),
          line_numbers |-> LineNumbers(file, format, ext, raw),
          notes |-> LoadNotes(file, format, ext, decoded, statements, functions)]

\* limit is the number of words operands may name.
Canonical(file, format, ext, decoded, raw, limit) ==
    LET defs(rows) == Mapped(LAMBDA row, i : DecodeDef(format, row), rows)
        function(row, i) == CanonicalFunction(i, DecodeFunction(format, row), Len(raw), limit)
    IN Assembled(file, format, ext, decoded, raw, CanonicalStatements(raw, format, limit),
                 Mapped(function, file.functions.rows),
                 defs(file.globaldefs.rows), defs(file.fielddefs.rows))

WithCalls(file, format, ext, decoded) ==
    Canonical(file, format, ext, decoded,
              IF UsesHexen2Calls(format, decoded) THEN RewriteHexen2Calls(decoded) ELSE decoded,
              Len(file.globals.rows) + GlobalsTail)

ParseAs(file, header) ==
    IF "error" \in DOMAIN header THEN header
    ELSE IF ~Sections(file, header.format) THEN [error |-> "SectionOutOfBounds"]
    ELSE WithCalls(file, header.format, header.ext,
                   Mapped(LAMBDA row, i : DecodeStatement(header.format, row), file.statements.rows))

Parse(file) == ParseAs(file, Header(file))

\* What reading a file yields: fields of records are words, some of them signed.
FunctionRow(format, row) ==
    LET f == DecodeFunction(format, row) IN
    /\ f.first \in Int /\ f.num_parms \in Int /\ f.locals \in Nat /\ f.parm_start \in Nat
    /\ f.sizes \in Seq(Nat) /\ Len(f.sizes) >= NumParms

IsFile(file) ==
    /\ file.strings.len \in Nat /\ file.globals.rows \in Seq(Nat)
    /\ file.statements.rows \in Seq(Seq(Nat))
    /\ DOMAIN file.functions.rows \subseteq Nat \ {0}
    /\ "format" \in DOMAIN Header(file) =>
          /\ \A i \in DOMAIN file.statements.rows :
                Len(file.statements.rows[i]) >= (IF Header(file).format = "QTest" THEN 5 ELSE 4)
          /\ \A i \in DOMAIN file.functions.rows :
                FunctionRow(Header(file).format, file.functions.rows[i])

----------------------------------------------------------------------------
(* Looking things up in a program.                                         *)

WordsOf(type) ==
    CASE type = "Void" -> 0
      [] type = "Vector" -> 3
      [] type \in {"Int64", "UInt64", "Double"} -> 2
      [] type = "Other" -> None
      [] OTHER -> 1

\* The words of a type, one when it says none.
WordsOr1(type) == IF WordsOf(type) = None THEN 1 ELSE WordsOf(type)
AtLeast1(n) == IF n < 1 THEN 1 ELSE n

GlobalDef(program, name) ==
    LET i == FirstNamed(program.global_defs, 1, name) IN
    IF i = None THEN {} ELSE {program.global_defs[i + 1]}

InitialGlobal(program, word) ==
    IF word < Len(program.globals) THEN program.globals[word + 1] ELSE 0

\* A function-typed global of that name takes precedence over a function record.
FunctionIndex(program, name) ==
    LET value == {v \in {InitialGlobal(program, d.ofs) :
                           d \in {e \in GlobalDef(program, name) : e.ty = "Function"}} :
                    v # 0 /\ v < Len(program.functions)}
    IN IF value # {} THEN CHOOSE v \in value : TRUE
       ELSE FirstNamed(program.functions, 2, name)

\* autocvars: the globals named after a cvar whose default lies in the globals.
Autocvars(program, CvarOf(_)) ==
    {d \in ToSet(program.global_defs) :
        /\ CvarOf(d.name) # ""
        /\ d.ofs + WordsOr1(d.ty) <= Len(program.globals)}

=============================================================================
