----------------------------- MODULE MultiProgs -----------------------------
(***************************************************************************)
(* Several progs in one VM (src/src/vm/multiprogs.rs): build_core for the  *)
(* main program, add_progs for further ones, and the calls and returns     *)
(* that switch from one progs to another (Core::enter, Core::leave,        *)
(* Vm::call_inner).  Region S is a function from the index of a word to    *)
(* its value; the callee's locals are kept with its frame (LocalStack is   *)
(* about the region they are saved in).                                    *)
(***************************************************************************)
EXTENDS Program, FiniteSets, TLC

CONSTANTS
    Main, Files,          \* the main program's file and those the host can supply,
    FileOf,               \* by name; what they hold
    ProgsLimit,           \* limits.progs
    EBase, LsWords,       \* bytes of address space for region S; the local stack
    CallDepth, Reentry,   \* limits.call_depth, limits.reentry
    StrideWords,          \* words an entity has room for
    FunctionTag,          \* a function value is its progs number times this plus its index
    Configured,           \* config.shared_globals
    BuiltinNumbers, BuiltinNames,   \* the builtins registered
    HostFields,           \* names of the float fields the host adds
    CvarOf(_),            \* the cvar an autocvar global is named after, or ""
    Val, Passed,          \* the values written to globals; passed, returned and set by cvars
    ForeignBuiltins       \* whether builtins call builtins of other progs

ASSUME MultiProgsAssumption ==
    /\ ProgsLimit \in Nat \ {0} /\ CallDepth \in Nat /\ Reentry \in Nat \ {0}
    /\ StrideWords \in Nat /\ FunctionTag \in Nat \ {0} /\ EBase \in Nat /\ LsWords \in Nat \ {0}
    /\ ForeignBuiltins \in BOOLEAN

VARIABLES
    progs,    \* Core::progs: the program of each, how its functions are called, its place in region S
    fields,   \* Core::fields and Memory::field_bytes
    regionS,  \* region S, by words
    sLen,     \* its length in bytes
    shared,   \* SharedTable::names
    exec,     \* Core::x: prnum, func, the callee's locals' words and the local stack's top
    frames,   \* Core::frames
    running,  \* the engine's calls and builtins in progress, outermost first
    latest,   \* (history) the last value written to each global by the progs then running
    refused   \* (history) progs numbers of the loads addprogs answered with -1

vars == <<progs, fields, regionS, sLen, shared, exec, frames, running, latest, refused>>

----------------------------------------------------------------------------
(* Programs.                                                               *)

\* What each file parses to: a program, or an error.
ProgramOf == [file \in Files \union {Main} |-> Parse(FileOf[file])]
Prog(ps, pr) == ps[pr + 1].program

\* bind: how each function of a program is called.
Bind(program) ==
    LET callee(f, i) ==
            CASE f.is.kind = "QuakeC" -> "Qc"
              [] f.is.kind = "Builtin" ->
                   IF f.is.number \in BuiltinNumbers THEN "Builtin" ELSE "Missing"
              [] f.is.kind = "NamedBuiltin" ->
                   IF f.name \in BuiltinNames THEN "Builtin" ELSE "Missing"
              [] OTHER -> f.is.kind
    IN Mapped(callee, program.functions)

\* A progs: a program at a place.
NewProgs(program, place) ==
    [program |-> program, callees |-> Bind(program),
     sbase |-> place.sbase, gbase |-> place.gbase, end |-> place.end]

\* relocate: the statements with absolute global operands, in bytes.
RelocateOperand(kind, v, gbase) == IF IsRelocated(kind) THEN v + gbase ELSE v
RelocateAs(st, kind, gbase) ==
    [st EXCEPT !.a = RelocateOperand(kind[1], @, gbase),
               !.b = RelocateOperand(kind[2], @, gbase),
               !.c = RelocateOperand(kind[3], @, gbase)]
Relocate(program, gbase) ==
    [i \in DOMAIN program.statements |->
        RelocateAs(program.statements[i], Operands(program.statements[i].op), gbase)]

\* ProgsState::new: a function's locals and parameter copies, as word indices
\* of region S.
FuncInfo(program, gbase, index) ==
    LET f == program.functions[index + 1]
        base == gbase \div 4 IN
    [locals_at |-> base + f.parm_start, locals |-> f.locals,
     copies |-> [k \in DOMAIN f.copies |->
                   [src |-> base + f.copies[k].src, dst |-> base + f.copies[k].dst]]]

----------------------------------------------------------------------------
(* Addresses and layout.                                                   *)

ReturnWord == 1
Parm0 == 4
ParmWords == 3 * NumParms
GlobalsTailBytes == 20

AlignUp(v, align) == ((v + align - 1) \div align) * align

\* The word of region S that holds global `word' of progs `pr'.
At(ps, pr, word) == ps[pr + 1].gbase \div 4 + word

\* A mutant: no room after the tail for a vector at its last word.
PlacementShortTail(program, len) ==
    LET sbase == AlignUp(len, 16)
        gbase == AlignUp(sbase + program.strings + 1, 4)
    IN [sbase |-> sbase, gbase |-> gbase,
        end |-> gbase + 4 * (Len(program.globals) + GlobalsTail)]

\* The words a later progs is given: its strings, its globals and their tail.
Placement(program, len) ==
    LET sbase == AlignUp(len, 16)
        gbase == AlignUp(sbase + program.strings + 1, 4)
    IN [sbase |-> sbase, gbase |-> gbase,
        end |-> gbase + 4 * Len(program.globals) + GlobalsTailBytes]

MainPlacement(program) ==
    LET gbase == AlignUp(program.strings + 1, 4)
        lsBase == gbase + 4 * (Len(program.globals) + GlobalsTail)
    IN [sbase |-> 0, gbase |-> gbase, end |-> lsBase + 4 * LsWords + 4]

WithGlobals(mem, program, gbase) ==
    [w \in DOMAIN mem |->
        IF w - gbase \div 4 \in 0 .. Len(program.globals) - 1
        THEN program.globals[w - gbase \div 4 + 1] ELSE mem[w]]

----------------------------------------------------------------------------
(* Fields: the VM-wide layout (FieldTable).                                *)

FieldGet(table, name) ==
    LET i == FirstNamed(table.entries, 1, name) IN
    IF i = None THEN {} ELSE {table.entries[i + 1]}

FieldPush(table, name, ty, ofs) ==
    [table EXCEPT !.entries = Append(@, [name |-> name, ty |-> ty, ofs |-> ofs])]

MainFields(program) ==
    [entries |-> [i \in DOMAIN program.field_defs |->
                    LET d == program.field_defs[i] IN [name |-> d.name, ty |-> d.ty, ofs |-> d.ofs]],
     words |-> program.entity_fields, bytes |-> 4 * program.entity_fields]

\* A step of map_fields: [ok, map, table].
Take(st, count) ==
    IF st.table.words + count <= StrideWords
    THEN [st EXCEPT !.table.words = @ + count]
    ELSE [st EXCEPT !.ok = FALSE]

\* The words of a definition are those from `at' on; a new name gets an entry.
Placed(st, d, count, at, new) ==
    IF ~st.ok THEN st
    ELSE [st EXCEPT !.table = IF new THEN FieldPush(@, d.name, d.ty, at) ELSE @,
                    !.map = @ @@ [w \in d.ofs .. d.ofs + count - 1 |-> at + w - d.ofs]]

\* Where the words of a definition go: to the field of that name and size, to
\* where its first word already is, or to new words.
MapFieldTo(st, d, count, same) ==
    CASE same # {} -> Placed(st, d, count, (CHOOSE e \in same : TRUE).ofs, FALSE)
      [] same = {} /\ d.ofs \in DOMAIN st.map -> Placed(st, d, count, st.map[d.ofs], TRUE)
      [] OTHER -> Placed(Take(st, count), d, count, st.table.words, TRUE)

MapField(st, d) ==
    IF ~st.ok THEN st
    ELSE MapFieldTo(st, d, AtLeast1(WordsOr1(d.ty)),
                    {e \in FieldGet(st.table, d.name) : WordsOf(e.ty) = WordsOf(d.ty)})

\* Words no definition covers still get a place.
MapUncovered(st, w) ==
    IF ~st.ok \/ w \in DOMAIN st.map THEN st
    ELSE [Take(st, 1) EXCEPT !.map = @ @@ (w :> st.table.words)]

\* Definitions by offset, the larger first.
FieldOrder(defs) ==
    SetToSortSeq(DOMAIN defs,
        LAMBDA i, j :
            LET a == defs[i]  b == defs[j] IN
            \/ a.ofs < b.ofs
            \/ a.ofs = b.ofs /\ WordsOr1(a.ty) > WordsOr1(b.ty)
            \/ a.ofs = b.ofs /\ WordsOr1(a.ty) = WordsOr1(b.ty) /\ i < j)

MapNamed(table, defs) ==
    FoldLeft(LAMBDA st, i : MapField(st, defs[i]), [ok |-> TRUE, map |-> <<>>, table |-> table],
             FieldOrder(defs))
Measured(st) == [st EXCEPT !.table.bytes = 4 * st.table.words]
MapFields(table, program) ==
    Measured(FoldLeft(MapUncovered, MapNamed(table, program.field_defs),
                      [w \in 1 .. program.entity_fields |-> w - 1]))

----------------------------------------------------------------------------
(* Relocation of a later progs' globals.                                   *)

RelocatedValue(d, v, program, place, tag, map) ==
    CASE d.ty = "String" /\ v # 0 /\ v < program.strings -> v + place.sbase
      [] d.ty = "Function" /\ v # 0 /\ v < Len(program.functions) -> v + tag
      [] d.ty = "Field" /\ v \in DOMAIN map -> map[v]
      [] OTHER -> v

RelocateTyped(mem, program, place, tag, map) ==
    FoldLeft(LAMBDA m, d :
               LET at == place.gbase \div 4 + d.ofs IN
               [m EXCEPT ![at] = RelocatedValue(d, @, program, place, tag, map)],
             mem, program.global_defs)

\* Load-time fixups: pointers relative to the globals, `thisprogs' and
\* `__ext__fasttrackarrays'.
Fixups(mem, program, gbase, pr) ==
    LET at(word) == gbase \div 4 + word
        pointers == FoldLeft(LAMBDA m, word : [m EXCEPT ![at(word)] = (@ % PointerFlag) + gbase],
                             mem, program.pointer_relocs)
        set(m, word, v) == IF word = None THEN m ELSE [m EXCEPT ![at(word)] = v]
    IN set(set(pointers, program.thisprogs, pr), program.fasttrackarrays, 1)

----------------------------------------------------------------------------
(* Shared globals.                                                         *)

\* register_shared: the names a program flags, or the host configures.
SharedNames(table, program) ==
    FoldLeft(LAMBDA t, d : IF /\ d.name # "" /\ (d.shared \/ d.name \in Configured)
                              /\ d.name \notin ToSet(t)
                           THEN Append(t, d.name) ELSE t,
             table, program.global_defs)

\* The place and size of a shared global in a progs; empty if it has none.
SharedIn(ps, pr, name) ==
    {[at |-> At(ps, pr, d.ofs), words |-> AtLeast1(WordsOr1(d.ty))] :
        d \in GlobalDef(Prog(ps, pr), name)}

CopyWords(mem, src, dst, count) ==
    [w \in DOMAIN mem |-> IF w - dst \in 0 .. count - 1 THEN mem[src + w - dst] ELSE mem[w]]

CopySlot(mem, a, b) == CopyWords(mem, a.at, b.at, IF a.words < b.words THEN a.words ELSE b.words)
CopyIfBoth(mem, as, bs) ==
    IF as = {} \/ bs = {} THEN mem ELSE CopySlot(mem, CHOOSE g \in as : TRUE, CHOOSE g \in bs : TRUE)

\* Every slot both progs have, in the order of the table.
CopyShared(c, mem, from, to) ==
    FoldLeft(LAMBDA m, name : CopyIfBoth(m, SharedIn(c.progs, from, name), SharedIn(c.progs, to, name)),
             mem, c.names)

SwitchIn(c, from, to) ==
    CopyShared(c, CopyWords(c.s, At(c.progs, from, Parm0), At(c.progs, to, Parm0), ParmWords),
               from, to)

\* A mutant: the shared globals are copied towards the progs left.
SwitchOutReversed(c, from, to) ==
    CopyShared(c, CopyWords(c.s, At(c.progs, from, ReturnWord), At(c.progs, to, ReturnWord), 3),
               to, from)

SwitchOut(c, from, to) ==
    CopyShared(c, CopyWords(c.s, At(c.progs, from, ReturnWord), At(c.progs, to, ReturnWord), 3),
               from, to)

----------------------------------------------------------------------------
(* Functions.                                                              *)

FuncRef(pr, index) == pr * FunctionTag + index
PrOf(f) == f \div FunctionTag
IndexOf(f) == f % FunctionTag

CalleeOf(c, f) ==
    IF PrOf(f) < Len(c.progs) /\ IndexOf(f) < Len(c.progs[PrOf(f) + 1].callees)
    THEN c.progs[PrOf(f) + 1].callees[IndexOf(f) + 1] ELSE "None"

\* find_live_function: a function-typed global's present value, or else the
\* function record of that name; 0 stands for none.
RecordNamed(pr, index) == IF index = None THEN 0 ELSE FuncRef(pr, index)
ValueOrNull(f) == IF IndexOf(f) # 0 THEN f ELSE 0
LiveFunctionIn(pr, program, name) ==
    LET typed == SelectSeq(program.global_defs, LAMBDA d : d.name = name /\ d.ty = "Function") IN
    IF typed # <<>> THEN ValueOrNull(regionS[At(progs, pr, typed[1].ofs)])
    ELSE RecordNamed(pr, FirstNamed(program.functions, 2, name))
LiveFunction(pr, name) == LiveFunctionIn(pr, Prog(progs, pr), name)

\* The other progs that define a function a progs only declares.
Defines(program, index) == index # None /\ program.functions[index + 1].is.kind \notin {"Null", "Invalid"}
Definers(ps, pr, name) ==
    {q \in 0 .. Len(ps) - 1 : q # pr /\ Defines(Prog(ps, q), FirstNamed(Prog(ps, q).functions, 2, name))}

\* The globals of the functions a progs only declares and another one defines.
Declared(ps, pr, program) ==
    {d \in UNION {GlobalDef(program, name) : name \in ToSet(program.bodyless)} :
        d.ty = "Function" /\ Definers(ps, pr, d.name) # {}}

DefinitionIn(ps, q, name) == FuncRef(q, FirstNamed(Prog(ps, q).functions, 2, name))
Definition(ps, pr, name) == DefinitionIn(ps, Min(Definers(ps, pr, name)), name)

\* A mutant: only the newest progs' declarations are linked.
LinkExternsOfNewest(ps, mem) ==
    FoldSet(LAMBDA d, m : [m EXCEPT ![At(ps, Len(ps) - 1, d.ofs)] = Definition(ps, Len(ps) - 1, d.name)],
            mem, Declared(ps, Len(ps) - 1, Prog(ps, Len(ps) - 1)))

\* link_externs: the unset globals of bodyless functions are given the
\* definition of the first other progs that has one.
LinkExterns(ps, mem) ==
    FoldLeft(LAMBDA done, pr :
               FoldSet(LAMBDA d, m : [m EXCEPT ![At(ps, pr, d.ofs)] =
                                        IF IndexOf(@) = 0 THEN Definition(ps, pr, d.name) ELSE @],
                       done, Declared(ps, pr, Prog(ps, pr))),
             mem, [i \in DOMAIN ps |-> i - 1])

----------------------------------------------------------------------------
(* Calls: Core::enter and Core::leave.                                     *)

Core == [progs |-> progs, names |-> shared, s |-> regionS, x |-> exec, frames |-> frames,
         running |-> running]

Info(c, f) ==
    FuncInfo(Prog(c.progs, PrOf(f)), c.progs[PrOf(f) + 1].gbase, IndexOf(f))

\* What enter has done to region S when it looks at the local stack.
Switched(c, f) ==
    IF PrOf(f) # c.x.prnum /\ Len(c.progs) > 1 THEN SwitchIn(c, c.x.prnum, PrOf(f)) ELSE c.s

CanEnter(c, f) ==
    Len(c.frames) < CallDepth /\ c.x.top + Info(c, f).locals <= LsWords

\* The region a failed enter leaves: switched, unless the depth stopped it.
NotEntered(c, f) == IF Len(c.frames) < CallDepth THEN Switched(c, f) ELSE c.s

\* mem is region S once it has switched; then the parameters are copied.
Copied(mem, copies) == FoldLeft(LAMBDA m, k : [m EXCEPT ![k.dst] = m[k.src]], mem, copies)
EnterWith(c, f, info, mem) ==
    [c EXCEPT
       !.s = Copied(mem, info.copies),
       !.frames = Append(@, [prnum |-> c.x.prnum, at |-> c.x.at, locals |-> c.x.locals,
                             saved |-> [k \in 1 .. info.locals |-> mem[info.locals_at + k - 1]]]),
       !.x = [prnum |-> PrOf(f), at |-> info.locals_at, locals |-> info.locals,
              top |-> @.top + info.locals]]
Enter(c, f) == EnterWith(c, f, Info(c, f), Switched(c, f))

\* The locals of the function left are restored.
Restored(c, saved) ==
    [w \in DOMAIN c.s |-> IF w - c.x.at \in 0 .. c.x.locals - 1 THEN saved[w - c.x.at + 1] ELSE c.s[w]]
BackTo(c, frame) ==
    [c EXCEPT !.s = Restored(c, frame.saved), !.frames = Front(@),
              !.x = [prnum |-> frame.prnum, at |-> frame.at, locals |-> frame.locals,
                     top |-> @.top - c.x.locals]]
SwitchedBack(c, from) == IF c.x.prnum # from THEN [c EXCEPT !.s = SwitchOut(c, from, c.x.prnum)] ELSE c
Leave(c) == SwitchedBack(BackTo(c, Last(c.frames)), c.x.prnum)

\* Leaving the functions above a depth, one by one.
Left(c, depth) ==
    FoldLeft(LAMBDA d, k : Leave(d), c, [k \in 1 .. Len(c.frames) - depth |-> k])
Unwind(c, depth) ==
    LET left == Left(c, depth) IN [c EXCEPT !.s = left.s, !.x = left.x, !.frames = left.frames]

\* Nested host calls: everything in progress but the builtins QuakeC called.
Nesting(c) == Len(SelectSeq(c.running, LAMBDA r : r.k = "call" \/ r.back # None))

SetWord(mem, at, v) == [mem EXCEPT ![at] = v]

\* A call that arrives with its arguments in place.
CallArrived(c, f, callee, add) ==
    CASE callee = "Qc" ->
           IF CanEnter(c, f)
           THEN [Enter(c, f) EXCEPT
                   !.running = Append(@, [k |-> "call", depth |-> Len(c.frames), add |-> add])]
           ELSE [c EXCEPT !.s = NotEntered(c, f)]
      [] callee = "Builtin" ->
           [c EXCEPT !.running = Append(@, [k |-> "builtin", back |-> c.x.prnum]),
                     !.x.prnum = PrOf(f)]
      [] OTHER -> c

WithArgs(c, pr, v) == IF pr < Len(c.progs) THEN [c EXCEPT !.s = SetWord(@, At(c.progs, pr, Parm0), v)] ELSE c

\* call_inner: arguments go to the caller's PARM slots for QuakeC, to its own
\* progs' for a builtin.  `add' is the progs whose init function this is.
CallInner(c, f, v, add) ==
    IF Nesting(c) >= Reentry THEN c
    ELSE CallArrived(WithArgs(c, IF CalleeOf(c, f) = "Qc" THEN c.x.prnum ELSE PrOf(f), v),
                     f, CalleeOf(c, f), add)

----------------------------------------------------------------------------
(* add_progs.                                                              *)

\* The VM with a program loaded at a place; its fields are mapped.
WithProgs(c, program, ps, s) ==
    [c EXCEPT !.progs = ps, !.names = SharedNames(@, program), !.s = LinkExterns(ps, s)]
Loaded(c, program, place, mapped) ==
    WithProgs(c, program, Append(c.progs, NewProgs(program, place)),
              Fixups(RelocateTyped(WithGlobals(c.s, program, place.gbase), program, place,
                                   Len(c.progs) * FunctionTag, mapped.map),
                     program, place.gbase, Len(c.progs)))

----------------------------------------------------------------------------
(* The state machine.                                                      *)

MainProgram == ProgramOf[Main]

\* The files are files; the main program loads, and region S has room for it.
ASSUME FilesAssumption ==
    /\ \A file \in Files \union {Main} : IsFile(FileOf[file])
    /\ "error" \notin DOMAIN MainProgram /\ MainPlacement(MainProgram).end <= EBase

Zeroed == [w \in 0 .. (EBase \div 4) - 1 |-> 0]

\* build_core for a program and its place.
InitialCore(program, place) ==
    [progs |-> <<NewProgs(program, place)>>,
     names |-> SharedNames(<<>>, program),
     s |-> Fixups(WithGlobals(Zeroed, program, place.gbase), program, place.gbase, 0),
     x |-> [prnum |-> 0, at |-> 0, locals |-> 0, top |-> 0],
     frames |-> <<>>, running |-> <<>>]

MainCore == InitialCore(MainProgram, MainPlacement(MainProgram))

\* The value the progs now running has of each global it names.
SeenBy(c, wanted) ==
    [n \in {m \in wanted : SharedIn(c.progs, c.x.prnum, m) # {}} |->
        c.s[(CHOOSE g \in SharedIn(c.progs, c.x.prnum, n) : TRUE).at]]

Starts(c) ==
    /\ progs = c.progs /\ shared = c.names /\ regionS = c.s
    /\ exec = c.x /\ frames = <<>> /\ running = <<>>
    /\ fields = MainFields(c.progs[1].program)
    /\ sLen = c.progs[1].end
    /\ latest = SeenBy(c, ToSet(c.names))
    /\ refused = {}

Init == Starts(MainCore)

\* The next core; the history of shared names that are new starts with what
\* the running progs sees.
Becomes(c) ==
    /\ progs' = c.progs /\ shared' = c.names /\ regionS' = c.s /\ exec' = c.x
    /\ frames' = c.frames /\ running' = c.running

Idle == running = <<>>
InQuakeC == ~Idle /\ Last(running).k = "call"
InBuiltin == ~Idle /\ Last(running).k = "builtin"

\* A statement, a builtin or, when nothing runs, the host writes a global of
\* the progs running (the main progs').
Write(d, v) ==
    /\ d.ty = "Float"
    /\ CvarOf(d.name) = ""
    /\ regionS' = SetWord(regionS, At(progs, exec.prnum, d.ofs), v)
    /\ latest' = IF d.name \in DOMAIN latest THEN [latest EXCEPT ![d.name] = v] ELSE latest
    /\ UNCHANGED <<progs, fields, sLen, shared, exec, frames, running, refused>>

\* The function values a progs holds in its globals.
Held(pr) == {regionS[At(progs, pr, d.ofs)] :
                d \in {e \in ToSet(Prog(progs, pr).global_defs) : e.ty = "Function"}}

\* The QuakeC functions up to the engine's last call fail.
FailsTo(c) == Becomes([Unwind(c, Last(running).depth) EXCEPT !.running = Front(@)])

\* The call arrives at a function; if it cannot be entered, its callers fail.
Calls(c, f) ==
    \/ CalleeOf(c, f) = "Qc" /\ CanEnter(c, f) /\ Becomes(Enter(c, f))
    \/ CalleeOf(c, f) = "Qc" /\ ~CanEnter(c, f) /\ FailsTo([c EXCEPT !.s = NotEntered(c, f)])
    \/ CalleeOf(c, f) = "Builtin" /\ Becomes([c EXCEPT !.running = Append(@, [k |-> "builtin", back |-> None])])
    \/ CalleeOf(c, f) \notin {"Qc", "Builtin"} /\ FailsTo(c)

\* A QuakeC function calls the function in one of its globals.
QcCall(f, v) ==
    /\ InQuakeC
    /\ Calls([Core EXCEPT !.s = SetWord(regionS, At(progs, exec.prnum, Parm0), v)], f)
    /\ UNCHANGED <<fields, sLen, latest, refused>>

\* RETURN: the value goes to the return slot; the outermost function of a host
\* call hands it to the host.
Returns(c) ==
    Becomes(IF Len(c.frames) = Last(running).depth THEN [c EXCEPT !.running = Front(@)] ELSE c)

QcReturn(v) ==
    /\ InQuakeC
    /\ Returns(Leave([Core EXCEPT !.s = SetWord(regionS, At(progs, exec.prnum, ReturnWord), v)]))
    /\ UNCHANGED <<fields, sLen, latest, refused>>

\* QuakeC fails; an init function that ran out of memory makes addprogs answer -1.
QcFails(kind) ==
    /\ InQuakeC
    /\ FailsTo(Core)
    /\ refused' = IF /\ kind = "OutOfMemory" /\ Last(running).add # None
                     /\ Front(running) # <<>>
                  THEN refused \union {Last(running).add} ELSE refused
    /\ UNCHANGED <<fields, sLen, latest>>

\* The functions the host finds by name.
Found == UNION {{LiveFunction(pr, d.name) : d \in {e \in ToSet(Prog(progs, pr).functions) : e.name # ""}} :
                   pr \in 0 .. Len(progs) - 1} \ {0}

\* The host, or a builtin, calls a function: one it found by name, or any the
\* running progs holds.
HostCall(f, v) ==
    /\ Idle \/ InBuiltin
    /\ CalleeOf(Core, f) = "Builtin" => (PrOf(f) = exec.prnum \/ ForeignBuiltins)
    /\ Becomes(CallInner(Core, f, v, None))
    /\ UNCHANGED <<fields, sLen, latest, refused>>

BuiltinReturn(v) ==
    /\ InBuiltin
    /\ regionS' = SetWord(regionS, At(progs, exec.prnum, ReturnWord), v)
    /\ running' = Front(running)
    /\ exec' = IF Last(running).back = None THEN exec ELSE [exec EXCEPT !.prnum = Last(running).back]
    /\ UNCHANGED <<progs, fields, sLen, shared, frames, latest, refused>>

\* A builtin fails: the QuakeC that called it is unwound; a caller in the engine
\* gets the error.
BuiltinFails ==
    /\ InBuiltin
    /\ LET below == Front(running)
           c == [Core EXCEPT !.running = below] IN
       IF Last(running).back = None
       THEN Becomes([Unwind(c, Last(below).depth) EXCEPT !.running = Front(@)])
       ELSE Becomes([c EXCEPT !.x.prnum = Last(running).back])
    /\ UNCHANGED <<fields, sLen, latest, refused>>

\* The layout after add_progs: what a failing map_fields added is taken back.
FieldsAfterNoRollback(mapped) == mapped.table
FieldsAfter(mapped) == IF mapped.ok THEN mapped.table ELSE fields

\* add_progs, by the host or by a builtin (addprogs): refused when there are too
\* many progs, no space in region S or no room in the entities; loaded
\* otherwise, and then its init function is called.
LoadedInto(c, place, init) ==
    /\ sLen' = place.end
    /\ latest' = SeenBy(c, ToSet(c.names) \ ToSet(shared)) @@ latest
    /\ Becomes(IF init = None THEN c
               ELSE CallInner(c, FuncRef(Len(progs), init), Len(progs) - 1, Len(progs)))

AddAt(program, place, mapped) ==
    /\ place.end <= EBase
    /\ fields' = FieldsAfter(mapped)
    /\ \/ mapped.ok /\ LoadedInto(Loaded(Core, program, place, mapped), place, FunctionIndex(program, "init"))
       \/ ~mapped.ok /\ UNCHANGED <<progs, shared, regionS, exec, frames, running, sLen, latest>>

AddProgram(program) ==
    /\ "error" \notin DOMAIN program
    /\ AddAt(program, Placement(program, sLen), MapFields(fields, program))

AddProgs(file) ==
    /\ Idle \/ InBuiltin
    /\ Len(progs) < ProgsLimit
    /\ AddProgram(ProgramOf[file])
    /\ UNCHANGED refused

\* ensure_field: the host adds a field of one word.
EnsureField(name) ==
    /\ Idle
    /\ FieldGet(fields, name) = {}
    /\ fields.words < StrideWords
    /\ fields' = [FieldPush(fields, name, "Float", fields.words) EXCEPT
                    !.words = @ + 1, !.bytes = 4 * (fields.words + 1)]
    /\ UNCHANGED <<progs, regionS, sLen, shared, exec, frames, running, latest, refused>>

\* sync_autocvars: the host's value of a cvar goes to the float autocvars of
\* every progs that names it.
SyncAutocvars(cvar, v) ==
    /\ Idle
    /\ LET at == UNION {{At(progs, pr, d.ofs) :
                           d \in {e \in Autocvars(Prog(progs, pr), CvarOf) :
                                    CvarOf(e.name) = cvar /\ e.ty = "Float"}} :
                        pr \in 0 .. Len(progs) - 1}
       IN regionS' = [w \in DOMAIN regionS |-> IF w \in at THEN v ELSE regionS[w]]
    /\ UNCHANGED <<progs, fields, sLen, shared, exec, frames, running, latest, refused>>

\* Vm::reset: the freshly loaded state.
ResetTo(c) ==
    /\ Becomes(c)
    /\ fields' = MainFields(c.progs[1].program)
    /\ sLen' = c.progs[1].end
    /\ latest' = SeenBy(c, ToSet(c.names))
    /\ refused' = {}

Reset == Idle /\ ResetTo(MainCore)

GlobalDefs == UNION {ToSet(p.program.global_defs) : p \in ToSet(progs)}
Cvars == {CvarOf(d.name) : d \in GlobalDefs} \ {""}

Next ==
    \/ \E d \in ToSet(Prog(progs, exec.prnum).global_defs), v \in Val : Write(d, v)
    \/ \E f \in Held(exec.prnum), v \in Passed : QcCall(f, v)
    \/ \E v \in Passed : QcReturn(v)
    \/ \E kind \in {"OutOfMemory", "other"} : QcFails(kind)
    \/ \E f \in (IF Idle THEN Found ELSE Held(exec.prnum)), v \in Passed : HostCall(f, v)
    \/ \E v \in Passed : BuiltinReturn(v)
    \/ BuiltinFails
    \/ \E file \in Files : AddProgs(file)
    \/ \E name \in HostFields : EnsureField(name)
    \/ \E cvar \in Cvars, v \in Passed : SyncAutocvars(cvar, v)
    \/ Reset

Spec == Init /\ [][Next]_vars

----------------------------------------------------------------------------
(* Properties.                                                             *)

\* The value of every shared global that all progs have is, for the progs
\* running, the last one any of them gave it: entering, leaving, failing to
\* enter and unwinding copy what was written (switch_in, switch_out).
SharedIsLatest ==
    \A n \in ToSet(shared) :
        (\A pr \in 0 .. Len(progs) - 1 : SharedIn(progs, pr, n) # {})
            => SeenBy(Core, {n})[n] = latest[n]

InBlock(p, first, count, at) == first <= at /\ at + 4 * count <= p.end

StatementStaysInside(p, st, kind, code) ==
    LET operand == <<st.a, st.b, st.c>> IN
    \A k \in 1 .. 3 :
       /\ IsRelocated(kind[k]) => InBlock(p, p.gbase, 3, operand[k])
       /\ kind[k] = "GlobalIndex" => operand[k] < Len(p.program.globals) + GlobalsTail
       /\ kind[k] = "Jump" => operand[k] \in 0 .. Len(code) - 1

CodeStaysInside(p, code) == \A st \in ToSet(code) : StatementStaysInside(p, st, Operands(st.op), code)

CallStaysInside(p, info) ==
    /\ InBlock(p, p.gbase, info.locals, 4 * info.locals_at)
    /\ \A c \in ToSet(info.copies) : InBlock(p, p.gbase, 1, 4 * c.src) /\ InBlock(p, p.gbase, 1, 4 * c.dst)

\* Everything the interpreter addresses for a later progs lies in the block
\* add_progs laid out for it: three words from each global operand (the tail of
\* 20 bytes), parameter copies and locals; jumps lead to a statement or the
\* sentinel.  The blocks do not overlap.
LoadedCodeStaysInside ==
    \A i \in DOMAIN progs :
        LET p == progs[i] IN
        /\ p.end <= (IF i < Len(progs) THEN progs[i + 1].sbase ELSE EBase)
        /\ CodeStaysInside(p, Relocate(p.program, p.gbase))
        /\ \A j \in DOMAIN p.callees :
              p.callees[j] = "Qc" => CallStaysInside(p, FuncInfo(p.program, p.gbase, j - 1))

\* Entity fields are unified by name: the field global of a name holds, in every
\* progs, the offset the VM has for that name, inside the words entities use,
\* and two names share words only if some program makes them overlap.
FieldOverlap(a, b) ==
    a.ofs < b.ofs + AtLeast1(WordsOr1(b.ty)) /\ b.ofs < a.ofs + AtLeast1(WordsOr1(a.ty))

FieldsUnified ==
    /\ \A pr \in 0 .. Len(progs) - 1 :
          \A g \in ToSet(Prog(progs, pr).global_defs) :
             g.ty = "Field" =>
                \A e \in FieldGet(fields, g.name) :
                   /\ regionS[At(progs, pr, g.ofs)] = e.ofs
                   /\ 4 * (e.ofs + AtLeast1(WordsOr1(e.ty))) <= fields.bytes
    /\ \A i, j \in DOMAIN fields.entries :
          FieldOverlap(fields.entries[i], fields.entries[j]) =>
             \/ fields.entries[i].name = fields.entries[j].name
             \/ \E p \in ToSet(progs) : \E a, b \in ToSet(p.program.field_defs) :
                   /\ a.name = fields.entries[i].name /\ b.name = fields.entries[j].name
                   /\ FieldOverlap(a, b)

\* The field layout is that of the progs loaded and of the host: an add_progs
\* that finds no room puts back what it had added.
FieldsOfLoadedProgs ==
    /\ \A e \in ToSet(fields.entries) :
          \/ e.name \in HostFields
          \/ \E p \in ToSet(progs) : \E d \in ToSet(p.program.field_defs) : d.name = e.name
    /\ fields.bytes = 4 * fields.words /\ fields.words <= StrideWords

\* One layout of entity fields, agreed on by all that is loaded and by nothing else.
FieldsConsistent == FieldsUnified /\ FieldsOfLoadedProgs

\* Once no progs runs that could have been left half-way, every function a
\* program only declares is linked if another progs has it, and leads to a
\* function that can be called.
ExternsLinked ==
    \A pr \in 0 .. Len(progs) - 1 :
        \A name \in ToSet(Prog(progs, pr).bodyless) :
            (Definers(progs, pr, name) # {} /\ GlobalDef(Prog(progs, pr), name) # {}) =>
                LET f == LiveFunction(pr, name) IN
                f # 0 /\ CalleeOf(Core, f) \in {"Qc", "Builtin", "Missing"}

\* What progs.rs says of addprogs: it answers -1 only for a progs it has not loaded.
AnsweredProgsOnly == refused = {}

=============================================================================
