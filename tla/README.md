# A TLA+ development of qcvm

qcvm (`src/src/`) is a virtual machine, written in Rust, that runs the compiled
QuakeC of Quake engines inside a host program. It has no threads of its own:
everything that makes it hard happens on one native stack, on which the host,
the interpreter and builtins written in Rust call one another to any depth, and
on which a call can end in many ways (a return, an error, `abort()`, a spent
budget, a deadline, a panic). This directory holds TLA+ modules of its core, the
TLC runs that check them, and proofs that the TLA+ proof system checks.

## The system

| Component (source) | State it keeps | Operations | Talks to |
| --- | --- | --- | --- |
| Call stack and local stack (`vm/core.rs`, `vm/interp.rs`) | `frames`, the registers `Exec`, the local stack, `entry_depth` | `enter`, `leave`, `unwind`, PUSH, SWITCH | interpreter, host calls, threads |
| Host calls (`vm/mod.rs`, `host.rs`) | `nesting`, `argc`, `builtin`, `abort_ret`, `budget`, warning counters, trace flags, `poisoned` | `call`, `call_inner`, `execute`, `run_builtin`, `warn`, `collect_garbage`, `reset` | everything |
| Entity table (`vm/memory.rs`, `vm/mod.rs`) | `slots`: in use, protected, `freetime`, serial | `spawn`, `claim`, `remove`, `set_protected` | entity builtins, threads, the drawing walk |
| QuakeC threads (`vm/threads.rs`, `stdlib/threads.rs`) | `threads`, the queue of a pass | `sleep`, `fork`, `run_threads` | stacks, budgets, entity serials |
| CSQC helpers (`csqc.rs`) | the walk over entities | `add_entities` | entity table, predraw functions, the host's `add` |
| Interpreter (`vm/interp.rs`, `opcode.rs`, `vm/num.rs`) | registers, budget, switch state | one step per opcode, with fast and slow paths | memory, temp strings, calls |
| Memory regions (`vm/memory.rs`, `bytes.rs`) | regions S (strings, globals, local stack), E (entities) and the heap, the null word | `locate`, checked loads and stores, views | interpreter, builtins |
| Heap (`vm/heap.rs`, `stdlib/memory.rs`) | the region, used and free blocks | `alloc`, `free`, `realloc` | memory builtins, JSON |
| Temp strings (`vm/strings.rs`, `vm/mod.rs`) | slots, allocation cursor, capacity, pins | `alloc`, `temp_raw_mut`, `pin`, conservative collection | host calls (when to collect) |
| Multiprogs (`vm/multiprogs.rs`, `vm/core.rs`, `stdlib/progs.rs`) | loaded progs, their shared globals, the field table | `build_core`, `add_progs`, `switch_in`, `switch_out`, `link_externs` | call stack, loader |
| Program loading (`progs/*.rs`, `opcode.rs`, `vm/autocvars.rs`) | none after loading | parse, check, poison statements, autocvars | multiprogs |
| Builtin registry (`builtins/*.rs`) | name and number tables | bind, override | loader |
| Entity builtins (`stdlib/entity.rs`) | none | spawn, remove, find, copyentity | entity table, host hooks |
| Containers (`stdlib/hash.rs`, `strbuf.rs`, `tokenize.rs`, `util.rs`) | hash tables, string buffers, the token list, one storage budget | create, set, get, delete, sort | each other, through the budget |
| String builtins (`stdlib/string.rs`, `charset.rs`, `tokenize.rs`, `convert.rs`, `strbuf.rs`) | none | functions of their arguments, made to be used on each other's results | temp strings |
| JSON (`stdlib/json.rs`) | heap nodes | `json_parse`, the getters | heap, temp strings |
| Maths, time, reflection builtins (`stdlib/*.rs`) | none of their own | functions of their arguments; `callfunction`, `externcall` call back | host calls |

How the parts interact. The host calls QuakeC (`Vm::call`); the interpreter runs
until it needs the host: a builtin, an animation opcode, a trace line, a spent
chunk of the budget. A builtin may call QuakeC again (`callfunction`, a find
hook, `calltimeofday`), so calls nest up to `limits.reentry`. `sleep` and `fork`
copy the part of the QuakeC stack above the nearest host boundary; `run_threads`
rebuilds it later, on an idle stack, from inside a loop of its own. Entities are
freed and reused by any of these while another holds an entity number: a
sleeping thread, a drawing walk.

What is hard here, and where the properties come from:

- *Every way a call can end must undo the same state.* Return, error, abort,
  budget, deadline, failed entry, panic; from a builtin, from a builtin called
  directly, from a resumed thread. Counters, saved registers, saved locals and
  the abort value must agree afterwards.
- *Arithmetic on the local stack.* `enter` and `leave` compute offsets from each
  other's results; a one-word drift shows only when a deep recursion unwinds.
- *State read before a callback and used after it.* The argument count and the
  identity of a builtin, the slot a walk is at, the entity in a thread's `self`,
  the chunk of the budget.
- *Lists changed while they are walked.* Threads forked and threads put back
  while due threads run; entities spawned and freed during a walk.
- *Limits.* Local stack, call depth, re-entry, sleeping threads, warnings,
  budget: off-by-one, and double counting when a resource passes from one holder
  to another.
- *Two ways to compute the same thing.* The inner loop repeats the checks of
  memory with other arithmetic; `json_parse` measures a tree and then writes it;
  each string builtin has its own idea of where a character, a token or a number ends.
- *Failing half-way.* `add_progs` changes fields and memory before it can fail; an
  entry fails after shared globals were copied; `json_parse` runs out of temp strings
  while its block is filled.
- *Ending at all.* One budget stops QuakeC and all the calls made back from it; a
  pass over threads ends although threads fork threads.

`PROJECT.json` lists these hazards at the lines where they bite, each with the
properties that would fail, or why none covers it yet.

## The modules

| Module | Models | Used by |
| --- | --- | --- |
| `LocalStack` | frames, registers, saved locals, PUSH, unwinding; what a thread captures and how it is rebuilt | `LocalStackProofs`, `MCLocalStack` |
| `HostCalls` | calls on the native stack, budget, deadline, trace, warnings, abort, collection, poisoning | `HostCallsProofs`, `MCHostCalls` |
| `InstructionBudget` | abstract: what `limits.runaway` promises | refined by `HostCalls` |
| `Edicts` | the entity table | `EntityWalk`, `Threads` |
| `EntityWalk` | `csqc::add_entities` over `Edicts` | `EntityProofs`, `MCEntityWalk` |
| `Threads` | suspended threads and `run_threads` over `Edicts` | `EntityProofs`, `MCThreads` |
| `Heap` | the allocator and the memory builtins on it | `HeapProofs`, `MCHeap`, `Json` |
| `HeapBlocks` | abstract: what the builtins promise of allocated blocks | refined by `Heap` |
| `Memory` | regions, addresses, protected entities, the views of the inner loop | `Words`, `Interpreter` |
| `Words` | integer and bitwise arithmetic of opcodes at the width of a word | `Interpreter` |
| `Interpreter` | every statement of the inner loop | `ShortCuts` |
| `ShortCuts` | the interpreter without short cuts as the specification of the one with them | `InterpreterProofs`, `MCInterpreter` |
| `Program` | the loader: from the sections of a file to checked statements and functions | `MultiProgs` |
| `MultiProgs` | loading progs into one VM, and calls between them | `MultiProgsProofs`, `MCMultiProgs` |
| `TempStrings` | the temp-string table, pins, collection | `TempStringsProofs` |
| `StringStore` | abstract: strings that are kept while something names them | refined by `TempStrings` |
| `Containers` | hash tables, string buffers, the token list, their budget | `ContainersProofs`, `MCContainers` |
| `KeyStacks` | abstract: each key of a table has a stack of values | refined by `Containers` |
| `Bytes`, `Charset`, `Strings`, `Tokens`, `PackedStrings`, `Convert` | the string builtins as functions: bytes, character sets, searches, tokens and escapes, info and alt strings, numbers | `Texts` |
| `Json` | `json_parse` over a heap and a number of temp strings; the getters | `Texts` |
| `Texts` | a program that passes a string through all of these | `MCTexts` |

### LocalStack

State: `frames` (`Core::frames`), `x` (the registers of the running function),
`g` (the words of the globals that hold locals), `ls` (the local stack),
`bounds` (one entry for each `execute` on the native stack, with the
`entry_depth` it saved), `mode` (host code, QuakeC, or one of the VM's own loops:
unwinding, rebuilding a thread), `sleeping` and `waking`. `saved` is a history
variable: what each live activation found in its locals.

Actions: `Call`, `Return`, `Push`, `Switch`, `StoreGlobal`, `StorePushed`,
`StatementFaults` are statements; `HostCall`, `CallBuiltin`, `BuiltinReturns`
and `BuiltinFails` are the boundary between QuakeC and Rust; `Unwinding` and
`Unwound` are the loop of `unwind_to`, one frame a step; `Sleep` and `Fork` take a
snapshot; `Wake`, `Reenter` and `Resumed` are `Vm::resume`. The parameter copies of
`enter` read PARM slots that nothing here constrains: they may be any value, the
same in all of the words copied.

### HostCalls

State: `calls` (the native stack, with what `call_inner` keeps in Rust locals),
`mode`, `result`, and the fields of `Vm` and `Core` by their names. A statement
is either *counted* (jumps, calls and returns take one from the budget) or
straight-line. History variables: `ran` and `unchecked` (counted statements since
the budget started, and since the deadline was looked at), `unheard` (warnings
nobody has been told of), `reported` and `misreported` (trace lines).

Actions: the entry paths of `call_inner` (`CallFunction`, `CallBuiltinDirectly`,
`CallFails`, `CallBadArguments`, `CallRefused`), `ResumeThread`; the interpreter
(`Report`, `Straight`, `Jump`, `Warns`, `CallBuiltin`, `StateOp`, `ReturnToHost`,
`Faults`); the end of a chunk (`RunsAway`, `NextChunk`); what host code does
(`BuiltinReturns`, `BuiltinAborts`, `BuiltinFails`, `BuiltinWarns`, `StateOpDone`,
`StateOpFails`, `HostWarns`, `MakeTemp`, `CollectGarbage`, `SetTrace`,
`SetDeveloper`, `Panic`, `Reset`); the end of a call (`FinishCall`,
`FinishThread`); and the clock (`DeadlinePasses`).

`InstructionBudget` is the abstract specification of the budget: one counter,
one refusal. The code has no such counter. It has a total that is committed
when the interpreter leaves a run, a chunk no larger than 65,536 when there is a
deadline, and what is left of that chunk; the refinement maps the counter to
`budget - (chunk - left)` inside a run and to `budget` outside.

### Edicts, EntityWalk

`Edicts` has the table (`slots`), the host clock and two history variables:
`lives[e]`, how often slot `e` has been taken into use, and `takes`, their
sum. Its actions are `Spawn` (with `Pick`, the search of `Memory::alloc_edict`),
`SpawnFails`, `Claim`, `RemoveEdict`, `Protect` and `Tick`.

`EntityWalk` adds the fields the walk reads (`visible`: the drawmask shares a bit
with the mask; `hooked`: a predraw function is set), the `self` global and the
walk. While predraw or the host's `add` runs, any change of the table may happen.

### Threads

A thread is its wake time, its size and the entity in its `self` with the serial it
had; `threads` and `queue` are `Core::threads` and the due threads `run_threads`
has taken out of it. `depth` counts nested runs of QuakeC. `Fork`, `Sleep` and
`SleepFromBuiltin` suspend; `StartPass`, `Resume`, `EndPass` and the end of a run
(`Return`, `Fail`) are `run_threads`. What a thread holds of the stack is in
`LocalStack`; that a resumed thread is a host call of its own is in `HostCalls`.

### Heap

State: `heap`, a record with the fields of `vm/heap.rs`: the region (`data` and its
length), the used blocks (rounded and requested size by offset) and the free
blocks. `Alloc`, `Free` and `Realloc` are the functions of the code as operators on such a
record, with their parts named: the first free block that fits (`Place`), the
rest that stays free (`Split`), zeroing (`Cleared`), joining with the block
behind and then the one in front (`Join`). The actions are the builtins
`MemAlloc`, `MemFree`, `MemRealloc`, `MemCpy`, `MemFill` and `MemFails`; the pointer
stores of QuakeC are fills of one cell. Like the code, the model has no
headers inside the region, so QuakeC may write anywhere in it.

`HeapBlocks` is the abstract specification: allocated blocks that never overlap, zeroed when
handed out, changed only by writes, with contents that a reallocation carries
over. The refinement maps it to the requested bytes of the used blocks.

### Memory, Words, Interpreter

`Memory` has one byte-addressed space in three regions, with `locate` (where an
access lands), what a write may touch, reads of text up to a NUL, and the *views* of the inner
loop: all of region S, or a window of it with masked offsets. The number of bytes of a word and of
bits of a byte are parameters. `Words` has what each
integer, bitwise and shift opcode computes at the width of a word, and takes float
arithmetic as parameters: the results of `+` on floats are data, the conversions and the
truth of a float are not. The bits two words have in common (`BitAnd`) are a parameter too, since
no definition of them is within reach of both TLC and the provers; the other bitwise operations are
defined from it (`x | y` is `x + y - (x & y)`), and `MCInterpreter` gives it the library's.

In `Interpreter` every disjunct is one kind of statement (`StoreGlobal`, `StoreField`,
`LoadPointer`, `Branch`, `Switch`, ..., with the fast path first and what it falls
back to), with the ways the loop stops: a fault, the budget, a call, a return. Programs are not written out: the statement executed next is any that the loader lets
through, from any of the starts. View and fast paths are parameters, so the
interpreter without short cuts is an INSTANCE of the same module, and is the
specification of the one with them (`ShortCuts!FastPathsExact`).

What the loader lets through is an assumption on the statements (`StatementsAssumption`: operands
name a global or one of the three words after them, jumps lead to a statement or to the sentinel,
from `canonical_statements`), and `StartsAssumption` asks for sane memories.

`Call` is the whole statement: it is counted, the H forms copy B and C to PARM0 and PARM1, `argc` is
set, and only then the callee is read and looked up in `Callees`. A null, missing or invalid function, or
one that `enter` refuses, stops the loop at the call, with parameters and `argc` in place. How deep the
program is in calls is not part of this module, so `enter` may find the call depth reached at any call;
the room on the local stack is computed. What entering a function then does is `LocalStack`'s, and the switch
to another progs, which `enter` makes before it looks at the room, is `MultiProgs`'s.

### Program, MultiProgs

`Program!Parse` is `progs/load.rs`: a file is a record of its sections; the result is
an error or a program, with what the loader repairs (a bad opcode, an operand outside
the globals, a jump out of the code, a malformed function become statements
or functions that fail when reached) and what it refuses. `Operands` is the table in
`opcode.rs`.

`MultiProgs` is `build_core` and `add_progs`: where strings, globals and the tail of
20 bytes go, relocation of globals by their type, unification of fields by name
(`MapFields`), linking of functions that a program only declares, shared names, autocvars,
and the failures in the order of the code. Then `QcCall`, `QcReturn`, `QcFails`, `HostCall`,
`BuiltinReturn`, `BuiltinFails` with `switch_in` and `switch_out`; a builtin may load
progs in the middle of all this (`AddProgs`), the host may add a field, set cvars and
reset. `latest` is a history variable: the last value anybody gave a global. Here the
local stack is the value each frame saved; `LocalStack` is about the region.

### TempStrings

The slot table with its cursor, capacity and byte count (`Alloc`, `Extend`), pins, and
the collection, which frees every string that no aligned word of memory, no word of a
sleeping thread and no pin looks like. A string is its padded size. Places
`Elsewhere` (an unaligned word, a hash table value of another type, a variable of the host) hold
references that do not count. `CallEnds` collects when the outermost call ends and a
collection is due. `StringStore` is what QuakeC may rely on: a string that counts keeps its text, a new
one never takes its reference.

### Containers

`tables`, `gamestate`, `bufs`, `tokens` and `used`, the one counter all of them are
charged to. One action per builtin, each with the charge before the change, as in the
code. Buckets are sequences, newest last; string buffers have holes. What the getters
return is said by the abstract module `KeyStacks`, where a table is a
stack of values for each key, whatever bucket they share. So that the module can be
reasoned about, a sum is the size of a set (`BytesOf`), a sorted buffer is any
arrangement that `Orders` allows (there is just one), and `buf_loadfile` appends the longest
list of lines that `Accepted` lets through, instead of folds over sequences.

### Bytes, Charset, Strings, Tokens, PackedStrings, Convert, Json, Texts

The string builtins keep no state, so they are operators on sequences of bytes, with the
recursions of the code's loops. `Charset` decodes UTF-8 as the code does it, with overlong
forms and surrogate pairs, and the two other schemes; `Strings` has substrings, searches,
comparisons, replacement, case and `strconv`; `Tokens` the console and the QuakeC tokenizer,
`quote_string` and the URI escapes; `PackedStrings` info strings and alt strings; `Convert` integers of every
base and the extent of a floating-point number. They are loops over short texts and use RECURSIVE
operators: no theorem is stated about them.

`Json` uses the operators of `Heap` for its block. A document is the tree serde_json
would report, with the places where it stops being JSON; `Measure` and `Build` are the two
passes. A cell of its heap is a word, or a byte of a name.

`Texts` is their composition: a QuakeC program that holds one string and calls the
builtins on it in every order; its properties relate builtins to each other, or to a
definition of what they compute.

## The runs

| Run | Shows |
| --- | --- |
| `local_stack` | Two functions with overlapping locals, recursion, nested host calls, PUSH, faults, aborts, and a thread captured at any depth: the frames tile the local stack, each activation gets its locals back, each host call its registers; the thread is rebuilt on an idle stack as the same activations and never fails to fit. |
| `host_calls` | However calls nest and end: a builtin keeps its identity and argument count, an abort value reaches its own call, temp strings are collected only when idle, and no later than the end of the outermost call, and every warning of a call is delivered or counted. |
| `host_budget` | The chunked, shared budget is one counter; no statement is traced twice; every host call ends. |
| `entity_walk` | Reserved slots come only from claims, a freed slot rests while others will do, and a drawing walk hands on each steadily visible entity once, in order, alive. |
| `threads` | A pass runs the due threads, each once and in wake order, and ends; a failing thread costs no other thread its place; `self` is the same entity or the world. |
| `heap` | Used and free blocks tile the region, no two free blocks touch, and the allocator keeps the promises of `HeapBlocks`. |
| `interpreter` | Every statement with operand words next to every boundary of the address space: the window, the views and the fast paths do what the plain checks would, with the same warnings and errors; no store reaches a protected entity or what is not a field; every backward jump is charged; a statement that is stopped has changed nothing but what a switch or a call that fails sets by then. |
| `multiprogs` | A main program and two add-ons out of four, loaded by the host or from a builtin in the middle of calls between them: the progs that runs sees the last value of every global all progs share, however calls end; relocated code of malformed files stays in its block; one field layout, also after a load that failed; extern functions are linked. |
| `strings` | Temp strings made, grown, copied, pinned and dropped up to both limits: nothing that counts is collected or overwritten, the counters are exact, and a slot is refused at the limit only. |
| `containers` | One storage budget is the sum of what all containers hold, in whatever order they are filled, replaced, sorted and dropped; each key of a hash table is a stack of its own. |
| `texts` | The string builtins agree with each other and with what they compute: quoting and tokenizing, characters and bytes, searches and comparisons, info and alt strings, numbers and their extent, JSON documents and their trees, with enough room and without. |
| `sleep_from_builtin` | *violated*: `sleep` called through `callfunction` lets the thread go on and wakes a copy as well. |

The violated run checks a sentence of a comment that the code does not keep;
`PROJECT.json` quotes it under `findings`.

### Disagreements met, not run

The models show, or reading for them showed, other places where the code and a sentence about
it part. Where a module defines the sentence as a property no run checks it; the name is given.

- The deadline is "checked every 65,536 counted instructions" (`vm/config.rs:19-20`). The
  loop of `execute_inner` takes a new chunk also after a builtin, and looks at the deadline only when a
  chunk is used up (`vm/mod.rs:507`): QuakeC that calls builtins often enough is never
  checked (`HostCalls!DeadlineCheckedEveryChunk`).
- "Every statement is passed to `Host::trace` before it runs" (`vm/mod.rs:581-582`). The flag
  that a statement has been reported survives an error of the budget (`vm/interp.rs:425`); the
  next traced run skips its first statement (`HostCalls!EveryStatementTraced`).
- "Entities spawned during the walk are not visited" (`csqc.rs:44-45`). After predraw only the
  slot is looked at (`csqc.rs:71`): one freed and spawned again is handed on
  (`EntityWalk!WalkVisitsNoNewEntity`).
- "Maximum number of sleeping QuakeC threads" (`vm/config.rs:36`). A pass that fails puts its queue
  back on top of what was forked meanwhile (`vm/threads.rs:193`; `Threads!ThreadsLimited`).
- `addprogs` returns -1 "if the host cannot provide it or it does not fit" and passes on errors of
  `init` (`stdlib/progs.rs:18-19`). An OutOfMemory error of `init` becomes -1 although the
  progs stays loaded (`MultiProgs!AnsweredProgsOnly`).
- An info string that would be too long is returned unchanged (`docs/spec/deviations.md:49`, and the comments
  at `stdlib/string.rs:930-931` and `975-977`). `info_set` removes `*ver` to make room for a longer
  value of a key, and returns the string without it when that is not enough
  (`stdlib/string.rs:945-955`). `PackedStringsKept` allows the loss of `*ver` in a refused change in
  that case only, and holds the code to the documents in every other.
- "The mask changes no offset of a VM the window fits" (`vm/interp.rs:240`), and PARM lies below
  `num_globals` (`vm/interp.rs:243-246`). The loader asks for no minimum of globals. A progs with fewer than four
  (none, for PARM0) whose block ends near 4 MiB gets the window, and the mask then takes the parameters of
  an H call to the start of memory, where null is. `FastPathsExact` and the part of
  `ProtectedFieldsKept` about null leave out these calls (`ParmsInView`), and nothing else.
- A statement the budget stops "has had no effect" (`vm/interp.rs:73`). A SWITCH has set its registers
  (it sets them again), and a CASE on strings that do not resolve has raised its warning, which it
  raises again when it runs again.
- `copyentity` from or to a free entity is an error of the builtin, says its comment; in
  developer mode the code warns and copies (`stdlib/entity.rs:476`).
- `container_bytes` limits the storage of all containers (`vm/config.rs:46-47`); the 256 buckets
  of gamestate are not charged.
- A resumed thread is "a host call of its own" (`vm/threads.rs:186`), but it inherits the warning count
  of the last call, and its warnings beyond the limit are neither delivered nor reported as
  suppressed; `CallReportsWarnings` speaks of the calls of the host only.

Oddities no document speaks of: in a traceback the statement shown for a caller is the one
*after* its call, because frames keep the address to return to. `state_handles`, the remove
and the spawn defaults are resolved when the main progs loads and do not follow fields added later. The last operands of the
main progs reach two words into the local stack. A global that only some progs share keeps
an old value across a chain of calls through one that lacks it (`SharedIsLatest` therefore
speaks of the globals all have). `substring` with a start of -2^31 and a length of -1 wraps.
`altstr_prepare` does not escape backslashes. Info keys and values lose bytes up to 13 after
the pair was built, so that two keys may become the same.

### Bounds

| Constant or bound | Values in the runs | Why enough |
| --- | --- | --- |
| `Statements`, `CallDepth`, `LsWords`, `Reentry` (LocalStack) | 2, 2, 3, 2 | Each limit is reached with the others not yet reached: recursion, a nested host call inside it, a local stack that overflows before and after the depth does. An activation can PUSH, call, and be resumed at two distinct statements. |
| functions, words | 2, with 1 and 2 words that overlap | Overlap makes one function's saved locals hold another's live words; a function with a parameter and one without. |
| `Val` | {0, 1} | Two values tell a restored word from a clobbered one. |
| `MaxSleeping` (LocalStack) | 1 | One sleeper against every later stack; two threads never share a stack, because a pass rebuilds one at a time. |
| `Runaway`, `BudgetChunk` | 3 and 2 | A budget that is not a multiple of the chunk: a full chunk, a partial one, and the last statement refused. |
| `WarningsPerCall`, `MaxWarnings` | 1, 2 | One warning delivered and one suppressed. |
| `MaxEdicts`, `FirstSpawnable`, `Early`, `Quiet`, `MaxClock` | 4, 2, 1, 1, 3 | The world, a reserved slot and two ordinary ones; a slot freed in the early period, one freed after it, and the time for it to have rested and not. |
| `MaxTakes` | 3 | How often slots come into use: a slot used, freed and used again, beside another. |
| `SerialMod` | 4 or 8 | Larger than `MaxTakes`: serials never wrap. |
| `ThreadLimit`, `MaxAsleep` | 2, 3 | Two due threads, one of which fails after forking: the smallest case in which a limit and a queue meet. |
| `Delays`, `MaxTime` | {0, 1}, 1 | Threads due at once and threads that are not. |
| `MaxDepth` | 2 | A call made back from a resumed thread. |
| `Align`, `MaxHeap`, `MaxAlloc`, `Requests` | 2, 8, 3, {0, 1, 3, 4} | Blocks of one and of two units in a region of four: a free block with free blocks on both sides, a fit that leaves a rest, an exact fit, a request too large, a size rounded up and a size of 0, and copies that overlap. |
| word of 2 bytes of 4 bits, `Near` (Interpreter) | 256 values of a word; 18 operand values | A word is large enough for every region, its ends, handles of strings and a sign. `Near` has the value before, at and after each boundary: null, the globals, the window, region S, both entities and the fields past them, the heap, strings that exist and that do not. |
| `Callees` (Interpreter) | one of each kind; locals of 6 and of 7 words | A call that enters, one that overflows the local stack by a word, and every way to fail, with the callee read from a word that the copy of the parameters may have changed. |
| `Step` | 1 | The properties are about one statement; the starts range over the operands instead of reaching them by computation. |
| `NumParms`, `NameBytesMax`, the files (MultiProgs) | 1, 50, 4 | One vector of parameters to copy; the add-ons each make a different step of `add_progs` fail or repair something, as `MCMultiProgs` lists. |
| `ProgsLimit`, `CallDepth`, `Reentry`, `StrideWords` | 3, 3, 2, 8 | Two switches deep in either order, an entry that fails after its switch, a builtin in the middle, entities that the third program overflows. |
| `InitialSlots`, `MaxSlots`, `MaxBytes`, `Lengths`, `Unit` (TempStrings) | 2, 3, 20, {2, 7}, 4 | A table that grows once to an odd limit, a cursor that wraps, bytes that run out before and after slots do. |
| places, `MaxRef`, `MaxPins` | one aligned and one not, 2, 1 | Every reference can be named by a root, by a place that does not count, by a pin, by all or none. |
| `ContainerLimit` and sizes (Containers) | 9; 1 or 2 a unit | The limit is reached by each kind of container alone and by what is left after another; recharging grows and shrinks by one. |
| keys, tables, buffers | 3 keys, of which two share a bucket; 1 and 2 | A key among the entries of another; a handle used again; gamestate beside it. |
| `InfoMax`, `InfoPairMax`, `InfoKeyMax`, `InfoFieldMax`, the info strings and `InfoPieces` (Texts) | 15, 8, 6, 7; one and two pairs up to 14 bytes; keys and values of 1 to 15 bytes | The limits are to each other as in the code: a cut value can just be searched. `*ver` is given up for a value that then fits, and in vain; a pair is cut; a key is one byte too long and just short enough; a string is as long as it may be; a new key, a longer value and a longer `*ver` are refused. The property tries every `InfoPieces` on every info string; the program itself passes on only what it gets with `Pieces`. |
| `MaxCalls`, `MaxLen` (Texts) | 2, 8 | Three builtins in a row with the properties' own; texts long enough for an escape in the middle, two pairs of an info string, a comment and a word, two surrogates. |
| `TempBuf`, `TokenMax`, `CStringMax`, `ConcatMax`, ... (Texts) | 5 to 20 bytes | The code's limits of 64 bytes to a megabyte, brought down so that each is reached by the texts of the run. |
| `IntBits`, `LongBits` | 8, 12 | Saturation and unsigned negation at both widths, with three-digit numbers. |
| `JsonDepth`, `JsonLen`, `HeapMax` | 3, 1, 48 words | Documents of one container in another with two children each; heaps empty, used in part and with a hole, with room for the tree, for one unit less, and none. |

Deadlock is checked except in `interpreter` and `texts`, which stop by design: the
interpreter at an exit of its loop, the program of `Texts` at `MaxCalls`. Elsewhere
the host can always do something.

### Fairness

`HostCalls!FairSpec` assumes what the code has: the VM's own bookkeeping steps
happen; the interpreter reaches a counted statement after finitely many
straight-line ones, since code is finite and every jump is counted; and the
host code of each level, a builtin or a hook, returns at last. The last two are
strong fairness for each level of the native stack, because a level is
interrupted, again and again, by calls it makes back. That a *host call* ends is then a
consequence of the budget, which is what `HostCallsEnd` checks.

`Threads!FairSpec` assumes that `run_threads` goes on (weak fairness of `Resume` and
`EndPass`) and that each run of QuakeC ends, for each level of nesting: this is what
`host_budget` shows of one host call, assumed here.

No fairness is assumed of anything the host need not do: calling, spawning,
letting time pass.

## The proofs

Checked by TLAPS for every value of the constants that satisfies the named
assumptions (`LocalStackAssumption`, `HostCallsAssumption`, `EdictsAssumption`, `ThreadsAssumption`,
`HeapAssumption`, `TempStringsAssumption`, `ContainersAssumption`, for `MultiProgs` `ProgramAssumption`,
`MultiProgsAssumption` and `FilesAssumption`, and for the interpreter `MemoryAssumption`, `WordsAssumption`,
`InterpreterAssumption`, `CalleesAssumption`, `StatementsAssumption` and `StartsAssumption`).

`LocalStackProofs`. The properties are not inductive: that a leaving function restores its
own locals needs the layout of all frames below it, and that a rebuilt stack is
the captured one needs the layout at the time of the capture. The inductive invariant `IInv` joins
the types, the layout (`FramesTileStack`, `SavedLocalsIntact`), that the ends of frames are in
order, that each frame's caller context agrees with the function that was
called (`ContextsOK`), that engine boundaries lie in order at depths that
exist and keep the registers of their caller (`BoundsOK`, `HostKept`), and what is true of a
captured thread: its recorded shape is again a tiling, counted from word 0. From
it follow `TypeCorrect`, `LayoutCorrect` (the two parts of the layout together), `IdleClean`, `ResumeAlwaysFits`,
`LocalsAlwaysRestored`, `CallerContextAlwaysRestored` and `ResumeAlwaysRebuilds`.
`ResumeAlwaysFits` is the reason why nothing in `run_threads` handles a thread
that cannot be rebuilt: a thread is captured no lower than it is rebuilt.

`HostCallsProofs`. `IInv` joins the types, the stack (`StackOK`: `nesting` counts
it, and a resumed thread is outermost), the contexts builtins saved (`ContextOK`),
where an abort value may wait (`AbortReachesItsCall`), the budget (`BudgetOK`: the chunk of
a run is the one the budget gave it, and its last statement is still to be
refused) and the warnings (`WarningsOK`: those unheard in a call of the host are
queued or suppressed). From it follow
`TypesHold`, `NestingAlwaysCounts`, `BuiltinAlwaysKeepsContext`,
`AbortAlwaysReachesItsCall`, `AlwaysCollectsWhenIdle`, `CallAlwaysReportsWarnings` and,
by a step simulation, `BudgetImplementsCounter`. `NeverTracedTwice` has an invariant of its own: a
run traces when the VM does, and while a reported statement has not run, the interpreter is at it,
tracing, with the mark that it was reported (`TraceInv`). A step keeps this, forgets the
report, makes one where no mark is, or lets the statement run (`TraceStepKept`).

`EntityProofs`, in three parts. *The table.* What `Pick` may choose, what `Spawn`
does to it (`SpawnLeavesReserved`, `SpawnLeavesResting`), that every operation keeps
its types and the sum of lives, and that a serial counts the occupants of its slot
(`SerialsCount`). The other two parts build on this.

*The walk.* That a walk misses no entity is not inductive: between two steps the table may be changed
by anyone, so `WalkInv` says of the entities that have been visible since the
walk began (`SteadyVisited`) that they are still in use and that those behind
the index have been handed on, with `AddedBehind` (what has been handed on lies
behind the index, in order), `WalkInTable` and `TakesCount`. From it follow `WalkTypesHold`,
`ReservedAlwaysClaimed`, `RemovedSlotAlwaysRests`, both as `SlotsAlwaysRespected`, `WalkNeverMisses` and
`WalkAlwaysAddsLiveInOrder`.

*Threads.* `StartPass` arranges positions of the list of sleepers (`Arranged`): the due ones by
their wake times, the others as they were. What is proved of it is counting: a permutation of
positions leaves every thread as often as it was (`SplitAt`), so that sleepers, queue and the
threads resumed add up (`TimesConcat`, `TimesAppend`, `HeadThenTail`), and a step loses or doubles
none (`SleepersAlwaysKept`). The invariant `ThreadsInv` joins the types, that outside a pass the queue
is empty, that the due threads of a pass are those resumed and those queued, in that order
(`PassAlwaysRunsDueInOrder`), and of each copy of a thread that the serial in it is no later than the
lives of its slot, and tells its `self`, or the free slot `self` was, from every later occupant
(`CopiesSound`). From the last follows `ResumedSelfAlwaysSame`, where the code compares serials and
the property speaks of lives: the two agree because serials do not wrap within `MaxTakes`.

`HeapProofs`. `TypeOK` and `BlocksTile` together are inductive; neither is alone. The
argument is made for an interval tiled by two kinds of blocks (`Fills`,
`Coalesced`), apart from the records of the code: growing (`ExtendFills`), an exact fit
(`TakeFills`), a fit with a rest (`SplitFills`), and for freeing, a block that
changes its kind (`LoosenFills`) and the joining of two neighbours (`JoinFills`), done
behind and then in front (`JoinKeepsTiling`). That the code need only look at the *last* free
block before the freed one is where the tiling is used: any block that ends where the
freed one starts is that one. From it follow `TypesHold`, `BlocksAlwaysTile` and
`HeapImplementsBlocks`, for every alignment (the code's is 16), region and
sequence of requests.

`TempStringsProofs`. `IInv` joins the shape of the table (no slot beyond the capacity, the capacity within the
limit), the types of pins and words, and that `live` counts the used slots. The last is what
makes the search of `free_slot` succeed: fewer live strings than capacity means a free slot
(`SlotFound`, by the cardinality of the interval), and from a set of distances around the table a least one can be
chosen. A collection subtracts the dead it has counted. From it follow
`LiveAlwaysExact`, `SlotsRefusedOnlyAtLimit` and, by a step simulation,
`StringsAlwaysKept`. That `bytes` is exact too is a sum over a set. As a fold nothing could be
proved of it, so it is stated as a cardinality: the bytes a set of slots holds are the pairs of a
slot and a number up to its size (`BytesIn`), and adding, removing or growing a slot adds or removes
disjoint pairs (`TotalOfTwo`, `TotalWithout`). That gives `LimitsAlwaysExact`.

`InterpreterProofs`, in three parts.

*How a statement ends.* Every statement follows on, is charged, stops where it is, or leaves the loop
(`Outcome`), one lemma for each section of the module. `LoopsAlwaysCharged` follows from that alone, and
so does most of `StopsAlwaysClean`: a statement that stops the loop leaves memory and registers as they are, but for a
switch and a call that fails (`StepStops`). That such a call writes only the words of its parameters needs the
effect of its copies (`ParmsRewrite`).

*What a statement may change.* `IInv` joins the types, that region S has a first byte, and that the window, if used, lies inside region S (`WindowIn`). `Keeps(m, d)` says that memory d has the
regions, slots and null byte of m and the same bytes in every protected or reserved place; every operator that
writes is shown to give such a memory (for the parameters of a call out of view: one that may differ in the null byte, `Shapes`), under the guard the code has in front of it (`PutWordKeeps`,
`WrittenKeeps`, `WithFieldKeeps`), then every statement (`StepEffect`) and the registers with it. That needs the
arithmetic of the opcodes to yield words again (`IntResultType`, ..., `BitCopyType`), at every width.
The provers know nothing of powers with a variable exponent and cannot do induction, so a power
of two is taken as the size of a power set (`PowerIsSize`, `PowerOfSum`), and that the
little-endian number of n bytes is below `Vals(n)` is proved by a least counterexample (`NumBounded`). From it follow
`TypesHold` and `ProtectedAlwaysKept`.

*Short cuts.* Whether by a masked offset in the window or the plain one, an operand of a loaded statement is
in reach (`OperandReach`), so each operator of the interpreter with short cuts equals the
same operator of the one without, on operands in reach; a view reads and writes what `Locate`
finds where it applies at all (`ViewReadIsRead`, `ViewWriteIsWritten`); and so every
step is, statement by statement, a step of the interpreter without them: `ShortCutsAlwaysExact`.
The switch register is part of this: CASE reads a live reference, which must be in reach too.

`ContainersProofs`, in two parts.

*The budget.* A sum is the number of pairs of an index and a number up to the value there
(`BytesOf`). What the operations do to a sequence is a handful of shapes: an element is
replaced, appended or removed, two lists are joined, a list is arranged anew. For each
there is one lemma that says what becomes of the sum (`SumReplaced`, `SumExtended`,
`SumRemoved`, `SumJoined`, `SumArranged`; under them a bijection carries a sum along,
`TotalMapped`). The last is what sorting needs: the texts of a buffer, put in any order
without its holes, weigh what they weighed with them. These are used twice over: for the
entries of a bucket and for the buckets of a table (`BucketReplaced`, `TableChanged`).
`ContainersInv` says of every table and buffer that it is charged what it holds, and of `used`
that it is the sum of them all and within the limit. That gives `BudgetAlwaysBalances`; that a
token list cut to the budget can be charged needs that the greatest number of tokens which fit
exists, and that the slack counted for each is at least what is charged (`AffordableFacts`).

*The stacks.* `KeyStacks` numbers the entries of a key from the oldest, the code finds them by
place. The rank of a place in a set (`RankOf`) is a bijection to `1 .. n` and is kept
by every map that keeps the order (`RankMapped`): so an entry taken out of a bucket
moves the places behind it without changing another key's stack (`StackRemoved`), and an entry put at
the end is on top (`StackPushed`). That the newest is removed is what makes it a pop
(`StackPopped`). `TablesImplementStacks` maps each builtin to a step of `KeyStacks` or to none,
for every hash function and number of buckets.

`MultiProgsProofs`, in two parts.

*Loading.* For any file whose records have the fields of their format (`IsFile`), a program that
`Parse` accepts names nothing outside itself (`ParsedFits`): an operand that names a global is
below the number of globals and their tail, or the statement was poisoned and its operands are zero
(`CanonicalStatementFits`); a jump leads to a statement or to the sentinel (`JumpsFit`); a
function that can be called has its locals and copies inside (`CanonicalFunctionFits`, with the slot
each copied word belongs to in `CopiesType`).

*Placing.* Relocated to its place, such a program stays between its globals and its end
(`RelocatedCodeInside`, `CallInside`): the tail of 20 bytes is what a vector at the last word
operands may name needs. `ProgsInv` says that every progs is placed so (`PlacedWell`), that one
begins where the one before ends or later, and that region S ends with the last and within its reserve. Only
`add_progs` and `reset` change this; calls, returns, failures and unwinding, however nested,
leave the list of progs alone (`CallInnerKeeps`, `FailsKeep`, `CallsKeep`). From it follows
`CodeAlwaysInside`. Its assumptions on the constants are that the files are files, that the
main program loads and fits in region S (otherwise there is no VM), and a local stack of at least one
word (the code allots 16 or more): the main program's globals have a tail of three words only, and
the local stack behind it makes up the rest.

Only model-checked: `HostCallsEnd` and `PassEnds` (liveness, out of the prover's
reach); the other three properties of `MultiProgs`, which are about region S and the field table,
built by folds over the definitions of a program in their order; and those of `Texts`, whose
modules use RECURSIVE operators. `FieldsConsistent` and `ExternsLinked` are also not true of
every file: they say what holds of programs a compiler makes, like those of the run.

## What the models leave out

- `LocalStack`: which progs a function belongs to (`MultiProgs` has it).
- `HostCalls`: a `reset` made from inside a builtin; the values that calls return.
- `Edicts`: running out of memory; a host clock that goes back; serials
  that wrap (four thousand million uses of one slot).
- `EntityWalk`: walks inside walks.
- `Heap`: addresses (a pointer is an offset into the region; `Memory` has the regions),
  contents copied from other regions, and the process running out of memory.
- `Threads`: `sleep` for NaN seconds, which is never due; a clock of `time` finer than
  ticks.
- `Interpreter`: the values of floating-point arithmetic, and the opcodes on doubles;
  tracing (`HostCalls` has it); what happens after the loop is left. Opcodes that differ only in
  the type of a word (`LoadS`, `LoadEnt`, ...) are one statement.
- `Program`: reading bytes into records, and decompression; the order of sections in a file.
- `MultiProgs`: a builtin called by a builtin of another progs, which runs on the globals of the
  caller: with `ForeignBuiltins = TRUE`, `SharedIsLatest` fails, and `docs/design.md:113-114`
  leaves the case open. Files whose fields two names put in the same words, which
  unification then separates. Threads asleep across a load.
- `TempStrings`: static strings (`intern`), which only grow; the text of strings. Words of the heap
  count as roots also in blocks that are free.
- `Containers`: `hash_getcb`, which changes no table and calls back with a copy of the entries;
  conversions between the types of values.
- `Texts`: limits of 8,188 bytes and more on the output of the URI builtins and of case
  conversion; `json_get_float`; the byte order mark that `json_parse` skips; the values
  of floating-point numbers, of which only the extent is modelled.

## Not modelled

The disassembler and the reader of line numbers format and parse files and keep no state.
The entity builtins (searches, `copyentity`, entity strings) walk the table of `Edicts` and
call hooks of the host. Maths and vector builtins, `sprintf`, `strftime`, digests, colour
markup and decolorizing compute and format values without state, most of them in floating point,
which is out of TLC's reach. Engine and time builtins forward to the host. Name lookup and dumps of
reflection read what other components keep. `builtins/numbers.rs` is a table of names.
The files under `src/` that test or measure the crate are not modelled.

## Plan

Done, in order of importance: the stacks (`LocalStack`), host calls (`HostCalls` over
`InstructionBudget`), entities and the walk (`Edicts`, `EntityWalk`), threads
(`Threads`), the heap (`Heap` over `HeapBlocks`), memory and the interpreter (`Memory`, `Words`,
`Interpreter`), loading and progs (`Program`, `MultiProgs`), temp strings (`TempStrings`
over `StringStore`), containers (`Containers` over `KeyStacks`), the string builtins and JSON
(`Texts` and the modules it composes).

Next:

1. A proof of `SharedIsLatest`, from what `switch_in` and `switch_out` copy, for programs whose
   shared globals do not overlap.
2. Entity builtins over `Edicts` (the remove hook, `copyentity`), if a property of `Edicts` gives way.
