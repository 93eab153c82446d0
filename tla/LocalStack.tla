---------------------------- MODULE LocalStack ----------------------------
(***************************************************************************)
(* The call stack and the local stack of the VM (vm/core.rs, with the      *)
(* control paths of vm/mod.rs and the capture and rebuild of vm/threads.rs *)
(* that push and pop frames).                                              *)
(*                                                                         *)
(* QuakeC locals are statically allocated words of the globals block.      *)
(* Entering a function saves the current contents of its locals on the     *)
(* local stack, so that recursion works; leaving restores them.  Words a   *)
(* function PUSHes sit above its saved locals.  A host call marks the      *)
(* depth its frames start at (`entry_depth`); a return, an error and an    *)
(* abort() all bring the stack back there.  A sleeping thread is a copy    *)
(* of the part of the stack above that mark, rebuilt later from the idle   *)
(* stack.                                                                  *)
(*                                                                         *)
(* Abstracted: statements other than those that touch this state, the      *)
(* progs number of a function (one function identity stands for both),     *)
(* wake times and the order of threads (module Threads).                   *)
(***************************************************************************)
EXTENDS Integers, SequencesExt

CONSTANTS
  Func,         \* QuakeC functions of all loaded progs
  Base,         \* Base[f]: first word of f's locals in the globals
  Words,        \* Words[f]: how many words of locals f has
  Params,       \* Params[f]: how many of them the parameter copies fill
  GlobalWords,  \* words of globals the locals of all functions lie in
  LsWords,      \* local-stack size (limits.local_stack_words)
  CallDepth,    \* limits.call_depth
  Reentry,      \* limits.reentry
  MaxSleeping,  \* limits.threads
  SwitchReset,  \* compat.switch_reset_on_call
  Val,          \* values of a word
  Statements,   \* bound: statements an activation may execute
  MaxPush,      \* bound: words one PUSH may ask for
  NoFunc        \* NO_FUNCTION: nothing is running

Addr == 0 .. GlobalWords - 1
Slot == 0 .. LsWords - 1

ASSUME LocalStackAssumption ==
  /\ GlobalWords \in Nat /\ LsWords \in Nat /\ CallDepth \in Nat
  /\ Reentry \in Nat /\ MaxSleeping \in Nat
  /\ Statements \in Nat /\ MaxPush \in Nat /\ SwitchReset \in BOOLEAN
  /\ Base \in [Func -> Nat] /\ Words \in [Func -> Nat] /\ Params \in [Func -> Nat]
  /\ \A f \in Func : Base[f] + Words[f] <= GlobalWords
  /\ NoFunc \notin Func /\ 0 \in Val

VARIABLES
  frames,    \* Core::frames
  x,         \* Core::x, the registers of the running function
  g,         \* the words of the globals that hold locals
  ls,        \* the words of the local stack
  bounds,    \* engine boundaries on the native stack, outermost first
  mode,      \* who runs: "host", "qc", or a loop of the VM: "unwind", "resume"
  sleeping,  \* Core::threads
  waking,    \* the thread being rebuilt, <<>> if none
  saved      \* history: for each frame, its callee's locals when it was entered

vars == <<frames, x, g, ls, bounds, mode, sleeping, waking, saved>>

Pc == 0 .. Statements
Exec == [func : Func \cup {NoFunc}, pc : Pc, pushed : 0 .. LsWords, sw : {0, 1},
         ls_top : 0 .. LsWords, locals_addr : Nat, locals_words : Nat]
Frame == [func : Func \cup {NoFunc}, resume_pc : Pc, pushed : 0 .. LsWords, sw : {0, 1},
          locals_at : 0 .. LsWords, locals_addr : Nat, locals_words : Nat]
Boundary == [depth : Nat, host : Exec]
Mode == {"host", "qc", "unwind", "resume"}

\* The registers while no QuakeC runs.
IdleExec == [func |-> NoFunc, pc |-> 0, pushed |-> 0, sw |-> 0, ls_top |-> 0,
             locals_addr |-> 0, locals_words |-> 0]

Init ==
  /\ frames = <<>> /\ x = IdleExec
  /\ g \in [Addr -> Val] /\ ls = [s \in Slot |-> 0]
  /\ bounds = <<>> /\ mode = "host"
  /\ sleeping = <<>> /\ waking = <<>> /\ saved = <<>>

\* Core::entry_depth: where the frames of the nearest engine boundary start.
Depth == Last(bounds).depth

\* With n frames left the nearest engine boundary is reached.
AtBoundary(n) == n <= Depth

-----------------------------------------------------------------------------
(* Entering and leaving a function.                                        *)

LocalsOf(f) == Base[f] .. Base[f] + Words[f] - 1

\* Where the callee's locals are saved: above everything the caller uses.
EnterAtOverPushed == x.ls_top
EnterAt == x.ls_top + x.pushed

CanEnter(f) ==
  /\ Len(frames) < CallDepth
  /\ EnterAt + Words[f] <= LsWords

\* Saves f's locals, copies the parameters over them (from the PARM slots: any
\* value), and pushes the caller.
Enter(f, resume_pc, pushed, sw) ==
  LET at == EnterAt
      args == Base[f] .. Base[f] + Params[f] - 1
  IN /\ ls' = [s \in Slot |-> IF s \in at .. at + Words[f] - 1
                                THEN g[Base[f] + (s - at)] ELSE ls[s]]
     /\ \E v \in Val : g' = [a \in Addr |-> IF a \in args THEN v ELSE g[a]]
     /\ frames' = Append(frames,
          [func |-> x.func, resume_pc |-> resume_pc, pushed |-> x.pushed, sw |-> x.sw,
           locals_at |-> at, locals_addr |-> x.locals_addr, locals_words |-> x.locals_words])
     /\ x' = [func |-> f, pc |-> 0, pushed |-> pushed, sw |-> sw, ls_top |-> at + Words[f],
              locals_addr |-> Base[f], locals_words |-> Words[f]]
     /\ saved' = Append(saved, [k \in 0 .. Words[f] - 1 |-> g[Base[f] + k]])

\* Where the running function's locals are saved.
LeaveTopPastPushed == x.ls_top + x.pushed - x.locals_words
LeaveTop == x.ls_top - x.locals_words

SwitchBackLost(frame) == 0
SwitchBack(frame) == IF SwitchReset THEN 0 ELSE frame.sw

Leave ==
  LET top == LeaveTop
      lo == x.locals_addr
      frame == Last(frames)
  IN /\ g' = [a \in Addr |-> IF a \in lo .. lo + x.locals_words - 1
                               THEN ls[top + (a - lo)] ELSE g[a]]
     /\ frames' = Front(frames)
     /\ x' = [func |-> frame.func, pc |-> frame.resume_pc, pushed |-> frame.pushed,
              sw |-> SwitchBack(frame), ls_top |-> top - frame.pushed,
              locals_addr |-> frame.locals_addr, locals_words |-> frame.locals_words]
     /\ saved' = Front(saved)
     /\ UNCHANGED ls

-----------------------------------------------------------------------------
(* The host: call_inner on a QuakeC function, and builtins finishing.      *)

\* A call of a QuakeC function by the engine or by a running builtin.
HostCall(f) ==
  /\ mode = "host" /\ Len(bounds) < Reentry
  /\ CanEnter(f)
  /\ Enter(f, x.pc, 0, 0)
  /\ bounds' = Append(bounds, [depth |-> Len(frames), host |-> x])
  /\ mode' = "qc"
  /\ UNCHANGED <<sleeping, waking>>

InBuiltin == mode = "host" /\ bounds # <<>>

BuiltinReturns ==
  /\ InBuiltin
  /\ mode' = "qc"
  /\ UNCHANGED <<frames, x, g, ls, bounds, sleeping, waking, saved>>

\* A builtin error, or abort(): both unwind to the nearest engine boundary.
BuiltinFails ==
  /\ InBuiltin
  /\ mode' = "unwind"
  /\ UNCHANGED <<frames, x, g, ls, bounds, sleeping, waking, saved>>

Unwinding ==
  /\ mode = "unwind" /\ ~AtBoundary(Len(frames))
  /\ Leave
  /\ UNCHANGED <<bounds, mode, sleeping, waking>>

Unwound ==
  /\ mode = "unwind" /\ AtBoundary(Len(frames))
  /\ bounds' = Front(bounds) /\ mode' = "host"
  /\ UNCHANGED <<frames, x, g, ls, sleeping, waking, saved>>

-----------------------------------------------------------------------------
(* QuakeC statements.                                                      *)

Running == mode = "qc" /\ x.pc < Statements

Fault ==
  /\ mode' = "unwind"
  /\ UNCHANGED <<frames, x, g, ls, bounds, sleeping, waking, saved>>

Call(f) ==
  /\ Running
  /\ \/ /\ CanEnter(f)
        /\ Enter(f, x.pc + 1, 0, 0)
        /\ UNCHANGED <<bounds, mode, sleeping, waking>>
     \/ ~CanEnter(f) /\ Fault

CallBuiltin ==
  /\ Running
  /\ x' = [x EXCEPT !.pc = @ + 1]
  /\ mode' = "host"
  /\ UNCHANGED <<frames, g, ls, bounds, sleeping, waking, saved>>

Return ==
  /\ mode = "qc"
  /\ Leave
  /\ IF AtBoundary(Len(frames) - 1)
       THEN bounds' = Front(bounds) /\ mode' = "host"
       ELSE UNCHANGED <<bounds, mode>>
  /\ UNCHANGED <<sleeping, waking>>

\* Any statement that cannot continue: a bad opcode, an invalid pointer, the budget.
StatementFaults == Running /\ Fault

Push(n) ==
  /\ Running
  /\ \/ /\ x.ls_top + x.pushed + n < LsWords
        /\ x' = [x EXCEPT !.pushed = @ + n, !.pc = @ + 1]
        /\ UNCHANGED <<frames, g, ls, bounds, mode, sleeping, waking, saved>>
     \/ x.ls_top + x.pushed + n >= LsWords /\ Fault

Switch ==
  /\ Running
  /\ x' = [x EXCEPT !.sw = 1, !.pc = @ + 1]
  /\ UNCHANGED <<frames, g, ls, bounds, mode, sleeping, waking, saved>>

\* A store to a global operand, which may be a local of any function.
StoreGlobal(a, v) ==
  /\ Running
  /\ g' = [g EXCEPT ![a] = v]
  /\ x' = [x EXCEPT !.pc = @ + 1]
  /\ UNCHANGED <<frames, ls, bounds, mode, sleeping, waking, saved>>

\* The slots pushed by the running function and by its callers.
PushedSlots ==
  (x.ls_top .. x.ls_top + x.pushed - 1) \cup
  UNION {frames[i].locals_at - frames[i].pushed .. frames[i].locals_at - 1 : i \in 1 .. Len(frames)}

\* A store through a pointer PUSH returned, to this function or to a caller.
StorePushed(s, v) ==
  /\ Running /\ s \in PushedSlots
  /\ ls' = [ls EXCEPT ![s] = v]
  /\ x' = [x EXCEPT !.pc = @ + 1]
  /\ UNCHANGED <<frames, g, bounds, mode, sleeping, waking, saved>>

-----------------------------------------------------------------------------
(* Threads: the captured part of the stack (vm/threads.rs).                *)

Activation == [func : Func, pc : Pc, pushed : 0 .. LsWords, sw : {0, 1}]

\* What the part of the stack above the frame `root` looks like, with its slots
\* counted from the root's saved locals.
Shape(root) ==
  LET origin == frames[root].locals_at
  IN [fs |-> [i \in 1 .. Len(frames) - root |->
                [frames[root + i] EXCEPT !.locals_at = @ - origin]],
      top |-> [x EXCEPT !.ls_top = @ - origin]]

\* The activation a frame describes: the caller, where it goes on.
CallerActivationUnpushed(f) == [func |-> f.func, pc |-> f.resume_pc, pushed |-> 0, sw |-> f.sw]
CallerActivation(f) == [func |-> f.func, pc |-> f.resume_pc, pushed |-> f.pushed, sw |-> f.sw]

\* The first local-stack word a thread captures.
CaptureFrom == frames[Depth + 1].locals_at

Snapshot ==
  LET root == Depth + 1
      origin == CaptureFrom
      n == Len(frames) - Depth
      chain == [i \in 1 .. n |->
        IF i < n THEN CallerActivation(frames[root + i])
        ELSE [func |-> x.func, pc |-> x.pc, pushed |-> x.pushed, sw |-> x.sw]]
  IN [chain |-> chain,
      stack |-> [k \in 1 .. x.ls_top + x.pushed - origin |-> ls[origin + k - 1]],
      locals |-> [a \in UNION {LocalsOf(chain[i].func) : i \in 1 .. n} |-> g[a]],
      \* history: what the rebuilt stack must look like
      shape |-> Shape(root),
      saved |-> SubSeq(saved, root, Len(saved))]

\* sleep: the thread is captured, then the running copy aborts.
\* fork: the thread is captured and the running copy continues.
Suspend(next) ==
  /\ InBuiltin /\ Len(frames) > Depth
  /\ Len(sleeping) < MaxSleeping
  /\ sleeping' = Append(sleeping, Snapshot)
  /\ mode' = next
  /\ UNCHANGED <<frames, x, g, ls, bounds, waking, saved>>

Sleep == Suspend("unwind")
Fork == Suspend("qc")

\* run_threads refuses to run while QuakeC does (Core::nesting > 0).
MayRunThreadsNested == Len(bounds) < Reentry
MayRunThreads == bounds = <<>>

Wake(i) ==
  /\ mode = "host" /\ MayRunThreads
  /\ waking' = <<[thread |-> sleeping[i], next |-> 1, resume_pc |-> x.pc]>>
  /\ sleeping' = RemoveAt(sleeping, i)
  /\ bounds' = Append(bounds, [depth |-> Len(frames), host |-> x])
  /\ mode' = "resume"
  /\ UNCHANGED <<frames, x, g, ls, saved>>

Waker == waking[1]
WakeChain == Waker.thread.chain

\* One iteration of the loop that re-enters the captured activations.
Reenter ==
  /\ mode = "resume" /\ Waker.next <= Len(WakeChain)
  /\ LET a == WakeChain[Waker.next]
     IN \/ /\ CanEnter(a.func)
           /\ Enter(a.func, Waker.resume_pc, a.pushed, a.sw)
           /\ waking' = <<[Waker EXCEPT !.next = @ + 1, !.resume_pc = a.pc]>>
           /\ UNCHANGED <<bounds, mode, sleeping>>
        \/ /\ ~CanEnter(a.func)
           /\ mode' = "unwind" /\ waking' = <<>>
           /\ UNCHANGED <<frames, x, g, ls, bounds, sleeping, saved>>

\* The captured words go back over the rebuilt frames and the thread runs on.
Resumed ==
  /\ mode = "resume" /\ Waker.next > Len(WakeChain)
  /\ LET t == Waker.thread
         start == frames[Depth + 1].locals_at
     IN /\ ls' = IF start + Len(t.stack) <= LsWords
                   THEN [s \in Slot |-> IF s \in start .. start + Len(t.stack) - 1
                                          THEN t.stack[s - start + 1] ELSE ls[s]]
                   ELSE ls
        /\ g' = [a \in Addr |-> IF a \in DOMAIN t.locals THEN t.locals[a] ELSE g[a]]
        /\ saved' = SubSeq(saved, 1, Depth) \o t.saved
  /\ x' = [x EXCEPT !.pc = Waker.resume_pc]
  /\ mode' = "qc" /\ waking' = <<>>
  /\ UNCHANGED <<frames, bounds, sleeping>>

-----------------------------------------------------------------------------
Next ==
  \/ \E f \in Func : HostCall(f) \/ Call(f)
  \/ BuiltinReturns \/ BuiltinFails \/ Unwinding \/ Unwound
  \/ CallBuiltin \/ Return \/ StatementFaults \/ Switch
  \/ \E n \in 1 .. MaxPush : Push(n)
  \/ \E a \in Addr, v \in Val : StoreGlobal(a, v)
  \/ \E s \in Slot, v \in Val : StorePushed(s, v)
  \/ Sleep \/ Fork
  \/ \E i \in 1 .. Len(sleeping) : Wake(i)
  \/ Reenter \/ Resumed

Spec == Init /\ [][Next]_vars

-----------------------------------------------------------------------------
(* Properties.                                                             *)

SavedLocals == UNION {[0 .. n - 1 -> Val] : n \in 0 .. GlobalWords}
Captured == [chain : Seq(Activation), stack : Seq(Val),
             locals : UNION {[A -> Val] : A \in SUBSET Addr},
             shape : [fs : Seq(Frame), top : Exec], saved : Seq(SavedLocals)]

\* The types of the state (Core, Exec, Frame and Thread of the source).
TypeOK ==
  /\ frames \in Seq(Frame) /\ x \in Exec
  /\ g \in [Addr -> Val] /\ ls \in [Slot -> Val]
  /\ bounds \in Seq(Boundary) /\ mode \in Mode
  /\ sleeping \in Seq(Captured)
  /\ waking \in Seq([thread : Captured, next : Nat, resume_pc : Pc]) /\ Len(waking) <= 1
  /\ saved \in Seq(SavedLocals)

\* How many words the function frame i called saved, and where it goes back to.
CalleeWords(i) == IF i = Len(frames) THEN x.locals_words ELSE frames[i + 1].locals_words

\* The frames tile the local stack from word 0 with no gap and no overlap: the
\* saved locals of each frame's callee start right after what the caller pushed,
\* `ls_top` is the end of the last, and nothing reaches beyond the stack.
\* (Core::enter and Core::leave compute `locals_at` and `ls_top` by arithmetic
\* alone; a drift of one word is only seen when a deep recursion unwinds.)
FramesTileStack ==
  /\ \A i \in 1 .. Len(frames) :
       frames[i].locals_at =
         frames[i].pushed + IF i = 1 THEN 0 ELSE frames[i - 1].locals_at + frames[i].locals_words
  /\ x.ls_top = IF frames = <<>> THEN 0 ELSE Last(frames).locals_at + x.locals_words
  /\ x.ls_top + x.pushed <= LsWords

\* What each live activation saved on entry is still what the local stack holds for it:
\* neither deeper calls, nor pushed memory, nor a rebuilt thread overwrites it.
SavedLocalsIntact ==
  /\ Len(saved) = Len(frames)
  /\ \A i \in 1 .. Len(frames) :
       /\ DOMAIN saved[i] = 0 .. CalleeWords(i) - 1
       /\ \A k \in DOMAIN saved[i] : ls[frames[i].locals_at + k] = saved[i][k]

\* The local stack is whole: the frames tile it and hold what was saved there.
LayoutIntact == FramesTileStack /\ SavedLocalsIntact

\* Whenever an activation ends, by a return or while an error or an abort unwinds,
\* its locals are again what they were when it was entered (Core::leave).
LocalsRestored ==
  [][Len(frames') < Len(frames) =>
       \A k \in DOMAIN Last(saved) : g'[x.locals_addr + k] = Last(saved)[k]]_vars

\* When a host call ends, however it ends, the registers of the builtin (or of the
\* idle engine) that made it are what they were, its PUSH count and pc included:
\* "the VM stays usable" (Vm::call).  The switch registers too, unless the
\* compatibility switch asks for their loss.
CallerContextRestored ==
  [][Len(bounds') < Len(bounds) =>
       LET before == Last(bounds).host
       IN x' = [before EXCEPT !.sw = IF SwitchReset THEN x'.sw ELSE @]]_vars

\* With no engine boundary left on the native stack nothing of any call is left.
IdleIsClean == bounds = <<>> => frames = <<>> /\ x = IdleExec

\* A captured thread always fits when it is rebuilt: it was captured at least as
\* high on the stack as it is rebuilt, so Vm::resume never reports CallDepth or
\* LocalStack for it.
ResumeNeverFails ==
  mode = "resume" /\ Waker.next <= Len(WakeChain) => CanEnter(WakeChain[Waker.next].func)

\* The rebuilt stack is the captured one, slot for slot: the same activations, the
\* same statements to continue at, pushed words and switch registers ("the
\* local-stack layout is identical").
ResumeRebuilds ==
  [][mode = "resume" /\ mode' = "qc" => Shape(1)' = Waker.thread.shape]_vars
=============================================================================
