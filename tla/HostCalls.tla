----------------------------- MODULE HostCalls -----------------------------
(***************************************************************************)
(* Host calls (vm/mod.rs): Vm::call and the builtins that call back, the   *)
(* interpreter loop of Vm::execute with its instruction budget, deadline   *)
(* and statement trace, abort(), the rate limit on warnings, poisoning by  *)
(* a panic, and what happens when the outermost call ends.                 *)
(*                                                                         *)
(* Each level of `calls` is one activation of call_inner, or a resumed     *)
(* thread, on the native stack.  Between its statements QuakeC leaves the  *)
(* interpreter for builtins, state opcodes and trace lines, in which the   *)
(* host may call QuakeC again.                                             *)
(*                                                                         *)
(* Abstracted: frames, registers and locals (module LocalStack), which     *)
(* threads are due (module Threads), return and parameter slots.  A        *)
(* statement is counted (jumps, calls, returns) or straight-line.          *)
(***************************************************************************)
EXTENDS Integers, SequencesExt

CONSTANTS
  Builtin,          \* builtins the QuakeC code can call
  NoBuiltin,        \* FuncRef::NULL
  MaxArgs,          \* bound: arguments of a call (OP_CALL8: 8)
  Reentry,          \* limits.reentry
  Runaway,          \* limits.runaway
  HasDeadline,      \* whether limits.deadline is set
  BudgetChunk,      \* BUDGET_CHUNK: counted statements between deadline checks
  WarningsPerCall,  \* limits.warnings_per_call
  MaxWarnings,      \* bound: warnings counted, and warnings queued
  MayTrace          \* bound: whether tracing is switched on at all

ASSUME HostCallsAssumption ==
  /\ MaxArgs \in Nat /\ Reentry \in Nat /\ Runaway \in Nat
  /\ HasDeadline \in BOOLEAN /\ BudgetChunk \in Nat /\ BudgetChunk >= 2
  /\ WarningsPerCall \in Nat /\ MaxWarnings \in Nat /\ MayTrace \in BOOLEAN
  /\ NoBuiltin \notin Builtin

VARIABLES
  calls,      \* host calls on the native stack, outermost first
  mode,       \* what runs: "host" code, "qc", or the "end" of a call
  result,     \* how the last call the running host code made ended
  nesting,    \* Core::nesting
  argc,       \* Core::argc
  builtin,    \* Core::builtin
  abort_ret,  \* Core::abort_ret
  budget,     \* Vm::budget
  run,        \* the interpreter run in progress: its chunk, what is left, tracing
  late,       \* the deadline has passed
  warned,     \* Core::warnings_this_call
  suppressed, \* Core::suppressed
  warnings,   \* length of Core::warnings
  trace,      \* Core::trace
  traced,     \* Core::traced
  poisoned,   \* Core::poisoned
  developer,  \* config.developer
  due,        \* Strings::wants_collection
  ran,        \* history: counted statements run since the budget was started
  unchecked,  \* history: of those, how many since the deadline was last checked
  unheard,    \* history: warnings of this call neither delivered nor reported
  reported,   \* history: the statement to run next has been reported
  misreported \* history: trace lines went missing or were repeated

control == <<calls, mode, result, nesting, argc, builtin, abort_ret>>
budgets == <<budget, run, late, ran, unchecked>>
warns == <<warned, suppressed, warnings, unheard>>
tracing == <<trace, traced, reported, misreported>>
others == <<poisoned, developer, due>>
vars == <<control, budgets, warns, tracing, others>>

\* abort_ret: None, or an abort value, named by the depth of the call it is meant for.
None == 0

Call == [kind : {"qc", "builtin", "thread"},
         argc : 0 .. MaxArgs, builtin : Builtin \cup {NoBuiltin},   \* saved by call_inner
         \* what the host code at this level is, and history: which builtin with what
         \* arguments it was called as
         at : {"none", "builtin", "state"},
         running : Builtin \cup {NoBuiltin}, args : 0 .. MaxArgs]
Run == [chunk : Nat, left : Nat, trace : BOOLEAN]
Idle == [chunk |-> 0, left |-> 0, trace |-> FALSE]

Init ==
  /\ calls = <<>> /\ mode = "host" /\ result = "ok"
  /\ nesting = 0 /\ argc = 0 /\ builtin = NoBuiltin /\ abort_ret = None
  /\ budget = 0 /\ run = Idle /\ late = FALSE /\ ran = 0 /\ unchecked = 0
  /\ warned = 0 /\ suppressed = 0 /\ warnings = 0 /\ unheard = 0
  /\ trace = FALSE /\ traced = FALSE /\ reported = FALSE /\ misreported = {}
  /\ poisoned = FALSE /\ developer \in BOOLEAN /\ due = FALSE

Top == Last(calls)
WithTop(c) == Append(Front(calls), c)
TopLevel == nesting = 0
InBuiltin == mode = "host" /\ calls # <<>> /\ Top.at = "builtin"
InStateOp == mode = "host" /\ calls # <<>> /\ Top.at = "state"

-----------------------------------------------------------------------------
(* Warnings (Core::warn, Vm::flush_warnings).                              *)

\* n warnings are raised.
Warn(n) ==
  LET over == IF warned + n > WarningsPerCall THEN warned + n - WarningsPerCall ELSE 0
      new == IF over > n THEN n ELSE over
  IN /\ warned + n <= MaxWarnings /\ warnings + n <= MaxWarnings
     /\ warned' = warned + n
     /\ suppressed' = suppressed + new
     /\ warnings' = warnings + n - new
     /\ unheard' = unheard + n

Flush ==
  /\ warnings' = 0 /\ unheard' = unheard - warnings
  /\ UNCHANGED <<warned, suppressed>>

-----------------------------------------------------------------------------
(* Budgets (start_budgets, execute_inner).                                 *)

StartBudgets ==
  /\ budget' = Runaway /\ late' = FALSE
  /\ ran' = 0 /\ unchecked' = 0

\* The budget of the next interpreter run.
ChunkOf(b) == IF HasDeadline /\ b > BudgetChunk THEN BudgetChunk ELSE b

\* What is left of the budget after the statements the run executed.
Spend == budget - (run.chunk - run.left)

\* The interpreter starts with the budget b and the trace flag on; the flag `t` of a
\* reported statement survives only into a traced run.
StartRunUnreported(b, on, t) ==
  /\ run' = [chunk |-> ChunkOf(b), left |-> ChunkOf(b), trace |-> on]
  /\ traced' = FALSE
StartRun(b, on, t) ==
  /\ run' = [chunk |-> ChunkOf(b), left |-> ChunkOf(b), trace |-> on]
  /\ traced' = (on /\ t)

\* The interpreter goes on after host code.
Continue ==
  /\ mode' = "qc"
  /\ StartRun(budget, trace, traced)

-----------------------------------------------------------------------------
(* Calls (Vm::call, Vm::call_inner).                                       *)

BelowReentry == nesting < Reentry

MayCall == mode = "host" /\ ~poisoned
RestartsBudgetsAlways == TRUE
RestartsBudgets == TopLevel

\* What call_inner does before it looks at the callee.
StartCallAlways ==
  warned' = 0 /\ suppressed' = 0 /\ UNCHANGED <<warnings, unheard>>
StartCall ==
  IF TopLevel
    THEN /\ warned' = 0 /\ suppressed' = 0
         /\ unheard' = warnings /\ UNCHANGED warnings
    ELSE UNCHANGED warns

Enter(kind, n, b, m) ==
  /\ nesting' = nesting + 1
  /\ argc' = n
  /\ calls' = Append(calls, [kind |-> kind, argc |-> argc, builtin |-> builtin,
       at |-> IF kind = "builtin" THEN "builtin" ELSE "none", running |-> b, args |-> n])
  /\ mode' = m

\* A QuakeC callee that can be entered.
CallFunction(n) ==
  /\ MayCall /\ BelowReentry
  /\ StartCall /\ Enter("qc", n, NoBuiltin, "qc")
  /\ IF RestartsBudgets
       THEN StartBudgets /\ StartRun(Runaway, trace, traced)
       ELSE UNCHANGED <<budget, late, ran, unchecked>> /\ StartRun(budget, trace, traced)
  /\ result' = "ok"
  /\ UNCHANGED <<builtin, abort_ret, trace, reported, misreported, others>>

\* A builtin called directly.
CallBuiltinDirectly(b, n) ==
  /\ MayCall /\ BelowReentry
  /\ StartCall /\ Enter("builtin", n, b, "host")
  /\ builtin' = b
  /\ IF TopLevel THEN StartBudgets ELSE UNCHANGED <<budget, late, ran, unchecked>>
  /\ result' = "ok"
  /\ UNCHANGED <<run, abort_ret, tracing, others>>

\* A callee that cannot be called (null, missing, no such function), or entered
\* (call depth, local stack).
CallFails(n) ==
  /\ MayCall /\ BelowReentry
  /\ StartCall /\ Enter("qc", n, NoBuiltin, "end")
  /\ IF TopLevel THEN StartBudgets ELSE UNCHANGED <<budget, late, ran, unchecked>>
  /\ result' = "error"
  /\ UNCHANGED <<run, builtin, abort_ret, tracing, others>>

\* Arguments that cannot be passed: too many, or no room for a temp string.
CallBadArguments ==
  /\ MayCall /\ BelowReentry
  /\ StartCall
  /\ IF TopLevel THEN StartBudgets ELSE UNCHANGED <<budget, late, ran, unchecked>>
  /\ result' = "error"
  /\ UNCHANGED <<run, calls, mode, nesting, argc, builtin, abort_ret, tracing, others>>

\* Too deep, or poisoned: refused before anything changes.
CallRefused ==
  /\ mode = "host" /\ (poisoned \/ ~BelowReentry)
  /\ result' = "error"
  /\ UNCHANGED <<calls, mode, nesting, argc, builtin, abort_ret,
                 budgets, warns, tracing, others>>

\* run_threads resumes a thread that rebuilds, or does not.
MayRunThreads == mode = "host" /\ nesting = 0 /\ ~poisoned
ResumeThread(ok) ==
  /\ MayRunThreads
  /\ StartBudgets
  /\ nesting' = 1
  /\ calls' = <<[kind |-> "thread", argc |-> argc, builtin |-> builtin,
                 at |-> "none", running |-> NoBuiltin, args |-> 0]>>
  /\ unheard' = warnings
  /\ IF ok
       THEN mode' = "qc" /\ StartRun(Runaway, trace, traced) /\ result' = "ok"
       ELSE mode' = "end" /\ result' = "error" /\ UNCHANGED <<run, traced>>
  /\ UNCHANGED <<argc, builtin, abort_ret, warned, suppressed, warnings,
                 trace, reported, misreported, others>>

-----------------------------------------------------------------------------
(* The end of a call.                                                      *)

\* The call ends with r: the interpreter has stopped and the frames are unwound.
End(r) == mode' = "end" /\ result' = r

CollectsAlways == TRUE
Collects == nesting = 1

\* What call_inner restores of its caller.
SavedArgcKept == argc
SavedArgc == Top.argc

FinishCall ==
  /\ mode = "end" /\ Top.kind # "thread"
  /\ nesting' = nesting - 1
  /\ argc' = SavedArgc /\ builtin' = Top.builtin
  /\ abort_ret' = None
  /\ calls' = Front(calls) /\ mode' = "host"
  /\ IF nesting = 1
       THEN /\ warnings' = 0 /\ unheard' = unheard - warnings - suppressed
            /\ UNCHANGED <<warned, suppressed>>
       ELSE UNCHANGED warns
  /\ due' = IF Collects THEN FALSE ELSE due
  /\ UNCHANGED <<result, budgets, tracing, poisoned, developer>>

AbortRetKept == abort_ret
AfterThread == None

\* The resumed thread ends; run_threads goes on with the next one, or is done and
\* collects garbage.  After an error it stops at once.
FinishThread(last) ==
  /\ mode = "end" /\ Top.kind = "thread"
  /\ (result # "ok" => ~last)
  /\ abort_ret' = AfterThread
  /\ nesting' = nesting - 1
  /\ calls' = <<>> /\ mode' = "host"
  /\ Flush
  /\ due' = IF last THEN FALSE ELSE due
  /\ UNCHANGED <<result, argc, builtin, budgets, tracing, poisoned, developer>>

-----------------------------------------------------------------------------
(* Statements (interp.rs).                                                 *)

\* A traced run stops before a statement that has not been reported.
MayRun == mode = "qc" /\ (run.trace => traced)

Report ==
  /\ mode = "qc" /\ run.trace /\ ~traced
  /\ budget' = Spend
  /\ StartRun(Spend, trace, TRUE)
  /\ reported' = TRUE
  /\ misreported' = misreported \cup (IF reported THEN {"twice"} ELSE {})
  /\ UNCHANGED <<control, late, ran, unchecked, warns, trace, others>>

\* The trace state after a statement ran in the present run.
Ran ==
  /\ reported' = FALSE
  /\ misreported' = misreported \cup
       (IF run.trace /\ ~reported THEN {"skipped"} ELSE {})
  /\ UNCHANGED trace

\* A counted statement has budget left to run.
Counted == run.left > 1
Count ==
  /\ Counted
  /\ ran' = ran + 1
  /\ unchecked' = IF HasDeadline /\ unchecked <= BudgetChunk THEN unchecked + 1 ELSE unchecked

\* A statement that changes nothing modelled here (noticed only while tracing).
Straight ==
  /\ MayRun /\ run.trace
  /\ traced' = FALSE /\ Ran
  /\ UNCHANGED <<control, budgets, warns, others>>

\* A jump, a call of a QuakeC function or a return to one.
Jump ==
  /\ MayRun /\ Count
  /\ run' = [run EXCEPT !.left = @ - 1]
  /\ traced' = FALSE /\ Ran
  /\ UNCHANGED <<control, budget, late, warns, others>>

\* A statement that warns (an invalid entity or field) and goes on.
Warns ==
  /\ MayRun /\ Warn(1)
  /\ traced' = FALSE /\ Ran
  /\ UNCHANGED <<control, budgets, others>>

\* OP_CALL of a builtin.
CallBuiltin(b, n) ==
  /\ MayRun /\ Count
  /\ run' = Idle /\ budget' = Spend - 1
  /\ argc' = n /\ builtin' = b
  /\ calls' = WithTop([Top EXCEPT !.at = "builtin", !.running = b, !.args = n])
  /\ mode' = "host" /\ result' = "ok"
  /\ traced' = FALSE /\ Ran /\ Flush
  /\ UNCHANGED <<late, nesting, abort_ret, others>>

\* An animation opcode: Host::state_op.
StateOp ==
  /\ MayRun
  /\ run' = Idle /\ budget' = Spend
  /\ calls' = WithTop([Top EXCEPT !.at = "state"])
  /\ mode' = "host" /\ result' = "ok"
  /\ traced' = FALSE /\ Ran
  /\ UNCHANGED <<late, ran, unchecked, nesting, argc, builtin, abort_ret,
                 warns, others>>

\* The return that leaves the call's first function.
ReturnToHost ==
  /\ MayRun /\ Count
  /\ run' = Idle /\ budget' = Spend - 1
  /\ traced' = FALSE /\ Ran /\ Flush
  /\ End("ok")
  /\ UNCHANGED <<late, calls, nesting, argc, builtin, abort_ret, others>>

\* A statement that faults, before or after it was counted.
Faults ==
  /\ MayRun
  /\ \/ budget' = Spend /\ UNCHANGED <<ran, unchecked>>
     \/ Count /\ budget' = Spend - 1
  /\ run' = Idle /\ traced' = FALSE /\ Ran /\ Flush
  /\ End("error")
  /\ UNCHANGED <<late, calls, nesting, argc, builtin, abort_ret, others>>

-----------------------------------------------------------------------------
(* The budget of a run is spent (Exit::Budget).                            *)

\* The trace flag of the statement that was refused: it has been reported already.
Refused == run.trace

IsRunaway == budget <= run.chunk

RunsAway ==
  /\ MayRun /\ ~Counted /\ IsRunaway
  /\ run' = Idle /\ budget' = 0
  /\ traced' = Refused /\ reported' = FALSE
  /\ Flush /\ End("runaway")
  /\ UNCHANGED <<late, ran, unchecked, calls, nesting, argc, builtin, abort_ret,
                 trace, misreported, others>>

\* What a spent chunk takes off the budget: the statement refused is counted again.
AfterChunkTwice == budget - run.chunk
AfterChunk == budget - (run.chunk - 1)

NextChunk ==
  /\ MayRun /\ ~Counted /\ ~IsRunaway
  /\ unchecked' = 0 /\ budget' = AfterChunk
  /\ IF late
       THEN /\ End("deadline") /\ Flush /\ run' = Idle
            /\ traced' = Refused /\ reported' = FALSE
       ELSE /\ StartRun(AfterChunk, trace, Refused)
            /\ UNCHANGED <<mode, result, warns, reported>>
  /\ UNCHANGED <<calls, nesting, argc, builtin, abort_ret, late, ran,
                 trace, misreported, others>>

-----------------------------------------------------------------------------
(* Host code: builtins and state opcodes.                                  *)

\* A builtin ends without error; QuakeC goes on, or the direct call of it ends.
AfterBuiltin ==
  IF Top.kind = "builtin"
    THEN End("ok") /\ UNCHANGED <<calls, run, traced>>
    ELSE /\ calls' = WithTop([Top EXCEPT !.at = "none"])
         /\ Continue /\ UNCHANGED result

BuiltinReturns ==
  /\ InBuiltin /\ AfterBuiltin
  /\ UNCHANGED <<nesting, argc, builtin, abort_ret, budget, late, ran, unchecked, warns,
                 trace, reported, misreported, others>>

\* abort(ret): the nearest boundary returns `ret`.
BuiltinAborts ==
  /\ InBuiltin
  /\ abort_ret' = Len(calls)
  /\ End("ok")
  /\ UNCHANGED <<calls, nesting, argc, builtin, budgets, warns, tracing, others>>

\* A builtin error: raised here, or handed on from a nested call, whose kind it keeps.
BuiltinFails(r) ==
  /\ InBuiltin
  /\ r \in {"builtin", "error"} \cup (IF result # "ok" THEN {result} ELSE {})
  /\ ~(r = "builtin" /\ developer)
  /\ End(r)
  /\ UNCHANGED <<calls, nesting, argc, builtin, abort_ret, budgets, warns, tracing, others>>

\* In developer mode a builtin error is only a warning.
BuiltinWarns ==
  /\ InBuiltin /\ developer
  /\ warned < MaxWarnings
  /\ warned' = warned + 1
  /\ suppressed' = suppressed + (IF warned < WarningsPerCall THEN 0 ELSE 1)
  /\ unheard' = unheard - warnings + (IF warned < WarningsPerCall THEN 0 ELSE 1)
  /\ warnings' = 0
  /\ AfterBuiltin
  /\ UNCHANGED <<nesting, argc, builtin, abort_ret, budget, late, ran, unchecked,
                 trace, reported, misreported, others>>

\* The host handles the opcode, or default_state_op does (which may warn).
StateOpDone(n) ==
  /\ InStateOp
  /\ calls' = WithTop([Top EXCEPT !.at = "none"])
  /\ Continue
  /\ Warn(n)
  /\ UNCHANGED <<result, nesting, argc, builtin, abort_ret, budget, late, ran, unchecked,
                 trace, reported, misreported, others>>

StateOpFails(r) ==
  /\ InStateOp
  /\ r \in {"error"} \cup (IF result # "ok" THEN {result} ELSE {})
  /\ End(r)
  /\ UNCHANGED <<calls, nesting, argc, builtin, abort_ret, budgets, warns, tracing, others>>

\* Vm::warn.
HostWarns ==
  /\ mode = "host" /\ Warn(1)
  /\ UNCHANGED <<control, budgets, tracing, others>>

\* A builtin makes the temp string that makes a collection due.
MakeTemp ==
  /\ InBuiltin /\ due' = TRUE
  /\ UNCHANGED <<control, budgets, warns, tracing, poisoned, developer>>

MayCollect == nesting = 0
CollectGarbage ==
  /\ mode = "host" /\ MayCollect
  /\ due' = FALSE
  /\ UNCHANGED <<control, budgets, warns, tracing, poisoned, developer>>

SetTrace(on) ==
  /\ mode = "host" /\ MayTrace
  /\ trace' = on
  /\ UNCHANGED <<control, budgets, warns, traced, reported, misreported, others>>

SetDeveloper ==
  /\ mode = "host"
  /\ developer' = ~developer
  /\ UNCHANGED <<control, budgets, warns, tracing, poisoned, due>>

\* A builtin panics: the panic leaves every call on the native stack.
Panic ==
  /\ mode = "host" /\ calls # <<>>
  /\ calls' = <<>> /\ poisoned' = TRUE
  /\ UNCHANGED <<mode, result, nesting, argc, builtin, abort_ret, budgets, warns, tracing,
                 developer, due>>

\* Vm::reset, from outside.
Reset ==
  /\ mode = "host" /\ calls = <<>>
  /\ nesting' = 0 /\ argc' = 0 /\ builtin' = NoBuiltin /\ abort_ret' = None
  /\ warned' = 0 /\ suppressed' = 0 /\ warnings' = 0 /\ unheard' = 0
  /\ trace' = FALSE /\ traced' = FALSE /\ reported' = FALSE
  /\ poisoned' = FALSE /\ due' = FALSE
  /\ UNCHANGED <<calls, mode, result, budgets, misreported, developer>>

\* The clock passes the deadline.
DeadlinePasses ==
  /\ HasDeadline /\ calls # <<>> /\ ~late
  /\ late' = TRUE
  /\ UNCHANGED <<control, budget, run, ran, unchecked, warns, tracing, others>>

-----------------------------------------------------------------------------
Failure == {"builtin", "error", "runaway", "deadline"}
Args == 0 .. MaxArgs

Next ==
  \/ \E n \in Args : CallFunction(n) \/ CallFails(n)
  \/ \E b \in Builtin, n \in Args : CallBuiltinDirectly(b, n) \/ CallBuiltin(b, n)
  \/ CallBadArguments \/ CallRefused
  \/ \E ok \in BOOLEAN : ResumeThread(ok) \/ FinishThread(ok) \/ SetTrace(ok)
  \/ FinishCall
  \/ Report \/ Straight \/ Jump \/ Warns \/ StateOp \/ ReturnToHost \/ Faults
  \/ RunsAway \/ NextChunk
  \/ BuiltinReturns \/ BuiltinAborts \/ BuiltinWarns
  \/ \E r \in Failure : BuiltinFails(r) \/ StateOpFails(r)
  \/ \E n \in {0, 1} : StateOpDone(n)
  \/ HostWarns \/ MakeTemp \/ CollectGarbage \/ SetDeveloper
  \/ Panic \/ Reset \/ DeadlinePasses

Spec == Init /\ [][Next]_vars

\* The interpreter reaches a counted statement within finitely many straight-line ones
\* (code is finite and every jump is counted); the host code of each level, a builtin
\* or a hook, returns at last, however often it calls back.
StepsCount == Jump \/ ReturnToHost \/ Faults \/ RunsAway \/ NextChunk \/
              \E b \in Builtin, n \in Args : CallBuiltin(b, n)
HostCodeEnds == BuiltinReturns \/ BuiltinAborts \/ BuiltinWarns \/ StateOpDone(0) \/
                \E r \in Failure : BuiltinFails(r) \/ StateOpFails(r)
Ends == FinishCall \/ \E last \in BOOLEAN : FinishThread(last)

FairSpec ==
  /\ Spec /\ WF_vars(Ends) /\ WF_vars(Report)
  /\ \A level \in 1 .. Reentry :
       SF_vars(Len(calls) = level /\ StepsCount) /\ SF_vars(Len(calls) = level /\ HostCodeEnds)

-----------------------------------------------------------------------------
(* Properties.                                                             *)

\* run_threads does not look at the limit on nesting.
MaxNesting == IF Reentry = 0 THEN 1 ELSE Reentry

\* The types of the state.
TypeOK ==
  /\ calls \in Seq(Call) /\ mode \in {"host", "qc", "end"}
  /\ result \in Failure \cup {"ok"}
  /\ abort_ret \in 0 .. MaxNesting
  /\ nesting \in 0 .. MaxNesting /\ argc \in Args /\ builtin \in Builtin \cup {NoBuiltin}
  /\ budget \in Nat /\ run \in Run /\ run.left <= run.chunk
  /\ late \in BOOLEAN /\ ran \in Nat /\ unchecked \in Nat
  /\ warned \in Nat /\ suppressed \in Nat /\ warnings \in Nat /\ unheard \in Nat
  /\ trace \in BOOLEAN /\ traced \in BOOLEAN /\ reported \in BOOLEAN
  /\ misreported \subseteq {"skipped", "twice"}
  /\ poisoned \in BOOLEAN /\ developer \in BOOLEAN /\ due \in BOOLEAN

\* The re-entrancy counter is the number of calls on the native stack, however they
\* end: a leak would make the VM refuse calls, or collect garbage never or too early.
\* Nothing is on the stack of a VM a panic has poisoned, and nothing runs on it.
NestingCounts ==
  IF poisoned THEN calls = <<>> /\ mode = "host"
  ELSE /\ nesting = Len(calls)
       /\ calls = <<>> => mode = "host"

\* While a builtin runs, Core::builtin and Core::argc are the builtin and the number
\* of arguments it was called with, also after it has called QuakeC, or another
\* builtin, and that call returned, failed or aborted.
BuiltinKeepsContext ==
  InBuiltin => builtin = Top.running /\ argc = Top.args

\* A value given to abort() waits only for the call it unwound to, and only while
\* that call ends: no later call or thread returns it.
AbortReachesItsCall ==
  /\ abort_ret # None => mode = "end" /\ abort_ret = Len(calls)
  /\ mode = "host" => abort_ret = None

\* Temp strings are collected only when no builtin is left on the native stack that
\* could hold one ("collecting then could free strings that builtins further up the
\* call stack still hold"); and a collection that became due in a call, however
\* deep, has happened when the outermost call has ended, also in the calls after a
\* panic and a reset.
CollectsWhenIdle ==
  [][/\ due /\ ~due' => calls' = <<>>
     /\ Len(calls) = 1 /\ Top.kind # "thread" /\ calls' = <<>> /\ ~poisoned' => ~due']_vars

\* When an outermost call has ended, every warning raised since it started has been
\* delivered, or counted in a "further warnings were suppressed" report.
CallReportsWarnings ==
  [][Len(calls) = 1 /\ Top.kind # "thread" /\ calls' = <<>> /\ ~poisoned' => unheard' = 0]_vars

\* A statement the budget stops and that runs later is not traced twice.
NoStatementTracedTwice == "twice" \notin misreported

\* "While on, every statement is passed to Host::trace before it runs" (set_trace).
EveryStatementTraced == "skipped" \notin misreported

\* The deadline is "checked every 65,536 counted instructions" (limits.deadline).
DeadlineCheckedEveryChunk == HasDeadline => unchecked <= BudgetChunk

\* Every host call ends: the budget is shared by the calls builtins make back.
HostCallsEnd == calls # <<>> ~> calls = <<>>

-----------------------------------------------------------------------------
(* What the budget promises (module InstructionBudget).                    *)

\* What is left of the budget: what the run in progress used is taken off later.
Remaining == IF mode = "qc" THEN budget - (run.chunk - run.left) ELSE budget

Counter == INSTANCE InstructionBudget WITH left <- Remaining, open <- calls # <<>>, failed <- result = "runaway" /\ mode = "end"

\* However the budget is chunked, committed and shared by nested calls, it is one
\* counter: a host call and the calls made back run exactly Runaway - 1 counted
\* statements before the next is refused.
BudgetIsOneCounter == Counter!Spec

=============================================================================
