-------------------------- MODULE HostCallsProofs --------------------------
(***************************************************************************)
(* The inductive invariant of HostCalls and the proofs of its properties   *)
(* for every limit, budget and chunk size.                                 *)
(***************************************************************************)
EXTENDS HostCalls, TLAPS, SequenceTheorems

\* The calls on the native stack: a thread is always outermost.
StackOK ==
  /\ NestingCounts
  /\ \A i \in 1 .. Len(calls) : calls[i].kind = "thread" => i = 1

\* What each call saved is what the builtin that made it was called with.
ContextOK ==
  /\ BuiltinKeepsContext
  /\ \A i \in 1 .. Len(calls) - 1 :
       calls[i].at = "builtin" =>
         calls[i + 1].argc = calls[i].args /\ calls[i + 1].builtin = calls[i].running

\* The chunk in progress is what StartRun gave it, and its last statement is still
\* to be refused.  A budget that was used up stays used up.
BudgetOK ==
  /\ mode = "qc" => /\ run.chunk = ChunkOf(budget)
                    /\ run.chunk > 0 => run.left > 0
  /\ result = "runaway" => budget = 0

\* Queued warnings are unheard; those suppressed too, unless a thread lost them.
WarningsOK ==
  /\ warnings <= unheard
  /\ calls # <<>> /\ calls[1].kind # "thread" => unheard = warnings + suppressed

\* The inductive invariant.
IInv == TypeOK /\ StackOK /\ ContextOK /\ AbortReachesItsCall /\ BudgetOK /\ WarningsOK

-----------------------------------------------------------------------------
(* Sequences.                                                              *)

LEMMA FrontFacts ==
  ASSUME NEW S, NEW s \in Seq(S), s # <<>>
  PROVE  /\ Front(s) \in Seq(S) /\ Len(Front(s)) = Len(s) - 1
         /\ \A i \in 1 .. Len(s) - 1 : Front(s)[i] = s[i]
         /\ Len(s) \in Nat \ {0} /\ Last(s) = s[Len(s)] /\ Last(s) \in S
<1>1. Len(s) \in Nat \ {0}
  BY EmptySeq
<1>2. \A i \in 1 .. Len(s) : s[i] \in S
  OBVIOUS
<1>3. Last(s) = s[Len(s)] /\ Last(s) \in S
  BY <1>1, <1>2 DEF Last
<1>4. PICK m \in Nat : m = Len(s) - 1
  BY <1>1
<1>5. Front(s) = SubSeq(s, 1, m)
  BY <1>4 DEF Front
<1>6. \A i \in 1 .. m : s[i] \in S
  BY <1>1, <1>2, <1>4
<1>7. /\ SubSeq(s, 1, m) \in Seq(S) /\ Len(SubSeq(s, 1, m)) = IF 1 <= m THEN m - 1 + 1 ELSE 0
      /\ \A i \in 1 .. m - 1 + 1 : SubSeq(s, 1, m)[i] = s[1 + i - 1]
  BY <1>6, SubSeqProperties
<1>8. \A i \in 1 .. m : i \in 1 .. m - 1 + 1 /\ 1 + i - 1 = i
  OBVIOUS
<1> QED
  BY <1>1, <1>3, <1>4, <1>5, <1>7, <1>8

\* Replacing the last element.
LEMMA WithTopFacts ==
  ASSUME NEW S, NEW s \in Seq(S), s # <<>>, NEW c \in S
  PROVE  LET t == Append(Front(s), c)
         IN /\ t \in Seq(S) /\ Len(t) = Len(s) /\ t # <<>>
            /\ \A i \in 1 .. Len(s) - 1 : t[i] = s[i]
            /\ t[Len(s)] = c /\ Last(t) = c
<1> DEFINE f == Front(s)
           t == Append(f, c)
<1>1. /\ f \in Seq(S) /\ Len(f) = Len(s) - 1
      /\ \A i \in 1 .. Len(s) - 1 : f[i] = s[i]
      /\ Len(s) \in Nat \ {0}
  BY FrontFacts
<1> HIDE DEF f
<1>2. /\ t \in Seq(S) /\ Len(t) = Len(f) + 1 /\ t[Len(f) + 1] = c
      /\ \A i \in 1 .. Len(f) : t[i] = f[i]
  BY <1>1
<1> HIDE DEF t
<1>3. Len(t) = Len(s) /\ t[Len(s)] = c /\ Last(t) = c
  BY <1>1, <1>2 DEF Last
<1>4. t # <<>>
  BY <1>1, <1>3, EmptySeq
<1> QED
  BY <1>1, <1>2, <1>3, <1>4 DEF t, f

-----------------------------------------------------------------------------
(* What a step does to the stack of calls.                                 *)

\* The parts of the invariant about the calls, and their types.
StackType ==
  /\ calls \in Seq(Call) /\ mode \in {"host", "qc", "end"}
  /\ abort_ret \in 0 .. MaxNesting
  /\ nesting \in 0 .. MaxNesting /\ argc \in Args /\ builtin \in Builtin \cup {NoBuiltin}
  /\ poisoned \in BOOLEAN
StackInv == StackType /\ StackOK /\ ContextOK /\ AbortReachesItsCall

\* The call changes nothing of it.
SameStack == UNCHANGED <<calls, mode, nesting, argc, builtin, abort_ret, poisoned>>

\* The running call ends.
EndStep ==
  /\ mode \in {"host", "qc"} /\ calls # <<>>
  /\ mode' = "end" /\ abort_ret' \in {abort_ret, Len(calls)}
  /\ UNCHANGED <<calls, nesting, argc, builtin, poisoned>>

\* The running call goes on as `m`, its top record being c.
TopStep(c, m) ==
  /\ mode \in {"host", "qc"} /\ calls # <<>>
  /\ calls' = WithTop(c) /\ c \in Call
  /\ c.kind = Top.kind /\ c.argc = Top.argc /\ c.builtin = Top.builtin
  /\ mode' = m /\ m \in {"host", "qc"}
  /\ \/ c.at # "builtin" /\ UNCHANGED <<argc, builtin>>
     \/ c.at = "builtin" /\ argc' = c.args /\ builtin' = c.running
  /\ UNCHANGED <<nesting, abort_ret, poisoned>>

LEMMA SameStackStep == StackInv /\ SameStack => StackInv'
BY DEF StackInv, StackType, SameStack, StackOK, ContextOK, NestingCounts, BuiltinKeepsContext,
       AbortReachesItsCall, InBuiltin, Top

LEMMA CallsCounted ==
  ASSUME StackInv, calls # <<>>
  PROVE  /\ ~poisoned /\ nesting = Len(calls) /\ Len(calls) \in Nat \ {0}
         /\ Len(calls) <= MaxNesting /\ Top = calls[Len(calls)] /\ Top \in Call
<1>1. ~poisoned /\ nesting = Len(calls)
  BY DEF StackInv, StackOK, NestingCounts
<1>2. calls \in Seq(Call) /\ nesting \in 0 .. MaxNesting
  BY DEF StackInv, StackType
<1>3. Len(calls) \in Nat \ {0} /\ Last(calls) = calls[Len(calls)] /\ Last(calls) \in Call
  BY <1>2, FrontFacts
<1>4. nesting <= MaxNesting
  BY <1>2
<1> QED
  BY <1>1, <1>3, <1>4 DEF Top

LEMMA NoCalls ==
  ASSUME StackInv, nesting = 0, ~poisoned
  PROVE  calls = <<>>
BY EmptySeq DEF StackInv, StackType, StackOK, NestingCounts

LEMMA EndStepOK == ASSUME StackInv, EndStep PROVE StackInv'
<1>1. ~poisoned /\ nesting = Len(calls) /\ Len(calls) \in Nat \ {0} /\ Len(calls) <= MaxNesting
  BY CallsCounted DEF EndStep
<1>2. abort_ret = None
  BY DEF StackInv, AbortReachesItsCall, EndStep
<1>3. abort_ret' \in 0 .. MaxNesting /\ (abort_ret' # None => abort_ret' = Len(calls'))
  <2>1. Len(calls) \in 0 .. MaxNesting /\ None \in 0 .. MaxNesting
    <3>1. MaxNesting \in Nat
      BY HostCallsAssumption DEF MaxNesting
    <3> QED
      BY <3>1, <1>1 DEF None
  <2> QED
    BY <2>1, <1>2 DEF EndStep
<1>4. StackType'
  BY <1>3 DEF StackInv, StackType, EndStep
<1>5. StackOK'
  BY DEF StackInv, StackOK, NestingCounts, EndStep
<1>6. ContextOK'
  BY DEF StackInv, ContextOK, BuiltinKeepsContext, InBuiltin, EndStep
<1>7. AbortReachesItsCall'
  BY <1>3 DEF AbortReachesItsCall, EndStep
<1> QED
  BY <1>4, <1>5, <1>6, <1>7 DEF StackInv

LEMMA TopStepOK == ASSUME StackInv, NEW c, NEW m, TopStep(c, m) PROVE StackInv'
<1>1. /\ ~poisoned /\ nesting = Len(calls) /\ Len(calls) \in Nat \ {0}
      /\ Top = calls[Len(calls)]
  BY CallsCounted DEF TopStep
<1>2. calls \in Seq(Call) /\ calls # <<>> /\ c \in Call
  BY DEF StackInv, StackType, TopStep
<1>3. /\ calls' \in Seq(Call) /\ Len(calls') = Len(calls) /\ calls' # <<>>
      /\ \A i \in 1 .. Len(calls) - 1 : calls'[i] = calls[i]
      /\ calls'[Len(calls)] = c /\ Last(calls') = c
  BY <1>2, WithTopFacts DEF TopStep, WithTop
<1>4. abort_ret = None /\ abort_ret' = None
  BY DEF StackInv, AbortReachesItsCall, TopStep
<1>5. StackType'
  <2>1. argc' \in Args /\ builtin' \in Builtin \cup {NoBuiltin}
    BY DEF TopStep, Call, Args, StackInv, StackType
  <2> QED
    BY <1>3, <2>1 DEF StackInv, StackType, TopStep
<1>6. StackOK'
  <2>1. NestingCounts'
    BY <1>1, <1>3 DEF NestingCounts, TopStep
  <2>2. ASSUME NEW i \in 1 .. Len(calls'), calls'[i].kind = "thread" PROVE i = 1
    <3>1. i \in 1 .. Len(calls)
      BY <1>3
    <3>2. CASE i = Len(calls)
      BY <3>1, <3>2, <2>2, <1>1, <1>3 DEF StackInv, StackOK, TopStep
    <3>3. CASE i # Len(calls)
      <4>1. i \in 1 .. Len(calls) - 1
        BY <3>1, <3>3, <1>1
      <4> QED
        BY <4>1, <3>1, <2>2, <1>3 DEF StackInv, StackOK
    <3> QED
      BY <3>2, <3>3
  <2> QED
    BY <2>1, <2>2 DEF StackOK
<1>7. ContextOK'
  <2>1. BuiltinKeepsContext'
    BY <1>3 DEF BuiltinKeepsContext, InBuiltin, Top, TopStep
  <2>2. ASSUME NEW i \in 1 .. Len(calls') - 1, calls'[i].at = "builtin"
        PROVE  calls'[i + 1].argc = calls'[i].args /\ calls'[i + 1].builtin = calls'[i].running
    <3>1. i \in 1 .. Len(calls) - 1 /\ i + 1 \in 1 .. Len(calls)
      BY <1>1, <1>3
    <3>2. calls'[i] = calls[i]
      BY <3>1, <1>3
    <3>3. calls[i + 1].argc = calls[i].args /\ calls[i + 1].builtin = calls[i].running
      BY <2>2, <3>1, <3>2 DEF StackInv, ContextOK
    <3> QED
      <4>1. CASE i + 1 \in 1 .. Len(calls) - 1
        BY <4>1, <1>3, <3>2, <3>3
      <4>2. CASE i + 1 = Len(calls)
        \* the saved context of the top record is what it was
        BY <4>2, <1>1, <1>3, <3>2, <3>3 DEF TopStep
      <4> QED
        BY <3>1, <4>1, <4>2
  <2> QED
    BY <2>1, <2>2 DEF ContextOK
<1>8. AbortReachesItsCall'
  BY <1>4 DEF AbortReachesItsCall
<1> QED
  BY <1>5, <1>6, <1>7, <1>8 DEF StackInv

\* A call is entered from host code: a new top record that saves argc and builtin.
PushStep(c, m) ==
  /\ mode = "host" /\ ~poisoned
  /\ nesting' = nesting + 1 /\ nesting' \in 0 .. MaxNesting
  /\ calls' = Append(calls, c) /\ c \in Call
  /\ c.argc = argc /\ c.builtin = builtin
  /\ c.kind = "thread" => calls = <<>>
  /\ mode' = m /\ m \in {"host", "qc", "end"}
  /\ argc' \in Args /\ builtin' \in Builtin \cup {NoBuiltin}
  /\ c.at = "builtin" => argc' = c.args /\ builtin' = c.running
  /\ UNCHANGED <<abort_ret, poisoned>>

LEMMA PushStepOK == ASSUME StackInv, NEW c, NEW m, PushStep(c, m) PROVE StackInv'
<1>1. nesting = Len(calls) /\ Len(calls) \in Nat /\ calls \in Seq(Call)
  BY DEF StackInv, StackType, StackOK, NestingCounts, PushStep
<1>2. /\ calls' \in Seq(Call) /\ Len(calls') = Len(calls) + 1
      /\ \A i \in 1 .. Len(calls) : calls'[i] = calls[i]
      /\ calls'[Len(calls) + 1] = c
  BY <1>1 DEF PushStep
<1>3. calls' # <<>> /\ Last(calls') = c
  BY <1>1, <1>2, EmptySeq DEF Last
<1>4. abort_ret = None /\ abort_ret' = None
  BY DEF StackInv, AbortReachesItsCall, PushStep
<1>5. StackType'
  BY <1>2 DEF StackInv, StackType, PushStep
<1>6. StackOK'
  <2>1. NestingCounts'
    BY <1>1, <1>2, <1>3 DEF NestingCounts, PushStep
  <2>2. ASSUME NEW i \in 1 .. Len(calls'), calls'[i].kind = "thread" PROVE i = 1
    <3>1. CASE i \in 1 .. Len(calls)
      BY <3>1, <2>2, <1>2 DEF StackInv, StackOK
    <3>2. CASE i = Len(calls) + 1
      <4>1. calls = <<>>
        BY <3>2, <2>2, <1>2 DEF PushStep
      <4> QED
        BY <4>1, <3>2
    <3> QED
      BY <1>1, <1>2, <3>1, <3>2
  <2> QED
    BY <2>1, <2>2 DEF StackOK
<1>7. ContextOK'
  <2>1. BuiltinKeepsContext'
    BY <1>3 DEF BuiltinKeepsContext, InBuiltin, Top, PushStep
  <2>2. ASSUME NEW i \in 1 .. Len(calls') - 1, calls'[i].at = "builtin"
        PROVE  calls'[i + 1].argc = calls'[i].args /\ calls'[i + 1].builtin = calls'[i].running
    <3>1. i \in 1 .. Len(calls) /\ calls'[i] = calls[i]
      BY <1>1, <1>2
    <3>2. CASE i = Len(calls)
      <4>1. calls # <<>> /\ Top = calls[i]
        <5>1. Len(calls) # 0
          BY <3>1, <3>2
        <5>2. calls # <<>>
          BY <5>1, <1>1, EmptySeq
        <5> QED
          BY <5>2, <3>2 DEF Top, Last
      <4>2. builtin = calls[i].running /\ argc = calls[i].args
        BY <4>1, <3>1, <2>2 DEF StackInv, ContextOK, BuiltinKeepsContext, InBuiltin, PushStep
      <4> QED
        BY <4>2, <3>1, <3>2, <1>2 DEF PushStep
    <3>3. CASE i # Len(calls)
      <4>1. i \in 1 .. Len(calls) - 1 /\ i + 1 \in 1 .. Len(calls)
        BY <3>1, <3>3, <1>1
      <4>2. calls'[i + 1] = calls[i + 1]
        BY <4>1, <1>2
      <4> QED
        BY <4>1, <4>2, <3>1, <2>2 DEF StackInv, ContextOK
    <3> QED
      BY <3>2, <3>3
  <2> QED
    BY <2>1, <2>2 DEF ContextOK
<1>8. AbortReachesItsCall'
  BY <1>4 DEF AbortReachesItsCall
<1> QED
  BY <1>5, <1>6, <1>7, <1>8 DEF StackInv

LEMMA FinishCallStack == ASSUME StackInv, FinishCall PROVE StackInv'
<1>1. mode = "end" /\ calls # <<>>
  BY DEF FinishCall, StackInv, StackOK, NestingCounts
<1>2. ~poisoned /\ nesting = Len(calls) /\ Len(calls) \in Nat \ {0} /\ Len(calls) <= MaxNesting
      /\ Top = calls[Len(calls)] /\ Top \in Call
  BY <1>1, CallsCounted
<1>3. calls \in Seq(Call)
  BY DEF StackInv, StackType
<1>4. /\ calls' \in Seq(Call) /\ Len(calls') = Len(calls) - 1
      /\ \A i \in 1 .. Len(calls) - 1 : calls'[i] = calls[i]
  BY <1>1, <1>3, FrontFacts DEF FinishCall
<1>5. abort_ret' = None /\ mode' = "host" /\ nesting' = nesting - 1 /\ UNCHANGED poisoned
      /\ argc' = Top.argc /\ builtin' = Top.builtin
  BY DEF FinishCall, SavedArgc
<1>6. StackType'
  <2>1. Top.argc \in Args /\ Top.builtin \in Builtin \cup {NoBuiltin}
    BY <1>2 DEF Call, Args
  <2>2. MaxNesting \in Nat
    BY HostCallsAssumption DEF MaxNesting
  <2>3. nesting' \in 0 .. MaxNesting /\ abort_ret' \in 0 .. MaxNesting
    BY <2>2, <1>2, <1>5 DEF None
  <2> QED
    BY <1>4, <1>5, <2>1, <2>3 DEF StackInv, StackType
<1>7. StackOK'
  <2>1. NestingCounts'
    BY <1>2, <1>4, <1>5 DEF NestingCounts
  <2>2. \A i \in 1 .. Len(calls') : i \in 1 .. Len(calls) /\ calls'[i] = calls[i]
    BY <1>2, <1>4
  <2> QED
    BY <2>1, <2>2 DEF StackInv, StackOK
<1>8. ContextOK'
  <2>1. BuiltinKeepsContext'
    <3> SUFFICES ASSUME InBuiltin'
                 PROVE  builtin' = Top'.running /\ argc' = Top'.args
      BY DEF BuiltinKeepsContext
    <3>1. calls' # <<>> /\ Top'.at = "builtin"
      BY DEF InBuiltin
    <3>2. Top' = calls'[Len(calls')] /\ Len(calls') # 0
      <4>1. Len(calls') # 0
        BY <3>1, <1>4, EmptySeq
      <4> QED
        BY <4>1, <3>1 DEF Top, Last
    <3>3. PICK k \in 1 .. Len(calls) - 1 : k = Len(calls') /\ k + 1 = Len(calls)
      BY <3>2, <1>2, <1>4
    <3>4. Top' = calls[k]
      BY <3>2, <3>3, <1>4
    <3>5. calls[k + 1].argc = calls[k].args /\ calls[k + 1].builtin = calls[k].running
      BY <3>1, <3>3, <3>4 DEF StackInv, ContextOK
    <3> QED
      BY <3>3, <3>4, <3>5, <1>2, <1>5
  <2>2. \A i \in 1 .. Len(calls') - 1 :
          /\ i \in 1 .. Len(calls) - 1 /\ calls'[i] = calls[i]
          /\ i + 1 \in 1 .. Len(calls) - 1 /\ calls'[i + 1] = calls[i + 1]
    BY <1>2, <1>4
  <2> QED
    BY <2>1, <2>2 DEF StackInv, ContextOK
<1>9. AbortReachesItsCall'
  BY <1>5 DEF AbortReachesItsCall
<1> QED
  BY <1>6, <1>7, <1>8, <1>9 DEF StackInv

\* A thread is the only call on the stack.
LEMMA ThreadAlone ==
  ASSUME StackInv, calls # <<>>, Top.kind = "thread"
  PROVE  Len(calls) = 1 /\ nesting = 1
<1>1. nesting = Len(calls) /\ Len(calls) \in Nat \ {0} /\ Top = calls[Len(calls)]
  BY CallsCounted
<1>2. Len(calls) \in 1 .. Len(calls)
  BY <1>1
<1> QED
  BY <1>1, <1>2 DEF StackInv, StackOK

\* The stack is empty after the step: a resumed thread ended, a panic, a reset.
LEMMA EmptyStackStep ==
  ASSUME StackInv, calls' = <<>>, mode' = "host", abort_ret' = None,
         nesting' \in 0 .. MaxNesting, argc' \in Args, builtin' \in Builtin \cup {NoBuiltin},
         poisoned' \in BOOLEAN, poisoned' \/ nesting' = 0
  PROVE  StackInv'
<1>1. MaxNesting \in Nat
  BY HostCallsAssumption DEF MaxNesting
<1>2. calls' \in Seq(Call) /\ Len(calls') = 0
  BY EmptySeq
<1>3. StackType'
  BY <1>1, <1>2 DEF StackType, None
<1>4. StackOK'
  BY <1>2 DEF StackOK, NestingCounts
<1>5. ContextOK'
  BY <1>2 DEF ContextOK, BuiltinKeepsContext, InBuiltin
<1>6. AbortReachesItsCall'
  BY DEF AbortReachesItsCall
<1> QED
  BY <1>3, <1>4, <1>5, <1>6 DEF StackInv

-----------------------------------------------------------------------------
(* Each action is one of these steps.                                      *)

LEMMA StartsStack ==
  ASSUME StackInv, NEW n \in Args,
         CallFunction(n) \/ CallFails(n) \/ \E b \in Builtin : CallBuiltinDirectly(b, n)
  PROVE  StackInv'
<1>1. nesting + 1 \in 0 .. MaxNesting
  <2>1. nesting \in Nat /\ nesting < Reentry
    BY DEF CallFunction, CallFails, CallBuiltinDirectly, BelowReentry, StackInv, StackType
  <2> QED
    BY <2>1, HostCallsAssumption DEF MaxNesting
<1>2. /\ argc \in Args /\ argc \in 0 .. MaxArgs /\ n \in 0 .. MaxArgs
      /\ builtin \in Builtin \cup {NoBuiltin}
  BY DEF StackInv, StackType, Args
<1> DEFINE Rec(kind, at, b) == [kind |-> kind, argc |-> argc, builtin |-> builtin,
                                at |-> at, running |-> b, args |-> n]
<1>3. CASE CallFunction(n)
  <2>1. Rec("qc", "none", NoBuiltin) \in Call
    BY <1>2 DEF Call
  <2>2. PushStep(Rec("qc", "none", NoBuiltin), "qc")
    BY <1>1, <1>2, <1>3, <2>1 DEF CallFunction, Enter, MayCall, PushStep, others
  <2> QED
    BY <2>2, PushStepOK
<1>4. CASE CallFails(n)
  <2>1. Rec("qc", "none", NoBuiltin) \in Call
    BY <1>2 DEF Call
  <2>2. PushStep(Rec("qc", "none", NoBuiltin), "end")
    BY <1>1, <1>2, <1>4, <2>1 DEF CallFails, Enter, MayCall, PushStep, others
  <2> QED
    BY <2>2, PushStepOK
<1>5. ASSUME NEW b \in Builtin, CallBuiltinDirectly(b, n) PROVE StackInv'
  <2>1. Rec("builtin", "builtin", b) \in Call
    BY <1>2 DEF Call
  <2>2. PushStep(Rec("builtin", "builtin", b), "host")
    BY <1>1, <1>2, <1>5, <2>1 DEF CallBuiltinDirectly, Enter, MayCall, PushStep, others
  <2> QED
    BY <2>2, PushStepOK
<1> QED
  BY <1>3, <1>4, <1>5

LEMMA ResumeThreadStack ==
  ASSUME StackInv, NEW ok \in BOOLEAN, ResumeThread(ok)
  PROVE  StackInv'
<1> DEFINE c == [kind |-> "thread", argc |-> argc, builtin |-> builtin,
                 at |-> "none", running |-> NoBuiltin, args |-> 0]
<1>1. mode = "host" /\ nesting = 0 /\ ~poisoned
  BY DEF ResumeThread, MayRunThreads
<1>2. calls = <<>>
  BY <1>1, NoCalls
<1>3. c \in Call
  BY HostCallsAssumption DEF Call, StackInv, StackType, Args
<1>4. calls' = Append(calls, c)
  <2>1. calls' = <<c>>
    BY DEF ResumeThread
  <2> QED
    BY <2>1, <1>2
<1>5. 1 \in 0 .. MaxNesting /\ nesting' = nesting + 1 /\ nesting' = 1
  BY <1>1, HostCallsAssumption DEF MaxNesting, ResumeThread
<1>6. PushStep(c, mode')
  <2>1. mode' \in {"qc", "end"} /\ UNCHANGED <<argc, builtin, abort_ret, poisoned>>
    BY DEF ResumeThread, others
  <2> HIDE DEF c
  <2>2. c.argc = argc /\ c.builtin = builtin /\ c.at = "none"
    BY DEF c
  <2> QED
    BY <2>1, <2>2, <1>1, <1>2, <1>3, <1>4, <1>5 DEF PushStep, StackInv, StackType
<1> QED
  BY <1>6, PushStepOK

LEMMA InHostCode ==
  ASSUME StackInv, InBuiltin \/ InStateOp
  PROVE  mode = "host" /\ calls # <<>> /\ Top \in Call
BY CallsCounted DEF InBuiltin, InStateOp

LEMMA InQuakeC ==
  ASSUME StackInv, mode = "qc"
  PROVE  calls # <<>> /\ Top \in Call
<1>1. calls # <<>>
  BY DEF StackInv, StackOK, NestingCounts
<1> QED
  BY <1>1, CallsCounted

\* The top record goes back to QuakeC.
LEMMA BackToQuakeC ==
  ASSUME StackInv, InBuiltin \/ InStateOp,
         calls' = WithTop([Top EXCEPT !.at = "none"]), mode' = "qc",
         UNCHANGED <<nesting, argc, builtin, abort_ret, poisoned>>
  PROVE  StackInv'
<1>1. mode = "host" /\ calls # <<>> /\ Top \in Call
  BY InHostCode
<1> DEFINE c == [Top EXCEPT !.at = "none"]
<1>2. /\ c \in Call /\ c.kind = Top.kind /\ c.argc = Top.argc /\ c.builtin = Top.builtin
      /\ c.at = "none"
  BY <1>1 DEF Call
<1> HIDE DEF c
<1>3. TopStep(c, "qc")
  BY <1>1, <1>2 DEF TopStep, c
<1> QED
  BY <1>3, TopStepOK

LEMMA AfterBuiltinStack ==
  ASSUME StackInv, InBuiltin, AfterBuiltin,
         UNCHANGED <<nesting, argc, builtin, abort_ret, poisoned>>
  PROVE  StackInv'
<1>1. mode = "host" /\ calls # <<>> /\ Top \in Call
  BY InHostCode
<1>2. CASE Top.kind = "builtin"
  <2>1. EndStep
    BY <1>1, <1>2 DEF AfterBuiltin, End, EndStep
  <2> QED
    BY <2>1, EndStepOK
<1>3. CASE Top.kind # "builtin"
  BY <1>3, BackToQuakeC DEF AfterBuiltin, Continue
<1> QED
  BY <1>2, <1>3

LEMMA CallBuiltinStack ==
  ASSUME StackInv, NEW b \in Builtin, NEW n \in Args, CallBuiltin(b, n)
  PROVE  StackInv'
<1>1. mode = "qc" /\ calls # <<>> /\ Top \in Call
  BY InQuakeC DEF CallBuiltin, MayRun
<1> DEFINE c == [Top EXCEPT !.at = "builtin", !.running = b, !.args = n]
<1>2. /\ c \in Call /\ c.kind = Top.kind /\ c.argc = Top.argc /\ c.builtin = Top.builtin
      /\ c.at = "builtin" /\ c.running = b /\ c.args = n
  BY <1>1 DEF Call, Args
<1>3. calls' = WithTop(c)
  BY DEF CallBuiltin
<1> HIDE DEF c
<1>4. TopStep(c, "host")
  BY <1>1, <1>2, <1>3 DEF TopStep, CallBuiltin, others
<1> QED
  BY <1>4, TopStepOK

LEMMA StateOpStack == ASSUME StackInv, StateOp PROVE StackInv'
<1>1. mode = "qc" /\ calls # <<>> /\ Top \in Call
  BY InQuakeC DEF StateOp, MayRun
<1> DEFINE c == [Top EXCEPT !.at = "state"]
<1>2. /\ c \in Call /\ c.kind = Top.kind /\ c.argc = Top.argc /\ c.builtin = Top.builtin
      /\ c.at = "state"
  BY <1>1 DEF Call
<1>3. calls' = WithTop(c)
  BY DEF StateOp
<1> HIDE DEF c
<1>4. TopStep(c, "host")
  BY <1>1, <1>2, <1>3 DEF TopStep, StateOp, others
<1> QED
  BY <1>4, TopStepOK

\* Actions that end the running call.
Ending ==
  \/ ReturnToHost \/ Faults \/ RunsAway
  \/ (NextChunk /\ mode' = "end")
  \/ BuiltinAborts \/ \E r \in Failure : BuiltinFails(r) \/ StateOpFails(r)

LEMMA EndingStack == ASSUME StackInv, Ending PROVE StackInv'
<1>1. calls # <<>> /\ mode \in {"host", "qc"}
  <2>1. CASE mode = "qc"
    BY <2>1, InQuakeC
  <2>2. CASE InBuiltin \/ InStateOp
    BY <2>2, InHostCode
  <2> QED
    BY <2>1, <2>2 DEF Ending, ReturnToHost, Faults, RunsAway, NextChunk, MayRun,
                      BuiltinAborts, BuiltinFails, StateOpFails
<1>2. EndStep
  <2>1. CASE ReturnToHost
    BY <1>1, <2>1 DEF ReturnToHost, End, EndStep, others
  <2>2. CASE Faults
    BY <1>1, <2>2 DEF Faults, End, EndStep, others
  <2>3. CASE RunsAway
    BY <1>1, <2>3 DEF RunsAway, End, EndStep, others
  <2>4. CASE NextChunk /\ mode' = "end"
    BY <1>1, <2>4 DEF NextChunk, End, EndStep, others
  <2>5. CASE BuiltinAborts
    BY <1>1, <2>5 DEF BuiltinAborts, End, EndStep, others
  <2>6. ASSUME NEW r \in Failure, BuiltinFails(r) PROVE EndStep
    BY <1>1, <2>6 DEF BuiltinFails, End, EndStep, others
  <2>7. ASSUME NEW r \in Failure, StateOpFails(r) PROVE EndStep
    BY <1>1, <2>7 DEF StateOpFails, End, EndStep, others
  <2> QED
    BY <2>1, <2>2, <2>3, <2>4, <2>5, <2>6, <2>7 DEF Ending
<1> QED
  BY <1>2, EndStepOK

\* Actions that leave the stack alone.
Quiet ==
  \/ CallBadArguments \/ CallRefused \/ Report \/ Straight \/ Jump \/ Warns
  \/ (NextChunk /\ mode' # "end")
  \/ HostWarns \/ MakeTemp \/ CollectGarbage
  \/ (\E on \in BOOLEAN : SetTrace(on)) \/ SetDeveloper \/ DeadlinePasses

LEMMA QuietStack == ASSUME StackInv, Quiet PROVE StackInv'
<1>1. SameStack
  <2>1. CASE CallBadArguments
    BY <2>1 DEF CallBadArguments, SameStack, others
  <2>2. CASE CallRefused
    BY <2>2 DEF CallRefused, SameStack, others
  <2>3. CASE Report
    BY <2>3 DEF Report, SameStack, others, control
  <2>4. CASE Straight
    BY <2>4 DEF Straight, SameStack, others, control
  <2>5. CASE Jump
    BY <2>5 DEF Jump, SameStack, others, control
  <2>6. CASE Warns
    BY <2>6 DEF Warns, SameStack, others, control
  <2>7. CASE NextChunk /\ mode' # "end"
    BY <2>7 DEF NextChunk, End, SameStack, others
  <2>8. CASE HostWarns
    BY <2>8 DEF HostWarns, SameStack, others, control
  <2>9. CASE MakeTemp
    BY <2>9 DEF MakeTemp, SameStack, control
  <2>10. CASE CollectGarbage
    BY <2>10 DEF CollectGarbage, SameStack, control
  <2>11. ASSUME NEW on \in BOOLEAN, SetTrace(on) PROVE SameStack
    BY <2>11 DEF SetTrace, SameStack, others, control
  <2>12. CASE SetDeveloper
    BY <2>12 DEF SetDeveloper, SameStack, control
  <2>13. CASE DeadlinePasses
    BY <2>13 DEF DeadlinePasses, SameStack, others, control
  <2> QED
    BY <2>1, <2>2, <2>3, <2>4, <2>5, <2>6, <2>7, <2>8, <2>9, <2>10, <2>11, <2>12, <2>13 DEF Quiet
<1> QED
  BY <1>1, SameStackStep

\* Actions after which no call is left.
LEMMA EmptyingStack ==
  ASSUME StackInv, Panic \/ Reset \/ \E last \in BOOLEAN : FinishThread(last)
  PROVE  StackInv'
<1>1. /\ nesting \in 0 .. MaxNesting /\ argc \in Args /\ builtin \in Builtin \cup {NoBuiltin}
      /\ MaxNesting \in Nat /\ 0 \in Args
  BY HostCallsAssumption DEF StackInv, StackType, MaxNesting, Args
<1>2. CASE Panic
  <2>1. abort_ret = None
    BY <1>2 DEF Panic, StackInv, AbortReachesItsCall
  <2> QED
    BY <1>1, <1>2, <2>1, EmptyStackStep DEF Panic
<1>3. CASE Reset
  <2>1. calls' = <<>> /\ mode' = "host" /\ abort_ret' = None
    BY <1>3 DEF Reset
  <2>2. nesting' = 0 /\ argc' = 0 /\ builtin' = NoBuiltin /\ poisoned' = FALSE
    BY <1>3 DEF Reset
  <2>3. nesting' \in 0 .. MaxNesting /\ argc' \in Args
    BY <1>1, <2>2
  <2> QED
    BY <2>1, <2>2, <2>3, EmptyStackStep
<1>4. ASSUME NEW last \in BOOLEAN, FinishThread(last) PROVE StackInv'
  <2>1. calls # <<>> /\ ~poisoned
    BY <1>4 DEF FinishThread, StackInv, StackOK, NestingCounts
  <2>2. nesting = 1
    BY <1>4, <2>1, ThreadAlone DEF FinishThread
  <2>3. /\ calls' = <<>> /\ mode' = "host" /\ abort_ret' = None
        /\ UNCHANGED <<argc, builtin, poisoned>>
    BY <1>4 DEF FinishThread, AfterThread
  <2>4. nesting' = 0 /\ nesting' \in 0 .. MaxNesting
    BY <1>1, <1>4, <2>2 DEF FinishThread
  <2>5. poisoned' \in BOOLEAN
    BY <2>3 DEF StackInv, StackType
  <2> QED
    BY <1>1, <2>3, <2>4, <2>5, EmptyStackStep
<1> QED
  BY <1>2, <1>3, <1>4

LEMMA NextStack == ASSUME StackInv, Next PROVE StackInv'
<1>1. ASSUME NEW n \in Args, CallFunction(n) \/ CallFails(n) PROVE StackInv'
  BY <1>1, StartsStack
<1>2. ASSUME NEW b \in Builtin, NEW n \in Args, CallBuiltinDirectly(b, n) \/ CallBuiltin(b, n)
      PROVE  StackInv'
  BY <1>2, StartsStack, CallBuiltinStack
<1>3. ASSUME NEW ok \in BOOLEAN, ResumeThread(ok) PROVE StackInv'
  BY <1>3, ResumeThreadStack
<1>4. CASE FinishCall
  BY <1>4, FinishCallStack
<1>5. CASE StateOp
  BY <1>5, StateOpStack
<1>6. CASE BuiltinReturns \/ BuiltinWarns
  BY <1>6, AfterBuiltinStack DEF BuiltinReturns, BuiltinWarns, others
<1>7. ASSUME NEW n \in {0, 1}, StateOpDone(n) PROVE StackInv'
  BY <1>7, BackToQuakeC DEF StateOpDone, Continue, others
<1>8. CASE Ending
  BY <1>8, EndingStack
<1>9. CASE Quiet
  BY <1>9, QuietStack
<1>10. CASE Panic \/ Reset \/ \E last \in BOOLEAN : FinishThread(last)
  BY <1>10, EmptyingStack
<1>11. \/ \E n \in Args : CallFunction(n) \/ CallFails(n)
       \/ \E b \in Builtin, n \in Args : CallBuiltinDirectly(b, n) \/ CallBuiltin(b, n)
       \/ \E ok \in BOOLEAN : ResumeThread(ok)
       \/ FinishCall \/ StateOp \/ BuiltinReturns \/ BuiltinWarns
       \/ \E n \in {0, 1} : StateOpDone(n)
       \/ Ending \/ Quiet
       \/ Panic \/ Reset \/ \E last \in BOOLEAN : FinishThread(last)
  <2>1. mode' = "end" \/ mode' # "end"
    OBVIOUS
  <2> QED
    BY <2>1, ZenonT(60) DEF Next, Ending, Quiet
<1> QED
  BY <1>1, <1>2, <1>3, <1>4, <1>5, <1>6, <1>7, <1>8, <1>9, <1>10, <1>11

-----------------------------------------------------------------------------
(* What a step does to the budget.                                         *)

\* The budget, its history, and the run in progress.
BudgetInv ==
  /\ budget \in Nat /\ run \in Run /\ run.left <= run.chunk /\ ran \in Nat
  /\ result \in Failure \cup {"ok"}
  /\ BudgetOK

\* A run starts on what is left of the budget.
FreshRun == \E on \in BOOLEAN :
  run' = [chunk |-> ChunkOf(budget'), left |-> ChunkOf(budget'), trace |-> on]

\* Host code goes on in QuakeC, or QuakeC has stopped.
RunsOrStops ==
  \/ mode' = "qc" /\ FreshRun
  \/ mode' \in {"host", "end"} /\ run' \in {run, Idle}

\* The five things a step can be to the budget.
Rests ==
  /\ UNCHANGED <<budget, run, ran, mode>> /\ (calls' = <<>>) = (calls = <<>>)
  /\ result' \in {result, "error"} /\ (mode # "host" => result' = result)
Starts ==
  /\ mode = "host" /\ calls = <<>>
  /\ budget' = Runaway /\ ran' = 0 /\ result' \in {"ok", "error"} /\ RunsOrStops
Settles ==
  /\ calls # <<>>
  /\ budget' = Remaining /\ ran' = ran /\ RunsOrStops
  /\ result' \in Failure \cup {"ok"} /\ (result' = "runaway" => budget' = 0)
Counts ==
  /\ calls # <<>> /\ calls' # <<>> /\ mode = "qc" /\ run.left > 1 /\ ran' = ran + 1
  /\ \/ UNCHANGED <<mode, result, budget>> /\ run' = [run EXCEPT !.left = @ - 1]
     \/ /\ mode' \in {"host", "end"} /\ result' \in {"ok", "error"}
        /\ budget' = Remaining - 1 /\ run' = Idle
Refuses ==
  /\ calls # <<>> /\ calls' # <<>> /\ mode = "qc" /\ Remaining <= 1
  /\ budget' = 0 /\ ran' = ran /\ mode' = "end" /\ result' = "runaway" /\ run' = Idle

BudgetStep == Rests \/ Starts \/ Settles \/ Counts \/ Refuses

LEMMA ChunkFacts ==
  ASSUME NEW b \in Nat
  PROVE  ChunkOf(b) \in Nat /\ ChunkOf(b) <= b /\ (b > 0 => ChunkOf(b) > 0)
BY HostCallsAssumption DEF ChunkOf

LEMMA RemainingFacts ==
  ASSUME BudgetInv
  PROVE  /\ Remaining \in Nat
         /\ mode = "qc" => Remaining = Spend /\ run.chunk <= budget
         /\ mode = "qc" /\ run.left > 1 => Remaining - 1 \in Nat
         /\ mode # "qc" => Remaining = budget
<1>1. /\ budget \in Nat /\ run.chunk \in Nat /\ run.left \in Nat /\ run.left <= run.chunk
  BY DEF BudgetInv, Run
<1>2. mode = "qc" => run.chunk <= budget
  BY <1>1, ChunkFacts DEF BudgetInv, BudgetOK
<1> DEFINE c == run.chunk
           l == run.left
<1>3. /\ budget \in Nat /\ c \in Nat /\ l \in Nat /\ l <= c /\ (mode = "qc" => c <= budget)
  BY <1>1, <1>2
<1>4. Remaining = IF mode = "qc" THEN budget - (c - l) ELSE budget
  BY DEF Remaining
<1>5. Spend = budget - (c - l)
  BY DEF Spend
<1>6. (mode = "qc" /\ run.left > 1) = (mode = "qc" /\ l > 1)
  OBVIOUS
<1>7. run.chunk <= budget <=> c <= budget
  OBVIOUS
<1> HIDE DEF c, l
<1> QED
  BY <1>3, <1>4, <1>5, <1>6, <1>7

LEMMA FreshRunFacts ==
  ASSUME budget' \in Nat, FreshRun
  PROVE  /\ run' \in Run /\ run'.left <= run'.chunk /\ run'.chunk = ChunkOf(budget')
         /\ run'.chunk > 0 => run'.left > 0
<1>1. PICK on \in BOOLEAN :
        run' = [chunk |-> ChunkOf(budget'), left |-> ChunkOf(budget'), trace |-> on]
  BY DEF FreshRun
<1>2. PICK k \in Nat : k = ChunkOf(budget')
  BY ChunkFacts
<1>3. run' = [chunk |-> k, left |-> k, trace |-> on]
  BY <1>1, <1>2
<1> QED
  BY <1>2, <1>3 DEF Run

LEMMA BudgetStepOK == ASSUME BudgetInv, BudgetStep PROVE BudgetInv'
<1>1. CASE Rests
  BY <1>1 DEF Rests, BudgetInv, BudgetOK, Failure, ChunkOf
<1>2. ASSUME budget' \in Nat, ran' \in Nat, RunsOrStops, result' \in Failure \cup {"ok"},
             result' = "runaway" => budget' = 0
      PROVE  BudgetInv'
  <2>1. CASE mode' = "qc" /\ FreshRun
    BY <1>2, <2>1, FreshRunFacts DEF BudgetInv, BudgetOK, ChunkOf
  <2>2. CASE mode' \in {"host", "end"} /\ run' \in {run, Idle}
    <3>1. run' \in Run /\ run'.left <= run'.chunk
      <4>1. Idle \in Run /\ Idle.left <= Idle.chunk
        BY DEF Idle, Run
      <4> QED
        BY <2>2, <4>1 DEF BudgetInv
    <3> QED
      BY <1>2, <2>2, <3>1 DEF BudgetInv, BudgetOK
  <2> QED
    BY <1>2, <2>1, <2>2 DEF RunsOrStops
<1>3. CASE Starts
  BY <1>2, <1>3, HostCallsAssumption DEF Starts, Failure
<1>4. CASE Settles
  BY <1>2, <1>4, RemainingFacts DEF Settles, BudgetInv
<1>5. CASE Counts
  <2>1. ran' \in Nat
    BY <1>5 DEF Counts, BudgetInv
  <2>2. CASE UNCHANGED <<mode, result, budget>> /\ run' = [run EXCEPT !.left = @ - 1]
    <3>1. /\ run.left \in Nat /\ run.left > 1 /\ run.chunk \in Nat /\ run.left <= run.chunk
          /\ run.trace \in BOOLEAN
      BY <1>5 DEF Counts, BudgetInv, Run
    <3>2. PICK k \in Nat : k = run.left - 1 /\ k > 0 /\ k <= run.chunk
      BY <3>1
    <3>3. run' = [chunk |-> run.chunk, left |-> k, trace |-> run.trace]
      BY <2>2, <3>2 DEF BudgetInv, Run
    <3>4. run' \in Run /\ run'.left = k /\ run'.chunk = run.chunk
      BY <3>1, <3>3 DEF Run
    <3>5. run'.left <= run'.chunk /\ run'.left > 0
      BY <3>2, <3>4
    <3> QED
      BY <2>1, <2>2, <3>4, <3>5 DEF BudgetInv, BudgetOK, ChunkOf
  <2>3. CASE /\ mode' \in {"host", "end"} /\ result' \in {"ok", "error"}
             /\ budget' = Remaining - 1 /\ run' = Idle
    <3>1. budget' \in Nat
      BY <1>5, <2>3, RemainingFacts DEF Counts
    <3> QED
      BY <1>2, <2>1, <2>3, <3>1 DEF RunsOrStops, Failure
  <2> QED
    BY <1>5, <2>2, <2>3 DEF Counts
<1>6. CASE Refuses
  BY <1>2, <1>6 DEF Refuses, RunsOrStops, BudgetInv, Failure
<1> QED
  BY <1>1, <1>3, <1>4, <1>5, <1>6 DEF BudgetStep

\* Host code calls: the budget starts afresh at the top level and is shared below it.
LEMMA CallsBudget ==
  ASSUME StackInv, BudgetInv, trace \in BOOLEAN,
         \/ \E n \in Args : CallFunction(n) \/ CallFails(n)
         \/ \E b \in Builtin, n \in Args : CallBuiltinDirectly(b, n)
         \/ CallBadArguments \/ CallRefused \/ \E ok \in BOOLEAN : ResumeThread(ok)
  PROVE  BudgetStep
<1>1. mode = "host" /\ Remaining = budget
  BY DEF CallFunction, CallFails, CallBuiltinDirectly, CallBadArguments, CallRefused,
         ResumeThread, MayCall, MayRunThreads, Remaining
<1>2. CASE CallRefused
  BY <1>1, <1>2 DEF CallRefused, BudgetStep, Rests, budgets
<1>3. CASE CallBadArguments
  <2>1. result' = "error" /\ UNCHANGED <<run, calls, mode>> /\ ~poisoned
    BY <1>3 DEF CallBadArguments, MayCall
  <2>2. CASE TopLevel
    <3>1. budget' = Runaway /\ ran' = 0
      BY <1>3, <2>2 DEF CallBadArguments, StartBudgets
    <3>2. calls = <<>>
      BY <2>1, <2>2, NoCalls DEF TopLevel
    <3> QED
      BY <1>1, <2>1, <3>1, <3>2 DEF BudgetStep, Starts, RunsOrStops
  <2>3. CASE ~TopLevel
    BY <1>1, <1>3, <2>1, <2>3 DEF CallBadArguments, BudgetStep, Rests
  <2> QED
    BY <2>2, <2>3
<1>4. ASSUME NEW ok \in BOOLEAN, ResumeThread(ok) PROVE BudgetStep
  <2>1. calls = <<>> /\ budget' = Runaway /\ ran' = 0
    BY <1>4, NoCalls DEF ResumeThread, MayRunThreads, StartBudgets
  <2>2. result' \in {"ok", "error"}
    BY <1>4 DEF ResumeThread
  <2>3. RunsOrStops
    <3>1. CASE ok
      BY <1>4, <2>1, <3>1 DEF ResumeThread, StartRun, RunsOrStops, FreshRun
    <3>2. CASE ~ok
      BY <1>4, <3>2 DEF ResumeThread, RunsOrStops
    <3> QED
      BY <3>1, <3>2
  <2> QED
    BY <1>1, <2>1, <2>2, <2>3 DEF BudgetStep, Starts
<1>5. ASSUME NEW n \in Args,
             CallFunction(n) \/ CallFails(n) \/ \E b \in Builtin : CallBuiltinDirectly(b, n)
      PROVE  BudgetStep
  <2>1. result' \in {"ok", "error"} /\ ~poisoned
    BY <1>5 DEF CallFunction, CallFails, CallBuiltinDirectly, MayCall
  <2>2. CASE TopLevel
    <3>1. calls = <<>> /\ budget' = Runaway /\ ran' = 0
      BY <1>5, <2>1, <2>2, NoCalls DEF CallFunction, CallFails, CallBuiltinDirectly,
         TopLevel, RestartsBudgets, StartBudgets
    <3>2. RunsOrStops
      <4>1. CASE CallFunction(n)
        BY <4>1, <2>2, <3>1 DEF CallFunction, Enter, StartRun, RunsOrStops, FreshRun,
           RestartsBudgets
      <4>2. CASE CallFails(n) \/ \E b \in Builtin : CallBuiltinDirectly(b, n)
        BY <4>2 DEF CallFails, CallBuiltinDirectly, Enter, RunsOrStops
      <4> QED
        BY <1>5, <4>1, <4>2
    <3> QED
      BY <1>1, <2>1, <3>1, <3>2 DEF BudgetStep, Starts
  <2>3. CASE ~TopLevel
    <3>1. calls # <<>>
      BY <2>1, <2>3 DEF TopLevel, StackInv, StackType, StackOK, NestingCounts
    <3>2. budget' = budget /\ ran' = ran
      BY <1>5, <2>3 DEF CallFunction, CallFails, CallBuiltinDirectly, RestartsBudgets
    <3>3. RunsOrStops
      <4>1. CASE CallFunction(n)
        BY <4>1, <2>3, <3>2 DEF CallFunction, Enter, StartRun, RunsOrStops, FreshRun,
           RestartsBudgets
      <4>2. CASE CallFails(n) \/ \E b \in Builtin : CallBuiltinDirectly(b, n)
        BY <4>2 DEF CallFails, CallBuiltinDirectly, Enter, RunsOrStops
      <4> QED
        BY <1>5, <4>1, <4>2
    <3> QED
      BY <1>1, <2>1, <3>1, <3>2, <3>3 DEF BudgetStep, Settles, Failure
  <2> QED
    BY <2>2, <2>3
<1> QED
  BY <1>2, <1>3, <1>4, <1>5

\* Statements, host code that ends, and calls that end.
LEMMA RunningBudget ==
  ASSUME StackInv, BudgetInv, trace \in BOOLEAN,
         \/ Report \/ Straight \/ Jump \/ Warns \/ StateOp \/ ReturnToHost \/ Faults
         \/ RunsAway \/ NextChunk \/ \E b \in Builtin, n \in Args : CallBuiltin(b, n)
  PROVE  BudgetStep
<1>1. mode = "qc" /\ calls # <<>> /\ Top \in Call
  <2>1. mode = "qc"
    BY DEF Report, Straight, Jump, Warns, StateOp, ReturnToHost, Faults, RunsAway, NextChunk,
           CallBuiltin, MayRun
  <2> QED
    BY <2>1, InQuakeC
<1>2. Remaining = Spend
  BY <1>1, RemainingFacts
<1>3. WithTop(Top) # <<>> /\ \A c \in Call : WithTop(c) # <<>>
  BY <1>1, WithTopFacts DEF StackInv, StackType, WithTop
<1>4. CASE Straight \/ Warns
  BY <1>1, <1>4 DEF Straight, Warns, BudgetStep, Rests, control, budgets
<1>5. CASE Report
  <2>1. budget' = Remaining /\ ran' = ran /\ UNCHANGED <<calls, mode, result>>
    BY <1>2, <1>5 DEF Report, control
  <2>2. FreshRun
    BY <1>5 DEF Report, StartRun, FreshRun
  <2>3. result = "runaway" => Remaining = 0
    <3> SUFFICES ASSUME result = "runaway" PROVE Remaining = 0
      OBVIOUS
    <3>1. budget = 0 /\ run.chunk <= budget /\ run.chunk \in Nat /\ run.left \in Nat
          /\ run.left <= run.chunk
      BY <1>1, RemainingFacts DEF BudgetInv, BudgetOK, Run
    <3> QED
      BY <3>1 DEF Remaining
  <2> QED
    BY <1>1, <2>1, <2>2, <2>3 DEF BudgetStep, Settles, RunsOrStops, BudgetInv
<1>6. CASE Jump
  BY <1>1, <1>6 DEF Jump, Count, Counted, BudgetStep, Counts, control
<1>7. ASSUME NEW b \in Builtin, NEW n \in Args, CallBuiltin(b, n) PROVE BudgetStep
  <2>1. [Top EXCEPT !.at = "builtin", !.running = b, !.args = n] \in Call
    BY <1>1 DEF Call, Args
  <2>2. calls' # <<>>
    BY <1>3, <1>7, <2>1 DEF CallBuiltin
  <2> QED
    BY <1>1, <1>2, <1>7, <2>2 DEF CallBuiltin, Count, Counted, BudgetStep, Counts
<1>8. CASE StateOp
  BY <1>1, <1>2, <1>8 DEF StateOp, BudgetStep, Settles, RunsOrStops
<1>9. CASE ReturnToHost
  BY <1>1, <1>2, <1>9 DEF ReturnToHost, End, Count, Counted, BudgetStep, Counts
<1>10. CASE Faults
  <2>1. /\ mode' = "end" /\ result' = "error" /\ run' = Idle /\ UNCHANGED calls
    BY <1>10 DEF Faults, End
  <2>2. CASE budget' = Spend /\ UNCHANGED <<ran, unchecked>>
    BY <1>1, <1>2, <2>1, <2>2 DEF BudgetStep, Settles, RunsOrStops, Failure
  <2>3. CASE Count /\ budget' = Spend - 1
    BY <1>1, <1>2, <2>1, <2>3 DEF Count, Counted, BudgetStep, Counts
  <2> QED
    BY <1>10, <2>2, <2>3 DEF Faults
<1>11. CASE RunsAway \/ NextChunk
  <2> DEFINE c == run.chunk
             l == run.left
  <2>1. /\ budget \in Nat /\ c \in Nat /\ l \in Nat /\ l <= c /\ c = ChunkOf(budget)
        /\ (c > 0 => l > 0) /\ ~(l > 1)
    BY <1>1, <1>11 DEF BudgetInv, Run, BudgetOK, RunsAway, NextChunk, Counted
  <2>2. Remaining = budget - (c - l)
    BY <1>1 DEF Remaining
  <2>3. CASE RunsAway
    <3>1. budget <= c
      BY <2>3 DEF RunsAway, IsRunaway
    <3>2. Remaining <= 1
      <4> HIDE DEF c, l
      <4> QED
        BY <2>1, <2>2, <3>1
    <3> QED
      BY <1>1, <2>3, <3>2 DEF RunsAway, End, BudgetStep, Refuses
  <2>4. CASE NextChunk
    <3>1. ~(budget <= c) /\ budget' = budget - (c - 1)
      BY <2>4 DEF NextChunk, IsRunaway, AfterChunk
    <3>2. Remaining = budget'
      <4>1. budget > 0 => c > 0
        BY <2>1, ChunkFacts
      <4> HIDE DEF c, l
      <4> QED
        BY <2>1, <2>2, <3>1, <4>1
    <3>3. budget' = AfterChunk
      BY <2>4 DEF NextChunk
    <3>4. RunsOrStops /\ result' \in Failure \cup {"ok"} /\ (result' = "runaway" => budget' = 0)
      <4>1. CASE late
        BY <2>4, <4>1 DEF NextChunk, End, RunsOrStops, Failure
      <4>2. CASE ~late
        <5>1. RunsOrStops /\ result' = result
          BY <1>1, <2>4, <3>3, <4>2 DEF NextChunk, StartRun, RunsOrStops, FreshRun
        <5>2. result # "runaway"
          <6>1. budget # 0
            <7> HIDE DEF c, l
            <7> QED
              BY <2>1, <3>1
          <6> QED
            BY <6>1 DEF BudgetInv, BudgetOK
        <5> QED
          BY <5>1, <5>2 DEF BudgetInv
      <4> QED
        BY <4>1, <4>2
    <3> QED
      BY <1>1, <2>4, <3>2, <3>4 DEF NextChunk, BudgetStep, Settles
  <2> QED
    BY <1>11, <2>3, <2>4
<1> QED
  BY <1>4, <1>5, <1>6, <1>7, <1>8, <1>9, <1>10, <1>11

LEMMA HostCodeBudget ==
  ASSUME StackInv, BudgetInv, trace \in BOOLEAN,
         \/ FinishCall \/ BuiltinReturns \/ BuiltinAborts \/ BuiltinWarns
         \/ \E last \in BOOLEAN : FinishThread(last)
         \/ \E r \in Failure : BuiltinFails(r) \/ StateOpFails(r)
         \/ \E n \in {0, 1} : StateOpDone(n)
         \/ HostWarns \/ MakeTemp \/ CollectGarbage \/ SetDeveloper \/ Panic \/ Reset
         \/ DeadlinePasses \/ \E on \in BOOLEAN : SetTrace(on)
  PROVE  BudgetStep
<1>1. CASE \/ HostWarns \/ MakeTemp \/ CollectGarbage \/ SetDeveloper
           \/ Reset \/ DeadlinePasses \/ \E on \in BOOLEAN : SetTrace(on)
  BY <1>1 DEF HostWarns, MakeTemp, CollectGarbage, SetDeveloper, Reset, DeadlinePasses, SetTrace,
     control, budgets, BudgetStep, Rests
<1>2. CASE FinishCall \/ Panic \/ \E last \in BOOLEAN : FinishThread(last)
  <2>1. calls # <<>> /\ mode \in {"host", "end"}
    BY <1>2 DEF FinishCall, Panic, FinishThread, StackInv, StackOK, NestingCounts
  <2>2. UNCHANGED <<result, budget, run, ran>> /\ mode' = "host"
    BY <1>2 DEF FinishCall, Panic, FinishThread, budgets
  <2>3. Remaining = budget
    BY <2>1 DEF Remaining
  <2> QED
    BY <2>1, <2>2, <2>3 DEF BudgetStep, Settles, RunsOrStops, BudgetInv, BudgetOK
<1>3. ASSUME InBuiltin \/ InStateOp,
             UNCHANGED <<budget, ran>>, RunsOrStops, result' \in Failure \cup {"ok"},
             result' = "runaway" => result = "runaway"
      PROVE  BudgetStep
  <2>1. calls # <<>> /\ Remaining = budget
    BY <1>3, InHostCode DEF Remaining
  <2> QED
    BY <1>3, <2>1 DEF BudgetStep, Settles, BudgetInv, BudgetOK
<1>4. AfterBuiltin /\ UNCHANGED budget => RunsOrStops /\ result' \in {result, "ok"}
  BY DEF AfterBuiltin, End, Continue, StartRun, RunsOrStops, FreshRun
<1>5. CASE BuiltinReturns \/ BuiltinWarns
  BY <1>3, <1>4, <1>5 DEF BuiltinReturns, BuiltinWarns, BudgetInv
<1>6. CASE BuiltinAborts
  BY <1>3, <1>6 DEF BuiltinAborts, End, budgets, RunsOrStops
<1>7. ASSUME NEW r \in Failure, BuiltinFails(r) \/ StateOpFails(r) PROVE BudgetStep
  BY <1>3, <1>7 DEF BuiltinFails, StateOpFails, End, budgets, RunsOrStops, BudgetInv
<1>8. ASSUME NEW n \in {0, 1}, StateOpDone(n) PROVE BudgetStep
  BY <1>3, <1>8 DEF StateOpDone, Continue, StartRun, RunsOrStops, FreshRun, BudgetInv
<1> QED
  BY <1>1, <1>2, <1>5, <1>6, <1>7, <1>8

LEMMA NextBudget ==
  ASSUME StackInv, BudgetInv, trace \in BOOLEAN, Next
  PROVE  BudgetStep
<1>1. \/ \/ \E n \in Args : CallFunction(n) \/ CallFails(n)
         \/ \E b \in Builtin, n \in Args : CallBuiltinDirectly(b, n)
         \/ CallBadArguments \/ CallRefused \/ \E ok \in BOOLEAN : ResumeThread(ok)
      \/ \/ Report \/ Straight \/ Jump \/ Warns \/ StateOp \/ ReturnToHost \/ Faults
         \/ RunsAway \/ NextChunk \/ \E b \in Builtin, n \in Args : CallBuiltin(b, n)
      \/ \/ FinishCall \/ BuiltinReturns \/ BuiltinAborts \/ BuiltinWarns
         \/ \E last \in BOOLEAN : FinishThread(last)
         \/ \E r \in Failure : BuiltinFails(r) \/ StateOpFails(r)
         \/ \E n \in {0, 1} : StateOpDone(n)
         \/ HostWarns \/ MakeTemp \/ CollectGarbage \/ SetDeveloper \/ Panic \/ Reset
         \/ DeadlinePasses \/ \E on \in BOOLEAN : SetTrace(on)
  BY ZenonT(60) DEF Next
<1> QED
  BY <1>1, CallsBudget, RunningBudget, HostCodeBudget

-----------------------------------------------------------------------------
(* Warnings.                                                               *)

WarningsInv ==
  /\ warned \in Nat /\ suppressed \in Nat /\ warnings \in Nat /\ unheard \in Nat
  /\ WarningsOK

\* The call on the stack is not a thread, or nothing is on it.
ByHost == calls # <<>> /\ calls[1].kind # "thread"

\* The four things a step can do to the warnings.
Raised ==
  \E n, s \in Nat : /\ s <= n
                    /\ suppressed' = suppressed + s /\ warnings' = warnings + n - s
                    /\ unheard' = unheard + n /\ (ByHost' => ByHost)
Heard ==
  \E s \in Nat : /\ warnings' = 0 /\ suppressed' = suppressed + s
                 /\ unheard' = unheard - warnings + s /\ (ByHost' => ByHost)
Begun == /\ suppressed' \in {0, suppressed} /\ unheard' = warnings /\ UNCHANGED warnings
         /\ (ByHost' => suppressed' = 0)
Over == /\ warnings' = 0 /\ unheard' \in Nat /\ suppressed' \in Nat /\ ~ByHost'

WarningsStep == warned' \in Nat /\ (Raised \/ Heard \/ Begun \/ Over)

LEMMA WarningsStepOK == ASSUME WarningsInv, WarningsStep PROVE WarningsInv'
<1>1. /\ warned' \in Nat /\ suppressed \in Nat /\ warnings \in Nat /\ unheard \in Nat
      /\ warnings <= unheard /\ (ByHost => unheard = warnings + suppressed)
  BY DEF WarningsInv, WarningsOK, WarningsStep, ByHost
<1>2. /\ suppressed' \in Nat /\ warnings' \in Nat /\ unheard' \in Nat
      /\ warnings' <= unheard' /\ (ByHost' => unheard' = warnings' + suppressed')
  <2>1. CASE Raised
    BY <1>1, <2>1 DEF Raised
  <2>2. CASE Heard
    BY <1>1, <2>2 DEF Heard
  <2>3. CASE Begun
    <3>1. suppressed' \in Nat /\ warnings' = warnings /\ unheard' = warnings
      BY <1>1, <2>3 DEF Begun
    <3>2. ByHost' => suppressed' = 0
      BY <2>3 DEF Begun
    <3>3. warnings + 0 = warnings /\ warnings <= warnings
      BY <1>1
    <3> QED
      BY <1>1, <3>1, <3>2, <3>3
  <2>4. CASE Over
    <3>1. suppressed' \in Nat /\ warnings' = 0 /\ unheard' \in Nat /\ ~ByHost'
      BY <2>4 DEF Over
    <3>2. warnings' <= unheard'
      BY <3>1
    <3> QED
      BY <3>1, <3>2
  <2> QED
    BY <2>1, <2>2, <2>3, <2>4 DEF WarningsStep
<1> QED
  BY <1>1, <1>2 DEF WarningsInv, WarningsOK, ByHost

\* What a step does to a stack that is not empty.
LEMMA StackChange ==
  ASSUME StackInv, Next, calls # <<>>
  PROVE  \/ calls' = calls
         \/ FinishCall /\ calls' = Front(calls)
         \/ (Panic \/ \E last \in BOOLEAN : FinishThread(last)) /\ calls' = <<>>
         \/ \E c \in Call : calls' = Append(calls, c)
         \/ \E c \in Call : calls' = WithTop(c) /\ c.kind = Top.kind
<1>1. calls \in Seq(Call) /\ Top = Last(calls) /\ Top \in Call
  BY CallsCounted DEF Top, StackInv, StackType
<1>2. \/ calls' = calls
      \/ FinishCall /\ calls' = Front(calls)
      \/ (Panic \/ \E last \in BOOLEAN : FinishThread(last)) /\ calls' = <<>>
      \/ \E c \in Call : calls' = Append(calls, c)
      \/ \E c \in Call : calls' = WithTop(c) /\ c.kind = Top.kind
  <2>1. CASE \/ CallBadArguments \/ CallRefused \/ Report \/ Straight \/ Jump
             \/ Warns \/ ReturnToHost \/ Faults \/ RunsAway \/ NextChunk \/ BuiltinAborts
             \/ HostWarns \/ MakeTemp \/ CollectGarbage \/ SetDeveloper \/ Reset
             \/ DeadlinePasses
    BY <2>1 DEF CallBadArguments, CallRefused, Report, Straight, Jump, Warns,
       ReturnToHost, Faults, RunsAway, NextChunk, BuiltinAborts, HostWarns, MakeTemp,
       CollectGarbage, SetDeveloper, Reset, DeadlinePasses, control
  <2>2. ASSUME NEW ok \in BOOLEAN, ResumeThread(ok) \/ FinishThread(ok) \/ SetTrace(ok)
        PROVE  calls' = calls \/ (FinishThread(ok) /\ calls' = <<>>)
    <3>1. CASE ResumeThread(ok)
      BY <3>1, NoCalls DEF ResumeThread, MayRunThreads
    <3> QED
      BY <2>2, <3>1 DEF FinishThread, SetTrace, control
  <2>3. ASSUME NEW n \in Args, CallFunction(n) \/ CallFails(n)
                               \/ \E b \in Builtin : CallBuiltinDirectly(b, n)
        PROVE  \E c \in Call : calls' = Append(calls, c)
    <3>1. argc \in 0 .. MaxArgs /\ n \in 0 .. MaxArgs /\ builtin \in Builtin \cup {NoBuiltin}
      BY DEF StackInv, StackType, Args
    <3>2. CASE CallFunction(n) \/ CallFails(n)
      BY <3>1, <3>2 DEF CallFunction, CallFails, Enter, Call
    <3>3. ASSUME NEW b \in Builtin, CallBuiltinDirectly(b, n)
          PROVE  \E c \in Call : calls' = Append(calls, c)
      BY <3>1, <3>3 DEF CallBuiltinDirectly, Enter, Call
    <3> QED
      BY <2>3, <3>2, <3>3
  <2>4. ASSUME NEW b \in Builtin, NEW n \in Args, CallBuiltin(b, n)
        PROVE  \E c \in Call : calls' = WithTop(c) /\ c.kind = Top.kind
    <3> DEFINE c == [Top EXCEPT !.at = "builtin", !.running = b, !.args = n]
    <3>1. c \in Call /\ c.kind = Top.kind
      BY <1>1 DEF Call, Args
    <3>2. calls' = WithTop(c)
      BY <2>4 DEF CallBuiltin
    <3> QED
      BY <3>1, <3>2
  <2>5. CASE \/ StateOp \/ BuiltinReturns \/ BuiltinWarns \/ \E n \in {0, 1} : StateOpDone(n)
    <3>1. \/ calls' = calls
          \/ \E at \in {"none", "state"} : calls' = WithTop([Top EXCEPT !.at = at])
      BY <2>5 DEF StateOp, BuiltinReturns, BuiltinWarns, AfterBuiltin, StateOpDone
    <3>2. \A at \in {"none", "state"} :
            [Top EXCEPT !.at = at] \in Call /\ [Top EXCEPT !.at = at].kind = Top.kind
      BY <1>1 DEF Call
    <3> QED
      BY <3>1, <3>2
  <2>6. ASSUME NEW r \in Failure, BuiltinFails(r) \/ StateOpFails(r) PROVE calls' = calls
    BY <2>6 DEF BuiltinFails, StateOpFails
  <2>7. FinishCall => calls' = Front(calls)
    BY DEF FinishCall
  <2>8. Panic => calls' = <<>>
    BY DEF Panic
  <2> QED
    BY <2>1, <2>2, <2>3, <2>4, <2>5, <2>6, <2>7, <2>8, ZenonT(60) DEF Next
<1> QED
  BY <1>2

\* The outermost call stays what it is until the stack is empty.
LEMMA OutermostKept ==
  ASSUME StackInv, Next, calls # <<>>
  PROVE  ByHost' => ByHost
<1>1. calls \in Seq(Call) /\ Top = Last(calls) /\ Top \in Call
  BY CallsCounted DEF Top, StackInv, StackType
<1>2. \/ calls' \in {calls, <<>>, Front(calls)}
      \/ \E c \in Call : calls' = Append(calls, c)
      \/ \E c \in Call : calls' = WithTop(c) /\ c.kind = Top.kind
  BY StackChange
<1>3. Len(calls) \in Nat \ {0}
  BY <1>1, FrontFacts
<1>4. CASE calls' = Front(calls)
  <2>1. /\ calls' \in Seq(Call) /\ Len(calls') = Len(calls) - 1
        /\ \A i \in 1 .. Len(calls) - 1 : calls'[i] = calls[i]
    BY <1>1, <1>4, FrontFacts
  <2>2. calls' # <<>> => 1 \in 1 .. Len(calls) - 1
    BY <2>1, <1>3, EmptySeq
  <2> QED
    BY <2>1, <2>2 DEF ByHost
<1>5. ASSUME NEW c \in Call, calls' = Append(calls, c) PROVE ByHost' => ByHost
  <2>1. calls'[1] = calls[1]
    BY <1>1, <1>3, <1>5
  <2> QED
    BY <2>1 DEF ByHost
<1>6. ASSUME NEW c \in Call, calls' = WithTop(c), c.kind = Top.kind PROVE ByHost' => ByHost
  <2>1. /\ \A i \in 1 .. Len(calls) - 1 : calls'[i] = calls[i]
        /\ calls'[Len(calls)] = c /\ calls[Len(calls)] = Top
    BY <1>1, <1>6, WithTopFacts, FrontFacts DEF WithTop
  <2>2. 1 \in 1 .. Len(calls) - 1 \/ Len(calls) = 1
    <3>1. PICK k \in Nat \ {0} : k = Len(calls)
      BY <1>3
    <3> QED
      BY <3>1
  <2>3. calls'[1].kind = calls[1].kind
    BY <1>6, <2>1, <2>2
  <2> QED
    BY <2>3 DEF ByHost
<1>7. CASE calls' \in {calls, <<>>}
  BY <1>7 DEF ByHost
<1> QED
  BY <1>2, <1>4, <1>5, <1>6, <1>7

LEMMA WarnRaises ==
  ASSUME WarningsInv, NEW n \in Nat, Warn(n), ByHost' => ByHost
  PROVE  WarningsStep
<1>1. warned \in Nat /\ WarningsPerCall \in Nat
  BY HostCallsAssumption DEF WarningsInv
<1> DEFINE over == IF warned + n > WarningsPerCall THEN warned + n - WarningsPerCall ELSE 0
           new == IF over > n THEN n ELSE over
<1>2. over \in Nat
  BY <1>1
<1>3. new \in Nat /\ new <= n
  <2> HIDE DEF over
  <2> QED
    BY <1>2
<1>4. /\ warned' = warned + n /\ suppressed' = suppressed + new
      /\ warnings' = warnings + n - new /\ unheard' = unheard + n
  BY DEF Warn
<1>5. warned' \in Nat
  BY <1>1, <1>4
<1> HIDE DEF new
<1>6. Raised
  BY <1>3, <1>4 DEF Raised
<1> QED
  BY <1>5, <1>6 DEF WarningsStep

LEMMA NoneRaised ==
  ASSUME WarningsInv, UNCHANGED warns, ByHost' => ByHost
  PROVE  WarningsStep
<1>1. warned' = warned /\ suppressed' = suppressed /\ warnings' = warnings /\ unheard' = unheard
  BY DEF warns
<1>2. /\ suppressed' = suppressed + 0 /\ warnings' = warnings + 0 - 0
      /\ unheard' = unheard + 0 /\ warned' \in Nat
  BY <1>1 DEF WarningsInv
<1> QED
  BY <1>2 DEF WarningsStep, Raised

LEMMA FlushHears ==
  ASSUME WarningsInv, Flush, ByHost' => ByHost
  PROVE  WarningsStep
<1>1. warnings' = 0 /\ unheard' = unheard - warnings /\ suppressed' = suppressed /\ warned' = warned
  BY DEF Flush
<1>2. suppressed' = suppressed + 0 /\ unheard' = unheard - warnings + 0 /\ warned' \in Nat
  BY <1>1 DEF WarningsInv
<1> QED
  BY <1>1, <1>2 DEF WarningsStep, Heard

\* Calls from host code, and resumed threads.
LEMMA CallsWarnings ==
  ASSUME StackInv, WarningsInv, Next,
         \/ \E n \in Args : CallFunction(n) \/ CallFails(n)
         \/ \E b \in Builtin, n \in Args : CallBuiltinDirectly(b, n)
         \/ CallBadArguments \/ \E ok \in BOOLEAN : ResumeThread(ok)
  PROVE  WarningsStep
<1>1. CASE StartCall
  <2>1. CASE TopLevel
    <3>1. warned' = 0 /\ suppressed' = 0 /\ unheard' = warnings /\ UNCHANGED warnings
      BY <1>1, <2>1 DEF StartCall
    <3> QED
      BY <3>1 DEF WarningsStep, Begun
  <2>2. CASE ~TopLevel
    <3>1. UNCHANGED warns
      BY <1>1, <2>2 DEF StartCall
    <3>2. ByHost' => ByHost
      <4>1. CASE calls = <<>>
        <5>1. CASE poisoned
          <6>1. FALSE
            BY <5>1, <4>1, <2>2, <1>1 DEF CallFunction, CallFails, CallBuiltinDirectly,
               CallBadArguments, ResumeThread, MayCall, MayRunThreads
          <6> QED
            BY <6>1
        <5>2. CASE ~poisoned
          BY <5>2, <4>1, <2>2 DEF StackInv, StackType, StackOK, NestingCounts, TopLevel
        <5> QED
          BY <5>1, <5>2
      <4> QED
        BY <4>1, OutermostKept
    <3> QED
      BY <3>1, <3>2, NoneRaised
  <2> QED
    BY <2>1, <2>2
<1>2. ASSUME NEW ok \in BOOLEAN, ResumeThread(ok) PROVE WarningsStep
  <2>1. unheard' = warnings /\ UNCHANGED <<warned, suppressed, warnings>>
    BY <1>2 DEF ResumeThread
  <2>2. ~ByHost'
    BY <1>2 DEF ResumeThread, ByHost
  <2> QED
    BY <2>1, <2>2 DEF WarningsStep, Begun, WarningsInv
<1> QED
  BY <1>1, <1>2 DEF CallFunction, CallFails, CallBuiltinDirectly, CallBadArguments

LEMMA NextWarnings == ASSUME StackInv, WarningsInv, Next PROVE WarningsStep
<1>1. CASE \/ \E n \in Args : CallFunction(n) \/ CallFails(n)
           \/ \E b \in Builtin, n \in Args : CallBuiltinDirectly(b, n)
           \/ CallBadArguments \/ \E ok \in BOOLEAN : ResumeThread(ok)
  BY <1>1, CallsWarnings
<1>2. CASE CallRefused
  <2>1. UNCHANGED <<calls, warns>>
    BY <1>2 DEF CallRefused
  <2> QED
    BY <2>1, NoneRaised DEF ByHost
<1>3. ASSUME calls # <<>> \/ UNCHANGED calls PROVE ByHost' => ByHost
  BY <1>3, OutermostKept DEF ByHost
<1>4. CASE \/ Report \/ Straight \/ Jump \/ StateOp \/ BuiltinReturns \/ BuiltinAborts
           \/ (\E r \in Failure : BuiltinFails(r) \/ StateOpFails(r))
           \/ MakeTemp \/ CollectGarbage \/ SetDeveloper \/ Panic \/ DeadlinePasses
           \/ (\E on \in BOOLEAN : SetTrace(on))
  <2>1. UNCHANGED warns
    BY <1>4 DEF Report, Straight, Jump, StateOp, BuiltinReturns, BuiltinAborts, BuiltinFails,
       StateOpFails, MakeTemp, CollectGarbage, SetDeveloper, Panic, DeadlinePasses, SetTrace
  <2>2. calls # <<>> \/ UNCHANGED calls
    BY <1>4, InQuakeC, InHostCode DEF Report, Straight, Jump, StateOp, BuiltinReturns,
       BuiltinAborts, BuiltinFails, StateOpFails, MakeTemp, CollectGarbage, SetDeveloper, Panic,
       DeadlinePasses, SetTrace, control, MayRun
  <2> QED
    BY <1>3, <2>1, <2>2, NoneRaised
<1>5. CASE Warns \/ HostWarns
  BY <1>3, <1>5, WarnRaises DEF Warns, HostWarns, control
<1>6. ASSUME NEW n \in {0, 1}, StateOpDone(n) PROVE WarningsStep
  BY <1>3, <1>6, InHostCode, WarnRaises DEF StateOpDone
<1>7. CASE \/ ReturnToHost \/ Faults \/ RunsAway
           \/ \E b \in Builtin, n \in Args : CallBuiltin(b, n)
  <2>1. Flush /\ calls # <<>>
    BY <1>7, InQuakeC DEF ReturnToHost, Faults, RunsAway, CallBuiltin, MayRun
  <2> QED
    BY <1>3, <2>1, FlushHears
<1>8. CASE NextChunk
  <2>1. calls # <<>> /\ (Flush \/ UNCHANGED warns)
    BY <1>8, InQuakeC DEF NextChunk, MayRun
  <2> QED
    BY <1>3, <2>1, FlushHears, NoneRaised
<1>9. ASSUME NEW last \in BOOLEAN, FinishThread(last) PROVE WarningsStep
  <2>1. Flush /\ calls' = <<>>
    BY <1>9 DEF FinishThread
  <2> QED
    BY <2>1, FlushHears DEF ByHost
<1>10. CASE BuiltinWarns
  <2> DEFINE new == IF warned < WarningsPerCall THEN 0 ELSE 1
  <2>1. /\ new \in {0, 1} /\ warnings' = 0 /\ suppressed' = suppressed + new
        /\ unheard' = unheard - warnings + new /\ warned' = warned + 1
    BY <1>10 DEF BuiltinWarns
  <2>2. warned' \in Nat /\ (ByHost' => ByHost)
    BY <1>3, <1>10, <2>1, InHostCode DEF BuiltinWarns, WarningsInv
  <2> HIDE DEF new
  <2>3. new \in Nat
    BY <2>1
  <2> QED
    BY <2>1, <2>2, <2>3 DEF WarningsStep, Heard
<1>11. CASE FinishCall
  <2>1. mode = "end" /\ calls # <<>> /\ Top.kind # "thread" /\ calls' = Front(calls)
    BY <1>11 DEF FinishCall, StackInv, StackOK, NestingCounts
  <2>2. nesting = Len(calls) /\ Top = calls[Len(calls)]
    BY <2>1, CallsCounted
  <2>3. CASE nesting = 1
    <3>1. ByHost
      BY <2>1, <2>2, <2>3 DEF ByHost
    <3>2. unheard = warnings + suppressed
      BY <3>1 DEF ByHost, WarningsInv, WarningsOK
    <3>3. calls \in Seq(Call)
      BY DEF StackInv, StackType
    <3>4. calls' = <<>>
      <4>1. calls' \in Seq(Call) /\ Len(calls') = Len(calls) - 1
        BY <2>1, <3>3, FrontFacts
      <4>2. Len(calls') = 0
        <5>1. Len(calls) = 1
          BY <2>2, <2>3
        <5>2. Len(calls') = 1 - 1
          BY <4>1, <5>1
        <5> QED
          BY <5>2
      <4> QED
        BY <4>1, <4>2, EmptySeq
    <3>5. /\ warnings' = 0 /\ unheard' = unheard - warnings - suppressed
          /\ UNCHANGED <<warned, suppressed>>
      BY <1>11, <2>3 DEF FinishCall
    <3>6. unheard' = 0
      BY <3>2, <3>5 DEF WarningsInv
    <3> QED
      BY <3>4, <3>5, <3>6 DEF WarningsStep, Over, ByHost, WarningsInv
  <2>4. CASE nesting # 1
    BY <1>3, <1>11, <2>1, <2>4, NoneRaised DEF FinishCall
  <2> QED
    BY <2>3, <2>4
<1>12. CASE Reset
  <2>1. warned' = 0 /\ suppressed' = 0 /\ warnings' = 0 /\ unheard' = 0 /\ calls' = <<>>
    BY <1>12 DEF Reset
  <2> QED
    BY <2>1 DEF WarningsStep, Over, ByHost
<1> QED
  BY <1>1, <1>2, <1>4, <1>5, <1>6, <1>7, <1>8, <1>9, <1>10, <1>11, <1>12, ZenonT(60) DEF Next

-----------------------------------------------------------------------------
(* The other variables: their types only.                                  *)

RestType ==
  /\ late \in BOOLEAN /\ unchecked \in Nat
  /\ trace \in BOOLEAN /\ traced \in BOOLEAN /\ reported \in BOOLEAN
  /\ misreported \subseteq {"skipped", "twice"}
  /\ developer \in BOOLEAN /\ due \in BOOLEAN

ClockType == late \in BOOLEAN /\ unchecked \in Nat
TraceType == /\ trace \in BOOLEAN /\ traced \in BOOLEAN /\ reported \in BOOLEAN
             /\ misreported \subseteq {"skipped", "twice"}
FlagType == developer \in BOOLEAN /\ due \in BOOLEAN

\* What a step does to the clock, to the trace and to the flags.
ClockStep == late' \in {late, TRUE, FALSE} /\ unchecked' \in {unchecked, unchecked + 1, 0}
TraceStep ==
  /\ trace' \in {trace, TRUE, FALSE}
  /\ traced' \in {traced, trace /\ traced, trace /\ TRUE, trace /\ run.trace, run.trace, FALSE}
  /\ reported' \in {reported, TRUE, FALSE}
  /\ misreported' \in {misreported, misreported \cup {"twice"}, misreported \cup {"skipped"}}
FlagStep == developer' \in {developer, ~developer} /\ due' \in {due, TRUE, FALSE}

LEMMA NextClock == ASSUME Next PROVE ClockStep
<1>1. ASSUME NEW n \in Args, CallFunction(n) \/ CallFails(n) PROVE ClockStep
  BY <1>1 DEF CallFunction, CallFails, StartBudgets, ClockStep
<1>2. ASSUME NEW b \in Builtin, NEW n \in Args, CallBuiltinDirectly(b, n) \/ CallBuiltin(b, n)
      PROVE  ClockStep
  BY <1>2 DEF CallBuiltinDirectly, CallBuiltin, StartBudgets, Count, ClockStep
<1>3. ASSUME NEW ok \in BOOLEAN, ResumeThread(ok) \/ FinishThread(ok) \/ SetTrace(ok)
      PROVE  ClockStep
  BY <1>3 DEF ResumeThread, FinishThread, SetTrace, StartBudgets, budgets, ClockStep
<1>4. CASE CallBadArguments \/ CallRefused \/ FinishCall
  BY <1>4 DEF CallBadArguments, CallRefused, FinishCall, StartBudgets, budgets, ClockStep
<1>5. CASE Report \/ Straight \/ Jump \/ Warns \/ StateOp \/ ReturnToHost \/ RunsAway \/ NextChunk
  BY <1>5 DEF Report, Straight, Jump, Warns, StateOp, ReturnToHost, RunsAway, NextChunk,
     Count, budgets, ClockStep
<1>6. CASE Faults
  BY <1>6 DEF Faults, Count, ClockStep
<1>7. CASE BuiltinReturns \/ BuiltinAborts \/ BuiltinWarns
  BY <1>7 DEF BuiltinReturns, BuiltinAborts, BuiltinWarns, budgets, ClockStep
<1>8. ASSUME NEW r \in Failure, BuiltinFails(r) \/ StateOpFails(r) PROVE ClockStep
  BY <1>8 DEF BuiltinFails, StateOpFails, budgets, ClockStep
<1>9. ASSUME NEW n \in {0, 1}, StateOpDone(n) PROVE ClockStep
  BY <1>9 DEF StateOpDone, ClockStep
<1>10. CASE \/ HostWarns \/ MakeTemp \/ CollectGarbage \/ SetDeveloper
            \/ Panic \/ Reset \/ DeadlinePasses
  BY <1>10 DEF HostWarns, MakeTemp, CollectGarbage, SetDeveloper, Panic, Reset, DeadlinePasses,
     budgets, ClockStep
<1> QED
  BY <1>1, <1>2, <1>3, <1>4, <1>5, <1>6, <1>7, <1>8, <1>9, <1>10, ZenonT(60) DEF Next

LEMMA NextTrace == ASSUME Next PROVE TraceStep
<1>1. ASSUME NEW n \in Args, CallFunction(n) \/ CallFails(n) PROVE TraceStep
  BY <1>1 DEF CallFunction, CallFails, StartRun, tracing, TraceStep
<1>2. ASSUME NEW b \in Builtin, NEW n \in Args, CallBuiltinDirectly(b, n) \/ CallBuiltin(b, n)
      PROVE  TraceStep
  BY <1>2 DEF CallBuiltinDirectly, CallBuiltin, Ran, tracing, TraceStep
<1>3. ASSUME NEW ok \in BOOLEAN, ResumeThread(ok) \/ FinishThread(ok) \/ SetTrace(ok)
      PROVE  TraceStep
  BY <1>3 DEF ResumeThread, FinishThread, SetTrace, StartRun, tracing, TraceStep
<1>4. CASE CallBadArguments \/ CallRefused \/ FinishCall
  BY <1>4 DEF CallBadArguments, CallRefused, FinishCall, tracing, TraceStep
<1>5. CASE Report
  BY <1>5 DEF Report, StartRun, TraceStep
<1>6. CASE Straight \/ Jump \/ Warns \/ StateOp \/ ReturnToHost \/ Faults
  BY <1>6 DEF Straight, Jump, Warns, StateOp, ReturnToHost, Faults, Ran, TraceStep
<1>7. CASE RunsAway \/ NextChunk
  BY <1>7 DEF RunsAway, NextChunk, StartRun, Refused, TraceStep
<1>8. CASE BuiltinReturns \/ BuiltinAborts \/ BuiltinWarns
  BY <1>8 DEF BuiltinReturns, BuiltinAborts, BuiltinWarns, AfterBuiltin, Continue, StartRun,
     tracing, TraceStep
<1>9. ASSUME NEW r \in Failure, BuiltinFails(r) \/ StateOpFails(r) PROVE TraceStep
  BY <1>9 DEF BuiltinFails, StateOpFails, tracing, TraceStep
<1>10. ASSUME NEW n \in {0, 1}, StateOpDone(n) PROVE TraceStep
  BY <1>10 DEF StateOpDone, Continue, StartRun, TraceStep
<1>11. CASE \/ HostWarns \/ MakeTemp \/ CollectGarbage \/ SetDeveloper
            \/ Panic \/ Reset \/ DeadlinePasses
  BY <1>11 DEF HostWarns, MakeTemp, CollectGarbage, SetDeveloper, Panic, Reset, DeadlinePasses,
     tracing, TraceStep
<1> QED
  BY <1>1, <1>2, <1>3, <1>4, <1>5, <1>6, <1>7, <1>8, <1>9, <1>10, <1>11, ZenonT(60) DEF Next

LEMMA NextFlags == ASSUME Next PROVE FlagStep
<1>1. ASSUME NEW n \in Args, CallFunction(n) \/ CallFails(n) PROVE FlagStep
  BY <1>1 DEF CallFunction, CallFails, others, FlagStep
<1>2. ASSUME NEW b \in Builtin, NEW n \in Args, CallBuiltinDirectly(b, n) \/ CallBuiltin(b, n)
      PROVE  FlagStep
  BY <1>2 DEF CallBuiltinDirectly, CallBuiltin, others, FlagStep
<1>3. ASSUME NEW ok \in BOOLEAN, ResumeThread(ok) \/ FinishThread(ok) \/ SetTrace(ok)
      PROVE  FlagStep
  BY <1>3 DEF ResumeThread, FinishThread, SetTrace, others, FlagStep
<1>4. CASE CallBadArguments \/ CallRefused \/ FinishCall
  BY <1>4 DEF CallBadArguments, CallRefused, FinishCall, others, FlagStep
<1>5. CASE \/ Report \/ Straight \/ Jump \/ Warns \/ StateOp \/ ReturnToHost \/ Faults
           \/ RunsAway \/ NextChunk
  BY <1>5 DEF Report, Straight, Jump, Warns, StateOp, ReturnToHost, Faults, RunsAway, NextChunk,
     others, FlagStep
<1>6. CASE BuiltinReturns \/ BuiltinAborts \/ BuiltinWarns
  BY <1>6 DEF BuiltinReturns, BuiltinAborts, BuiltinWarns, others, FlagStep
<1>7. ASSUME NEW r \in Failure, BuiltinFails(r) \/ StateOpFails(r) PROVE FlagStep
  BY <1>7 DEF BuiltinFails, StateOpFails, others, FlagStep
<1>8. ASSUME NEW n \in {0, 1}, StateOpDone(n) PROVE FlagStep
  BY <1>8 DEF StateOpDone, others, FlagStep
<1>9. CASE \/ HostWarns \/ MakeTemp \/ CollectGarbage \/ SetDeveloper
           \/ Panic \/ Reset \/ DeadlinePasses
  BY <1>9 DEF HostWarns, MakeTemp, CollectGarbage, SetDeveloper, Panic, Reset, DeadlinePasses,
     others, FlagStep
<1> QED
  BY <1>1, <1>2, <1>3, <1>4, <1>5, <1>6, <1>7, <1>8, <1>9, ZenonT(60) DEF Next

LEMMA ClockStepOK == ASSUME ClockType, ClockStep PROVE ClockType'
<1>1. late' \in BOOLEAN
  BY Zenon DEF ClockType, ClockStep
<1>2. unchecked' \in Nat
  BY SMT DEF ClockType, ClockStep
<1> QED
  BY <1>1, <1>2 DEF ClockType

LEMMA TraceStepOK == ASSUME TraceType, run.trace \in BOOLEAN, TraceStep PROVE TraceType'
BY DEF TraceType, TraceStep

LEMMA FlagStepOK == ASSUME FlagType, FlagStep PROVE FlagType'
BY DEF FlagType, FlagStep

-----------------------------------------------------------------------------
(* The inductive invariant.                                                *)

LEMMA Parts == IInv <=> StackInv /\ BudgetInv /\ WarningsInv /\ ClockType /\ TraceType /\ FlagType
BY DEF IInv, TypeOK, StackInv, StackType, BudgetInv, WarningsInv, ClockType, TraceType, FlagType

LEMMA InitIInv == Init => IInv
<1> SUFFICES ASSUME Init PROVE IInv
  OBVIOUS
<1>1. MaxNesting \in Nat /\ 0 \in Args
  BY HostCallsAssumption DEF MaxNesting, Args
<1>2. calls \in Seq(Call) /\ Len(calls) = 0
  BY EmptySeq DEF Init
<1>3. StackType
  <2>1. abort_ret = 0 /\ nesting = 0 /\ argc = 0 /\ 0 \in 0 .. MaxNesting
    BY <1>1 DEF Init, None
  <2> QED
    BY <1>1, <1>2, <2>1 DEF Init, StackType
<1>4. StackOK /\ ContextOK /\ AbortReachesItsCall
  BY <1>2 DEF Init, StackOK, NestingCounts, ContextOK, BuiltinKeepsContext, InBuiltin,
     AbortReachesItsCall
<1>5. BudgetInv
  <2>1. Idle \in Run /\ Idle.left <= Idle.chunk
    BY DEF Idle, Run
  <2> QED
    BY <2>1 DEF Init, BudgetInv, BudgetOK, Failure
<1>6. WarningsInv
  BY DEF Init, WarningsInv, WarningsOK
<1>7. ClockType /\ TraceType /\ FlagType
  BY DEF Init, ClockType, TraceType, FlagType
<1> QED
  BY <1>3, <1>4, <1>5, <1>6, <1>7, Parts DEF StackInv

LEMMA StepIInv == ASSUME IInv, [Next]_vars PROVE IInv'
<1>1. StackInv /\ BudgetInv /\ WarningsInv /\ ClockType /\ TraceType /\ FlagType
  BY Parts
<1>2. trace \in BOOLEAN /\ run.trace \in BOOLEAN
  BY <1>1 DEF TraceType, BudgetInv, Run
<1>3. ASSUME StackInv', BudgetInv', WarningsInv', ClockType', TraceType', FlagType'
      PROVE  IInv'
  BY <1>3 DEF IInv, TypeOK, StackInv, StackType, BudgetInv, WarningsInv, ClockType, TraceType,
     FlagType
<1>4. CASE Next
  <2>1. StackInv'
    BY <1>1, <1>4, NextStack
  <2>2. BudgetInv'
    BY <1>1, <1>2, <1>4, NextBudget, BudgetStepOK
  <2>3. WarningsInv'
    BY <1>1, <1>4, NextWarnings, WarningsStepOK
  <2>4. ClockType' /\ TraceType' /\ FlagType'
    BY <1>1, <1>2, <1>4, NextClock, NextTrace, NextFlags, ClockStepOK, TraceStepOK, FlagStepOK
  <2> QED
    BY <1>3, <2>1, <2>2, <2>3, <2>4
<1>5. CASE UNCHANGED vars
  <2>1. UNCHANGED <<calls, mode, result, nesting, argc, builtin, abort_ret, budget, run, late,
                    ran, unchecked, warned, suppressed, warnings, unheard, trace, traced,
                    reported, misreported, poisoned, developer, due>>
    BY <1>5 DEF vars, control, budgets, warns, tracing, others
  <2>2. StackInv'
    BY <1>1, <2>1, SameStackStep DEF SameStack
  <2>3. BudgetInv'
    BY <1>1, <2>1 DEF BudgetInv, BudgetOK, ChunkOf
  <2>4. WarningsInv' /\ ClockType' /\ TraceType' /\ FlagType'
    BY <1>1, <2>1 DEF WarningsInv, WarningsOK, ClockType, TraceType, FlagType
  <2> QED
    BY <1>3, <2>2, <2>3, <2>4
<1> QED
  BY <1>4, <1>5

LEMMA Invariance == Spec => []IInv
BY InitIInv, StepIInv, PTL DEF Spec

-----------------------------------------------------------------------------
(* The properties.                                                         *)

\* Every reachable state has the types of Vm, Core and the calls on the native stack,
\* for every limit, budget and number of builtins (call_inner, execute_inner).
THEOREM TypesHold == Spec => []TypeOK
BY Invariance, PTL DEF IInv

\* The re-entrancy counter of guarded and call_inner counts the calls on the native
\* stack, whichever way they end, for every limits.reentry.
THEOREM NestingAlwaysCounts == Spec => []NestingCounts
<1>1. IInv => NestingCounts
  BY DEF IInv, StackOK
<1> QED
  BY <1>1, Invariance, PTL

\* call_inner gives a builtin its identity and argument count back after every call it
\* makes, however deep the calls nest and however they end.
THEOREM BuiltinAlwaysKeepsContext == Spec => []BuiltinKeepsContext
<1>1. IInv => BuiltinKeepsContext
  BY DEF IInv, ContextOK
<1> QED
  BY <1>1, Invariance, PTL

\* The value given to abort() is returned by the boundary it unwound to and by no other.
THEOREM AbortAlwaysReachesItsCall == Spec => []AbortReachesItsCall
<1>1. IInv => AbortReachesItsCall
  BY DEF IInv
<1> QED
  BY <1>1, Invariance, PTL

\* An outermost call of the host that ends without a panic ends in FinishCall.
LEMMA OutermostEnds ==
  ASSUME IInv, Next, Len(calls) = 1, Top.kind # "thread", calls' = <<>>, ~poisoned'
  PROVE  FinishCall /\ nesting = 1 /\ Top = calls[1]
<1>1. StackInv /\ calls # <<>> /\ calls \in Seq(Call)
  BY Parts DEF StackInv, StackType
<1>2. FinishCall
  <2>1. \A c \in Call : Append(calls, c) # <<>> /\ WithTop(c) # <<>>
    BY <1>1, WithTopFacts DEF WithTop
  <2>2. ~Panic /\ \A last \in BOOLEAN : ~FinishThread(last)
    BY DEF Panic, FinishThread
  <2> QED
    BY <1>1, <2>1, <2>2, StackChange
<1>3. nesting = Len(calls) /\ Top = calls[Len(calls)]
  BY <1>1, CallsCounted
<1> QED
  BY <1>2, <1>3

\* Temp strings are only ever collected with no call on the native stack, and a
\* collection that is due is never put off beyond the end of the outermost call.
THEOREM AlwaysCollectsWhenIdle == Spec => CollectsWhenIdle
<1>1. ASSUME IInv, Next, due, ~due' PROVE calls' = <<>>
  <2>1. CASE FinishCall
    <3>1. nesting = 1 /\ calls # <<>> /\ calls' = Front(calls) /\ calls \in Seq(Call)
      BY <1>1, <2>1 DEF FinishCall, Collects, IInv, TypeOK, StackOK, NestingCounts
    <3>2. Len(calls) = 1
      BY <1>1, <3>1, Parts, CallsCounted
    <3>3. calls' \in Seq(Call) /\ Len(calls') = Len(calls) - 1
      BY <3>1, FrontFacts
    <3>4. Len(calls') = 0
      BY <3>2, <3>3
    <3> QED
      BY <3>3, <3>4, EmptySeq
  <2>2. CASE \E last \in BOOLEAN : FinishThread(last)
    BY <2>2 DEF FinishThread
  <2>3. CASE Reset
    BY <2>3 DEF Reset
  <2>4. CASE CollectGarbage
    <3>1. nesting = 0 /\ UNCHANGED calls
      BY <2>4 DEF CollectGarbage, MayCollect, control
    <3>2. calls = <<>>
      BY <1>1, <3>1, Parts, NoCalls DEF IInv, StackOK, NestingCounts
    <3> QED
      BY <3>1, <3>2
  <2>5. \/ FinishCall \/ Reset \/ CollectGarbage \/ (\E last \in BOOLEAN : FinishThread(last))
        \/ due' = due \/ due' = TRUE
    <3>1. ASSUME NEW n \in Args, CallFunction(n) \/ CallFails(n) PROVE due' = due
      BY <3>1 DEF CallFunction, CallFails, others
    <3>2. ASSUME NEW b \in Builtin, NEW n \in Args,
                 CallBuiltinDirectly(b, n) \/ CallBuiltin(b, n)
          PROVE  due' = due
      BY <3>2 DEF CallBuiltinDirectly, CallBuiltin, others
    <3>3. ASSUME NEW ok \in BOOLEAN, ResumeThread(ok) \/ SetTrace(ok) PROVE due' = due
      BY <3>3 DEF ResumeThread, SetTrace, others
    <3>4. CASE \/ CallBadArguments \/ CallRefused \/ Report \/ Straight \/ Jump \/ Warns \/ StateOp
               \/ ReturnToHost \/ Faults \/ RunsAway \/ NextChunk
               \/ BuiltinReturns \/ BuiltinAborts \/ BuiltinWarns
      BY <3>4 DEF CallBadArguments, CallRefused, Report, Straight, Jump, Warns, StateOp,
         ReturnToHost, Faults, RunsAway, NextChunk, BuiltinReturns, BuiltinAborts, BuiltinWarns,
         others
    <3>5. ASSUME NEW r \in Failure, BuiltinFails(r) \/ StateOpFails(r) PROVE due' = due
      BY <3>5 DEF BuiltinFails, StateOpFails, others
    <3>6. ASSUME NEW n \in {0, 1}, StateOpDone(n) PROVE due' = due
      BY <3>6 DEF StateOpDone, others
    <3>7. CASE HostWarns \/ MakeTemp \/ SetDeveloper \/ Panic \/ DeadlinePasses
      BY <3>7 DEF HostWarns, MakeTemp, SetDeveloper, Panic, DeadlinePasses, others
    <3> QED
      BY <1>1, <3>1, <3>2, <3>3, <3>4, <3>5, <3>6, <3>7, ZenonT(60) DEF Next
  <2> QED
    BY <1>1, <2>1, <2>2, <2>3, <2>4, <2>5
<1>2. ASSUME IInv, Next, Len(calls) = 1, Top.kind # "thread", calls' = <<>>, ~poisoned'
      PROVE  ~due'
  BY <1>2, OutermostEnds DEF FinishCall, Collects
<1>3. ASSUME IInv, [Next]_vars
      PROVE  [/\ due /\ ~due' => calls' = <<>>
              /\ Len(calls) = 1 /\ Top.kind # "thread" /\ calls' = <<>> /\ ~poisoned' => ~due']_vars
  BY <1>1, <1>2, <1>3
<1> QED
  BY <1>3, Invariance, PTL DEF Spec, CollectsWhenIdle

\* Vm::call reports every warning of the call when the outermost call ends, for every
\* rate limit (warn, flush_warnings, call_inner).
THEOREM CallAlwaysReportsWarnings == Spec => CallReportsWarnings
<1>1. ASSUME IInv, Next, Len(calls) = 1, Top.kind # "thread", calls' = <<>>, ~poisoned'
      PROVE  unheard' = 0
  <2>1. calls # <<>>
    BY <1>1
  <2>2. FinishCall
    BY <1>1, OutermostEnds
  <2>3. nesting = 1 /\ Top = calls[1]
    BY <1>1, OutermostEnds
  <2>4. unheard' = unheard - warnings - suppressed
    BY <2>2, <2>3 DEF FinishCall
  <2>5. /\ unheard = warnings + suppressed
        /\ warnings \in Nat /\ suppressed \in Nat /\ unheard \in Nat
    BY <1>1, <2>1, <2>3 DEF IInv, TypeOK, WarningsOK
  <2> QED
    BY <2>4, <2>5
<1>2. ASSUME IInv, [Next]_vars
      PROVE  [Len(calls) = 1 /\ Top.kind # "thread" /\ calls' = <<>> /\ ~poisoned'
                => unheard' = 0]_vars
  BY <1>1, <1>2
<1> QED
  BY <1>2, Invariance, PTL DEF Spec, CallReportsWarnings

\* Chunks, the commits around builtins, trace lines and nested calls implement one
\* counter (start_budgets, execute_inner), for every budget and chunk size.
THEOREM BudgetImplementsCounter == Spec => BudgetIsOneCounter
<1>1. Init => Counter!Init
  BY DEF Init, Counter!Init, Remaining
<1>2. ASSUME IInv, [Next]_vars PROVE [Counter!Next]_(Counter!vars)
  <2>1. BudgetInv /\ StackInv /\ trace \in BOOLEAN
    BY <1>2, Parts DEF TraceType
  <2>2. CASE UNCHANGED vars
    BY <2>2 DEF vars, control, budgets, Counter!vars, Remaining
  <2>3. ASSUME BudgetStep PROVE [Counter!Next]_(Counter!vars)
    <3> DEFINE failed == result = "runaway" /\ mode = "end"
    <3>1. ASSUME RunsOrStops, budget' \in Nat PROVE Remaining' = budget'
      <4>1. CASE mode' = "qc" /\ FreshRun
        <5>1. run'.chunk = run'.left /\ run'.chunk \in Nat
          <6>1. PICK on \in BOOLEAN :
                  run' = [chunk |-> ChunkOf(budget'), left |-> ChunkOf(budget'), trace |-> on]
            BY <4>1 DEF FreshRun
          <6>2. ChunkOf(budget') \in Nat
            BY <3>1, ChunkFacts
          <6> QED
            BY <6>1, <6>2
        <5> QED
          BY <3>1, <4>1, <5>1 DEF Remaining
      <4>2. CASE mode' \in {"host", "end"}
        BY <4>2 DEF Remaining
      <4> QED
        BY <3>1, <4>1, <4>2 DEF RunsOrStops
    <3>2. CASE Rests
      <4>1. Remaining' = Remaining /\ ran' = ran
        BY <3>2 DEF Rests, Remaining
      <4>2. failed' = failed
        BY <3>2 DEF Rests
      <4>3. (calls # <<>>)' = (calls # <<>>)
        BY <3>2 DEF Rests
      <4> QED
        BY <4>1, <4>2, <4>3 DEF Counter!vars
    <3>3. CASE Starts
      <4>1. Remaining' = Runaway
        BY <3>1, <3>3, HostCallsAssumption DEF Starts
      <4>2. ~failed /\ ~failed'
        BY <3>3 DEF Starts
      <4> QED
        BY <3>3, <4>1, <4>2 DEF Starts, Counter!Next, Counter!Start
    <3>4. CASE Settles
      <4>1. Remaining' = Remaining /\ ran' = ran
        BY <2>1, <3>1, <3>4, RemainingFacts DEF Settles
      <4>2. failed' => Remaining' = 0
        BY <2>1, <3>1, <3>4, RemainingFacts DEF Settles
      <4> QED
        BY <3>4, <4>1, <4>2 DEF Settles, Counter!Next, Counter!Settle
    <3>5. CASE Counts
      <4>1. Remaining > 1
        <5>1. /\ mode = "qc" /\ run.left > 1 /\ run.left \in Nat /\ run.chunk \in Nat
              /\ budget \in Nat /\ run.chunk <= budget
          BY <2>1, <3>5, RemainingFacts DEF Counts, BudgetInv, Run
        <5> QED
          BY <5>1 DEF Remaining
      <4>2. Remaining' = Remaining - 1
        <5>1. CASE UNCHANGED <<mode, result, budget>> /\ run' = [run EXCEPT !.left = @ - 1]
          <6>1. run'.left = run.left - 1 /\ run'.chunk = run.chunk
            BY <2>1, <5>1 DEF BudgetInv, Run
          <6>2. run.left \in Nat /\ run.chunk \in Nat /\ budget \in Nat
            BY <2>1 DEF BudgetInv, Run
          <6>3. mode = "qc" /\ mode' = "qc" /\ budget' = budget
            BY <3>5, <5>1 DEF Counts
          <6> QED
            BY <6>1, <6>2, <6>3 DEF Remaining
        <5>2. CASE mode' \in {"host", "end"} /\ budget' = Remaining - 1
          BY <5>2 DEF Remaining
        <5> QED
          BY <3>5, <5>1, <5>2 DEF Counts
      <4>3. ~failed /\ ~failed'
        BY <3>5 DEF Counts
      <4> QED
        BY <3>5, <4>1, <4>2, <4>3 DEF Counts, Counter!Next, Counter!Count
    <3>6. CASE Refuses
      <4>1. Remaining' = 0 /\ failed' /\ ran' = ran
        BY <3>6 DEF Refuses, Remaining
      <4> QED
        BY <3>6, <4>1 DEF Refuses, Counter!Next, Counter!Refuse
    <3> QED
      BY <2>3, <3>2, <3>3, <3>4, <3>5, <3>6 DEF BudgetStep
  <2> QED
    BY <1>2, <2>1, <2>2, <2>3, NextBudget
<1> QED
  BY <1>1, <1>2, Invariance, PTL DEF Spec, BudgetIsOneCounter, Counter!Spec

-----------------------------------------------------------------------------
(* Tracing.                                                                *)

\* The interpreter runs with the flag of the trace, and a statement that has been reported
\* is the next to run, and flagged so.
TraceInv ==
  /\ mode = "qc" => run.trace = trace
  /\ reported => mode = "qc" /\ run.trace /\ traced
  /\ NoStatementTracedTwice

\* What a step does to a statement that has been reported and not run: nothing, run or
\* refuse it, report the next one, or start another run with its flag.
Keeps == UNCHANGED <<mode, run, trace, traced, reported, misreported>>
Forgets ==
  /\ reported' = FALSE /\ misreported' \in {misreported, misreported \cup {"skipped"}}
  /\ mode' = "qc" => run'.trace = trace'
Reports ==
  /\ reported' = TRUE /\ mode' = "qc" /\ run'.trace = trace' /\ traced' = trace'
  /\ mode = "qc" /\ run.trace /\ ~traced /\ UNCHANGED trace
  /\ misreported' = misreported \cup (IF reported THEN {"twice"} ELSE {})
RunsOn ==
  /\ mode = "qc" /\ UNCHANGED <<mode, trace, reported, misreported>>
  /\ run'.trace = trace /\ traced' = (trace /\ run.trace)

LEMMA TraceStepKept ==
  ASSUME TraceInv, run.trace \in BOOLEAN, trace \in BOOLEAN, traced \in BOOLEAN,
         Keeps \/ Forgets \/ Reports \/ RunsOn
  PROVE  TraceInv'
<1>1. CASE Keeps
  BY <1>1 DEF Keeps, TraceInv, NoStatementTracedTwice
<1>2. CASE Forgets
  BY <1>2 DEF Forgets, TraceInv, NoStatementTracedTwice
<1>3. CASE Reports
  <2>1. ~reported
    BY <1>3 DEF Reports, TraceInv
  <2>2. trace = TRUE
    BY <1>3 DEF Reports, TraceInv
  <2>3. misreported' = misreported
    BY <1>3, <2>1 DEF Reports
  <2> QED
    BY <1>3, <2>2, <2>3 DEF Reports, TraceInv, NoStatementTracedTwice
<1>4. CASE RunsOn
  <2>1. run.trace = trace
    BY <1>4 DEF RunsOn, TraceInv
  <2> QED
    BY <1>4, <2>1 DEF RunsOn, TraceInv, NoStatementTracedTwice
<1> QED
  BY <1>1, <1>2, <1>3, <1>4

LEMMA NextTracing ==
  ASSUME IInv, TraceInv, Next
  PROVE  Keeps \/ Forgets \/ Reports \/ RunsOn
<1> DEFINE Good == Keeps \/ Forgets \/ Reports \/ RunsOn
<1>1. reported \in BOOLEAN /\ run \in Run
  BY DEF IInv, TypeOK
<1>2. mode = "host" => reported = FALSE
  BY <1>1 DEF TraceInv
<1>3. mode = "end" => reported = FALSE
  BY <1>1 DEF TraceInv
<1>4. ASSUME NEW n \in Args, CallFunction(n) \/ CallFails(n) PROVE Good
  BY <1>2, <1>4 DEF CallFunction, CallFails, MayCall, Enter, StartRun, tracing, Forgets
<1>5. ASSUME NEW b \in Builtin, NEW n \in Args, CallBuiltinDirectly(b, n) PROVE Good
  BY <1>2, <1>5 DEF CallBuiltinDirectly, MayCall, Enter, tracing, Forgets
<1>6. ASSUME NEW b \in Builtin, NEW n \in Args, CallBuiltin(b, n) PROVE Good
  BY <1>6 DEF CallBuiltin, Ran, Forgets
<1>7. ASSUME NEW ok \in BOOLEAN, ResumeThread(ok) \/ FinishThread(ok) \/ SetTrace(ok)
      PROVE  Good
  <2>1. CASE ResumeThread(ok)
    BY <1>2, <2>1 DEF ResumeThread, MayRunThreads, StartRun, Forgets
  <2>2. CASE FinishThread(ok)
    BY <1>3, <2>2 DEF FinishThread, tracing, Forgets
  <2>3. CASE SetTrace(ok)
    BY <1>2, <2>3 DEF SetTrace, control, Forgets
  <2> QED
    BY <1>7, <2>1, <2>2, <2>3
<1>8. CASE CallBadArguments \/ CallRefused \/ FinishCall
  BY <1>2, <1>3, <1>8 DEF CallBadArguments, CallRefused, FinishCall, MayCall, tracing, Forgets
<1>9. CASE Report
  <2>1. trace \in BOOLEAN
    BY DEF IInv, TypeOK
  <2>2. (trace /\ TRUE) = trace
    BY <2>1
  <2>3. mode' = mode /\ trace' = trace
    BY <1>9 DEF Report, control
  <2>4. run'.trace = trace /\ traced' = trace
    BY <1>9, <2>2 DEF Report, StartRun
  <2> QED
    BY <1>9, <2>3, <2>4 DEF Report, Reports
<1>10. CASE Straight \/ Jump \/ Warns
  <2>1. run'.trace = run.trace
    BY <1>1, <1>10 DEF Straight, Jump, Warns, budgets, Run
  <2>2. mode = "qc" /\ mode' = mode /\ trace' = trace /\ Ran
    BY <1>10 DEF Straight, Jump, Warns, MayRun, Ran, control
  <2>3. run.trace = trace
    BY <2>2 DEF TraceInv
  <2> QED
    BY <2>1, <2>2, <2>3 DEF Ran, Forgets
<1>11. CASE StateOp \/ ReturnToHost \/ Faults
  BY <1>11 DEF StateOp, ReturnToHost, Faults, Ran, End, Forgets
<1>12. CASE RunsAway
  BY <1>12 DEF RunsAway, End, Forgets
<1>13. CASE NextChunk
  <2>1. CASE late
    BY <1>13, <2>1 DEF NextChunk, End, Forgets
  <2>2. CASE ~late
    BY <1>13, <2>2 DEF NextChunk, MayRun, StartRun, Refused, RunsOn
  <2> QED
    BY <2>1, <2>2
<1>14. CASE BuiltinReturns \/ BuiltinAborts \/ BuiltinWarns
  BY <1>2, <1>14 DEF BuiltinReturns, BuiltinAborts, BuiltinWarns, AfterBuiltin, Continue, StartRun,
     InBuiltin, End, tracing, Forgets
<1>15. ASSUME NEW r \in Failure, BuiltinFails(r) \/ StateOpFails(r) PROVE Good
  BY <1>2, <1>15 DEF BuiltinFails, StateOpFails, InBuiltin, InStateOp, End, tracing, Forgets
<1>16. ASSUME NEW n \in {0, 1}, StateOpDone(n) PROVE Good
  BY <1>2, <1>16 DEF StateOpDone, Continue, StartRun, InStateOp, Forgets
<1>17. CASE HostWarns \/ MakeTemp \/ CollectGarbage \/ SetDeveloper \/ Panic \/ DeadlinePasses
  BY <1>17 DEF HostWarns, MakeTemp, CollectGarbage, SetDeveloper, Panic, DeadlinePasses,
     control, budgets, tracing, Keeps
<1>18. CASE Reset
  BY <1>18 DEF Reset, Forgets
<1> QED
  BY <1>4, <1>5, <1>6, <1>7, <1>8, <1>9, <1>10, <1>11, <1>12, <1>13, <1>14, <1>15, <1>16, <1>17,
     <1>18, ZenonT(60) DEF Next

\* A statement that execute_inner has reported to Host::trace is not reported again when the
\* budget, a chunk or the deadline stops it and it runs later.
THEOREM NeverTracedTwice == Spec => []NoStatementTracedTwice
<1>1. Init => TraceInv
  BY DEF Init, TraceInv, NoStatementTracedTwice
<1>2. IInv /\ TraceInv /\ [Next]_vars => TraceInv'
  <2> SUFFICES ASSUME IInv, TraceInv, [Next]_vars PROVE TraceInv'
    OBVIOUS
  <2>1. trace \in BOOLEAN /\ traced \in BOOLEAN /\ run.trace \in BOOLEAN
    BY DEF IInv, TypeOK, Run
  <2>2. UNCHANGED vars => Keeps
    BY DEF vars, control, budgets, tracing, Keeps
  <2> QED
    BY <2>1, <2>2, NextTracing, TraceStepKept
<1>3. TraceInv => NoStatementTracedTwice
  BY DEF TraceInv
<1> QED
  BY <1>1, <1>2, <1>3, Invariance, PTL DEF Spec
=============================================================================
