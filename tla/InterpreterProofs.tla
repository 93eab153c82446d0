-------------------------- MODULE InterpreterProofs --------------------------
(***************************************************************************)
(* What the statements of the interpreter keep and cost, for every program *)
(* the loader lets through, every size of memory and of a word, and every  *)
(* arithmetic of floats.                                                   *)
(***************************************************************************)
EXTENDS ShortCuts, TLAPS, FunctionTheorems, FiniteSetTheorems, WellFoundedInduction,
        SequenceTheorems

-----------------------------------------------------------------------------
(* Control: how a statement can end.                                       *)

Regs == [pc : 0 .. NumStatements, switchRef : Nat, switchKind : SwitchKinds, pushed : Nat,
         argc : 0 .. 8]

Registers == x \in Regs /\ budget \in Nat

Exits == {"run", "call", "returned", "state op"}

\* The next statement follows; or a statement that was charged for; or the loop stops
\* where it is; or it leaves with an effect.  Only a switch and a call that fails stop with
\* an effect, the call one on memory.
Follows == exit' = exit /\ x'.pc = x.pc + 1
Charged == exit' = exit /\ budget' < budget

Switched(s) == [x EXCEPT !.switchRef = s.a, !.switchKind = SwitchKindOf(s.op)]

StopsHere(s) ==
  /\ exit' \notin Exits /\ UNCHANGED temps
  /\ \/ UNCHANGED <<mem, x>>
     \/ exit' = "budget" /\ s.op \in Switches /\ x' = Switched(s) /\ UNCHANGED mem
     \/ /\ exit' \in CallFaults /\ s.op \in DOMAIN CallArgc
        /\ x' = [x EXCEPT !.argc = CallArgc[s.op]] /\ mem' = WithParms(s)

LeavesLoop == exit' \in Exits \ {"run"}

Outcome(s) == Follows \/ Charged \/ StopsHere(s) \/ LeavesLoop

LEMMA DoesFollows ==
  ASSUME Registers, NEW s, NEW m, NEW kind, Does(m) \/ Warns(kind, m)
  PROVE  Outcome(s)
BY DEF Registers, Regs, Does, Warns, Advance, Follows, Outcome

LEMMA FaultStops ==
  ASSUME Registers, NEW s, NEW kind, kind \notin Exits, Faults(kind)
  PROVE  Outcome(s)
BY DEF Registers, Regs, Faults, StopsHere, Outcome

LEMMA StopStops ==
  ASSUME Registers, NEW s, NEW kind, Stops(kind), UNCHANGED x
  PROVE  Outcome(s)
BY DEF Stops, StopsHere, Outcome, Exits

LEMMA JumpCharged ==
  ASSUME Registers, NEW s, NEW kind, NEW t, NEW regs \in Regs, JumpsTo(kind, t, regs),
         regs = x \/ (s.op \in Switches /\ regs = Switched(s))
  PROVE  Outcome(s)
<1>1. CASE Stops(kind) /\ x' = [regs EXCEPT !.pc = x.pc]
  <2>1. x \in Regs
    BY DEF Registers
  <2>2. regs.pc = x.pc
    BY <2>1 DEF Switched, Regs
  <2>3. x' = regs
    BY <1>1, <2>2 DEF Regs
  <2> QED
    BY <1>1, <2>3, StopStops DEF Stops, StopsHere, Outcome, Exits
<1>2. CASE Counted(kind, [regs EXCEPT !.pc = t])
  BY <1>2 DEF Counted, Registers, Spent, Ticks, Charged, Outcome
<1> QED
  BY <1>1, <1>2 DEF JumpsTo

\* A call that does not leave for a function fails.
LEMMA CallOutcome ==
  ASSUME Registers, NEW s, s.op \in DOMAIN CallArgc, Calls(s)
  PROVE  Outcome(s)
<1> DEFINE passed == WithParms(s)
           regs(kind) == [x EXCEPT !.pc = IF kind = "call" THEN @ + 1 ELSE @,
                                   !.argc = CallArgc[s.op]]
<1>1. PICK kind \in CallEndings(Num(WordAt(View, passed, s.a))) : Leaves(kind, passed, regs(kind))
  BY Zenon DEF Calls
<1>2. kind = "call" \/ kind \in CallFaults
  BY <1>1, CalleesAssumption DEF CallEndings, Callee, CallFaults, CalleeKinds
<1>3. CASE kind = "call"
  BY <1>1, <1>3 DEF Leaves, LeavesLoop, Outcome, Exits
<1>4. CASE kind \in CallFaults
  <2>1. kind # "call" /\ kind \notin Exits
    BY <1>4 DEF CallFaults, Exits
  <2>2. regs(kind) = [x EXCEPT !.argc = CallArgc[s.op]]
    BY <2>1 DEF Registers, Regs
  <2>3. exit' = kind /\ mem' = passed /\ x' = regs(kind) /\ UNCHANGED temps
    BY <1>1 DEF Leaves
  <2> HIDE DEF regs
  <2> QED
    BY <1>4, <2>1, <2>2, <2>3 DEF StopsHere, Outcome
<1> QED
  BY <1>2, <1>3, <1>4

LEMMA ComputeOutcome ==
  ASSUME Registers, NEW s \in Statements,
         \/ WordStatement(s) \/ BitCopyStatement(s) \/ LongStatement(s) \/ VectorStatement(s)
         \/ RandomStatement(s) \/ StringStatement(s) \/ StoreGlobal(s) \/ CompoundGlobal(s)
         \/ LoadGlobal(s) \/ GStore(s) \/ FetchGlobal(s) \/ GlobalAddress(s) \/ BoundCheck(s)
  PROVE  Outcome(s)
<1>1. CASE \/ WordStatement(s) \/ BitCopyStatement(s) \/ LongStatement(s) \/ VectorStatement(s)
           \/ RandomStatement(s) \/ GlobalAddress(s)
  BY <1>1, DoesFollows, Zenon DEF WordStatement, BitCopyStatement, LongStatement, VectorStatement,
     RandomStatement, GlobalAddress
<1>2. CASE StringStatement(s) \/ StoreGlobal(s) \/ CompoundGlobal(s)
  BY <1>2, DoesFollows, Zenon DEF StringStatement, StoreGlobal, CompoundGlobal
<1>3. CASE LoadGlobal(s) \/ GStore(s) \/ FetchGlobal(s) \/ BoundCheck(s)
  <2>1. "array index" \notin Exits /\ "bound" \notin Exits
    BY DEF Exits
  <2> QED
    BY <1>3, <2>1, DoesFollows, FaultStops, Zenon DEF LoadGlobal, GStore, FetchGlobal, BoundCheck
<1> QED
  BY <1>1, <1>2, <1>3

LEMMA MemoryOutcome ==
  ASSUME Registers, NEW s \in Statements,
         \/ Push(s) \/ LoadField(s) \/ Address(s) \/ StoreField(s) \/ StorePointer(s)
         \/ LoadPointer(s) \/ LoadConverted(s) \/ CompoundPointer(s)
  PROVE  Outcome(s)
<1>0. /\ "pushed too much" \notin Exits /\ "bad read" \notin Exits /\ "null write" \notin Exits
      /\ "bad write" \notin Exits
  BY DEF Exits
<1>1. CASE Push(s)
  <2>1. CASE Faults("pushed too much")
    BY <1>0, <2>1, FaultStops
  <2>2. CASE x' = [x EXCEPT !.pc = @ + 1, !.pushed = @ + N(s.a)] /\ UNCHANGED exit
    BY <2>2 DEF Registers, Regs, Follows, Outcome
  <2> QED
    BY <1>1, <2>1, <2>2 DEF Push
<1>2. CASE LoadField(s) \/ Address(s) \/ StoreField(s)
  BY <1>2, DoesFollows, Zenon DEF LoadField, Address, StoreField
<1>3. CASE LoadPointer(s) \/ LoadConverted(s)
  BY <1>0, <1>3, DoesFollows, FaultStops, Zenon DEF LoadPointer, LoadConverted
<1>4. ASSUME NEW base, NEW off, NEW bytes, WriteElsewhere(base, off, bytes)
      PROVE  Outcome(s)
  <2>1. \/ Does(mem) \/ Faults("bad write") \/ Faults("null write")
        \/ Advance /\ UNCHANGED exit
    BY <1>4, Zenon DEF WriteElsewhere
  <2>2. ASSUME Advance, UNCHANGED exit PROVE Outcome(s)
    BY <2>2 DEF Registers, Regs, Advance, Follows, Outcome
  <2> QED
    BY <1>0, <2>1, <2>2, DoesFollows, FaultStops
<1>5. \A p, n : CheckWrite(mem, p, n) \in {"ok", "null", "invalid", "protected"}
  BY DEF CheckWrite
<1>6. ASSUME NEW base, NEW off, NEW bytes, PtrWrite(base, off, bytes)
      PROVE  Outcome(s)
  <2> DEFINE verdict == CheckWrite(mem, Wrap(base + off), Len(bytes))
  <2>1. CASE verdict = "ok" \/ verdict = "protected"
    BY <1>6, <2>1, DoesFollows DEF PtrWrite
  <2>2. CASE verdict = "null" \/ verdict = "invalid"
    BY <1>4, <1>6, <2>2 DEF PtrWrite
  <2> QED
    BY <1>5, <2>1, <2>2
<1>7. CASE StorePointer(s)
  BY <1>6, <1>7, DoesFollows, Zenon DEF StorePointer
<1>8. CASE CompoundPointer(s)
  <2>1. PICK m, n, v : \/ Does(m)
                       \/ /\ v = CheckWrite(mem, N(s.b), n)
                          /\ CASE v = "ok" -> Does(m)
                               [] v = "protected" -> Warns("read only", mem)
                               [] v = "null" -> Faults("null write")
                               [] v = "invalid" -> Faults("bad write")
    BY <1>8, Zenon DEF CompoundPointer
  <2>2. CASE Does(m)
    BY <2>2, DoesFollows
  <2>3. CASE v = CheckWrite(mem, N(s.b), n) /\ ~Does(m)
    <3>1. v \in {"ok", "null", "invalid", "protected"}
      BY <1>5, <2>3
    <3>2. Warns("read only", mem) \/ Faults("null write") \/ Faults("bad write")
      BY <2>1, <2>3, <3>1
    <3> QED
      BY <1>0, <3>2, DoesFollows, FaultStops
  <2> QED
    BY <2>1, <2>2, <2>3
<1> QED
  BY <1>1, <1>2, <1>3, <1>7, <1>8
LEMMA ControlOutcome ==
  ASSUME Registers, NEW s \in Statements,
         \/ Branch(s) \/ Switch(s) \/ Case(s) \/ CaseRange(s) \/ Call(s) \/ Return(s)
         \/ StateOp(s) \/ Unexecutable(s)
  PROVE  Outcome(s)
<1>0. x \in Regs
  BY DEF Registers
<1>7. \A kind, t : JumpsTo(kind, t, x) => Outcome(s)
  BY <1>0, JumpCharged
<1>1. CASE Branch(s) \/ Case(s)
  BY <1>1, <1>7, DoesFollows, Zenon DEF Branch, Case
<1>2. CASE Switch(s)
  <2>1. s.a \in Nat
    BY StatementsAssumption
  <2>2. SwitchKindOf(s.op) \in SwitchKinds /\ s.op \in Switches
    BY <1>2 DEF Switch, Switches, SwitchKindOf, SwitchKinds
  <2>3. Switched(s) \in Regs
    BY <1>0, <2>1, <2>2 DEF Switched, Regs
  <2>4. JumpsTo("none", s.b, Switched(s))
    BY <1>2 DEF Switch, Switched
  <2> QED
    BY <2>2, <2>3, <2>4, JumpCharged
<1>3. CASE CaseRange(s)
  <2>1. "string case range" \notin Exits
    BY DEF Exits
  <2> QED
    BY <1>3, <1>7, <2>1, DoesFollows, FaultStops, Zenon DEF CaseRange
<1>4. CASE Call(s) \/ Return(s)
  <2>1. CASE Stops("none") /\ UNCHANGED x
    BY <2>1, StopStops
  <2>2. CASE s.op \in DOMAIN CallArgc /\ Calls(s)
    BY <2>2, CallOutcome
  <2>3. CASE \E m, regs : Leaves("returned", m, regs)
    BY <2>3 DEF Leaves, LeavesLoop, Outcome, Exits
  <2> QED
    BY <1>4, <2>1, <2>2, <2>3, Zenon DEF Call, Return
<1>5. CASE StateOp(s)
  BY <1>5 DEF StateOp, Leaves, LeavesLoop, Outcome, Exits
<1>6. CASE Unexecutable(s)
  <2>1. s.op \notin Exits
    BY <1>6 DEF Unexecutable, Unexecutables, Exits
  <2> QED
    BY <1>6, <2>1, FaultStops DEF Unexecutable
<1> QED
  BY <1>1, <1>2, <1>3, <1>4, <1>5, <1>6

LEMMA StepOutcome ==
  ASSUME Registers, Next
  PROVE  exit = "run" /\ st' \in Statements /\ Outcome(st')
<1>1. PICK s \in Statements : Execute(s)
  BY DEF Next
<1>2. exit = "run" /\ st' = s
  BY <1>1 DEF Execute
<1>3. Outcome(s)
  BY <1>1, ComputeOutcome, MemoryOutcome, ControlOutcome, Zenon DEF Execute
<1> QED
  BY <1>2, <1>3

LEMMA StepCharged ==
  ASSUME Registers, Next
  PROVE  exit' = "run" /\ x'.pc <= x.pc => budget' < budget
<1>1. exit = "run" /\ Outcome(st') /\ x.pc \in Int
  BY StepOutcome DEF Registers, Regs
<1>2. CASE Follows
  BY <1>1, <1>2 DEF Follows
<1>3. CASE Charged \/ StopsHere(st') \/ LeavesLoop
  BY <1>3 DEF Charged, StopsHere, LeavesLoop, Exits
<1> QED
  BY <1>1, <1>2, <1>3 DEF Outcome

\* What is left of memory is what the copies of a call that fails leave.
LEMMA StepStops ==
  ASSUME Registers, Next, Stopped
  PROVE  /\ RegistersStay /\ UNCHANGED temps
         /\ mem' = mem \/ (exit' \in CallFaults /\ mem' = WithParms(st'))
<1>1. exit = "run" /\ Outcome(st')
  BY StepOutcome
<1>2. StopsHere(st')
  BY <1>1 DEF Outcome, Follows, Charged, LeavesLoop, Exits, Stopped
<1> QED
  BY <1>2 DEF StopsHere, RegistersStay, Switched

-----------------------------------------------------------------------------
(* Powers of two, as the sizes of power sets.                              *)

LEMMA PowerIsSize ==
  ASSUME NEW n \in Nat
  PROVE  /\ IsFiniteSet(SUBSET (1 .. n)) /\ Cardinality(SUBSET (1 .. n)) = 2 ^ n
         /\ 2 ^ n \in Nat \ {0}
<1>1. IsFiniteSet(1 .. n) /\ Cardinality(1 .. n) = n
  BY FS_Interval
<1>2. IsFiniteSet(SUBSET (1 .. n)) /\ Cardinality(SUBSET (1 .. n)) = 2 ^ n
  BY <1>1, FS_SUBSET
<1>3. SUBSET (1 .. n) # {}
  <2>1. {} \in SUBSET (1 .. n)
    OBVIOUS
  <2> QED
    BY <2>1
<1>4. 2 ^ n \in Nat /\ 2 ^ n # 0
  BY <1>2, <1>3, FS_CardinalityType, FS_EmptySet
<1> QED
  BY <1>2, <1>4

\* A set has one subset without its last element and one with it for each subset of the
\* others.
LEMMA PowerDoubles ==
  ASSUME NEW n \in Nat
  PROVE  2 ^ (n + 1) = 2 * 2 ^ n
<1> DEFINE A == SUBSET (1 .. n)
           With(a) == a \union {n + 1}
           B == {With(a) : a \in A}
           f == [a \in A |-> With(a)]
<1>1. IsFiniteSet(A) /\ Cardinality(A) = 2 ^ n /\ 2 ^ n \in Nat
  BY PowerIsSize
<1>2. IsFiniteSet(SUBSET (1 .. n + 1)) /\ Cardinality(SUBSET (1 .. n + 1)) = 2 ^ (n + 1)
  <2>1. n + 1 \in Nat
    OBVIOUS
  <2> QED
    BY <2>1, PowerIsSize
<1>3. SUBSET (1 .. n + 1) = A \union B
  <2>1. ASSUME NEW a \in SUBSET (1 .. n + 1), a \notin A PROVE a \in B
    <3>1. n + 1 \in a
      BY <2>1
    <3>2. a \ {n + 1} \in A
      OBVIOUS
    <3>3. a = With(a \ {n + 1})
      BY <3>1
    <3> QED
      BY <3>2, <3>3
  <2>2. \A a \in A : With(a) \in SUBSET (1 .. n + 1)
    OBVIOUS
  <2>3. B \subseteq SUBSET (1 .. n + 1)
    BY <2>2
  <2>4. A \subseteq SUBSET (1 .. n + 1)
    OBVIOUS
  <2> HIDE DEF A, B
  <2> QED
    BY <2>1, <2>3, <2>4
<1>4. A \intersect B = {}
  OBVIOUS
<1>5. f \in Bijection(A, B)
  <2>1. \A a1 \in A, a2 \in A : With(a1) = With(a2) => a1 = a2
    <3> TAKE a1 \in A, a2 \in A
    <3>1. n + 1 \notin a1 /\ n + 1 \notin a2
      OBVIOUS
    <3> QED
      BY <3>1
  <2> HIDE DEF A, With
  <2>2. f \in [A -> B] /\ \A b \in B : \E a \in A : f[a] = b
    OBVIOUS
  <2>3. \A a1, a2 \in A : f[a1] = f[a2] => a1 = a2
    BY <2>1
  <2> HIDE DEF B, f
  <2>4. f \in Injection(A, B)
    BY <2>2, <2>3, Fun_IsInj
  <2>5. f \in Surjection(A, B)
    BY <2>2, Fun_IsSurj
  <2> QED
    BY <2>4, <2>5, Zenon DEF Bijection
<1>6. IsFiniteSet(B) /\ Cardinality(B) = 2 ^ n
  BY <1>1, <1>5, FS_Bijection DEF ExistsBijection
<1> HIDE DEF A, B
<1>7. Cardinality(A \union B) = Cardinality(A) + Cardinality(B) - Cardinality(A \intersect B)
  BY <1>1, <1>6, FS_Union
<1>8. Cardinality(A \intersect B) = 0
  BY <1>4, FS_EmptySet
<1>9. Cardinality(A \union B) = 2 ^ (n + 1)
  BY <1>2, <1>3
<1> QED
  BY <1>1, <1>6, <1>7, <1>8, <1>9

\* The least number with a property that some number has.
LEMMA Least ==
  ASSUME NEW S, S \subseteq Nat, S # {}
  PROVE  \E n \in S : \A m \in S : n <= m
<1> DEFINE Less == {ss \in Nat \X Nat : ss[1] < ss[2]}
<1>1. IsWellFoundedOn(Less, Nat)
  BY NatLessThanWellFounded DEF OpToRel
<1>2. \A a, b \in Nat : a < b => <<a, b>> \in Less
  OBVIOUS
<1> HIDE DEF Less
<1>3. PICK n \in S : \A m \in S : ~ (<<m, n>> \in Less)
  BY <1>1, WFMin
<1>4. n \in Nat /\ \A m \in S : m \in Nat /\ ~ (m < n)
  BY <1>2, <1>3
<1> QED
  BY <1>4

LEMMA PowerOfSum ==
  ASSUME NEW a \in Nat, NEW b \in Nat
  PROVE  2 ^ (a + b) = 2 ^ a * 2 ^ b
<1> DEFINE Bad == {n \in Nat : 2 ^ (a + n) # 2 ^ a * 2 ^ n}
<1>1. SUFFICES Bad = {}
  OBVIOUS
<1>2. SUFFICES ASSUME Bad # {} PROVE FALSE
  OBVIOUS
<1>3. PICK n \in Bad : \A m \in Bad : n <= m
  BY <1>2, Least
<1>4. 2 ^ a \in Nat
  BY PowerIsSize
<1>5. n # 0
  <2>1. 2 ^ 0 = 1
    OBVIOUS
  <2>2. a + 0 = a /\ 2 ^ a = 2 ^ a * 1
    BY <1>4
  <2>3. 2 ^ (a + 0) = 2 ^ a * 2 ^ 0
    BY <2>1, <2>2, Zenon
  <2> QED
    BY <1>3, <2>3
<1> DEFINE m == n - 1
<1>6. m \in Nat /\ m \notin Bad /\ n = m + 1
  BY <1>3, <1>5
<1>7. 2 ^ (a + m) = 2 ^ a * 2 ^ m
  BY <1>6
<1>8. 2 ^ n = 2 * 2 ^ m /\ 2 ^ m \in Nat
  BY <1>6, PowerDoubles, PowerIsSize
<1>9. 2 ^ (a + n) = 2 * 2 ^ (a + m)
  <2>1. a + m \in Nat /\ (a + m) + 1 = a + n
    BY <1>6
  <2>2. 2 ^ ((a + m) + 1) = 2 * 2 ^ (a + m)
    BY <2>1, PowerDoubles
  <2> QED
    BY <2>1, <2>2
<1>10. \A p, q, r \in Nat : r = p * q => 2 * r = p * (2 * q)
  OBVIOUS
<1>11. 2 ^ (a + m) \in Nat
  <2>1. a + m \in Nat
    BY <1>6
  <2> HIDE DEF m
  <2> QED
    BY <2>1, PowerIsSize
<1>12. 2 * 2 ^ (a + m) = 2 ^ a * (2 * 2 ^ m)
  BY <1>4, <1>7, <1>8, <1>10, <1>11
<1> QED
  BY <1>3, <1>8, <1>9, <1>12

LEMMA PowerGrows ==
  ASSUME NEW a \in Nat, NEW b \in Nat, a <= b
  PROVE  2 ^ a <= 2 ^ b
<1>1. b - a \in Nat /\ b = a + (b - a)
  OBVIOUS
<1>2. 2 ^ b = 2 ^ a * 2 ^ (b - a)
  BY <1>1, PowerOfSum
<1>3. 2 ^ a \in Nat /\ 2 ^ (b - a) \in Nat \ {0}
  BY <1>1, PowerIsSize
<1>4. \A p \in Nat, q \in Nat \ {0} : p <= p * q
  OBVIOUS
<1> QED
  BY <1>2, <1>3, <1>4

-----------------------------------------------------------------------------
(* Bytes, words and longs.                                                 *)

LEMMA ValsOfSum ==
  ASSUME NEW n \in Nat, NEW k \in Nat
  PROVE  Vals(n + k) = Vals(n) * Vals(k) /\ Vals(n) \in Nat \ {0}
<1>1. ByteBits \in Nat
  BY MemoryAssumption
<1>2. \A p, q, r \in Nat : p * (q + r) = p * q + p * r /\ p * q \in Nat
  OBVIOUS
<1>3. ByteBits * (n + k) = ByteBits * n + ByteBits * k /\ ByteBits * n \in Nat /\ ByteBits * k \in Nat
  BY <1>1, <1>2
<1> QED
  BY <1>3, PowerOfSum, PowerIsSize DEF Vals

LEMMA Sizes ==
  /\ ByteVals \in Nat /\ ByteVals >= 2 /\ WordVals \in Nat /\ WordVals >= ByteVals
  /\ LongVals \in Nat /\ LongVals >= 2 * WordVals
<1>1. ByteBits \in Nat \ {0} /\ WordBytes \in Nat \ {0}
  BY MemoryAssumption
<1>2. ByteVals \in Nat /\ ByteVals >= 2
  <2>1. ByteVals = 2 ^ ByteBits
    BY <1>1 DEF ByteVals, Vals
  <2>2. 2 ^ 1 <= 2 ^ ByteBits
    <3>1. 1 \in Nat /\ ByteBits \in Nat /\ 1 <= ByteBits
      BY <1>1
    <3> QED
      BY <3>1, PowerGrows
  <2>3. 2 ^ 1 = 2
    OBVIOUS
  <2>4. 2 ^ ByteBits \in Nat
    BY <1>1, PowerIsSize
  <2> QED
    BY <2>1, <2>2, <2>3, <2>4
<1>3. WordVals \in Nat /\ WordVals >= ByteVals
  <2>1. WordBytes - 1 \in Nat /\ WordBytes = 1 + (WordBytes - 1)
    BY <1>1
  <2>2. WordVals = ByteVals * Vals(WordBytes - 1) /\ Vals(WordBytes - 1) \in Nat \ {0}
    BY <2>1, ValsOfSum DEF WordVals, ByteVals
  <2>3. \A p \in Nat, q \in Nat \ {0} : p * q \in Nat /\ p * q >= p
    OBVIOUS
  <2> QED
    BY <1>2, <2>2, <2>3
<1>4. \A p \in Nat : p >= 2 => p * p \in Nat /\ p * p >= 2 * p
  OBVIOUS
<1> QED
  BY <1>2, <1>3, <1>4 DEF LongVals
\* The recursion that Num is defined by, over the first k bytes.
NumUpTo(b, k, n) == n = [i \in 0 .. k |-> IF i = 0 THEN 0 ELSE n[i - 1] + b[i] * Vals(i - 1)]

LEMMA NumStep ==
  ASSUME NEW b \in Seq(Byte), NEW i \in 1 .. Len(b), NEW v \in 0 .. Vals(i - 1) - 1
  PROVE  v + b[i] * Vals(i - 1) \in 0 .. Vals(i) - 1
<1>1. b[i] \in 0 .. ByteVals - 1 /\ i - 1 \in Nat /\ (i - 1) + 1 = i
  <2>1. i \in Nat /\ i >= 1
    BY LenProperties
  <2>2. b[i] \in Byte
    BY ElementOfSeq
  <2> QED
    BY <2>1, <2>2 DEF Byte
<1>2. Vals(i) = Vals(i - 1) * ByteVals /\ Vals(i - 1) \in Nat \ {0}
  <2>1. i - 1 \in Nat /\ 1 \in Nat
    BY <1>1
  <2>2. Vals((i - 1) + 1) = Vals(i - 1) * Vals(1) /\ Vals(i - 1) \in Nat \ {0}
    BY <2>1, ValsOfSum, Zenon
  <2> QED
    BY <1>1, <2>2 DEF ByteVals
<1>3. ASSUME NEW p \in Nat \ {0}, NEW q \in Nat \ {0}, NEW c \in 0 .. q - 1, NEW w \in 0 .. p - 1
      PROVE  w + c * p \in 0 .. p * q - 1
  <2>1. c * p <= (q - 1) * p /\ c * p \in Nat
    OBVIOUS
  <2>2. (q - 1) * p = p * q - p
    OBVIOUS
  <2> QED
    BY <2>1, <2>2
<1>4. ByteVals \in Nat \ {0}
  BY Sizes
<1>5. v + b[i] * Vals(i - 1) \in 0 .. Vals(i - 1) * ByteVals - 1
  BY <1>1, <1>2, <1>3, <1>4
<1> QED
  BY <1>2, <1>5

LEMMA NumBounded ==
  ASSUME NEW b \in Seq(Byte), NEW k \in 0 .. Len(b), NEW n, NumUpTo(b, k, n)
  PROVE  \A i \in 0 .. k : n[i] \in 0 .. Vals(i) - 1
<1> DEFINE Bad == {i \in 0 .. k : n[i] \notin 0 .. Vals(i) - 1}
<1>1. SUFFICES ASSUME Bad # {} PROVE FALSE
  OBVIOUS
<1>2. Bad \subseteq Nat
  OBVIOUS
<1>3. PICK i \in Bad : \A j \in Bad : i <= j
  BY <1>1, <1>2, Least
<1>4. n[i] = IF i = 0 THEN 0 ELSE n[i - 1] + b[i] * Vals(i - 1)
  BY <1>3 DEF NumUpTo
<1>5. CASE i = 0
  <2>1. Vals(0) \in Nat \ {0}
    BY ValsOfSum
  <2> QED
    BY <1>3, <1>4, <1>5, <2>1
<1>6. CASE i # 0
  <2>1. i \in 1 .. Len(b) /\ i - 1 \in 0 .. k /\ i - 1 < i
    BY <1>3, <1>6
  <2>2. n[i - 1] \in 0 .. Vals(i - 1) - 1
    BY <1>3, <2>1
  <2>3. n[i] \in 0 .. Vals(i) - 1
    BY <1>4, <1>6, <2>1, <2>2, NumStep
  <2> QED
    BY <1>3, <2>3
<1> QED
  BY <1>5, <1>6

LEMMA NumExists ==
  ASSUME NEW b \in Seq(Byte), NEW k \in 0 .. Len(b)
  PROVE  \E n : NumUpTo(b, k, n)
<1> DEFINE Bad == {j \in 0 .. Len(b) : ~ \E n : NumUpTo(b, j, n)}
<1>1. SUFFICES ASSUME Bad # {} PROVE FALSE
  OBVIOUS
<1>2. Bad \subseteq Nat
  OBVIOUS
<1>3. PICK j \in Bad : \A i \in Bad : j <= i
  BY <1>1, <1>2, Least
<1>4. CASE j = 0
  <2>1. NumUpTo(b, 0, [i \in 0 .. 0 |-> 0])
    BY DEF NumUpTo
  <2> QED
    BY <1>3, <1>4, <2>1
<1>5. CASE j # 0
  <2>1. j - 1 \in 0 .. Len(b) /\ j - 1 \notin Bad
    BY <1>3, <1>5
  <2>2. PICK n : NumUpTo(b, j - 1, n)
    BY <2>1
  <2> DEFINE m == [i \in 0 .. j |-> IF i = j THEN n[j - 1] + b[j] * Vals(j - 1) ELSE n[i]]
  <2>3. j \in Nat
    BY <1>3
  <2>4. \A i \in 0 .. j : m[i] = IF i = 0 THEN 0 ELSE m[i - 1] + b[i] * Vals(i - 1)
    <3> TAKE i \in 0 .. j
    <3>1. CASE i = j
      <4>1. m[i] = n[j - 1] + b[j] * Vals(j - 1) /\ m[j - 1] = n[j - 1]
        BY <1>5, <2>3, <3>1
      <4> HIDE DEF m
      <4> QED
        BY <1>5, <3>1, <4>1
    <3>2. CASE i # j
      <4>1. m[i] = n[i] /\ (i # 0 => m[i - 1] = n[i - 1]) /\ i \in 0 .. j - 1
        BY <2>3, <3>2
      <4>2. n[i] = IF i = 0 THEN 0 ELSE n[i - 1] + b[i] * Vals(i - 1)
        BY <2>2, <4>1 DEF NumUpTo
      <4> HIDE DEF m
      <4> QED
        BY <4>1, <4>2
    <3> QED
      BY <3>1, <3>2
  <2>5. NumUpTo(b, j, m)
    <3>1. m = [i \in 0 .. j |-> m[i]]
      OBVIOUS
    <3> HIDE DEF m
    <3>2. [i \in 0 .. j |-> m[i]]
            = [i \in 0 .. j |-> IF i = 0 THEN 0 ELSE m[i - 1] + b[i] * Vals(i - 1)]
      BY <2>4
    <3> QED
      BY <3>1, <3>2, Zenon DEF NumUpTo
  <2> QED
    BY <1>3, <2>5
<1> QED
  BY <1>4, <1>5

\* A number of n bytes is one of the values of n bytes.
LEMMA NumType ==
  ASSUME NEW b \in Seq(Byte)
  PROVE  Num(b) \in 0 .. Vals(Len(b)) - 1 /\ Num(b) \in Nat
<1> DEFINE n == CHOOSE n : NumUpTo(b, Len(b), n)
<1>1. Len(b) \in 0 .. Len(b)
  OBVIOUS
<1>2. NumUpTo(b, Len(b), n)
  BY <1>1, NumExists
<1>3. Num(b) = n[Len(b)]
  BY DEF Num, NumUpTo
<1> HIDE DEF n
<1>4. n[Len(b)] \in 0 .. Vals(Len(b)) - 1
  BY <1>1, <1>2, NumBounded
<1>5. Vals(Len(b)) \in Nat
  BY ValsOfSum
<1> QED
  BY <1>3, <1>4, <1>5
LEMMA SeqOfFunction ==
  ASSUME NEW T, NEW n \in Nat, NEW q \in [1 .. n -> T]
  PROVE  q \in Seq(T) /\ Len(q) = n /\ DOMAIN q = 1 .. n
<1>1. q \in Seq(T)
  BY SeqDef
<1>2. DOMAIN q = 1 .. n /\ DOMAIN q = 1 .. Len(q) /\ Len(q) \in Nat
  BY <1>1, LenProperties
<1> QED
  BY <1>1, <1>2

LEMMA BytesOfType ==
  ASSUME NEW v \in Int, NEW n \in Nat
  PROVE  BytesOf(v, n) \in Seq(Byte) /\ Len(BytesOf(v, n)) = n
<1>1. ASSUME NEW i \in 1 .. n PROVE (v \div Vals(i - 1)) % ByteVals \in Byte
  <2>1. i - 1 \in Nat
    OBVIOUS
  <2>2. Vals(i - 1) \in Nat \ {0}
    BY <2>1, ValsOfSum
  <2>3. v \div Vals(i - 1) \in Int
    BY <2>2
  <2> QED
    BY <2>3, Sizes DEF Byte
<1>2. BytesOf(v, n) \in [1 .. n -> Byte]
  BY <1>1 DEF BytesOf
<1> QED
  BY <1>2, SeqOfFunction

LEMMA ZerosType ==
  ASSUME NEW n \in Nat
  PROVE  Zeros(n) \in Seq(Byte) /\ Len(Zeros(n)) = n
<1>1. 0 \in Byte
  BY Sizes DEF Byte
<1>2. Zeros(n) \in [1 .. n -> Byte]
  BY <1>1 DEF Zeros
<1> QED
  BY <1>2, SeqOfFunction

LEMMA BytesAtType ==
  ASSUME NEW d \in Seq(Byte), NEW o \in Nat, NEW n \in Nat, o + n <= Len(d)
  PROVE  BytesAt(d, o, n) \in Seq(Byte) /\ Len(BytesAt(d, o, n)) = n
<1>1. Len(d) \in Nat /\ o + 1 \in Int /\ o + n \in Int
  OBVIOUS
<1>2. \A i \in o + 1 .. o + n : d[i] \in Byte
  <2> TAKE i \in o + 1 .. o + n
  <2>1. i \in 1 .. Len(d)
    BY <1>1
  <2> QED
    BY <2>1, ElementOfSeq
<1>3. /\ SubSeq(d, o + 1, o + n) \in Seq(Byte)
      /\ Len(SubSeq(d, o + 1, o + n)) = IF o + 1 <= o + n THEN (o + n) - (o + 1) + 1 ELSE 0
  BY <1>1, <1>2, SubSeqProperties
<1>4. (IF o + 1 <= o + n THEN (o + n) - (o + 1) + 1 ELSE 0) = n
  OBVIOUS
<1> QED
  BY <1>3, <1>4 DEF BytesAt

LEMMA PatchedType ==
  ASSUME NEW d \in Seq(Byte), NEW o \in Int, NEW b \in Seq(Byte)
  PROVE  /\ Patched(d, o, b) \in Seq(Byte) /\ Len(Patched(d, o, b)) = Len(d)
         /\ \A i \in 1 .. Len(d) :
                Patched(d, o, b)[i] = IF i - o \in 1 .. Len(b) THEN b[i - o] ELSE d[i]
<1>1. Len(d) \in Nat /\ Len(b) \in Nat
  OBVIOUS
<1>2. Patched(d, o, b) \in [1 .. Len(d) -> Byte]
  <2>1. ASSUME NEW i \in 1 .. Len(d)
        PROVE  (IF i - o \in 1 .. Len(b) THEN b[i - o] ELSE d[i]) \in Byte
    BY ElementOfSeq
  <2> QED
    BY <2>1 DEF Patched
<1>3. Patched(d, o, b) \in Seq(Byte) /\ Len(Patched(d, o, b)) = Len(d)
  BY <1>1, <1>2, SeqOfFunction
<1> QED
  BY <1>3 DEF Patched

-----------------------------------------------------------------------------
(* What every write keeps of a memory.                                     *)

\* The byte at null, the sizes and the entity slots, and every byte of region E that is not
\* a field of an unprotected entity.
KeptIn(m, d) ==
  \A e \in 0 .. NumEdicts(m) - 1, i \in 1 .. Stride :
    d.e[e * Stride + i] # m.e[e * Stride + i] => ~Protected(m, e) /\ i <= FieldBytes

Keeps(m, d) ==
  /\ IsMemory(m) /\ IsMemory(d) /\ d.slots = m.slots
  /\ Len(d.s) = Len(m.s) /\ Len(d.h) = Len(m.h) /\ d.s[1] = m.s[1]
  /\ KeptIn(m, d)

\* The same but for the byte at null.
Shapes(m, d) ==
  /\ IsMemory(m) /\ IsMemory(d) /\ d.slots = m.slots
  /\ Len(d.s) = Len(m.s) /\ Len(d.h) = Len(m.h)
  /\ KeptIn(m, d)

LEMMA KeepsSelf ==
  ASSUME NEW m, IsMemory(m)
  PROVE  Keeps(m, m)
BY DEF Keeps, KeptIn

LEMMA KeepsTwice ==
  ASSUME NEW m, NEW d, NEW k, Keeps(m, d), Keeps(d, k)
  PROVE  Keeps(m, k)
<1>1. KeptIn(m, k)
  BY DEF Keeps, KeptIn, NumEdicts, Protected
<1> QED
  BY <1>1 DEF Keeps

LEMMA MemoryType ==
  ASSUME NEW m, IsMemory(m)
  PROVE  /\ m.s \in Seq(Byte) /\ m.e \in Seq(Byte) /\ m.h \in Seq(Byte)
         /\ NumEdicts(m) \in Nat /\ Len(m.s) \in Nat /\ Len(m.e) \in Nat /\ Len(m.h) \in Nat
         /\ Len(m.s) <= EBase
         /\ Len(m.e) = NumEdicts(m) * Stride
         /\ EBase + NumEdicts(m) * Stride <= HBase
<1>1. m \in [s : Seq(Byte), e : Seq(Byte), h : Seq(Byte), slots : Seq(EntSlot)]
  BY DEF IsMemory
<1> QED
  BY <1>1 DEF IsMemory, NumEdicts

LEMMA PatchShapes ==
  ASSUME NEW m, IsMemory(m), NEW o \in Nat, NEW b \in Seq(Byte)
  PROVE  LET d == [m EXCEPT !.s = Patched(@, o, b)]
         IN  /\ Shapes(m, d) /\ d.e = m.e /\ d.h = m.h
             /\ \A i \in 1 .. Len(m.s) : i - o \notin 1 .. Len(b) => d.s[i] = m.s[i]
<1> DEFINE d == [m EXCEPT !.s = Patched(@, o, b)]
<1>1. m \in [s : Seq(Byte), e : Seq(Byte), h : Seq(Byte), slots : Seq(EntSlot)]
  BY DEF IsMemory
<1>2. m.s \in Seq(Byte) /\ Len(b) \in Nat /\ Len(m.s) \in Nat /\ o \in Int
  BY <1>1
<1>3. /\ Patched(m.s, o, b) \in Seq(Byte) /\ Len(Patched(m.s, o, b)) = Len(m.s)
      /\ \A i \in 1 .. Len(m.s) :
             Patched(m.s, o, b)[i] = IF i - o \in 1 .. Len(b) THEN b[i - o] ELSE m.s[i]
  BY <1>2, PatchedType
<1>4. /\ d \in [s : Seq(Byte), e : Seq(Byte), h : Seq(Byte), slots : Seq(EntSlot)]
      /\ d.s = Patched(m.s, o, b) /\ d.e = m.e /\ d.h = m.h /\ d.slots = m.slots
  BY <1>1, <1>3
<1> HIDE DEF d
<1>5. \A i \in 1 .. Len(m.s) : i - o \notin 1 .. Len(b) => d.s[i] = m.s[i]
  BY <1>3, <1>4
<1>6. IsMemory(d)
  BY <1>3, <1>4 DEF IsMemory, NumEdicts
<1>7. KeptIn(m, d)
  BY <1>4 DEF KeptIn
<1>8. Shapes(m, d)
  BY <1>3, <1>4, <1>6, <1>7 DEF Shapes
<1> QED
  BY <1>4, <1>5, <1>8 DEF d

LEMMA PatchInS ==
  ASSUME NEW m, IsMemory(m), NEW o \in Nat, o >= 1, NEW b \in Seq(Byte)
  PROVE  Keeps(m, [m EXCEPT !.s = Patched(@, o, b)])
<1> DEFINE d == [m EXCEPT !.s = Patched(@, o, b)]
<1>1. /\ Shapes(m, d)
      /\ \A i \in 1 .. Len(m.s) : i - o \notin 1 .. Len(b) => d.s[i] = m.s[i]
  BY PatchShapes
<1>2. m.s \in Seq(Byte) /\ Len(b) \in Nat /\ Len(m.s) \in Nat /\ o \in Int
  BY MemoryType
<1> HIDE DEF d
<1>3. d.s \in Seq(Byte) /\ Len(d.s) = Len(m.s)
  BY <1>1, MemoryType DEF Shapes
<1>5. d.s[1] = m.s[1]
  <2>1. CASE Len(m.s) >= 1
    <3>1. 1 \in 1 .. Len(m.s) /\ 1 - o \notin 1 .. Len(b)
      BY <1>2, <2>1
    <3> QED
      BY <1>1, <3>1
  <2>2. CASE Len(m.s) = 0
    <3>1. m.s = <<>> /\ d.s = <<>>
      BY <1>2, <1>3, <2>2, EmptySeq
    <3> QED
      BY <3>1
  <2> QED
    BY <1>2, <2>1, <2>2
<1>8. Keeps(m, d)
  BY <1>1, <1>5 DEF Keeps, Shapes
<1> QED
  BY <1>8 DEF d

LEMMA PatchInH ==
  ASSUME NEW m, IsMemory(m), NEW o \in Nat, NEW b \in Seq(Byte)
  PROVE  Keeps(m, [m EXCEPT !.h = Patched(@, o, b)])
<1> DEFINE d == [m EXCEPT !.h = Patched(@, o, b)]
<1>1. m \in [s : Seq(Byte), e : Seq(Byte), h : Seq(Byte), slots : Seq(EntSlot)]
  BY DEF IsMemory
<1>2. Patched(m.h, o, b) \in Seq(Byte) /\ Len(Patched(m.h, o, b)) = Len(m.h)
  BY <1>1, PatchedType
<1>3. /\ Len(d.h) = Len(m.h)
      /\ d \in [s : Seq(Byte), e : Seq(Byte), h : Seq(Byte), slots : Seq(EntSlot)]
      /\ d.s = m.s /\ d.e = m.e /\ d.slots = m.slots
  BY <1>1, <1>2
<1> HIDE DEF d
<1>4. IsMemory(d)
  BY <1>3 DEF IsMemory, NumEdicts
<1>5. Keeps(m, d)
  BY <1>3, <1>4 DEF Keeps, KeptIn
<1> QED
  BY <1>5 DEF d

\* A place in region E is in one block only.
LEMMA OneBlock ==
  ASSUME NEW e \in Nat, NEW q \in Nat, NEW i \in 1 .. Stride, NEW r \in 1 .. Stride,
         e * Stride + i = q * Stride + r
  PROVE  e = q /\ i = r
<1>1. Stride \in Nat \ {0}
  BY MemoryAssumption
<1>2. \A p \in Nat, k \in Nat : p < k => p * Stride + Stride <= k * Stride
  <2> TAKE p \in Nat, k \in Nat
  <2>1. ASSUME p < k PROVE p * Stride + Stride <= k * Stride
    <3>1. k - p - 1 \in Nat /\ k = (p + 1) + (k - p - 1)
      BY <2>1
    <3>2. \A z \in Nat : (p + 1 + z) * Stride = p * Stride + Stride + z * Stride /\ z * Stride \in Nat
      BY <1>1
    <3> QED
      BY <1>1, <3>1, <3>2
  <2> QED
    BY <2>1
<1>3. e * Stride \in Nat /\ q * Stride \in Nat
  BY <1>1
<1>4. ~(e < q) /\ ~(q < e)
  BY <1>1, <1>2, <1>3
<1> QED
  BY <1>3, <1>4

LEMMA PatchInE ==
  ASSUME NEW m, IsMemory(m), NEW q \in Nat, NEW r \in Nat, NEW b \in Seq(Byte),
         r + Len(b) <= FieldBytes, ~Protected(m, q)
  PROVE  Keeps(m, [m EXCEPT !.e = Patched(@, q * Stride + r, b)])
<1> DEFINE o == q * Stride + r
           d == [m EXCEPT !.e = Patched(@, o, b)]
<1>0. /\ Stride \in Nat \ {0} /\ FieldBytes \in 0 .. Stride /\ Len(b) \in Nat
      /\ q * Stride \in Nat /\ o \in Nat
  BY MemoryAssumption
<1>1. m \in [s : Seq(Byte), e : Seq(Byte), h : Seq(Byte), slots : Seq(EntSlot)]
  BY DEF IsMemory
<1> HIDE DEF o
<1>2. m.e \in Seq(Byte) /\ Len(m.e) \in Nat /\ Len(m.e) = NumEdicts(m) * Stride /\ NumEdicts(m) \in Nat
  BY MemoryType
<1>3. /\ Patched(m.e, o, b) \in Seq(Byte) /\ Len(Patched(m.e, o, b)) = Len(m.e)
      /\ \A i \in 1 .. Len(m.e) :
             Patched(m.e, o, b)[i] = IF i - o \in 1 .. Len(b) THEN b[i - o] ELSE m.e[i]
  <2>1. m.e \in Seq(Byte) /\ o \in Int /\ b \in Seq(Byte)
    BY <1>0, <1>2
  <2> QED
    BY ONLY <2>1, PatchedType
<1>4. /\ d \in [s : Seq(Byte), e : Seq(Byte), h : Seq(Byte), slots : Seq(EntSlot)]
      /\ d.e = Patched(m.e, o, b) /\ d.s = m.s /\ d.h = m.h /\ d.slots = m.slots
  BY <1>1, <1>3
<1> HIDE DEF d
<1>5. IsMemory(d)
  BY <1>3, <1>4 DEF IsMemory, NumEdicts
<1>6. ASSUME NEW e \in 0 .. NumEdicts(m) - 1, NEW i \in 1 .. Stride,
             d.e[e * Stride + i] # m.e[e * Stride + i]
      PROVE  ~Protected(m, e) /\ i <= FieldBytes
  <2>1. e * Stride + i \in 1 .. Len(m.e)
    <3>1. e \in Nat /\ NumEdicts(m) - 1 - e \in Nat /\ e * Stride \in Nat
      BY <1>0, <1>2
    <3>2. NumEdicts(m) * Stride = e * Stride + Stride + (NumEdicts(m) - 1 - e) * Stride
      BY <1>0, <1>2, <3>1
    <3>3. (NumEdicts(m) - 1 - e) * Stride \in Nat
      BY <1>0, <3>1
    <3>4. \A p, k, u \in Nat : \A j \in 1 .. u : p + j \in 1 .. p + u + k
      OBVIOUS
    <3> QED
      BY <1>0, <1>2, <3>1, <3>2, <3>3, <3>4
  <2>2. (e * Stride + i) - o \in 1 .. Len(b)
    <3> DEFINE at == e * Stride + i
    <3>1. at \in 1 .. Len(m.e) /\ d.e[at] # m.e[at]
      BY <1>6, <2>1
    <3> HIDE DEF at
    <3>2. at - o \in 1 .. Len(b)
      BY <1>3, <1>4, <3>1
    <3> QED
      BY <3>2, Zenon DEF at
  <2> DEFINE j == (e * Stride + i) - o
  <2>3. r + j \in 1 .. FieldBytes /\ r + j \in 1 .. Stride
    BY <1>0, <2>2
  <2>4. e * Stride + i = q * Stride + (r + j)
    BY <1>0, <2>1 DEF o
  <2> HIDE DEF j
  <2>5. e = q /\ i = r + j
    <3>1. e \in Nat
      BY <1>2
    <3> QED
      BY <2>3, <2>4, <3>1, OneBlock
  <2> QED
    BY <2>3, <2>5
<1>7. Keeps(m, d)
  BY <1>4, <1>5, <1>6 DEF Keeps, KeptIn
<1> QED
  BY <1>7 DEF d, o
-----------------------------------------------------------------------------
(* Words of region S.                                                      *)

\* An offset at which the view and the whole region agree, not null.
InReach(o) == o \in Nat /\ o >= 1 /\ (View = "window" => o <= WindowMask)

LEMMA ReachOffset ==
  ASSUME NEW o, InReach(o), NEW view \in {View, "whole"}
  PROVE  ViewOffset(view, o) = o
<1>1. view \in Views /\ WindowMask \in Nat
  BY InterpreterAssumption, MemoryAssumption DEF Views
<1>2. CASE view = "whole"
  BY <1>2 DEF ViewOffset
<1>3. CASE view # "whole"
  <2>1. o \in Nat /\ o < WindowMask + 1
    BY <1>1, <1>3 DEF InReach, Views
  <2>2. o % (WindowMask + 1) = o
    BY <1>1, <2>1
  <2> QED
    BY <1>3, <2>2 DEF ViewOffset
<1> QED
  BY <1>2, <1>3

LEMMA OffsetType ==
  ASSUME NEW o \in Nat, NEW view
  PROVE  ViewOffset(view, o) \in Nat
<1>1. WindowMask + 1 \in Nat \ {0}
  BY MemoryAssumption
<1> QED
  BY <1>1 DEF ViewOffset

LEMMA WordAtType ==
  ASSUME NEW m, IsMemory(m), NEW o \in Nat, NEW view
  PROVE  /\ WordAt(view, m, o) \in Seq(Byte) /\ Len(WordAt(view, m, o)) = WordBytes
         /\ Num(WordAt(view, m, o)) \in Word /\ Num(WordAt(view, m, o)) \in Nat
<1> DEFINE at == ViewOffset(view, o)
<1>1. at \in Nat /\ WordBytes \in Nat
  BY OffsetType, MemoryAssumption
<1>2. m.s \in Seq(Byte)
  BY MemoryType
<1>0. WordAt(view, m, o) = IF at + WordBytes <= Len(m.s) THEN BytesAt(m.s, at, WordBytes)
                                                        ELSE Zeros(WordBytes)
  BY DEF WordAt
<1> HIDE DEF at
<1>5. WordAt(view, m, o) \in Seq(Byte) /\ Len(WordAt(view, m, o)) = WordBytes
  <2>1. CASE at + WordBytes <= Len(m.s)
    BY <1>0, <1>1, <1>2, <2>1, BytesAtType
  <2>2. CASE ~(at + WordBytes <= Len(m.s))
    BY <1>0, <1>1, <2>2, ZerosType
  <2> QED
    BY <2>1, <2>2
<1>6. Num(WordAt(view, m, o)) \in 0 .. Vals(WordBytes) - 1
  BY <1>5, NumType
<1> QED
  BY <1>5, <1>6, Sizes DEF Word, WordVals

LEMMA PutWordKeeps ==
  ASSUME NEW m, IsMemory(m), NEW view \in {View, "whole"}, NEW o, InReach(o), NEW w \in Seq(Byte)
  PROVE  Keeps(m, PutWord(view, m, o, w)) /\ PutWord(view, m, o, w) = PutWord("whole", m, o, w)
<1>1. ViewOffset(view, o) = o /\ ViewOffset("whole", o) = o
  BY ReachOffset
<1>2. o \in Nat /\ o >= 1
  BY DEF InReach
<1>3. Keeps(m, [m EXCEPT !.s = Patched(@, o, w)]) /\ Keeps(m, m)
  BY <1>2, PatchInS, KeepsSelf
<1> QED
  BY <1>1, <1>3 DEF PutWord

LEMMA PutKeeps ==
  ASSUME NEW m, IsMemory(m), NEW o, InReach(o), NEW v \in Int
  PROVE  Keeps(m, Put(m, o, v)) /\ Keeps(m, Set(m, o, v)) /\ Put(m, o, v) = Set(m, o, v)
<1>1. BytesOf(v, WordBytes) \in Seq(Byte)
  BY BytesOfType, MemoryAssumption
<1>2. View \in {View, "whole"} /\ "whole" \in {View, "whole"}
  OBVIOUS
<1> QED
  BY <1>1, <1>2, PutWordKeeps DEF Put, Set

\* The words of n in reach from o.
Reaches(o, n) == \A k \in 1 .. n : InReach(Nth(o, k))

LEMMA OperandReach ==
  ASSUME NEW o \in Nat, IsOperand(o)
  PROVE  /\ Reaches(o, 3) /\ InReach(o) /\ InReach(o + WordBytes) /\ InReach(o + 2 * WordBytes)
         /\ Nth(o, 1) = o /\ Nth(o, 2) = o + WordBytes /\ Nth(o, 3) = o + 2 * WordBytes
<1>1. WordBytes \in Nat /\ WindowMask \in Nat /\ GBase \in Nat \ {0} /\ NumGlobals \in Nat
  BY MemoryAssumption, InterpreterAssumption
<1>2. Nth(o, 1) = o /\ Nth(o, 2) = o + WordBytes /\ Nth(o, 3) = o + 2 * WordBytes
  BY <1>1 DEF Nth
<1>3. (NumGlobals + 5) * WordBytes = (NumGlobals + 3) * WordBytes + 2 * WordBytes
  BY <1>1
<1>4. (NumGlobals + 3) * WordBytes \in Nat
  BY <1>1
<1>5. /\ o >= 1
      /\ View = "window" => o + 2 * WordBytes <= WindowMask
  <2>1. o >= GBase /\ o < GBase + (NumGlobals + 3) * WordBytes
    BY DEF IsOperand
  <2> DEFINE w == (NumGlobals + 3) * WordBytes
  <2>2. w \in Nat /\ o < GBase + w
    BY <1>4, <2>1
  <2>3. View = "window" => GBase + (w + 2 * WordBytes) <= WindowMask
    BY <1>3, InterpreterAssumption DEF WindowFits
  <2> HIDE DEF w
  <2> QED
    BY <1>1, <2>1, <2>2, <2>3
<1>6. InReach(o) /\ InReach(o + WordBytes) /\ InReach(o + 2 * WordBytes)
  BY <1>1, <1>5 DEF InReach
<1>7. \A k \in 1 .. 3 : k = 1 \/ k = 2 \/ k = 3
  OBVIOUS
<1>8. Reaches(o, 3)
  BY <1>2, <1>6, <1>7 DEF Reaches
<1> QED
  BY <1>2, <1>6, <1>8

LEMMA CopyKeeps ==
  ASSUME NEW m, IsMemory(m), NEW view \in {View, "whole"}, NEW n \in 1 .. 3, NEW src \in Nat,
         NEW dst, Reaches(dst, n)
  PROVE  Keeps(m, CopyWords(view, m, src, dst, n))
<1> DEFINE one(d, k) == PutWord(view, d, Nth(dst, k), WordAt(view, d, Nth(src, k)))
<1>1. ASSUME NEW d, Keeps(m, d), NEW k \in 1 .. n
      PROVE  Keeps(m, one(d, k))
  <2>1. Nth(src, k) \in Nat
    BY MemoryAssumption DEF Nth
  <2>2. IsMemory(d)
    BY <1>1 DEF Keeps
  <2>3. WordAt(view, d, Nth(src, k)) \in Seq(Byte)
    BY <2>1, <2>2, WordAtType
  <2>4. InReach(Nth(dst, k))
    BY DEF Reaches
  <2>5. Keeps(d, one(d, k))
    BY <2>2, <2>3, <2>4, PutWordKeeps
  <2> HIDE DEF one
  <2> QED
    BY <1>1, <2>5, KeepsTwice
<1>2. CopyWords(view, m, src, dst, n) =
        CASE n = 1 -> one(m, 1) [] n = 2 -> one(one(m, 1), 2) [] n = 3 -> one(one(one(m, 1), 2), 3)
  BY DEF CopyWords, InTurn
<1> HIDE DEF one
<1>3. Keeps(m, m)
  BY KeepsSelf
<1>4. Keeps(m, one(m, 1))
  BY <1>1, <1>3
<1>5. n >= 2 => Keeps(m, one(one(m, 1), 2))
  BY <1>1, <1>4
<1>6. n >= 3 => Keeps(m, one(one(one(m, 1), 2), 3))
  BY <1>1, <1>5
<1>7. n = 1 \/ n = 2 \/ n = 3
  OBVIOUS
<1> QED
  BY <1>2, <1>4, <1>5, <1>6, <1>7
LEMMA PutWordsKeeps ==
  ASSUME NEW m, IsMemory(m), NEW view \in {View, "whole"}, NEW n \in 1 .. 3, NEW o, Reaches(o, n),
         NEW bytes \in Seq(Byte), n * WordBytes <= Len(bytes)
  PROVE  Keeps(m, PutWords(view, m, o, bytes, n))
<1> DEFINE one(d, k) == PutWord(view, d, Nth(o, k), BytesAt(bytes, Nth(0, k), WordBytes))
<1>1. ASSUME NEW d, Keeps(m, d), NEW k \in 1 .. n
      PROVE  Keeps(m, one(d, k))
  <2>1. Nth(0, k) \in Nat /\ Nth(0, k) + WordBytes <= Len(bytes) /\ WordBytes \in Nat
    <3>1. WordBytes \in Nat /\ Len(bytes) \in Nat /\ k \in Nat /\ k <= n /\ n \in Nat /\ k >= 1
      BY MemoryAssumption
    <3>2. \A p, i, j \in Nat : i >= 1 /\ i <= j => (i - 1) * p + p <= j * p /\ (i - 1) * p \in Nat
      <4> TAKE p, i, j \in Nat
      <4>1. ASSUME i >= 1, i <= j PROVE (i - 1) * p + p <= j * p /\ (i - 1) * p \in Nat
        <5>1. (i - 1) * p + p = i * p /\ j * p = i * p + (j - i) * p
          OBVIOUS
        <5>2. (j - i) * p \in Nat /\ (i - 1) * p \in Nat
          BY <4>1
        <5> QED
          BY <5>1, <5>2
      <4> QED
        BY <4>1
    <3> QED
      BY <3>1, <3>2 DEF Nth
  <2>2. IsMemory(d)
    BY <1>1 DEF Keeps
  <2>3. BytesAt(bytes, Nth(0, k), WordBytes) \in Seq(Byte)
    BY <2>1, BytesAtType
  <2>4. InReach(Nth(o, k))
    BY DEF Reaches
  <2>5. Keeps(d, one(d, k))
    BY <2>2, <2>3, <2>4, PutWordKeeps
  <2> HIDE DEF one
  <2> QED
    BY <1>1, <2>5, KeepsTwice
<1>2. PutWords(view, m, o, bytes, n) =
        CASE n = 1 -> one(m, 1) [] n = 2 -> one(one(m, 1), 2) [] n = 3 -> one(one(one(m, 1), 2), 3)
  BY DEF PutWords, InTurn
<1> HIDE DEF one
<1>3. Keeps(m, m)
  BY KeepsSelf
<1>4. Keeps(m, one(m, 1))
  BY <1>1, <1>3
<1>5. n >= 2 => Keeps(m, one(one(m, 1), 2))
  BY <1>1, <1>4
<1>6. n >= 3 => Keeps(m, one(one(one(m, 1), 2), 3))
  BY <1>1, <1>5
<1>7. n = 1 \/ n = 2 \/ n = 3
  OBVIOUS
<1> QED
  BY <1>2, <1>4, <1>5, <1>6, <1>7

-----------------------------------------------------------------------------
(* Reads and writes through pointers and fields.                           *)

LEMMA PlaceInE ==
  ASSUME NEW p \in Nat, p >= EBase
  PROVE  /\ EntOf(p) \in Nat /\ Within(p) \in 0 .. Stride - 1
         /\ p - EBase = EntOf(p) * Stride + Within(p)
<1> DEFINE d == p - EBase
<1>1. d \in Nat /\ Stride \in Nat \ {0}
  BY MemoryAssumption
<1> HIDE DEF d
<1>2. ASSUME NEW k \in Nat \ {0}
      PROVE  d \div k \in Nat /\ d % k \in 0 .. k - 1 /\ d % k = d - k * (d \div k)
  <2>1. d % k = d - k * (d \div k)
    BY <1>1
  <2> QED
    BY <1>1, <2>1
<1>3. \A k \in Nat, j \in Nat : k * j = j * k /\ k * j \in Nat
  OBVIOUS
<1>4. d \div Stride \in Nat /\ d % Stride \in 0 .. Stride - 1
      /\ d = (d \div Stride) * Stride + (d % Stride)
  <2> DEFINE q == d \div Stride
             r == d % Stride
  <2>1. q \in Nat /\ r \in 0 .. Stride - 1 /\ r = d - Stride * q
    BY <1>1, <1>2
  <2> HIDE DEF q, r
  <2>2. Stride * q = q * Stride /\ Stride * q \in Nat
    BY <1>1, <1>3, <2>1
  <2>3. q \in Nat /\ r \in 0 .. Stride - 1 /\ d = q * Stride + r
    BY <1>1, <2>1, <2>2
  <2> QED
    BY <2>3, Zenon DEF q, r
<1>5. EntOf(p) = d \div Stride /\ Within(p) = d % Stride
  BY DEF d, EntOf, Within
<1>6. EntOf(p) \in Nat /\ Within(p) \in 0 .. Stride - 1 /\ d = EntOf(p) * Stride + Within(p)
  BY <1>4, <1>5, Zenon
<1> QED
  BY <1>6, Zenon DEF d

\* A field of an entity in the table lies in region E.
LEMMA FieldFits ==
  ASSUME NEW m, IsMemory(m), NEW q \in Nat, q < NumEdicts(m), NEW r \in Nat, NEW n \in Nat,
         r + n <= FieldBytes
  PROVE  q * Stride + r \in Nat /\ q * Stride + r + n <= Len(m.e)
<1>1. Stride \in Nat /\ FieldBytes <= Stride /\ FieldBytes \in Nat
  BY MemoryAssumption
<1>2. Len(m.e) = NumEdicts(m) * Stride /\ NumEdicts(m) \in Nat
  BY MemoryType
<1>3. \A i, j, k \in Nat : i < j => i * k \in Nat /\ i * k + k <= j * k
  <2> TAKE i, j, k \in Nat
  <2>1. ASSUME i < j PROVE i * k \in Nat /\ i * k + k <= j * k
    <3>1. j - i - 1 \in Nat /\ j * k = i * k + k + (j - i - 1) * k
      BY <2>1
    <3>2. (j - i - 1) * k \in Nat /\ i * k \in Nat
      BY <3>1
    <3> QED
      BY <3>1, <3>2
  <2> QED
    BY <2>1
<1>4. q * Stride \in Nat /\ q * Stride + Stride <= Len(m.e)
  BY <1>1, <1>2, <1>3
<1> QED
  BY <1>1, <1>4

LEMMA LocateIs ==
  ASSUME NEW m, NEW p, NEW n
  PROVE  \/ InS(m, p, n) /\ Locate(m, p, n) = [region |-> "s", off |-> p, ent |-> 0]
         \/ /\ ~InS(m, p, n) /\ InE(m, p, n)
            /\ Locate(m, p, n) = [region |-> "e", off |-> p - EBase, ent |-> EntOf(p)]
         \/ /\ ~InS(m, p, n) /\ ~InE(m, p, n) /\ InH(m, p, n)
            /\ Locate(m, p, n) = [region |-> "h", off |-> p - HBase, ent |-> 0]
         \/ ~InS(m, p, n) /\ ~InE(m, p, n) /\ ~InH(m, p, n) /\ Locate(m, p, n) = Nowhere
BY DEF Locate

LEMMA NowhereElse ==
  \A o, e : /\ [region |-> "s", off |-> o, ent |-> e] # Nowhere
            /\ [region |-> "e", off |-> o, ent |-> e] # Nowhere
            /\ [region |-> "h", off |-> o, ent |-> e] # Nowhere
BY DEF Nowhere

LEMMA ReadType ==
  ASSUME NEW m, IsMemory(m), NEW p \in Nat, NEW n \in Nat, Readable(m, p, n)
  PROVE  Read(m, p, n) \in Seq(Byte) /\ Len(Read(m, p, n)) = n
<1>0. /\ m.s \in Seq(Byte) /\ m.e \in Seq(Byte) /\ m.h \in Seq(Byte) /\ NumEdicts(m) \in Nat
      /\ HBase \in Nat /\ EBase \in Nat
  BY MemoryType, MemoryAssumption
<1>1. CASE InS(m, p, n) /\ Locate(m, p, n) = [region |-> "s", off |-> p, ent |-> 0]
  <2>1. Read(m, p, n) = BytesAt(m.s, p, n)
    BY <1>1 DEF Read
  <2> QED
    BY <1>0, <1>1, <2>1, BytesAtType DEF InS
<1>2. CASE InE(m, p, n) /\ Locate(m, p, n) = [region |-> "e", off |-> p - EBase, ent |-> EntOf(p)]
  <2>1. Read(m, p, n) = BytesAt(m.e, p - EBase, n)
    BY <1>2 DEF Read
  <2>2. p >= EBase /\ EntOf(p) < NumEdicts(m) /\ Within(p) + n <= FieldBytes
    BY <1>2 DEF InE
  <2>3. EntOf(p) \in Nat /\ Within(p) \in Nat /\ p - EBase = EntOf(p) * Stride + Within(p)
    BY <2>2, PlaceInE
  <2>4. p - EBase \in Nat /\ p - EBase + n <= Len(m.e)
    BY <2>2, <2>3, FieldFits
  <2> QED
    BY <1>0, <2>1, <2>4, BytesAtType
<1>3. CASE InH(m, p, n) /\ Locate(m, p, n) = [region |-> "h", off |-> p - HBase, ent |-> 0]
  <2>1. Read(m, p, n) = BytesAt(m.h, p - HBase, n)
    BY <1>3 DEF Read
  <2>2. p - HBase \in Nat /\ p - HBase + n <= Len(m.h)
    BY <1>0, <1>3 DEF InH
  <2> QED
    BY <1>0, <2>1, <2>2, BytesAtType
<1> QED
  BY <1>1, <1>2, <1>3, LocateIs DEF Readable

LEMMA WrittenKeeps ==
  ASSUME NEW m, IsMemory(m), NEW p \in Nat, NEW b \in Seq(Byte), CheckWrite(m, p, Len(b)) = "ok"
  PROVE  Keeps(m, Written(m, p, b))
<1>0. HBase \in Nat /\ EBase \in Nat /\ NumEdicts(m) \in Nat /\ Len(b) \in Nat
  BY MemoryAssumption, MemoryType
<1>1. p # 0 /\ Locate(m, p, Len(b)) # Nowhere
  BY DEF CheckWrite
<1>2. CASE Locate(m, p, Len(b)) = [region |-> "s", off |-> p, ent |-> 0]
  <2>1. Written(m, p, b) = [m EXCEPT !.s = Patched(@, p, b)]
    BY <1>2 DEF Written
  <2> QED
    BY <1>1, <2>1, PatchInS
<1>3. CASE /\ InE(m, p, Len(b))
           /\ Locate(m, p, Len(b)) = [region |-> "e", off |-> p - EBase, ent |-> EntOf(p)]
  <2>1. Written(m, p, b) = [m EXCEPT !.e = Patched(@, p - EBase, b)]
    BY <1>3 DEF Written
  <2>2. p >= EBase /\ Within(p) + Len(b) <= FieldBytes
    BY <1>3 DEF InE
  <2>3. EntOf(p) \in Nat /\ Within(p) \in Nat /\ p - EBase = EntOf(p) * Stride + Within(p)
    BY <2>2, PlaceInE
  <2>4. ~Protected(m, EntOf(p))
    BY <1>3 DEF CheckWrite
  <2>5. Keeps(m, [m EXCEPT !.e = Patched(@, EntOf(p) * Stride + Within(p), b)])
    BY <2>2, <2>3, <2>4, PatchInE
  <2> QED
    BY <2>1, <2>3, <2>5
<1>4. CASE InH(m, p, Len(b)) /\ Locate(m, p, Len(b)) = [region |-> "h", off |-> p - HBase, ent |-> 0]
  <2>1. Written(m, p, b) = [m EXCEPT !.h = Patched(@, p - HBase, b)]
    BY <1>4 DEF Written
  <2>2. p - HBase \in Nat
    BY <1>0, <1>4 DEF InH
  <2> QED
    BY <2>1, <2>2, PatchInH
<1> QED
  BY <1>1, <1>2, <1>3, <1>4, LocateIs

LEMMA FieldType ==
  ASSUME NEW m, IsMemory(m), NEW e \in Nat, NEW f \in Nat, NEW n \in Nat, HasField(m, e, f, n)
  PROVE  /\ Field(m, e, f, n) \in Seq(Byte) /\ Len(Field(m, e, f, n)) = n * WordBytes
         /\ f * WordBytes \in Nat /\ n * WordBytes \in Nat
         /\ f * WordBytes + n * WordBytes <= FieldBytes
<1>1. WordBytes \in Nat /\ FieldBytes \in Nat
  BY MemoryAssumption
<1>2. f * WordBytes \in Nat /\ n * WordBytes \in Nat
  BY <1>1
<1>3. (f + n) * WordBytes = f * WordBytes + n * WordBytes
  BY <1>1
<1>4. e < NumEdicts(m) /\ f * WordBytes + n * WordBytes <= FieldBytes
  BY <1>3 DEF HasField
<1>5. /\ e * Stride + f * WordBytes \in Nat
      /\ e * Stride + f * WordBytes + n * WordBytes <= Len(m.e)
  BY <1>2, <1>4, FieldFits
<1>6. m.e \in Seq(Byte)
  BY MemoryType
<1> QED
  BY <1>2, <1>4, <1>5, <1>6, BytesAtType DEF Field, FieldOffset

LEMMA WithFieldKeeps ==
  ASSUME NEW m, IsMemory(m), NEW e \in Nat, NEW f \in Nat, NEW n \in Nat, HasField(m, e, f, n),
         ~Protected(m, e), NEW b \in Seq(Byte), Len(b) = n * WordBytes
  PROVE  Keeps(m, WithField(m, e, f, b))
<1>1. f * WordBytes \in Nat /\ f * WordBytes + Len(b) <= FieldBytes
  BY FieldType
<1> QED
  BY <1>1, PatchInE DEF WithField, FieldOffset

\* The window lies in region S.
WindowIn(m) == View = "window" => Window <= Len(m.s)

LEMMA InViewIsInS ==
  ASSUME NEW m, IsMemory(m), WindowIn(m), NEW p \in Nat, NEW n \in Nat, InView(View, m, p, n)
  PROVE  InS(m, p, n)
<1>1. Len(m.s) \in Nat /\ Window \in Nat /\ View \in {"whole", "window"}
  BY MemoryType, MemoryAssumption, InterpreterAssumption DEF Views
<1> QED
  BY <1>1 DEF WindowIn, InView, ViewLen, InS

\* The entity fields the views find are those that are not in region S.
LEMMA EntTargetIsInE ==
  ASSUME NEW m, IsMemory(m), NEW p \in Nat, NEW n \in Nat \ {0}, EntTarget(m, p, n)
  PROVE  InE(m, p, n) /\ ~InS(m, p, n)
<1>1. Len(m.s) \in Nat /\ Len(m.s) <= EBase /\ EBase \in Nat
  BY MemoryType, MemoryAssumption
<1> QED
  BY <1>1 DEF EntTarget, InE, InS

\* What the fast paths read and write is what the checks would have.
LEMMA ViewReadIsRead ==
  ASSUME NEW m, IsMemory(m), WindowIn(m), NEW p \in Nat, NEW n \in Nat \ {0},
         ViewReads(View, m, p, n)
  PROVE  Readable(m, p, n) /\ ViewRead(View, m, p, n) = Read(m, p, n)
<1>1. CASE InView(View, m, p, n)
  <2>1. InS(m, p, n)
    BY <1>1, InViewIsInS
  <2> QED
    BY <1>1, <2>1, NowhereElse DEF ViewRead, Read, Readable, Locate
<1>2. CASE ~InView(View, m, p, n)
  <2>1. InE(m, p, n) /\ ~InS(m, p, n)
    BY <1>2, EntTargetIsInE DEF ViewReads
  <2> QED
    BY <1>2, <2>1, NowhereElse DEF ViewRead, Read, Readable, Locate
<1> QED
  BY <1>1, <1>2

LEMMA ViewWriteIsWritten ==
  ASSUME NEW m, IsMemory(m), m.s # <<>>, WindowIn(m), NEW p \in Nat, NEW b \in Seq(Byte),
         Len(b) # 0, ViewWrites(View, m, p, Len(b))
  PROVE  CheckWrite(m, p, Len(b)) = "ok" /\ ViewWritten(View, m, p, b) = Written(m, p, b)
<1>0. Len(b) \in Nat \ {0} /\ EBase \in Nat /\ Len(m.s) <= EBase /\ Len(m.s) \in Nat
  BY MemoryAssumption, MemoryType
<1>1. CASE InView(View, m, p, Len(b))
  <2>1. InS(m, p, Len(b)) /\ p # 0
    BY <1>0, <1>1, InViewIsInS DEF ViewWrites
  <2> QED
    BY <1>1, <2>1, NowhereElse DEF ViewWritten, Written, CheckWrite, Locate
<1>2. CASE ~InView(View, m, p, Len(b))
  <2>1. EntTarget(m, p, Len(b)) /\ ~Protected(m, EntOf(p))
    BY <1>2 DEF ViewWrites
  <2>2. InE(m, p, Len(b)) /\ ~InS(m, p, Len(b))
    BY <1>0, <2>1, EntTargetIsInE
  <2>3. p # 0
    <3>1. m.s \in Seq(Byte)
      BY MemoryType
    <3>2. Len(m.s) # 0
      BY <3>1, EmptySeq
    <3>3. EBase >= 1
      BY <1>0, <3>2
    <3> QED
      BY <1>0, <2>1, <3>3 DEF EntTarget
  <2>4. Locate(m, p, Len(b)) = [region |-> "e", off |-> p - EBase, ent |-> EntOf(p)]
    BY <2>2 DEF Locate
  <2>5. CheckWrite(m, p, Len(b)) = "ok"
    BY <2>1, <2>3, <2>4, NowhereElse DEF CheckWrite
  <2> QED
    BY <1>2, <2>4, <2>5 DEF ViewWritten, Written
<1> QED
  BY <1>1, <1>2
-----------------------------------------------------------------------------
(* Arithmetic: what the opcodes compute from words are integers, and words *)
(* where they are operands again.                                          *)

LEMMA WrapType ==
  ASSUME NEW i \in Int
  PROVE  Wrap(i) \in Word
BY Sizes DEF Wrap, Word

\* The integers a float is made of lie in the range it is defined for.
LEMMA SignedType ==
  ASSUME NEW v \in 0 .. 2 * WordVals - 1
  PROVE  Signed(v) \in Int /\ FloatOf(Signed(v)) \in Word
<1>1. WordVals \in Nat /\ LongVals \in Nat /\ LongVals >= 2 * WordVals /\ WordVals >= 2
  BY Sizes
<1>2. LongMin = -(LongVals \div 2) /\ LongVals \div 2 >= WordVals
  BY <1>1 DEF LongMin
<1>3. WordVals \div 2 \in Nat /\ WordVals \div 2 <= WordVals
  BY <1>1
<1>4. Signed(v) \in Int /\ -WordVals <= Signed(v) /\ Signed(v) <= WordVals - 1
  BY <1>1, <1>3 DEF Signed
<1>5. Signed(v) \in LongMin .. LongVals - 1
  BY <1>1, <1>2, <1>4
<1> QED
  BY <1>4, <1>5, WordsAssumption

LEMMA FloatOfType ==
  ASSUME NEW v \in 0 .. LongVals - 1
  PROVE  FloatOf(v) \in Word
<1>1. LongVals \in Nat /\ LongVals \div 2 \in Nat /\ LongMin = -(LongVals \div 2)
  BY Sizes DEF LongMin
<1> QED
  BY <1>1, WordsAssumption

LEMMA BoolType ==
  ASSUME NEW b
  PROVE  IBool(b) \in Word /\ FBool(b) \in Word
<1>1. WordVals >= 2 /\ WordVals \in Nat /\ LongVals \in Nat /\ LongVals >= 4
  BY Sizes
<1>2. IBool(b) = 0 \/ IBool(b) = 1
  BY DEF IBool
<1>3. IBool(b) \in Word /\ IBool(b) \in 0 .. LongVals - 1
  BY <1>1, <1>2 DEF Word
<1> QED
  BY <1>3, FloatOfType DEF FBool

LEMMA TruncType ==
  ASSUME NEW f \in Word
  PROVE  /\ F2I(f) \in Int /\ Wrap(F2I(f)) \in Word
         /\ D2I64(f) \in Int /\ F2U(f) \in Word /\ D2U64(f) \in Int
<1>1. WordVals \in Nat \ {0} /\ LongVals \in Nat \ {0} /\ Trunc(f) \in Int
  BY Sizes, WordsAssumption
<1>2. IntMin \in Int /\ LongMin \in Int
  BY <1>1 DEF IntMin, LongMin
<1>3. F2I(f) \in Int
  BY <1>1, <1>2 DEF F2I
<1>4. D2I64(f) \in Int
  BY <1>1, <1>2 DEF D2I64
<1>5. D2I64(f) % LongVals \in Int
  BY <1>1, <1>4
<1>6. D2U64(f) \in Int
  BY <1>1, <1>5 DEF D2U64
<1> QED
  BY <1>3, <1>4, <1>6, WrapType DEF F2U

LEMMA BitsType ==
  ASSUME NEW v \in Word, NEW w \in Word
  PROVE  /\ BitAnd(v, w) \in Word /\ v - BitAnd(v, w) \in Word
         /\ BitOr(v, w) \in 0 .. 2 * WordVals - 1 /\ BitXor(v, w) \in Int
<1>1. BitAnd(v, w) \in 0 .. v /\ WordVals \in Nat
  BY WordsAssumption, Sizes
<1> QED
  BY <1>1 DEF Word, BitOr, BitXor

LEMMA ShiftType ==
  ASSUME NEW w \in Int, NEW n \in Int
  PROVE  /\ Shl(w, n) \in Word /\ ShrU(w, n) \in Int
         /\ (w \in Word => ShrI(w, n) \in Word)
<1>1. WordBits \in Nat \ {0}
  <2>1. \A p, q \in Nat \ {0} : p * q \in Nat \ {0}
    OBVIOUS
  <2> QED
    BY <2>1, MemoryAssumption DEF WordBits
<1>2. n % WordBits \in Nat
  BY <1>1
<1>3. 2 ^ (n % WordBits) \in Nat \ {0}
  BY <1>2, PowerIsSize
<1>4. \A p \in Nat \ {0} : w * p \in Int /\ w \div p \in Int
  OBVIOUS
<1>5. w * 2 ^ (n % WordBits) \in Int /\ w \div 2 ^ (n % WordBits) \in Int
  BY <1>3, <1>4
<1>6. ASSUME w \in Word PROVE ShrI(w, n) \in Word
  <2>1. w \in 0 .. 2 * WordVals - 1
    BY <1>6, Sizes DEF Word
  <2>2. Signed(w) \in Int
    BY <2>1, SignedType
  <2>3. \A p \in Nat \ {0} : Signed(w) \div p \in Int
    BY <2>2
  <2>4. Signed(w) \div 2 ^ (n % WordBits) \in Int
    BY <1>3, <2>3
  <2> QED
    BY <2>4, WrapType DEF ShrI
<1> QED
  BY <1>5, <1>6, WrapType DEF Shl, ShrU

LEMMA QuotientType ==
  ASSUME NEW i \in Int, NEW j \in Int, j # 0
  PROVE  Quotient(i, j) \in Int
<1>1. Abs(i) \in Nat /\ Abs(j) \in Nat \ {0}
  BY DEF Abs
<1>2. \A p \in Nat, q \in Nat \ {0} : p \div q \in Int
  OBVIOUS
<1>3. Abs(i) \div Abs(j) \in Int
  BY <1>1, <1>2
<1> QED
  BY <1>3 DEF Quotient

LEMMA BitExtendType ==
  ASSUME NEW v \in Word, NEW d \in Word, NEW signed
  PROVE  BitExtend(signed, v, d) \in Int
<1>1. WordBits \in Nat \ {0}
  <2>1. \A p, q \in Nat \ {0} : p * q \in Nat \ {0}
    OBVIOUS
  <2> QED
    BY <2>1, MemoryAssumption DEF WordBits
<1>2. ByteVals \in Nat \ {0} /\ d \in Nat /\ v \in Int
  BY Sizes DEF Word
<1>3. Width(d) \in Nat /\ Position(d) \in Nat
  BY <1>2 DEF Width, Position
<1>4. (WordBits - Width(d) - Position(d)) % WordBits \in Int
  BY <1>1, <1>3
<1>5. (WordBits - Width(d)) % WordBits \in Int
  BY <1>1, <1>3
<1>6. FieldUp(v, d) \in Word
  BY <1>2, <1>4, ShiftType DEF FieldUp
<1>7. FieldUp(v, d) \in Int
  BY <1>6 DEF Word
<1>8. /\ ShrI(FieldUp(v, d), (WordBits - Width(d)) % WordBits) \in Word
      /\ ShrU(FieldUp(v, d), (WordBits - Width(d)) % WordBits) \in Int
  BY <1>5, <1>6, <1>7, ShiftType
<1>9. Word \subseteq Int
  BY DEF Word
<1> DEFINE down == (WordBits - Width(d)) % WordBits
<1>10. ShrI(FieldUp(v, d), down) \in Int /\ ShrU(FieldUp(v, d), down) \in Int
  BY <1>8, <1>9
<1>11. BitExtend(signed, v, d) = IF Width(d) = 0 THEN 0
                                 ELSE IF signed THEN ShrI(FieldUp(v, d), down)
                                                ELSE ShrU(FieldUp(v, d), down)
  BY DEF BitExtend
<1> HIDE DEF down
<1> QED
  BY <1>10, <1>11

LEMMA BitCopyType ==
  ASSUME NEW v \in Word, NEW d \in Word, NEW c \in Word
  PROVE  BitCopy(v, d, c) \in Int
<1>1. WordBits \in Nat /\ WordVals = 2 ^ WordBits /\ WordVals \in Nat
  <2>1. \A p, q \in Nat : p * q \in Nat
    OBVIOUS
  <2>2. WordBits \in Nat
    BY <2>1, MemoryAssumption DEF WordBits
  <2> QED
    BY <2>2, Sizes DEF WordVals, Vals, WordBits
<1>2. ByteVals \in Nat \ {0} /\ d \in Nat
  BY Sizes DEF Word
<1>3. Width(d) \in Nat /\ Position(d) \in Nat
  BY <1>2 DEF Width, Position
<1>4. 2 ^ Width(d) \in Nat \ {0}
  BY <1>3, PowerIsSize
<1>5. FieldMask(d) \in Word
  <2>1. CASE Width(d) >= WordBits
    BY <1>1, <2>1, Sizes DEF FieldMask, Word
  <2>2. CASE ~(Width(d) >= WordBits)
    <3>1. Width(d) <= WordBits
      BY <1>1, <1>3, <2>2
    <3>2. 2 ^ Width(d) <= WordVals
      BY <1>1, <1>3, <3>1, PowerGrows
    <3> QED
      BY <1>1, <1>4, <2>2, <3>2 DEF FieldMask, Word
  <2> QED
    BY <2>1, <2>2
<1>6. Shl(FieldMask(d), Position(d)) \in Word
  BY <1>3, <1>5, ShiftType DEF Word
<1>7. BitAnd(v, FieldMask(d)) \in Word
  BY <1>5, BitsType
<1>8. Shl(BitAnd(v, FieldMask(d)), Position(d)) \in Word
  BY <1>3, <1>7, ShiftType DEF Word
<1>9. c - BitAnd(c, Shl(FieldMask(d), Position(d))) \in Word
  BY <1>6, BitsType
<1> QED
  BY <1>8, <1>9, BitsType DEF BitCopy

LEMMA IntResultType ==
  ASSUME NEW op \in IntOps, NEW v \in Word, NEW w \in Word
  PROVE  IntResult(op, v, w) \in Int
<1>0. /\ Word \subseteq Int /\ v \in Int /\ w \in Int /\ v \in Nat /\ w \in Nat /\ WordBytes \in Int
      /\ 0 .. 2 * WordVals - 1 \subseteq Int
  BY MemoryAssumption, Sizes DEF Word
<1>1. Signed(v) \in Int /\ Signed(w) \in Int
  BY SignedType, Sizes DEF Word
<1>2. CASE op \in {"AddI", "SubI", "AddPIW", "SubS", "MulI"}
  <2>1. v + w \in Int /\ v - w \in Int /\ v + w * WordBytes \in Int
    BY <1>0
  <2>2. Signed(v) * Signed(w) \in Int
    BY <1>1
  <2>3. /\ Wrap(v + w) \in Int /\ Wrap(v - w) \in Int /\ Wrap(v + w * WordBytes) \in Int
        /\ Wrap(Signed(v) * Signed(w)) \in Int
    BY <1>0, <2>1, <2>2, WrapType
  <2> QED
    BY <1>2, <2>3 DEF IntResult
<1>3. CASE op \in {"DivI", "DivU"}
  <2>1. DivI(Signed(v), Signed(w)) \in Int
    <3>1. IntMin \in Int
      BY Sizes DEF IntMin
    <3> QED
      BY <1>1, <3>1, QuotientType DEF DivI
  <2>2. DivU(v, w) \in Int
    BY <1>0 DEF DivU
  <2>3. Wrap(DivI(Signed(v), Signed(w))) \in Int
    BY <1>0, <2>1, WrapType
  <2> QED
    BY <1>3, <2>2, <2>3 DEF IntResult
<1>4. CASE op \in {"BitAndI", "BitOrI", "BitXorI"}
  <2>1. BitAnd(v, w) \in Int /\ BitOr(v, w) \in Int /\ BitXor(v, w) \in Int
    BY <1>0, BitsType
  <2> QED
    BY <1>4, <2>1 DEF IntResult
<1>5. CASE op \in {"RShiftI", "LShiftI", "RShiftU"}
  <2>1. ShrI(v, w) \in Int /\ Shl(v, w) \in Int /\ ShrU(v, w) \in Int
    BY <1>0, ShiftType
  <2> QED
    BY <1>5, <2>1 DEF IntResult
<1>6. CASE op \in {"AndI", "OrI", "LeU", "LtU"}
  <2>1. \A b : IBool(b) \in Int
    BY DEF IBool
  <2> QED
    BY <1>6, <2>1 DEF IntResult
<1>7. CASE op \in {"BitExtendI", "BitExtendU"}
  <2>1. BitExtend(TRUE, v, w) \in Int /\ BitExtend(FALSE, v, w) \in Int
    BY BitExtendType
  <2> QED
    BY <1>7, <2>1 DEF IntResult
<1> QED
  BY <1>2, <1>3, <1>4, <1>5, <1>6, <1>7 DEF IntOps

LEMMA MixedResultType ==
  ASSUME NEW op \in MixedOps, NEW v \in Word, NEW w \in Word
  PROVE  MixedResult(op, v, w) \in Int
<1> DEFINE i == FloatOf(Signed(v))
           j == FloatOf(Signed(w))
<1>0. /\ Word \subseteq Int /\ v \in Int /\ Word \subseteq 0 .. 2 * WordVals - 1
      /\ 0 .. 2 * WordVals - 1 \subseteq Int
  BY Sizes DEF Word
<1>1. i \in Word /\ j \in Word
  BY <1>0, SignedType
<1>2. Wrap(F2I(v)) \in Word /\ Wrap(F2I(w)) \in Word /\ F2I(w) \in Int
  BY TruncType
<1>3. CASE op \in {"AddIF", "AddFI", "SubIF", "SubFI", "MulIF", "MulFI", "DivIF", "DivFI"}
  <2>1. \A o \in {"AddF", "SubF", "MulF", "DivF"} : FloatOp(o, i, w) \in Int /\ FloatOp(o, v, j) \in Int
    BY <1>0, <1>1, WordsAssumption DEF FloatOps
  <2> QED
    BY <1>3, <2>1 DEF MixedResult, IntFloatTests, FloatIntTests
<1>4. CASE op \in {"BitAndF", "BitOrF"}
  <2>1. /\ BitAnd(Wrap(F2I(v)), Wrap(F2I(w))) \in 0 .. 2 * WordVals - 1
        /\ BitOr(Wrap(F2I(v)), Wrap(F2I(w))) \in 0 .. 2 * WordVals - 1
    BY <1>0, <1>2, BitsType
  <2>2. /\ FloatOf(Signed(BitAnd(Wrap(F2I(v)), Wrap(F2I(w))))) \in Int
        /\ FloatOf(Signed(BitOr(Wrap(F2I(v)), Wrap(F2I(w))))) \in Int
    BY <1>0, <2>1, SignedType
  <2> QED
    BY <1>4, <2>2 DEF MixedResult, IntFloatTests, FloatIntTests
<1>5. CASE op \in {"BitAndIF", "BitOrIF", "BitAndFI", "BitOrFI"}
  <2>1. /\ BitAnd(v, Wrap(F2I(w))) \in Int /\ BitOr(v, Wrap(F2I(w))) \in Int
        /\ BitAnd(Wrap(F2I(v)), w) \in Int /\ BitOr(Wrap(F2I(v)), w) \in Int
    BY <1>0, <1>2, BitsType
  <2> QED
    BY <1>5, <2>1 DEF MixedResult
<1>6. CASE op = "AddSF"
  <2>1. v + F2I(w) \in Int
    BY <1>0, <1>2
  <2>2. Wrap(v + F2I(w)) \in Int
    BY <1>0, <2>1, WrapType
  <2> QED
    BY <1>6, <2>2 DEF MixedResult
<1>7. CASE op \in {"AndF", "OrF"}
  <2>1. \A b : FBool(b) \in Int
    BY <1>0, BoolType
  <2> QED
    BY <1>7, <2>1 DEF MixedResult, IntFloatTests, FloatIntTests
<1>8. CASE op \in {"AndIF", "OrIF", "AndFI", "OrFI"}
  <2>1. \A b : IBool(b) \in Int
    BY DEF IBool
  <2> QED
    BY <1>8, <2>1 DEF MixedResult
<1>9. CASE op \in DOMAIN IntFloatTests \union DOMAIN FloatIntTests
  <2>1. \A b : IBool(b) \in Int
    BY DEF IBool
  <2>2. DOMAIN IntFloatTests = {"LeIF", "GeIF", "LtIF", "GtIF", "EqIF", "NeIF"}
    BY DEF IntFloatTests
  <2>3. DOMAIN FloatIntTests = {"LeFI", "GeFI", "LtFI", "GtFI", "EqFI", "NeFI"}
    BY DEF FloatIntTests
  <2>4. \/ MixedResult(op, v, w) = IBool(FloatTest(IntFloatTests[op], i, w))
        \/ MixedResult(op, v, w) = IBool(FloatTest(FloatIntTests[op], v, j))
    BY <1>9, <2>2, <2>3 DEF MixedResult
  <2> QED
    BY <2>1, <2>4
<1> QED
  BY <1>3, <1>4, <1>5, <1>6, <1>7, <1>8, <1>9 DEF MixedOps

LEMMA UnaryResultType ==
  ASSUME NEW op \in UnaryOps \union {"StoreIF", "StoreFI"}, NEW v \in Word
  PROVE  UnaryResult(op, v) \in Int
<1>0. Word \subseteq Int /\ v \in 0 .. 2 * WordVals - 1 /\ v \in 0 .. LongVals - 1
  BY Sizes DEF Word
<1>1. \A b : IBool(b) \in Int /\ FBool(b) \in Int
  BY <1>0, BoolType
<1>2. FloatOf(Signed(v)) \in Int /\ Wrap(F2I(v)) \in Int /\ FloatOf(v) \in Int /\ F2U(v) \in Int
  BY <1>0, SignedType, TruncType, FloatOfType
<1>3. CASE op \in {"NotF", "NotEnt", "NotFnc", "NotI"}
  BY <1>1, <1>3 DEF UnaryResult
<1>4. CASE op \in {"ConvItoF", "StoreIF", "ConvFtoI", "StoreFI", "ConvUF", "ConvFU"}
  BY <1>2, <1>4 DEF UnaryResult
<1> QED
  BY <1>3, <1>4 DEF UnaryOps

LEMMA CompareOps ==
  /\ WordOps = FloatOps \union FloatTests \union IntTests \union RawTests \union IntOps
               \union MixedOps \union UnaryOps
  /\ UnaryOps \subseteq UnaryOps \union {"StoreIF", "StoreFI"}
BY DEF WordOps

\* What a one-word opcode computes from two words is an integer.
LEMMA WordResultType ==
  ASSUME NEW op \in WordOps, NEW v \in Word, NEW w \in Word
  PROVE  WordResult(op, v, w) \in Int
<1>0. Word \subseteq Int
  BY Sizes DEF Word
<1>1. \A o \in FloatOps : FloatOp(o, v, w) \in Int
  BY <1>0, WordsAssumption
<1>2. \A b : IBool(b) \in Int /\ FBool(b) \in Int
  BY <1>0, BoolType
<1>3. \A o \in IntOps : IntResult(o, v, w) \in Int
  BY IntResultType
<1>4. \A o \in MixedOps : MixedResult(o, v, w) \in Int
  BY MixedResultType
<1>5. \A o \in UnaryOps : UnaryResult(o, v) \in Int
  BY UnaryResultType, CompareOps
<1>6. \/ op \in FloatOps /\ WordResult(op, v, w) = FloatOp(op, v, w)
      \/ op \in FloatTests /\ WordResult(op, v, w) = FBool(FloatTest(op, v, w))
      \/ op \in IntTests /\ WordResult(op, v, w) = IBool(Compare(TestOf(op), Signed(v), Signed(w)))
      \/ op \in RawTests /\ WordResult(op, v, w) = FBool(Compare(TestOf(op), v, w))
      \/ op \in IntOps /\ WordResult(op, v, w) = IntResult(op, v, w)
      \/ op \in MixedOps /\ WordResult(op, v, w) = MixedResult(op, v, w)
      \/ op \in UnaryOps /\ WordResult(op, v, w) = UnaryResult(op, v)
  BY CompareOps DEF WordResult
<1> QED
  BY <1>1, <1>2, <1>3, <1>4, <1>5, <1>6

LEMMA CompoundResultType ==
  ASSUME NEW op \in {"MulStoreF", "MulStoreVF", "MulStorePF", "MulStorePVF", "DivStoreF", "DivStorePF",
                     "AddStoreF", "AddStoreV", "AddStorePF", "AddStorePV", "SubStoreF", "SubStoreV",
                     "SubStorePF", "SubStorePV", "BitSetStoreF", "BitSetStorePF", "BitClrStoreF",
                     "BitClrStorePF"},
         NEW v \in Word, NEW w \in Word
  PROVE  CompoundResult(op, v, w) \in Int
<1>0. Word \subseteq Int /\ Word \subseteq 0 .. 2 * WordVals - 1
  BY Sizes DEF Word
<1>1. \A o \in {"AddF", "SubF", "MulF", "DivF"} : FloatOp(o, v, w) \in Int
  BY <1>0, WordsAssumption DEF FloatOps
<1>2. Wrap(F2I(v)) \in Word /\ Wrap(F2I(w)) \in Word
  BY TruncType
<1>3. /\ BitOr(Wrap(F2I(v)), Wrap(F2I(w))) \in 0 .. 2 * WordVals - 1
      /\ Wrap(F2I(v)) - BitAnd(Wrap(F2I(v)), Wrap(F2I(w))) \in 0 .. 2 * WordVals - 1
  BY <1>0, <1>2, BitsType
<1>4. /\ FloatOf(Signed(BitOr(Wrap(F2I(v)), Wrap(F2I(w))))) \in Int
      /\ FloatOf(Signed(Wrap(F2I(v)) - BitAnd(Wrap(F2I(v)), Wrap(F2I(w))))) \in Int
  BY <1>0, <1>3, SignedType
<1>5. CASE op \in {"BitSetStoreF", "BitSetStorePF", "BitClrStoreF", "BitClrStorePF"}
  BY <1>4, <1>5 DEF CompoundResult
<1>6. CASE op \notin {"BitSetStoreF", "BitSetStorePF", "BitClrStoreF", "BitClrStorePF"}
  BY <1>1, <1>6 DEF CompoundResult
<1> QED
  BY <1>5, <1>6

\* The range of a long.
Long == 0 .. LongVals - 1

LEMMA JoinType ==
  ASSUME NEW v \in Int, NEW w \in Int
  PROVE  Join(v, w) \in Int
BY Sizes DEF Join

LEMMA HalfType ==
  ASSUME NEW v \in Long
  PROVE  v % WordVals \in Word /\ v \div WordVals \in Word
<1>1. WordVals \in Nat \ {0} /\ v \in Nat /\ v <= WordVals * WordVals - 1
  BY Sizes DEF Long, LongVals
<1>2. \A k \in Nat \ {0} : v <= k * k - 1 => v % k \in 0 .. k - 1 /\ v \div k \in 0 .. k - 1
  <2> TAKE k \in Nat \ {0}
  <2>1. ASSUME v <= k * k - 1 PROVE v % k \in 0 .. k - 1 /\ v \div k \in 0 .. k - 1
    <3>1. v \div k <= k - 1
      BY <1>1, <2>1
    <3> QED
      BY <1>1, <3>1
  <2> QED
    BY <2>1
<1> QED
  BY <1>1, <1>2 DEF Word

LEMMA LongEven ==
  LongVals = 2 * (LongVals \div 2)
<1>1. ByteBits - 1 \in Nat /\ WordBytes - 1 \in Nat
  BY MemoryAssumption
<1>2. ByteVals = 2 * 2 ^ (ByteBits - 1) /\ 2 ^ (ByteBits - 1) \in Nat
  <2>1. 2 ^ ((ByteBits - 1) + 1) = 2 * 2 ^ (ByteBits - 1)
    BY <1>1, PowerDoubles
  <2>2. ByteVals = 2 ^ ((ByteBits - 1) + 1)
    BY <1>1, MemoryAssumption DEF ByteVals, Vals
  <2> QED
    BY <1>1, <2>1, <2>2, PowerIsSize
<1>3. WordVals = ByteVals * Vals(WordBytes - 1) /\ Vals(WordBytes - 1) \in Nat
  <2>1. 1 \in Nat /\ 1 + (WordBytes - 1) = WordBytes
    BY MemoryAssumption
  <2> QED
    BY <1>1, <2>1, ValsOfSum DEF WordVals, ByteVals
<1>4. \A p, q, r, k \in Nat : p = 2 * q /\ r = p * k => r = 2 * (q * k) /\ q * k \in Nat
  OBVIOUS
<1>5. PICK k \in Nat : WordVals = 2 * k
  BY <1>2, <1>3, <1>4, Sizes
<1>6. LongVals = 2 * (k * WordVals) /\ k * WordVals \in Nat
  BY <1>4, <1>5, Sizes DEF LongVals
<1>7. \A p \in Nat : (2 * p) \div 2 = p
  OBVIOUS
<1> QED
  BY <1>6, <1>7

LEMMA SignedLongType ==
  ASSUME NEW v \in Long
  PROVE  SignedLong(v) \in LongMin .. LongVals - 1 /\ SignedLong(v) \in Int
<1>1. LongVals \in Nat /\ LongMin = -(LongVals \div 2)
  BY Sizes DEF LongMin
<1>2. LongVals = 2 * (LongVals \div 2) /\ LongVals \div 2 \in Nat
  BY <1>1, LongEven
<1>3. v \in Nat /\ v <= LongVals - 1
  BY <1>1 DEF Long
<1>4. CASE v < LongVals \div 2
  BY <1>1, <1>2, <1>3, <1>4 DEF SignedLong
<1>5. CASE ~(v < LongVals \div 2)
  BY <1>1, <1>2, <1>3, <1>5 DEF SignedLong
<1> QED
  BY <1>4, <1>5

LEMMA LongResultType ==
  ASSUME NEW op \in LongOps, NEW v \in Long, NEW w \in Long
  PROVE  LongResult(op, v, w) \in Int
<1>0. LongVals \in Nat \ {0} /\ v \in Nat /\ w \in Nat /\ LongMin \in Int
  BY Sizes DEF Long, LongMin
<1>1. SignedLong(v) \in Int /\ SignedLong(w) \in Int
  BY SignedLongType
<1>2. CASE op \in {"AddI64", "SubI64", "MulI64"}
  <2>1. v + w \in Int /\ v - w \in Int /\ SignedLong(v) * SignedLong(w) \in Int
    BY <1>0, <1>1
  <2>2. \A i \in Int : i % LongVals \in Int
    BY <1>0
  <2>3. /\ (v + w) % LongVals \in Int /\ (v - w) % LongVals \in Int
        /\ (SignedLong(v) * SignedLong(w)) % LongVals \in Int
    BY <2>1, <2>2
  <2> QED
    BY <1>2, <2>3 DEF LongResult
<1>3. CASE op \in {"DivI64", "DivU64"}
  <2>1. DivI64(SignedLong(v), SignedLong(w)) \in Int
    BY <1>0, <1>1, QuotientType DEF DivI64
  <2>2. DivU(v, w) \in Int /\ DivI64(SignedLong(v), SignedLong(w)) % LongVals \in Int
    BY <1>0, <2>1 DEF DivU
  <2> QED
    BY <1>3, <2>2 DEF LongResult
<1>4. CASE op \in {"BitAndI64", "BitOrI64", "BitXorI64"}
  <2>1. /\ v % WordVals \in Word /\ v \div WordVals \in Word
        /\ w % WordVals \in Word /\ w \div WordVals \in Word
    BY HalfType
  <2>2. Word \subseteq Int /\ 0 .. 2 * WordVals - 1 \subseteq Int
    BY Sizes DEF Word
  <2>3. \A p, q \in Word : BitAnd(p, q) \in Int /\ BitOr(p, q) \in Int /\ BitXor(p, q) \in Int
    BY <2>2, BitsType
  <2>4. /\ Join(BitAnd(v % WordVals, w % WordVals), BitAnd(v \div WordVals, w \div WordVals)) \in Int
        /\ Join(BitOr(v % WordVals, w % WordVals), BitOr(v \div WordVals, w \div WordVals)) \in Int
        /\ Join(BitXor(v % WordVals, w % WordVals), BitXor(v \div WordVals, w \div WordVals)) \in Int
    BY <2>1, <2>3, JoinType
  <2>5. /\ LongResult("BitAndI64", v, w) \in Int /\ LongResult("BitOrI64", v, w) \in Int
        /\ LongResult("BitXorI64", v, w) \in Int
    BY <2>4 DEF LongResult, Halves
  <2> QED
    BY <1>4, <2>5
<1> QED
  BY <1>2, <1>3, <1>4 DEF LongOps

LEMMA LongShiftType ==
  ASSUME NEW op \in LongShifts, NEW v \in Long, NEW n \in Word
  PROVE  LongShift(op, v, n) \in Int
<1> DEFINE by == 2 ^ (n % (2 * WordBits))
<1>0. LongVals \in Nat \ {0} /\ v \in Nat /\ n \in Nat
  BY Sizes DEF Long, Word
<1>1. WordBits \in Nat \ {0} /\ LongVals = 2 ^ (2 * WordBits)
  <2>1. \A p, q \in Nat \ {0} : p * q \in Nat \ {0}
    OBVIOUS
  <2>2. WordBits \in Nat \ {0}
    BY <2>1, MemoryAssumption DEF WordBits
  <2>3. WordVals = 2 ^ WordBits
    BY DEF WordVals, Vals, WordBits
  <2>4. 2 ^ (WordBits + WordBits) = 2 ^ WordBits * 2 ^ WordBits
    BY <2>2, PowerOfSum
  <2>5. WordBits + WordBits = 2 * WordBits
    BY <2>2
  <2> QED
    BY <2>2, <2>3, <2>4, <2>5 DEF LongVals
<1>2. n % (2 * WordBits) \in Nat /\ n % (2 * WordBits) <= 2 * WordBits /\ 2 * WordBits \in Nat
  BY <1>0, <1>1
<1>3. by \in Nat \ {0} /\ by <= LongVals
  BY <1>1, <1>2, PowerIsSize, PowerGrows
<1> HIDE DEF by
<1>4. SignedLong(v) \in Int
  BY SignedLongType
<1>5. \A p \in Nat \ {0}, q \in Nat \ {0} : q <= p => p \div q \in Nat \ {0}
  OBVIOUS
<1>6. LongVals \div by \in Nat \ {0}
  BY <1>0, <1>3, <1>5
<1>7. \A p, q \in Nat \ {0} : (v % p) * q \in Int
  BY <1>0
<1>8. (v % (LongVals \div by)) * by \in Int
  BY <1>3, <1>6, <1>7
<1>9. (SignedLong(v) \div by) % LongVals \in Int /\ v \div by \in Int
  BY <1>0, <1>3, <1>4
<1>10. LongShift(op, v, n) = CASE op = "LShiftI64I" -> (v % (LongVals \div by)) * by
                               [] op = "RShiftI64I" -> (SignedLong(v) \div by) % LongVals
                               [] op = "RShiftU64I" -> v \div by
  BY DEF LongShift, by
<1> QED
  BY <1>8, <1>9, <1>10 DEF LongShifts

LEMMA ToLongType ==
  ASSUME NEW op \in ToLongs, NEW v \in Word
  PROVE  ToLong(op, v) \in Int
<1>0. LongVals \in Nat \ {0} /\ v \in Int /\ v \in 0 .. 2 * WordVals - 1
  BY Sizes DEF Word
<1>1. Signed(v) \in Int /\ D2I64(v) \in Int /\ D2U64(v) \in Int
  BY <1>0, SignedType, TruncType
<1>2. Signed(v) % LongVals \in Int /\ D2I64(v) % LongVals \in Int
  BY <1>0, <1>1
<1> QED
  BY <1>0, <1>1, <1>2 DEF ToLong, ToLongs

LEMMA FromLongType ==
  ASSUME NEW op \in FromLongs, NEW v \in Long
  PROVE  FromLong(op, v) \in Int
<1>0. Word \subseteq Int
  BY Sizes DEF Word
<1>1. v % WordVals \in Int
  BY <1>0, HalfType
<1>2. FloatOf(SignedLong(v)) \in Int
  BY <1>0, SignedLongType, WordsAssumption
<1>3. FloatOf(v) \in Int
  BY <1>0, FloatOfType DEF Long
<1> QED
  BY <1>1, <1>2, <1>3 DEF FromLong, FromLongs

-----------------------------------------------------------------------------
(* Statements: what each of them leaves of memory.                         *)

\* What holds of the memory and the temp strings before every statement.
Sound ==
  /\ IsMemory(mem) /\ mem.s # <<>> /\ WindowIn(mem)
  /\ \A t \in DOMAIN temps : temps[t] \in Seq(Byte)

\* What a statement leaves; and what a call leaves whose parameters are out of view.
Effect == Keeps(mem, mem') /\ \A t \in DOMAIN temps' : temps'[t] \in Seq(Byte)

WeakEffect == Shapes(mem, mem') /\ \A t \in DOMAIN temps' : temps'[t] \in Seq(Byte)

LEMMA EffectWeak == Effect => WeakEffect
BY DEF Effect, WeakEffect, Keeps, Shapes

LEMMA DoesEffect ==
  ASSUME Sound, NEW m, Keeps(mem, m), NEW kind, Does(m) \/ Warns(kind, m)
  PROVE  Effect
BY DEF Sound, Effect, Does, Warns

LEMMA StillEffect ==
  ASSUME Sound, UNCHANGED <<mem, temps>>
  PROVE  Effect
<1>1. Keeps(mem, mem)
  BY KeepsSelf DEF Sound
<1> QED
  BY <1>1 DEF Sound, Effect

LEMMA FaultEffect ==
  ASSUME Sound, NEW kind, Faults(kind)
  PROVE  Effect
BY StillEffect DEF Faults

LEMMA JumpEffect ==
  ASSUME Sound, NEW kind, NEW t, NEW regs, JumpsTo(kind, t, regs)
  PROVE  Effect
BY StillEffect DEF JumpsTo, Stops, Counted

LEMMA WordTypes ==
  ASSUME Sound, NEW o \in Nat
  PROVE  /\ G(o) \in Seq(Byte) /\ Len(G(o)) = WordBytes
         /\ N(o) \in Word /\ N(o) \in Nat /\ N(o) \in Int
         /\ N64(o) \in Long
<1>1. IsMemory(mem)
  BY DEF Sound
<1>2. /\ G(o) \in Seq(Byte) /\ Len(G(o)) = WordBytes /\ N(o) \in Word /\ N(o) \in Nat
  BY <1>1, WordAtType DEF G, N
<1>3. o + WordBytes \in Nat /\ WordBytes \in Nat
  BY MemoryAssumption
<1>4. G(o + WordBytes) \in Seq(Byte) /\ Len(G(o + WordBytes)) = WordBytes
  BY <1>1, <1>3, WordAtType DEF G
<1>5. /\ G(o) \o G(o + WordBytes) \in Seq(Byte)
      /\ Len(G(o) \o G(o + WordBytes)) = WordBytes + WordBytes
  <2>1. ASSUME NEW p \in Seq(Byte), NEW q \in Seq(Byte)
        PROVE  p \o q \in Seq(Byte) /\ Len(p \o q) = Len(p) + Len(q)
    BY ConcatProperties
  <2> QED
    BY <1>2, <1>4, <2>1
<1>6. N64(o) \in 0 .. Vals(WordBytes + WordBytes) - 1
  BY <1>5, NumType DEF N64
<1>7. Vals(WordBytes + WordBytes) = LongVals
  BY <1>3, ValsOfSum DEF LongVals, WordVals
<1> QED
  BY <1>2, <1>6, <1>7 DEF Long

LEMMA GlobalWordsType ==
  ASSUME Sound, NEW o \in Nat, NEW n \in 1 .. 3
  PROVE  GlobalWords(o, n) \in Seq(Byte) /\ Len(GlobalWords(o, n)) = n * WordBytes
<1> DEFINE one(b, k) == b \o G(Nth(o, k))
<1>0. WordBytes \in Nat
  BY MemoryAssumption
<1>1. ASSUME NEW k \in 1 .. 3, NEW b \in Seq(Byte), Len(b) = (k - 1) * WordBytes
      PROVE  one(b, k) \in Seq(Byte) /\ Len(one(b, k)) = k * WordBytes
  <2>1. Nth(o, k) \in Nat
    BY <1>0 DEF Nth
  <2>2. G(Nth(o, k)) \in Seq(Byte) /\ Len(G(Nth(o, k))) = WordBytes
    BY <2>1, WordTypes
  <2>3. one(b, k) \in Seq(Byte) /\ Len(one(b, k)) = Len(b) + WordBytes
    BY <2>2, ConcatProperties
  <2>4. (k - 1) * WordBytes + WordBytes = k * WordBytes
    BY <1>0
  <2> QED
    BY <1>1, <2>3, <2>4
<1>2. GlobalWords(o, n) =
        CASE n = 1 -> one(<<>>, 1) [] n = 2 -> one(one(<<>>, 1), 2)
          [] n = 3 -> one(one(one(<<>>, 1), 2), 3)
  BY DEF GlobalWords, InTurn
<1> HIDE DEF one
<1>3. <<>> \in Seq(Byte) /\ Len(<<>>) = (1 - 1) * WordBytes
  BY <1>0
<1>4. one(<<>>, 1) \in Seq(Byte) /\ Len(one(<<>>, 1)) = 1 * WordBytes
  <2>1. 1 \in 1 .. 3
    OBVIOUS
  <2> QED
    BY <1>1, <1>3, <2>1
<1>5. one(one(<<>>, 1), 2) \in Seq(Byte) /\ Len(one(one(<<>>, 1), 2)) = 2 * WordBytes
  <2>1. Len(one(<<>>, 1)) = (2 - 1) * WordBytes
    BY <1>4
  <2> QED
    BY <1>1, <1>4, <2>1
<1>6. one(one(one(<<>>, 1), 2), 3) \in Seq(Byte) /\ Len(one(one(one(<<>>, 1), 2), 3)) = 3 * WordBytes
  <2>1. Len(one(one(<<>>, 1), 2)) = (3 - 1) * WordBytes
    BY <1>5
  <2> QED
    BY <1>1, <1>5, <2>1
<1>7. n = 1 \/ n = 2 \/ n = 3
  OBVIOUS
<1> QED
  BY <1>2, <1>4, <1>5, <1>6, <1>7

\* The opcodes whose C is no operand.
NoC == {"Goto", "CaseRange"} \union JumpsToB \union WithoutC \union Unexecutables

LEMMA Operands ==
  ASSUME NEW s \in Statements
  PROVE  /\ s.a \in Nat /\ s.b \in Nat /\ s.c \in Nat /\ s.op \in STRING
         /\ s.op \notin NoC => IsOperand(s.c)
         /\ s.op \notin {"Goto", "BoundCheck"} \union JumpsToB \union Unexecutables => IsOperand(s.b)
         /\ s.op = "Goto" => IsTarget(s.a)
         /\ s.op \in JumpsToB => IsTarget(s.b)
         /\ s.op = "CaseRange" => IsTarget(s.c)
<1>1. /\ s \in [op : STRING, a : Nat, b : Nat, c : Nat]
      /\ IF s.op = "Goto" THEN IsTarget(s.a)
         ELSE s.op \notin TakesIndex \union Unexecutables => IsOperand(s.a)
      /\ IF s.op \in JumpsToB THEN IsTarget(s.b)
         ELSE s.op \notin {"Goto", "BoundCheck"} \union Unexecutables => IsOperand(s.b)
      /\ IF s.op = "CaseRange" THEN IsTarget(s.c)
         ELSE s.op \notin {"Goto"} \union JumpsToB \union WithoutC \union Unexecutables
                  => IsOperand(s.c)
  BY StatementsAssumption
<1> QED
  BY <1>1 DEF NoC

\* A result put in C, or in a global of B.
LEMMA PutsInC ==
  ASSUME Sound, NEW s \in Statements, s.op \notin NoC, NEW v \in Int
  PROVE  Keeps(mem, Put(mem, s.c, v)) /\ Keeps(mem, Set(mem, s.c, v))
<1>1. s.c \in Nat /\ IsOperand(s.c)
  BY Operands
<1>2. InReach(s.c)
  BY <1>1, OperandReach
<1> QED
  BY <1>2, PutKeeps DEF Sound

LEMMA PutsInB ==
  ASSUME Sound, NEW s \in Statements,
         s.op \notin {"Goto", "BoundCheck"} \union JumpsToB \union Unexecutables, NEW v \in Int
  PROVE  Keeps(mem, Put(mem, s.b, v))
<1>1. s.b \in Nat /\ IsOperand(s.b)
  BY Operands
<1>2. InReach(s.b)
  BY <1>1, OperandReach
<1> QED
  BY <1>2, PutKeeps DEF Sound

LEMMA PutsLong ==
  ASSUME Sound, NEW s \in Statements, s.op \notin NoC, NEW v \in Int
  PROVE  Keeps(mem, Put64(mem, s.c, v))
<1>1. s.c \in Nat /\ IsOperand(s.c)
  BY Operands
<1>2. InReach(s.c) /\ InReach(s.c + WordBytes)
  BY <1>1, OperandReach
<1>3. v % WordVals \in Int /\ v \div WordVals \in Int
  BY Sizes
<1>4. Keeps(mem, Put(mem, s.c, v % WordVals))
  BY <1>2, <1>3, PutKeeps DEF Sound
<1>5. Keeps(Put(mem, s.c, v % WordVals), Put64(mem, s.c, v))
  BY <1>2, <1>3, <1>4, PutKeeps DEF Put64, Keeps
<1> QED
  BY <1>4, <1>5, KeepsTwice

LEMMA VectorArithOps ==
  /\ DOMAIN VectorArith = {"AddV", "SubV", "MulFV", "MulVF", "DivVF", "MulIV", "MulVI"}
  /\ \A op \in DOMAIN VectorArith : VectorArith[op] \in FloatOps /\ op \notin NoC
BY DEF VectorArith, FloatOps, NoC, JumpsToB, Branches, Switches, WithoutC, Unexecutables

LEMMA ScalarType ==
  ASSUME NEW op, NEW v \in Word
  PROVE  Scalar(op, v) \in Word
<1>1. v \in 0 .. 2 * WordVals - 1
  BY Sizes DEF Word
<1>2. FloatOf(Signed(v)) \in Word
  BY <1>1, SignedType
<1> QED
  BY <1>2 DEF Scalar

LEMMA VectorResultKeeps ==
  ASSUME Sound, NEW s \in Statements, s.op \in DOMAIN VectorArith
  PROVE  Keeps(mem, VectorResult(s))
<1> DEFINE component(m, o, k) == Num(WordAt(View, m, Nth(o, k)))
           left(m, k) == IF s.op \in {"MulFV", "MulIV"} THEN Scalar(s.op, N(s.a))
                                                        ELSE component(m, s.a, k)
           right(m, k) == IF s.op \in {"MulVF", "DivVF", "MulVI"} THEN Scalar(s.op, N(s.b))
                                                                  ELSE component(m, s.b, k)
           one(m, k) == Put(m, Nth(s.c, k), FloatOp(VectorArith[s.op], left(m, k), right(m, k)))
<1>0. /\ s.a \in Nat /\ s.b \in Nat /\ s.c \in Nat /\ IsOperand(s.c) /\ Reaches(s.c, 3)
      /\ VectorArith[s.op] \in FloatOps /\ Word \subseteq Int
  BY Operands, VectorArithOps, OperandReach DEF Word
<1>1. ASSUME NEW m, Keeps(mem, m), NEW k \in 1 .. 3
      PROVE  Keeps(mem, one(m, k))
  <2>1. Nth(s.a, k) \in Nat /\ Nth(s.b, k) \in Nat /\ IsMemory(m)
    BY <1>0, <1>1, MemoryAssumption DEF Nth, Keeps
  <2>2. component(m, s.a, k) \in Word /\ component(m, s.b, k) \in Word
    BY <2>1, WordAtType
  <2>3. Scalar(s.op, N(s.a)) \in Word /\ Scalar(s.op, N(s.b)) \in Word
    BY <1>0, WordTypes, ScalarType
  <2>4. left(m, k) \in Word /\ right(m, k) \in Word
    BY <2>2, <2>3
  <2> HIDE DEF component, left, right
  <2>5. FloatOp(VectorArith[s.op], left(m, k), right(m, k)) \in Int
    BY <1>0, <2>4, WordsAssumption
  <2>6. InReach(Nth(s.c, k))
    BY <1>0 DEF Reaches
  <2>7. Keeps(m, one(m, k))
    BY <2>1, <2>5, <2>6, PutKeeps
  <2> HIDE DEF one
  <2> QED
    BY <1>1, <2>7, KeepsTwice
<1>2. VectorResult(s) = one(one(one(mem, 1), 2), 3)
  BY DEF VectorResult, InTurn
<1> HIDE DEF component, left, right, one
<1>3. Keeps(mem, mem)
  BY KeepsSelf DEF Sound
<1>4. 1 \in 1 .. 3 /\ 2 \in 1 .. 3 /\ 3 \in 1 .. 3
  OBVIOUS
<1>5. Keeps(mem, one(one(one(mem, 1), 2), 3))
  BY <1>1, <1>3, <1>4
<1> QED
  BY <1>2, <1>5

LEMMA DotType ==
  ASSUME Sound, NEW p \in Nat, NEW q \in Nat
  PROVE  Dot(p, q) \in Int
<1>1. \A o \in Nat, k \in 0 .. 2 : o + k * WordBytes \in Nat
  BY MemoryAssumption
<1>2. \A o \in Nat, k \in 0 .. 2 : Component(o, k) \in Word
  BY <1>1, WordTypes DEF Component
<1>3. "MulF" \in FloatOps /\ "AddF" \in FloatOps /\ Word \subseteq Int
  BY DEF FloatOps, Word
<1>4. \A k \in 0 .. 2 : FloatOp("MulF", Component(p, k), Component(q, k)) \in Word
  BY <1>2, <1>3, WordsAssumption
<1>5. 0 \in 0 .. 2 /\ 1 \in 0 .. 2 /\ 2 \in 0 .. 2
  OBVIOUS
<1>6. \A v \in Word, w \in Word : FloatOp("AddF", v, w) \in Word
  BY <1>3, WordsAssumption
<1> QED
  BY <1>3, <1>4, <1>5, <1>6 DEF Dot

LEMMA WordOpsInC ==
  /\ WordOps \intersect NoC = {} /\ "BitCopyI" \notin NoC
  /\ (LongOps \union LongShifts \union LongTests \union ToLongs \union FromLongs) \intersect NoC = {}
  /\ {"MulV", "EqV", "NeV", "NotV", "Rand", "RandV", "EqS", "NeS", "NotS"} \intersect NoC = {}
<1>1. (FloatOps \union FloatTests \union IntTests \union RawTests) \intersect NoC = {}
  BY DEF FloatOps, FloatTests, IntTests, RawTests, NoC, JumpsToB, Branches, Switches, WithoutC,
     Unexecutables
<1>2. IntOps \intersect NoC = {}
  BY DEF IntOps, NoC, JumpsToB, Branches, Switches, WithoutC, Unexecutables
<1>3. MixedOps \intersect NoC = {}
  <2>1. DOMAIN IntFloatTests = {"LeIF", "GeIF", "LtIF", "GtIF", "EqIF", "NeIF"}
    BY DEF IntFloatTests
  <2>2. DOMAIN FloatIntTests = {"LeFI", "GeFI", "LtFI", "GtFI", "EqFI", "NeFI"}
    BY DEF FloatIntTests
  <2> QED
    BY <2>1, <2>2 DEF MixedOps, NoC, JumpsToB, Branches, Switches, WithoutC, Unexecutables
<1>4. UnaryOps \intersect NoC = {}
  BY DEF UnaryOps, NoC, JumpsToB, Branches, Switches, WithoutC, Unexecutables
<1>5. WordOps \intersect NoC = {}
  BY <1>1, <1>2, <1>3, <1>4 DEF WordOps
<1>6. (LongOps \union LongShifts \union LongTests \union ToLongs \union FromLongs) \intersect NoC = {}
  BY DEF LongOps, LongShifts, LongTests, ToLongs, FromLongs, NoC, JumpsToB, Branches, Switches,
     WithoutC, Unexecutables
<1>7. /\ "BitCopyI" \notin NoC
      /\ {"MulV", "EqV", "NeV", "NotV", "Rand", "RandV", "EqS", "NeS", "NotS"} \intersect NoC = {}
  BY DEF NoC, JumpsToB, Branches, Switches, WithoutC, Unexecutables
<1> QED
  BY <1>5, <1>6, <1>7

LEMMA ArithmeticEffect ==
  ASSUME Sound, NEW s \in Statements,
         \/ WordStatement(s) \/ BitCopyStatement(s) \/ LongStatement(s)
  PROVE  Effect
<1>0. s.a \in Nat /\ s.b \in Nat /\ s.c \in Nat /\ s.b + WordBytes \in Nat
  BY Operands, MemoryAssumption
<1>1. /\ N(s.a) \in Word /\ N(s.b) \in Word /\ N(s.c) \in Word
      /\ N64(s.a) \in Long /\ N64(s.b) \in Long
  BY <1>0, WordTypes
<1>2. CASE WordStatement(s)
  <2>1. s.op \in WordOps /\ s.op \notin NoC
    BY <1>2, WordOpsInC DEF WordStatement
  <2>2. WordResult(s.op, N(s.a), N(s.b)) \in Int
    BY <1>1, <2>1, WordResultType
  <2>3. Keeps(mem, Put(mem, s.c, WordResult(s.op, N(s.a), N(s.b))))
    BY <2>1, <2>2, PutsInC
  <2> QED
    BY <1>2, <2>3, DoesEffect DEF WordStatement
<1>3. CASE BitCopyStatement(s)
  <2>1. s.op \notin NoC
    BY <1>3, WordOpsInC DEF BitCopyStatement
  <2>2. BitCopy(N(s.a), N(s.b), N(s.c)) \in Int
    BY <1>1, BitCopyType
  <2>3. Keeps(mem, Put(mem, s.c, BitCopy(N(s.a), N(s.b), N(s.c))))
    BY <2>1, <2>2, PutsInC
  <2> QED
    BY <1>3, <2>3, DoesEffect DEF BitCopyStatement
<1>4. CASE LongStatement(s)
  <2>1. s.op \notin NoC
    BY <1>4, WordOpsInC DEF LongStatement
  <2>2. CASE s.op \in LongOps /\ Does(Put64(mem, s.c, LongResult(s.op, N64(s.a), N64(s.b))))
    BY <1>1, <2>1, <2>2, LongResultType, PutsLong, DoesEffect
  <2>3. CASE s.op \in LongShifts /\ Does(Put64(mem, s.c, LongShift(s.op, N64(s.a), N(s.b))))
    BY <1>1, <2>1, <2>3, LongShiftType, PutsLong, DoesEffect
  <2>4. CASE s.op \in LongTests /\ Does(Put(mem, s.c, LongTest(s.op, N64(s.a), N64(s.b))))
    <3>1. LongTest(s.op, N64(s.a), N64(s.b)) \in Int
      BY DEF LongTest, IBool
    <3> QED
      BY <2>1, <2>4, <3>1, PutsInC, DoesEffect
  <2>5. CASE s.op \in ToLongs /\ Does(Put64(mem, s.c, ToLong(s.op, N(s.a))))
    BY <1>1, <2>1, <2>5, ToLongType, PutsLong, DoesEffect
  <2>6. CASE s.op \in FromLongs /\ Does(Put(mem, s.c, FromLong(s.op, N64(s.a))))
    BY <1>1, <2>1, <2>6, FromLongType, PutsInC, DoesEffect
  <2> QED
    BY <1>4, <2>2, <2>3, <2>4, <2>5, <2>6 DEF LongStatement
<1> QED
  BY <1>2, <1>3, <1>4

LEMMA VectorEffect ==
  ASSUME Sound, NEW s \in Statements, VectorStatement(s)
  PROVE  Effect
<1>0. s.a \in Nat /\ s.b \in Nat /\ s.c \in Nat /\ \A b : FBool(b) \in Int
  BY Operands, BoolType DEF Word
<1>1. CASE s.op \in DOMAIN VectorArith /\ Does(VectorResult(s))
  BY <1>1, VectorResultKeeps, DoesEffect
<1>2. CASE s.op = "MulV" /\ Does(Put(mem, s.c, Dot(s.a, s.b)))
  BY <1>0, <1>2, WordOpsInC, DotType, PutsInC, DoesEffect
<1>3. CASE s.op = "EqV" /\ Does(Put(mem, s.c, FBool(SameVector(s.a, s.b))))
  BY <1>0, <1>3, WordOpsInC, PutsInC, DoesEffect
<1>4. CASE s.op = "NeV" /\ Does(Put(mem, s.c, FBool(~SameVector(s.a, s.b))))
  BY <1>0, <1>4, WordOpsInC, PutsInC, DoesEffect
<1>5. CASE s.op = "NotV" /\ Does(Put(mem, s.c, FBool(ZeroVector(s.a))))
  BY <1>0, <1>5, WordOpsInC, PutsInC, DoesEffect
<1> QED
  BY <1>1, <1>2, <1>3, <1>4, <1>5 DEF VectorStatement

LEMMA RandomEffect ==
  ASSUME Sound, NEW s \in Statements, RandomStatement(s)
  PROVE  Effect
<1>0. s.op \notin NoC /\ s.c \in Nat
  BY Operands, WordOpsInC DEF RandomStatement
<1>1. RandomWords \subseteq Int
  BY InterpreterAssumption DEF Word
<1>2. CASE s.op = "Rand"
  BY <1>0, <1>1, <1>2, PutsInC, DoesEffect DEF RandomStatement
<1>3. ASSUME NEW r \in RandomWords, NEW q \in RandomWords,
             Does(Set(Set(Set(mem, s.c, r), s.c + WordBytes, q), s.c + 2 * WordBytes, r))
      PROVE  Effect
  <2>1. InReach(s.c) /\ InReach(s.c + WordBytes) /\ InReach(s.c + 2 * WordBytes)
    BY <1>0, Operands, OperandReach
  <2> DEFINE m1 == Set(mem, s.c, r)
             m2 == Set(m1, s.c + WordBytes, q)
             m3 == Set(m2, s.c + 2 * WordBytes, r)
  <2>2. Keeps(mem, m1)
    BY <1>1, <2>1, PutKeeps DEF Sound
  <2> HIDE DEF m1
  <2>3. Keeps(m1, m2)
    BY <1>1, <2>1, <2>2, PutKeeps DEF Keeps
  <2> HIDE DEF m2
  <2>4. Keeps(m2, m3)
    BY <1>1, <2>1, <2>3, PutKeeps DEF Keeps
  <2> HIDE DEF m3
  <2>5. Keeps(mem, m3)
    BY <2>2, <2>3, <2>4, KeepsTwice
  <2>6. Does(m3)
    BY <1>3 DEF m1, m2, m3
  <2> QED
    BY <2>5, <2>6, DoesEffect
<1> QED
  BY <1>2, <1>3 DEF RandomStatement

-----------------------------------------------------------------------------
(* Texts.                                                                  *)

\* Where an access lands is a place in one of the regions.
LEMMA LocateType ==
  ASSUME NEW m, IsMemory(m), NEW p \in Nat, NEW n \in Nat, Readable(m, p, n),
         NEW at, at = Locate(m, p, n)
  PROVE  /\ at.region \in {"s", "e", "h"} /\ at.off \in Nat /\ at.ent \in Nat
         /\ m[at.region] \in Seq(Byte) /\ at.off + n <= Len(m[at.region])
         /\ at.region = "e" => /\ at.off + n <= at.ent * Stride + FieldBytes
                               /\ at.ent * Stride + FieldBytes \in Nat
                               /\ at.ent * Stride + FieldBytes <= Len(m.e)
<1>0. /\ m.s \in Seq(Byte) /\ m.e \in Seq(Byte) /\ m.h \in Seq(Byte) /\ NumEdicts(m) \in Nat
      /\ HBase \in Nat /\ EBase \in Nat /\ FieldBytes \in Nat
  BY MemoryType, MemoryAssumption
<1>1. CASE InS(m, p, n) /\ at = [region |-> "s", off |-> p, ent |-> 0]
  BY <1>0, <1>1 DEF InS
<1>2. CASE InE(m, p, n) /\ at = [region |-> "e", off |-> p - EBase, ent |-> EntOf(p)]
  <2>1. p >= EBase /\ EntOf(p) < NumEdicts(m) /\ Within(p) + n <= FieldBytes
    BY <1>2 DEF InE
  <2>2. EntOf(p) \in Nat /\ Within(p) \in Nat /\ p - EBase = EntOf(p) * Stride + Within(p)
    BY <2>1, PlaceInE
  <2>3. p - EBase \in Nat /\ p - EBase + n <= Len(m.e)
    BY <2>1, <2>2, FieldFits
  <2>4. EntOf(p) * Stride + 0 \in Nat /\ EntOf(p) * Stride + 0 + FieldBytes <= Len(m.e)
    BY <1>0, <2>1, <2>2, FieldFits
  <2>5. EntOf(p) * Stride \in Nat
    BY <2>2, MemoryAssumption
  <2>6. at.region = "e" /\ at.off = p - EBase /\ at.ent = EntOf(p) /\ m[at.region] = m.e
    BY <1>2
  <2> DEFINE w == EntOf(p) * Stride
  <2>7. w \in Nat /\ w + FieldBytes <= Len(m.e) /\ p - EBase = w + Within(p) /\ w = at.ent * Stride
    BY <2>2, <2>4, <2>5, <2>6
  <2> HIDE DEF w
  <2>8. w + Within(p) + n <= w + FieldBytes /\ w + FieldBytes \in Nat
    <3>1. w \in Nat /\ Within(p) \in Nat
      BY <2>2, <2>7
    <3>2. Within(p) + n <= FieldBytes
      BY <2>1
    <3>3. \A i, j, k, l \in Nat : j + k <= l => i + j + k <= i + l
      OBVIOUS
    <3> QED
      BY <1>0, <3>1, <3>2, <3>3
  <2>9. /\ at.off + n <= at.ent * Stride + FieldBytes
        /\ at.ent * Stride + FieldBytes \in Nat /\ at.ent * Stride + FieldBytes <= Len(m.e)
    <3>1. at.off = w + Within(p)
      BY <2>6, <2>7
    <3> HIDE DEF w
    <3> QED
      BY <2>7, <2>8, <3>1
  <2>10. at.off + n <= Len(m[at.region]) /\ at.off \in Nat /\ at.ent \in Nat
    BY <2>2, <2>3, <2>6
  <2>11. at.region \in {"s", "e", "h"} /\ m[at.region] \in Seq(Byte)
    BY <1>0, <2>6
  <2> QED
    BY <2>9, <2>10, <2>11
<1>3. CASE InH(m, p, n) /\ at = [region |-> "h", off |-> p - HBase, ent |-> 0]
  BY <1>0, <1>3 DEF InH
<1> QED
  BY <1>1, <1>2, <1>3, LocateIs DEF Readable

LEMMA CStrType ==
  ASSUME NEW m, IsMemory(m), NEW p \in Nat
  PROVE  /\ CStr(m, p) \in Seq(Byte)
         /\ m.s # <<>> /\ p = 0 => (CStr(m, p) = <<>> <=> m.s[1] = 0) /\ Readable(m, p, 1)
<1> DEFINE at == Locate(m, p, 1)
           d == m[at.region]
           end == IF at.region = "e" THEN at.ent * Stride + FieldBytes ELSE Len(d)
           zeros == {i \in at.off + 1 .. end : d[i] = 0}
           first == CHOOSE z \in zeros : \A y \in zeros : z <= y
           stop == IF zeros = {} THEN end ELSE first - 1
<1>1. CStr(m, p) = IF at = Nowhere THEN <<>> ELSE SubSeq(d, at.off + 1, stop)
  BY DEF CStr
<1>2. CASE at # Nowhere
  <2>0. 1 \in Nat /\ Readable(m, p, 1)
    BY <1>2 DEF Readable
  <2>1. /\ at.region \in {"s", "e", "h"} /\ at.off \in Nat /\ at.ent \in Nat
        /\ d \in Seq(Byte) /\ at.off + 1 <= Len(d)
        /\ at.region = "e" => /\ at.off + 1 <= at.ent * Stride + FieldBytes
                              /\ at.ent * Stride + FieldBytes \in Nat
                              /\ at.ent * Stride + FieldBytes <= Len(m.e)
    BY <2>0, LocateType
  <2> DEFINE o == at.off
  <2> HIDE DEF at, d
  <2>2. end \in Nat /\ o \in Nat /\ o + 1 <= end /\ end <= Len(d) /\ Len(d) \in Nat
    <3>1. CASE at.region = "e"
      BY <2>1, <3>1 DEF d
    <3>2. CASE at.region # "e"
      BY <2>1, <3>2
    <3> QED
      BY <3>1, <3>2
  <2> HIDE DEF o
  <2>z. zeros = {i \in o + 1 .. end : d[i] = 0}
    BY DEF o
  <2> HIDE DEF end, zeros
  <2>3. ASSUME zeros # {}
        PROVE  first \in zeros /\ \A y \in zeros : first <= y
    <3>1. zeros \subseteq Nat
      BY <2>2, <2>z
    <3>2. \E z \in zeros : \A y \in zeros : z <= y
      BY <2>3, <3>1, Least
    <3> QED
      BY <3>2
  <2>4. stop \in o .. end
    BY <2>2, <2>3, <2>z
  <2> HIDE DEF stop
  <2>5. \A i \in o + 1 .. stop : d[i] \in Byte
    BY <2>1, <2>2, <2>4, ElementOfSeq
  <2>6. SubSeq(d, o + 1, stop) \in Seq(Byte)
    <3>1. o + 1 \in Int /\ stop \in Int
      BY <2>2, <2>4
    <3> QED
      BY <2>1, <2>5, <3>1, SubSeqProperties
  <2>7. ASSUME m.s # <<>>, p = 0 PROVE SubSeq(d, o + 1, stop) = <<>> <=> m.s[1] = 0
    <3>1. m.s \in Seq(Byte) /\ Len(m.s) \in Nat
      BY MemoryType
    <3>2. Len(m.s) # 0
      BY <2>7, <3>1, EmptySeq
    <3>3. InS(m, p, 1)
      BY <2>7, <3>1, <3>2 DEF InS
    <3>4. at.region = "s" /\ o = 0 /\ d = m.s
      BY <2>7, <3>3 DEF Locate, at, o, d
    <3>5. end = Len(m.s)
      BY <3>4 DEF end
    <3>6. 1 \in zeros <=> m.s[1] = 0
      BY <2>2, <2>z, <3>4, <3>5
    <3>7. 1 \in zeros => first = 1
      BY <2>2, <2>3, <2>z, <3>4
    <3>8. zeros # {} /\ first = 1 => 1 \in zeros
      BY <2>3
    <3>9. stop = 0 <=> 1 \in zeros
      BY <2>2, <3>2, <3>5, <3>7, <3>8 DEF stop
    <3>10. SubSeq(d, 1, 0) = <<>>
      BY <2>1, SubSeqEmpty
    <3>11. stop # 0 => SubSeq(d, 1, stop) # <<>>
      <4>1. ASSUME stop # 0 PROVE Len(SubSeq(d, 1, stop)) = stop
        <5>1. 1 \in Int /\ stop \in Int /\ \A i \in 1 .. stop : d[i] \in Byte
          BY <2>2, <2>4, <2>5, <3>4
        <5> QED
          BY <2>2, <2>4, <3>4, <5>1, SubSeqProperties
      <4>2. Len(<<>>) = 0
        OBVIOUS
      <4> QED
        BY <4>1, <4>2
    <3> QED
      BY <3>4, <3>6, <3>9, <3>10, <3>11
  <2>8. CStr(m, p) = SubSeq(d, o + 1, stop)
    BY <1>1, <1>2 DEF o
  <2> QED
    BY <2>0, <2>6, <2>7, <2>8
<1>3. CASE at = Nowhere
  <2>1. <<>> \in Seq(Byte)
    OBVIOUS
  <2>2. ASSUME m.s # <<>>, p = 0 PROVE FALSE
    <3>1. m.s \in Seq(Byte) /\ Len(m.s) \in Nat
      BY MemoryType
    <3>2. Len(m.s) # 0
      BY <2>2, <3>1, EmptySeq
    <3>3. InS(m, p, 1)
      BY <2>2, <3>1, <3>2 DEF InS
    <3> QED
      BY <1>3, <3>3, NowhereElse DEF Locate
  <2> QED
    BY <1>1, <1>3, <2>1, <2>2
<1> QED
  BY <1>2, <1>3

LEMMA UntilZeroType ==
  ASSUME NEW b \in Seq(Byte)
  PROVE  UntilZero(b) \in Seq(Byte)
<1> DEFINE zeros == {i \in 1 .. Len(b) : b[i] = 0}
           first == CHOOSE i \in 1 .. Len(b) : b[i] = 0 /\ \A j \in 1 .. i - 1 : b[j] # 0
<1>0. Len(b) \in Nat
  OBVIOUS
<1>1. CASE \E i \in 1 .. Len(b) : b[i] = 0
  <2>1. zeros # {} /\ zeros \subseteq Nat
    BY <1>1
  <2>2. PICK z \in zeros : \A y \in zeros : z <= y
    BY <2>1, Least
  <2>3. z \in 1 .. Len(b) /\ b[z] = 0 /\ \A j \in 1 .. z - 1 : b[j] # 0
    BY <1>0, <2>2
  <2>4. first \in 1 .. Len(b)
    BY <2>3
  <2> HIDE DEF first
  <2>5. \A i \in 1 .. first - 1 : b[i] \in Byte
    BY <1>0, <2>4, ElementOfSeq
  <2>6. 1 \in Int /\ first - 1 \in Int
    BY <1>0, <2>4
  <2>7. SubSeq(b, 1, first - 1) \in Seq(Byte)
    BY <2>5, <2>6, SubSeqProperties
  <2> QED
    BY <1>1, <2>7 DEF UntilZero, first
<1>2. CASE ~ \E i \in 1 .. Len(b) : b[i] = 0
  BY <1>2 DEF UntilZero
<1> QED
  BY <1>1, <1>2

LEMMA TextType ==
  ASSUME Sound, NEW r \in Nat
  PROVE  Text(r) \in Seq(Byte)
<1>1. <<>> \in Seq(Byte)
  OBVIOUS
<1>2. CStr(mem, r) \in Seq(Byte)
  BY CStrType DEF Sound
<1>3. ASSUME SlotOf(r) \in DOMAIN temps PROVE UntilZero(temps[SlotOf(r)]) \in Seq(Byte)
  BY <1>3, UntilZeroType DEF Sound
<1>4. ASSUME SlotOf(r) \in DOMAIN Statics PROVE Statics[SlotOf(r)] \in Seq(Byte)
  BY <1>4, InterpreterAssumption
<1>5. Kind(r) \in {"static", "temp", "linear"}
  BY DEF Kind
<1>6. CASE Kind(r) = "linear"
  BY <1>1, <1>2, <1>6 DEF Text
<1>7. CASE Kind(r) = "temp"
  BY <1>1, <1>3, <1>7 DEF Text, Resolves
<1>8. CASE Kind(r) = "static"
  BY <1>1, <1>4, <1>8 DEF Text, Resolves
<1> QED
  BY <1>5, <1>6, <1>7, <1>8

LEMMA DifferenceType ==
  ASSUME NEW t \in Seq(Byte), NEW u \in Seq(Byte)
  PROVE  FloatOf(Difference(t, u)) \in Int
<1> DEFINE at(b, i) == IF i <= Len(b) THEN b[i] ELSE 0
           P(i) == \/ i > Len(t) /\ i > Len(u)
                   \/ at(t, i) # at(u, i) /\ \A j \in 1 .. i - 1 : at(t, j) = at(u, j)
           first == CHOOSE i \in 1 .. Len(t) + Len(u) + 1 : P(i)
<1>1. Len(t) \in Nat /\ Len(u) \in Nat
  OBVIOUS
<1>2. Difference(t, u) = at(t, first) - at(u, first)
  BY DEF Difference
<1>3. P(Len(t) + Len(u) + 1) /\ Len(t) + Len(u) + 1 \in 1 .. Len(t) + Len(u) + 1
  BY <1>1
<1> HIDE DEF P
<1>4. first \in 1 .. Len(t) + Len(u) + 1
  BY <1>3
<1> HIDE DEF first
<1>5. Byte = 0 .. ByteVals - 1 /\ ByteVals \in Nat /\ ByteVals >= 2
  BY Sizes DEF Byte
<1>6. at(t, first) \in Byte /\ at(u, first) \in Byte
  BY <1>1, <1>4, <1>5, ElementOfSeq
<1> HIDE DEF at
<1>7. Difference(t, u) \in -ByteVals .. ByteVals
  BY <1>2, <1>5, <1>6
<1>8. LongVals \in Nat /\ LongVals >= 2 * WordVals /\ WordVals >= ByteVals /\ WordVals \in Nat
  BY Sizes
<1>9. LongMin = -(LongVals \div 2) /\ LongVals \div 2 >= WordVals
  BY <1>8 DEF LongMin
<1>10. Difference(t, u) \in LongMin .. LongVals - 1
  BY <1>5, <1>7, <1>8, <1>9
<1>11. FloatOf(Difference(t, u)) \in Word
  BY <1>10, WordsAssumption
<1> QED
  BY <1>11 DEF Word

LEMMA StringEffect ==
  ASSUME Sound, NEW s \in Statements, StringStatement(s)
  PROVE  Effect
<1>0. s.a \in Nat /\ s.b \in Nat /\ \A b : FBool(b) \in Int
  BY Operands, BoolType DEF Word
<1>1. N(s.a) \in Nat /\ N(s.b) \in Nat /\ s.op \notin NoC
  BY <1>0, WordTypes, WordOpsInC DEF StringStatement
<1>2. FloatOf(Difference(Text(N(s.a)), Text(N(s.b)))) \in Int
  BY <1>1, TextType, DifferenceType
<1>3. PICK v, kind : /\ v \in Int
                     /\ Warns(kind, Set(mem, s.c, v))
  <2>1. CASE s.op \in {"EqS", "NeS"}
    BY <1>0, <1>2, <2>1, Zenon DEF StringStatement
  <2>2. CASE s.op = "NotS"
    BY <1>0, <2>2, Zenon DEF StringStatement
  <2> QED
    BY <2>1, <2>2 DEF StringStatement
<1>4. Keeps(mem, Set(mem, s.c, v))
  BY <1>1, <1>3, PutsInC
<1> QED
  BY <1>3, <1>4, DoesEffect

-----------------------------------------------------------------------------
(* Globals, fields and pointers.                                           *)

LEMMA WordsOfType ==
  \A op : WordsOf(op) \in 1 .. 3
BY DEF WordsOf

LEMMA CopiedKeeps ==
  ASSUME Sound, NEW src \in Nat, NEW dst \in Nat, IsOperand(dst), NEW n \in 1 .. 3,
         NEW view \in {View, "whole"}
  PROVE  Keeps(mem, CopyWords(view, mem, src, dst, n)) /\ Keeps(mem, Copied(src, dst, n))
<1>1. Reaches(dst, 3)
  BY OperandReach
<1>2. Reaches(dst, n)
  BY <1>1 DEF Reaches
<1>3. IsMemory(mem) /\ View \in {View, "whole"}
  BY DEF Sound
<1> QED
  BY <1>2, <1>3, CopyKeeps DEF Copied

LEMMA GlobalIsOperand ==
  ASSUME NEW i \in Nat, i < NumGlobals
  PROVE  GlobalAt(i) \in Nat /\ IsOperand(GlobalAt(i))
<1>1. GBase \in Nat /\ NumGlobals \in Nat /\ WordBytes \in Nat \ {0}
  BY InterpreterAssumption, MemoryAssumption
<1>2. \A j, k \in Nat, w \in Nat \ {0} : j < k => j * w \in Nat /\ j * w < (k + 3) * w
  <2> TAKE j, k \in Nat, w \in Nat \ {0}
  <2>1. ASSUME j < k PROVE j * w \in Nat /\ j * w < (k + 3) * w
    <3>1. k + 3 - j \in Nat \ {0} /\ k + 3 = j + (k + 3 - j)
      BY <2>1
    <3>2. (k + 3) * w = j * w + (k + 3 - j) * w
      BY <3>1
    <3>3. \A p, q \in Nat \ {0} : p * q \in Nat \ {0}
      OBVIOUS
    <3>4. (k + 3 - j) * w \in Nat \ {0} /\ j * w \in Nat
      BY <3>1, <3>3
    <3> QED
      BY <3>2, <3>4
  <2> QED
    BY <2>1
<1>3. i * WordBytes \in Nat /\ i * WordBytes < (NumGlobals + 3) * WordBytes
  BY <1>1, <1>2
<1>4. (NumGlobals + 3) * WordBytes \in Nat
  BY <1>1
<1> QED
  BY <1>1, <1>3, <1>4 DEF GlobalAt, IsOperand

LEMMA SignedIndex ==
  ASSUME NEW v \in Word
  PROVE  Signed(v) \in Int
BY SignedType, Sizes DEF Word

LEMMA StoreGlobalEffect ==
  ASSUME Sound, NEW s \in Statements, StoreGlobal(s)
  PROVE  Effect
<1>1. s.op \notin {"Goto", "BoundCheck"} \union JumpsToB \union Unexecutables
  BY DEF StoreGlobal, JumpsToB, Branches, Switches, Unexecutables
<1>2. s.a \in Nat /\ s.b \in Nat /\ IsOperand(s.b)
  BY <1>1, Operands
<1>3. Keeps(mem, Copied(s.a, s.b, WordsOf(s.op)))
  BY <1>2, WordsOfType, CopiedKeeps
<1>4. ASSUME s.op \in {"StoreIF", "StoreFI"}
      PROVE  Keeps(mem, Put(mem, s.b, UnaryResult(s.op, N(s.a))))
  <2>1. UnaryResult(s.op, N(s.a)) \in Int
    BY <1>2, <1>4, WordTypes, UnaryResultType
  <2> QED
    BY <1>1, <2>1, PutsInB
<1> QED
  BY <1>3, <1>4, DoesEffect DEF StoreGlobal

LEMMA CompoundGlobalEffect ==
  ASSUME Sound, NEW s \in Statements, CompoundGlobal(s)
  PROVE  Effect
<1>1. /\ s.op \notin {"Goto", "BoundCheck"} \union JumpsToB \union Unexecutables
      /\ s.op \in ScalarCompounds \union VectorCompounds
  BY DEF CompoundGlobal, ScalarCompounds, VectorCompounds, JumpsToB, Branches, Switches, Unexecutables
<1>2. s.a \in Nat /\ s.b \in Nat /\ IsOperand(s.b)
  BY <1>1, Operands
<1>3. \A v \in Word, w \in Word : CompoundResult(s.op, v, w) \in Int
  BY <1>1, CompoundResultType DEF ScalarCompounds, VectorCompounds
<1>4. N(s.a) \in Word /\ N(s.b) \in Word
  BY <1>2, WordTypes
<1>5. Keeps(mem, Put(mem, s.b, CompoundResult(s.op, N(s.b), N(s.a))))
  BY <1>1, <1>3, <1>4, PutsInB
<1>6. Keeps(mem, CompoundVector(s))
  <2> DEFINE word(m, o, k) == Num(WordAt(View, m, Nth(o, k)))
             by(m, k) == IF s.op = "MulStoreVF" THEN N(s.a) ELSE word(m, s.a, k)
             one(m, k) == Put(m, Nth(s.b, k), CompoundResult(s.op, word(m, s.b, k), by(m, k)))
  <2>1. ASSUME NEW m, Keeps(mem, m), NEW k \in 1 .. 3
        PROVE  Keeps(mem, one(m, k))
    <3>1. Nth(s.a, k) \in Nat /\ Nth(s.b, k) \in Nat /\ IsMemory(m)
      BY <1>2, <2>1, MemoryAssumption DEF Nth, Keeps
    <3>2. word(m, s.a, k) \in Word /\ word(m, s.b, k) \in Word
      BY <3>1, WordAtType
    <3>3. by(m, k) \in Word
      BY <1>4, <3>2
    <3> HIDE DEF word, by
    <3>4. CompoundResult(s.op, word(m, s.b, k), by(m, k)) \in Int
      BY <1>3, <3>2, <3>3
    <3>5. InReach(Nth(s.b, k))
      BY <1>2, OperandReach DEF Reaches
    <3>6. Keeps(m, one(m, k))
      BY <3>1, <3>4, <3>5, PutKeeps
    <3> HIDE DEF one
    <3> QED
      BY <2>1, <3>6, KeepsTwice
  <2>2. CompoundVector(s) = one(one(one(mem, 1), 2), 3)
    BY DEF CompoundVector, InTurn
  <2> HIDE DEF word, by, one
  <2>3. Keeps(mem, mem)
    BY KeepsSelf DEF Sound
  <2>4. 1 \in 1 .. 3 /\ 2 \in 1 .. 3 /\ 3 \in 1 .. 3
    OBVIOUS
  <2>5. Keeps(mem, one(one(one(mem, 1), 2), 3))
    BY <2>1, <2>3, <2>4
  <2> QED
    BY <2>2, <2>5
<1> QED
  BY <1>5, <1>6, DoesEffect DEF CompoundGlobal

LEMMA ArrayEffect ==
  ASSUME Sound, NEW s \in Statements, LoadGlobal(s) \/ GStore(s) \/ FetchGlobal(s)
  PROVE  Effect
<1>0. s.a \in Nat /\ s.b \in Nat /\ s.c \in Nat /\ WordBytes \in Nat /\ GBase \in Nat
  BY Operands, MemoryAssumption, InterpreterAssumption
<1>1. /\ N(s.a) \in Word /\ N(s.b) \in Word /\ Signed(N(s.a)) \in Int /\ Signed(N(s.b)) \in Int
  BY <1>0, WordTypes, SignedIndex
<1>2. CASE LoadGlobal(s)
  <2> DEFINE n == WordsOf(s.op)
             i == IF s.op \in {"GLoadF", "GLoadV"} THEN Signed(N(s.a)) ELSE s.a + Signed(N(s.b))
  <2>1. n \in 1 .. 3 /\ i \in Int
    BY <1>0, <1>1, WordsOfType
  <2>2. s.op \notin NoC
    BY <1>2 DEF LoadGlobal, NoC, JumpsToB, Branches, Switches, WithoutC, Unexecutables
  <2>3. (IF IsIndex(i, n) THEN Does(Copied(GlobalAt(i), s.c, n)) ELSE Faults("array index"))
    BY <1>2 DEF LoadGlobal
  <2> HIDE DEF n, i
  <2>4. CASE IsIndex(i, n)
    <3>1. GlobalAt(i) \in Nat
      BY <1>0, <2>1, <2>4 DEF IsIndex, GlobalAt
    <3>2. Keeps(mem, Copied(GlobalAt(i), s.c, n))
      BY <2>1, <2>2, <3>1, Operands, CopiedKeeps
    <3> QED
      BY <2>3, <2>4, <3>2, DoesEffect
  <2> QED
    BY <2>3, <2>4, FaultEffect
<1>3. CASE GStore(s)
  <2> DEFINE n == WordsOf(s.op)
             i == Signed(N(s.b))
  <2>1. n \in 1 .. 3 /\ i \in Int
    BY <1>1, WordsOfType
  <2>2. (IF IsIndex(i, n) THEN Does(Copied(s.a, GlobalAt(i), n)) ELSE Faults("array index"))
    BY <1>3 DEF GStore
  <2> HIDE DEF n, i
  <2>3. CASE IsIndex(i, n)
    <3>1. i \in Nat /\ i < NumGlobals
      BY <2>1, <2>3, InterpreterAssumption DEF IsIndex
    <3>2. GlobalAt(i) \in Nat /\ IsOperand(GlobalAt(i))
      BY <3>1, GlobalIsOperand
    <3>3. Keeps(mem, Copied(s.a, GlobalAt(i), n))
      BY <1>0, <2>1, <3>2, CopiedKeeps
    <3> QED
      BY <2>2, <2>3, <3>3, DoesEffect
  <2> QED
    BY <2>2, <2>3, FaultEffect
<1>4. CASE FetchGlobal(s)
  <2> DEFINE i == F2I(Num(WordAt("whole", mem, s.b)))
             n == WordsOf(s.op)
             from == GlobalAt(Wrap(s.a + Wrap(i) * n))
  <2>1. s.op \notin NoC
    BY <1>4 DEF FetchGlobal, NoC, JumpsToB, Branches, Switches, WithoutC, Unexecutables
  <2>2. Num(WordAt("whole", mem, s.b)) \in Word
    BY <1>0, WordAtType DEF Sound
  <2>3. Wrap(i) \in Nat /\ n \in 1 .. 3
    BY <2>2, TruncType, WordsOfType DEF Word
  <2>4. Does(CopyWords("whole", mem, from, s.c, n)) \/ Faults("array index")
    BY <1>4, Zenon DEF FetchGlobal
  <2>5. from \in Nat
    <3>1. s.a + Wrap(i) * n \in Int
      BY <1>0, <2>3
    <3>2. Wrap(s.a + Wrap(i) * n) \in Nat
      BY <3>1, WrapType DEF Word
    <3> QED
      BY <1>0, <3>2 DEF GlobalAt
  <2> HIDE DEF i, n, from
  <2>6. Keeps(mem, CopyWords("whole", mem, from, s.c, n))
    BY <2>1, <2>3, <2>5, Operands, CopiedKeeps
  <2> QED
    BY <2>4, <2>6, DoesEffect, FaultEffect
<1> QED
  BY <1>2, <1>3, <1>4

LEMMA AddressEffect ==
  ASSUME Sound, Registers, NEW s \in Statements,
         GlobalAddress(s) \/ BoundCheck(s) \/ Push(s) \/ Address(s)
  PROVE  Effect
<1>0. /\ s.a \in Nat /\ s.b \in Nat /\ s.c \in Nat /\ WordBytes \in Nat /\ GBase \in Nat
      /\ N(s.a) \in Nat /\ N(s.b) \in Nat /\ Word \subseteq Int /\ EBase \in Nat /\ Stride \in Nat
  <2>1. s.a \in Nat /\ s.b \in Nat /\ s.c \in Nat
    BY Operands
  <2>2. N(s.a) \in Nat /\ N(s.b) \in Nat
    BY <2>1, WordTypes
  <2> QED
    BY <2>1, <2>2, MemoryAssumption, InterpreterAssumption DEF Word
<1>1. CASE GlobalAddress(s)
  <2>1. s.op \notin NoC
    BY <1>1 DEF GlobalAddress, NoC, JumpsToB, Branches, Switches, WithoutC, Unexecutables
  <2>2. GBase + (s.a + N(s.b)) * WordBytes \in Int
    BY <1>0
  <2>3. Wrap(GBase + (s.a + N(s.b)) * WordBytes) \in Int
    BY <1>0, <2>2, WrapType
  <2> QED
    BY <1>1, <2>1, <2>3, PutsInC, DoesEffect DEF GlobalAddress
<1>2. CASE BoundCheck(s)
  <2>1. Keeps(mem, mem)
    BY KeepsSelf DEF Sound
  <2> QED
    BY <1>2, <2>1, DoesEffect, FaultEffect DEF BoundCheck
<1>3. CASE Push(s)
  <2> DEFINE at == Wrap(LsBase + (LsTop + x.pushed) * WordBytes)
  <2>1. s.op \notin NoC
    BY <1>3 DEF Push, NoC, JumpsToB, Branches, Switches, WithoutC, Unexecutables
  <2>2. at \in Int
    <3>1. LsBase + (LsTop + x.pushed) * WordBytes \in Int
      BY <1>0, InterpreterAssumption DEF Registers, Regs
    <3> QED
      BY <1>0, <3>1, WrapType
  <2> HIDE DEF at
  <2>3. Faults("pushed too much") \/ (mem' = Put(mem, s.c, at) /\ UNCHANGED temps)
    BY <1>3 DEF Push, at
  <2>4. CASE mem' = Put(mem, s.c, at) /\ UNCHANGED temps
    BY <2>1, <2>2, <2>4, PutsInC DEF Sound, Effect
  <2> QED
    BY <2>3, <2>4, FaultEffect
<1>4. CASE Address(s)
  <2>1. s.op \notin NoC
    BY <1>4 DEF Address, NoC, JumpsToB, Branches, Switches, WithoutC, Unexecutables
  <2>2. EBase + N(s.a) * Stride + N(s.b) * WordBytes \in Int
    <3>1. N(s.a) * Stride \in Int /\ N(s.b) * WordBytes \in Int
      BY <1>0
    <3> QED
      BY <1>0, <3>1
  <2>3. FieldAddress(N(s.a), N(s.b)) \in Int
    BY <1>0, <2>2, WrapType DEF FieldAddress
  <2>4. WordVals - 1 \in Int
    BY Sizes
  <2>5. Keeps(mem, mem)
    BY KeepsSelf DEF Sound
  <2>6. Keeps(mem, Set(mem, s.c, WordVals - 1)) /\ Keeps(mem, Put(mem, s.c, FieldAddress(N(s.a), N(s.b))))
    BY <2>1, <2>3, <2>4, PutsInC
  <2> QED
    BY <1>4, <2>5, <2>6, DoesEffect DEF Address
<1> QED
  BY <1>1, <1>2, <1>3, <1>4

LEMMA FieldEffect ==
  ASSUME Sound, NEW s \in Statements, LoadField(s) \/ StoreField(s)
  PROVE  Effect
<1> DEFINE e == N(s.a)
           f == N(s.b)
           n == WordsOf(s.op)
<1>1. s.a \in Nat /\ s.b \in Nat /\ s.c \in Nat
  BY Operands
<1>2. e \in Nat /\ f \in Nat /\ n \in 1 .. 3 /\ n \in Nat
  <2>1. e \in Nat /\ f \in Nat
    BY <1>1, WordTypes
  <2>2. n \in 1 .. 3
    BY WordsOfType
  <2>3. \A k \in 1 .. 3 : k \in Nat
    OBVIOUS
  <2> HIDE DEF e, f, n
  <2> QED
    BY <2>1, <2>2, <2>3
<1>3. Keeps(mem, mem) /\ IsMemory(mem) /\ WordBytes \in Nat
  BY KeepsSelf, MemoryAssumption DEF Sound
<1>4. CASE LoadField(s)
  <2> DEFINE zeroed == IF e < NumEdicts(mem) THEN 1
                       ELSE IF s.op = "LoadI64" /\ LoadI64Zero3 THEN 3 ELSE n
  <2>1. IF HasField(mem, e, f, n) THEN Does(PutWords(View, mem, s.c, Field(mem, e, f, n), n))
        ELSE Warns(BadAccess(e), PutWords("whole", mem, s.c, Zeros(zeroed * WordBytes), zeroed))
    BY <1>4 DEF LoadField
  <2>2. zeroed \in 1 .. 3
    BY <1>2
  <2>3. s.op \notin NoC
    BY <1>4 DEF LoadField, NoC, JumpsToB, Branches, Switches, WithoutC, Unexecutables
  <2>4. \A k \in 1 .. 3 : Reaches(s.c, k)
    BY <1>1, <2>3, Operands, OperandReach DEF Reaches
  <2> HIDE DEF e, f, n, zeroed
  <2>5. ASSUME HasField(mem, e, f, n)
        PROVE  Keeps(mem, PutWords(View, mem, s.c, Field(mem, e, f, n), n))
    <3>1. /\ Field(mem, e, f, n) \in Seq(Byte) /\ Len(Field(mem, e, f, n)) = n * WordBytes
          /\ n * WordBytes \in Nat
      BY <1>2, <1>3, <2>5, FieldType
    <3>2. n * WordBytes <= Len(Field(mem, e, f, n)) /\ View \in {View, "whole"}
      BY <3>1
    <3> QED
      BY <1>2, <1>3, <2>4, <3>1, <3>2, PutWordsKeeps
  <2>6. Keeps(mem, PutWords("whole", mem, s.c, Zeros(zeroed * WordBytes), zeroed))
    <3>1. zeroed * WordBytes \in Nat
      BY <1>3, <2>2
    <3>2. /\ Zeros(zeroed * WordBytes) \in Seq(Byte)
          /\ Len(Zeros(zeroed * WordBytes)) = zeroed * WordBytes
      BY <3>1, ZerosType
    <3>3. zeroed * WordBytes <= Len(Zeros(zeroed * WordBytes)) /\ "whole" \in {View, "whole"}
      BY <3>1, <3>2
    <3> QED
      BY <1>3, <2>2, <2>4, <3>2, <3>3, PutWordsKeeps
  <2> QED
    BY <2>1, <2>5, <2>6, DoesEffect
<1>5. CASE StoreField(s)
  <2> DEFINE stored == WithField(mem, e, f, GlobalWords(s.c, n))
  <2>1. \/ FastPaths /\ ViewStores(mem, e, f, n) /\ Does(stored)
        \/ Warns(BadAccess(e), mem) \/ Warns("read only", mem)
        \/ HasField(mem, e, f, n) /\ ~Protected(mem, e) /\ Does(stored)
    BY <1>5 DEF StoreField
  <2>2. GlobalWords(s.c, n) \in Seq(Byte) /\ Len(GlobalWords(s.c, n)) = n * WordBytes
    BY <1>1, <1>2, GlobalWordsType
  <2> HIDE DEF e, f, n
  <2>3. ASSUME HasField(mem, e, f, n), ~Protected(mem, e) PROVE Keeps(mem, stored)
    BY <1>2, <1>3, <2>2, <2>3, WithFieldKeeps
  <2> HIDE DEF stored
  <2> QED
    BY <1>3, <2>1, <2>3, DoesEffect DEF ViewStores
<1> QED
  BY <1>4, <1>5

-----------------------------------------------------------------------------
(* Stores and loads through pointers.                                      *)

LEMMA GrownType ==
  ASSUME NEW b \in Seq(Byte), NEW end \in Nat, ~(end <= Len(b))
  PROVE  b \o Zeros(RoundUp(end) - Len(b)) \in Seq(Byte)
<1>1. RoundUp(end) \in Int /\ RoundUp(end) >= end
  <2>1. (-end) % 4 \in Nat
    OBVIOUS
  <2> QED
    BY <2>1 DEF RoundUp
<1>2. RoundUp(end) - Len(b) \in Nat
  BY <1>1
<1>3. Zeros(RoundUp(end) - Len(b)) \in Seq(Byte)
  BY <1>2, ZerosType
<1> QED
  BY <1>3, ConcatProperties

LEMMA ElsewhereEffect ==
  ASSUME Sound, NEW base \in Nat, NEW off \in Nat, NEW bytes \in Seq(Byte),
         WriteElsewhere(base, off, bytes)
  PROVE  Effect
<1> DEFINE t == SlotOf(base)
           end == off + Len(bytes)
<1>0. Keeps(mem, mem) /\ end \in Nat
  BY KeepsSelf DEF Sound
<1>1. \/ Does(mem) \/ Faults("bad write") \/ Faults("null write")
      \/ /\ t \in DOMAIN temps
         /\ temps' = [temps EXCEPT ![t] = Patched(Grown(t, end), off, bytes)]
         /\ UNCHANGED mem
  BY Zenon DEF WriteElsewhere
<1> HIDE DEF t, end
<1>2. ASSUME t \in DOMAIN temps,
             temps' = [temps EXCEPT ![t] = Patched(Grown(t, end), off, bytes)], UNCHANGED mem
      PROVE  Effect
  <2>1. temps[t] \in Seq(Byte)
    BY <1>2 DEF Sound
  <2>2. Grown(t, end) \in Seq(Byte)
    BY <1>0, <2>1, GrownType DEF Grown
  <2>3. Patched(Grown(t, end), off, bytes) \in Seq(Byte)
    BY <2>2, PatchedType
  <2>4. \A u \in DOMAIN temps' : temps'[u] \in Seq(Byte)
    BY <1>2, <2>3 DEF Sound
  <2> QED
    BY <1>0, <1>2, <2>4 DEF Effect
<1> QED
  BY <1>0, <1>1, <1>2, DoesEffect, FaultEffect

LEMMA PtrWriteEffect ==
  ASSUME Sound, NEW base \in Nat, NEW off \in Nat, NEW bytes \in Seq(Byte),
         PtrWrite(base, off, bytes)
  PROVE  Effect
<1> DEFINE p == Wrap(base + off)
           verdict == CheckWrite(mem, p, Len(bytes))
<1>0. Keeps(mem, mem) /\ IsMemory(mem) /\ p \in Nat
  <2>1. base + off \in Int
    OBVIOUS
  <2>2. p \in Word
    BY <2>1, WrapType
  <2> QED
    BY <2>2, KeepsSelf DEF Sound, Word
<1>1. (CASE verdict = "ok" -> Does(Written(mem, p, bytes))
         [] verdict = "protected" -> Warns("read only", mem)
         [] verdict \in {"null", "invalid"} -> WriteElsewhere(base, off, bytes))
  BY DEF PtrWrite
<1> HIDE DEF p
<1>2. verdict \in {"ok", "null", "invalid", "protected"}
  BY DEF CheckWrite
<1> HIDE DEF verdict
<1>3. CASE verdict = "ok"
  <2>1. Keeps(mem, Written(mem, p, bytes))
    BY <1>0, <1>3, WrittenKeeps DEF verdict
  <2> QED
    BY <1>1, <1>3, <2>1, DoesEffect
<1>4. CASE verdict = "protected"
  BY <1>0, <1>1, <1>4, DoesEffect
<1>5. CASE verdict = "null" \/ verdict = "invalid"
  BY <1>1, <1>5, ElsewhereEffect
<1> QED
  BY <1>2, <1>3, <1>4, <1>5

Stores == {"StorePF", "StorePV", "StorePI64", "StorePIF", "StorePFI", "StorePC", "StorePI8",
           "StorePI16"}

LEMMA StoredType ==
  ASSUME Sound, NEW s \in Statements, s.op \in Stores
  PROVE  /\ Stored(s) \in Seq(Byte)
         /\ s.op \in {"StorePF", "StorePV"} => Len(Stored(s)) # 0
<1>0. s.a \in Nat /\ WordBytes \in Nat \ {0} /\ 1 \in Nat /\ WordBytes \div 2 \in Nat
  BY Operands, MemoryAssumption
<1>1. N(s.a) \in Word /\ N(s.a) \in Nat /\ Word \subseteq Int /\ N(s.a) \in 0 .. 2 * WordVals - 1
  BY <1>0, WordTypes, Sizes DEF Word
<1>2. CASE s.op \in {"StorePF", "StorePV", "StorePI64"}
  <2>1. WordsOf(s.op) \in 1 .. 3
    BY WordsOfType
  <2>2. /\ GlobalWords(s.a, WordsOf(s.op)) \in Seq(Byte)
        /\ Len(GlobalWords(s.a, WordsOf(s.op))) = WordsOf(s.op) * WordBytes
    BY <1>0, <2>1, GlobalWordsType
  <2>3. \A n \in 1 .. 3 : n * WordBytes # 0
    BY <1>0
  <2>4. Stored(s) = GlobalWords(s.a, WordsOf(s.op))
    BY <1>2 DEF Stored
  <2> QED
    BY <2>1, <2>2, <2>3, <2>4
<1>3. CASE s.op \in {"StorePIF", "StorePFI"}
  <2>1. FloatOf(Signed(N(s.a))) \in Int /\ Wrap(F2I(N(s.a))) \in Int
    BY <1>1, SignedType, TruncType
  <2> DEFINE v == IF s.op = "StorePIF" THEN FloatOf(Signed(N(s.a))) ELSE Wrap(F2I(N(s.a)))
  <2>2. v \in Int
    BY <2>1
  <2>3. Stored(s) = BytesOf(v, WordBytes)
    BY <1>3 DEF Stored
  <2> HIDE DEF v
  <2> QED
    BY <1>0, <1>3, <2>2, <2>3, BytesOfType
<1>4. CASE s.op \in {"StorePC", "StorePI8", "StorePI16"}
  <2>1. Wrap(F2I(N(s.a))) \in Int
    BY <1>1, TruncType
  <2>2. Vals(WordBytes \div 2) \in Nat \ {0} /\ ByteVals \in Nat \ {0}
    <3>1. \A n \in Nat : Vals(n) \in Nat \ {0}
      BY ValsOfSum
    <3> QED
      BY <1>0, <3>1, Sizes
  <2>3. /\ Wrap(F2I(N(s.a))) % ByteVals \in Int /\ N(s.a) % ByteVals \in Int
        /\ N(s.a) % Vals(WordBytes \div 2) \in Int
    BY <1>1, <2>1, <2>2
  <2>4. \/ Stored(s) = BytesOf(Wrap(F2I(N(s.a))) % ByteVals, 1)
        \/ Stored(s) = BytesOf(N(s.a) % ByteVals, 1)
        \/ Stored(s) = BytesOf(N(s.a) % Vals(WordBytes \div 2), WordBytes \div 2)
    BY <1>4 DEF Stored
  <2> QED
    BY <1>0, <1>4, <2>3, <2>4, BytesOfType
<1> QED
  BY <1>2, <1>3, <1>4 DEF Stores

LEMMA StorePointerEffect ==
  ASSUME Sound, NEW s \in Statements, StorePointer(s)
  PROVE  Effect
<1> DEFINE off == Wrap(N(s.c) * Scale(s.op))
           p == Wrap(N(s.b) + off)
           bytes == Stored(s)
<1>0. s.b \in Nat /\ s.c \in Nat /\ IsMemory(mem) /\ mem.s # <<>> /\ WindowIn(mem)
  BY Operands DEF Sound
<1>1. s.op \in Stores
  BY DEF StorePointer, Stores
<1>2. bytes \in Seq(Byte) /\ (s.op \in {"StorePF", "StorePV"} => Len(bytes) # 0)
  BY <1>1, StoredType
<1>3. N(s.b) \in Nat /\ off \in Nat /\ p \in Nat
  <2>1. N(s.b) \in Nat /\ N(s.c) \in Nat
    BY <1>0, WordTypes
  <2>2. Scale(s.op) \in Nat
    BY MemoryAssumption DEF Scale
  <2>3. N(s.c) * Scale(s.op) \in Int
    BY <2>1, <2>2
  <2>4. off \in Nat
    BY <2>3, WrapType DEF Word
  <2>5. N(s.b) + off \in Int
    BY <2>1, <2>4
  <2> QED
    BY <2>1, <2>4, <2>5, WrapType DEF Word
<1>4. \/ /\ s.op \in {"StorePF", "StorePV"} /\ ViewWrites(View, mem, p, Len(bytes))
         /\ Does(ViewWritten(View, mem, p, bytes))
      \/ PtrWrite(N(s.b), off, bytes)
  BY DEF StorePointer
<1> HIDE DEF off, p, bytes
<1>5. ASSUME s.op \in {"StorePF", "StorePV"}, ViewWrites(View, mem, p, Len(bytes))
      PROVE  Keeps(mem, ViewWritten(View, mem, p, bytes))
  <2>1. /\ CheckWrite(mem, p, Len(bytes)) = "ok"
        /\ ViewWritten(View, mem, p, bytes) = Written(mem, p, bytes)
    BY <1>0, <1>2, <1>3, <1>5, ViewWriteIsWritten
  <2> QED
    BY <1>0, <1>2, <1>3, <2>1, WrittenKeeps
<1> QED
  BY <1>2, <1>3, <1>4, <1>5, DoesEffect, PtrWriteEffect

LEMMA StringDataType ==
  ASSUME Sound, NEW r
  PROVE  StringData(r) \in Seq(Byte)
<1>1. <<>> \in Seq(Byte)
  OBVIOUS
<1>2. SlotOf(r) \in DOMAIN temps => temps[SlotOf(r)] \in Seq(Byte)
  BY DEF Sound
<1>3. SlotOf(r) \in DOMAIN Statics => Statics[SlotOf(r)] \in Seq(Byte)
  BY InterpreterAssumption
<1>4. \/ SlotOf(r) \in DOMAIN temps /\ StringData(r) = temps[SlotOf(r)]
      \/ SlotOf(r) \in DOMAIN Statics /\ StringData(r) = Statics[SlotOf(r)]
      \/ StringData(r) = <<>>
  BY DEF StringData
<1> QED
  BY <1>1, <1>2, <1>3, <1>4

LEMMA PtrReadType ==
  ASSUME Sound, NEW base \in Nat, NEW off \in Nat, NEW n \in Nat
  PROVE  PtrRead(base, off, n) \in Seq(Byte) /\ Len(PtrRead(base, off, n)) = n
<1> DEFINE p == Wrap(base + off)
           data == StringData(base)
           padded == [i \in 1 .. n |-> IF off + i <= Len(data) THEN data[off + i] ELSE 0]
<1>1. p \in Nat
  <2>1. base + off \in Int
    OBVIOUS
  <2>2. p \in Word
    BY <2>1, WrapType
  <2> QED
    BY <2>2 DEF Word
<1>2. data \in Seq(Byte) /\ IsMemory(mem) /\ 0 \in Byte
  BY StringDataType, Sizes DEF Sound, Byte
<1>3. PtrRead(base, off, n) = IF Readable(mem, p, n) THEN Read(mem, p, n)
                              ELSE IF p = WordVals - 1 THEN Zeros(n) ELSE padded
  BY DEF PtrRead
<1> HIDE DEF p, data
<1>4. Readable(mem, p, n) => Read(mem, p, n) \in Seq(Byte) /\ Len(Read(mem, p, n)) = n
  BY <1>1, <1>2, ReadType
<1>5. Zeros(n) \in Seq(Byte) /\ Len(Zeros(n)) = n
  BY ZerosType
<1>6. padded \in [1 .. n -> Byte]
  <2>1. ASSUME NEW i \in 1 .. n PROVE (IF off + i <= Len(data) THEN data[off + i] ELSE 0) \in Byte
    BY <1>2, ElementOfSeq
  <2> QED
    BY <2>1
<1> HIDE DEF padded
<1>7. padded \in Seq(Byte) /\ Len(padded) = n
  BY <1>6, SeqOfFunction
<1> QED
  BY <1>3, <1>4, <1>5, <1>7

Loads == {"LoadPF", "LoadPV", "LoadPI64", "LoadPC", "LoadPI8", "LoadPU8", "LoadPI16", "LoadPU16"}

LEMMA LoadsInC ==
  (Loads \union {"LoadPItoF", "LoadPFtoI"} \union QuickCompounds \union BitCompounds \union PointerVectors)
      \intersect NoC = {}
BY DEF Loads, QuickCompounds, BitCompounds, PointerVectors, NoC, JumpsToB, Branches, Switches,
   WithoutC, Unexecutables

LEMMA LoadedBytesType ==
  ASSUME NEW op \in Loads
  PROVE  /\ LoadedBytes(op) \in Nat /\ LoadedBytes(op) <= 3 * WordBytes
         /\ op \in {"LoadPF", "LoadPV", "LoadPI64"} => LoadedBytes(op) = WordsOf(op) * WordBytes
         /\ op \notin {"LoadPF", "LoadPV", "LoadPI64"} => LoadedBytes(op) <= WordBytes
         /\ op \in {"LoadPF", "LoadPV"} => LoadedBytes(op) # 0
<1>1. WordBytes \in Nat \ {0} /\ WordBytes \div 2 \in Nat /\ WordBytes \div 2 <= WordBytes
  BY MemoryAssumption
<1>2. WordsOf(op) \in 1 .. 3
  BY WordsOfType
<1>3. \A n \in 1 .. 3 : n * WordBytes \in Nat \ {0} /\ n * WordBytes <= 3 * WordBytes
  BY <1>1
<1>4. CASE op \in {"LoadPF", "LoadPV", "LoadPI64"}
  <2>1. LoadedBytes(op) = WordsOf(op) * WordBytes
    BY <1>4 DEF LoadedBytes
  <2> QED
    BY <1>2, <1>3, <1>4, <2>1
<1>5. CASE op \in {"LoadPC", "LoadPI8", "LoadPU8", "LoadPI16", "LoadPU16"}
  <2>1. LoadedBytes(op) \in {1, WordBytes \div 2}
    BY <1>5 DEF LoadedBytes
  <2> QED
    BY <1>1, <1>5, <2>1
<1> QED
  BY <1>4, <1>5 DEF Loads

\* What a load puts in C for as many bytes as it reads.
LEMMA LoadedKeeps ==
  ASSUME Sound, NEW s \in Statements, s.op \in Loads, NEW b \in Seq(Byte),
         Len(b) = LoadedBytes(s.op)
  PROVE  Keeps(mem, Loaded(s, b))
<1>0. s.op \notin NoC /\ s.c \in Nat /\ IsMemory(mem)
  BY LoadsInC, Operands DEF Sound
<1>1. Num(b) \in Nat /\ Num(b) \in 0 .. Vals(Len(b)) - 1 /\ Len(b) \in Nat
  BY NumType
<1>2. CASE s.op \in {"LoadPF", "LoadPV", "LoadPI64"}
  <2>1. WordsOf(s.op) \in 1 .. 3 /\ "whole" \in {View, "whole"}
    BY WordsOfType
  <2>2. Reaches(s.c, WordsOf(s.op))
    BY <1>0, <2>1, Operands, OperandReach DEF Reaches
  <2>3. WordsOf(s.op) * WordBytes <= Len(b)
    <3>1. Len(b) = WordsOf(s.op) * WordBytes
      BY <1>2, LoadedBytesType
    <3> QED
      BY <1>1, <3>1
  <2>4. Keeps(mem, PutWords("whole", mem, s.c, b, WordsOf(s.op)))
    BY <1>0, <2>1, <2>2, <2>3, PutWordsKeeps
  <2> QED
    BY <1>2, <2>4 DEF Loaded
<1>3. CASE s.op = "LoadPC"
  <2>1. Len(b) = 1
    BY <1>3 DEF LoadedBytes
  <2>2. Num(b) \in 0 .. LongVals - 1
    BY <1>1, <2>1, Sizes DEF ByteVals
  <2>3. FloatOf(Num(b)) \in Int
    BY <2>2, FloatOfType DEF Word
  <2>4. Keeps(mem, Set(mem, s.c, FloatOf(Num(b))))
    BY <1>0, <2>3, PutsInC
  <2> QED
    BY <1>3, <2>4 DEF Loaded
<1>4. CASE s.op \in {"LoadPI8", "LoadPI16"}
  <2>1. Vals(Len(b)) \in Nat
    BY <1>1, ValsOfSum
  <2>2. Num(b) - Vals(Len(b)) \in Int
    BY <1>1, <2>1
  <2>3. Wrap(Num(b) - Vals(Len(b))) \in Int
    BY <2>2, WrapType DEF Word
  <2>4. SignExtended(Num(b), Len(b)) \in Int
    BY <1>1, <2>3 DEF SignExtended
  <2>5. Keeps(mem, Set(mem, s.c, SignExtended(Num(b), Len(b))))
    BY <1>0, <2>4, PutsInC
  <2> QED
    BY <1>4, <2>5 DEF Loaded
<1>5. CASE s.op \in {"LoadPU8", "LoadPU16"}
  <2>1. Keeps(mem, Set(mem, s.c, Num(b)))
    BY <1>0, <1>1, PutsInC
  <2> QED
    BY <1>5, <2>1 DEF Loaded
<1> QED
  BY <1>2, <1>3, <1>4, <1>5 DEF Loads

LEMMA LoadPointerEffect ==
  ASSUME Sound, NEW s \in Statements, LoadPointer(s)
  PROVE  Effect
<1> DEFINE index == IF s.op = "LoadPC" THEN Wrap(F2I(N(s.b))) ELSE N(s.b)
           off == Wrap(index * Scale(s.op))
           p == Wrap(N(s.a) + off)
           n == LoadedBytes(s.op)
           read == ViewRead(View, mem, p, n)
<1>0. s.a \in Nat /\ s.b \in Nat /\ s.c \in Nat /\ IsMemory(mem) /\ WindowIn(mem)
  BY Operands DEF Sound
<1>1. s.op \in Loads /\ s.op \notin NoC
  BY LoadsInC DEF LoadPointer, Loads
<1>2. N(s.a) \in Nat /\ off \in Nat /\ p \in Nat
  <2>1. N(s.a) \in Nat /\ N(s.b) \in Nat /\ N(s.b) \in Word
    BY <1>0, WordTypes
  <2>2. index \in Nat
    BY <2>1, TruncType DEF Word
  <2>3. Scale(s.op) \in Nat
    BY MemoryAssumption DEF Scale
  <2> HIDE DEF index
  <2>4. index * Scale(s.op) \in Int
    BY <2>2, <2>3
  <2>5. off \in Nat
    BY <2>4, WrapType DEF Word
  <2>6. N(s.a) + off \in Int
    BY <2>1, <2>5
  <2> QED
    BY <2>1, <2>5, <2>6, WrapType DEF Word
<1>3. \/ /\ s.op \in {"LoadPF", "LoadPV"} /\ ViewReads(View, mem, p, n)
         /\ Does(PutWords(View, mem, s.c, read, WordsOf(s.op)))
      \/ Does(Loaded(s, PtrRead(N(s.a), off, n)))
      \/ Faults("bad read")
  BY DEF LoadPointer
<1>4. n \in Nat /\ (s.op \in {"LoadPF", "LoadPV"} => n # 0 /\ n = WordsOf(s.op) * WordBytes)
  BY <1>1, LoadedBytesType
<1> HIDE DEF index, off, p, read
<1>5. Keeps(mem, Loaded(s, PtrRead(N(s.a), off, n)))
  BY <1>1, <1>2, <1>4, PtrReadType, LoadedKeeps
<1> HIDE DEF n
<1>6. ASSUME s.op \in {"LoadPF", "LoadPV"}, ViewReads(View, mem, p, n)
      PROVE  Keeps(mem, PutWords(View, mem, s.c, read, WordsOf(s.op)))
  <2>1. Readable(mem, p, n) /\ read = Read(mem, p, n)
    BY <1>0, <1>2, <1>4, <1>6, ViewReadIsRead DEF read
  <2>2. read \in Seq(Byte) /\ Len(read) = n
    BY <1>0, <1>2, <1>4, <2>1, ReadType
  <2>3. WordsOf(s.op) \in 1 .. 3 /\ View \in {View, "whole"}
    BY WordsOfType
  <2>4. Reaches(s.c, WordsOf(s.op))
    BY <1>0, <1>1, <2>3, Operands, OperandReach DEF Reaches
  <2>5. WordsOf(s.op) * WordBytes <= Len(read)
    BY <1>4, <1>6, <2>2
  <2> QED
    BY <1>0, <2>2, <2>3, <2>4, <2>5, PutWordsKeeps
<1> QED
  BY <1>3, <1>5, <1>6, DoesEffect, FaultEffect

LEMMA LoadConvertedEffect ==
  ASSUME Sound, NEW s \in Statements, LoadConverted(s)
  PROVE  Effect
<1> DEFINE v == Num(Read(mem, N(s.a), WordBytes))
           w == IF s.op = "LoadPItoF" THEN FloatOf(Signed(v)) ELSE Wrap(F2I(v))
<1>0. s.a \in Nat /\ s.op \notin NoC /\ IsMemory(mem) /\ WordBytes \in Nat
  BY Operands, LoadsInC, MemoryAssumption DEF Sound, LoadConverted
<1>1. N(s.a) \in Nat
  BY <1>0, WordTypes
<1>2. \/ Readable(mem, N(s.a), WordBytes) /\ Does(Set(mem, s.c, w))
      \/ Faults("bad read")
  BY DEF LoadConverted
<1>3. ASSUME Readable(mem, N(s.a), WordBytes) PROVE Keeps(mem, Set(mem, s.c, w))
  <2>1. /\ Read(mem, N(s.a), WordBytes) \in Seq(Byte)
        /\ Len(Read(mem, N(s.a), WordBytes)) = WordBytes
    BY <1>0, <1>1, <1>3, ReadType
  <2>2. v \in 0 .. Vals(WordBytes) - 1
    BY <2>1, NumType
  <2> HIDE DEF v
  <2>3. v \in Word /\ v \in 0 .. 2 * WordVals - 1
    BY <2>2, Sizes DEF Word, WordVals
  <2>4. FloatOf(Signed(v)) \in Int /\ Wrap(F2I(v)) \in Int
    BY <2>3, SignedType, TruncType DEF Word
  <2>5. w \in Int
    BY <2>4
  <2> QED
    BY <1>0, <2>5, PutsInC
<1> QED
  BY <1>2, <1>3, DoesEffect, FaultEffect

LEMMA SameBlock ==
  ASSUME NEW p \in Nat, p >= EBase, NEW j \in Nat, Within(p) + j < Stride
  PROVE  EntOf(p + j) = EntOf(p) /\ Within(p + j) = Within(p) + j
<1>1. EBase \in Nat /\ Stride \in Nat \ {0}
  BY MemoryAssumption
<1>2. /\ EntOf(p) \in Nat /\ Within(p) \in 0 .. Stride - 1
      /\ p - EBase = EntOf(p) * Stride + Within(p)
  BY PlaceInE
<1>3. /\ EntOf(p + j) \in Nat /\ Within(p + j) \in 0 .. Stride - 1
      /\ (p + j) - EBase = EntOf(p + j) * Stride + Within(p + j)
  <2>1. p + j \in Nat /\ p + j >= EBase
    BY <1>1
  <2> QED
    BY <2>1, PlaceInE
<1> DEFINE q1 == EntOf(p)
           r1 == Within(p) + j + 1
           q2 == EntOf(p + j)
           r2 == Within(p + j) + 1
<1>4. q1 \in Nat /\ q2 \in Nat /\ r1 \in 1 .. Stride /\ r2 \in 1 .. Stride
  BY <1>1, <1>2, <1>3
<1>5. q1 * Stride + r1 = q2 * Stride + r2
  <2>1. (p + j) - EBase = (p - EBase) + j
    BY <1>1
  <2>2. q1 * Stride \in Nat /\ q2 * Stride \in Nat
    BY <1>1, <1>4
  <2>3. q1 * Stride + Within(p) + j = q2 * Stride + Within(p + j)
    BY <1>2, <1>3, <2>1
  <2> DEFINE u == q1 * Stride
             v == q2 * Stride
  <2>4. u \in Nat /\ v \in Nat /\ u + Within(p) + j = v + Within(p + j)
    BY <2>2, <2>3
  <2> HIDE DEF u, v
  <2>5. u + r1 = v + r2
    BY <1>2, <1>3, <2>4
  <2> QED
    BY <2>5 DEF u, v
<1> HIDE DEF q1, q2
<1>6. q1 = q2 /\ r1 = r2
  <2> HIDE DEF r1, r2
  <2> QED
    BY <1>4, <1>5, OneBlock
<1>7. Within(p) + j = Within(p + j)
  BY <1>2, <1>3, <1>6
<1> QED
  BY <1>6, <1>7 DEF q1, q2

\* The heap starts where the blocks end.
LEMMA PastBlocks ==
  ASSUME NEW m, IsMemory(m), NEW p \in Nat, p >= HBase
  PROVE  p >= EBase /\ ~(EntOf(p) < NumEdicts(m)) /\ p >= Len(m.s)
<1>1. EBase \in Nat /\ HBase \in Nat /\ Stride \in Nat \ {0}
  BY MemoryAssumption
<1>2. /\ NumEdicts(m) \in Nat /\ EBase + NumEdicts(m) * Stride <= HBase
      /\ Len(m.s) \in Nat /\ Len(m.s) <= EBase
  BY MemoryType
<1>3. NumEdicts(m) * Stride \in Nat
  BY <1>1, <1>2
<1>4. p >= EBase
  BY <1>1, <1>2, <1>3
<1>5. /\ EntOf(p) \in Nat /\ Within(p) \in 0 .. Stride - 1
      /\ p - EBase = EntOf(p) * Stride + Within(p)
  BY <1>4, PlaceInE
<1>6. ASSUME EntOf(p) < NumEdicts(m) PROVE FALSE
  <2> DEFINE q == EntOf(p)
             k == NumEdicts(m)
  <2>1. q \in Nat /\ k \in Nat /\ q < k
    BY <1>2, <1>5, <1>6
  <2> HIDE DEF q, k
  <2>2. k - q - 1 \in Nat /\ k * Stride = q * Stride + Stride + (k - q - 1) * Stride
    BY <1>1, <2>1
  <2>3. (k - q - 1) * Stride \in Nat /\ q * Stride \in Nat
    BY <1>1, <2>1, <2>2
  <2> DEFINE u == q * Stride
             v == (k - q - 1) * Stride
             w == k * Stride
  <2>4. u \in Nat /\ v \in Nat /\ w = u + Stride + v
    BY <2>2, <2>3
  <2>5. p - EBase = u + Within(p) /\ EBase + w <= HBase
    BY <1>2, <1>5 DEF q, k
  <2> HIDE DEF u, v, w
  <2> QED
    BY <1>1, <1>5, <2>4, <2>5
<1> QED
  BY <1>1, <1>2, <1>4, <1>6

\* A part of what may be written may be written, also once other parts are.
LEMMA PartWritable ==
  ASSUME NEW m, NEW d, Keeps(m, d), NEW p \in Nat, NEW n \in Nat, CheckWrite(m, p, n) = "ok",
         NEW j \in Nat, NEW k \in Nat \ {0}, j + k <= n
  PROVE  CheckWrite(d, p + j, k) = "ok"
<1>0. /\ IsMemory(m) /\ IsMemory(d) /\ Len(d.s) = Len(m.s) /\ Len(d.h) = Len(m.h)
      /\ d.slots = m.slots /\ NumEdicts(d) = NumEdicts(m)
      /\ \A e : Protected(d, e) = Protected(m, e)
  BY DEF Keeps, NumEdicts, Protected
<1>1. /\ Len(m.s) \in Nat /\ Len(m.h) \in Nat /\ Len(m.s) <= EBase /\ EBase \in Nat /\ HBase \in Nat
      /\ NumEdicts(m) \in Nat /\ FieldBytes \in Nat /\ FieldBytes <= Stride /\ Stride \in Nat
  BY <1>0, MemoryType, MemoryAssumption
<1>2. p # 0 /\ Locate(m, p, n) # Nowhere /\ p + j # 0 /\ p + j \in Nat
  BY DEF CheckWrite
<1>3. CASE InS(m, p, n)
  <2>1. InS(d, p + j, k)
    BY <1>0, <1>1, <1>3 DEF InS
  <2> QED
    BY <1>2, <2>1, NowhereElse DEF CheckWrite, Locate
<1>4. CASE ~InS(m, p, n) /\ InE(m, p, n)
  <2>1. p >= EBase /\ EntOf(p) < NumEdicts(m) /\ Within(p) + n <= FieldBytes
    BY <1>4 DEF InE
  <2>2. EntOf(p) \in Nat /\ Within(p) \in Nat
    BY <2>1, PlaceInE
  <2>3. Within(p) + j < Stride /\ Within(p) + j + k <= FieldBytes
    BY <1>1, <2>1, <2>2
  <2>4. EntOf(p + j) = EntOf(p) /\ Within(p + j) = Within(p) + j
    BY <2>1, <2>3, SameBlock
  <2>5. InE(d, p + j, k) /\ ~InS(d, p + j, k)
    BY <1>0, <1>1, <1>2, <2>1, <2>3, <2>4 DEF InE, InS
  <2>6. ~Protected(m, EntOf(p))
    BY <1>4, NowhereElse DEF CheckWrite, Locate
  <2> QED
    BY <1>0, <1>2, <2>4, <2>5, <2>6, NowhereElse DEF CheckWrite, Locate
<1>5. CASE ~InS(m, p, n) /\ ~InE(m, p, n)
  <2>1. InH(m, p, n)
    BY <1>2, <1>5 DEF Locate
  <2>2. p >= HBase /\ p - HBase + n <= Len(m.h)
    BY <2>1 DEF InH
  <2>3. p + j >= HBase /\ (p + j) - HBase + k <= Len(d.h)
    BY <1>0, <1>1, <2>2
  <2>4. ~(EntOf(p + j) < NumEdicts(d)) /\ p + j >= Len(d.s)
    BY <1>0, <1>2, <2>3, PastBlocks
  <2>5. ~InS(d, p + j, k) /\ ~InE(d, p + j, k) /\ InH(d, p + j, k)
    BY <1>0, <1>1, <1>2, <2>3, <2>4 DEF InS, InE, InH
  <2> QED
    BY <1>2, <2>5, NowhereElse DEF CheckWrite, Locate
<1> QED
  BY <1>3, <1>4, <1>5

Compounds == QuickCompounds \union BitCompounds \union PointerVectors

LEMMA CompoundAtKeeps ==
  ASSUME NEW s \in Statements, s.op \in Compounds, NEW m, IsMemory(m), NEW p \in Nat,
         CheckWrite(m, p, WordBytes) = "ok", NEW o, InReach(o), NEW by \in Word
  PROVE  Keeps(m, CompoundAt(s, m, p, o, by))
<1> DEFINE old == Num(Read(m, p, WordBytes))
           v == CompoundResult(s.op, old, by)
           written == Written(m, p, BytesOf(v, WordBytes))
<1>0. WordBytes \in Nat
  BY MemoryAssumption
<1>1. Readable(m, p, WordBytes)
  BY DEF CheckWrite, Readable
<1>2. Read(m, p, WordBytes) \in Seq(Byte) /\ Len(Read(m, p, WordBytes)) = WordBytes
  BY <1>0, <1>1, ReadType
<1>3. old \in 0 .. Vals(WordBytes) - 1
  BY <1>2, NumType
<1>4. old \in Word
  BY <1>3 DEF Word, WordVals
<1> HIDE DEF old
<1>5. v \in Int
  BY <1>4, CompoundResultType DEF Compounds, QuickCompounds, BitCompounds, PointerVectors
<1>6. CompoundAt(s, m, p, o, by) = IF s.op \in BitCompounds THEN written ELSE Set(written, o, v)
  BY DEF CompoundAt, old
<1> HIDE DEF v
<1>7. BytesOf(v, WordBytes) \in Seq(Byte) /\ Len(BytesOf(v, WordBytes)) = WordBytes
  BY <1>0, <1>5, BytesOfType
<1>8. Keeps(m, written)
  BY <1>7, WrittenKeeps
<1> HIDE DEF written
<1>9. Keeps(written, Set(written, o, v))
  BY <1>5, <1>8, PutKeeps DEF Keeps
<1>10. Keeps(m, Set(written, o, v))
  BY <1>8, <1>9, KeepsTwice
<1> QED
  BY <1>6, <1>8, <1>10

LEMMA CompoundPointerEffect ==
  ASSUME Sound, NEW s \in Statements, CompoundPointer(s)
  PROVE  Effect
<1> DEFINE p == N(s.b)
           n == IF s.op \in PointerVectors THEN 3 ELSE 1
           by(m, k) == IF s.op = "MulStorePVF" THEN Num(WordAt("whole", mem, s.a))
                                               ELSE Num(WordAt("whole", m, Nth(s.a, k)))
           one(m, k) == CompoundAt(s, m, Nth(p, k), Nth(s.c, k), by(m, k))
           after == CASE n = 1 -> one(mem, 1) [] n = 2 -> one(one(mem, 1), 2)
                      [] n = 3 -> one(one(one(mem, 1), 2), 3)
           viewed == CompoundResult(s.op, Num(ViewRead(View, mem, p, WordBytes)), N(s.a))
           fast == Put(ViewWritten(View, mem, p, BytesOf(viewed, WordBytes)), s.c, viewed)
<1>0. /\ s.a \in Nat /\ s.b \in Nat /\ s.c \in Nat /\ IsMemory(mem) /\ mem.s # <<>> /\ WindowIn(mem)
      /\ WordBytes \in Nat \ {0}
  BY Operands, MemoryAssumption DEF Sound
<1>1. s.op \in Compounds /\ s.op \notin NoC
  BY LoadsInC DEF CompoundPointer, Compounds
<1>2. N(s.a) \in Word /\ p \in Nat
  BY <1>0, WordTypes
<1>3. Reaches(s.c, 3) /\ InReach(s.c)
  BY <1>1, Operands, OperandReach
<1>4. \/ s.op \in QuickCompounds /\ ViewWrites(View, mem, p, WordBytes) /\ Does(fast)
      \/ CheckWrite(mem, p, n * WordBytes) = "ok" /\ Does(after)
      \/ Warns("read only", mem) \/ Faults("null write") \/ Faults("bad write")
  <2> DEFINE verdict == CheckWrite(mem, p, n * WordBytes)
  <2>1. verdict \in {"ok", "null", "invalid", "protected"}
    BY DEF CheckWrite
  <2>2. \/ s.op \in QuickCompounds /\ ViewWrites(View, mem, p, WordBytes) /\ Does(fast)
        \/ (CASE verdict = "ok" -> Does(after)
              [] verdict = "protected" -> Warns("read only", mem)
              [] verdict = "null" -> Faults("null write")
              [] verdict = "invalid" -> Faults("bad write"))
    BY DEF CompoundPointer, InTurn
  <2> HIDE DEF verdict, after, fast, p, n
  <2>3. \/ s.op \in QuickCompounds /\ ViewWrites(View, mem, p, WordBytes) /\ Does(fast)
        \/ verdict = "ok" /\ Does(after)
        \/ Warns("read only", mem) \/ Faults("null write") \/ Faults("bad write")
    BY <2>1, <2>2
  <2> QED
    BY <2>3 DEF verdict
<1> HIDE DEF p
<1>5. ASSUME CheckWrite(mem, p, n * WordBytes) = "ok"
      PROVE  Keeps(mem, after)
  <2>1. ASSUME NEW m, Keeps(mem, m), NEW k \in 1 .. 3, k <= n
        PROVE  Keeps(mem, one(m, k))
    <3>1. IsMemory(m) /\ n \in Nat /\ n * WordBytes \in Nat
      BY <1>0, <2>1 DEF Keeps
    <3>2. (k - 1) * WordBytes \in Nat /\ (k - 1) * WordBytes + WordBytes <= n * WordBytes
      BY <1>0, <2>1
    <3> DEFINE j == (k - 1) * WordBytes
               l == n * WordBytes
    <3>3. j \in Nat /\ l \in Nat /\ j + WordBytes <= l /\ CheckWrite(mem, p, l) = "ok"
      BY <1>5, <3>1, <3>2
    <3>4. Nth(p, k) = p + j /\ Nth(s.a, k) = s.a + j
      BY DEF Nth
    <3> HIDE DEF j, l
    <3>8. CheckWrite(m, p + j, WordBytes) = "ok"
      <4>1. /\ Keeps(mem, m) /\ p \in Nat /\ l \in Nat /\ CheckWrite(mem, p, l) = "ok"
            /\ j \in Nat /\ WordBytes \in Nat \ {0} /\ j + WordBytes <= l
        BY <1>0, <1>2, <2>1, <3>3
      <4>2. \A m1, d1 : \A p1, n1, j1 \in Nat : \A k1 \in Nat \ {0} :
                Keeps(m1, d1) /\ CheckWrite(m1, p1, n1) = "ok" /\ j1 + k1 <= n1
                => CheckWrite(d1, p1 + j1, k1) = "ok"
        BY PartWritable
      <4>3. Keeps(mem, m) /\ CheckWrite(mem, p, l) = "ok" /\ j + WordBytes <= l
            => CheckWrite(m, p + j, WordBytes) = "ok"
        BY <4>1, <4>2
      <4> QED
        BY <4>1, <4>3
    <3>9. Nth(p, k) \in Nat /\ Nth(s.a, k) \in Nat /\ CheckWrite(m, Nth(p, k), WordBytes) = "ok"
      BY <1>0, <1>2, <3>3, <3>4, <3>8
    <3>5. by(m, k) \in Word
      BY <1>0, <3>1, <3>9, WordAtType
    <3>6. InReach(Nth(s.c, k))
      BY <1>3 DEF Reaches
    <3> HIDE DEF by
    <3>7. Keeps(m, one(m, k))
      BY <1>1, <3>1, <3>9, <3>5, <3>6, CompoundAtKeeps
    <3> HIDE DEF one
    <3> QED
      BY <2>1, <3>7, KeepsTwice
  <2>2. Keeps(mem, mem) /\ (n = 1 \/ n = 3)
    BY <1>0, KeepsSelf
  <2> HIDE DEF one, n
  <2>3. Keeps(mem, one(mem, 1))
    BY <2>1, <2>2
  <2>4. n = 3 => Keeps(mem, one(one(one(mem, 1), 2), 3))
    BY <2>1, <2>3
  <2> QED
    BY <2>2, <2>3, <2>4
<1> HIDE DEF after
<1>6. ASSUME s.op \in QuickCompounds, ViewWrites(View, mem, p, WordBytes)
      PROVE  Keeps(mem, fast)
  <2>1. ViewReads(View, mem, p, WordBytes)
    BY <1>6 DEF ViewWrites, ViewReads
  <2>2. /\ Readable(mem, p, WordBytes)
        /\ ViewRead(View, mem, p, WordBytes) = Read(mem, p, WordBytes)
    BY <1>0, <1>2, <2>1, ViewReadIsRead
  <2>3. Read(mem, p, WordBytes) \in Seq(Byte) /\ Len(Read(mem, p, WordBytes)) = WordBytes
    BY <1>0, <1>2, <2>2, ReadType
  <2>4. Num(ViewRead(View, mem, p, WordBytes)) \in 0 .. Vals(WordBytes) - 1
    BY <2>2, <2>3, NumType
  <2>5. Num(ViewRead(View, mem, p, WordBytes)) \in Word
    BY <2>4 DEF Word, WordVals
  <2>6. viewed \in Int
    BY <1>2, <1>6, <2>5, CompoundResultType DEF QuickCompounds
  <2> DEFINE b == BytesOf(viewed, WordBytes)
             written == ViewWritten(View, mem, p, b)
  <2>7. fast = Put(written, s.c, viewed)
    OBVIOUS
  <2> HIDE DEF viewed, fast
  <2>8. b \in Seq(Byte) /\ Len(b) = WordBytes
    BY <1>0, <2>6, BytesOfType
  <2> HIDE DEF b
  <2>9. ViewWrites(View, mem, p, Len(b)) /\ Len(b) # 0
    BY <1>0, <1>6, <2>8
  <2>10. CheckWrite(mem, p, Len(b)) = "ok" /\ written = Written(mem, p, b)
    BY <1>0, <1>2, <2>8, <2>9, ViewWriteIsWritten
  <2>11. Keeps(mem, written)
    BY <1>0, <1>2, <2>8, <2>10, WrittenKeeps
  <2> HIDE DEF written
  <2>12. Keeps(written, Put(written, s.c, viewed))
    BY <1>3, <2>6, <2>11, PutKeeps DEF Keeps
  <2> QED
    BY <2>7, <2>11, <2>12, KeepsTwice
<1> HIDE DEF fast, n
<1>7. Keeps(mem, mem)
  BY <1>0, KeepsSelf
<1> QED
  BY <1>4, <1>5, <1>6, <1>7, DoesEffect, FaultEffect

LEMMA ParmOffsets ==
  /\ OfsReturn \in Nat /\ OfsParm0 \in Nat /\ OfsParm1 \in Nat
  /\ OfsReturn >= 1 /\ OfsParm0 >= 1 /\ OfsParm1 >= 1
BY InterpreterAssumption, MemoryAssumption DEF OfsReturn, OfsParm0, OfsParm1

\* RETURN is an operand however few globals there are.
LEMMA ReturnOperand == IsOperand(OfsReturn)
<1>1. GBase \in Nat /\ NumGlobals \in Nat /\ WordBytes \in Nat \ {0}
  BY InterpreterAssumption, MemoryAssumption
<1>2. (NumGlobals + 3) * WordBytes = NumGlobals * WordBytes + 3 * WordBytes
  BY <1>1
<1>3. NumGlobals * WordBytes \in Nat
  BY <1>1
<1> QED
  BY <1>1, <1>2, <1>3 DEF IsOperand, OfsReturn

-----------------------------------------------------------------------------
(* The parameters of a call, which may lie beyond the globals.             *)

\* From m to d nothing changes but bytes of B in region S.
Rewrites(m, d, B) ==
  /\ Shapes(m, d) /\ d.e = m.e /\ d.h = m.h
  /\ \A i \in 1 .. Len(m.s) : d.s[i] = m.s[i] \/ i \in B

LEMMA RewritesSelf ==
  ASSUME NEW m, IsMemory(m), NEW B
  PROVE  Rewrites(m, m, B)
BY DEF Rewrites, Shapes, KeptIn

LEMMA RewritesTwice ==
  ASSUME NEW m, NEW d, NEW k, NEW B, Rewrites(m, d, B), Rewrites(d, k, B)
  PROVE  Rewrites(m, k, B)
<1>1. Shapes(m, k)
  BY DEF Rewrites, Shapes, KeptIn, NumEdicts, Protected
<1> QED
  BY <1>1 DEF Rewrites, Shapes

LEMMA PutWordRewrites ==
  ASSUME NEW m, IsMemory(m), NEW o \in Nat, NEW w \in Seq(Byte), Len(w) = WordBytes,
         NEW B, \A i \in 1 .. WordBytes : ViewOffset(View, o) + i \in B
  PROVE  Rewrites(m, PutWord(View, m, o, w), B)
<1> DEFINE at == ViewOffset(View, o)
           d == [m EXCEPT !.s = Patched(@, at, w)]
<1>1. at \in Nat /\ WordBytes \in Nat
  BY OffsetType, MemoryAssumption
<1> HIDE DEF at
<1>2. /\ Shapes(m, d) /\ d.e = m.e /\ d.h = m.h
      /\ \A i \in 1 .. Len(m.s) : i - at \notin 1 .. Len(w) => d.s[i] = m.s[i]
  BY <1>1, PatchShapes
<1>3. Len(m.s) \in Nat
  BY MemoryType
<1>4. \A i \in 1 .. WordBytes : at + i \in B
  BY DEF at
<1>5. ASSUME NEW i \in 1 .. Len(m.s), i - at \in 1 .. Len(w)
      PROVE  i \in B
  <2> DEFINE j == i - at
  <2>1. j \in 1 .. WordBytes /\ i = at + j
    BY <1>1, <1>3, <1>5
  <2> HIDE DEF j
  <2> QED
    BY <1>4, <2>1
<1> HIDE DEF d
<1>6. Rewrites(m, d, B)
  BY <1>2, <1>5 DEF Rewrites
<1>7. Rewrites(m, m, B)
  BY RewritesSelf
<1>8. PutWord(View, m, o, w) = IF at + WordBytes <= Len(m.s) THEN d ELSE m
  BY DEF PutWord, at, d
<1> QED
  BY <1>6, <1>7, <1>8

LEMMA CopyRewrites ==
  ASSUME NEW m, IsMemory(m), NEW src \in Nat, NEW dst \in Nat, NEW B,
         \A k \in 1 .. 3, i \in 1 .. WordBytes : ViewOffset(View, Nth(dst, k)) + i \in B
  PROVE  Rewrites(m, CopyWords(View, m, src, dst, 3), B)
<1> DEFINE one(d, k) == PutWord(View, d, Nth(dst, k), WordAt(View, d, Nth(src, k)))
<1>1. ASSUME NEW d, Rewrites(m, d, B), NEW k \in 1 .. 3
      PROVE  Rewrites(m, one(d, k), B)
  <2>1. Nth(src, k) \in Nat /\ Nth(dst, k) \in Nat
    BY MemoryAssumption DEF Nth
  <2>2. IsMemory(d)
    BY <1>1 DEF Rewrites, Shapes
  <2>3. WordAt(View, d, Nth(src, k)) \in Seq(Byte) /\ Len(WordAt(View, d, Nth(src, k))) = WordBytes
    BY <2>1, <2>2, WordAtType
  <2>4. Rewrites(d, one(d, k), B)
    BY <2>1, <2>2, <2>3, PutWordRewrites
  <2> HIDE DEF one
  <2> QED
    BY <1>1, <2>4, RewritesTwice
<1>2. CopyWords(View, m, src, dst, 3) = one(one(one(m, 1), 2), 3)
  BY DEF CopyWords, InTurn
<1> HIDE DEF one
<1>3. Rewrites(m, m, B)
  BY RewritesSelf
<1>4. Rewrites(m, one(m, 1), B)
  BY <1>1, <1>3
<1>5. Rewrites(m, one(one(m, 1), 2), B)
  BY <1>1, <1>4
<1>6. Rewrites(m, one(one(one(m, 1), 2), 3), B)
  BY <1>1, <1>5
<1> QED
  BY <1>2, <1>6

\* The copies before a call write nothing but the bytes of its parameters.
LEMMA ParmsRewrite ==
  ASSUME Sound, NEW s \in Statements
  PROVE  Rewrites(mem, WithParms(s), ParmBytes(s))
<1>1. IsMemory(mem) /\ s.b \in Nat /\ s.c \in Nat
  BY Operands DEF Sound
<1>2. CASE s.op \notin HexenCalls
  BY <1>1, <1>2, RewritesSelf DEF WithParms
<1>3. CASE s.op \in HexenCalls
  <2>1. /\ OfsParm0 \in ParmsOf(s.op)
        /\ CallArgc[s.op] >= 2 => OfsParm1 \in ParmsOf(s.op)
    BY <1>3 DEF ParmsOf
  <2>2. \A o \in ParmsOf(s.op), k \in 1 .. 3, i \in 1 .. WordBytes :
            ViewOffset(View, Nth(o, k)) + i \in ParmBytes(s)
    BY DEF ParmBytes
  <2> DEFINE second == IF CallArgc[s.op] >= 2 THEN Copied(s.c, OfsParm1, 3) ELSE mem
  <2>3. Rewrites(mem, second, ParmBytes(s))
    <3>1. CASE CallArgc[s.op] >= 2
      <4>1. Rewrites(mem, CopyWords(View, mem, s.c, OfsParm1, 3), ParmBytes(s))
        BY <1>1, <2>1, <2>2, <3>1, ParmOffsets, CopyRewrites
      <4> QED
        BY <3>1, <4>1 DEF Copied
    <3>2. CASE ~(CallArgc[s.op] >= 2)
      BY <1>1, <3>2, RewritesSelf
    <3> QED
      BY <3>1, <3>2
  <2>4. WithParms(s) = CopyWords(View, second, s.b, OfsParm0, 3)
    BY <1>3 DEF WithParms
  <2> HIDE DEF second
  <2>5. IsMemory(second)
    BY <2>3 DEF Rewrites, Shapes
  <2>6. Rewrites(second, CopyWords(View, second, s.b, OfsParm0, 3), ParmBytes(s))
    BY <1>1, <2>1, <2>2, <2>5, ParmOffsets, CopyRewrites
  <2> QED
    BY <2>3, <2>4, <2>6, RewritesTwice
<1> QED
  BY <1>2, <1>3

\* Parameters in view are where they should be, and none of them is at null.
LEMMA ParmReach ==
  ASSUME NEW s, ParmsInView(s), NEW o \in ParmsOf(s.op)
  PROVE  Reaches(o, 3)
<1>1. o \in Nat /\ o >= 1 /\ WordBytes \in Nat
  BY ParmOffsets, MemoryAssumption DEF ParmsOf
<1>2. View = "window" => o + 2 * WordBytes <= WindowMask
  BY DEF ParmsInView
<1>3. Nth(o, 1) = o /\ Nth(o, 2) = o + WordBytes /\ Nth(o, 3) = o + 2 * WordBytes
  BY <1>1 DEF Nth
<1>4. InReach(o) /\ InReach(o + WordBytes) /\ InReach(o + 2 * WordBytes)
  BY <1>1, <1>2, MemoryAssumption DEF InReach
<1>5. \A k \in 1 .. 3 : k = 1 \/ k = 2 \/ k = 3
  OBVIOUS
<1> QED
  BY <1>3, <1>4, <1>5 DEF Reaches

LEMMA ParmsKeep ==
  ASSUME Sound, NEW s \in Statements, ParmsInView(s)
  PROVE  Keeps(mem, WithParms(s))
<1>1. Rewrites(mem, WithParms(s), ParmBytes(s))
  BY ParmsRewrite
<1>2. 1 \notin ParmBytes(s)
  <2>1. ASSUME NEW o \in ParmsOf(s.op), NEW k \in 1 .. 3, NEW i \in 1 .. WordBytes
        PROVE  ViewOffset(View, Nth(o, k)) + i # 1
    <3>1. InReach(Nth(o, k)) /\ View \in {View, "whole"}
      BY ParmReach DEF Reaches
    <3>2. ViewOffset(View, Nth(o, k)) = Nth(o, k) /\ Nth(o, k) \in Nat /\ Nth(o, k) >= 1
      BY <3>1, ReachOffset DEF InReach
    <3> QED
      BY <3>2
  <2> QED
    BY <2>1 DEF ParmBytes
<1>3. 1 \in 1 .. Len(mem.s)
  <2>1. mem.s \in Seq(Byte) /\ mem.s # <<>> /\ Len(mem.s) \in Nat
    BY MemoryType DEF Sound
  <2> QED
    BY <2>1, EmptySeq
<1> QED
  BY <1>1, <1>2, <1>3 DEF Rewrites, Shapes, Keeps

LEMMA CallEffect ==
  ASSUME Sound, NEW s \in Statements, Call(s)
  PROVE  WeakEffect /\ (ParmsInView(s) => Effect)
<1>1. CASE Stops("none")
  BY <1>1, StillEffect, EffectWeak DEF Stops
<1>2. CASE mem' = WithParms(s) /\ UNCHANGED temps
  <2>1. Shapes(mem, mem')
    BY <1>2, ParmsRewrite DEF Rewrites
  <2>2. ParmsInView(s) => Keeps(mem, mem')
    BY <1>2, ParmsKeep
  <2> QED
    BY <1>2, <2>1, <2>2 DEF WeakEffect, Effect, Sound
<1>3. Stops("none") \/ (mem' = WithParms(s) /\ UNCHANGED temps)
  BY Zenon DEF Call, Calls, Leaves
<1> QED
  BY <1>1, <1>2, <1>3

LEMMA ControlEffect ==
  ASSUME Sound, NEW s \in Statements,
         \/ Branch(s) \/ Switch(s) \/ Case(s) \/ CaseRange(s) \/ Return(s) \/ StateOp(s)
         \/ Unexecutable(s)
  PROVE  Effect
<1>0. Keeps(mem, mem) /\ s.a \in Nat
  BY KeepsSelf, Operands DEF Sound
<1>1. CASE Branch(s) \/ Switch(s) \/ Case(s) \/ CaseRange(s) \/ Unexecutable(s)
  BY <1>0, <1>1, JumpEffect, DoesEffect, FaultEffect, Zenon DEF Branch, Switch, Case, CaseRange,
     Unexecutable
<1>3. CASE Return(s)
  <2>1. CASE Stops("none")
    BY <2>1, StillEffect DEF Stops
  <2>2. CASE mem' = Copied(s.a, OfsReturn, 3) /\ UNCHANGED temps
    <3>1. 3 \in 1 .. 3 /\ View \in {View, "whole"}
      OBVIOUS
    <3>2. Keeps(mem, Copied(s.a, OfsReturn, 3))
      BY <1>0, <3>1, ParmOffsets, ReturnOperand, CopiedKeeps
    <3> QED
      BY <2>2, <3>2 DEF Sound, Effect
  <2> QED
    BY <1>3, <2>1, <2>2 DEF Return, Leaves
<1>4. CASE StateOp(s)
  BY <1>4, StillEffect DEF StateOp, Leaves
<1> QED
  BY <1>1, <1>3, <1>4

LEMMA StepEffect ==
  ASSUME Sound, Registers, Next
  PROVE  WeakEffect /\ (ParmsInView(st') => Effect)
<1>1. PICK s \in Statements : Execute(s)
  BY DEF Next
<1>2. st' = s
  BY <1>1 DEF Execute
<1>3. Call(s) \/ Effect
  BY <1>1, ArithmeticEffect, VectorEffect, RandomEffect, StringEffect, StoreGlobalEffect,
     CompoundGlobalEffect, ArrayEffect, AddressEffect, FieldEffect, StorePointerEffect,
     LoadPointerEffect, LoadConvertedEffect, CompoundPointerEffect, ControlEffect, Zenon DEF Execute
<1> QED
  BY <1>2, <1>3, CallEffect, EffectWeak

-----------------------------------------------------------------------------
(* Registers.                                                              *)

Running == Registers /\ exit \in Endings /\ x.pc < NumStatements

\* What a statement leaves of the registers.
Steady == x' \in Regs /\ budget' \in Nat /\ exit' \in Endings /\ warned' \in Warnings

LEMMA WarningTypes ==
  /\ \A refs : StringWarning(refs) \in Warnings
  /\ \A e : BadAccess(e) \in Warnings
  /\ {"none", "bad entity", "read only"} \subseteq Warnings
  /\ \A a : CaseWarning(a) \in Warnings
BY DEF StringWarning, BadAccess, CaseWarning, Warnings

LEMMA EndingTypes ==
  /\ {"array index", "bound", "pushed too much", "bad read"} \subseteq Endings
  /\ {"null write", "bad write", "string case range"} \subseteq Endings
  /\ {"call", "returned", "state op", "budget", "run"} \subseteq Endings
  /\ Unexecutables \subseteq Endings /\ CallFaults \subseteq Endings
BY DEF Endings

LEMMA DoesSteady ==
  ASSUME Running, NEW kind \in Warnings, NEW m, Does(m) \/ Warns(kind, m)
  PROVE  Steady
<1>1. x \in Regs /\ x.pc + 1 \in 0 .. NumStatements
  BY InterpreterAssumption DEF Running, Registers, Regs
<1>2. [x EXCEPT !.pc = @ + 1] \in Regs
  BY <1>1 DEF Regs
<1> QED
  BY <1>2, WarningTypes DEF Running, Registers, Steady, Does, Warns, Advance

LEMMA FaultSteady ==
  ASSUME Registers, NEW kind \in Endings, Faults(kind)
  PROVE  Steady
BY DEF Registers, Steady, Faults, Warnings

LEMMA StopSteady ==
  ASSUME Registers, NEW kind \in Warnings, Stops(kind)
  PROVE  budget' \in Nat /\ exit' \in Endings /\ warned' \in Warnings
<1>1. budget' \in Nat
  BY DEF Registers, Stops, Spent, Ticks
<1>2. "budget" \in Endings
  BY EndingTypes
<1> QED
  BY <1>1, <1>2 DEF Stops

LEMMA JumpSteady ==
  ASSUME Running, NEW kind \in Warnings, NEW t \in 0 .. NumStatements, NEW regs \in Regs,
         JumpsTo(kind, t, regs)
  PROVE  Steady
<1>1. x.pc \in 0 .. NumStatements
  BY DEF Running, Registers, Regs
<1>2. [regs EXCEPT !.pc = x.pc] \in Regs /\ [regs EXCEPT !.pc = t] \in Regs
  BY <1>1 DEF Regs
<1>3. CASE Stops(kind) /\ x' = [regs EXCEPT !.pc = x.pc]
  BY <1>2, <1>3, StopSteady DEF Running, Steady
<1>4. CASE Counted(kind, [regs EXCEPT !.pc = t])
  BY <1>2, <1>4 DEF Counted, Ticks, Running, Registers, Steady
<1> QED
  BY <1>3, <1>4 DEF JumpsTo

LEMMA LeavesSteady ==
  ASSUME NEW kind \in Endings, NEW m, NEW regs \in Regs, Leaves(kind, m, regs), budget' \in Nat
  PROVE  Steady
BY DEF Leaves, Steady, Warnings

LEMMA ComputeSteady ==
  ASSUME Running, NEW s \in Statements,
         \/ WordStatement(s) \/ BitCopyStatement(s) \/ LongStatement(s) \/ VectorStatement(s)
         \/ RandomStatement(s) \/ StringStatement(s) \/ StoreGlobal(s) \/ CompoundGlobal(s)
         \/ LoadGlobal(s) \/ GStore(s) \/ FetchGlobal(s) \/ GlobalAddress(s) \/ BoundCheck(s)
  PROVE  Steady
<1>0. Registers /\ "none" \in Warnings /\ "array index" \in Endings /\ "bound" \in Endings
  BY WarningTypes, EndingTypes DEF Running
<1>1. \A m : Does(m) => Steady
  BY <1>0, DoesSteady
<1>2. \A refs, m : Warns(StringWarning(refs), m) => Steady
  BY WarningTypes, DoesSteady
<1>3. ~Faults("array index") \/ Steady
  BY <1>0, FaultSteady
<1>4. ~Faults("bound") \/ Steady
  BY <1>0, FaultSteady
<1>5. CASE \/ WordStatement(s) \/ BitCopyStatement(s) \/ LongStatement(s) \/ VectorStatement(s)
           \/ RandomStatement(s) \/ GlobalAddress(s)
  BY <1>1, <1>5, Zenon DEF WordStatement, BitCopyStatement, LongStatement, VectorStatement,
     RandomStatement, GlobalAddress
<1>6. CASE StringStatement(s) \/ StoreGlobal(s) \/ CompoundGlobal(s)
  BY <1>1, <1>2, <1>6, Zenon DEF StringStatement, StoreGlobal, CompoundGlobal
<1>7. CASE LoadGlobal(s) \/ GStore(s) \/ FetchGlobal(s) \/ BoundCheck(s)
  BY <1>1, <1>3, <1>4, <1>7, Zenon DEF LoadGlobal, GStore, FetchGlobal, BoundCheck
<1> QED
  BY <1>5, <1>6, <1>7

LEMMA MemorySteady ==
  ASSUME Sound, Running, NEW s \in Statements,
         \/ Push(s) \/ LoadField(s) \/ Address(s) \/ StoreField(s) \/ StorePointer(s)
         \/ LoadPointer(s) \/ LoadConverted(s) \/ CompoundPointer(s)
  PROVE  Steady
<1>0. /\ Registers /\ "none" \in Warnings /\ "bad entity" \in Warnings /\ "read only" \in Warnings
      /\ "pushed too much" \in Endings /\ "bad read" \in Endings /\ "null write" \in Endings
      /\ "bad write" \in Endings
  BY WarningTypes, EndingTypes DEF Running
<1>1. \A m : Does(m) => Steady
  BY <1>0, DoesSteady
<1>2. \A m : /\ Warns("bad entity", m) => Steady
             /\ Warns("read only", m) => Steady
  BY <1>0, DoesSteady
<1>3. \A e, m : Warns(BadAccess(e), m) => Steady
  BY WarningTypes, DoesSteady
<1>4. /\ Faults("pushed too much") => Steady
      /\ Faults("bad read") => Steady
      /\ Faults("null write") => Steady
      /\ Faults("bad write") => Steady
  BY <1>0, FaultSteady
<1>5. CASE Push(s)
  <2>1. N(s.a) \in Nat
    BY Operands, WordTypes
  <2>2. x \in Regs /\ x.pc + 1 \in 0 .. NumStatements /\ x.pushed + N(s.a) \in Nat
    BY <2>1, InterpreterAssumption DEF Running, Registers, Regs
  <2>3. [x EXCEPT !.pc = @ + 1, !.pushed = @ + N(s.a)] \in Regs
    BY <2>2 DEF Regs
  <2>4. \/ Faults("pushed too much")
        \/ /\ x' = [x EXCEPT !.pc = @ + 1, !.pushed = @ + N(s.a)]
           /\ warned' = "none" /\ UNCHANGED <<budget, exit>>
    BY <1>5 DEF Push
  <2> QED
    BY <1>0, <1>4, <2>3, <2>4 DEF Running, Registers, Steady
<1>6. CASE LoadField(s) \/ Address(s) \/ StoreField(s)
  BY <1>1, <1>2, <1>3, <1>6, Zenon DEF LoadField, Address, StoreField
<1>7. CASE LoadPointer(s) \/ LoadConverted(s)
  BY <1>1, <1>4, <1>7, Zenon DEF LoadPointer, LoadConverted
<1>8. ASSUME NEW base, NEW off, NEW bytes, WriteElsewhere(base, off, bytes)
      PROVE  Steady
  <2>1. \/ Does(mem) \/ Faults("bad write") \/ Faults("null write")
        \/ Advance /\ warned' = "none" /\ UNCHANGED <<budget, exit>>
    BY <1>8, Zenon DEF WriteElsewhere
  <2>2. ASSUME Advance, warned' = "none", UNCHANGED <<budget, exit>> PROVE Steady
    <3>1. x \in Regs /\ x.pc + 1 \in 0 .. NumStatements
      BY InterpreterAssumption DEF Running, Registers, Regs
    <3>2. [x EXCEPT !.pc = @ + 1] \in Regs
      BY <3>1 DEF Regs
    <3> QED
      BY <1>0, <2>2, <3>2 DEF Running, Registers, Steady, Advance
  <2> QED
    BY <1>1, <1>4, <2>1, <2>2
<1>9. ASSUME NEW base, NEW off, NEW bytes, PtrWrite(base, off, bytes)
      PROVE  Steady
  <2> DEFINE verdict == CheckWrite(mem, Wrap(base + off), Len(bytes))
  <2>1. verdict \in {"ok", "null", "invalid", "protected"}
    BY DEF CheckWrite
  <2>2. CASE verdict = "ok" \/ verdict = "protected"
    BY <1>1, <1>2, <1>9, <2>2 DEF PtrWrite
  <2>3. CASE verdict = "null" \/ verdict = "invalid"
    BY <1>8, <1>9, <2>3 DEF PtrWrite
  <2> QED
    BY <2>1, <2>2, <2>3
<1>10. CASE StorePointer(s)
  BY <1>1, <1>9, <1>10, Zenon DEF StorePointer
<1>11. CASE CompoundPointer(s)
  <2>1. PICK m, v, n : \/ Does(m)
                       \/ /\ v = CheckWrite(mem, N(s.b), n)
                          /\ CASE v = "ok" -> Does(m)
                               [] v = "protected" -> Warns("read only", mem)
                               [] v = "null" -> Faults("null write")
                               [] v = "invalid" -> Faults("bad write")
    BY <1>11, Zenon DEF CompoundPointer
  <2>2. v = CheckWrite(mem, N(s.b), n) => v \in {"ok", "null", "invalid", "protected"}
    BY DEF CheckWrite
  <2>3. Does(m) \/ Warns("read only", mem) \/ Faults("null write") \/ Faults("bad write")
    BY <2>1, <2>2
  <2> QED
    BY <1>1, <1>2, <1>4, <2>3
<1> QED
  BY <1>5, <1>6, <1>7, <1>10, <1>11

LEMMA ControlSteady ==
  ASSUME Running, NEW s \in Statements,
         \/ Branch(s) \/ Switch(s) \/ Case(s) \/ CaseRange(s) \/ Call(s) \/ Return(s) \/ StateOp(s)
  PROVE  Steady
<1>0. /\ Registers /\ x \in Regs /\ x.pc + 1 \in 0 .. NumStatements
      /\ "none" \in Warnings /\ "string case range" \in Endings
  <2>1. Registers /\ x \in Regs /\ x.pc + 1 \in 0 .. NumStatements
    BY InterpreterAssumption DEF Running, Registers, Regs
  <2> QED
    BY <2>1, WarningTypes, EndingTypes
<1>1. \A m : Does(m) => Steady
  BY <1>0, DoesSteady
<1>2. \A kind \in Warnings, t \in 0 .. NumStatements : JumpsTo(kind, t, x) => Steady
  BY <1>0, JumpSteady
<1>3. \A t \in Nat : IsTarget(t) => t \in 0 .. NumStatements
  BY InterpreterAssumption DEF IsTarget
<1>4. CASE Branch(s)
  <2>1. IF s.op = "Goto" THEN s.a \in 0 .. NumStatements ELSE s.b \in 0 .. NumStatements
    BY <1>3, <1>4, Operands DEF Branch, JumpsToB
  <2>2. PICK taken : JumpsTo("none", IF ~taken THEN x.pc + 1 ELSE IF s.op = "Goto" THEN s.a ELSE s.b, x)
    BY <1>4, Zenon DEF Branch
  <2> DEFINE t == IF ~taken THEN x.pc + 1 ELSE IF s.op = "Goto" THEN s.a ELSE s.b
  <2>3. t \in 0 .. NumStatements
    BY <1>0, <2>1
  <2>4. JumpsTo("none", t, x)
    BY <2>2
  <2> HIDE DEF t
  <2> QED
    BY <1>0, <1>2, <2>3, <2>4
<1>5. CASE Switch(s)
  <2> DEFINE regs == [x EXCEPT !.switchRef = s.a, !.switchKind = SwitchKindOf(s.op)]
  <2>1. s.a \in Nat /\ s.b \in 0 .. NumStatements
    BY <1>3, <1>5, Operands DEF Switch, JumpsToB
  <2>2. SwitchKindOf(s.op) \in SwitchKinds
    BY <1>5 DEF Switch, Switches, SwitchKindOf, SwitchKinds
  <2>3. regs \in Regs
    BY <1>0, <2>1, <2>2 DEF Regs
  <2>4. JumpsTo("none", s.b, regs)
    BY <1>5 DEF Switch
  <2> HIDE DEF regs
  <2> QED
    BY <1>0, <2>1, <2>3, <2>4, JumpSteady
<1>6. CASE Case(s)
  <2>1. s.b \in 0 .. NumStatements
    BY <1>3, <1>6, Operands DEF Case, JumpsToB
  <2>2. CaseWarning(s.a) \in Warnings
    BY WarningTypes
  <2>3. Warns(CaseWarning(s.a), mem) => Steady
    BY <2>2, DoesSteady
  <2> QED
    BY <1>2, <1>6, <2>1, <2>2, <2>3, Zenon DEF Case
<1>7. CASE CaseRange(s)
  <2>1. s.c \in 0 .. NumStatements
    BY <1>3, <1>7, Operands DEF CaseRange
  <2>2. Faults("string case range") => Steady
    BY <1>0, FaultSteady
  <2> QED
    BY <1>0, <1>1, <1>2, <1>7, <2>1, <2>2, Zenon DEF CaseRange
<1>8. CASE Call(s) \/ Return(s)
  <2>1. CASE Stops("none") /\ UNCHANGED x
    BY <1>0, <2>1, StopSteady DEF Steady
  <2>2. ~Spent /\ Ticks => budget' \in Nat
    BY DEF Spent, Ticks, Running, Registers
  <2>3. CASE ~Spent /\ Ticks /\ \E m : Leaves("returned", m, x)
    BY <1>0, <2>2, <2>3, EndingTypes, LeavesSteady
  <2>4. CASE s.op \in DOMAIN CallArgc /\ ~Spent /\ Ticks /\ Calls(s)
    <3> DEFINE passed == WithParms(s)
               regs(kind) == [x EXCEPT !.pc = IF kind = "call" THEN @ + 1 ELSE @,
                                       !.argc = CallArgc[s.op]]
    <3>1. PICK kind \in CallEndings(Num(WordAt(View, passed, s.a))) : Leaves(kind, passed, regs(kind))
      BY <2>4, Zenon DEF Calls
    <3>2. kind = "call" \/ kind \in CallFaults
      BY <3>1, CalleesAssumption DEF CallEndings, Callee, CallFaults, CalleeKinds
    <3>3. kind \in Endings
      BY <3>2, EndingTypes
    <3>4. CallArgc[s.op] \in 0 .. 8
      BY <2>4 DEF CallArgc
    <3>5. regs(kind) \in Regs
      BY <1>0, <3>4 DEF Regs
    <3>6. budget' \in Nat
      BY <2>2, <2>4
    <3> HIDE DEF regs, passed
    <3> QED
      BY <3>1, <3>3, <3>5, <3>6, LeavesSteady
  <2> QED
    BY <1>8, <2>1, <2>3, <2>4, Zenon DEF Call, Return
<1>9. CASE StateOp(s)
  <2>1. [x EXCEPT !.pc = @ + 1] \in Regs
    BY <1>0 DEF Regs
  <2> QED
    BY <1>9, <2>1, WarningTypes, EndingTypes DEF StateOp, Leaves, Running, Registers, Steady
<1> QED
  BY <1>4, <1>5, <1>6, <1>7, <1>8, <1>9

LEMMA StepSteady ==
  ASSUME Sound, Registers, exit \in Endings, Next
  PROVE  Steady
<1>1. PICK s \in Statements : Execute(s)
  BY DEF Next
<1>2. x.pc \in 0 .. NumStatements /\ NumStatements \in Nat
  BY InterpreterAssumption DEF Registers, Regs
<1>3. CASE s.op = "JumpOutOfRange"
  <2>1. "JumpOutOfRange" \in NoC /\ "JumpOutOfRange" \in Endings
    BY EndingTypes DEF NoC, Unexecutables
  <2>2. Faults("JumpOutOfRange") => Steady
    BY <2>1, FaultSteady
  <2>3. Unexecutable(s)
    <3>1. /\ ~LongStatement(s) /\ ~VectorStatement(s) /\ ~RandomStatement(s)
          /\ ~BitCopyStatement(s) /\ ~WordStatement(s)
      BY <1>3, <2>1, WordOpsInC, VectorArithOps
         DEF LongStatement, VectorStatement, RandomStatement, BitCopyStatement, WordStatement
    <3>2. /\ ~StringStatement(s) /\ ~StoreGlobal(s) /\ ~CompoundGlobal(s) /\ ~LoadGlobal(s)
          /\ ~GStore(s) /\ ~FetchGlobal(s) /\ ~GlobalAddress(s) /\ ~BoundCheck(s) /\ ~Push(s)
      BY <1>3 DEF StringStatement, StoreGlobal, CompoundGlobal, ScalarCompounds, VectorCompounds,
         LoadGlobal, GStore, FetchGlobal, GlobalAddress, BoundCheck, Push
    <3>3. /\ ~LoadField(s) /\ ~Address(s) /\ ~StoreField(s) /\ ~StorePointer(s) /\ ~LoadPointer(s)
          /\ ~LoadConverted(s) /\ ~CompoundPointer(s)
      BY <1>3 DEF LoadField, Address, StoreField, StorePointer, LoadPointer, LoadConverted,
         CompoundPointer, QuickCompounds, BitCompounds, PointerVectors
    <3>4. /\ ~Branch(s) /\ ~Switch(s) /\ ~Case(s) /\ ~CaseRange(s) /\ ~Call(s) /\ ~Return(s)
          /\ ~StateOp(s)
      BY <1>3 DEF Branch, Branches, Switch, Switches, Case, CaseRange, Call, CallArgc, Return, StateOp
    <3> QED
      BY <1>1, <3>1, <3>2, <3>3, <3>4 DEF Execute
  <2> QED
    BY <1>3, <2>2, <2>3 DEF Unexecutable
<1>4. CASE s.op # "JumpOutOfRange"
  <2>1. x.pc # NumStatements
    BY <1>1, <1>4 DEF Execute
  <2>2. Running
    BY <1>2, <2>1 DEF Running
  <2>3. Unexecutable(s) => Steady
    BY EndingTypes, FaultSteady DEF Unexecutable
  <2> QED
    BY <1>1, <2>2, <2>3, ComputeSteady, MemorySteady, ControlSteady, Zenon DEF Execute
<1> QED
  BY <1>3, <1>4

-----------------------------------------------------------------------------
(* The theorems.                                                           *)

\* The inductive invariant: what TypeOK says, and a window inside region S, without which the
\* masked offsets would leave the region.
IInv == TypeOK /\ mem.s # <<>> /\ WindowIn(mem)

LEMMA InvParts ==
  IInv <=> Sound /\ Registers /\ exit \in Endings /\ warned \in Warnings
BY DEF IInv, TypeOK, Sound, Registers, Regs

LEMMA InitInv ==
  ASSUME Init
  PROVE  IInv
<1>1. PICK s \in Starts :
          /\ mem = s.mem /\ temps = s.temps /\ budget = s.budget
          /\ x = [pc |-> s.pc, switchRef |-> OfsReturn, switchKind |-> s.kind,
                  pushed |-> 0, argc |-> 0]
  BY DEF Init
<1>2. /\ IsMemory(s.mem) /\ s.mem.s # <<>>
      /\ View = "window" => Len(s.mem.s) >= Window
      /\ \A t \in DOMAIN s.temps : s.temps[t] \in Seq(Byte)
      /\ s.budget \in Nat /\ s.pc \in 0 .. NumStatements /\ s.kind \in SwitchKinds
  BY StartsAssumption
<1>3. Len(s.mem.s) \in Nat
  BY <1>2, MemoryType
<1>4. Sound
  BY <1>1, <1>2, <1>3, MemoryAssumption DEF Sound, WindowIn
<1>5. OfsReturn \in Nat
  BY ParmOffsets
<1>6. Registers
  BY <1>1, <1>2, <1>5 DEF Registers, Regs
<1> QED
  BY <1>4, <1>6, InvParts, WarningTypes, EndingTypes DEF Init

LEMMA SoundNext ==
  ASSUME Sound, WeakEffect
  PROVE  Sound'
<1>1. /\ IsMemory(mem) /\ IsMemory(mem') /\ Len(mem'.s) = Len(mem.s)
  BY DEF WeakEffect, Shapes
<1>2. /\ mem.s \in Seq(Byte) /\ mem'.s \in Seq(Byte)
  BY <1>1, MemoryType
<1>3. mem'.s # <<>>
  BY <1>1, <1>2 DEF Sound
<1> QED
  BY <1>1, <1>3 DEF Sound, WeakEffect, WindowIn

LEMMA NextInv ==
  ASSUME IInv, [Next]_vars
  PROVE  IInv'
<1>1. Sound /\ Registers /\ exit \in Endings /\ warned \in Warnings
  BY InvParts
<1>2. CASE Next
  <2>1. Sound'
    BY <1>1, <1>2, StepEffect, SoundNext
  <2>2. Steady
    BY <1>1, <1>2, StepSteady
  <2> QED
    BY <2>1, <2>2 DEF IInv, TypeOK, Sound, Steady, Regs
<1>3. CASE UNCHANGED vars
  BY <1>3 DEF vars, IInv, TypeOK, WindowIn
<1> QED
  BY <1>2, <1>3

LEMMA InvHolds == Spec => []IInv
<1>1. Init => IInv
  BY InitInv
<1>2. IInv /\ [Next]_vars => IInv'
  BY NextInv
<1> QED
  BY <1>1, <1>2, PTL DEF Spec

\* Every statement the loader lets through leaves a memory of the same shape, made of bytes,
\* temp strings made of bytes, registers that name a statement of the program, and an ending
\* and a warning the code knows.
THEOREM TypesHold == Spec => []TypeOK
<1>1. IInv => TypeOK
  BY DEF IInv
<1> QED
  BY <1>1, InvHolds, PTL

\* A loop of the program is charged to the budget each time round.
THEOREM LoopsAlwaysCharged == Spec => LoopsCharged
<1>1. IInv /\ [Next]_vars => [exit' = "run" /\ x'.pc <= x.pc => budget' < budget]_vars
  BY InvParts, StepCharged
<1> QED
  BY <1>1, InvHolds, PTL DEF Spec, LoopsCharged

LEMMA StepStaysPut ==
  ASSUME IInv, Next, Stopped
  PROVE  RegistersStay /\ MemoryStays /\ UNCHANGED temps
<1>1. Sound /\ Registers
  BY InvParts
<1>2. /\ RegistersStay /\ UNCHANGED temps /\ st' \in Statements
      /\ mem' = mem \/ (exit' \in CallFaults /\ mem' = WithParms(st'))
  BY <1>1, StepOutcome, StepStops
<1>3. CASE exit' \in CallFaults /\ mem' = WithParms(st')
  <2>1. PICK s \in Statements : s = st'
    BY <1>2
  <2>2. Rewrites(mem, WithParms(s), ParmBytes(s))
    BY <1>1, ParmsRewrite
  <2>3. Rewrites(mem, mem', ParmBytes(st'))
    BY <1>3, <2>1, <2>2
  <2>4. /\ mem \in [s : Seq(Byte), e : Seq(Byte), h : Seq(Byte), slots : Seq(EntSlot)]
        /\ mem' \in [s : Seq(Byte), e : Seq(Byte), h : Seq(Byte), slots : Seq(EntSlot)]
        /\ mem'.e = mem.e /\ mem'.h = mem.h /\ mem'.slots = mem.slots
    BY <2>3 DEF Rewrites, Shapes, IsMemory
  <2>5. mem' = [mem EXCEPT !.s = mem'.s]
    BY <2>4
  <2> QED
    BY <1>2, <1>3, <2>3, <2>5 DEF MemoryStays, Rewrites
<1> QED
  BY <1>2, <1>3 DEF MemoryStays

\* A statement the budget stops, or one that fails, has not moved on, and has changed nothing
\* but the reference a switch sets and, where a call could not be made, argc and its parameters.
THEOREM StopsAlwaysClean == Spec => StoppedStaysPut
<1>1. IInv /\ [Next]_vars => [Stopped => RegistersStay /\ MemoryStays /\ UNCHANGED temps]_vars
  BY StepStaysPut
<1> QED
  BY <1>1, InvHolds, PTL DEF Spec, StoppedStaysPut

LEMMA NullIsEmpty ==
  ASSUME Sound
  PROVE  Text(0) = <<>> <=> mem.s[1] = 0
<1>1. (CStr(mem, 0) = <<>> <=> mem.s[1] = 0) /\ Readable(mem, 0, 1)
  BY CStrType DEF Sound
<1>2. Kind(0) = "linear"
  <2>1. WordVals \in Nat \ {0} /\ WordVals >= 2
    BY Sizes
  <2>2. ~(0 >= TempTag) /\ ~(0 >= StaticTag)
    BY <2>1 DEF TempTag, StaticTag
  <2> QED
    BY <2>2 DEF Kind
<1> QED
  BY <1>1, <1>2 DEF Text, Resolves

NullEmpty == Text(0) = <<>> <=> mem.s[1] = 0

LEMMA NullStaysEmpty == Sound' => (Text(0)' = <<>> <=> mem'.s[1] = 0)
<1>1. Sound => NullEmpty
  BY NullIsEmpty DEF NullEmpty
<1>2. Sound' => NullEmpty'
  BY <1>1, PTL
<1> QED
  BY <1>2 DEF NullEmpty

LEMMA ProtectedStep ==
  ASSUME IInv, Next
  PROVE  /\ mem'.slots = mem.slots
         /\ \A e \in 0 .. NumEdicts(mem) - 1 : Kept(e)
         /\ ParmsInView(st') /\ Text(0) = <<>> => Text(0)' = <<>>
<1>1. Sound /\ WeakEffect /\ Sound' /\ (ParmsInView(st') => Effect)
  BY InvParts, StepEffect, SoundNext
<1>2. ParmsInView(st') /\ Text(0) = <<>> => Text(0)' = <<>>
  BY <1>1, NullIsEmpty, NullStaysEmpty DEF Effect, Keeps
<1> QED
  BY <1>1, <1>2 DEF WeakEffect, Shapes, KeptIn, Kept

\* No statement, through whatever pointer or field, changes a byte of a protected entity, of
\* the reserved part of a block, or the entity table; and null stays the empty text, but for a
\* call whose parameters the mask of the window takes there.
THEOREM ProtectedAlwaysKept == Spec => ProtectedFieldsKept
<1>1. IInv /\ [Next]_vars =>
        [/\ mem'.slots = mem.slots
         /\ \A e \in 0 .. NumEdicts(mem) - 1 : Kept(e)
         /\ ParmsInView(st') /\ Text(0) = <<>> => Text(0)' = <<>>]_vars
  BY ProtectedStep
<1> QED
  BY <1>1, InvHolds, PTL DEF Spec, ProtectedFieldsKept

-----------------------------------------------------------------------------
(* The short cuts: the operators the two interpreters share, which differ   *)
(* only in how they reach an operand and in the checks they go through.     *)

LEMMA SlowBytes ==
  /\ \A n : Slow!Vals(n) = Vals(n) /\ Slow!Zeros(n) = Zeros(n)
  /\ \A i : Slow!Wrap(i) = Wrap(i)
  /\ \A b : Slow!Num(b) = Num(b)
  /\ \A v, n : Slow!BytesOf(v, n) = BytesOf(v, n)
  /\ \A d, o, n : Slow!BytesAt(d, o, n) = BytesAt(d, o, n)
  /\ \A d, o, b : Slow!Patched(d, o, b) = Patched(d, o, b)
  /\ \A o, k : Slow!Nth(o, k) = Nth(o, k)
  /\ Slow!WordVals = WordVals /\ Slow!ByteVals = ByteVals
<1>1. \A n : Slow!Vals(n) = Vals(n) /\ Slow!Zeros(n) = Zeros(n)
  BY DEF Slow!Vals, Slow!Zeros, Vals, Zeros
<1>2. Slow!WordVals = WordVals /\ Slow!ByteVals = ByteVals
  BY <1>1 DEF Slow!WordVals, Slow!ByteVals, WordVals, ByteVals
<1>3. \A i : Slow!Wrap(i) = Wrap(i)
  BY <1>2 DEF Slow!Wrap, Wrap
<1>4. \A b : Slow!Num(b) = Num(b)
  BY DEF Slow!Num, Slow!Vals, Num, Vals
<1>5. \A v, n : Slow!BytesOf(v, n) = BytesOf(v, n)
  BY DEF Slow!BytesOf, Slow!Vals, Slow!ByteVals, BytesOf, Vals, ByteVals
<1>6. \A d, o, n : Slow!BytesAt(d, o, n) = BytesAt(d, o, n)
  BY DEF Slow!BytesAt, BytesAt
<1>7. \A d, o, b : Slow!Patched(d, o, b) = Patched(d, o, b)
  BY DEF Slow!Patched, Patched
<1>8. \A o, k : Slow!Nth(o, k) = Nth(o, k)
  BY DEF Slow!Nth, Nth
<1> QED
  BY <1>1, <1>2, <1>3, <1>4, <1>5, <1>6, <1>7, <1>8

LEMMA SlowLocate == \A m, p, n : Slow!Locate(m, p, n) = Locate(m, p, n)
BY DEF Slow!Locate, Slow!InS, Slow!InE, Slow!InH, Slow!EntOf, Slow!NumEdicts, Slow!Within,
   Slow!Nowhere, Locate, InS, InE, InH, EntOf, NumEdicts, Within, Nowhere

LEMMA SlowMemory ==
  /\ \A m : Slow!NumEdicts(m) = NumEdicts(m)
  /\ \A m, e : Slow!Protected(m, e) = Protected(m, e)
  /\ \A m, p, n : /\ Slow!Readable(m, p, n) = Readable(m, p, n)
                  /\ Slow!Read(m, p, n) = Read(m, p, n)
                  /\ Slow!CheckWrite(m, p, n) = CheckWrite(m, p, n)
  /\ \A m, p, b : Slow!Written(m, p, b) = Written(m, p, b)
  /\ \A m, p : Slow!CStr(m, p) = CStr(m, p)
<1>1. \A m : Slow!NumEdicts(m) = NumEdicts(m)
  BY DEF Slow!NumEdicts, NumEdicts
<1>2. \A m, e : Slow!Protected(m, e) = Protected(m, e)
  BY DEF Slow!Protected, Slow!NumEdicts, Protected, NumEdicts
<1>4. \A m, p, n : Slow!Readable(m, p, n) = Readable(m, p, n)
  BY SlowLocate DEF Slow!Readable, Slow!Nowhere, Readable, Nowhere
<1>5. \A m, p, n : Slow!Read(m, p, n) = Read(m, p, n)
  BY SlowLocate, SlowBytes DEF Slow!Read, Read
<1>6. \A m, p, n : Slow!CheckWrite(m, p, n) = CheckWrite(m, p, n)
  BY SlowLocate DEF Slow!CheckWrite, Slow!Nowhere, Slow!Protected, Slow!NumEdicts, CheckWrite,
     Nowhere, Protected, NumEdicts
<1>7. \A m, p, b : Slow!Written(m, p, b) = Written(m, p, b)
  BY SlowLocate, SlowBytes DEF Slow!Written, Written
<1>8. \A m, p : Slow!CStr(m, p) = CStr(m, p)
  BY DEF Slow!CStr, Slow!Locate, Slow!InS, Slow!InE, Slow!InH, Slow!EntOf, Slow!NumEdicts,
     Slow!Within, Slow!Nowhere, CStr, Locate, InS, InE, InH, EntOf, NumEdicts, Within, Nowhere
<1> QED
  BY <1>1, <1>2, <1>4, <1>5, <1>6, <1>7, <1>8

LEMMA SlowFields ==
  /\ \A m, e, f, n : Slow!HasField(m, e, f, n) = HasField(m, e, f, n)
  /\ \A m, e, f, n : Slow!Field(m, e, f, n) = Field(m, e, f, n)
  /\ \A m, e, f, b : Slow!WithField(m, e, f, b) = WithField(m, e, f, b)
  /\ \A e, f : Slow!FieldAddress(e, f) = FieldAddress(e, f)
<1>1. \A e, f : Slow!FieldOffset(e, f) = FieldOffset(e, f)
  BY DEF Slow!FieldOffset, FieldOffset
<1>2. \A m, e, f, n : Slow!HasField(m, e, f, n) = HasField(m, e, f, n)
  BY DEF Slow!HasField, Slow!NumEdicts, HasField, NumEdicts
<1>3. \A m, e, f, n : Slow!Field(m, e, f, n) = Field(m, e, f, n)
  BY <1>1, SlowBytes DEF Slow!Field, Field
<1>4. \A m, e, f, b : Slow!WithField(m, e, f, b) = WithField(m, e, f, b)
  BY <1>1, SlowBytes DEF Slow!WithField, WithField
<1>5. \A e, f : Slow!FieldAddress(e, f) = FieldAddress(e, f)
  BY SlowBytes DEF Slow!FieldAddress, FieldAddress
<1> QED
  BY <1>2, <1>3, <1>4, <1>5

LEMMA SlowResults ==
  /\ \A op, v, w : Slow!WordResult(op, v, w) = WordResult(op, v, w)
  /\ \A op, v : Slow!UnaryResult(op, v) = UnaryResult(op, v)
  /\ \A op, v, w : Slow!CompoundResult(op, v, w) = CompoundResult(op, v, w)
  /\ \A a, d, c : Slow!BitCopy(a, d, c) = BitCopy(a, d, c)
  /\ \A v : Slow!Signed(v) = Signed(v) /\ Slow!F2I(v) = F2I(v) /\ Slow!FBool(v) = FBool(v)
            /\ Slow!FloatTrue(v) = FloatTrue(v)
<1>1. \A op, v, w : Slow!WordResult(op, v, w) = WordResult(op, v, w)
  BY DEF Slow!WordResult, Slow!FloatOps, Slow!FloatTests, Slow!IntTests, Slow!RawTests,
     Slow!IntOps, Slow!MixedOps, Slow!UnaryOps, Slow!FBool, Slow!IBool, Slow!Compare, Slow!TestOf,
     Slow!Signed, Slow!IntResult, Slow!MixedResult, Slow!UnaryResult, Slow!Wrap, Slow!WordVals,
     Slow!Vals, Slow!ShrI, Slow!Shl, Slow!ShrU, Slow!BitOr, Slow!BitXor, Slow!BitExtend,
     Slow!DivI, Slow!DivU, Slow!IntMin, Slow!Quotient, Slow!Abs, Slow!WordBits, Slow!Width,
     Slow!Position, Slow!FieldUp, Slow!ByteVals, Slow!FloatTrue, Slow!F2I, Slow!F2U, Slow!D2I64,
     Slow!LongMin, Slow!LongVals, Slow!IntFloatTests, Slow!FloatIntTests, WordResult, FloatOps,
     FloatTests, IntTests, RawTests, IntOps, MixedOps, UnaryOps, FBool, IBool, Compare, TestOf,
     Signed, IntResult, MixedResult, UnaryResult, Wrap, WordVals, Vals, ShrI, Shl, ShrU, BitOr,
     BitXor, BitExtend, DivI, DivU, IntMin, Quotient, Abs, WordBits, Width, Position, FieldUp,
     ByteVals, FloatTrue, F2I, F2U, D2I64, LongMin, LongVals, IntFloatTests, FloatIntTests
<1>2. \A op, v : Slow!UnaryResult(op, v) = UnaryResult(op, v)
  BY DEF Slow!UnaryResult, Slow!FBool, Slow!IBool, Slow!Signed, Slow!WordBits, Slow!Wrap,
     Slow!WordVals, Slow!Vals, Slow!FloatTrue, Slow!F2I, Slow!F2U, Slow!D2I64, Slow!LongMin,
     Slow!LongVals, Slow!IntMin, UnaryResult, FBool, IBool, Signed, WordBits, Wrap, WordVals,
     Vals, FloatTrue, F2I, F2U, D2I64, LongMin, LongVals, IntMin
<1>3. \A op, v, w : Slow!CompoundResult(op, v, w) = CompoundResult(op, v, w)
  BY DEF Slow!CompoundResult, Slow!Signed, Slow!Wrap, Slow!WordVals, Slow!Vals, Slow!F2I,
     Slow!IntMin, Slow!BitOr, CompoundResult, Signed, Wrap, WordVals, Vals, F2I, IntMin, BitOr
<1>4. \A a, d, c : Slow!BitCopy(a, d, c) = BitCopy(a, d, c)
  BY DEF Slow!BitCopy, Slow!FieldMask, Slow!Width, Slow!Position, Slow!Shl, Slow!BitOr, Slow!Wrap,
     Slow!WordVals, Slow!ByteVals, Slow!Vals, Slow!WordBits, BitCopy, FieldMask, Width, Position,
     Shl, BitOr, Wrap, WordVals, ByteVals, Vals, WordBits
<1>5. \A v : Slow!Signed(v) = Signed(v) /\ Slow!F2I(v) = F2I(v) /\ Slow!FBool(v) = FBool(v)
             /\ Slow!FloatTrue(v) = FloatTrue(v)
  BY DEF Slow!Signed, Slow!F2I, Slow!FBool, Slow!IBool, Slow!FloatTrue, Slow!WordVals, Slow!Vals,
     Slow!IntMin, Signed, F2I, FBool, IBool, FloatTrue, WordVals, Vals, IntMin
<1> QED
  BY <1>1, <1>2, <1>3, <1>4, <1>5

LEMMA SlowLongs ==
  /\ \A op, a, b : Slow!LongResult(op, a, b) = LongResult(op, a, b)
  /\ \A op, a, n : Slow!LongShift(op, a, n) = LongShift(op, a, n)
  /\ \A op, a, b : Slow!LongTest(op, a, b) = LongTest(op, a, b)
  /\ \A op, v : Slow!ToLong(op, v) = ToLong(op, v)
  /\ \A op, a : Slow!FromLong(op, a) = FromLong(op, a)
<1>1. \A op, a, b : Slow!LongResult(op, a, b) = LongResult(op, a, b)
  BY DEF Slow!LongResult, Slow!LongVals, Slow!LongMin, Slow!SignedLong, Slow!DivI64, Slow!DivU,
     Slow!Quotient, Slow!Abs, Slow!Halves, Slow!Join, Slow!BitOr, Slow!BitXor, Slow!WordVals,
     Slow!Vals, LongResult, LongVals, LongMin, SignedLong, DivI64, DivU, Quotient, Abs, Halves,
     Join, BitOr, BitXor, WordVals, Vals
<1>2. \A op, a, n : Slow!LongShift(op, a, n) = LongShift(op, a, n)
  BY DEF Slow!LongShift, Slow!LongVals, Slow!SignedLong, Slow!WordBits, Slow!WordVals, Slow!Vals,
     LongShift, LongVals, SignedLong, WordBits, WordVals, Vals
<1>3. \A op, a, b : Slow!LongTest(op, a, b) = LongTest(op, a, b)
  BY DEF Slow!LongTest, Slow!IBool, Slow!Compare, Slow!TestOf, Slow!SignedLong, Slow!LongVals,
     Slow!WordVals, Slow!Vals, LongTest, IBool, Compare, TestOf, SignedLong, LongVals, WordVals,
     Vals
<1>4. \A op, v : Slow!ToLong(op, v) = ToLong(op, v)
  BY DEF Slow!ToLong, Slow!D2I64, Slow!D2U64, Slow!Signed, Slow!LongVals, Slow!LongMin,
     Slow!WordVals, Slow!Vals, ToLong, D2I64, D2U64, Signed, LongVals, LongMin, WordVals, Vals
<1>5. \A op, a : Slow!FromLong(op, a) = FromLong(op, a)
  BY DEF Slow!FromLong, Slow!SignedLong, Slow!LongVals, Slow!WordVals, Slow!Vals, FromLong,
     SignedLong, LongVals, WordVals, Vals
<1> QED
  BY <1>1, <1>2, <1>3, <1>4, <1>5

LEMMA SlowOps ==
  /\ Slow!WordOps = WordOps
  /\ Slow!LongOps = LongOps /\ Slow!LongShifts = LongShifts /\ Slow!LongTests = LongTests
  /\ Slow!ToLongs = ToLongs /\ Slow!FromLongs = FromLongs
BY DEF Slow!WordOps, Slow!FloatOps, Slow!FloatTests, Slow!IntTests, Slow!RawTests, Slow!IntOps,
   Slow!MixedOps, Slow!UnaryOps, Slow!IntFloatTests, Slow!FloatIntTests, Slow!LongOps,
   Slow!LongShifts, Slow!LongTests, Slow!ToLongs, Slow!FromLongs, WordOps, FloatOps, FloatTests,
   IntTests, RawTests, IntOps, MixedOps, UnaryOps, IntFloatTests, FloatIntTests, LongOps,
   LongShifts, LongTests, ToLongs, FromLongs

\* Where the view and the whole region agree, so do reads and writes of words.
LEMMA SlowWords ==
  /\ \A m, o : Slow!WordAt("whole", m, o) = WordAt("whole", m, o)
  /\ \A m, o, w : Slow!PutWord("whole", m, o, w) = PutWord("whole", m, o, w)
  /\ \A m, o, v : Slow!Set(m, o, v) = Set(m, o, v)
  /\ \A m, o : InReach(o) => Slow!WordAt("whole", m, o) = WordAt(View, m, o)
  /\ \A m, o, w : InReach(o) => Slow!PutWord("whole", m, o, w) = PutWord(View, m, o, w)
<1>1. \A o : Slow!ViewOffset("whole", o) = o /\ ViewOffset("whole", o) = o
  BY DEF Slow!ViewOffset, ViewOffset
<1>2. \A m, o : Slow!WordAt("whole", m, o) = WordAt("whole", m, o)
  BY <1>1, SlowBytes DEF Slow!WordAt, WordAt
<1>3. \A m, o, w : Slow!PutWord("whole", m, o, w) = PutWord("whole", m, o, w)
  BY <1>1, SlowBytes DEF Slow!PutWord, PutWord
<1>4. \A o : InReach(o) => ViewOffset(View, o) = o
  BY ReachOffset
<1>5. \A m, o : InReach(o) => WordAt("whole", m, o) = WordAt(View, m, o)
  BY <1>1, <1>4 DEF WordAt
<1>6. \A m, o, w : InReach(o) => PutWord("whole", m, o, w) = PutWord(View, m, o, w)
  BY <1>1, <1>4 DEF PutWord
<1>7. \A m, o, v : Slow!Set(m, o, v) = Set(m, o, v)
  BY <1>3, SlowBytes DEF Slow!Set, Set
<1> QED
  BY <1>2, <1>3, <1>5, <1>6, <1>7

LEMMA SlowOperands ==
  /\ \A o : InReach(o) => Slow!G(o) = G(o) /\ Slow!N(o) = N(o)
  /\ \A o : InReach(o) /\ InReach(o + WordBytes) => Slow!N64(o) = N64(o)
  /\ \A m, o, v : InReach(o) => Slow!Put(m, o, v) = Put(m, o, v)
  /\ \A m, o, v : InReach(o) /\ InReach(o + WordBytes) => Slow!Put64(m, o, v) = Put64(m, o, v)
<1>1. \A o : InReach(o) => Slow!G(o) = G(o)
  BY SlowWords DEF Slow!G, G
<1>2. \A o : InReach(o) => Slow!N(o) = N(o)
  BY <1>1, SlowBytes DEF Slow!N, N
<1>3. \A o : InReach(o) /\ InReach(o + WordBytes) => Slow!N64(o) = N64(o)
  BY <1>1, SlowBytes DEF Slow!N64, N64
<1>4. \A m, o, v : InReach(o) => Slow!Put(m, o, v) = Put(m, o, v)
  BY SlowWords, SlowBytes DEF Slow!Put, Put
<1>5. \A m, o, v : InReach(o) /\ InReach(o + WordBytes) => Slow!Put64(m, o, v) = Put64(m, o, v)
  BY <1>4, SlowBytes DEF Slow!Put64, Put64
<1> QED
  BY <1>1, <1>2, <1>3, <1>4, <1>5

LEMMA SlowRuns ==
  ASSUME NEW n \in 1 .. 3, NEW o, Reaches(o, n)
  PROVE  /\ Slow!GlobalWords(o, n) = GlobalWords(o, n)
         /\ \A m, b : Slow!PutWords("whole", m, o, b, n) = PutWords(View, m, o, b, n)
         /\ \A m, b : Slow!PutWords("whole", m, o, b, n) = PutWords("whole", m, o, b, n)
         /\ \A m, q : Slow!CopyWords("whole", m, q, o, n) = CopyWords("whole", m, q, o, n)
         /\ \A m, q : Reaches(q, n) =>
              /\ Slow!CopyWords("whole", m, q, o, n) = CopyWords(View, m, q, o, n)
              /\ Slow!Copied(q, o, n) = Copied(q, o, n)
<1>1. n = 1 \/ n = 2 \/ n = 3
  OBVIOUS
<1>2. \A q : Reaches(q, n) => /\ InReach(Nth(q, 1))
                              /\ n >= 2 => InReach(Nth(q, 2))
                              /\ n = 3 => InReach(Nth(q, 3))
  BY <1>1 DEF Reaches
<1>3. Slow!GlobalWords(o, n) = GlobalWords(o, n)
  BY <1>1, <1>2, SlowOperands, SlowBytes DEF Slow!GlobalWords, Slow!InTurn, GlobalWords, InTurn
<1>4. \A m, b : Slow!PutWords("whole", m, o, b, n) = PutWords(View, m, o, b, n)
  BY <1>1, <1>2, SlowWords, SlowBytes DEF Slow!PutWords, Slow!InTurn, PutWords, InTurn
<1>5. \A m, b : Slow!PutWords("whole", m, o, b, n) = PutWords("whole", m, o, b, n)
  BY <1>1, SlowWords, SlowBytes DEF Slow!PutWords, Slow!InTurn, PutWords, InTurn
<1>6. \A m, q : Slow!CopyWords("whole", m, q, o, n) = CopyWords("whole", m, q, o, n)
  BY <1>1, SlowWords, SlowBytes DEF Slow!CopyWords, Slow!InTurn, CopyWords, InTurn
<1>7. \A m, q : Reaches(q, n) => Slow!CopyWords("whole", m, q, o, n) = CopyWords(View, m, q, o, n)
  BY <1>1, <1>2, SlowWords, SlowBytes DEF Slow!CopyWords, Slow!InTurn, CopyWords, InTurn
<1>8. \A q : Reaches(q, n) => Slow!Copied(q, o, n) = Copied(q, o, n)
  BY <1>7 DEF Slow!Copied, Copied
<1> QED
  BY <1>3, <1>4, <1>5, <1>6, <1>7, <1>8

LEMMA SlowEndings ==
  /\ \A m : Does(m) => Slow!Does(m)
  /\ \A kind, m : Warns(kind, m) => Slow!Warns(kind, m)
  /\ \A kind : Faults(kind) => Slow!Faults(kind)
  /\ \A kind, m, regs : Leaves(kind, m, regs) => Slow!Leaves(kind, m, regs)
  /\ \A kind, t, regs : JumpsTo(kind, t, regs) => Slow!JumpsTo(kind, t, regs)
  /\ \A kind : Stops(kind) => Slow!Stops(kind)
  /\ (Slow!Spent <=> Spent) /\ (Slow!Ticks <=> Ticks)
<1>1. \A m : Does(m) => Slow!Does(m)
  BY DEF Slow!Does, Slow!Advance, Does, Advance
<1>2. \A kind, m : Warns(kind, m) => Slow!Warns(kind, m)
  BY DEF Slow!Warns, Slow!Advance, Warns, Advance
<1>3. \A kind : Faults(kind) => Slow!Faults(kind)
  BY DEF Slow!Faults, Faults
<1>4. \A kind, m, regs : Leaves(kind, m, regs) => Slow!Leaves(kind, m, regs)
  BY DEF Slow!Leaves, Leaves
<1>5. \A kind, t, regs : JumpsTo(kind, t, regs) => Slow!JumpsTo(kind, t, regs)
  BY DEF Slow!JumpsTo, Slow!Stops, Slow!Counted, Slow!Spent, Slow!Ticks, JumpsTo, Stops, Counted,
     Spent, Ticks
<1>6. (\A kind : Stops(kind) => Slow!Stops(kind)) /\ (Slow!Spent <=> Spent) /\ (Slow!Ticks <=> Ticks)
  BY DEF Slow!Stops, Slow!Spent, Slow!Ticks, Stops, Spent, Ticks
<1> QED
  BY <1>1, <1>2, <1>3, <1>4, <1>5, <1>6

-----------------------------------------------------------------------------
(* The short cuts: statement by statement.                                  *)

\* What OperandReach says of an operand.
Reached(o) ==
  /\ Reaches(o, 3) /\ InReach(o) /\ InReach(o + WordBytes) /\ InReach(o + 2 * WordBytes)
  /\ Nth(o, 1) = o /\ Nth(o, 2) = o + WordBytes /\ Nth(o, 3) = o + 2 * WordBytes

NoB == {"Goto", "BoundCheck"} \union JumpsToB \union Unexecutables
NoA == {"Goto"} \union TakesIndex \union Unexecutables

LEMMA StatementReach ==
  ASSUME NEW s \in Statements
  PROVE  /\ s.op \notin NoA => Reached(s.a)
         /\ s.op \notin NoB => Reached(s.b)
         /\ s.op \notin NoC => Reached(s.c)
<1>1. s.op \notin NoA => IsOperand(s.a)
  BY StatementsAssumption DEF NoA
<1>2. /\ s.a \in Nat /\ s.b \in Nat /\ s.c \in Nat
      /\ s.op \notin NoB => IsOperand(s.b)
      /\ s.op \notin NoC => IsOperand(s.c)
  BY Operands DEF NoB
<1>3. \A o \in Nat : IsOperand(o) => Reached(o)
  BY OperandReach DEF Reached
<1> QED
  BY <1>1, <1>2, <1>3

LEMMA PartReach ==
  ASSUME NEW o, Reached(o), NEW n \in 1 .. 3
  PROVE  Reaches(o, n)
BY DEF Reached, Reaches

\* The opcodes with three operands.
LEMMA PlainReach ==
  ASSUME NEW s \in Statements, s.op \notin NoA \union NoB \union NoC
  PROVE  Reached(s.a) /\ Reached(s.b) /\ Reached(s.c)
BY StatementReach

LEMMA ArithmeticPlain ==
  /\ WordOps \intersect (NoA \union NoB \union NoC) = {} /\ "BitCopyI" \notin NoA \union NoB \union NoC
  /\ (LongOps \union LongShifts \union LongTests \union ToLongs \union FromLongs)
       \intersect (NoA \union NoB \union NoC) = {}
  /\ DOMAIN VectorArith \intersect (NoA \union NoB \union NoC) = {}
  /\ {"MulV", "EqV", "NeV", "NotV", "Rand", "RandV", "EqS", "NeS", "NotS"}
       \intersect (NoA \union NoB \union NoC) = {}
<1> DEFINE Others == {"BoundCheck"} \union TakesIndex
<1>1. NoA \union NoB \union NoC = NoC \union Others
  BY DEF NoA, NoB, NoC, WithoutC
<1>2. (FloatOps \union FloatTests \union IntTests \union RawTests \union UnaryOps \union IntOps)
         \intersect Others = {}
  BY DEF FloatOps, FloatTests, IntTests, RawTests, UnaryOps, IntOps, TakesIndex
<1>3. MixedOps \intersect Others = {}
  <2>1. DOMAIN IntFloatTests = {"LeIF", "GeIF", "LtIF", "GtIF", "EqIF", "NeIF"}
    BY DEF IntFloatTests
  <2>2. DOMAIN FloatIntTests = {"LeFI", "GeFI", "LtFI", "GtFI", "EqFI", "NeFI"}
    BY DEF FloatIntTests
  <2> QED
    BY <2>1, <2>2 DEF MixedOps, TakesIndex
<1>4. WordOps \intersect Others = {}
  BY <1>2, <1>3 DEF WordOps
<1>5. (LongOps \union LongShifts \union LongTests \union ToLongs \union FromLongs) \intersect Others = {}
  BY DEF LongOps, LongShifts, LongTests, ToLongs, FromLongs, TakesIndex
<1>6. DOMAIN VectorArith \intersect Others = {}
  BY VectorArithOps DEF TakesIndex
<1>7. DOMAIN VectorArith \intersect NoC = {}
  BY VectorArithOps
<1>8. /\ {"MulV", "EqV", "NeV", "NotV", "Rand", "RandV", "EqS", "NeS", "NotS"} \intersect Others = {}
      /\ "BitCopyI" \notin Others
  BY DEF TakesIndex
<1> HIDE DEF Others
<1> QED
  BY <1>1, <1>4, <1>5, <1>6, <1>7, <1>8, WordOpsInC

LEMMA SlowArithmetic ==
  ASSUME NEW s \in Statements,
         \/ WordStatement(s) \/ BitCopyStatement(s) \/ LongStatement(s)
  PROVE  \/ Slow!WordStatement(s) \/ Slow!BitCopyStatement(s) \/ Slow!LongStatement(s)
<1>1. s.op \notin NoA \union NoB \union NoC
  BY ArithmeticPlain DEF WordStatement, BitCopyStatement, LongStatement
<1>2. Reached(s.a) /\ Reached(s.b) /\ Reached(s.c)
  BY <1>1, PlainReach
<1>3. /\ Slow!N(s.a) = N(s.a) /\ Slow!N(s.b) = N(s.b) /\ Slow!N(s.c) = N(s.c)
      /\ Slow!N64(s.a) = N64(s.a) /\ Slow!N64(s.b) = N64(s.b)
      /\ \A v : Slow!Put(mem, s.c, v) = Put(mem, s.c, v) /\ Slow!Put64(mem, s.c, v) = Put64(mem, s.c, v)
  BY <1>2, SlowOperands DEF Reached
<1>4. CASE WordStatement(s)
  BY <1>3, <1>4, SlowResults, SlowEndings, SlowOps DEF Slow!WordStatement, WordStatement
<1>5. CASE BitCopyStatement(s)
  BY <1>3, <1>5, SlowResults, SlowEndings DEF Slow!BitCopyStatement, BitCopyStatement
<1>6. CASE LongStatement(s)
  BY <1>3, <1>6, SlowLongs, SlowEndings, SlowOps DEF Slow!LongStatement, LongStatement
<1> QED
  BY <1>4, <1>5, <1>6

LEMMA SlowComponents ==
  ASSUME NEW o, Reached(o)
  PROVE  \A k \in 0 .. 2 : Slow!Component(o, k) = Component(o, k)
<1>1. WordBytes \in Nat /\ o \in Nat
  BY MemoryAssumption DEF Reached, InReach
<1>2. \A k \in 0 .. 2 : k = 0 \/ k = 1 \/ k = 2
  OBVIOUS
<1>3. o + 0 * WordBytes = o /\ o + 1 * WordBytes = o + WordBytes
  BY <1>1
<1>4. \A k \in 0 .. 2 : InReach(o + k * WordBytes)
  BY <1>2, <1>3 DEF Reached
<1> QED
  BY <1>4, SlowOperands DEF Slow!Component, Component

LEMMA SlowVectors ==
  ASSUME NEW a, Reached(a)
  PROVE  /\ Slow!ZeroVector(a) <=> ZeroVector(a)
         /\ \A b : Reached(b) => /\ Slow!SameVector(a, b) <=> SameVector(a, b)
                                 /\ Slow!Dot(a, b) = Dot(a, b)
<1>1. \A o : Reached(o) => \A k \in 0 .. 2 : Slow!Component(o, k) = Component(o, k)
  BY SlowComponents
<1>2. Slow!ZeroVector(a) <=> ZeroVector(a)
  BY <1>1 DEF Slow!ZeroVector, ZeroVector
<1>3. ASSUME NEW b, Reached(b)
      PROVE  /\ Slow!SameVector(a, b) <=> SameVector(a, b)
             /\ Slow!Dot(a, b) = Dot(a, b)
  <2>1. \A k \in 0 .. 2 : Slow!Component(a, k) = Component(a, k) /\ Slow!Component(b, k) = Component(b, k)
    BY <1>1, <1>3
  <2>2. Slow!SameVector(a, b) <=> SameVector(a, b)
    BY <2>1 DEF Slow!SameVector, SameVector
  <2>3. Slow!Dot(a, b) = Dot(a, b)
    BY <2>1 DEF Slow!Dot, Dot
  <2> QED
    BY <2>2, <2>3
<1> QED
  BY <1>2, <1>3

LEMMA SlowTriples ==
  ASSUME NEW o, Reached(o)
  PROVE  /\ \A m : /\ Slow!WordAt("whole", m, Nth(o, 1)) = WordAt(View, m, Nth(o, 1))
                   /\ Slow!WordAt("whole", m, Nth(o, 2)) = WordAt(View, m, Nth(o, 2))
                   /\ Slow!WordAt("whole", m, Nth(o, 3)) = WordAt(View, m, Nth(o, 3))
         /\ \A m, v : /\ Slow!Put(m, Nth(o, 1), v) = Put(m, Nth(o, 1), v)
                      /\ Slow!Put(m, Nth(o, 2), v) = Put(m, Nth(o, 2), v)
                      /\ Slow!Put(m, Nth(o, 3), v) = Put(m, Nth(o, 3), v)
BY SlowWords, SlowOperands DEF Reached

LEMMA SlowVectorStatement ==
  ASSUME NEW s \in Statements, VectorStatement(s)
  PROVE  Slow!VectorStatement(s)
<1>1. s.op \notin NoA \union NoB \union NoC
  BY ArithmeticPlain DEF VectorStatement
<1>2. Reached(s.a) /\ Reached(s.b) /\ Reached(s.c)
  BY <1>1, PlainReach
<1>3. Slow!N(s.a) = N(s.a) /\ Slow!N(s.b) = N(s.b) /\ \A v : Slow!Put(mem, s.c, v) = Put(mem, s.c, v)
  BY <1>2, SlowOperands DEF Reached
<1>4. \A op, v : Slow!Scalar(op, v) = Scalar(op, v)
  BY SlowResults DEF Slow!Scalar, Scalar
<1>5. Slow!VectorArith = VectorArith
  BY DEF Slow!VectorArith, VectorArith
<1>6. Slow!VectorResult(s) = VectorResult(s)
  BY <1>2, <1>3, <1>4, <1>5, SlowTriples, SlowBytes DEF Slow!VectorResult, Slow!InTurn,
     VectorResult, InTurn
<1>7. CASE s.op \in DOMAIN VectorArith /\ Does(VectorResult(s))
  BY <1>5, <1>6, <1>7, SlowEndings DEF Slow!VectorStatement
<1>8. CASE s.op = "MulV" /\ Does(Put(mem, s.c, Dot(s.a, s.b)))
  BY <1>2, <1>3, <1>8, SlowVectors, SlowEndings DEF Slow!VectorStatement
<1>9. CASE s.op = "EqV" /\ Does(Put(mem, s.c, FBool(SameVector(s.a, s.b))))
  <2>1. Slow!FBool(Slow!SameVector(s.a, s.b)) = FBool(SameVector(s.a, s.b))
    BY <1>2, SlowVectors DEF Slow!FBool, Slow!IBool, FBool, IBool
  <2> QED
    BY <1>3, <1>9, <2>1, SlowEndings DEF Slow!VectorStatement
<1>10. CASE s.op = "NeV" /\ Does(Put(mem, s.c, FBool(~SameVector(s.a, s.b))))
  <2>1. Slow!FBool(~Slow!SameVector(s.a, s.b)) = FBool(~SameVector(s.a, s.b))
    BY <1>2, SlowVectors DEF Slow!FBool, Slow!IBool, FBool, IBool
  <2> QED
    BY <1>3, <1>10, <2>1, SlowEndings DEF Slow!VectorStatement
<1>11. CASE s.op = "NotV" /\ Does(Put(mem, s.c, FBool(ZeroVector(s.a))))
  <2>1. Slow!FBool(Slow!ZeroVector(s.a)) = FBool(ZeroVector(s.a))
    BY <1>2, SlowVectors DEF Slow!FBool, Slow!IBool, FBool, IBool
  <2> QED
    BY <1>3, <1>11, <2>1, SlowEndings DEF Slow!VectorStatement
<1> QED
  BY <1>7, <1>8, <1>9, <1>10, <1>11 DEF VectorStatement

LEMMA SlowRandom ==
  ASSUME NEW s \in Statements, RandomStatement(s)
  PROVE  Slow!RandomStatement(s)
BY SlowWords, SlowEndings DEF Slow!RandomStatement, RandomStatement

LEMMA SlowTexts ==
  /\ \A r : Slow!Kind(r) = Kind(r) /\ Slow!SlotOf(r) = SlotOf(r)
  /\ \A r : (Slow!Resolves(r) <=> Resolves(r)) /\ Slow!Text(r) = Text(r)
  /\ \A r, q : Slow!StringsEqual(r, q) <=> StringsEqual(r, q)
  /\ \A t, u : Slow!Difference(t, u) = Difference(t, u)
  /\ \A r, q : Slow!Looked(r, q) = Looked(r, q)
  /\ \A refs : Slow!StringWarning(refs) = StringWarning(refs)
<1>1. \A r : Slow!Kind(r) = Kind(r) /\ Slow!SlotOf(r) = SlotOf(r)
  BY SlowBytes DEF Slow!Kind, Slow!SlotOf, Slow!TempTag, Slow!StaticTag, Kind, SlotOf, TempTag,
     StaticTag
<1>2. \A r : Slow!Resolves(r) <=> Resolves(r)
  BY <1>1, SlowMemory DEF Slow!Resolves, Resolves
<1>3. \A b : Slow!UntilZero(b) = UntilZero(b)
  BY DEF Slow!UntilZero, UntilZero
<1>4. \A r : Slow!Text(r) = Text(r)
  <2> TAKE r
  <2>1. Kind(r) = "linear" \/ Kind(r) = "temp" \/ Kind(r) = "static"
    BY DEF Kind
  <2>2. CASE ~Resolves(r)
    BY <1>2, <2>2 DEF Slow!Text, Text
  <2>3. CASE Resolves(r) /\ Kind(r) = "linear"
    BY <1>1, <1>2, <2>3, SlowMemory DEF Slow!Text, Text
  <2>4. CASE Resolves(r) /\ Kind(r) = "temp"
    BY <1>1, <1>2, <1>3, <2>4 DEF Slow!Text, Text
  <2>5. CASE Resolves(r) /\ Kind(r) = "static"
    BY <1>1, <1>2, <2>5 DEF Slow!Text, Text
  <2> QED
    BY <2>1, <2>2, <2>3, <2>4, <2>5
<1>5. \A r, q : Slow!StringsEqual(r, q) <=> StringsEqual(r, q)
  BY <1>4 DEF Slow!StringsEqual, StringsEqual
<1>6. \A t, u : Slow!Difference(t, u) = Difference(t, u)
  BY DEF Slow!Difference, Difference
<1>7. \A r, q : Slow!Looked(r, q) = Looked(r, q)
  BY DEF Slow!Looked, Looked
<1>8. \A refs : Slow!StringWarning(refs) = StringWarning(refs)
  BY <1>2 DEF Slow!StringWarning, StringWarning
<1> QED
  BY <1>1, <1>2, <1>4, <1>5, <1>6, <1>7, <1>8

LEMMA SlowString ==
  ASSUME NEW s \in Statements, StringStatement(s)
  PROVE  Slow!StringStatement(s)
<1>1. s.op \notin NoA \union NoB \union NoC
  BY ArithmeticPlain DEF StringStatement
<1>2. Slow!N(s.a) = N(s.a) /\ Slow!N(s.b) = N(s.b)
  BY <1>1, PlainReach, SlowOperands DEF Reached
<1>3. CASE s.op \in {"EqS", "NeS"}
  <2> DEFINE r == N(s.a)
             q == N(s.b)
             v == IF s.op = "EqS" THEN FBool(StringsEqual(r, q))
                  ELSE IF StringsEqual(r, q) \/ ~NeSRawStrcmp THEN FBool(~StringsEqual(r, q))
                  ELSE FloatOf(Difference(Text(r), Text(q)))
             w == IF s.op = "EqS" THEN Slow!FBool(Slow!StringsEqual(r, q))
                  ELSE IF Slow!StringsEqual(r, q) \/ ~NeSRawStrcmp THEN Slow!FBool(~Slow!StringsEqual(r, q))
                  ELSE FloatOf(Slow!Difference(Slow!Text(r), Slow!Text(q)))
  <2>1. v = w
    BY SlowTexts DEF Slow!FBool, Slow!IBool, FBool, IBool
  <2>2. Warns(StringWarning(Looked(r, q)), Set(mem, s.c, v))
    BY <1>3 DEF StringStatement
  <2>3. Slow!Warns(Slow!StringWarning(Slow!Looked(r, q)), Slow!Set(mem, s.c, w))
    BY <2>1, <2>2, SlowTexts, SlowWords, SlowEndings
  <2> QED
    BY <1>2, <1>3, <2>3 DEF Slow!StringStatement
<1>4. CASE s.op = "NotS"
  <2> DEFINE r == N(s.a)
  <2>1. Slow!FBool(r = 0 \/ Slow!Text(r) = <<>>) = FBool(r = 0 \/ Text(r) = <<>>)
    BY SlowTexts DEF Slow!FBool, Slow!IBool, FBool, IBool
  <2>2. Warns(StringWarning({r} \ {0}), Set(mem, s.c, FBool(r = 0 \/ Text(r) = <<>>)))
    BY <1>4 DEF StringStatement
  <2> QED
    BY <1>2, <1>4, <2>1, <2>2, SlowTexts, SlowWords, SlowEndings DEF Slow!StringStatement
<1> QED
  BY <1>3, <1>4 DEF StringStatement

LEMMA SlowStoreGlobal ==
  ASSUME NEW s \in Statements, StoreGlobal(s)
  PROVE  Slow!StoreGlobal(s)
<1>1. s.op \in {"StoreF", "StoreV", "StoreI64", "StoreIF", "StoreFI"}
  BY DEF StoreGlobal
<1>2. Reached(s.a) /\ Reached(s.b)
  BY <1>1, StatementReach DEF NoA, NoB, TakesIndex, JumpsToB, Branches, Switches, Unexecutables
<1>3. Slow!WordsOf(s.op) = WordsOf(s.op) /\ WordsOf(s.op) \in 1 .. 3
  BY WordsOfType DEF Slow!WordsOf, WordsOf
<1>4. Slow!Copied(s.a, s.b, Slow!WordsOf(s.op)) = Copied(s.a, s.b, WordsOf(s.op))
  BY <1>2, <1>3, PartReach, SlowRuns
<1>5. Slow!N(s.a) = N(s.a) /\ \A v : Slow!Put(mem, s.b, v) = Put(mem, s.b, v)
  BY <1>2, SlowOperands DEF Reached
<1> QED
  BY <1>4, <1>5, SlowResults, SlowEndings DEF Slow!StoreGlobal, StoreGlobal

LEMMA SlowCompoundGlobal ==
  ASSUME NEW s \in Statements, CompoundGlobal(s)
  PROVE  Slow!CompoundGlobal(s)
<1>1. s.op \in ScalarCompounds \union VectorCompounds
  BY DEF CompoundGlobal
<1>2. Reached(s.a) /\ Reached(s.b)
  BY <1>1, StatementReach DEF ScalarCompounds, VectorCompounds, NoA, NoB, TakesIndex, JumpsToB,
     Branches, Switches, Unexecutables
<1>3. /\ Slow!N(s.a) = N(s.a) /\ Slow!N(s.b) = N(s.b)
      /\ \A v : Slow!Put(mem, s.b, v) = Put(mem, s.b, v)
  BY <1>2, SlowOperands DEF Reached
<1>4. Slow!CompoundVector(s) = CompoundVector(s)
  BY <1>2, <1>3, SlowTriples, SlowBytes, SlowResults DEF Slow!CompoundVector, Slow!InTurn,
     CompoundVector, InTurn
<1>5. Slow!ScalarCompounds = ScalarCompounds /\ Slow!VectorCompounds = VectorCompounds
  BY DEF Slow!ScalarCompounds, Slow!VectorCompounds, ScalarCompounds, VectorCompounds
<1> QED
  BY <1>3, <1>4, <1>5, SlowResults, SlowEndings DEF Slow!CompoundGlobal, CompoundGlobal

LEMMA GlobalReach ==
  ASSUME NEW i \in Int, NEW n \in 1 .. 3, IsIndex(i, n)
  PROVE  Reaches(GlobalAt(i), n)
<1>1. i \in Nat /\ i < NumGlobals
  BY InterpreterAssumption DEF IsIndex
<1>2. GlobalAt(i) \in Nat /\ IsOperand(GlobalAt(i))
  BY <1>1, GlobalIsOperand
<1>3. Reached(GlobalAt(i))
  BY <1>2, OperandReach DEF Reached
<1> QED
  BY <1>3, PartReach

LEMMA SlowArrays ==
  ASSUME Sound, NEW s \in Statements, LoadGlobal(s) \/ GStore(s)
  PROVE  Slow!LoadGlobal(s) \/ Slow!GStore(s)
<1> DEFINE n == WordsOf(s.op)
<1>0. Slow!WordsOf(s.op) = n /\ n \in 1 .. 3
  BY WordsOfType DEF Slow!WordsOf, WordsOf
<1>1. /\ \A i : Slow!GlobalAt(i) = GlobalAt(i)
      /\ \A i, k : Slow!IsIndex(i, k) <=> IsIndex(i, k)
  BY DEF Slow!GlobalAt, Slow!IsIndex, GlobalAt, IsIndex
<1>2. CASE LoadGlobal(s)
  <2> DEFINE i == IF s.op \in {"GLoadF", "GLoadV"} THEN Signed(N(s.a)) ELSE s.a + Signed(N(s.b))
  <2>1. Reached(s.b) /\ Reached(s.c) /\ (s.op \in {"GLoadF", "GLoadV"} => Reached(s.a))
    BY <1>2, StatementReach DEF LoadGlobal, NoA, NoB, NoC, TakesIndex, JumpsToB, Branches, Switches,
       WithoutC, Unexecutables
  <2>2. Slow!N(s.b) = N(s.b) /\ (s.op \in {"GLoadF", "GLoadV"} => Slow!N(s.a) = N(s.a))
    BY <2>1, SlowOperands DEF Reached
  <2>3. i \in Int
    <3>1. s.a \in Nat /\ s.b \in Nat /\ N(s.a) \in Word /\ N(s.b) \in Word
      BY Operands, WordTypes
    <3> QED
      BY <3>1, SignedIndex
  <2>4. IF IsIndex(i, n) THEN Does(Copied(GlobalAt(i), s.c, n)) ELSE Faults("array index")
    BY <1>2 DEF LoadGlobal
  <2>5. (IF s.op \in {"GLoadF", "GLoadV"} THEN Slow!Signed(Slow!N(s.a))
                                          ELSE s.a + Slow!Signed(Slow!N(s.b))) = i
    BY <2>2, SlowResults
  <2>6. IsIndex(i, n) => Slow!Copied(Slow!GlobalAt(i), s.c, n) = Copied(GlobalAt(i), s.c, n)
    BY <1>0, <1>1, <2>1, <2>3, GlobalReach, PartReach, SlowRuns
  <2>7. s.op \in {"LoadAF", "LoadAV", "LoadAI64", "GLoadF", "GLoadV"}
    BY <1>2 DEF LoadGlobal
  <2>8. IF Slow!IsIndex(i, n) THEN Slow!Does(Slow!Copied(Slow!GlobalAt(i), s.c, n))
                              ELSE Slow!Faults("array index")
    BY <1>1, <2>4, <2>6, SlowEndings
  <2> HIDE DEF i, n
  <2>9. Slow!LoadGlobal(s)
    BY <1>0, <2>5, <2>7, <2>8 DEF Slow!LoadGlobal
  <2> QED
    BY <2>9
<1>3. CASE GStore(s)
  <2> DEFINE i == Signed(N(s.b))
  <2>1. Reached(s.b) /\ Reached(s.a)
    BY <1>3, StatementReach DEF GStore, NoA, NoB, NoC, TakesIndex, JumpsToB, Branches, Switches,
       WithoutC, Unexecutables
  <2>2. Slow!N(s.b) = N(s.b)
    BY <2>1, SlowOperands DEF Reached
  <2>3. i \in Int
    <3>1. s.b \in Nat /\ N(s.b) \in Word
      BY Operands, WordTypes
    <3> QED
      BY <3>1, SignedIndex
  <2>4. IF IsIndex(i, n) THEN Does(Copied(s.a, GlobalAt(i), n)) ELSE Faults("array index")
    BY <1>3 DEF GStore
  <2>5. Slow!Signed(Slow!N(s.b)) = i
    BY <2>2, SlowResults
  <2>6. IsIndex(i, n) => Slow!Copied(s.a, Slow!GlobalAt(i), n) = Copied(s.a, GlobalAt(i), n)
    BY <1>0, <1>1, <2>1, <2>3, GlobalReach, PartReach, SlowRuns
  <2>7. s.op \in {"GStorePF", "GStorePV"}
    BY <1>3 DEF GStore
  <2>8. IF Slow!IsIndex(i, n) THEN Slow!Does(Slow!Copied(s.a, Slow!GlobalAt(i), n))
                              ELSE Slow!Faults("array index")
    BY <1>1, <2>4, <2>6, SlowEndings
  <2> HIDE DEF i, n
  <2>9. Slow!GStore(s)
    BY <1>0, <2>5, <2>7, <2>8 DEF Slow!GStore
  <2> QED
    BY <2>9
<1> QED
  BY <1>2, <1>3

LEMMA SlowFetch ==
  ASSUME NEW s \in Statements, FetchGlobal(s)
  PROVE  Slow!FetchGlobal(s)
<1> DEFINE n == WordsOf(s.op)
           i == F2I(Num(WordAt("whole", mem, s.b)))
<1>0. Slow!WordsOf(s.op) = n /\ n \in 1 .. 3
  BY WordsOfType DEF Slow!WordsOf, WordsOf
<1>1. s.op \in {"FetchGblF", "FetchGblV"}
  BY DEF FetchGlobal
<1>2. Reached(s.c)
  BY <1>1, StatementReach DEF NoC, JumpsToB, Branches, Switches, WithoutC, Unexecutables
<1>3. \A m, q : Slow!CopyWords("whole", m, q, s.c, n) = CopyWords("whole", m, q, s.c, n)
  BY <1>0, <1>2, PartReach, SlowRuns
<1>4. Slow!F2I(Slow!Num(Slow!WordAt("whole", mem, s.b))) = i
  BY SlowBytes, SlowWords, SlowResults
<1>5. \A k : Slow!GlobalAt(k) = GlobalAt(k)
  BY DEF Slow!GlobalAt, GlobalAt
<1>6. IF s.a = 0 THEN Faults("array index")
      ELSE IF Wrap(i) > Num(WordAt("whole", mem, GlobalAt(s.a - 1))) THEN Faults("array index")
      ELSE Does(CopyWords("whole", mem, GlobalAt(Wrap(s.a + Wrap(i) * n)), s.c, n))
  BY DEF FetchGlobal
<1> HIDE DEF i, n
<1>7. IF s.a = 0 THEN Slow!Faults("array index")
      ELSE IF Slow!Wrap(i) > Slow!Num(Slow!WordAt("whole", mem, Slow!GlobalAt(s.a - 1)))
      THEN Slow!Faults("array index")
      ELSE Slow!Does(Slow!CopyWords("whole", mem, Slow!GlobalAt(Slow!Wrap(s.a + Slow!Wrap(i) * n)), s.c, n))
  BY <1>3, <1>5, <1>6, SlowBytes, SlowWords, SlowEndings
<1> QED
  BY <1>0, <1>1, <1>4, <1>7 DEF Slow!FetchGlobal

LEMMA SlowAddresses ==
  ASSUME NEW s \in Statements, GlobalAddress(s) \/ BoundCheck(s) \/ Push(s)
  PROVE  Slow!GlobalAddress(s) \/ Slow!BoundCheck(s) \/ Slow!Push(s)
<1>1. CASE GlobalAddress(s)
  <2>1. Reached(s.b) /\ Reached(s.c)
    BY <1>1, StatementReach DEF GlobalAddress, NoB, NoC, JumpsToB, Branches, Switches, WithoutC,
       Unexecutables
  <2>2. Slow!N(s.b) = N(s.b) /\ \A v : Slow!Put(mem, s.c, v) = Put(mem, s.c, v)
    BY <2>1, SlowOperands DEF Reached
  <2> QED
    BY <1>1, <2>2, SlowBytes, SlowEndings DEF Slow!GlobalAddress, GlobalAddress
<1>2. CASE BoundCheck(s)
  <2>1. Reached(s.a)
    BY <1>2, StatementReach DEF BoundCheck, NoA, TakesIndex, Unexecutables
  <2>2. Slow!N(s.a) = N(s.a)
    BY <2>1, SlowOperands DEF Reached
  <2> QED
    BY <1>2, <2>2, SlowEndings DEF Slow!BoundCheck, BoundCheck
<1>3. CASE Push(s)
  <2>1. Reached(s.a) /\ Reached(s.c)
    BY <1>3, StatementReach DEF Push, NoA, NoC, TakesIndex, JumpsToB, Branches, Switches, WithoutC,
       Unexecutables
  <2>2. Slow!N(s.a) = N(s.a) /\ \A v : Slow!Put(mem, s.c, v) = Put(mem, s.c, v)
    BY <2>1, SlowOperands DEF Reached
  <2> QED
    BY <1>3, <2>2, SlowBytes, SlowEndings DEF Slow!Push, Push
<1> QED
  BY <1>1, <1>2, <1>3

LEMMA SlowField ==
  ASSUME NEW s \in Statements, LoadField(s) \/ Address(s) \/ StoreField(s)
  PROVE  Slow!LoadField(s) \/ Slow!Address(s) \/ Slow!StoreField(s)
<1> DEFINE e == N(s.a)
           f == N(s.b)
           n == WordsOf(s.op)
<1>1. s.op \in {"LoadF", "LoadV", "LoadI64", "Address", "StoreFieldF", "StoreFieldV", "StoreFieldI64"}
  BY DEF LoadField, Address, StoreField
<1>2. Reached(s.a) /\ Reached(s.b) /\ Reached(s.c)
  BY <1>1, StatementReach DEF NoA, NoB, NoC, TakesIndex, JumpsToB, Branches, Switches, WithoutC,
     Unexecutables
<1>3. Slow!WordsOf(s.op) = n /\ n \in 1 .. 3
  BY WordsOfType DEF Slow!WordsOf, WordsOf
<1>4. Slow!N(s.a) = e /\ Slow!N(s.b) = f /\ \A v : Slow!Put(mem, s.c, v) = Put(mem, s.c, v)
  BY <1>2, SlowOperands DEF Reached
<1>5. Slow!BadAccess(e) = BadAccess(e)
  BY SlowMemory DEF Slow!BadAccess, BadAccess
<1>6. CASE LoadField(s)
  <2> DEFINE zeroed == IF e < NumEdicts(mem) THEN 1
                       ELSE IF s.op = "LoadI64" /\ LoadI64Zero3 THEN 3 ELSE n
             slowed == IF e < Slow!NumEdicts(mem) THEN 1
                       ELSE IF s.op = "LoadI64" /\ LoadI64Zero3 THEN 3 ELSE n
  <2>1. IF HasField(mem, e, f, n) THEN Does(PutWords(View, mem, s.c, Field(mem, e, f, n), n))
        ELSE Warns(BadAccess(e), PutWords("whole", mem, s.c, Zeros(zeroed * WordBytes), zeroed))
    BY <1>6 DEF LoadField
  <2>2. slowed = zeroed /\ zeroed \in 1 .. 3
    BY <1>3, SlowMemory
  <2>3. /\ \A b : Slow!PutWords("whole", mem, s.c, b, n) = PutWords(View, mem, s.c, b, n)
        /\ \A b : Slow!PutWords("whole", mem, s.c, b, zeroed) = PutWords("whole", mem, s.c, b, zeroed)
    BY <1>2, <1>3, <2>2, PartReach, SlowRuns
  <2>4. s.op \in {"LoadF", "LoadV", "LoadI64"}
    BY <1>6 DEF LoadField
  <2> HIDE DEF e, f, n, zeroed
  <2>5. IF Slow!HasField(mem, e, f, n) THEN Slow!Does(Slow!PutWords("whole", mem, s.c, Slow!Field(mem, e, f, n), n))
        ELSE Slow!Warns(Slow!BadAccess(e), Slow!PutWords("whole", mem, s.c, Slow!Zeros(zeroed * WordBytes), zeroed))
    BY <1>5, <2>1, <2>3, SlowFields, SlowBytes, SlowEndings
  <2>6. IF Slow!HasField(mem, e, f, n) THEN Slow!Does(Slow!PutWords("whole", mem, s.c, Slow!Field(mem, e, f, n), n))
        ELSE Slow!Warns(Slow!BadAccess(e), Slow!PutWords("whole", mem, s.c, Slow!Zeros(slowed * WordBytes), slowed))
    BY <2>2, <2>5
  <2>7. Slow!LoadField(s)
    BY <1>3, <1>4, <2>4, <2>6 DEF Slow!LoadField
  <2> QED
    BY <2>7
<1>7. CASE Address(s)
  <2>1. IF e >= NumEdicts(mem) THEN Warns("bad entity", mem)
        ELSE IF Protected(mem, e) THEN Warns("read only", Set(mem, s.c, WordVals - 1))
        ELSE Does(Put(mem, s.c, FieldAddress(e, f)))
    BY <1>7 DEF Address
  <2>2. s.op = "Address"
    BY <1>7 DEF Address
  <2> HIDE DEF e, f, n
  <2>3. Slow!Address(s)
    BY <1>4, <2>1, <2>2, SlowMemory, SlowFields, SlowBytes, SlowWords, SlowEndings DEF Slow!Address
  <2> QED
    BY <2>3
<1>8. CASE StoreField(s)
  <2> DEFINE stored == WithField(mem, e, f, GlobalWords(s.c, n))
  <2>1. IF FastPaths /\ ViewStores(mem, e, f, n) THEN Does(stored)
        ELSE IF ~HasField(mem, e, f, n) THEN Warns(BadAccess(e), mem)
        ELSE IF Protected(mem, e) THEN Warns("read only", mem)
        ELSE Does(stored)
    BY <1>8 DEF StoreField
  <2>2. IF ~HasField(mem, e, f, n) THEN Warns(BadAccess(e), mem)
        ELSE IF Protected(mem, e) THEN Warns("read only", mem)
        ELSE Does(stored)
    BY <2>1 DEF ViewStores
  <2>3. Slow!WithField(mem, e, f, Slow!GlobalWords(s.c, n)) = stored
    BY <1>2, <1>3, PartReach, SlowRuns, SlowFields
  <2>4. s.op \in {"StoreFieldF", "StoreFieldV", "StoreFieldI64"}
    BY <1>8 DEF StoreField
  <2> HIDE DEF e, f, n, stored
  <2>5. Slow!StoreField(s)
    BY <1>3, <1>4, <1>5, <2>2, <2>3, <2>4, SlowMemory, SlowFields, SlowEndings DEF Slow!StoreField
  <2> QED
    BY <2>5
<1> QED
  BY <1>6, <1>7, <1>8

LEMMA SlowWrites ==
  \A base, off, bytes : PtrWrite(base, off, bytes) => Slow!PtrWrite(base, off, bytes)
<1>1. \A t, end : /\ Slow!MayGrow(t, end) <=> MayGrow(t, end)
                  /\ Slow!Grown(t, end) = Grown(t, end)
  BY SlowBytes DEF Slow!MayGrow, Slow!Grown, Slow!RoundUp, MayGrow, Grown, RoundUp
<1>2. Advance => Slow!Advance
  BY DEF Slow!Advance, Advance
<1>3. ASSUME NEW base, NEW off, NEW bytes, WriteElsewhere(base, off, bytes)
      PROVE  Slow!WriteElsewhere(base, off, bytes)
  <2> DEFINE p == Wrap(base + off)
             t == SlotOf(base)
             end == off + Len(bytes)
             fits == t \in DOMAIN temps /\ MayGrow(t, end)
             grown == Patched(Grown(t, end), off, bytes)
  <2>1. IF p = WordVals - 1 THEN Does(mem)
        ELSE IF Kind(base) = "temp"
        THEN IF fits
             THEN /\ temps' = [temps EXCEPT ![t] = grown]
                  /\ warned' = "none" /\ Advance /\ UNCHANGED <<mem, budget, exit>>
             ELSE Faults("bad write")
        ELSE Faults(IF p = 0 THEN "null write" ELSE "bad write")
    BY <1>3 DEF WriteElsewhere
  <2>2. /\ Slow!Wrap(base + off) = p /\ Slow!WordVals = WordVals
        /\ Slow!SlotOf(base) = t /\ Slow!Kind(base) = Kind(base)
        /\ (t \in DOMAIN temps /\ Slow!MayGrow(t, end)) <=> fits
        /\ Slow!Patched(Slow!Grown(t, end), off, bytes) = grown
    BY <1>1, SlowBytes, SlowTexts
  <2>3. fits <=> Slow!SlotOf(base) \in DOMAIN temps /\ Slow!MayGrow(Slow!SlotOf(base), off + Len(bytes))
    BY <2>2
  <2>4. Slow!Patched(Slow!Grown(Slow!SlotOf(base), off + Len(bytes)), off, bytes) = grown
    BY <2>2
  <2> HIDE DEF p, t, end, fits, grown
  <2>5. IF p = WordVals - 1 THEN Slow!Does(mem)
        ELSE IF Kind(base) = "temp"
        THEN IF fits
             THEN /\ temps' = [temps EXCEPT ![t] = grown]
                  /\ warned' = "none" /\ Slow!Advance /\ UNCHANGED <<mem, budget, exit>>
             ELSE Slow!Faults("bad write")
        ELSE Slow!Faults(IF p = 0 THEN "null write" ELSE "bad write")
    BY <1>2, <2>1, SlowEndings
  <2> QED
    BY <2>2, <2>3, <2>4, <2>5 DEF Slow!WriteElsewhere
<1> TAKE base, off, bytes
<1> DEFINE p == Wrap(base + off)
           verdict == CheckWrite(mem, p, Len(bytes))
<1>4. Slow!CheckWrite(mem, Slow!Wrap(base + off), Len(bytes)) = verdict /\ Slow!Wrap(base + off) = p
  BY SlowBytes, SlowMemory
<1>5. verdict = "ok" \/ verdict = "protected" \/ verdict = "null" \/ verdict = "invalid"
  BY DEF CheckWrite
<1>6. CASE verdict = "ok"
  BY <1>4, <1>6, SlowMemory, SlowEndings DEF Slow!PtrWrite, PtrWrite
<1>7. CASE verdict = "protected"
  BY <1>4, <1>7, SlowMemory, SlowEndings DEF Slow!PtrWrite, PtrWrite
<1>8. CASE verdict = "null" \/ verdict = "invalid"
  BY <1>3, <1>4, <1>8, SlowMemory, SlowEndings DEF Slow!PtrWrite, PtrWrite
<1> QED
  BY <1>5, <1>6, <1>7, <1>8

LEMMA SlowStored ==
  ASSUME NEW s \in Statements, s.op \in Stores
  PROVE  /\ Slow!Stored(s) = Stored(s)
         /\ Slow!N(s.b) = N(s.b) /\ Slow!N(s.c) = N(s.c) /\ Slow!Scale(s.op) = Scale(s.op)
<1>1. Reached(s.a) /\ Reached(s.b) /\ Reached(s.c)
  BY StatementReach DEF Stores, NoA, NoB, NoC, TakesIndex, JumpsToB, Branches, Switches, WithoutC,
     Unexecutables
<1>2. Slow!WordsOf(s.op) = WordsOf(s.op) /\ WordsOf(s.op) \in 1 .. 3
  BY WordsOfType DEF Slow!WordsOf, WordsOf
<1>3. Slow!GlobalWords(s.a, WordsOf(s.op)) = GlobalWords(s.a, WordsOf(s.op))
  BY <1>1, <1>2, PartReach, SlowRuns
<1>4. Slow!N(s.a) = N(s.a) /\ Slow!N(s.b) = N(s.b) /\ Slow!N(s.c) = N(s.c)
  BY <1>1, SlowOperands DEF Reached
<1>5. Slow!Scale(s.op) = Scale(s.op)
  BY DEF Slow!Scale, Scale
<1>6. CASE s.op \in {"StorePF", "StorePV", "StorePI64"}
  <2>1. Stored(s) = GlobalWords(s.a, WordsOf(s.op))
    BY <1>6 DEF Stored
  <2>2. Slow!Stored(s) = Slow!GlobalWords(s.a, Slow!WordsOf(s.op))
    BY <1>6 DEF Slow!Stored
  <2> QED
    BY <1>2, <1>3, <1>4, <1>5, <2>1, <2>2
<1>7. CASE s.op \in {"StorePIF", "StorePFI"}
  <2>1. Stored(s) = BytesOf(IF s.op = "StorePIF" THEN FloatOf(Signed(N(s.a)))
                                                 ELSE Wrap(F2I(N(s.a))), WordBytes)
    BY <1>7 DEF Stored
  <2>2. Slow!Stored(s) = Slow!BytesOf(IF s.op = "StorePIF" THEN FloatOf(Slow!Signed(Slow!N(s.a)))
                                      ELSE Slow!Wrap(Slow!F2I(Slow!N(s.a))), WordBytes)
    BY <1>7 DEF Slow!Stored
  <2> QED
    BY <1>4, <1>5, <2>1, <2>2, SlowBytes, SlowResults
<1>8. CASE s.op = "StorePC"
  <2>1. Stored(s) = BytesOf(Wrap(F2I(N(s.a))) % ByteVals, 1)
    BY <1>8 DEF Stored
  <2>2. Slow!Stored(s) = Slow!BytesOf(Slow!Wrap(Slow!F2I(Slow!N(s.a))) % Slow!ByteVals, 1)
    BY <1>8 DEF Slow!Stored
  <2> QED
    BY <1>4, <1>5, <2>1, <2>2, SlowBytes, SlowResults
<1>9. CASE s.op = "StorePI8"
  <2>1. Stored(s) = BytesOf(N(s.a) % ByteVals, 1)
    BY <1>9 DEF Stored
  <2>2. Slow!Stored(s) = Slow!BytesOf(Slow!N(s.a) % Slow!ByteVals, 1)
    BY <1>9 DEF Slow!Stored
  <2> QED
    BY <1>4, <1>5, <2>1, <2>2, SlowBytes
<1>10. CASE s.op = "StorePI16"
  <2>1. Stored(s) = BytesOf(N(s.a) % Vals(WordBytes \div 2), WordBytes \div 2)
    BY <1>10 DEF Stored
  <2>2. Slow!Stored(s) = Slow!BytesOf(Slow!N(s.a) % Slow!Vals(WordBytes \div 2), WordBytes \div 2)
    BY <1>10 DEF Slow!Stored
  <2> QED
    BY <1>4, <1>5, <2>1, <2>2, SlowBytes
<1> QED
  BY <1>6, <1>7, <1>8, <1>9, <1>10 DEF Stores

LEMMA SlowStorePointer ==
  ASSUME Sound, NEW s \in Statements, StorePointer(s)
  PROVE  Slow!StorePointer(s)
<1> DEFINE off == Wrap(N(s.c) * Scale(s.op))
           p == Wrap(N(s.b) + off)
           bytes == Stored(s)
<1>1. s.op \in Stores
  BY DEF StorePointer, Stores
<1>2. IF /\ FastPaths /\ s.op \in {"StorePF", "StorePV"}
         /\ ViewWrites(View, mem, p, Len(bytes))
      THEN Does(ViewWritten(View, mem, p, bytes))
      ELSE PtrWrite(N(s.b), off, bytes)
  BY DEF StorePointer
<1>3. Slow!PtrWrite(N(s.b), off, bytes)
  <2>1. CASE s.op \in {"StorePF", "StorePV"} /\ ViewWrites(View, mem, p, Len(bytes))
    <3>1. bytes \in Seq(Byte) /\ Len(bytes) # 0
      BY <1>1, <2>1, StoredType
    <3>2. p \in Nat
      <4>1. s.b \in Nat /\ s.c \in Nat
        BY Operands
      <4>2. N(s.b) \in Nat /\ N(s.c) \in Nat
        BY <4>1, WordTypes
      <4>3. Scale(s.op) \in Nat
        BY MemoryAssumption DEF Scale
      <4>4. N(s.c) * Scale(s.op) \in Int
        BY <4>2, <4>3
      <4>5. off \in Nat
        BY <4>4, WrapType DEF Word
      <4>6. N(s.b) + off \in Int
        BY <4>2, <4>5
      <4> QED
        BY <4>6, WrapType DEF Word
    <3> HIDE DEF off, p, bytes
    <3>3. CheckWrite(mem, p, Len(bytes)) = "ok" /\ ViewWritten(View, mem, p, bytes) = Written(mem, p, bytes)
      BY <2>1, <3>1, <3>2, ViewWriteIsWritten DEF Sound
    <3>4. Does(ViewWritten(View, mem, p, bytes)) \/ PtrWrite(N(s.b), off, bytes)
      BY <1>2
    <3>5. Does(Written(mem, p, bytes)) => PtrWrite(N(s.b), off, bytes)
      BY <3>3 DEF PtrWrite, p
    <3> QED
      BY <3>3, <3>4, <3>5, SlowWrites
  <2>2. CASE ~(s.op \in {"StorePF", "StorePV"} /\ ViewWrites(View, mem, p, Len(bytes)))
    BY <1>2, <2>2, SlowWrites
  <2> QED
    BY <2>1, <2>2
<1>4. Slow!Wrap(Slow!N(s.c) * Slow!Scale(s.op)) = off /\ Slow!N(s.b) = N(s.b) /\ Slow!Stored(s) = bytes
  BY <1>1, SlowStored, SlowBytes
<1> HIDE DEF off, p, bytes
<1> QED
  BY <1>1, <1>3, <1>4 DEF Slow!StorePointer, Stores

LEMMA SlowReads ==
  /\ \A op : Slow!LoadedBytes(op) = LoadedBytes(op) /\ Slow!Scale(op) = Scale(op)
  /\ \A base, off, n : /\ Slow!MayRead(base, off, n) <=> MayRead(base, off, n)
                       /\ Slow!PtrRead(base, off, n) = PtrRead(base, off, n)
<1>1. \A op : Slow!Scale(op) = Scale(op)
  BY DEF Slow!Scale, Scale
<1>2. \A op : Slow!WordsOf(op) = WordsOf(op)
  BY DEF Slow!WordsOf, WordsOf
<1>3. ASSUME NEW op PROVE Slow!LoadedBytes(op) = LoadedBytes(op)
  BY <1>2 DEF Slow!LoadedBytes, LoadedBytes
<1>4. \A r : Slow!StringData(r) = StringData(r) /\ (Slow!HasData(r) <=> HasData(r))
  BY SlowTexts DEF Slow!StringData, Slow!HasData, StringData, HasData
<1>5. \A base, off, n : Slow!MayRead(base, off, n) <=> MayRead(base, off, n)
  BY <1>4, SlowBytes, SlowMemory DEF Slow!MayRead, MayRead
<1>6. ASSUME NEW base, NEW off, NEW n
      PROVE  Slow!PtrRead(base, off, n) = PtrRead(base, off, n)
  <2> DEFINE padded(d) == [i \in 1 .. n |-> IF off + i <= Len(d) THEN d[off + i] ELSE 0]
             read(p, d) == IF Readable(mem, p, n) THEN Read(mem, p, n)
                           ELSE IF p = WordVals - 1 THEN Zeros(n) ELSE padded(d)
  <2>1. PtrRead(base, off, n) = read(Wrap(base + off), StringData(base))
    BY DEF PtrRead
  <2>2. Slow!PtrRead(base, off, n) =
          IF Slow!Readable(mem, Slow!Wrap(base + off), n) THEN Slow!Read(mem, Slow!Wrap(base + off), n)
          ELSE IF Slow!Wrap(base + off) = Slow!WordVals - 1 THEN Slow!Zeros(n)
          ELSE padded(Slow!StringData(base))
    BY DEF Slow!PtrRead
  <2> HIDE DEF padded
  <2> QED
    BY <1>4, <2>1, <2>2, SlowBytes, SlowMemory
<1> QED
  BY <1>1, <1>3, <1>5, <1>6

LEMMA SlowLoaded ==
  ASSUME NEW s \in Statements, s.op \in Loads
  PROVE  \A b : Slow!Loaded(s, b) = Loaded(s, b)
<1>1. Reached(s.c)
  BY StatementReach, LoadsInC
<1>2. Slow!WordsOf(s.op) = WordsOf(s.op) /\ WordsOf(s.op) \in 1 .. 3
  BY WordsOfType DEF Slow!WordsOf, WordsOf
<1> TAKE b
<1>3. CASE s.op \in {"LoadPF", "LoadPV", "LoadPI64"}
  <2>1. Loaded(s, b) = PutWords("whole", mem, s.c, b, WordsOf(s.op))
    BY <1>3 DEF Loaded
  <2>2. Slow!Loaded(s, b) = Slow!PutWords("whole", mem, s.c, b, Slow!WordsOf(s.op))
    BY <1>3 DEF Slow!Loaded
  <2> QED
    BY <1>1, <1>2, <2>1, <2>2, PartReach, SlowRuns
<1>4. CASE s.op = "LoadPC"
  <2>1. Loaded(s, b) = Set(mem, s.c, FloatOf(Num(b)))
    BY <1>4 DEF Loaded
  <2>2. Slow!Loaded(s, b) = Slow!Set(mem, s.c, FloatOf(Slow!Num(b)))
    BY <1>4 DEF Slow!Loaded
  <2> QED
    BY <2>1, <2>2, SlowBytes, SlowWords
<1>5. CASE s.op \in {"LoadPI8", "LoadPI16"}
  <2>1. Loaded(s, b) = Set(mem, s.c, SignExtended(Num(b), Len(b)))
    BY <1>5 DEF Loaded
  <2>2. Slow!Loaded(s, b) = Slow!Set(mem, s.c, Slow!SignExtended(Slow!Num(b), Len(b)))
    BY <1>5 DEF Slow!Loaded
  <2>3. \A v, n : Slow!SignExtended(v, n) = SignExtended(v, n)
    BY SlowBytes DEF Slow!SignExtended, SignExtended
  <2> QED
    BY <2>1, <2>2, <2>3, SlowBytes, SlowWords
<1>6. CASE s.op \in {"LoadPU8", "LoadPU16"}
  <2>1. Loaded(s, b) = Set(mem, s.c, Num(b))
    BY <1>6 DEF Loaded
  <2>2. Slow!Loaded(s, b) = Slow!Set(mem, s.c, Slow!Num(b))
    BY <1>6 DEF Slow!Loaded
  <2> QED
    BY <2>1, <2>2, SlowBytes, SlowWords
<1> QED
  BY <1>3, <1>4, <1>5, <1>6 DEF Loads

LEMMA SlowLoadPointer ==
  ASSUME Sound, NEW s \in Statements, LoadPointer(s)
  PROVE  Slow!LoadPointer(s)
<1> DEFINE index == IF s.op = "LoadPC" THEN Wrap(F2I(N(s.b))) ELSE N(s.b)
           off == Wrap(index * Scale(s.op))
           p == Wrap(N(s.a) + off)
           n == LoadedBytes(s.op)
           slowed == IF s.op = "LoadPC" THEN Slow!Wrap(Slow!F2I(Slow!N(s.b))) ELSE Slow!N(s.b)
<1>1. s.op \in Loads
  BY DEF LoadPointer, Loads
<1>2. Reached(s.a) /\ Reached(s.b) /\ Reached(s.c)
  BY <1>1, StatementReach DEF Loads, NoA, NoB, NoC, TakesIndex, JumpsToB, Branches, Switches,
     WithoutC, Unexecutables
<1>3. IF FastPaths /\ s.op \in {"LoadPF", "LoadPV"} /\ ViewReads(View, mem, p, n)
      THEN Does(PutWords(View, mem, s.c, ViewRead(View, mem, p, n), WordsOf(s.op)))
      ELSE IF MayRead(N(s.a), off, n) THEN Does(Loaded(s, PtrRead(N(s.a), off, n)))
      ELSE Faults("bad read")
  BY DEF LoadPointer
<1>4. /\ Slow!N(s.a) = N(s.a) /\ slowed = index
      /\ Slow!Wrap(slowed * Slow!Scale(s.op)) = off /\ Slow!LoadedBytes(s.op) = n
  <2>1. Slow!N(s.a) = N(s.a) /\ Slow!N(s.b) = N(s.b)
    BY <1>2, SlowOperands DEF Reached
  <2>2. slowed = index
    BY <2>1, SlowBytes, SlowResults
  <2> QED
    BY <2>1, <2>2, SlowBytes, SlowReads
<1>5. IF MayRead(N(s.a), off, n) THEN Does(Loaded(s, PtrRead(N(s.a), off, n)))
      ELSE Faults("bad read")
  <2>1. CASE s.op \in {"LoadPF", "LoadPV"} /\ ViewReads(View, mem, p, n)
    <3>1. n \in Nat \ {0}
      BY <1>1, <2>1, LoadedBytesType
    <3>2. p \in Nat
      <4>1. s.a \in Nat /\ s.b \in Nat
        BY Operands
      <4>2. N(s.a) \in Nat /\ N(s.b) \in Nat
        BY <4>1, WordTypes
      <4>3. Scale(s.op) \in Nat
        BY MemoryAssumption DEF Scale
      <4>4. index = N(s.b)
        BY <2>1
      <4>5. index * Scale(s.op) \in Int
        BY <4>2, <4>3, <4>4
      <4>6. off \in Nat
        BY <4>5, WrapType DEF Word
      <4>7. N(s.a) + off \in Int
        BY <4>2, <4>6
      <4> QED
        BY <4>7, WrapType DEF Word
    <3>3. p = Wrap(N(s.a) + off)
      OBVIOUS
    <3> HIDE DEF off, p, n
    <3>4. Readable(mem, p, n) /\ ViewRead(View, mem, p, n) = Read(mem, p, n)
      BY <2>1, <3>1, <3>2, ViewReadIsRead DEF Sound
    <3>5. MayRead(N(s.a), off, n) /\ PtrRead(N(s.a), off, n) = Read(mem, p, n)
      BY <3>3, <3>4 DEF MayRead, PtrRead
    <3>6. WordsOf(s.op) \in 1 .. 3
      BY WordsOfType
    <3>7. \A b : PutWords(View, mem, s.c, b, WordsOf(s.op)) = PutWords("whole", mem, s.c, b, WordsOf(s.op))
      <4>1. Reaches(s.c, WordsOf(s.op))
        BY <1>2, <3>6, PartReach
      <4> QED
        BY <3>6, <4>1, SlowRuns
    <3>8. Loaded(s, Read(mem, p, n)) = PutWords("whole", mem, s.c, Read(mem, p, n), WordsOf(s.op))
      BY <2>1 DEF Loaded
    <3> QED
      BY <1>3, <3>4, <3>5, <3>7, <3>8
  <2>2. CASE ~(s.op \in {"LoadPF", "LoadPV"} /\ ViewReads(View, mem, p, n))
    BY <1>3, <2>2
  <2> QED
    BY <2>1, <2>2
<1> HIDE DEF off, p, n, index
<1>6. IF Slow!MayRead(Slow!N(s.a), off, n)
      THEN Slow!Does(Slow!Loaded(s, Slow!PtrRead(Slow!N(s.a), off, n)))
      ELSE Slow!Faults("bad read")
  BY <1>1, <1>4, <1>5, SlowReads, SlowLoaded, SlowEndings
<1>7. IF Slow!MayRead(Slow!N(s.a), Slow!Wrap(slowed * Slow!Scale(s.op)), Slow!LoadedBytes(s.op))
      THEN Slow!Does(Slow!Loaded(s, Slow!PtrRead(Slow!N(s.a), Slow!Wrap(slowed * Slow!Scale(s.op)),
                                                 Slow!LoadedBytes(s.op))))
      ELSE Slow!Faults("bad read")
  BY <1>4, <1>6
<1> QED
  BY <1>1, <1>7 DEF Slow!LoadPointer, Loads

LEMMA SlowLoadConverted ==
  ASSUME NEW s \in Statements, LoadConverted(s)
  PROVE  Slow!LoadConverted(s)
<1>1. s.op \in {"LoadPItoF", "LoadPFtoI"}
  BY DEF LoadConverted
<1>2. Reached(s.a)
  BY <1>1, StatementReach DEF NoA, TakesIndex, Unexecutables
<1>3. Slow!N(s.a) = N(s.a)
  BY <1>2, SlowOperands DEF Reached
<1> QED
  BY <1>3, SlowBytes, SlowMemory, SlowResults, SlowWords, SlowEndings DEF Slow!LoadConverted,
     LoadConverted

LEMMA SlowCompoundPointer ==
  ASSUME Sound, NEW s \in Statements, CompoundPointer(s)
  PROVE  Slow!CompoundPointer(s)
<1> DEFINE p == N(s.b)
           n == IF s.op \in PointerVectors THEN 3 ELSE 1
           by(m, k) == IF s.op = "MulStorePVF" THEN Num(WordAt("whole", mem, s.a))
                                               ELSE Num(WordAt("whole", m, Nth(s.a, k)))
           one(m, k) == CompoundAt(s, m, Nth(p, k), Nth(s.c, k), by(m, k))
           after == CASE n = 1 -> one(mem, 1) [] n = 2 -> one(one(mem, 1), 2)
                      [] n = 3 -> one(one(one(mem, 1), 2), 3)
           viewed == CompoundResult(s.op, Num(ViewRead(View, mem, p, WordBytes)), N(s.a))
           verdict == CheckWrite(mem, p, n * WordBytes)
           fast == Put(ViewWritten(View, mem, p, BytesOf(viewed, WordBytes)), s.c, viewed)
           plain == CASE verdict = "ok" -> Does(after)
                      [] verdict = "protected" -> Warns("read only", mem)
                      [] verdict = "null" -> Faults("null write")
                      [] verdict = "invalid" -> Faults("bad write")
<1>1. s.op \in Compounds
  BY DEF CompoundPointer, Compounds
<1>2. Reached(s.a) /\ Reached(s.b) /\ Reached(s.c)
  BY <1>1, StatementReach DEF Compounds, QuickCompounds, BitCompounds, PointerVectors, NoA, NoB, NoC,
     TakesIndex, JumpsToB, Branches, Switches, WithoutC, Unexecutables
<1>3. Slow!N(s.a) = N(s.a) /\ Slow!N(s.b) = p
  BY <1>2, SlowOperands DEF Reached
<1>4. IF FastPaths /\ s.op \in QuickCompounds /\ ViewWrites(View, mem, p, WordBytes)
      THEN Does(fast) ELSE plain
  BY DEF CompoundPointer, InTurn
<1>5. plain
  <2>1. CASE s.op \in QuickCompounds /\ ViewWrites(View, mem, p, WordBytes)
    <3>1. n = 1 /\ s.op \notin BitCompounds /\ s.op # "MulStorePVF" /\ s.op \notin PointerVectors
      BY <2>1 DEF QuickCompounds, PointerVectors, BitCompounds
    <3>2. p \in Nat /\ N(s.a) \in Word /\ WordBytes \in Nat \ {0}
      BY Operands, WordTypes, MemoryAssumption
    <3>3. Nth(p, 1) = p /\ Nth(s.a, 1) = s.a /\ Nth(s.c, 1) = s.c /\ InReach(s.a) /\ InReach(s.c)
      BY <1>2, <3>2 DEF Nth, Reached
    <3>4. ViewReads(View, mem, p, WordBytes)
      BY <2>1 DEF ViewWrites, ViewReads
    <3>5. Readable(mem, p, WordBytes) /\ ViewRead(View, mem, p, WordBytes) = Read(mem, p, WordBytes)
      BY <3>2, <3>4, ViewReadIsRead DEF Sound
    <3>6. Num(WordAt("whole", mem, s.a)) = N(s.a)
      BY <3>3, SlowWords DEF N, G
    <3>7. Read(mem, p, WordBytes) \in Seq(Byte) /\ Len(Read(mem, p, WordBytes)) = WordBytes
      BY <3>2, <3>5, ReadType DEF Sound
    <3>8. Num(Read(mem, p, WordBytes)) \in Word
      BY <3>7, NumType DEF Word, WordVals
    <3>9. viewed \in Int
      BY <3>2, <3>5, <3>8, CompoundResultType, <1>1 DEF Compounds, QuickCompounds, BitCompounds, PointerVectors
    <3>10. BytesOf(viewed, WordBytes) \in Seq(Byte) /\ Len(BytesOf(viewed, WordBytes)) = WordBytes
      BY <3>2, <3>9, BytesOfType
    <3>11. /\ CheckWrite(mem, p, WordBytes) = "ok"
           /\ ViewWritten(View, mem, p, BytesOf(viewed, WordBytes)) = Written(mem, p, BytesOf(viewed, WordBytes))
      <4> HIDE DEF viewed, p
      <4> QED
        BY <2>1, <3>2, <3>10, ViewWriteIsWritten DEF Sound
    <3>12. viewed = CompoundResult(s.op, Num(Read(mem, p, WordBytes)), by(mem, 1))
      BY <3>1, <3>3, <3>5, <3>6
    <3>13. one(mem, 1) = Set(Written(mem, p, BytesOf(viewed, WordBytes)), s.c, viewed)
      BY <3>1, <3>3, <3>12 DEF CompoundAt
    <3>14. \A m, v : Put(m, s.c, v) = Set(m, s.c, v)
      BY <3>3, SlowWords DEF Put, Set
    <3>15. fast = one(mem, 1) /\ after = one(mem, 1)
      BY <3>1, <3>11, <3>13, <3>14
    <3>16. n * WordBytes = WordBytes
      BY <3>1, <3>2
    <3>17. verdict = "ok"
      BY <3>11, <3>16
    <3>18. Does(fast) \/ plain
      BY <1>4
    <3> HIDE DEF fast, after, verdict
    <3> QED
      BY <3>15, <3>17, <3>18
  <2>2. CASE ~(s.op \in QuickCompounds /\ ViewWrites(View, mem, p, WordBytes))
    BY <1>4, <2>2
  <2> QED
    BY <2>1, <2>2
<1>6. \A m, q, o, v : Slow!CompoundAt(s, m, q, o, v) = CompoundAt(s, m, q, o, v)
  BY SlowBytes, SlowMemory, SlowResults, SlowWords DEF Slow!CompoundAt, Slow!BitCompounds,
     CompoundAt, BitCompounds
<1> DEFINE slowby(m, k) == IF s.op = "MulStorePVF" THEN Slow!Num(Slow!WordAt("whole", mem, s.a))
                           ELSE Slow!Num(Slow!WordAt("whole", m, Slow!Nth(s.a, k)))
           slowone(m, k) == Slow!CompoundAt(s, m, Slow!Nth(p, k), Slow!Nth(s.c, k), slowby(m, k))
<1>7. \A m, k : slowone(m, k) = one(m, k)
  BY <1>6, SlowBytes, SlowWords
<1>8. Slow!PointerVectors = PointerVectors /\ Slow!QuickCompounds = QuickCompounds
      /\ Slow!BitCompounds = BitCompounds
  BY DEF Slow!PointerVectors, Slow!QuickCompounds, Slow!BitCompounds, PointerVectors,
     QuickCompounds, BitCompounds
<1> DEFINE slowafter == CASE n = 1 -> slowone(mem, 1) [] n = 2 -> slowone(slowone(mem, 1), 2)
                          [] n = 3 -> slowone(slowone(slowone(mem, 1), 2), 3)
<1>9. slowafter = after
  <2>1. n = 1 \/ n = 3
    OBVIOUS
  <2> HIDE DEF n, one, slowone
  <2> QED
    BY <1>7, <2>1
<1>10. Slow!CheckWrite(mem, p, n * WordBytes) = verdict
  BY SlowMemory
<1> DEFINE slowplain == CASE Slow!CheckWrite(mem, p, n * WordBytes) = "ok" -> Slow!Does(slowafter)
                          [] Slow!CheckWrite(mem, p, n * WordBytes) = "protected" -> Slow!Warns("read only", mem)
                          [] Slow!CheckWrite(mem, p, n * WordBytes) = "null" -> Slow!Faults("null write")
                          [] Slow!CheckWrite(mem, p, n * WordBytes) = "invalid" -> Slow!Faults("bad write")
<1>11. slowplain
  <2>1. verdict = "ok" \/ verdict = "protected" \/ verdict = "null" \/ verdict = "invalid"
    BY DEF CheckWrite
  <2> HIDE DEF after, slowafter, verdict
  <2> QED
    BY <1>5, <1>9, <1>10, <2>1, SlowEndings
<1>12. s.op \in Slow!QuickCompounds \union Slow!BitCompounds \union Slow!PointerVectors
  BY <1>1, <1>8 DEF Compounds
<1> QED
  BY <1>3, <1>8, <1>11, <1>12 DEF Slow!CompoundPointer, Slow!InTurn

LEMMA SlowJumps ==
  ASSUME NEW s \in Statements, Branch(s) \/ Switch(s)
  PROVE  Slow!Branch(s) \/ Slow!Switch(s)
<1>1. Slow!Branches = Branches /\ Slow!Switches = Switches
  BY DEF Slow!Branches, Slow!Switches, Branches, Switches
<1>2. \A op : Slow!SwitchKindOf(op) = SwitchKindOf(op)
  BY DEF Slow!SwitchKindOf, SwitchKindOf
<1>3. CASE Branch(s)
  <2> DEFINE taken == \/ s.op = "Goto"
                      \/ s.op \in {"IfI", "IfF", "IfS"} /\ Truth(s.op, N(s.a))
                      \/ s.op \in {"IfNotI", "IfNotF", "IfNotS"} /\ ~Truth(s.op, N(s.a))
             slowed == \/ s.op = "Goto"
                       \/ s.op \in {"IfI", "IfF", "IfS"} /\ Slow!Truth(s.op, Slow!N(s.a))
                       \/ s.op \in {"IfNotI", "IfNotF", "IfNotS"} /\ ~Slow!Truth(s.op, Slow!N(s.a))
  <2>1. s.op # "Goto" => Slow!N(s.a) = N(s.a)
    <3>1. s.op # "Goto" => Reached(s.a)
      BY <1>3, StatementReach DEF Branch, Branches, NoA, TakesIndex, Unexecutables
    <3> QED
      BY <3>1, SlowOperands DEF Reached
  <2>2. \A op, v : Slow!Truth(op, v) <=> Truth(op, v)
    BY SlowResults DEF Slow!Truth, Truth
  <2>3. slowed <=> taken
    BY <2>1, <2>2
  <2>4. /\ s.op \in Branches \union {"Goto"}
        /\ JumpsTo("none", IF ~taken THEN x.pc + 1 ELSE IF s.op = "Goto" THEN s.a ELSE s.b, x)
    BY <1>3 DEF Branch
  <2> HIDE DEF taken, slowed
  <2>5. Slow!JumpsTo("none", IF ~slowed THEN x.pc + 1 ELSE IF s.op = "Goto" THEN s.a ELSE s.b, x)
    BY <2>3, <2>4, SlowEndings
  <2>6. Slow!Branch(s)
    BY <1>1, <2>4, <2>5 DEF Slow!Branch, slowed
  <2> QED
    BY <2>6
<1>4. CASE Switch(s)
  BY <1>1, <1>2, <1>4, SlowEndings DEF Slow!Switch, Switch
<1> QED
  BY <1>3, <1>4

\* The reference a switch leaves is to an operand.
LEMMA SlowCases ==
  ASSUME Reached(x.switchRef), x.switchKind \in SwitchKinds, NEW s \in Statements,
         Case(s) \/ CaseRange(s)
  PROVE  Slow!Case(s) \/ Slow!CaseRange(s)
<1> DEFINE r == x.switchRef
<1>1. Slow!N(r) = N(r)
  BY SlowOperands DEF Reached
<1>2. CASE Case(s)
  <2>1. Reached(s.a)
    BY <1>2, StatementReach DEF Case, NoA, TakesIndex, Unexecutables
  <2>2. Slow!N(s.a) = N(s.a) /\ (Slow!SameVector(r, s.a) <=> SameVector(r, s.a))
    BY <2>1, SlowOperands, SlowVectors DEF Reached
  <2>3. Slow!CaseHits(s.a) <=> CaseHits(s.a)
    <3>1. CASE x.switchKind = "Float"
      BY <1>1, <2>2, <3>1 DEF Slow!CaseHits, CaseHits
    <3>2. CASE x.switchKind = "Vector"
      BY <2>2, <3>2 DEF Slow!CaseHits, CaseHits
    <3>3. CASE x.switchKind = "String"
      BY <1>1, <2>2, <3>3, SlowTexts DEF Slow!CaseHits, CaseHits
    <3>4. CASE x.switchKind = "Int"
      BY <1>1, <2>2, <3>4 DEF Slow!CaseHits, CaseHits
    <3> QED
      BY <3>1, <3>2, <3>3, <3>4 DEF SwitchKinds
  <2>5. Slow!CaseWarning(s.a) = CaseWarning(s.a)
    BY <1>1, <2>2, SlowTexts DEF Slow!CaseWarning, CaseWarning
  <2>4. Slow!Case(s)
    BY <1>2, <2>3, <2>5, SlowEndings DEF Slow!Case, Case
  <2> QED
    BY <2>4
<1>3. CASE CaseRange(s)
  <2>1. Reached(s.a) /\ Reached(s.b)
    BY <1>3, StatementReach DEF CaseRange, NoA, NoB, TakesIndex, JumpsToB, Branches, Switches,
       Unexecutables
  <2>2. Slow!N(s.a) = N(s.a) /\ Slow!N(s.b) = N(s.b)
    BY <2>1, SlowOperands DEF Reached
  <2>3. \A k \in 0 .. 2 : /\ Slow!Component(r, k) = Component(r, k)
                          /\ Slow!Component(s.a, k) = Component(s.a, k)
                          /\ Slow!Component(s.b, k) = Component(s.b, k)
    BY <2>1, SlowComponents
  <2>4. x.switchKind # "String" => (Slow!RangeHits(s.a, s.b) <=> RangeHits(s.a, s.b))
    <3>1. CASE x.switchKind = "Float"
      BY <1>1, <2>2, <3>1 DEF Slow!RangeHits, RangeHits
    <3>2. CASE x.switchKind = "Vector"
      BY <2>3, <3>2 DEF Slow!RangeHits, RangeHits
    <3>3. CASE x.switchKind = "Int"
      BY <1>1, <2>2, <3>3, SlowResults DEF Slow!RangeHits, RangeHits
    <3> QED
      BY <3>1, <3>2, <3>3 DEF SwitchKinds
  <2>5. Slow!CaseRange(s)
    BY <1>3, <2>4, SlowEndings DEF Slow!CaseRange, CaseRange
  <2> QED
    BY <2>5
<1> QED
  BY <1>2, <1>3

\* The parameters of a call are copied alike when they are in view.
LEMMA SlowParms ==
  ASSUME NEW s \in Statements, s.op \in DOMAIN CallArgc, ParmsInView(s)
  PROVE  Slow!WithParms(s) = WithParms(s)
<1>1. Reached(s.b) /\ Reached(s.c)
  BY StatementReach DEF CallArgc, NoB, NoC, JumpsToB, Branches, Switches, WithoutC, Unexecutables
<1>2. /\ Slow!OfsParm0 = OfsParm0 /\ Slow!OfsParm1 = OfsParm1
      /\ Slow!CallArgc = CallArgc /\ Slow!HexenCalls = HexenCalls
  BY DEF Slow!OfsParm0, Slow!OfsParm1, Slow!CallArgc, Slow!HexenCalls, OfsParm0, OfsParm1, CallArgc,
     HexenCalls
<1>3. CASE s.op \notin HexenCalls
  BY <1>2, <1>3 DEF Slow!WithParms, WithParms
<1>4. CASE s.op \in HexenCalls
  <2>1. /\ Reaches(OfsParm0, 3)
        /\ CallArgc[s.op] >= 2 => Reaches(OfsParm1, 3)
    BY <1>4, ParmReach DEF ParmsOf
  <2>2. 3 \in 1 .. 3
    OBVIOUS
  <2>3. CallArgc[s.op] >= 2 => Slow!Copied(s.c, OfsParm1, 3) = Copied(s.c, OfsParm1, 3)
    BY <1>1, <2>1, <2>2, SlowRuns DEF Reached
  <2>4. \A m : Slow!CopyWords("whole", m, s.b, OfsParm0, 3) = CopyWords(View, m, s.b, OfsParm0, 3)
    BY <1>1, <2>1, <2>2, SlowRuns DEF Reached
  <2> QED
    BY <1>2, <1>4, <2>3, <2>4 DEF Slow!WithParms, WithParms
<1> QED
  BY <1>3, <1>4

LEMMA SlowCalls ==
  ASSUME NEW s \in Statements, ParmsInView(s),
         Call(s) \/ Return(s) \/ StateOp(s) \/ Unexecutable(s)
  PROVE  Slow!Call(s) \/ Slow!Return(s) \/ Slow!StateOp(s) \/ Slow!Unexecutable(s)
<1>1. Slow!OfsReturn = OfsReturn /\ Slow!Unexecutables = Unexecutables /\ Slow!CallArgc = CallArgc
  BY DEF Slow!OfsReturn, Slow!Unexecutables, Slow!CallArgc, OfsReturn, Unexecutables, CallArgc
<1>2. Reaches(OfsReturn, 3) /\ 3 \in 1 .. 3
  BY ParmOffsets, ReturnOperand, OperandReach
<1>3. CASE Call(s)
  <2>1. s.op \in DOMAIN CallArgc
    BY <1>3 DEF Call
  <2>2. Slow!WithParms(s) = WithParms(s)
    BY <2>1, SlowParms
  <2>3. Reached(s.a)
    BY <2>1, StatementReach DEF CallArgc, NoA, TakesIndex, Unexecutables
  <2>4. \A m : Slow!Num(Slow!WordAt("whole", m, s.a)) = Num(WordAt(View, m, s.a))
    BY <2>3, SlowWords, SlowBytes DEF Reached
  <2>5. \A f : Slow!CallEndings(f) = CallEndings(f)
    BY DEF Slow!CallEndings, Slow!Callee, CallEndings, Callee
  <2>6. Calls(s) => Slow!Calls(s)
    <3> DEFINE f == Num(WordAt(View, WithParms(s), s.a))
               regs(kind) == [x EXCEPT !.pc = IF kind = "call" THEN @ + 1 ELSE @,
                                       !.argc = CallArgc[s.op]]
    <3>1. ASSUME Calls(s) PROVE \E kind \in CallEndings(f) : Leaves(kind, WithParms(s), regs(kind))
      BY <3>1, Zenon DEF Calls
    <3>2. ASSUME NEW kind \in CallEndings(f), Leaves(kind, WithParms(s), regs(kind)) PROVE Slow!Calls(s)
      <4> HIDE DEF f
      <4>1. Slow!Leaves(kind, WithParms(s), regs(kind))
        BY <3>2, SlowEndings, Zenon
      <4>2. kind \in Slow!CallEndings(f)
        BY <2>5, <3>2, Zenon
      <4>3. Slow!Num(Slow!WordAt("whole", WithParms(s), s.a)) = f
        BY <2>4, Zenon DEF f
      <4>4. Slow!Num(Slow!WordAt("whole", Slow!WithParms(s), s.a)) = f
        BY <2>2, <4>3, Zenon
      <4>5. Slow!Leaves(kind, Slow!WithParms(s),
                        [x EXCEPT !.pc = IF kind = "call" THEN @ + 1 ELSE @,
                                  !.argc = Slow!CallArgc[s.op]])
        BY <1>1, <2>2, <4>1, Zenon
      <4> QED
        BY <4>2, <4>4, <4>5, Zenon DEF Slow!Calls
    <3> QED
      BY <3>1, <3>2, Zenon
  <2>7. Slow!Call(s)
    BY <1>1, <1>3, <2>6, SlowEndings DEF Slow!Call, Call
  <2> QED
    BY <2>7
<1>4. CASE Return(s)
  <2>1. Reached(s.a)
    BY <1>4, StatementReach DEF Return, NoA, TakesIndex, Unexecutables
  <2>2. Slow!Copied(s.a, OfsReturn, 3) = Copied(s.a, OfsReturn, 3)
    BY <1>2, <2>1, SlowRuns DEF Reached
  <2>3. Slow!Return(s)
    BY <1>1, <1>4, <2>2, SlowEndings DEF Slow!Return, Return
  <2> QED
    BY <2>3
<1>5. CASE StateOp(s) \/ Unexecutable(s)
  BY <1>1, <1>5, SlowEndings DEF Slow!StateOp, Slow!Unexecutable, StateOp, Unexecutable
<1> QED
  BY <1>3, <1>4, <1>5

LEMMA SlowStep ==
  ASSUME Sound, Registers, Reached(x.switchRef), NEW s \in Statements, ParmsInView(s), Execute(s)
  PROVE  Slow!Execute(s)
<1>1. x.switchKind \in SwitchKinds
  BY DEF Registers, Regs
<1>2. /\ exit = "run" /\ steps < Step
      /\ st' = s /\ steps' = steps + 1
      /\ (s.op = "JumpOutOfRange") <=> (x.pc = NumStatements)
  BY DEF Execute
<1>3. \/ WordStatement(s) \/ BitCopyStatement(s) \/ LongStatement(s) \/ VectorStatement(s)
      \/ RandomStatement(s) \/ StringStatement(s) \/ StoreGlobal(s) \/ CompoundGlobal(s)
      \/ LoadGlobal(s) \/ GStore(s) \/ FetchGlobal(s) \/ GlobalAddress(s) \/ BoundCheck(s)
      \/ Push(s) \/ LoadField(s) \/ Address(s) \/ StoreField(s) \/ StorePointer(s)
      \/ LoadPointer(s) \/ LoadConverted(s) \/ CompoundPointer(s) \/ Branch(s) \/ Switch(s)
      \/ Case(s) \/ CaseRange(s) \/ Call(s) \/ Return(s) \/ StateOp(s) \/ Unexecutable(s)
  BY DEF Execute
<1>4. \/ Slow!WordStatement(s) \/ Slow!BitCopyStatement(s) \/ Slow!LongStatement(s)
      \/ Slow!VectorStatement(s) \/ Slow!RandomStatement(s) \/ Slow!StringStatement(s)
      \/ Slow!StoreGlobal(s) \/ Slow!CompoundGlobal(s) \/ Slow!LoadGlobal(s) \/ Slow!GStore(s)
      \/ Slow!FetchGlobal(s) \/ Slow!GlobalAddress(s) \/ Slow!BoundCheck(s) \/ Slow!Push(s)
      \/ Slow!LoadField(s) \/ Slow!Address(s) \/ Slow!StoreField(s) \/ Slow!StorePointer(s)
      \/ Slow!LoadPointer(s) \/ Slow!LoadConverted(s) \/ Slow!CompoundPointer(s) \/ Slow!Branch(s)
      \/ Slow!Switch(s) \/ Slow!Case(s) \/ Slow!CaseRange(s) \/ Slow!Call(s) \/ Slow!Return(s)
      \/ Slow!StateOp(s) \/ Slow!Unexecutable(s)
  BY <1>1, <1>3, SlowArithmetic, SlowVectorStatement, SlowRandom, SlowString, SlowStoreGlobal,
     SlowCompoundGlobal, SlowArrays, SlowFetch, SlowAddresses, SlowField, SlowStorePointer,
     SlowLoadPointer, SlowLoadConverted, SlowCompoundPointer, SlowJumps, SlowCases, SlowCalls, Zenon
<1> QED
  BY <1>2, <1>4, Zenon DEF Slow!Execute

\* A switch refers to an operand, which is in reach of the view.
LEMMA SwitchInit ==
  ASSUME Init
  PROVE  Reached(x.switchRef)
<1>1. x.switchRef = OfsReturn
  BY DEF Init
<1> QED
  BY <1>1, ParmOffsets, ReturnOperand, OperandReach DEF Reached

LEMMA SwitchNext ==
  ASSUME IInv, Reached(x.switchRef), [Next]_vars
  PROVE  Reached(x'.switchRef)
<1>1. CASE UNCHANGED vars
  BY <1>1 DEF vars
<1>2. CASE Next
  <2>1. PICK s \in Statements : Execute(s)
    BY <1>2 DEF Next
  <2>2. x \in Regs
    BY InvParts DEF Registers
  <2>3. x'.switchRef = x.switchRef \/ (s.op \in Switches /\ x'.switchRef = s.a)
    <3> SUFFICES ASSUME x'.switchRef # x.switchRef PROVE s.op \in Switches /\ x'.switchRef = s.a
      OBVIOUS
    <3>1. \A m : ~Does(m) /\ \A kind : ~Warns(kind, m) /\ ~Faults(kind)
      BY <2>2 DEF Does, Warns, Faults, Advance, Regs
    <3>2. \A kind, t : ~JumpsTo(kind, t, x) /\ ~(Stops(kind) /\ UNCHANGED x)
      BY <2>2 DEF JumpsTo, Stops, Counted, Regs
    <3>3. ~Advance
      BY <2>2 DEF Advance, Regs
    <3>4. /\ ~WordStatement(s) /\ ~BitCopyStatement(s) /\ ~LongStatement(s) /\ ~VectorStatement(s)
          /\ ~RandomStatement(s) /\ ~StringStatement(s) /\ ~StoreGlobal(s) /\ ~CompoundGlobal(s)
          /\ ~LoadGlobal(s) /\ ~GStore(s) /\ ~FetchGlobal(s) /\ ~GlobalAddress(s) /\ ~BoundCheck(s)
      BY <3>1, Zenon DEF WordStatement, BitCopyStatement, LongStatement, VectorStatement,
         RandomStatement, StringStatement, StoreGlobal, CompoundGlobal, LoadGlobal, GStore,
         FetchGlobal, GlobalAddress, BoundCheck
    <3>5. ~Push(s)
      <4>1. ~(x' = [x EXCEPT !.pc = @ + 1, !.pushed = @ + N(s.a)])
        BY <2>2 DEF Regs
      <4> QED
        BY <3>1, <4>1, Zenon DEF Push
    <3>6. ~LoadField(s) /\ ~Address(s) /\ ~StoreField(s) /\ ~LoadPointer(s) /\ ~LoadConverted(s)
      BY <3>1, Zenon DEF LoadField, Address, StoreField, LoadPointer, LoadConverted
    <3>7. \A base, off, bytes : ~WriteElsewhere(base, off, bytes)
      BY <3>1, <3>3, Zenon DEF WriteElsewhere
    <3>8. ASSUME NEW base, NEW off, NEW bytes PROVE ~PtrWrite(base, off, bytes)
      <4> DEFINE verdict == CheckWrite(mem, Wrap(base + off), Len(bytes))
      <4>1. verdict = "ok" \/ verdict = "protected" \/ verdict = "null" \/ verdict = "invalid"
        BY DEF CheckWrite
      <4> QED
        BY <3>1, <3>7, <4>1 DEF PtrWrite
    <3>9. ~StorePointer(s)
      BY <3>1, <3>8, Zenon DEF StorePointer
    <3>10. ~CompoundPointer(s)
      <4>1. \A v : v \in {"ok", "null", "invalid", "protected"} =>
              \A m : ~CASE v = "ok" -> Does(m)
                        [] v = "protected" -> Warns("read only", mem)
                        [] v = "null" -> Faults("null write")
                        [] v = "invalid" -> Faults("bad write")
        BY <3>1
      <4>2. \A k : CheckWrite(mem, N(s.b), k) \in {"ok", "null", "invalid", "protected"}
        BY DEF CheckWrite
      <4> QED
        BY <3>1, <4>1, <4>2, Zenon DEF CompoundPointer
    <3>11. ~Branch(s) /\ ~Case(s) /\ ~CaseRange(s)
      BY <3>1, <3>2, Zenon DEF Branch, Case, CaseRange
    <3>12. ~Call(s) /\ ~Return(s) /\ ~StateOp(s) /\ ~Unexecutable(s)
      <4>1. \A pc, argc : x' # [x EXCEPT !.pc = pc, !.argc = argc]
        BY <2>2 DEF Regs
      <4>2. ~Calls(s)
        BY <4>1 DEF Calls, Leaves
      <4> QED
        BY <2>2, <3>1, <3>2, <4>2 DEF Call, Return, StateOp, Unexecutable, Leaves, Regs
    <3>13. Switch(s)
      BY <2>1, <3>4, <3>5, <3>6, <3>9, <3>10, <3>11, <3>12, Zenon DEF Execute
    <3> QED
      BY <2>2, <3>13 DEF Switch, JumpsTo, Stops, Counted, Regs
  <2>4. s.op \in Switches => Reached(s.a)
    BY StatementReach DEF Switches, NoA, TakesIndex, Unexecutables
  <2> QED
    BY <2>3, <2>4
<1> QED
  BY <1>1, <1>2

\* Every step of the interpreter with the window and the fast paths is a step of the one
\* that checks each access in all of region S: the same memory, registers, warning and ending.
\* The parameters of a call that lie past the window are the one exception.
THEOREM ShortCutsAlwaysExact == Spec => FastPathsExact
<1> DEFINE Inv == IInv /\ Reached(x.switchRef)
<1>1. Init => Inv
  BY InitInv, SwitchInit
<1>2. Inv /\ [Next]_vars => Inv'
  BY NextInv, SwitchNext DEF Reached, Reaches, InReach
<1>3. Inv /\ [Next]_vars => [ParmsInView(st') => Slow!Execute(st')]_vars
  <2> SUFFICES ASSUME Inv, Next, ParmsInView(st') PROVE Slow!Execute(st')
    OBVIOUS
  <2>1. PICK s \in Statements : Execute(s)
    BY DEF Next
  <2>3. st' = s
    BY <2>1 DEF Execute
  <2>2. Slow!Execute(s)
    BY <2>1, <2>3, InvParts, SlowStep
  <2> QED
    BY <2>2, <2>3
<1> HIDE DEF Inv
<1> QED
  BY <1>1, <1>2, <1>3, PTL DEF Spec, FastPathsExact

=============================================================================
