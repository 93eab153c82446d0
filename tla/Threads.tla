------------------------------ MODULE Threads ------------------------------
(***************************************************************************)
(* Sleeping QuakeC threads (vm/threads.rs, stdlib/threads.rs): `sleep` and *)
(* `fork` suspend a copy of the running thread, and Vm::run_threads        *)
(* resumes the threads whose wake time has come.  What a suspended thread  *)
(* holds of the stack is in module LocalStack, what a host call does with  *)
(* budgets and warnings in module HostCalls; here a thread is its wake     *)
(* time, its size and the entity in its `self` (`other` is restored the    *)
(* same way).                                                              *)
(*                                                                         *)
(* QuakeC and the host spawn and free entities and change `time` and       *)
(* `self` whenever one of them runs.  Rebuilding a thread never fails: its *)
(* frames fitted before.  Delays are numbers (a thread that sleeps for NaN   *)
(* seconds is never due).                                                  *)
(***************************************************************************)
EXTENDS Edicts, SequencesExt

CONSTANTS
  ThreadLimit,  \* limits.threads
  ThreadBytes,  \* limits.thread_bytes
  Sizes,        \* bound: sizes of snapshots
  Delays,       \* bound: arguments of sleep and fork
  MaxTime,      \* bound: the `time` global
  MaxAsleep,    \* bound: threads asleep, and due in the pass
  MaxDepth      \* bound: nested calls

ASSUME ThreadsAssumption ==
  /\ ThreadLimit \in Nat /\ ThreadBytes \in Nat /\ Sizes \subseteq Nat
  /\ Delays \subseteq Int /\ MaxTime \in Nat /\ MaxDepth \in Nat \ {0} /\ MaxAsleep \in Nat

VARIABLES
  threads, \* Core::threads
  queue,   \* the due threads a run_threads pass has still to resume
  pass,    \* whether run_threads is at work
  depth,   \* the runs of QuakeC under way, nested in each other
  time,    \* the `time` global of the main progs
  self,    \* the `self` global
  due,     \* history: the threads that were due when the pass began
  ran,     \* history: the threads the pass has resumed, in that order
  failed,  \* history: a pass has put unresumed threads back
  slept    \* history: sleep has suspended the innermost run

scheduling == <<threads, queue, pass, due, ran, failed>>
vars == <<edicts, scheduling, depth, slept, time, self>>

Thread == [wake : Int, size : Sizes, self : Ents, serial : 0 .. SerialMod - 1,
           life : 0 .. MaxTakes]

Init ==
  /\ EdictsInit
  /\ threads = <<>> /\ queue = <<>> /\ pass = FALSE /\ depth = 0
  /\ time = 0 /\ self = World
  /\ due = <<>> /\ ran = <<>> /\ failed = FALSE /\ slept = FALSE

Running == depth > 0

\* Code that is not run_threads itself is at work.
MayAct == Running \/ ~pass

-----------------------------------------------------------------------------
(* QuakeC and the host outside the thread functions.                       *)

ChangeTable ==
  /\ MayAct
  /\ Spawn \/ SpawnFails \/ \E e \in Ents : Claim(e) \/ \E b \in BOOLEAN : RemoveEdict(e, b)
  /\ UNCHANGED <<scheduling, depth, slept, time, self>>

SetTime(t) ==
  /\ MayAct
  /\ time' = t
  /\ UNCHANGED <<edicts, scheduling, depth, slept, self>>

SetSelf(e) ==
  /\ MayAct
  /\ self' = e
  /\ UNCHANGED <<edicts, scheduling, depth, slept, time>>

\* The host, or a builtin, calls QuakeC.
Call ==
  /\ MayAct /\ depth < MaxDepth
  /\ depth' = depth + 1 /\ slept' = FALSE
  /\ UNCHANGED <<edicts, scheduling, time, self>>

-----------------------------------------------------------------------------
(* Suspending.                                                             *)

\* A copy of the running thread.
Snapshot(delay, size) ==
  [wake |-> time + delay, size |-> size,
   self |-> self, serial |-> SerialOf(self), life |-> IF InUse(self) THEN lives[self] ELSE 0]

Held == SumFunction([i \in DOMAIN threads |-> threads[i].size])

WithinLimits(size) == Len(threads) < ThreadLimit /\ size + Held <= ThreadBytes

Suspend(delay, size) ==
  /\ Running /\ Len(threads) + Len(due) < MaxAsleep
  /\ WithinLimits(size)
  /\ threads' = Append(threads, Snapshot(delay, size))
  /\ UNCHANGED <<edicts, queue, pass, time, self, due, ran, failed>>

\* Returns 0 now and 1 in the copy.
Fork(delay, size) == Suspend(delay, size) /\ UNCHANGED <<depth, slept>>

\* QuakeC calls sleep: the run ends, without an error.
Sleep(delay, size) == Suspend(delay, size) /\ depth' = depth - 1 /\ slept' = FALSE

\* A builtin (callfunction, externcall) calls sleep: the abort ends that call only.
SleepFromBuiltin(delay, size) == Suspend(delay, size) /\ slept' = TRUE /\ UNCHANGED depth

-----------------------------------------------------------------------------
(* run_threads.                                                            *)

IsDue(t) == t.wake <= time
DueIndices == {i \in DOMAIN threads : IsDue(threads[i])}

\* The elements of a finite set of positions in a total order.
Arranged(S, Precedes(_, _)) ==
  {p \in [1 .. Cardinality(S) -> S] :
     Range(p) = S /\ \A i, j \in DOMAIN p : i < j => Precedes(p[i], p[j])}

Sits(i, j) == i < j
WakesBefore(i, j) ==
  \/ threads[i].wake < threads[j].wake
  \/ threads[i].wake = threads[j].wake /\ i < j
QueueOrder(i, j) == WakesBefore(i, j)

StartPass ==
  /\ ~pass /\ ~Running
  /\ \E p \in Arranged(DueIndices, QueueOrder) : queue' = [i \in DOMAIN p |-> threads[p[i]]]
  /\ \E p \in Arranged((DOMAIN threads) \ DueIndices, Sits) :
       threads' = [i \in DOMAIN p |-> threads[p[i]]]
  /\ \E p \in Arranged(DueIndices, Sits) : due' = [i \in DOMAIN p |-> threads[p[i]]]
  /\ pass' = TRUE /\ ran' = <<>>
  /\ UNCHANGED <<edicts, depth, slept, time, self, failed>>

RestoredIfInUse(t) == IF InUse(t.self) THEN t.self ELSE World
Restored(t) == IF InUse(t.self) /\ slots[t.self].serial = t.serial THEN t.self ELSE World

Resume ==
  /\ pass /\ ~Running /\ queue # <<>>
  /\ self' = Restored(Head(queue))
  /\ queue' = Tail(queue) /\ ran' = Append(ran, Head(queue))
  /\ depth' = 1 /\ slept' = FALSE
  /\ UNCHANGED <<edicts, threads, pass, time, due, failed>>

EndPass ==
  /\ pass /\ ~Running /\ queue = <<>>
  /\ pass' = FALSE /\ due' = <<>> /\ ran' = <<>>
  /\ UNCHANGED <<edicts, threads, queue, depth, slept, time, self, failed>>

KeptDroppingQueue == threads
Kept == threads \o queue

AbandonPassRetrying ==
  /\ queue' = <<Last(ran)>> \o queue /\ ran' = Front(ran)
  /\ UNCHANGED <<threads, pass, due, failed>>

\* A resumed thread raised an error: those after it go back to sleep.
AbandonPass ==
  /\ threads' = Kept /\ queue' = <<>>
  /\ pass' = FALSE /\ due' = <<>> /\ ran' = <<>>
  /\ failed' = (failed \/ queue # <<>>)

-----------------------------------------------------------------------------
(* The end of a run of QuakeC; one that fails because it cannot suspend    *)
(* fails like any other.                                                   *)

Return ==
  /\ Running /\ depth' = depth - 1 /\ slept' = FALSE
  /\ UNCHANGED <<edicts, scheduling, time, self>>

Fail ==
  /\ Running /\ depth' = depth - 1 /\ slept' = FALSE
  /\ IF pass /\ depth = 1 THEN AbandonPass ELSE UNCHANGED scheduling
  /\ UNCHANGED <<edicts, time, self>>

SuspendFails == \E size \in Sizes : ~WithinLimits(size) /\ Fail

-----------------------------------------------------------------------------
Next ==
  \/ ChangeTable
  \/ \E t \in 0 .. MaxTime : SetTime(t)
  \/ \E e \in Ents : SetSelf(e)
  \/ Call
  \/ \E delay \in Delays, size \in Sizes :
       Fork(delay, size) \/ Sleep(delay, size) \/ SleepFromBuiltin(delay, size)
  \/ StartPass \/ Resume \/ EndPass
  \/ Return \/ Fail \/ SuspendFails

Spec == Init /\ [][Next]_vars

\* The instruction budget, which nested calls share, ends every run of QuakeC.
LevelEnds(n) == depth = n /\ (Return \/ Fail)
FairSpec == Spec /\ WF_vars(Resume) /\ WF_vars(EndPass) /\ \A n \in 1 .. MaxDepth : SF_vars(LevelEnds(n))

-----------------------------------------------------------------------------
(* Properties.                                                             *)

\* The types of the table, the sleepers, the pass and the runs under way.
TypeOK ==
  /\ EdictsTypeOK
  /\ threads \in Seq(Thread) /\ queue \in Seq(Thread) /\ pass \in BOOLEAN
  /\ depth \in 0 .. MaxDepth
  /\ time \in 0 .. MaxTime /\ self \in Ents
  /\ due \in Seq(Thread) /\ ran \in Seq(Thread) /\ failed \in BOOLEAN /\ slept \in BOOLEAN

Times(t, s) == Cardinality({i \in DOMAIN s : s[i] = t})

\* A pass resumes the threads that were due when it began and no others (none forked
\* meanwhile), each once, in the order of their wake times.
PassRunsDueInOrder ==
  pass =>
    LET all == ran \o queue
    IN /\ \A t \in Range(all \o due) : Times(t, all) = Times(t, due)
       /\ \A i, j \in DOMAIN all : i < j => all[i].wake <= all[j].wake

Asleep == threads \o queue

\* Each sleeping thread stays until it is resumed, also when another one fails; when no
\* thread of a pass has failed, all that were due have been resumed.
SleepersKept ==
  [][/\ \A t \in Range(Asleep) :
          Times(t, Asleep') >= Times(t, Asleep) - IF ran' = Append(ran, t) THEN 1 ELSE 0
     /\ EndPass => Len(ran) = Len(due)]_vars

\* `self` of a resumed thread is the entity it was suspended with or, when that is gone,
\* the world, never another entity in the same slot.
ResumedSelfIsSame ==
  [][ran' # ran /\ ran' # <<>> =>
       LET t == ran'[Len(ran')]
       IN IF InUse(t.self) /\ lives[t.self] = t.life THEN self' = t.self ELSE self' = World]_vars

\* The limits hold unless a pass has put threads back.
LimitsHold == ~failed => Len(threads) <= ThreadLimit /\ Held <= ThreadBytes

\* A pass comes to an end, whatever the threads it resumes fork.
PassEnds == pass ~> ~pass

\* "Maximum number of sleeping QuakeC threads." (Limits::threads)
ThreadsLimited == Len(threads) <= ThreadLimit

\* "Suspends the current QuakeC thread for `sleeptime` seconds [...]. Execution returns to
\* the engine at once" (sleep): a run that sleep has suspended does not go on.
SleeperDoesNotRun == Running => ~slept
=============================================================================
