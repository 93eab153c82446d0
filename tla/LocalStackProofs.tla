-------------------------- MODULE LocalStackProofs --------------------------
(***************************************************************************)
(* The inductive invariant of LocalStack and the proofs of its properties  *)
(* for every program, stack size and limit.                                *)
(***************************************************************************)
EXTENDS LocalStack, TLAPS, SequenceTheorems

\* The end of the words saved for frame i's callee: for the last frame, ls_top.
SavedEnd(i) == frames[i].locals_at + CalleeWords(i)

\* Deeper frames use higher words.
EndsOrdered ==
  \A i, j \in 1 .. Len(frames) : i <= j => SavedEnd(i) <= SavedEnd(j)

\* The locals range a context describes is the one of its function.
LocalsDescribe(c) ==
  IF c.func = NoFunc THEN c.locals_words = 0
  ELSE c.locals_addr = Base[c.func] /\ c.locals_words = Words[c.func]

\* The frame under the first activation: the idle registers.
IdleFrame == [func |-> NoFunc, resume_pc |-> 0, pushed |-> 0, sw |-> 0, locals_at |-> 0,
              locals_addr |-> 0, locals_words |-> 0]

ContextsOK ==
  /\ Len(frames) <= CallDepth
  /\ frames = <<>> => x = IdleExec
  /\ frames # <<>> => x.func # NoFunc /\ frames[1] = IdleFrame
  /\ LocalsDescribe(x)
  /\ \A i \in 1 .. Len(frames) : LocalsDescribe(frames[i]) /\ (frames[i].func = NoFunc <=> i = 1)

\* The registers c are those of h, the switch registers too unless calls reset them.
SameContext(c, h) ==
  /\ c.func = h.func /\ c.pc = h.pc /\ c.pushed = h.pushed /\ c.ls_top = h.ls_top
  /\ c.locals_addr = h.locals_addr /\ c.locals_words = h.locals_words
  /\ SwitchReset \/ c.sw = h.sw

\* A frame that leads back to the registers h.
LeadsTo(f, h) ==
  /\ f.func = h.func /\ f.resume_pc = h.pc /\ f.pushed = h.pushed
  /\ f.locals_at = h.ls_top + h.pushed
  /\ f.locals_addr = h.locals_addr /\ f.locals_words = h.locals_words
  /\ SwitchReset \/ f.sw = h.sw

\* A boundary's host context is what is there once its frames are gone.
HostKept(b) ==
  IF b.depth = Len(frames) THEN SameContext(x, b.host)
  ELSE b.depth < Len(frames) /\ LeadsTo(frames[b.depth + 1], b.host)

BoundsOK ==
  /\ \A i \in 1 .. Len(bounds) : HostKept(bounds[i])
  /\ \A i, j \in 1 .. Len(bounds) : i < j => bounds[i].depth < bounds[j].depth
  /\ bounds # <<>> => bounds[1].depth = 0
  /\ bounds = <<>> => mode = "host" /\ frames = <<>>
  /\ mode \in {"host", "qc"} /\ bounds # <<>> => Depth < Len(frames)
  /\ mode = "resume" => Len(bounds) = 1

\* Where activation i of a captured thread saved its locals, counted from the root's.
AtOf(t, i) == IF i = 1 THEN 0 ELSE t.shape.fs[i - 1].locals_at
EndOf(t, i) == AtOf(t, i) + Words[t.chain[i].func] + t.chain[i].pushed

ThreadOK(t) ==
  LET n == Len(t.chain)
  IN /\ n \in 1 .. CallDepth /\ Len(t.shape.fs) = n - 1 /\ Len(t.saved) = n
     /\ \A i \in 1 .. n - 1 :
          LET a == t.chain[i]
          IN t.shape.fs[i] =
               [func |-> a.func, resume_pc |-> a.pc, pushed |-> a.pushed, sw |-> a.sw,
                locals_at |-> EndOf(t, i), locals_addr |-> Base[a.func],
                locals_words |-> Words[a.func]]
     /\ t.shape.top =
          [func |-> t.chain[n].func, pc |-> t.chain[n].pc, pushed |-> t.chain[n].pushed,
           sw |-> t.chain[n].sw, ls_top |-> AtOf(t, n) + Words[t.chain[n].func],
           locals_addr |-> Base[t.chain[n].func], locals_words |-> Words[t.chain[n].func]]
     /\ Len(t.stack) = EndOf(t, n) /\ Len(t.stack) <= LsWords
     /\ \A i \in 1 .. n :
          /\ EndOf(t, i) <= Len(t.stack)
          /\ DOMAIN t.saved[i] = 0 .. Words[t.chain[i].func] - 1
          /\ \A k \in DOMAIN t.saved[i] : t.stack[AtOf(t, i) + k + 1] = t.saved[i][k]

SleepingOK == \A i \in 1 .. Len(sleeping) : ThreadOK(sleeping[i])

\* The frames a resume has rebuilt so far.
ResumeOK ==
  /\ waking # <<>> <=> mode = "resume"
  /\ mode = "resume" =>
       LET t == Waker.thread
           k == Waker.next - 1
       IN /\ ThreadOK(t)
          /\ Waker.next \in 1 .. Len(t.chain) + 1
          /\ Len(frames) = k
          /\ \A i \in 1 .. k : frames[i].locals_at = AtOf(t, i)
          /\ \A i \in 2 .. k : frames[i] = t.shape.fs[i - 1]
          /\ k = 0 => Waker.resume_pc = 0
          /\ k > 0 => /\ Waker.resume_pc = t.chain[k].pc
                      /\ x = [func |-> t.chain[k].func, pc |-> 0,
                              pushed |-> t.chain[k].pushed, sw |-> t.chain[k].sw,
                              ls_top |-> AtOf(t, k) + Words[t.chain[k].func],
                              locals_addr |-> Base[t.chain[k].func],
                              locals_words |-> Words[t.chain[k].func]]

\* The part of the invariant about the stack alone.
StackType ==
  /\ frames \in Seq(Frame) /\ x \in Exec
  /\ g \in [Addr -> Val] /\ ls \in [Slot -> Val] /\ saved \in Seq(SavedLocals)

StackInv ==
  StackType /\ FramesTileStack /\ SavedLocalsIntact /\ EndsOrdered /\ ContextsOK

Waking == [thread : Captured, next : Nat, resume_pc : Pc]

EngineType ==
  /\ bounds \in Seq(Boundary) /\ mode \in Mode
  /\ sleeping \in Seq(Captured) /\ waking \in Seq(Waking) /\ Len(waking) <= 1

\* The inductive invariant: the properties of LocalStack that are state predicates,
\* strengthened by what the frames, the boundaries and the captured threads know of
\* each other.
IInv == StackInv /\ EngineType /\ BoundsOK /\ SleepingOK /\ ResumeOK

-----------------------------------------------------------------------------
(* Sequences and the effect of Enter and Leave.                            *)

LEMMA FrontFacts ==
  ASSUME NEW S, NEW s \in Seq(S), s # <<>>
  PROVE  /\ Front(s) \in Seq(S) /\ Len(Front(s)) = Len(s) - 1
         /\ \A i \in 1 .. Len(s) - 1 : Front(s)[i] = s[i]
         /\ Len(s) \in Nat \ {0} /\ Last(s) = s[Len(s)] /\ Last(s) \in S
<1>1. Len(s) \in Nat \ {0}
  BY EmptySeq
<1>2. \A i \in 1 .. Len(s) : s[i] \in S
  OBVIOUS
<1>3. Last(s) = s[Len(s)] /\ Last(s) \in S
  BY <1>1, <1>2 DEF Last
<1>4. /\ Front(s) \in Seq(S) /\ Len(Front(s)) = Len(s) - 1
      /\ \A i \in 1 .. Len(s) - 1 : Front(s)[i] = s[i]
  <2>1. Front(s) = SubSeq(s, 1, Len(s) - 1)
    BY DEF Front
  <2>2. \A i \in 1 .. Len(s) - 1 : s[i] \in S
    BY <1>1, <1>2
  <2> QED
    <3>1. PICK m \in Nat : m = Len(s) - 1
      BY <1>1
    <3>2. /\ SubSeq(s, 1, m) \in Seq(S) /\ Len(SubSeq(s, 1, m)) = IF 1 <= m THEN m - 1 + 1 ELSE 0
          /\ \A i \in 1 .. m - 1 + 1 : SubSeq(s, 1, m)[i] = s[1 + i - 1]
      BY <3>1, <2>2, SubSeqProperties
    <3>3. \A i \in 1 .. m : i \in 1 .. m - 1 + 1 /\ 1 + i - 1 = i
      BY <3>1
    <3> QED
      BY <2>1, <3>1, <3>2, <3>3
<1> QED
  BY <1>1, <1>3, <1>4

\* A call of f with `pushed` words already pushed fits; the idle engine calls from pc 0.
Fits(f, pushed) == EnterAt + Words[f] + pushed <= LsWords
FromIdle(pc) == frames = <<>> => pc = 0

LEMMA EnterStack ==
  ASSUME StackInv, NEW f \in Func, NEW pc \in Pc, NEW pushed \in 0 .. LsWords,
         NEW sw \in {0, 1}, CanEnter(f), Fits(f, pushed), FromIdle(pc),
         Enter(f, pc, pushed, sw)
  PROVE  /\ StackInv'
         /\ frames' # <<>> /\ Len(frames') = Len(frames) + 1
         /\ \A i \in 1 .. Len(frames) : frames'[i] = frames[i]
         /\ frames'[Len(frames) + 1] =
              [func |-> x.func, resume_pc |-> pc, pushed |-> x.pushed, sw |-> x.sw,
               locals_at |-> EnterAt, locals_addr |-> x.locals_addr,
               locals_words |-> x.locals_words]
<1>0. PICK n \in Nat : n = Len(frames)
  BY DEF StackInv, StackType
<1> DEFINE fr == [func |-> x.func, resume_pc |-> pc, pushed |-> x.pushed, sw |-> x.sw,
                  locals_at |-> EnterAt, locals_addr |-> x.locals_addr,
                  locals_words |-> x.locals_words]
           sv == [k \in 0 .. Words[f] - 1 |-> g[Base[f] + k]]
<1>1. /\ n \in Nat /\ Words[f] \in Nat /\ Base[f] \in Nat /\ Params[f] \in Nat
      /\ Base[f] + Words[f] <= GlobalWords /\ LsWords \in Nat /\ GlobalWords \in Nat
      /\ f # NoFunc
  BY <1>0, LocalStackAssumption DEF StackInv, StackType
<1>2. /\ x \in Exec /\ x.ls_top \in 0 .. LsWords /\ x.pushed \in 0 .. LsWords
      /\ x.locals_words \in Nat /\ EnterAt = x.ls_top + x.pushed /\ EnterAt \in 0 .. LsWords
  <2>1. x \in Exec
    BY DEF StackInv, StackType
  <2>2. x.ls_top \in 0 .. LsWords /\ x.pushed \in 0 .. LsWords /\ x.locals_words \in Nat
    BY <2>1 DEF Exec
  <2>3. x.ls_top + x.pushed <= LsWords
    BY DEF StackInv, FramesTileStack
  <2> QED
    BY <2>1, <2>2, <2>3, <1>1 DEF EnterAt
<1>17. /\ Words[f] \in Nat /\ LsWords \in Nat /\ EnterAt \in Nat
       /\ EnterAt + Words[f] + pushed <= LsWords /\ EnterAt + Words[f] <= LsWords
  <2>1. EnterAt + Words[f] + pushed <= LsWords
    BY DEF Fits
  <2> QED
    BY <1>1, <1>2, <2>1
<1>15. ASSUME NEW i \in 1 .. n
       PROVE  /\ frames[i] \in Frame /\ frames[i].locals_at \in 0 .. LsWords
              /\ frames[i].pushed \in 0 .. LsWords /\ frames[i].locals_words \in Nat
  <2>1. frames[i] \in Frame
    BY <1>0, <1>15 DEF StackInv, StackType
  <2> QED
    BY <2>1 DEF Frame
<1>16. ASSUME NEW i \in 1 .. n
       PROVE  CalleeWords(i) \in Nat
  <2>1. i # n => i + 1 \in 1 .. n
    BY <1>0
  <2> QED
    BY <1>0, <1>2, <1>15, <2>1 DEF CalleeWords
<1>3. fr \in Frame
  BY <1>0, <1>2 DEF Exec, Frame
<1>4. /\ frames' = Append(frames, fr)
      /\ x' = [func |-> f, pc |-> 0, pushed |-> pushed, sw |-> sw,
               ls_top |-> EnterAt + Words[f], locals_addr |-> Base[f], locals_words |-> Words[f]]
      /\ saved' = Append(saved, sv)
  BY <1>0 DEF Enter
<1>5. /\ frames' \in Seq(Frame) /\ Len(frames') = n + 1 /\ frames' # <<>>
      /\ \A i \in 1 .. n : frames'[i] = frames[i]
      /\ frames'[n + 1] = fr
  BY <1>0, <1>3, <1>4, AppendProperties DEF StackInv, StackType
<1>6. sv \in SavedLocals
  <2>1. \A k \in 0 .. Words[f] - 1 : g[Base[f] + k] \in Val
    <3> SUFFICES ASSUME NEW k \in 0 .. Words[f] - 1
                 PROVE  g[Base[f] + k] \in Val
      OBVIOUS
    <3>1. Base[f] + k \in Addr
      BY <1>1 DEF Addr
    <3> QED
      BY <3>1 DEF StackInv, StackType
  <2>2. sv \in [0 .. Words[f] - 1 -> Val]
    BY <1>0, <2>1
  <2>3. Words[f] \in 0 .. GlobalWords
    BY <1>1
  <2> QED
    BY <2>2, <2>3 DEF SavedLocals
<1>7. /\ saved' \in Seq(SavedLocals) /\ Len(saved') = n + 1
      /\ \A i \in 1 .. n : saved'[i] = saved[i]
      /\ saved'[n + 1] = sv
  BY <1>0, <1>4, <1>6, AppendProperties DEF StackInv, StackType, SavedLocalsIntact
<1>8. StackType'
  <2>1. x' \in Exec
    <3>1. EnterAt + Words[f] \in 0 .. LsWords
      BY <1>17
    <3>2. 0 \in Pc
      BY <1>0, LocalStackAssumption DEF Pc
    <3> QED
      BY <1>0, <1>1, <1>4, <3>1, <3>2 DEF Exec
  <2>2. g' \in [Addr -> Val]
    <3>1. PICK v \in Val : g' = [a \in Addr |-> IF a \in Base[f] .. Base[f] + Params[f] - 1
                                                 THEN v ELSE g[a]]
      BY <1>0 DEF Enter
    <3> QED
      BY <1>0, <3>1 DEF StackInv, StackType
  <2>3. ls' \in [Slot -> Val]
    <3>1. ls' = [s \in Slot |-> IF s \in EnterAt .. EnterAt + Words[f] - 1
                                  THEN g[Base[f] + (s - EnterAt)] ELSE ls[s]]
      BY <1>0 DEF Enter
    <3>2. ASSUME NEW s \in Slot, s \in EnterAt .. EnterAt + Words[f] - 1
          PROVE  g[Base[f] + (s - EnterAt)] \in Val
      <4>1. Base[f] + (s - EnterAt) \in Addr
        BY <1>1, <1>17, <3>2 DEF Addr
      <4> QED
        BY <1>0, <4>1 DEF StackInv, StackType
    <3>3. \A s \in Slot : ls[s] \in Val
      BY <1>0 DEF StackInv, StackType
    <3> QED
      BY <1>0, <3>1, <3>2, <3>3
  <2> QED
    BY <1>0, <1>5, <1>7, <2>1, <2>2, <2>3 DEF StackType
<1>9. /\ \A i \in 1 .. n : CalleeWords(i)' = CalleeWords(i)
      /\ CalleeWords(n + 1)' = Words[f]
  BY <1>0, <1>1, <1>4, <1>5 DEF CalleeWords
<1>10. FramesTileStack'
  <2>1. ASSUME NEW i \in 1 .. n + 1
        PROVE  frames'[i].locals_at = frames'[i].pushed +
                 IF i = 1 THEN 0 ELSE frames'[i - 1].locals_at + frames'[i].locals_words
    <3>1. CASE i \in 1 .. n
      <4>1. i # 1 => i - 1 \in 1 .. n
        BY <1>0, <3>1, <1>1
      <4> QED
        BY <1>0, <3>1, <4>1, <1>5 DEF StackInv, FramesTileStack
    <3>2. CASE i = n + 1
      <4>1. CASE n = 0
        <5>1. x.ls_top = 0
          BY <1>0, <4>1, <1>1, EmptySeq DEF StackInv, StackType, FramesTileStack
        <5> QED
          BY <1>0, <3>2, <4>1, <5>1, <1>2, <1>5
      <4>2. CASE n # 0
        <5>1. frames # <<>>
          BY <1>0, <4>2, EmptySeq
        <5>2. x.ls_top = frames[n].locals_at + x.locals_words
          BY <1>0, <5>1, FrontFacts DEF StackInv, StackType, FramesTileStack
        <5>3. frames'[n] = frames[n] /\ frames[n] \in Frame /\ frames[n].locals_at \in Nat
          BY <4>2, <1>5, <1>15
        <5>4. EnterAt = x.pushed + frames[n].locals_at + x.locals_words
          BY <1>2, <5>2, <5>3
        <5>5. /\ frames'[i].locals_at = EnterAt /\ frames'[i].pushed = x.pushed
              /\ frames'[i].locals_words = x.locals_words /\ frames'[i - 1] = frames[n]
          BY <3>2, <5>3, <1>5
        <5>6. i # 1
          BY <3>2, <4>2
        <5> QED
          BY <5>3, <5>4, <5>5, <5>6, <1>2
      <4> QED
        BY <1>0, <4>1, <4>2
    <3> QED
      BY <1>0, <3>1, <3>2, <1>1
  <2>2. Last(frames') = fr
    BY <1>0, <1>5 DEF Last
  <2>3. x'.ls_top = fr.locals_at + x'.locals_words /\ x'.ls_top + x'.pushed <= LsWords
    BY <1>4, <1>17
  <2> QED
    BY <1>0, <2>1, <2>2, <2>3, <1>5 DEF FramesTileStack
<1>11. \A i \in 1 .. n : SavedEnd(i) <= x.ls_top /\ SavedEnd(i) \in Nat /\ frames[i].locals_at \in Nat
  <2> SUFFICES ASSUME NEW i \in 1 .. n
               PROVE  SavedEnd(i) <= x.ls_top /\ SavedEnd(i) \in Nat /\ frames[i].locals_at \in Nat
    OBVIOUS
  <2>1. frames # <<>> /\ n \in 1 .. n
    BY <1>0, <1>1, EmptySeq
  <2>2. SavedEnd(n) = x.ls_top
    BY <1>0, <2>1, FrontFacts DEF StackInv, StackType, FramesTileStack, SavedEnd, CalleeWords
  <2>3. SavedEnd(i) <= SavedEnd(n)
    BY <1>0, <2>1, <1>1 DEF StackInv, EndsOrdered
  <2>4. \A j \in 1 .. n : frames[j] \in Frame
    BY <1>0 DEF StackInv, StackType
  <2>5. i # n => i + 1 \in 1 .. n
    BY <1>0, <1>1
  <2>6. CalleeWords(i) \in Nat /\ frames[i].locals_at \in Nat
    BY <1>0, <1>2, <2>4, <2>5 DEF CalleeWords, Frame
  <2> QED
    BY <1>0, <2>2, <2>3, <2>6 DEF SavedEnd
<1>12. EndsOrdered'
  <2>1. \A i \in 1 .. n : SavedEnd(i)' = SavedEnd(i)
    BY <1>0, <1>5, <1>9 DEF SavedEnd
  <2>2. SavedEnd(n + 1)' = EnterAt + Words[f]
    BY <1>0, <1>5, <1>9 DEF SavedEnd
  <2>3. SUFFICES ASSUME NEW i \in 1 .. n + 1, NEW j \in 1 .. n + 1, i <= j
                 PROVE  SavedEnd(i)' <= SavedEnd(j)'
    BY <1>0, <1>5 DEF EndsOrdered
  <2>4. CASE j \in 1 .. n
    <3>1. i \in 1 .. n
      BY <1>0, <2>3, <2>4, <1>1
    <3> QED
      BY <1>0, <2>1, <2>3, <2>4, <3>1 DEF StackInv, EndsOrdered
  <2>5. CASE j = n + 1
    <3>1. CASE i \in 1 .. n
      BY <3>1, <2>1, <2>2, <2>5, <1>17, <1>2, <1>11
    <3>2. CASE i = n + 1
      BY <1>0, <3>2, <2>2, <2>5, <1>1, <1>2
    <3> QED
      BY <1>0, <3>1, <3>2, <1>1
  <2> QED
    BY <1>0, <2>4, <2>5, <1>1
<1>13. SavedLocalsIntact'
  <2>1. SUFFICES ASSUME NEW i \in 1 .. n + 1
                 PROVE  /\ DOMAIN saved'[i] = 0 .. CalleeWords(i)' - 1
                        /\ \A k \in DOMAIN saved'[i] :
                             ls'[frames'[i].locals_at + k] = saved'[i][k]
    BY <1>0, <1>5, <1>7 DEF SavedLocalsIntact
  <2>2. ls' = [s \in Slot |-> IF s \in EnterAt .. EnterAt + Words[f] - 1
                                THEN g[Base[f] + (s - EnterAt)] ELSE ls[s]]
    BY <1>0 DEF Enter
  <2>3. CASE i \in 1 .. n
    <3>1. /\ saved'[i] = saved[i] /\ frames'[i] = frames[i] /\ CalleeWords(i)' = CalleeWords(i)
          /\ DOMAIN saved[i] = 0 .. CalleeWords(i) - 1
          /\ \A k \in DOMAIN saved[i] : ls[frames[i].locals_at + k] = saved[i][k]
      BY <1>0, <2>3, <1>5, <1>7, <1>9 DEF StackInv, SavedLocalsIntact
    <3>2. ASSUME NEW k \in DOMAIN saved[i]
          PROVE  ls'[frames[i].locals_at + k] = ls[frames[i].locals_at + k]
      <4>1. SavedEnd(i) = frames[i].locals_at + CalleeWords(i) /\ SavedEnd(i) <= x.ls_top
            /\ frames[i].locals_at \in Nat /\ SavedEnd(i) \in Nat
        BY <1>0, <2>3, <1>11 DEF SavedEnd
      <4>2. CalleeWords(i) \in Nat
        BY <2>3, <1>16
      <4>3. k \in Int /\ 0 <= k /\ k <= CalleeWords(i) - 1
        BY <1>0, <3>1, <3>2, <4>2
      <4>4. frames[i].locals_at + k \in Slot /\ frames[i].locals_at + k < EnterAt
        BY <4>1, <4>2, <4>3, <1>17, <1>2 DEF Slot
      <4> QED
        BY <1>0, <4>4, <2>2, <1>2
    <3> QED
      BY <1>0, <3>1, <3>2
  <2>4. CASE i = n + 1
    <3>1. ASSUME NEW k \in 0 .. Words[f] - 1
          PROVE  ls'[EnterAt + k] = g[Base[f] + k]
      <4>1. EnterAt + k \in Slot /\ EnterAt + k \in EnterAt .. EnterAt + Words[f] - 1
            /\ (EnterAt + k) - EnterAt = k
        BY <1>17 DEF Slot
      <4> QED
        BY <1>0, <4>1, <2>2
    <3> QED
      BY SMTT(30), <1>0, <2>4, <3>1, <1>1, <1>5, <1>7, <1>9
  <2> QED
    BY <1>0, <2>3, <2>4, <1>1
<1>14. ContextsOK'
  <2>1. LocalsDescribe(x)' /\ x'.func # NoFunc
    BY <1>1, <1>4 DEF LocalsDescribe
  <2>2. ASSUME NEW i \in 1 .. n
        PROVE  LocalsDescribe(frames[i])' /\ (frames'[i].func = NoFunc <=> i = 1)
    BY <1>0, <1>5 DEF StackInv, ContextsOK, LocalsDescribe
  <2>3. LocalsDescribe(fr) /\ (fr.func = NoFunc <=> n + 1 = 1)
    <3>1. n = 0 <=> frames = <<>>
      BY <1>0, EmptySeq DEF StackInv, StackType
    <3> QED
      BY <1>1, <3>1 DEF StackInv, ContextsOK, LocalsDescribe, IdleExec
  <2>4. frames'[1] = IdleFrame
    <3>1. CASE frames = <<>>
      <4>1. fr = IdleFrame
        BY <3>1, <1>2 DEF StackInv, ContextsOK, IdleFrame, IdleExec, FromIdle
      <4> QED
        BY <3>1, <4>1, <1>0, <1>5, EmptySeq
    <3>2. CASE frames # <<>>
      <4>1. 1 \in 1 .. n
        BY <3>2, <1>0, EmptySeq DEF StackInv, StackType
      <4> QED
        BY <3>2, <4>1, <1>5 DEF StackInv, ContextsOK
    <3> QED
      BY <3>1, <3>2
  <2>5. n + 1 <= CallDepth
    BY <1>0, LocalStackAssumption DEF CanEnter
  <2>6. \A i \in 1 .. n + 1 : LocalsDescribe(frames'[i]) /\ (frames'[i].func = NoFunc <=> i = 1)
    <3> TAKE i \in 1 .. n + 1
    <3>1. CASE i \in 1 .. n
      BY <3>1, <2>2 DEF LocalsDescribe
    <3>2. CASE i = n + 1
      BY <3>2, <2>3, <1>5
    <3> QED
      BY <3>1, <3>2
  <2> QED
    BY <1>5, <2>1, <2>4, <2>5, <2>6 DEF ContextsOK, LocalsDescribe
<1> QED
  BY <1>0, <1>5, <1>8, <1>10, <1>12, <1>13, <1>14 DEF StackInv

LEMMA LeaveStack ==
  ASSUME StackInv, frames # <<>>, Leave
  PROVE  LET top == Last(frames)
         IN /\ StackInv'
            /\ Len(frames') = Len(frames) - 1
            /\ \A i \in 1 .. Len(frames) - 1 : frames'[i] = frames[i]
            /\ x' = [func |-> top.func, pc |-> top.resume_pc, pushed |-> top.pushed,
                     sw |-> SwitchBack(top), ls_top |-> top.locals_at - top.pushed,
                     locals_addr |-> top.locals_addr, locals_words |-> top.locals_words]
            /\ \A k \in DOMAIN Last(saved) : g'[x.locals_addr + k] = Last(saved)[k]
<1>0. PICK n \in Nat : n = Len(frames) - 1
  BY FrontFacts DEF StackInv, StackType
<1>1. Len(frames) = n + 1 /\ Len(frames) \in Nat
  BY <1>0, FrontFacts DEF StackInv, StackType
<1>2. PICK top \in Frame : top = frames[n + 1] /\ top = Last(frames)
  BY <1>1, FrontFacts DEF StackInv, StackType
<1>3. /\ top.func \in Func \cup {NoFunc} /\ top.resume_pc \in Pc /\ top.sw \in {0, 1}
      /\ top.locals_at \in 0 .. LsWords /\ top.pushed \in 0 .. LsWords
      /\ top.locals_addr \in Nat /\ top.locals_words \in Nat
  BY DEF Frame
<1>4. x \in Exec /\ x.locals_addr \in Nat /\ x.locals_words \in Nat /\ x.ls_top \in 0 .. LsWords
  <2>1. x \in Exec
    BY DEF StackInv, StackType
  <2> QED
    BY <2>1 DEF Exec
<1>5. x.ls_top = top.locals_at + x.locals_words
  BY <1>2 DEF StackInv, FramesTileStack
<1>6. LeaveTop = top.locals_at
  BY <1>3, <1>4, <1>5 DEF LeaveTop
<1>7. /\ frames' \in Seq(Frame) /\ Len(frames') = n
      /\ \A i \in 1 .. n : frames'[i] = frames[i]
  <2>1. frames' = Front(frames) /\ Len(frames) - 1 = n
    BY <1>1 DEF Leave
  <2> QED
    BY <2>1, FrontFacts DEF StackInv, StackType
<1>8. x' = [func |-> top.func, pc |-> top.resume_pc, pushed |-> top.pushed,
            sw |-> SwitchBack(top), ls_top |-> top.locals_at - top.pushed,
            locals_addr |-> top.locals_addr, locals_words |-> top.locals_words]
  BY <1>2, <1>6 DEF Leave
<1>9. /\ saved' \in Seq(SavedLocals) /\ Len(saved') = n
      /\ \A i \in 1 .. n : saved'[i] = saved[i]
      /\ saved # <<>> /\ Last(saved) = saved[n + 1]
  <2>1. saved' = Front(saved)
    BY DEF Leave
  <2>2. saved \in Seq(SavedLocals) /\ Len(saved) = n + 1 /\ Len(saved) - 1 = n
    BY <1>1 DEF StackInv, StackType, SavedLocalsIntact
  <2>3. saved # <<>>
    BY <2>2
  <2> QED
    BY <2>1, <2>2, <2>3, FrontFacts
<1>10. /\ DOMAIN saved[n + 1] = 0 .. x.locals_words - 1
       /\ \A k \in DOMAIN saved[n + 1] : ls[top.locals_at + k] = saved[n + 1][k]
  <2>1. n + 1 \in 1 .. Len(frames) /\ CalleeWords(n + 1) = x.locals_words
    BY <1>1 DEF CalleeWords
  <2> QED
    BY <1>2, <2>1 DEF StackInv, SavedLocalsIntact
<1>11. /\ x.func \in Func /\ LsWords \in Nat /\ GlobalWords \in Nat
       /\ x.locals_addr + x.locals_words <= GlobalWords
  <2>1. x.func \in Func
    BY <1>4 DEF StackInv, ContextsOK, Exec
  <2>2. x.locals_addr = Base[x.func] /\ x.locals_words = Words[x.func]
    BY <2>1, LocalStackAssumption DEF StackInv, ContextsOK, LocalsDescribe
  <2> QED
    BY <2>1, <2>2, LocalStackAssumption
<1>12. g' = [a \in Addr |-> IF a \in x.locals_addr .. x.locals_addr + x.locals_words - 1
                              THEN ls[top.locals_at + (a - x.locals_addr)] ELSE g[a]]
  BY <1>6 DEF Leave
<1>13. \A k \in DOMAIN Last(saved) : g'[x.locals_addr + k] = Last(saved)[k]
  <2> SUFFICES ASSUME NEW k \in 0 .. x.locals_words - 1
               PROVE  g'[x.locals_addr + k] = saved[n + 1][k]
    BY <1>9, <1>10
  <2>1. /\ x.locals_addr + k \in Addr
        /\ x.locals_addr + k \in x.locals_addr .. x.locals_addr + x.locals_words - 1
        /\ (x.locals_addr + k) - x.locals_addr = k
    BY <1>4, <1>11 DEF Addr
  <2> QED
    BY <2>1, <1>10, <1>12
<1>20. n + 1 \in 1 .. Len(frames) /\ n + 1 - 1 = n /\ (n + 1 = 1 <=> n = 0)
  BY <1>1
<1>21. top.locals_at = top.pushed + IF n = 0 THEN 0 ELSE frames[n].locals_at + top.locals_words
  <2>1. frames[n + 1].locals_at = frames[n + 1].pushed +
          IF n + 1 = 1 THEN 0 ELSE frames[n + 1 - 1].locals_at + frames[n + 1].locals_words
    BY <1>20 DEF StackInv, FramesTileStack
  <2> QED
    BY <2>1, <1>2, <1>20
<1>22. n # 0 => frames[n].locals_at \in Nat
  <2>1. n # 0 => frames[n] \in Frame
    BY <1>1 DEF StackInv, StackType
  <2> QED
    BY <2>1 DEF Frame
<1>23. LsWords \in Nat
  BY LocalStackAssumption
<1>14. StackType'
  <2>1. x' \in Exec
    <3>1. top.locals_at - top.pushed \in 0 .. LsWords
      <4>1. CASE n = 0
        BY <4>1, <1>3, <1>21, <1>23
      <4>2. CASE n # 0
        <5>1. top.locals_at = top.pushed + (frames[n].locals_at + top.locals_words)
          BY <4>2, <1>21
        <5> QED
          BY <4>2, <5>1, <1>3, <1>22, <1>23
      <4> QED
        BY <4>1, <4>2
    <3>2. SwitchBack(top) \in {0, 1}
      BY <1>3 DEF SwitchBack
    <3> QED
      BY <1>3, <1>8, <3>1, <3>2 DEF Exec
  <2>2. g' \in [Addr -> Val]
    <3>1. ASSUME NEW a \in Addr, a \in x.locals_addr .. x.locals_addr + x.locals_words - 1
          PROVE  ls[top.locals_at + (a - x.locals_addr)] \in Val
      <4>1. /\ a - x.locals_addr \in 0 .. x.locals_words - 1
            /\ top.locals_at + x.locals_words <= LsWords
        BY SMTT(30), <1>3, <1>4, <1>5, <1>23, <3>1 DEF Addr
      <4>2. top.locals_at + (a - x.locals_addr) \in Slot
        BY SMTT(30), <1>3, <1>4, <1>23, <4>1 DEF Slot
      <4> QED
        BY <4>2 DEF StackInv, StackType
    <3>2. \A a \in Addr : g[a] \in Val
      BY DEF StackInv, StackType
    <3> QED
      BY <1>12, <3>1, <3>2
  <2>3. ls' = ls
    BY DEF Leave
  <2> QED
    BY <1>7, <1>9, <2>1, <2>2, <2>3 DEF StackInv, StackType
<1>15. \A i \in 1 .. n : CalleeWords(i)' = CalleeWords(i)
  <2> SUFFICES ASSUME NEW i \in 1 .. n
               PROVE  CalleeWords(i)' = CalleeWords(i)
    OBVIOUS
  <2>1. CalleeWords(i) = frames[i + 1].locals_words
    BY <1>1 DEF CalleeWords
  <2>2. CASE i = n
    BY <2>1, <2>2, <1>2, <1>7, <1>8 DEF CalleeWords
  <2>3. CASE i # n
    <3>1. i + 1 \in 1 .. n
      BY <2>3
    <3> QED
      BY <2>1, <2>3, <3>1, <1>7 DEF CalleeWords
  <2> QED
    BY <2>2, <2>3
<1>16. FramesTileStack'
  <2>1. ASSUME NEW i \in 1 .. n
        PROVE  frames'[i].locals_at = frames'[i].pushed +
                 IF i = 1 THEN 0 ELSE frames'[i - 1].locals_at + frames'[i].locals_words
    <3>1. (i # 1 => i - 1 \in 1 .. n) /\ i \in 1 .. Len(frames)
      BY <1>1
    <3> QED
      BY <3>1, <1>7 DEF StackInv, FramesTileStack
  <2>4. x'.ls_top = IF frames' = <<>> THEN 0 ELSE Last(frames').locals_at + x'.locals_words
    <3>1. CASE n = 0
      BY <3>1, <1>3, <1>7, <1>8, <1>21, EmptySeq
    <3>2. CASE n # 0
      <4>1. frames' # <<>> /\ Last(frames') = frames[n]
        BY <3>2, <1>7, EmptySeq DEF Last
      <4>4. top.locals_at - top.pushed = frames[n].locals_at + top.locals_words
        BY <3>2, <1>3, <1>21, <1>22
      <4> QED
        BY <4>1, <4>4, <1>8
    <3> QED
      BY <3>1, <3>2
  <2>5. x'.ls_top + x'.pushed <= LsWords
    <3>1. x'.ls_top + x'.pushed = top.locals_at
      BY <1>3, <1>8
    <3> QED
      BY <3>1, <1>3
  <2> QED
    BY <2>1, <2>4, <2>5, <1>7 DEF FramesTileStack
<1>17. EndsOrdered'
  <2>1. \A i \in 1 .. n : SavedEnd(i)' = SavedEnd(i)
    BY <1>7, <1>15 DEF SavedEnd
  <2>2. \A i, j \in 1 .. n : i <= j => SavedEnd(i) <= SavedEnd(j)
    BY <1>1 DEF StackInv, EndsOrdered
  <2> QED
    BY <1>7, <2>1, <2>2 DEF EndsOrdered
<1>18. SavedLocalsIntact'
  <2>1. SUFFICES ASSUME NEW i \in 1 .. n
                 PROVE  /\ DOMAIN saved'[i] = 0 .. CalleeWords(i)' - 1
                        /\ \A k \in DOMAIN saved'[i] :
                             ls'[frames'[i].locals_at + k] = saved'[i][k]
    BY <1>7, <1>9 DEF SavedLocalsIntact
  <2>2. ls' = ls /\ i \in 1 .. Len(frames)
    BY <1>1 DEF Leave
  <2> QED
    BY <2>2, <1>7, <1>9, <1>15 DEF StackInv, SavedLocalsIntact
<1>19. ContextsOK'
  <2>1. LocalsDescribe(x)' /\ (top.func = NoFunc <=> n = 0)
    <3>1. LocalsDescribe(top) /\ (top.func = NoFunc <=> n + 1 = 1)
      BY <1>2, <1>20 DEF StackInv, ContextsOK
    <3> QED
      BY <3>1, <1>8, <1>20 DEF LocalsDescribe
  <2>2. frames' = <<>> => x' = IdleExec
    <3>1. frames' = <<>> => n = 0
      BY <1>7
    <3>2. ASSUME n = 0
          PROVE  x' = IdleExec
      <4>1. top = IdleFrame
        <5>1. n + 1 = 1
          BY <3>2
        <5>2. frames[1] = IdleFrame
          BY DEF StackInv, ContextsOK
        <5> QED
          BY <5>1, <5>2, <1>2
      <4> QED
        BY <4>1, <1>8 DEF IdleFrame, IdleExec, SwitchBack
    <3> QED
      BY <3>1, <3>2
  <2>3. frames' # <<>> => x'.func # NoFunc /\ frames'[1] = IdleFrame
    <3>1. ASSUME frames' # <<>>
          PROVE  n # 0 /\ 1 \in 1 .. n
      BY <3>1, <1>7, EmptySeq
    <3> QED
      BY <3>1, <2>1, <1>7, <1>8 DEF StackInv, ContextsOK
  <2>4. \A i \in 1 .. n : LocalsDescribe(frames'[i]) /\ (frames'[i].func = NoFunc <=> i = 1)
    BY <1>1, <1>7 DEF StackInv, ContextsOK
  <2>5. n <= CallDepth
    BY <1>1, LocalStackAssumption DEF StackInv, ContextsOK
  <2> QED
    BY <2>1, <2>2, <2>3, <2>4, <2>5, <1>7 DEF ContextsOK, LocalsDescribe
<1> QED
  BY <1>1, <1>2, <1>7, <1>8, <1>13, <1>14, <1>16, <1>17, <1>18, <1>19 DEF StackInv

LEMMA StackKept ==
  ASSUME StackInv, UNCHANGED <<frames, x, g, ls, saved>>
  PROVE  StackInv'
BY DEF StackInv, StackType, FramesTileStack, SavedLocalsIntact, EndsOrdered, ContextsOK, CalleeWords,
       SavedEnd, LocalsDescribe

-----------------------------------------------------------------------------
(* The engine boundaries.                                                  *)

LEMMA DepthFacts ==
  ASSUME EngineType, BoundsOK, bounds # <<>>
  PROVE  /\ Len(bounds) \in Nat \ {0} /\ Last(bounds) = bounds[Len(bounds)]
         /\ Depth \in Nat /\ Depth = bounds[Len(bounds)].depth
         /\ \A i \in 1 .. Len(bounds) : bounds[i] \in Boundary /\ bounds[i].depth \in Nat
         /\ \A i \in 1 .. Len(bounds) : bounds[i].depth <= Depth
         /\ \A i \in 1 .. Len(bounds) - 1 : bounds[i].depth < Depth
<1>1. /\ Len(bounds) \in Nat \ {0} /\ Last(bounds) = bounds[Len(bounds)]
      /\ \A i \in 1 .. Len(bounds) : bounds[i] \in Boundary
  <2>1. bounds \in Seq(Boundary)
    BY DEF EngineType
  <2>2. \A i \in 1 .. Len(bounds) : bounds[i] \in Boundary
    BY <2>1
  <2> QED
    BY <2>1, <2>2, FrontFacts
<1>2. \A i \in 1 .. Len(bounds) : bounds[i].depth \in Nat
  BY <1>1 DEF Boundary
<1>3. Len(bounds) \in 1 .. Len(bounds)
  BY <1>1
<1>4. Depth = bounds[Len(bounds)].depth
  BY <1>1 DEF Depth
<1>5. \A i \in 1 .. Len(bounds) - 1 : i \in 1 .. Len(bounds) /\ i < Len(bounds)
  BY <1>1
<1>6. \A i \in 1 .. Len(bounds) - 1 : bounds[i].depth < Depth
  BY <1>3, <1>4, <1>5 DEF BoundsOK
<1>7. \A i \in 1 .. Len(bounds) : i \in 1 .. Len(bounds) - 1 \/ i = Len(bounds)
  BY <1>1
<1> QED
  BY <1>1, <1>2, <1>3, <1>4, <1>6, <1>7

\* Pushing a frame that leads back to the running registers keeps every host context.
LEMMA EnterKeepsHosts ==
  ASSUME frames \in Seq(Frame), Len(frames') = Len(frames) + 1,
         NEW b \in Boundary, HostKept(b),
         \A i \in 1 .. Len(frames) : frames'[i] = frames[i],
         NEW pc, frames'[Len(frames) + 1] =
           [func |-> x.func, resume_pc |-> pc, pushed |-> x.pushed, sw |-> x.sw,
            locals_at |-> EnterAt, locals_addr |-> x.locals_addr,
            locals_words |-> x.locals_words],
         b.depth = Len(frames) => pc = x.pc
  PROVE  HostKept(b)'
<1>1. b.depth \in Nat /\ Len(frames) \in Nat
  BY DEF Boundary
<1>2. CASE b.depth = Len(frames)
  <2>1. LeadsTo(frames'[b.depth + 1], b.host)
    BY <1>2 DEF HostKept, SameContext, LeadsTo, EnterAt
  <2> QED
    BY <1>1, <1>2, <2>1 DEF HostKept, LeadsTo
<1>3. CASE b.depth # Len(frames)
  <2>1. b.depth < Len(frames) /\ LeadsTo(frames[b.depth + 1], b.host)
    BY <1>3 DEF HostKept
  <2>2. frames'[b.depth + 1] = frames[b.depth + 1]
    BY <1>1, <2>1
  <2>3. b.depth < Len(frames') /\ b.depth # Len(frames')
    BY <1>1, <2>1
  <2> QED
    BY <2>1, <2>2, <2>3 DEF HostKept, LeadsTo
<1> QED
  BY <1>2, <1>3

\* Popping a frame above the boundary keeps every host context.
LEMMA LeaveKeepsHosts ==
  ASSUME frames \in Seq(Frame), x \in Exec, frames # <<>>, NEW b \in Boundary, HostKept(b),
         b.depth < Len(frames),
         Len(frames') = Len(frames) - 1,
         \A i \in 1 .. Len(frames) - 1 : frames'[i] = frames[i],
         x' = [func |-> Last(frames).func, pc |-> Last(frames).resume_pc,
               pushed |-> Last(frames).pushed, sw |-> SwitchBack(Last(frames)),
               ls_top |-> Last(frames).locals_at - Last(frames).pushed,
               locals_addr |-> Last(frames).locals_addr,
               locals_words |-> Last(frames).locals_words],
         b.host \in Exec
  PROVE  HostKept(b)'
<1>1. b.depth \in Nat /\ Len(frames) \in Nat \ {0} /\ Last(frames) = frames[Len(frames)]
  BY FrontFacts DEF Boundary
<1>2. LeadsTo(frames[b.depth + 1], b.host)
  BY <1>1 DEF HostKept
<1>3. CASE b.depth = Len(frames) - 1
  <2>1. LeadsTo(Last(frames), b.host)
    BY <1>1, <1>2, <1>3
  <2>2. b.host.ls_top \in Nat /\ b.host.pushed \in Nat
    <3>1. b.host.ls_top \in 0 .. LsWords /\ b.host.pushed \in 0 .. LsWords
      BY DEF Exec
    <3> QED
      BY <3>1, LocalStackAssumption
  <2>3. Last(frames).locals_at - Last(frames).pushed = b.host.ls_top
    BY <2>1, <2>2 DEF LeadsTo
  <2>4. SameContext(x', b.host)
    BY <2>1, <2>3 DEF LeadsTo, SameContext, SwitchBack
  <2> QED
    BY <1>1, <1>3, <2>4 DEF HostKept, SameContext
<1>4. CASE b.depth # Len(frames) - 1
  <2>1. b.depth + 1 \in 1 .. Len(frames) - 1 /\ b.depth < Len(frames')
    BY <1>1, <1>4
  <2> QED
    BY <1>1, <1>2, <2>1 DEF HostKept, LeadsTo
<1> QED
  BY <1>3, <1>4

-----------------------------------------------------------------------------
(* Capturing a thread.                                                     *)

\* The captured thread describes the stack it was taken from.
LEMMA SnapshotOK ==
  ASSUME StackInv, EngineType, BoundsOK, bounds # <<>>, Depth < Len(frames)
  PROVE  Snapshot \in Captured /\ ThreadOK(Snapshot)
<1>0. PICK d \in Nat : d = Depth
  BY DepthFacts
<1>1. PICK n \in Nat \ {0} : Len(frames) = d + n /\ n = Len(frames) - Depth
  BY <1>0 DEF StackInv, StackType
<1> DEFINE At(i) == frames[d + i].locals_at
           Act(i) == IF i < n THEN CallerActivation(frames[d + 1 + i])
                     ELSE [func |-> x.func, pc |-> x.pc, pushed |-> x.pushed, sw |-> x.sw]
           chain == [i \in 1 .. n |-> Act(i)]
           W(i) == Words[Act(i).func]
<1>2. x \in Exec /\ LsWords \in Nat /\ CallDepth \in Nat
  BY LocalStackAssumption DEF StackInv, StackType
<1>3. \A i \in 1 .. d + n : frames[i] \in Frame /\ frames[i].locals_at \in 0 .. LsWords
                              /\ frames[i].pushed \in 0 .. LsWords
  <2>1. \A i \in 1 .. d + n : frames[i] \in Frame
    BY <1>1 DEF StackInv, StackType
  <2> QED
    BY <2>1 DEF Frame
<1>4. ASSUME NEW i \in 1 .. n
      PROVE  d + i \in 1 .. d + n /\ At(i) \in 0 .. LsWords
  <2>1. d + i \in 1 .. d + n
    BY <1>1
  <2> QED
    BY <1>3, <2>1
<1>5. ASSUME NEW i \in 1 .. n, i < n
      PROVE  /\ i + 1 \in 1 .. n /\ d + 1 + i \in 1 .. d + n /\ d + 1 + i # 1
             /\ d + (i + 1) = d + 1 + i /\ d + i + 1 = d + 1 + i /\ d + 1 + i - 1 = d + i
             /\ d + i # Len(frames)
  BY <1>1, <1>5
<1>6. ASSUME NEW i \in 1 .. n
      PROVE  /\ Act(i) \in Activation /\ W(i) = CalleeWords(d + i)
             /\ Act(i).pushed \in 0 .. LsWords /\ W(i) \in Nat
  <2>1. CASE i < n
    <3>1. /\ frames[d + 1 + i] \in Frame /\ LocalsDescribe(frames[d + 1 + i])
          /\ frames[d + 1 + i].func # NoFunc
      BY <2>1, <1>1, <1>3, <1>5 DEF StackInv, ContextsOK
    <3>2. Act(i) = CallerActivation(frames[d + 1 + i])
      BY <2>1
    <3>3. Act(i) \in Activation
      BY <3>1, <3>2 DEF CallerActivation, Activation, Frame
    <3>4. W(i) = frames[d + 1 + i].locals_words
      BY <3>1, <3>2 DEF CallerActivation, LocalsDescribe
    <3>5. CalleeWords(d + i) = frames[d + 1 + i].locals_words
      BY <2>1, <1>5 DEF CalleeWords
    <3> QED
      BY <3>1, <3>3, <3>4, <3>5 DEF Activation, Frame
  <2>2. CASE i = n
    <3>1. x.func \in Func /\ LocalsDescribe(x) /\ x.func # NoFunc
      <4>1. frames # <<>>
        BY <1>1
      <4> QED
        BY <4>1, <1>2 DEF StackInv, ContextsOK, Exec
    <3>2. Act(i) = [func |-> x.func, pc |-> x.pc, pushed |-> x.pushed, sw |-> x.sw]
      BY <2>2
    <3>3. Act(i) \in Activation
      BY <1>2, <3>1, <3>2 DEF Activation, Exec
    <3>4. W(i) = x.locals_words
      BY <3>1, <3>2 DEF LocalsDescribe
    <3>5. CalleeWords(d + i) = x.locals_words
      BY <2>2, <1>1 DEF CalleeWords
    <3> QED
      BY <1>2, <3>3, <3>4, <3>5 DEF Activation, Exec
  <2> QED
    BY <2>1, <2>2, <1>1
<1>7. ASSUME NEW i \in 1 .. n, i < n
      PROVE  /\ At(i + 1) = At(i) + W(i) + Act(i).pushed
             /\ Act(i).pushed = frames[d + 1 + i].pushed
  <2>1. frames[d + 1 + i].locals_at =
          frames[d + 1 + i].pushed + (frames[d + i].locals_at + frames[d + 1 + i].locals_words)
    BY <1>1, <1>5, <1>7 DEF StackInv, FramesTileStack
  <2>2. W(i) = frames[d + 1 + i].locals_words
    BY <1>1, <1>5, <1>6, <1>7 DEF CalleeWords
  <2>3. Act(i).pushed = frames[d + 1 + i].pushed
    BY <1>7 DEF CallerActivation
  <2>4. At(i + 1) = frames[d + 1 + i].locals_at
    BY <1>5, <1>7
  <2>5. At(i) \in 0 .. LsWords /\ W(i) \in Nat /\ Act(i).pushed \in 0 .. LsWords
    BY <1>4, <1>6
  <2> HIDE DEF At, Act, W
  <2>6. frames[d + i].locals_at = At(i)
    BY DEF At
  <2> QED
    BY <2>1, <2>2, <2>3, <2>4, <2>5, <2>6, <1>2
<1>8. x.ls_top = At(n) + W(n) /\ x.ls_top + Act(n).pushed <= LsWords /\ Act(n).pushed = x.pushed
  <2>1. Act(n).pushed = x.pushed
    OBVIOUS
  <2>2. n \in 1 .. n /\ d + n = Len(frames) /\ frames # <<>>
    BY <1>1
  <2>3. x.ls_top = frames[d + n].locals_at + x.locals_words /\ x.ls_top + x.pushed <= LsWords
    BY <2>2, FrontFacts DEF StackInv, StackType, FramesTileStack
  <2>4. W(n) = x.locals_words
    BY <2>2, <1>6 DEF CalleeWords
  <2> QED
    BY <2>1, <2>3, <2>4
<1>9. \A i \in 1 .. n : At(i) \in Nat /\ W(i) \in Nat /\ Act(i).pushed \in Nat
  <2> SUFFICES ASSUME NEW i \in 1 .. n
               PROVE  At(i) \in Nat /\ W(i) \in Nat /\ Act(i).pushed \in Nat
    OBVIOUS
  <2>1. At(i) \in 0 .. LsWords /\ W(i) \in Nat /\ Act(i).pushed \in 0 .. LsWords
    BY <1>4, <1>6
  <2> HIDE DEF At, Act, W
  <2> QED
    BY <2>1, <1>2
<1>10. \A j, k \in 1 .. n : j <= k => At(j) + W(j) <= At(k) + W(k)
  <2>1. \A j \in 1 .. n : SavedEnd(d + j) = At(j) + W(j)
    BY <1>6 DEF SavedEnd
  <2> SUFFICES ASSUME NEW j \in 1 .. n, NEW k \in 1 .. n, j <= k
               PROVE  At(j) + W(j) <= At(k) + W(k)
    OBVIOUS
  <2>2. d + j \in 1 .. Len(frames) /\ d + k \in 1 .. Len(frames) /\ d + j <= d + k
    BY <1>1
  <2>3. SavedEnd(d + j) <= SavedEnd(d + k)
    BY <2>2 DEF StackInv, EndsOrdered
  <2> QED
    BY <2>1, <2>3
<1>11. 1 \in 1 .. n /\ n \in 1 .. n /\ x.ls_top \in Nat /\ x.pushed \in Nat
  BY <1>1, <1>2 DEF Exec
<1> HIDE DEF At, Act, W
<1>12. ASSUME NEW i \in 1 .. n
       PROVE  At(1) <= At(i) /\ At(i) + W(i) + Act(i).pushed <= x.ls_top + x.pushed
  <2>1. At(1) <= At(i)
    <3>1. CASE i = 1
      BY <3>1, <1>9
    <3>2. CASE i # 1
      <4>1. PICK j \in 1 .. n : j < n /\ i = j + 1
        <5>1. i - 1 \in 1 .. n /\ i - 1 < n /\ i = (i - 1) + 1
          BY <3>2
        <5> QED
          BY <5>1
      <4>2. At(1) + W(1) <= At(j) + W(j)
        BY <1>10, <1>11
      <4>3. At(i) = At(j) + W(j) + Act(j).pushed
        BY <4>1, <1>7
      <4>4. /\ At(1) \in Nat /\ W(1) \in Nat /\ At(j) \in Nat /\ W(j) \in Nat
            /\ Act(j).pushed \in Nat
        BY <1>9, <1>11
      <4> QED
        BY <4>2, <4>3, <4>4
    <3> QED
      BY <3>1, <3>2
  <2>2. At(i) + W(i) + Act(i).pushed <= x.ls_top + x.pushed
    <3>1. CASE i = n
      BY <3>1, <1>8, <1>9, <1>11
    <3>2. CASE i < n
      <4>1. i + 1 \in 1 .. n /\ i + 1 <= n
        BY <3>2, <1>11
      <4>2. At(i + 1) + W(i + 1) <= At(n) + W(n)
        BY <4>1, <1>10, <1>11
      <4>3. At(i + 1) = At(i) + W(i) + Act(i).pushed
        BY <3>2, <1>7
      <4>4. At(i + 1) \in Nat /\ W(i + 1) \in Nat
        BY <4>1, <1>9
      <4> QED
        BY <4>2, <4>3, <4>4, <1>8, <1>11
    <3> QED
      BY <3>1, <3>2
  <2> QED
    BY <2>1, <2>2
<1> DEFINE o == At(1)
           stack == [k \in 1 .. x.ls_top + x.pushed - o |-> ls[o + k - 1]]
           locals == [a \in UNION {LocalsOf(chain[i].func) : i \in 1 .. n} |-> g[a]]
           fs == [i \in 1 .. n - 1 |-> [frames[d + 1 + i] EXCEPT !.locals_at = @ - o]]
           top == [x EXCEPT !.ls_top = @ - o]
           sv == SubSeq(saved, d + 1, d + n)
<1>13. Snapshot = [chain |-> chain, stack |-> stack, locals |-> locals,
                   shape |-> [fs |-> fs, top |-> top], saved |-> sv]
  <2>1. Len(saved) = d + n /\ Len(frames) - Depth = n /\ Depth + 1 = d + 1
        /\ Len(frames) - (d + 1) = n - 1
    BY <1>0, <1>1 DEF StackInv, SavedLocalsIntact
  <2>2. CaptureFrom = o /\ frames[d + 1].locals_at = o
    BY <1>0 DEF CaptureFrom, At
  <2>3. Shape(d + 1) = [fs |-> fs, top |-> top]
    BY <2>1, <2>2 DEF Shape
  <2> QED
    BY <2>1, <2>2, <2>3, <1>0 DEF Snapshot, Act
<1> DEFINE t == Snapshot
<1>14. /\ t.chain = chain /\ t.stack = stack /\ t.locals = locals /\ t.shape.fs = fs
       /\ t.shape.top = top /\ t.saved = sv
  BY <1>13
<1>15. chain \in Seq(Activation) /\ Len(chain) = n /\ \A i \in 1 .. n : chain[i] = Act(i)
  BY <1>6
<1>16. /\ stack \in Seq(Val) /\ Len(stack) = x.ls_top + x.pushed - o
       /\ \A k \in 1 .. x.ls_top + x.pushed - o : stack[k] = ls[o + k - 1]
  <2>1. x.ls_top + x.pushed - o \in Nat /\ x.ls_top + x.pushed <= LsWords /\ o \in Nat
    BY SMTT(30), <1>8, <1>9, <1>11, <1>12
  <2>2. ASSUME NEW k \in 1 .. x.ls_top + x.pushed - o
        PROVE  ls[o + k - 1] \in Val
    <3>1. o + k - 1 \in Slot
      BY SMTT(30), <2>1, <1>2, <1>11 DEF Slot
    <3> QED
      BY <3>1 DEF StackInv, StackType
  <2> HIDE DEF o
  <2> QED
    BY <2>1, <2>2
<1>17. locals \in UNION {[A -> Val] : A \in SUBSET Addr}
  <2> DEFINE A == UNION {LocalsOf(chain[i].func) : i \in 1 .. n}
  <2>1. ASSUME NEW i \in 1 .. n
        PROVE  LocalsOf(chain[i].func) \subseteq Addr
    <3>1. PICK f \in Func : f = chain[i].func
      BY <1>6, <1>15 DEF Activation
    <3>2. LocalsOf(f) \subseteq Addr
      BY LocalStackAssumption DEF LocalsOf, Addr
    <3> QED
      BY <3>1, <3>2
  <2>2. A \in SUBSET Addr
    BY <2>1
  <2>3. \A a \in A : g[a] \in Val
    BY <2>2 DEF StackInv, StackType
  <2> HIDE DEF A
  <2>4. [a \in A |-> g[a]] \in [A -> Val]
    BY <2>3
  <2>5. locals = [a \in A |-> g[a]]
    BY DEF A
  <2> HIDE DEF locals
  <2> QED
    BY <2>2, <2>4, <2>5
<1>18. ASSUME NEW i \in 1 .. n, i < n
       PROVE  fs[i] = [func |-> chain[i].func, resume_pc |-> chain[i].pc,
                       pushed |-> chain[i].pushed, sw |-> chain[i].sw,
                       locals_at |-> At(i) + W(i) + Act(i).pushed - o,
                       locals_addr |-> Base[chain[i].func], locals_words |-> Words[chain[i].func]]
  <2>1. i \in 1 .. n - 1 /\ d + 1 + i \in 1 .. d + n /\ d + 1 + i # 1
    BY <1>1, <1>18
  <2>2. PICK f \in Frame : f = frames[d + 1 + i]
    BY <2>1, <1>3
  <2>3. f.locals_at = At(i) + W(i) + Act(i).pushed
    BY <2>2, <1>5, <1>7, <1>18 DEF At
  <2>4. /\ chain[i].func = f.func /\ chain[i].pc = f.resume_pc
        /\ chain[i].pushed = f.pushed /\ chain[i].sw = f.sw
    BY <2>2, <1>15, <1>18 DEF Act, CallerActivation
  <2>5. f.locals_addr = Base[f.func] /\ f.locals_words = Words[f.func]
    BY <2>1, <2>2, <1>1 DEF StackInv, ContextsOK, LocalsDescribe
  <2>6. fs[i] = [f EXCEPT !.locals_at = @ - o]
    BY <2>1, <2>2
  <2> HIDE DEF chain, fs, o
  <2>7. fs[i] = [func |-> f.func, resume_pc |-> f.resume_pc, pushed |-> f.pushed, sw |-> f.sw,
                 locals_at |-> f.locals_at - o, locals_addr |-> f.locals_addr,
                 locals_words |-> f.locals_words]
    BY <2>6 DEF Frame
  <2>8. f.locals_at - o = At(i) + W(i) + Act(i).pushed - o
    BY <2>3, <1>9, <1>11 DEF o
  <2> QED
    BY <2>4, <2>5, <2>7, <2>8
<1>19. fs \in Seq(Frame) /\ Len(fs) = n - 1
  <2> SUFFICES ASSUME NEW i \in 1 .. n - 1
               PROVE  [frames[d + 1 + i] EXCEPT !.locals_at = @ - o] \in Frame
    BY <1>1
  <2>1. PICK f \in Frame : f = frames[d + 1 + i]
    BY <1>1, <1>3
  <2>2. i \in 1 .. n /\ i < n /\ i + 1 \in 1 .. n /\ d + (i + 1) = d + 1 + i
    BY <1>1
  <2>3. f.locals_at = At(i + 1) /\ o <= At(i + 1)
    BY <2>1, <2>2, <1>12 DEF At
  <2>4. f.locals_at - o \in 0 .. LsWords
    <3>1. f.locals_at \in 0 .. LsWords
      BY DEF Frame
    <3> QED
      BY <3>1, <2>3, <1>2, <1>9, <1>11
  <2> QED
    BY <2>1, <2>4 DEF Frame
<1>20. /\ top \in Exec
       /\ top = [func |-> chain[n].func, pc |-> chain[n].pc, pushed |-> chain[n].pushed,
                 sw |-> chain[n].sw, ls_top |-> At(n) + W(n) - o,
                 locals_addr |-> Base[chain[n].func], locals_words |-> Words[chain[n].func]]
  <2>1. x.ls_top - o \in 0 .. LsWords
    <3>1. o <= At(n) /\ x.ls_top <= LsWords
      BY <1>2, <1>8, <1>9, <1>11, <1>12
    <3> QED
      BY SMTT(30), <3>1, <1>2, <1>8, <1>9, <1>11
  <2>2. top \in Exec
    BY <2>1, <1>2 DEF Exec
  <2>3. Act(n) = [func |-> x.func, pc |-> x.pc, pushed |-> x.pushed, sw |-> x.sw]
    BY DEF Act
  <2>4. x.locals_addr = Base[x.func] /\ x.locals_words = Words[x.func]
    BY <1>1 DEF StackInv, ContextsOK, LocalsDescribe
  <2>5. chain[n] = Act(n)
    BY <1>11, <1>15
  <2> HIDE DEF chain, o
  <2>6. top = [func |-> x.func, pc |-> x.pc, pushed |-> x.pushed, sw |-> x.sw,
               ls_top |-> x.ls_top - o, locals_addr |-> x.locals_addr,
               locals_words |-> x.locals_words]
    BY <1>2 DEF Exec
  <2>7. x.ls_top - o = At(n) + W(n) - o
    BY <1>8, <1>9, <1>11 DEF o
  <2>8. /\ chain[n].func = x.func /\ chain[n].pc = x.pc /\ chain[n].pushed = x.pushed
        /\ chain[n].sw = x.sw
    BY <2>3, <2>5
  <2> HIDE DEF top
  <2> QED
    BY <2>2, <2>4, <2>6, <2>7, <2>8
<1>21. /\ sv \in Seq(SavedLocals) /\ Len(sv) = n
       /\ \A i \in 1 .. n : sv[i] = saved[d + i]
  <2>1. saved \in Seq(SavedLocals) /\ Len(saved) = d + n
    BY <1>1 DEF StackInv, StackType, SavedLocalsIntact
  <2>2. \A i \in d + 1 .. d + n : saved[i] \in SavedLocals
    BY <2>1, <1>1
  <2>3. d + 1 \in Int /\ d + n \in Int /\ d + 1 <= d + n /\ (d + n) - (d + 1) + 1 = n
    BY <1>1
  <2>4. /\ sv \in Seq(SavedLocals) /\ Len(sv) = n
        /\ \A i \in 1 .. n : sv[i] = saved[d + 1 + i - 1]
    BY <2>2, <2>3, SubSeqProperties
  <2>5. \A i \in 1 .. n : d + 1 + i - 1 = d + i
    BY <1>1
  <2> QED
    BY <2>4, <2>5
<1>22. t \in Captured
  <2> HIDE DEF chain, stack, locals, fs, top, sv
  <2>1. t = [chain |-> chain, stack |-> stack, locals |-> locals,
             shape |-> [fs |-> fs, top |-> top], saved |-> sv]
    BY <1>13
  <2> HIDE DEF t
  <2> QED
    BY <2>1, <1>15, <1>16, <1>17, <1>19, <1>20, <1>21 DEF Captured
<1> HIDE DEF t, chain, stack, locals, fs, top, sv
<1>23. /\ \A i \in 1 .. n : AtOf(t, i) = At(i) - o
       /\ \A i \in 1 .. n : EndOf(t, i) = At(i) + W(i) + Act(i).pushed - o
  <2> SUFFICES ASSUME NEW i \in 1 .. n
               PROVE  /\ AtOf(t, i) = At(i) - o
                      /\ EndOf(t, i) = At(i) + W(i) + Act(i).pushed - o
    OBVIOUS
  <2>1. AtOf(t, i) = At(i) - o
    <3>1. CASE i = 1
      BY <3>1, <1>9, <1>11 DEF AtOf, o
    <3>2. CASE i # 1
      <4>1. PICK j \in 1 .. n : j < n /\ i = j + 1 /\ i - 1 = j
        <5>1. i - 1 \in 1 .. n /\ i - 1 < n /\ i = (i - 1) + 1
          BY <3>2
        <5> QED
          BY <5>1
      <4>2. t.shape.fs[j].locals_at = At(j) + W(j) + Act(j).pushed - o
        <5> HIDE DEF o
        <5>2. fs[j] = [func |-> chain[j].func, resume_pc |-> chain[j].pc,
                       pushed |-> chain[j].pushed, sw |-> chain[j].sw,
                       locals_at |-> At(j) + W(j) + Act(j).pushed - o,
                       locals_addr |-> Base[chain[j].func], locals_words |-> Words[chain[j].func]]
          BY <4>1, <1>18
        <5>1. fs[j].locals_at = At(j) + W(j) + Act(j).pushed - o
          BY <5>2
        <5> QED
          BY <5>1, <1>14
      <4>3. At(i) = At(j) + W(j) + Act(j).pushed
        BY <4>1, <1>7
      <4> HIDE DEF o
      <4> QED
        BY <3>2, <4>1, <4>2, <4>3, <1>9, <1>11 DEF AtOf, o
    <3> QED
      BY <3>1, <3>2
  <2>2. Words[t.chain[i].func] = W(i) /\ t.chain[i].pushed = Act(i).pushed
    BY <1>14, <1>15 DEF W
  <2> QED
    BY <2>1, <2>2, <1>9, <1>11 DEF EndOf, o
<1>24. /\ n \in 1 .. CallDepth /\ Len(t.chain) = n /\ Len(t.shape.fs) = n - 1 /\ Len(t.saved) = n
  <2>1. d + n <= CallDepth
    BY <1>1 DEF StackInv, ContextsOK
  <2> QED
    BY <2>1, <1>1, <1>2, <1>14, <1>15, <1>19, <1>21
<1>25. ASSUME NEW i \in 1 .. n - 1
       PROVE  t.shape.fs[i] =
                [func |-> t.chain[i].func, resume_pc |-> t.chain[i].pc,
                 pushed |-> t.chain[i].pushed, sw |-> t.chain[i].sw, locals_at |-> EndOf(t, i),
                 locals_addr |-> Base[t.chain[i].func], locals_words |-> Words[t.chain[i].func]]
  <2>1. i \in 1 .. n /\ i < n
    BY <1>1
  <2> QED
    BY <2>1, <1>14, <1>18, <1>23
<1>26. t.shape.top =
         [func |-> t.chain[n].func, pc |-> t.chain[n].pc, pushed |-> t.chain[n].pushed,
          sw |-> t.chain[n].sw, ls_top |-> AtOf(t, n) + Words[t.chain[n].func],
          locals_addr |-> Base[t.chain[n].func], locals_words |-> Words[t.chain[n].func]]
  <2>1. AtOf(t, n) = At(n) - o /\ Words[t.chain[n].func] = W(n)
    BY <1>11, <1>14, <1>15, <1>23 DEF W
  <2>2. AtOf(t, n) + Words[t.chain[n].func] = At(n) + W(n) - o
    BY <2>1, <1>9, <1>11 DEF o
  <2> QED
    BY <2>2, <1>14, <1>20
<1>27. Len(t.stack) = EndOf(t, n) /\ Len(t.stack) <= LsWords
  <2>1. EndOf(t, n) = At(n) + W(n) + Act(n).pushed - o
    BY <1>11, <1>23
  <2>2. Len(t.stack) = x.ls_top + x.pushed - o
    BY <1>14, <1>16
  <2>3. At(n) \in Nat /\ W(n) \in Nat /\ Act(n).pushed \in Nat /\ o \in Nat
    BY <1>9, <1>11 DEF o
  <2> HIDE DEF o
  <2> QED
    BY <2>1, <2>2, <2>3, <1>2, <1>8, <1>11
<1>28. ASSUME NEW i \in 1 .. n
       PROVE  /\ EndOf(t, i) <= Len(t.stack)
              /\ DOMAIN t.saved[i] = 0 .. Words[t.chain[i].func] - 1
              /\ \A k \in DOMAIN t.saved[i] : t.stack[AtOf(t, i) + k + 1] = t.saved[i][k]
  <2>1. EndOf(t, i) <= Len(t.stack)
    <3>1. Len(t.stack) = x.ls_top + x.pushed - o
      BY <1>14, <1>16
    <3>2. At(i) \in Nat /\ W(i) \in Nat /\ Act(i).pushed \in Nat /\ o \in Nat
      BY <1>9, <1>11 DEF o
    <3>3. EndOf(t, i) = At(i) + W(i) + Act(i).pushed - o
      BY <1>23
    <3>4. At(i) + W(i) + Act(i).pushed <= x.ls_top + x.pushed
      BY <1>12
    <3> HIDE DEF o
    <3> QED
      BY SMTT(30), <3>1, <3>2, <3>3, <3>4, <1>11
  <2>2. t.saved[i] = saved[d + i] /\ Words[t.chain[i].func] = W(i) /\ W(i) = CalleeWords(d + i)
    BY <1>6, <1>14, <1>15, <1>21 DEF W
  <2>3. /\ DOMAIN saved[d + i] = 0 .. W(i) - 1
        /\ \A k \in DOMAIN saved[d + i] : ls[At(i) + k] = saved[d + i][k]
    BY <2>2, <1>1, <1>4 DEF StackInv, SavedLocalsIntact, At
  <2>4. ASSUME NEW k \in 0 .. W(i) - 1
        PROVE  t.stack[AtOf(t, i) + k + 1] = ls[At(i) + k]
    <3>1. AtOf(t, i) = At(i) - o /\ At(1) <= At(i)
      BY <1>12, <1>23
    <3>2. /\ AtOf(t, i) + k + 1 \in 1 .. x.ls_top + x.pushed - o
          /\ o + (AtOf(t, i) + k + 1) - 1 = At(i) + k
      <4>1. At(i) + W(i) + Act(i).pushed <= x.ls_top + x.pushed
        BY <1>12
      <4>2. At(i) \in Nat /\ W(i) \in Nat /\ Act(i).pushed \in Nat /\ o \in Nat
        BY <1>9, <1>11 DEF o
      <4>3. o <= At(i)
        BY <3>1 DEF o
      <4> HIDE DEF o
      <4>4. AtOf(t, i) = At(i) - o
        BY <3>1
      <4>5. k \in Nat /\ k + 1 <= W(i)
        BY <4>2
      <4>6. PICK a \in Int : a = AtOf(t, i) + k + 1
        BY <4>2, <4>4, <4>5
      <4>7. a = At(i) - o + k + 1
        BY <4>4, <4>6
      <4>8. 1 <= a /\ o + a - 1 = At(i) + k
        BY <4>2, <4>3, <4>5, <4>7
      <4>9. o + a <= x.ls_top + x.pushed
        BY SMTT(30), <4>1, <4>2, <4>5, <4>8, <1>11
      <4>10. a \in 1 .. x.ls_top + x.pushed - o
        BY SMTT(30), <4>2, <4>8, <4>9, <1>11
      <4> QED
        BY <4>6, <4>8, <4>10
    <3> HIDE DEF o
    <3> QED
      BY <3>2, <1>14, <1>16
  <2> QED
    BY <2>1, <2>2, <2>3, <2>4
<1> QED
  BY <1>22, <1>24, <1>25, <1>26, <1>27, <1>28 DEF ThreadOK, t
-----------------------------------------------------------------------------
(* Steps that push and pop no frame.                                       *)

\* A step may move the pc, the PUSH count, the switch registers, globals, and
\* local-stack words that hold no saved locals.
LEMMA RegistersKeepStack ==
  ASSUME StackInv, frames # <<>>, frames' = frames, saved' = saved,
         x' \in Exec, x'.func = x.func, x'.ls_top = x.ls_top,
         x'.locals_addr = x.locals_addr, x'.locals_words = x.locals_words,
         x.ls_top + x'.pushed <= LsWords,
         g' \in [Addr -> Val], ls' \in [Slot -> Val],
         \A i \in 1 .. Len(frames) : \A k \in DOMAIN saved[i] :
           ls'[frames[i].locals_at + k] = ls[frames[i].locals_at + k]
  PROVE  StackInv'
<1>1. StackType'
  BY DEF StackInv, StackType
<1>2. FramesTileStack'
  BY DEF StackInv, FramesTileStack
<1>3. \A i \in 1 .. Len(frames) : CalleeWords(i)' = CalleeWords(i)
  BY DEF CalleeWords
<1>4. SavedLocalsIntact'
  BY <1>3 DEF StackInv, SavedLocalsIntact
<1>5. EndsOrdered'
  BY <1>3 DEF StackInv, EndsOrdered, SavedEnd
<1>6. ContextsOK'
  BY DEF StackInv, ContextsOK, LocalsDescribe
<1> QED
  BY <1>1, <1>2, <1>4, <1>5, <1>6 DEF StackInv

LEMMA BoundsKept ==
  ASSUME EngineType, BoundsOK, bounds # <<>>, frames \in Seq(Frame), Depth < Len(frames),
         frames' = frames, bounds' = bounds, mode' \in {"host", "qc", "unwind"}
  PROVE  BoundsOK'
<1>1. ASSUME NEW i \in 1 .. Len(bounds)
      PROVE  HostKept(bounds[i])'
  <2>1. bounds[i].depth < Len(frames) /\ bounds[i].depth # Len(frames)
    BY DepthFacts
  <2>2. HostKept(bounds[i])
    BY DEF BoundsOK
  <2> QED
    BY <2>1, <2>2 DEF HostKept, LeadsTo
<1>2. Depth' < Len(frames')
  BY DEF Depth
<1> QED
  BY <1>1, <1>2 DEF BoundsOK

\* Nothing but the stack's words, the registers and who runs changes.
LEMMA QuietStep ==
  ASSUME IInv, mode \in {"host", "qc"}, bounds # <<>>,
         mode' \in {"host", "qc", "unwind"},
         UNCHANGED <<frames, bounds, sleeping, waking>>, StackInv'
  PROVE  IInv'
<1>1. Depth < Len(frames) /\ frames \in Seq(Frame)
  BY DEF IInv, BoundsOK, StackInv, StackType
<1>2. BoundsOK'
  BY <1>1, BoundsKept DEF IInv
<1>3. EngineType'
  BY DEF IInv, EngineType, Mode
<1>4. SleepingOK'
  BY DEF IInv, SleepingOK
<1>5. ResumeOK'
  BY DEF IInv, ResumeOK
<1> QED
  BY <1>2, <1>3, <1>4, <1>5 DEF IInv

\* Inside a host call there are frames, and the boundary is below them.
LEMMA InCall ==
  ASSUME IInv, mode \in {"host", "qc"}, bounds # <<>>
  PROVE  /\ frames \in Seq(Frame) /\ frames # <<>> /\ Len(frames) \in Nat \ {0}
         /\ Depth \in Nat /\ Depth < Len(frames) /\ x \in Exec /\ x.func # NoFunc
<1>1. frames \in Seq(Frame) /\ x \in Exec
  BY DEF IInv, StackInv, StackType
<1>2. Depth \in Nat /\ Depth < Len(frames)
  BY DepthFacts DEF IInv, BoundsOK
<1>3. Len(frames) # 0
  BY <1>1, <1>2
<1>4. frames # <<>>
  BY <1>3
<1> QED
  BY <1>1, <1>2, <1>3, <1>4 DEF IInv, StackInv, ContextsOK

\* QuakeC runs only inside a host call.
LEMMA QcInCall ==
  ASSUME IInv, mode # "host"
  PROVE  bounds # <<>>
BY DEF IInv, BoundsOK

LEMMA FaultStep ==
  ASSUME IInv, mode = "qc", Fault
  PROVE  IInv'
<1>1. StackInv'
  BY StackKept DEF IInv, Fault
<1> QED
  BY <1>1, QcInCall, QuietStep DEF Fault

LEMMA BuiltinEnds ==
  ASSUME IInv, BuiltinReturns \/ BuiltinFails
  PROVE  IInv'
<1>1. StackInv'
  BY StackKept DEF IInv, BuiltinReturns, BuiltinFails
<1> QED
  BY <1>1, QuietStep DEF BuiltinReturns, BuiltinFails, InBuiltin

\* The registers after a statement that moves to the next one.
LEMMA NextStatement ==
  ASSUME IInv, Running
  PROVE  x.pc + 1 \in Pc /\ x.pc \in Pc /\ 0 \in Pc /\ x \in Exec /\ bounds # <<>>
<1>1. x \in Exec /\ x.pc \in Pc
  BY DEF IInv, StackInv, StackType, Exec
<1>2. bounds # <<>>
  BY QcInCall DEF Running
<1> QED
  BY <1>1, <1>2, LocalStackAssumption DEF Pc, Running

LEMMA CallBuiltinStep ==
  ASSUME IInv, CallBuiltin
  PROVE  IInv'
<1>1. x.pc + 1 \in Pc /\ x \in Exec /\ bounds # <<>> /\ mode = "qc"
  BY NextStatement DEF CallBuiltin, Running
<1>2. x' = [x EXCEPT !.pc = @ + 1]
  BY DEF CallBuiltin
<1>3. x' \in Exec /\ \A f \in {"func", "ls_top", "pushed", "locals_addr", "locals_words"} : x'[f] = x[f]
  BY <1>1, <1>2 DEF Exec
<1>4. StackInv'
  BY <1>1, <1>3, InCall, RegistersKeepStack DEF CallBuiltin, IInv, StackInv, StackType, FramesTileStack
<1> QED
  BY <1>1, <1>4, QuietStep DEF CallBuiltin

LEMMA SwitchStep ==
  ASSUME IInv, Switch
  PROVE  IInv'
<1>1. x.pc + 1 \in Pc /\ x \in Exec /\ bounds # <<>> /\ mode = "qc"
  BY NextStatement DEF Switch, Running
<1>2. x' = [x EXCEPT !.sw = 1, !.pc = @ + 1]
  BY DEF Switch
<1>3. x' \in Exec /\ \A f \in {"func", "ls_top", "pushed", "locals_addr", "locals_words"} : x'[f] = x[f]
  BY <1>1, <1>2 DEF Exec
<1>4. StackInv'
  BY <1>1, <1>3, InCall, RegistersKeepStack DEF Switch, IInv, StackInv, StackType, FramesTileStack
<1> QED
  BY <1>1, <1>4, QuietStep DEF Switch

LEMMA PushStep ==
  ASSUME IInv, NEW n \in 1 .. MaxPush, Push(n)
  PROVE  IInv'
<1>1. x.pc + 1 \in Pc /\ x \in Exec /\ bounds # <<>> /\ mode = "qc"
  BY NextStatement DEF Push, Running
<1>2. CASE Fault
  BY <1>1, <1>2, FaultStep
<1>3. CASE /\ x.ls_top + x.pushed + n < LsWords
           /\ x' = [x EXCEPT !.pushed = @ + n, !.pc = @ + 1]
           /\ UNCHANGED <<frames, g, ls, bounds, mode, sleeping, waking, saved>>
  <2>1. x.ls_top \in 0 .. LsWords /\ x.pushed \in 0 .. LsWords
    BY <1>1 DEF Exec
  <2>2. x.pushed + n \in 0 .. LsWords /\ x.ls_top + (x.pushed + n) <= LsWords
    BY <1>3, <2>1, LocalStackAssumption
  <2>3. /\ x' \in Exec /\ x'.pushed = x.pushed + n
        /\ \A f \in {"func", "ls_top", "locals_addr", "locals_words"} : x'[f] = x[f]
    BY <1>1, <1>3, <2>2 DEF Exec
  <2>4. StackInv'
    BY <1>1, <1>3, <2>2, <2>3, InCall, RegistersKeepStack DEF IInv, StackInv, StackType
  <2> QED
    BY <1>1, <1>3, <2>4, QuietStep
<1> QED
  BY <1>2, <1>3 DEF Push

LEMMA StoreGlobalStep ==
  ASSUME IInv, NEW a \in Addr, NEW v \in Val, StoreGlobal(a, v)
  PROVE  IInv'
<1>1. x.pc + 1 \in Pc /\ x \in Exec /\ bounds # <<>> /\ mode = "qc"
  BY NextStatement DEF StoreGlobal, Running
<1>2. x' = [x EXCEPT !.pc = @ + 1] /\ g' = [g EXCEPT ![a] = v]
  BY DEF StoreGlobal
<1>3. x' \in Exec /\ \A f \in {"func", "ls_top", "pushed", "locals_addr", "locals_words"} : x'[f] = x[f]
  BY <1>1, <1>2 DEF Exec
<1>4. g' \in [Addr -> Val]
  BY <1>2 DEF IInv, StackInv, StackType
<1>5. StackInv'
  BY <1>1, <1>3, <1>4, InCall, RegistersKeepStack
  DEF StoreGlobal, IInv, StackInv, StackType, FramesTileStack
<1> QED
  BY <1>1, <1>5, QuietStep DEF StoreGlobal

\* Pushed words lie between the saved locals, never on them.
LEMMA PushedApart ==
  ASSUME StackInv, NEW s \in PushedSlots, NEW i \in 1 .. Len(frames), NEW k \in DOMAIN saved[i]
  PROVE  frames[i].locals_at + k # s
<1>0. PICK n \in Nat : n = Len(frames)
  BY DEF StackInv, StackType
<1> DEFINE At(j) == frames[j].locals_at
<1>1. ASSUME NEW j \in 1 .. n
      PROVE  /\ frames[j] \in Frame /\ At(j) \in 0 .. LsWords /\ frames[j].pushed \in 0 .. LsWords
             /\ frames[j].locals_words \in Nat
  <2>1. frames[j] \in Frame
    BY <1>0 DEF StackInv, StackType
  <2> QED
    BY <2>1 DEF Frame
<1>2. x \in Exec /\ x.locals_words \in Nat /\ x.ls_top \in 0 .. LsWords /\ LsWords \in Nat
  <2>1. x \in Exec
    BY DEF StackInv, StackType
  <2> QED
    BY <2>1, LocalStackAssumption DEF Exec
<1>3. ASSUME NEW j \in 1 .. n
      PROVE  At(j) \in Nat /\ frames[j].pushed \in Nat /\ CalleeWords(j) \in Nat
  <2>1. CalleeWords(j) \in Nat
    <3>1. j # n => j + 1 \in 1 .. n
      OBVIOUS
    <3> QED
      BY <1>0, <1>1, <1>2, <3>1 DEF CalleeWords
  <2>2. At(j) \in 0 .. LsWords /\ frames[j].pushed \in 0 .. LsWords
    BY <1>1
  <2> HIDE DEF At
  <2> QED
    BY <2>1, <2>2, <1>2
<1>4. ASSUME NEW j \in 1 .. n, j # 1
      PROVE  j - 1 \in 1 .. n /\ At(j) = SavedEnd(j - 1) + frames[j].pushed
  <2>1. j - 1 \in 1 .. n /\ j - 1 # n /\ (j - 1) + 1 = j
    BY <1>4
  <2>2. At(j) = frames[j].pushed + (frames[j - 1].locals_at + frames[j].locals_words)
    BY <1>0, <1>4 DEF StackInv, FramesTileStack
  <2>3. CalleeWords(j - 1) = frames[j].locals_words
    BY <1>0, <2>1 DEF CalleeWords
  <2>4. frames[j - 1].locals_at \in Nat /\ frames[j].pushed \in Nat /\ CalleeWords(j - 1) \in Nat
    BY <2>1, <1>3
  <2> QED
    BY <2>1, <2>2, <2>3, <2>4 DEF SavedEnd
<1>5. ASSUME NEW j \in 1 .. n
      PROVE  SavedEnd(j) \in Nat /\ At(j) <= SavedEnd(j) /\ SavedEnd(j) <= x.ls_top
  <2>1. n \in 1 .. n /\ frames # <<>>
    BY <1>0
  <2>2. SavedEnd(n) = x.ls_top
    BY <1>0, <2>1, FrontFacts DEF StackInv, StackType, FramesTileStack, SavedEnd, CalleeWords
  <2>3. SavedEnd(j) <= SavedEnd(n)
    BY <1>0, <2>1 DEF StackInv, EndsOrdered
  <2>4. SavedEnd(j) = At(j) + CalleeWords(j) /\ At(j) \in Nat /\ CalleeWords(j) \in Nat
    BY <1>3 DEF SavedEnd
  <2> HIDE DEF At
  <2> QED
    BY <2>2, <2>3, <2>4
<1>6. \A j, m \in 1 .. n : j <= m => SavedEnd(j) <= SavedEnd(m)
  BY <1>0 DEF StackInv, EndsOrdered
<1>7. k \in Nat /\ At(i) \in Nat /\ At(i) + k < SavedEnd(i) /\ i \in 1 .. n
  <2>1. DOMAIN saved[i] = 0 .. CalleeWords(i) - 1
    BY DEF StackInv, SavedLocalsIntact
  <2>2. SavedEnd(i) = At(i) + CalleeWords(i) /\ At(i) \in Nat /\ CalleeWords(i) \in Nat
    BY <1>0, <1>3 DEF SavedEnd
  <2> HIDE DEF At
  <2> QED
    BY <2>1, <2>2, <1>0
<1>8. CASE s \in x.ls_top .. x.ls_top + x.pushed - 1
  <2>1. SavedEnd(i) \in Nat /\ SavedEnd(i) <= x.ls_top
    BY <1>5, <1>7
  <2> HIDE DEF At
  <2>2. At(i) + k < x.ls_top /\ x.ls_top <= s
    BY <2>1, <1>2, <1>7, <1>8
  <2>3. At(i) + k # s
    BY <2>2, <1>2, <1>7
  <2> QED
    BY <2>3 DEF At
<1>9. CASE \E j \in 1 .. Len(frames) : s \in frames[j].locals_at - frames[j].pushed .. frames[j].locals_at - 1
  <2>1. PICK j \in 1 .. n : s \in At(j) - frames[j].pushed .. At(j) - 1
    BY <1>0, <1>9
  <2>2. s \in Int /\ At(j) - frames[j].pushed <= s /\ s < At(j) /\ At(j) \in Nat /\ frames[j].pushed \in Nat
    <3>1. At(j) \in Nat /\ frames[j].pushed \in Nat
      BY <1>3
    <3> HIDE DEF At
    <3> QED
      BY <3>1, <2>1
  <2>3. j # 1
    <3>1. ASSUME j = 1
          PROVE  FALSE
      <4>1. frames[1] = IdleFrame
        BY <1>0, <3>1 DEF StackInv, ContextsOK
      <4> QED
        BY <4>1, <3>1, <2>2 DEF IdleFrame
    <3> QED
      BY <3>1
  <2>4. j - 1 \in 1 .. n /\ SavedEnd(j - 1) <= s /\ SavedEnd(j - 1) \in Nat
    <3>1. j - 1 \in 1 .. n /\ At(j) = SavedEnd(j - 1) + frames[j].pushed
      BY <1>4, <2>3
    <3>2. SavedEnd(j - 1) \in Nat
      BY <3>1, <1>5
    <3> HIDE DEF At
    <3> QED
      BY <3>1, <3>2, <2>2
  <2>5. CASE i < j
    <3>1. SavedEnd(i) <= SavedEnd(j - 1) /\ SavedEnd(i) \in Nat
      <4>1. i <= j - 1
        BY <1>7, <2>5
      <4> QED
        BY <4>1, <1>5, <1>6, <1>7, <2>4
    <3> HIDE DEF At
    <3>2. At(i) + k # s
      BY <3>1, <1>7, <2>2, <2>4
    <3> QED
      BY <3>2 DEF At
  <2>6. CASE i = j
    <3> HIDE DEF At
    <3>1. At(i) + k # s
      BY <2>6, <1>7, <2>2
    <3> QED
      BY <3>1 DEF At
  <2>7. CASE j < i
    <3>1. i # 1 /\ j <= i - 1
      BY <1>7, <2>7
    <3>2. i - 1 \in 1 .. n /\ At(i) = SavedEnd(i - 1) + frames[i].pushed
      BY <3>1, <1>4, <1>7
    <3>3. SavedEnd(j) <= SavedEnd(i - 1)
      BY <3>1, <3>2, <1>6
    <3>4. At(j) <= SavedEnd(j) /\ SavedEnd(j) \in Nat /\ SavedEnd(i - 1) \in Nat /\ frames[i].pushed \in Nat
      BY <3>2, <1>3, <1>5, <1>7
    <3> HIDE DEF At
    <3>5. At(j) <= At(i)
      BY <3>2, <3>3, <3>4, <2>2
    <3>6. At(i) + k # s
      BY <3>5, <1>7, <2>2
    <3> QED
      BY <3>6 DEF At
  <2> QED
    BY <1>7, <2>5, <2>6, <2>7
<1>10. \/ s \in x.ls_top .. x.ls_top + x.pushed - 1
       \/ \E j \in 1 .. Len(frames) : s \in frames[j].locals_at - frames[j].pushed .. frames[j].locals_at - 1
  BY DEF PushedSlots
<1> QED
  BY <1>8, <1>9, <1>10

LEMMA StorePushedStep ==
  ASSUME IInv, NEW s \in Slot, NEW v \in Val, StorePushed(s, v)
  PROVE  IInv'
<1>1. x.pc + 1 \in Pc /\ x \in Exec /\ bounds # <<>> /\ mode = "qc"
  BY NextStatement DEF StorePushed, Running
<1>2. x' = [x EXCEPT !.pc = @ + 1] /\ ls' = [ls EXCEPT ![s] = v] /\ s \in PushedSlots
  BY DEF StorePushed
<1>3. x' \in Exec /\ \A f \in {"func", "ls_top", "pushed", "locals_addr", "locals_words"} : x'[f] = x[f]
  BY <1>1, <1>2 DEF Exec
<1>4. ls' \in [Slot -> Val]
  BY <1>2 DEF IInv, StackInv, StackType
<1>5. ASSUME NEW i \in 1 .. Len(frames), NEW k \in DOMAIN saved[i]
      PROVE  ls'[frames[i].locals_at + k] = ls[frames[i].locals_at + k]
  <2>1. frames[i].locals_at + k # s
    BY <1>2, PushedApart DEF IInv
  <2>2. ls \in [Slot -> Val]
    BY DEF IInv, StackInv, StackType
  <2> QED
    BY <1>2, <2>1, <2>2
<1>6. StackInv'
  BY <1>1, <1>3, <1>4, <1>5, InCall, RegistersKeepStack
  DEF StorePushed, IInv, StackInv, StackType, FramesTileStack
<1> QED
  BY <1>1, <1>6, QuietStep DEF StorePushed

LEMMA SuspendStep ==
  ASSUME IInv, NEW next \in {"qc", "unwind"}, Suspend(next)
  PROVE  IInv'
<1>1. /\ mode = "host" /\ bounds # <<>> /\ mode' = next /\ sleeping' = Append(sleeping, Snapshot)
      /\ UNCHANGED <<frames, x, g, ls, bounds, waking, saved>>
  BY DEF Suspend, InBuiltin
<1>2. Snapshot \in Captured /\ ThreadOK(Snapshot)
  BY <1>1, InCall, SnapshotOK DEF IInv
<1>3. StackInv'
  BY <1>1, StackKept DEF IInv
<1>4. BoundsOK'
  BY <1>1, InCall, BoundsKept DEF IInv
<1>5. EngineType'
  BY <1>1, <1>2, AppendProperties DEF IInv, EngineType, Mode
<1>6. SleepingOK'
  <2>1. sleeping \in Seq(Captured)
    BY DEF IInv, EngineType
  <2>2. PICK t \in Captured : t = Snapshot
    BY <1>2
  <2>3. /\ Len(sleeping') = Len(sleeping) + 1 /\ sleeping'[Len(sleeping) + 1] = t
        /\ \A i \in 1 .. Len(sleeping) : sleeping'[i] = sleeping[i]
    BY <1>1, <2>1, <2>2, AppendProperties
  <2>4. ThreadOK(t)
    BY <1>2, <2>2
  <2>5. \A i \in 1 .. Len(sleeping') : ThreadOK(sleeping'[i])
    BY <2>1, <2>3, <2>4 DEF IInv, SleepingOK
  <2> QED
    BY <2>5 DEF SleepingOK
<1>7. ResumeOK'
  BY <1>1 DEF IInv, ResumeOK
<1> QED
  BY <1>3, <1>4, <1>5, <1>6, <1>7 DEF IInv

-----------------------------------------------------------------------------
(* Steps that pop frames or boundaries.                                    *)

\* The boundaries without the innermost one.
LEMMA BoundsFront ==
  ASSUME bounds \in Seq(Boundary), bounds # <<>>, bounds' = Front(bounds)
  PROVE  /\ bounds' \in Seq(Boundary) /\ Len(bounds') = Len(bounds) - 1
         /\ Len(bounds) \in Nat \ {0}
         /\ \A i \in 1 .. Len(bounds) - 1 : bounds'[i] = bounds[i] /\ i \in 1 .. Len(bounds)
         /\ bounds' # <<>> => Depth' = bounds[Len(bounds) - 1].depth
         /\ bounds' # <<>> => Len(bounds) - 1 \in 1 .. Len(bounds) - 1
<1>1. /\ bounds' \in Seq(Boundary) /\ Len(bounds') = Len(bounds) - 1 /\ Len(bounds) \in Nat \ {0}
      /\ \A i \in 1 .. Len(bounds) - 1 : bounds'[i] = bounds[i]
  BY FrontFacts
<1>2. bounds' # <<>> => Len(bounds) - 1 \in 1 .. Len(bounds) - 1
  BY <1>1
<1>3. bounds' # <<>> => Last(bounds') = bounds[Len(bounds) - 1]
  BY <1>1, <1>2, FrontFacts
<1> QED
  BY <1>1, <1>2, <1>3 DEF Depth

LEMMA LeaveBounds ==
  ASSUME IInv, bounds # <<>>, Depth < Len(frames), Leave
  PROVE  /\ StackInv' /\ frames' \in Seq(Frame) /\ Len(frames') = Len(frames) - 1
         /\ Len(frames) \in Nat \ {0}
         /\ \A b \in Boundary : (\E i \in 1 .. Len(bounds) : b = bounds[i]) => HostKept(b)'
<1>1. frames # <<>> /\ frames \in Seq(Frame) /\ x \in Exec /\ Len(frames) \in Nat \ {0}
  <2>1. frames \in Seq(Frame) /\ x \in Exec
    BY DEF IInv, StackInv, StackType
  <2>2. Depth \in Nat
    BY DepthFacts DEF IInv
  <2> QED
    BY <2>1, <2>2
<1>2. /\ StackInv' /\ Len(frames') = Len(frames) - 1
      /\ \A i \in 1 .. Len(frames) - 1 : frames'[i] = frames[i]
      /\ x' = [func |-> Last(frames).func, pc |-> Last(frames).resume_pc,
               pushed |-> Last(frames).pushed, sw |-> SwitchBack(Last(frames)),
               ls_top |-> Last(frames).locals_at - Last(frames).pushed,
               locals_addr |-> Last(frames).locals_addr,
               locals_words |-> Last(frames).locals_words]
  BY <1>1, LeaveStack DEF IInv
<1>3. ASSUME NEW b \in Boundary, NEW i \in 1 .. Len(bounds), b = bounds[i]
      PROVE  HostKept(b)'
  <2>1. b.depth \in Nat /\ b.depth <= Depth /\ Depth \in Nat
    BY <1>3, DepthFacts DEF IInv
  <2>2. HostKept(b)
    BY <1>3 DEF IInv, BoundsOK
  <2>3. b.depth < Len(frames) /\ b.host \in Exec
    BY <1>1, <2>1 DEF Boundary
  <2> QED
    BY <1>1, <1>2, <2>2, <2>3, LeaveKeepsHosts
<1> QED
  BY <1>1, <1>2, <1>3 DEF StackInv, StackType

LEMMA UnwoundStep ==
  ASSUME IInv, Unwound
  PROVE  /\ IInv'
         /\ Len(frames) = Depth /\ SameContext(x, Last(bounds).host)
<1>1. /\ mode = "unwind" /\ Len(frames) <= Depth /\ bounds' = Front(bounds) /\ mode' = "host"
      /\ UNCHANGED <<frames, x, g, ls, sleeping, waking, saved>>
  BY DEF Unwound, AtBoundary
<1>2. bounds # <<>> /\ bounds \in Seq(Boundary) /\ frames \in Seq(Frame)
  BY <1>1, QcInCall DEF IInv, EngineType, StackInv, StackType
<1>3. /\ Depth \in Nat /\ Len(bounds) \in 1 .. Len(bounds) /\ Len(bounds) \in Nat
      /\ Last(bounds) = bounds[Len(bounds)] /\ Depth = Last(bounds).depth
      /\ \A i \in 1 .. Len(bounds) - 1 : bounds[i].depth < Depth /\ bounds[i].depth \in Nat
  <2>1. /\ Depth \in Nat /\ Len(bounds) \in Nat \ {0} /\ Last(bounds) = bounds[Len(bounds)]
        /\ Depth = bounds[Len(bounds)].depth
        /\ \A i \in 1 .. Len(bounds) : bounds[i].depth \in Nat
        /\ \A i \in 1 .. Len(bounds) - 1 : bounds[i].depth < Depth
    BY <1>2, DepthFacts DEF IInv
  <2>2. \A i \in 1 .. Len(bounds) - 1 : i \in 1 .. Len(bounds)
    BY <2>1
  <2> QED
    BY <2>1, <2>2
<1>4. HostKept(Last(bounds))
  BY <1>3 DEF IInv, BoundsOK
<1>5. Len(frames) = Depth
  BY <1>1, <1>2, <1>3, <1>4 DEF HostKept
<1>6. SameContext(x, Last(bounds).host)
  BY <1>3, <1>4, <1>5 DEF HostKept
<1>7. StackInv'
  BY <1>1, StackKept DEF IInv
<1>8. BoundsOK'
  <2>1. /\ bounds' \in Seq(Boundary) /\ Len(bounds') = Len(bounds) - 1
        /\ \A i \in 1 .. Len(bounds) - 1 : bounds'[i] = bounds[i] /\ i \in 1 .. Len(bounds)
        /\ bounds' # <<>> => Depth' = bounds[Len(bounds) - 1].depth
        /\ bounds' # <<>> => Len(bounds) - 1 \in 1 .. Len(bounds) - 1
    BY <1>1, <1>2, BoundsFront
  <2>2. ASSUME NEW i \in 1 .. Len(bounds')
        PROVE  HostKept(bounds[i]) /\ bounds'[i] = bounds[i]
    BY <2>1 DEF IInv, BoundsOK
  <2>3. ASSUME NEW i \in 1 .. Len(bounds')
        PROVE  HostKept(bounds[i])'
    BY <1>1, <2>2 DEF HostKept, LeadsTo, SameContext
  <2>4. \A i, j \in 1 .. Len(bounds') : i < j => bounds'[i].depth < bounds'[j].depth
    BY <2>1 DEF IInv, BoundsOK
  <2>5. bounds' # <<>> => bounds'[1].depth = 0
    <3>1. bounds' # <<>> => 1 \in 1 .. Len(bounds) - 1
      BY <1>3, <2>1
    <3> QED
      BY <1>2, <2>1, <3>1 DEF IInv, BoundsOK
  <2>6. bounds' = <<>> => frames' = <<>>
    <3>1. ASSUME bounds' = <<>>
          PROVE  Len(bounds) = 1
      BY <3>1, <1>3, <2>1
    <3>2. ASSUME bounds' = <<>>
          PROVE  Len(frames) = 0
      BY <3>1, <3>2, <1>2, <1>3, <1>5 DEF IInv, BoundsOK
    <3> QED
      BY <1>1, <1>2, <3>2, EmptySeq
  <2>7. bounds' # <<>> => Depth' < Len(frames')
    BY <1>1, <1>3, <1>5, <2>1
  <2> QED
    BY <1>1, <2>3, <2>4, <2>5, <2>6, <2>7 DEF BoundsOK
<1>9. EngineType' /\ SleepingOK'
  <2>1. bounds' \in Seq(Boundary)
    BY <1>1, <1>2, BoundsFront
  <2> QED
    BY <1>1, <2>1 DEF IInv, EngineType, SleepingOK, Mode
<1>10. ResumeOK'
  BY <1>1 DEF IInv, ResumeOK
<1> QED
  BY <1>5, <1>6, <1>7, <1>8, <1>9, <1>10 DEF IInv

LEMMA UnwindingStep ==
  ASSUME IInv, Unwinding
  PROVE  IInv'
<1>1. /\ mode = "unwind" /\ ~(Len(frames) <= Depth) /\ Leave
      /\ UNCHANGED <<bounds, mode, sleeping, waking>>
  BY DEF Unwinding, AtBoundary
<1>2. bounds # <<>> /\ frames \in Seq(Frame)
  BY <1>1, QcInCall DEF IInv, StackInv, StackType
<1>3. Depth \in Nat /\ Depth < Len(frames)
  BY <1>1, <1>2, DepthFacts DEF IInv
<1>4. /\ StackInv'
      /\ \A b \in Boundary : (\E i \in 1 .. Len(bounds) : b = bounds[i]) => HostKept(b)'
  BY <1>1, <1>2, <1>3, LeaveBounds
<1>5. ASSUME NEW i \in 1 .. Len(bounds)
      PROVE  HostKept(bounds[i])'
  <2>1. PICK b \in Boundary : b = bounds[i]
    BY <1>2, DepthFacts DEF IInv
  <2>2. HostKept(b)'
    BY <1>4, <2>1
  <2> QED
    BY <1>1, <2>1, <2>2 DEF HostKept
<1>6. BoundsOK'
  BY <1>1, <1>2, <1>5 DEF IInv, BoundsOK
<1>7. EngineType' /\ SleepingOK' /\ ResumeOK'
  BY <1>1 DEF IInv, EngineType, SleepingOK, ResumeOK
<1> QED
  BY <1>4, <1>6, <1>7 DEF IInv

LEMMA ReturnStep ==
  ASSUME IInv, Return
  PROVE  /\ IInv'
         /\ Len(bounds') < Len(bounds) => SameContext(x', Last(bounds).host)
<1>1. mode = "qc" /\ Leave /\ UNCHANGED <<sleeping, waking>>
  BY DEF Return
<1>2. /\ bounds # <<>> /\ bounds \in Seq(Boundary) /\ frames \in Seq(Frame)
      /\ Depth \in Nat /\ Depth < Len(frames) /\ Len(frames) \in Nat \ {0}
  BY <1>1, QcInCall, InCall DEF IInv, EngineType
<1>3. /\ StackInv' /\ frames' \in Seq(Frame) /\ Len(frames') = Len(frames) - 1
      /\ \A b \in Boundary : (\E i \in 1 .. Len(bounds) : b = bounds[i]) => HostKept(b)'
  BY <1>1, <1>2, LeaveBounds
<1>4. CASE ~AtBoundary(Len(frames) - 1)
  <2>1. bounds' = bounds /\ mode' = mode /\ Depth < Len(frames')
    BY <1>2, <1>3, <1>4 DEF Return, AtBoundary
  <2>2. ASSUME NEW i \in 1 .. Len(bounds)
        PROVE  HostKept(bounds[i])'
    <3>1. PICK b \in Boundary : b = bounds[i]
      BY <1>2, DepthFacts DEF IInv
    <3>2. HostKept(b)'
      BY <1>3, <3>1
    <3> QED
      BY <2>1, <3>1, <3>2 DEF HostKept
  <2>3. Depth' < Len(frames')
    BY <2>1 DEF Depth
  <2>4. BoundsOK'
    BY <1>1, <1>2, <2>1, <2>2, <2>3 DEF IInv, BoundsOK
  <2>5. EngineType' /\ SleepingOK' /\ ResumeOK'
    BY <1>1, <2>1 DEF IInv, EngineType, SleepingOK, ResumeOK
  <2>6. ~(Len(bounds') < Len(bounds))
    BY <1>2, <2>1
  <2> QED
    BY <1>3, <2>4, <2>5, <2>6 DEF IInv
<1>5. CASE AtBoundary(Len(frames) - 1)
  <2>1. bounds' = Front(bounds) /\ mode' = "host" /\ Len(frames') = Depth
    <3>1. Len(frames) - 1 <= Depth
      BY <1>5 DEF AtBoundary
    <3> QED
      BY <1>2, <1>3, <1>5, <3>1 DEF Return
  <2>2. /\ Len(bounds) \in Nat \ {0} /\ Last(bounds) = bounds[Len(bounds)]
        /\ Last(bounds) \in Boundary /\ Last(bounds).depth = Depth
        /\ \A i \in 1 .. Len(bounds) : bounds[i] \in Boundary /\ bounds[i].depth \in Nat
        /\ \A i \in 1 .. Len(bounds) - 1 : bounds[i].depth < Depth
    BY <1>2, DepthFacts DEF IInv
  <2>3. /\ bounds' \in Seq(Boundary) /\ Len(bounds') = Len(bounds) - 1
        /\ \A i \in 1 .. Len(bounds) - 1 : bounds'[i] = bounds[i] /\ i \in 1 .. Len(bounds)
        /\ bounds' # <<>> => Depth' = bounds[Len(bounds) - 1].depth
        /\ bounds' # <<>> => Len(bounds) - 1 \in 1 .. Len(bounds) - 1
    BY <1>2, <2>1, BoundsFront
  <2>4. ASSUME NEW i \in 1 .. Len(bounds')
        PROVE  HostKept(bounds[i])'
    <3>1. PICK b \in Boundary : b = bounds[i] /\ b = bounds'[i] /\ i \in 1 .. Len(bounds)
      BY <2>2, <2>3
    <3>2. HostKept(b)'
      BY <1>3, <3>1
    <3> QED
      BY <3>1, <3>2 DEF HostKept
  <2>5. \A i, j \in 1 .. Len(bounds') : i < j => bounds'[i].depth < bounds'[j].depth
    BY <2>3 DEF IInv, BoundsOK
  <2>6. bounds' # <<>> => bounds'[1].depth = 0
    <3>1. bounds' # <<>> => 1 \in 1 .. Len(bounds) - 1
      BY <2>2, <2>3
    <3> QED
      BY <1>2, <2>3, <3>1 DEF IInv, BoundsOK
  <2>7. bounds' = <<>> => frames' = <<>>
    <3>1. ASSUME bounds' = <<>>
          PROVE  Len(bounds) = 1
      BY <3>1, <2>2, <2>3
    <3>2. ASSUME bounds' = <<>>
          PROVE  Len(frames') = 0
      BY <3>1, <3>2, <1>2, <2>1, <2>2 DEF IInv, BoundsOK
    <3> QED
      BY <1>3, <3>2, EmptySeq
  <2>8. bounds' # <<>> => Depth' < Len(frames')
    BY <2>1, <2>2, <2>3
  <2>9. BoundsOK'
    BY <2>1, <2>4, <2>5, <2>6, <2>7, <2>8 DEF BoundsOK
  <2>10. EngineType' /\ SleepingOK' /\ ResumeOK'
    BY <1>1, <2>1, <2>3 DEF IInv, EngineType, SleepingOK, ResumeOK, Mode
  <2>11. SameContext(x', Last(bounds).host)
    <3>1. PICK b \in Boundary : b = Last(bounds)
      BY <2>2
    <3>2. HostKept(b)' /\ b.depth = Len(frames')
      BY <1>3, <2>1, <2>2, <3>1
    <3>3. SameContext(x', b.host)
      BY <3>2 DEF HostKept, SameContext
    <3> QED
      BY <3>1, <3>3
  <2> QED
    BY <1>3, <2>9, <2>10, <2>11 DEF IInv
<1> QED
  BY <1>4, <1>5

-----------------------------------------------------------------------------
(* Steps that push frames.                                                 *)

\* The boundaries below a pushed frame keep their hosts.
LEMMA EnterBounds ==
  ASSUME IInv, NEW f \in Func, NEW pc \in Pc, NEW pushed \in 0 .. LsWords, NEW sw \in {0, 1},
         CanEnter(f), Fits(f, pushed), FromIdle(pc), Enter(f, pc, pushed, sw),
         (\E i \in 1 .. Len(bounds) : bounds[i].depth = Len(frames)) => pc = x.pc
  PROVE  /\ StackInv' /\ frames \in Seq(Frame) /\ frames' # <<>> /\ Len(frames') = Len(frames) + 1
         /\ \A i \in 1 .. Len(frames) : frames'[i] = frames[i]
         /\ frames'[Len(frames) + 1] =
              [func |-> x.func, resume_pc |-> pc, pushed |-> x.pushed, sw |-> x.sw,
               locals_at |-> EnterAt, locals_addr |-> x.locals_addr,
               locals_words |-> x.locals_words]
         /\ \A b \in Boundary : (\E i \in 1 .. Len(bounds) : b = bounds[i]) => HostKept(b)'
<1>1. /\ StackInv' /\ frames' # <<>> /\ Len(frames') = Len(frames) + 1
      /\ \A i \in 1 .. Len(frames) : frames'[i] = frames[i]
      /\ frames'[Len(frames) + 1] =
           [func |-> x.func, resume_pc |-> pc, pushed |-> x.pushed, sw |-> x.sw,
            locals_at |-> EnterAt, locals_addr |-> x.locals_addr,
            locals_words |-> x.locals_words]
  BY EnterStack DEF IInv
<1>2. frames \in Seq(Frame)
  BY DEF IInv, StackInv, StackType
<1>3. ASSUME NEW b \in Boundary, NEW i \in 1 .. Len(bounds), b = bounds[i]
      PROVE  HostKept(b)'
  <2>1. HostKept(b)
    BY <1>3 DEF IInv, BoundsOK
  <2>2. b.depth = Len(frames) => pc = x.pc
    BY <1>3
  <2> QED
    BY <1>1, <1>2, <2>1, <2>2, EnterKeepsHosts
<1> QED
  BY <1>1, <1>2, <1>3

LEMMA CanEnterFits ==
  ASSUME StackInv, NEW f \in Func, CanEnter(f)
  PROVE  Fits(f, 0) /\ 0 \in 0 .. LsWords /\ 0 \in {0, 1}
<1>1. Words[f] \in Nat /\ LsWords \in Nat /\ EnterAt + Words[f] <= LsWords
  BY LocalStackAssumption DEF CanEnter
<1>2. x \in Exec
  BY DEF StackInv, StackType
<1>3. x.ls_top \in 0 .. LsWords /\ x.pushed \in 0 .. LsWords
  BY <1>2 DEF Exec
<1>4. EnterAt \in Nat
  BY <1>1, <1>3 DEF EnterAt
<1> QED
  BY <1>1, <1>4 DEF Fits

LEMMA CallStep ==
  ASSUME IInv, NEW f \in Func, Call(f)
  PROVE  IInv'
<1>1. x.pc + 1 \in Pc /\ 0 \in Pc /\ x \in Exec /\ bounds # <<>> /\ mode = "qc"
  BY NextStatement DEF Call, Running
<1>2. CASE Fault
  BY <1>1, <1>2, FaultStep
<1>3. CASE CanEnter(f) /\ Enter(f, x.pc + 1, 0, 0) /\ UNCHANGED <<bounds, mode, sleeping, waking>>
  <2>1. frames # <<>> /\ frames \in Seq(Frame) /\ Depth < Len(frames) /\ Depth \in Nat
    BY <1>1, InCall
  <2>2. FromIdle(x.pc + 1)
    BY <2>1 DEF FromIdle
  <2>3. Fits(f, 0) /\ 0 \in 0 .. LsWords /\ 0 \in {0, 1}
    BY <1>3, CanEnterFits DEF IInv
  <2>4. ~(\E i \in 1 .. Len(bounds) : bounds[i].depth = Len(frames))
    BY <1>1, <2>1, DepthFacts DEF IInv
  <2>5. /\ StackInv' /\ Len(frames') = Len(frames) + 1
        /\ \A b \in Boundary : (\E i \in 1 .. Len(bounds) : b = bounds[i]) => HostKept(b)'
    BY <1>1, <1>3, <2>2, <2>3, <2>4, EnterBounds
  <2>6. ASSUME NEW i \in 1 .. Len(bounds)
        PROVE  HostKept(bounds[i])'
    <3>1. PICK b \in Boundary : b = bounds[i]
      BY <1>1, DepthFacts DEF IInv
    <3>2. HostKept(b)'
      BY <2>5, <3>1
    <3> QED
      BY <1>3, <3>1, <3>2 DEF HostKept
  <2>7. Depth' < Len(frames')
    BY <1>3, <2>1, <2>5 DEF Depth
  <2>8. BoundsOK'
    BY <1>1, <1>3, <2>6, <2>7 DEF IInv, BoundsOK
  <2>9. EngineType' /\ SleepingOK' /\ ResumeOK'
    BY <1>1, <1>3 DEF IInv, EngineType, SleepingOK, ResumeOK
  <2> QED
    BY <2>5, <2>8, <2>9 DEF IInv
<1> QED
  BY <1>2, <1>3 DEF Call

LEMMA HostCallStep ==
  ASSUME IInv, NEW f \in Func, HostCall(f)
  PROVE  IInv'
<1> DEFINE new == [depth |-> Len(frames), host |-> x]
<1>1. /\ mode = "host" /\ CanEnter(f) /\ Enter(f, x.pc, 0, 0) /\ bounds' = Append(bounds, new)
      /\ mode' = "qc" /\ UNCHANGED <<sleeping, waking>>
  BY DEF HostCall
<1>2. /\ x \in Exec /\ frames \in Seq(Frame) /\ bounds \in Seq(Boundary) /\ Len(frames) \in Nat
      /\ Len(bounds) \in Nat
  BY DEF IInv, StackInv, StackType, EngineType
<1>3. x.pc \in Pc
  BY <1>2 DEF Exec
<1>4. FromIdle(x.pc)
  BY DEF FromIdle, IInv, StackInv, ContextsOK, IdleExec
<1>5. PICK new1 \in Boundary : new1 = new
  BY <1>2 DEF Boundary
<1>6. Fits(f, 0) /\ 0 \in 0 .. LsWords /\ 0 \in {0, 1}
  BY <1>1, CanEnterFits DEF IInv
<1>7. /\ StackInv' /\ Len(frames') = Len(frames) + 1
      /\ frames'[Len(frames) + 1] =
           [func |-> x.func, resume_pc |-> x.pc, pushed |-> x.pushed, sw |-> x.sw,
            locals_at |-> EnterAt, locals_addr |-> x.locals_addr,
            locals_words |-> x.locals_words]
      /\ \A b \in Boundary : (\E i \in 1 .. Len(bounds) : b = bounds[i]) => HostKept(b)'
  BY <1>1, <1>3, <1>4, <1>6, EnterBounds
<1>8. /\ bounds' \in Seq(Boundary) /\ Len(bounds') = Len(bounds) + 1
      /\ bounds'[Len(bounds) + 1] = new1
      /\ \A i \in 1 .. Len(bounds) : bounds'[i] = bounds[i]
  BY <1>1, <1>2, <1>5, AppendProperties
<1>9. ASSUME NEW i \in 1 .. Len(bounds')
      PROVE  HostKept(bounds[i])'
  <2>1. CASE i \in 1 .. Len(bounds)
    <3>1. PICK b \in Boundary : b = bounds[i] /\ b = bounds'[i]
      BY <2>1, <1>2, <1>8
    <3>2. HostKept(b)'
      BY <1>7, <2>1, <3>1
    <3> QED
      BY <3>1, <3>2 DEF HostKept
  <2>2. CASE i = Len(bounds) + 1
    <3>1. LeadsTo(frames'[Len(frames) + 1], x)
      BY <1>7 DEF LeadsTo, EnterAt
    <3>2. new1.depth = Len(frames) /\ new1.host = x
      BY <1>5
    <3>3. HostKept(new1)'
      BY <1>2, <1>7, <3>1, <3>2 DEF HostKept, LeadsTo
    <3> QED
      BY <2>2, <1>8, <3>3 DEF HostKept
  <2> QED
    BY <1>2, <1>8, <2>1, <2>2
<1>10. \A i \in 1 .. Len(bounds) : bounds[i].depth < Len(frames) /\ bounds[i].depth \in Nat
  <2>1. CASE bounds = <<>>
    BY <2>1
  <2>2. CASE bounds # <<>>
    BY <1>1, <1>2, <2>2, InCall, DepthFacts DEF IInv
  <2> QED
    BY <2>1, <2>2
<1>11. \A i, j \in 1 .. Len(bounds') : i < j => bounds'[i].depth < bounds'[j].depth
  <2> SUFFICES ASSUME NEW i \in 1 .. Len(bounds'), NEW j \in 1 .. Len(bounds'), i < j
               PROVE  bounds'[i].depth < bounds'[j].depth
    OBVIOUS
  <2>1. i \in 1 .. Len(bounds)
    BY <1>2, <1>8
  <2>2. CASE j \in 1 .. Len(bounds)
    BY <1>8, <2>1, <2>2 DEF IInv, BoundsOK
  <2>3. CASE j = Len(bounds) + 1
    <3>1. bounds'[j].depth = Len(frames)
      BY <1>5, <1>8, <2>3
    <3> QED
      BY <1>8, <1>10, <2>1, <3>1
  <2> QED
    BY <1>2, <1>8, <2>2, <2>3
<1>12. bounds' # <<>> /\ bounds'[1].depth = 0
  <2>1. CASE bounds = <<>>
    <3>1. frames = <<>> /\ Len(bounds) = 0
      BY <2>1 DEF IInv, BoundsOK
    <3>2. new1.depth = 0
      BY <1>5, <3>1
    <3> QED
      BY <1>8, <3>1, <3>2
  <2>2. CASE bounds # <<>>
    <3>1. 1 \in 1 .. Len(bounds)
      BY <1>2, <2>2
    <3> QED
      BY <1>8, <2>2, <3>1 DEF IInv, BoundsOK
  <2> QED
    BY <2>1, <2>2
<1>13. Depth' < Len(frames')
  <2>1. Last(bounds') = new1
    BY <1>2, <1>8 DEF Last
  <2>2. new1.depth = Len(frames)
    BY <1>5
  <2> QED
    BY <1>2, <1>7, <2>1, <2>2 DEF Depth
<1>14. BoundsOK'
  BY <1>1, <1>9, <1>11, <1>12, <1>13 DEF BoundsOK
<1>15. EngineType' /\ SleepingOK' /\ ResumeOK'
  BY <1>1, <1>8 DEF IInv, EngineType, SleepingOK, ResumeOK, Mode
<1> QED
  BY <1>7, <1>14, <1>15 DEF IInv

-----------------------------------------------------------------------------
(* Waking a thread and rebuilding its frames.                              *)

LEMMA RemoveAtFacts ==
  ASSUME NEW S, NEW s \in Seq(S), NEW i \in 1 .. Len(s)
  PROVE  /\ RemoveAt(s, i) \in Seq(S)
         /\ \A j \in 1 .. Len(RemoveAt(s, i)) : \E k \in 1 .. Len(s) : RemoveAt(s, i)[j] = s[k]
<1>0. PICK n \in Nat : n = Len(s)
  OBVIOUS
<1>1. \A j \in 1 .. n : s[j] \in S
  BY <1>0
<1> DEFINE a == SubSeq(s, 1, i - 1)
           b == SubSeq(s, i + 1, n)
<1>2. /\ a \in Seq(S) /\ Len(a) = i - 1 /\ \A j \in 1 .. i - 1 : a[j] = s[j]
  <2>1. /\ 1 \in Int /\ i - 1 \in Int /\ \A j \in 1 .. i - 1 : s[j] \in S
    BY <1>0, <1>1
  <2>2. /\ a \in Seq(S) /\ Len(a) = (IF 1 <= i - 1 THEN (i - 1) - 1 + 1 ELSE 0)
        /\ \A j \in 1 .. (i - 1) - 1 + 1 : a[j] = s[1 + j - 1]
    BY <2>1, SubSeqProperties
  <2>3. \A j \in 1 .. i - 1 : j \in 1 .. (i - 1) - 1 + 1 /\ 1 + j - 1 = j
    BY <1>0
  <2> QED
    BY <1>0, <2>2, <2>3
<1>3. /\ b \in Seq(S) /\ Len(b) = n - i /\ \A j \in 1 .. n - i : b[j] = s[i + j]
  <2>1. /\ i + 1 \in Int /\ n \in Int /\ \A j \in i + 1 .. n : s[j] \in S
    BY <1>0, <1>1
  <2>2. /\ b \in Seq(S) /\ Len(b) = (IF i + 1 <= n THEN n - (i + 1) + 1 ELSE 0)
        /\ \A j \in 1 .. n - (i + 1) + 1 : b[j] = s[i + 1 + j - 1]
    BY <2>1, SubSeqProperties
  <2>3. \A j \in 1 .. n - i : j \in 1 .. n - (i + 1) + 1 /\ i + 1 + j - 1 = i + j
    BY <1>0
  <2> QED
    BY <1>0, <2>2, <2>3
<1>4. RemoveAt(s, i) = a \o b
  BY <1>0 DEF RemoveAt
<1> HIDE DEF a, b
<1>5. /\ a \o b \in Seq(S) /\ Len(a \o b) = n - 1
      /\ \A j \in 1 .. n - 1 : (a \o b)[j] = IF j <= i - 1 THEN a[j] ELSE b[j - (i - 1)]
  <2>1. /\ a \o b \in Seq(S) /\ Len(a \o b) = Len(a) + Len(b)
        /\ \A j \in 1 .. Len(a) + Len(b) :
             (a \o b)[j] = IF j <= Len(a) THEN a[j] ELSE b[j - Len(a)]
    BY <1>2, <1>3, ConcatProperties
  <2>2. Len(a) = i - 1 /\ Len(a) + Len(b) = n - 1
    BY <1>0, <1>2, <1>3
  <2> QED
    BY <2>1, <2>2
<1>6. ASSUME NEW j \in 1 .. n - 1
      PROVE  \E k \in 1 .. n : (a \o b)[j] = s[k]
  <2>1. CASE j <= i - 1
    <3>1. j \in 1 .. i - 1 /\ j \in 1 .. n
      BY <1>0, <2>1
    <3> QED
      BY <2>1, <3>1, <1>2, <1>5
  <2>2. CASE ~(j <= i - 1)
    <3>1. j - (i - 1) \in 1 .. n - i /\ j + 1 \in 1 .. n /\ i + (j - (i - 1)) = j + 1
      BY <1>0, <2>2
    <3>2. (a \o b)[j] = s[j + 1]
      BY <2>2, <3>1, <1>3, <1>5
    <3> QED
      BY <3>1, <3>2
  <2> QED
    BY <2>1, <2>2
<1> QED
  BY <1>0, <1>4, <1>5, <1>6

LEMMA WakeStep ==
  ASSUME IInv, NEW i \in 1 .. Len(sleeping), Wake(i)
  PROVE  IInv'
<1> DEFINE new == [depth |-> Len(frames), host |-> x]
           w == [thread |-> sleeping[i], next |-> 1, resume_pc |-> x.pc]
<1>1. /\ mode = "host" /\ bounds = <<>> /\ waking' = <<w>> /\ sleeping' = RemoveAt(sleeping, i)
      /\ bounds' = Append(bounds, new) /\ mode' = "resume" /\ UNCHANGED <<frames, x, g, ls, saved>>
  BY DEF Wake, MayRunThreads
<1>2. frames = <<>> /\ x = IdleExec
  BY <1>1 DEF IInv, BoundsOK, StackInv, ContextsOK
<1>3. x \in Exec /\ x.pc = 0 /\ x.pc \in Pc
  BY <1>2 DEF IInv, StackInv, StackType, IdleExec, Exec
<1>4. PICK t \in Captured : t = sleeping[i] /\ ThreadOK(t)
  BY DEF IInv, EngineType, SleepingOK
<1>5. PICK b \in Boundary : b = new
  BY <1>2, <1>3 DEF Boundary
<1>6. bounds' \in Seq(Boundary) /\ Len(bounds') = 1 /\ bounds'[1] = b /\ bounds' # <<>>
  <2>1. bounds' = <<b>>
    BY <1>1, <1>5
  <2> QED
    BY <2>1
<1>7. b.depth = 0 /\ b.host = x
  BY <1>2, <1>5
<1>8. BoundsOK'
  <2>1. HostKept(b)'
    BY <1>1, <1>2, <1>7 DEF HostKept, SameContext
  <2>2. \A j \in 1 .. Len(bounds') : j = 1
    BY <1>6
  <2>3. \A j \in 1 .. Len(bounds') : HostKept(bounds[j])'
    BY <1>6, <2>1, <2>2 DEF HostKept
  <2> QED
    BY <1>1, <1>6, <1>7, <2>2, <2>3 DEF BoundsOK
<1>9. waking' \in Seq(Waking) /\ Len(waking') = 1 /\ waking'[1] = w /\ waking' # <<>>
  <2>1. w \in Waking
    BY <1>3, <1>4 DEF Waking
  <2> HIDE DEF w
  <2> QED
    BY <1>1, <2>1
<1>10. sleeping' \in Seq(Captured) /\ SleepingOK'
  <2>1. sleeping \in Seq(Captured)
    BY DEF IInv, EngineType
  <2>2. /\ sleeping' \in Seq(Captured)
        /\ \A j \in 1 .. Len(sleeping') : \E k \in 1 .. Len(sleeping) : sleeping'[j] = sleeping[k]
    BY <1>1, <2>1, RemoveAtFacts
  <2>3. \A j \in 1 .. Len(sleeping') : ThreadOK(sleeping'[j])
    BY <2>2 DEF IInv, SleepingOK
  <2> QED
    BY <2>2, <2>3 DEF SleepingOK
<1>11. EngineType'
  BY <1>1, <1>6, <1>9, <1>10 DEF EngineType, Mode
<1>12. ResumeOK'
  <2>1. Waker' = w
    BY <1>9 DEF Waker
  <2>2. Len(t.chain) \in Nat
    BY DEF Captured
  <2>3. Len(frames') = 0
    BY <1>1, <1>2
  <2> QED
    BY <1>1, <1>3, <1>4, <1>9, <2>1, <2>2, <2>3 DEF ResumeOK
<1>13. StackInv'
  BY <1>1, StackKept DEF IInv
<1> QED
  BY <1>8, <1>10, <1>11, <1>12, <1>13 DEF IInv

LEMMA ResumingFacts ==
  ASSUME IInv, mode = "resume"
  PROVE  /\ Waker \in Waking
         /\ bounds # <<>> /\ Len(bounds) = 1 /\ bounds[1].depth = 0 /\ Depth = 0
         /\ bounds[1] \in Boundary
         /\ Len(frames) \in Nat /\ Waker.next = Len(frames) + 1
         /\ Len(WakeChain) \in Nat \ {0} /\ Len(WakeChain) <= CallDepth /\ CallDepth \in Nat
         /\ Len(frames) <= Len(WakeChain)
         /\ ThreadOK(Waker.thread) /\ WakeChain = Waker.thread.chain
         /\ WakeChain \in Seq(Activation) /\ Waker.thread \in Captured
         /\ Waker.resume_pc \in Pc
<1>1. waking \in Seq(Waking) /\ waking # <<>> /\ Len(waking) <= 1
  BY DEF IInv, EngineType, ResumeOK
<1>2. Waker \in Waking
  <2>1. 1 \in 1 .. Len(waking)
    BY <1>1
  <2> QED
    BY <1>1, <2>1 DEF Waker
<1>3. Waker.thread \in Captured /\ Waker.resume_pc \in Pc /\ Waker.next \in Nat
  BY <1>2 DEF Waking
<1>4. WakeChain = Waker.thread.chain /\ WakeChain \in Seq(Activation)
  BY <1>3 DEF WakeChain, Captured
<1>5. /\ bounds # <<>> /\ Len(bounds) = 1 /\ bounds[1].depth = 0
  BY QcInCall DEF IInv, BoundsOK
<1>6. Depth = 0 /\ bounds[1] \in Boundary
  BY <1>5, DepthFacts DEF IInv
<1>7. /\ ThreadOK(Waker.thread) /\ Waker.next \in 1 .. Len(WakeChain) + 1
      /\ Len(frames) = Waker.next - 1
  BY <1>4 DEF IInv, ResumeOK
<1>8. Len(WakeChain) \in 1 .. CallDepth
  BY <1>4, <1>7 DEF ThreadOK
<1>9. CallDepth \in Nat
  BY LocalStackAssumption
<1>10. /\ Len(frames) \in Nat /\ Waker.next = Len(frames) + 1 /\ Len(frames) <= Len(WakeChain)
       /\ Len(WakeChain) \in Nat \ {0} /\ Len(WakeChain) <= CallDepth
  BY <1>7, <1>8, <1>9
<1> QED
  BY <1>1, <1>2, <1>3, <1>4, <1>5, <1>6, <1>7, <1>9, <1>10

\* The activations of a captured thread: types, and where their locals were saved.
LEMMA ThreadFacts ==
  ASSUME NEW t \in Captured, ThreadOK(t), NEW i \in 1 .. Len(t.chain)
  PROVE  /\ t.chain[i] \in Activation /\ t.chain[i].func \in Func
         /\ t.chain[i].pushed \in 0 .. LsWords /\ t.chain[i].pc \in Pc
         /\ t.chain[i].sw \in {0, 1} /\ Words[t.chain[i].func] \in Nat
         /\ Base[t.chain[i].func] \in Nat
         /\ AtOf(t, i) \in Nat /\ EndOf(t, i) = AtOf(t, i) + Words[t.chain[i].func] + t.chain[i].pushed
         /\ EndOf(t, i) <= LsWords /\ EndOf(t, i) <= Len(t.stack)
         /\ AtOf(t, i) + Words[t.chain[i].func] <= Len(t.stack)
         /\ (i # 1 => AtOf(t, i) = EndOf(t, i - 1))
<1>0. LsWords \in Nat /\ Len(t.chain) \in Nat
  BY LocalStackAssumption DEF Captured
<1>1. t.chain[i] \in Activation
  BY DEF Captured
<1>2. /\ t.chain[i].func \in Func /\ t.chain[i].pushed \in 0 .. LsWords /\ t.chain[i].pc \in Pc
      /\ t.chain[i].sw \in {0, 1}
  BY <1>1 DEF Activation
<1>3. Words[t.chain[i].func] \in Nat /\ Base[t.chain[i].func] \in Nat
  BY <1>2, LocalStackAssumption
<1>4. ASSUME i # 1
      PROVE  /\ AtOf(t, i) = EndOf(t, i - 1) /\ AtOf(t, i) = t.shape.fs[i - 1].locals_at
             /\ i - 1 \in 1 .. Len(t.shape.fs)
  <2>1. i - 1 \in 1 .. Len(t.chain) - 1 /\ Len(t.shape.fs) = Len(t.chain) - 1
    BY <1>0, <1>4 DEF ThreadOK
  <2>2. t.shape.fs[i - 1].locals_at = EndOf(t, i - 1)
    <3>1. PICK k \in 1 .. Len(t.chain) - 1 : k = i - 1
      BY <2>1
    <3>2. t.shape.fs[k] =
            [func |-> t.chain[k].func, resume_pc |-> t.chain[k].pc,
             pushed |-> t.chain[k].pushed, sw |-> t.chain[k].sw,
             locals_at |-> EndOf(t, k), locals_addr |-> Base[t.chain[k].func],
             locals_words |-> Words[t.chain[k].func]]
      BY DEF ThreadOK
    <3>3. t.shape.fs[k].locals_at = EndOf(t, k)
      BY <3>2
    <3> QED
      BY <3>1, <3>3
  <2> QED
    BY <1>4, <2>1, <2>2 DEF AtOf
<1>5. AtOf(t, i) \in Nat
  <2>1. CASE i = 1
    BY <2>1 DEF AtOf
  <2>2. CASE i # 1
    <3>1. t.shape.fs[i - 1] \in Frame
      BY <1>4, <2>2 DEF Captured
    <3>2. t.shape.fs[i - 1].locals_at \in 0 .. LsWords
      BY <3>1 DEF Frame
    <3> QED
      BY <1>0, <1>4, <2>2, <3>2
  <2> QED
    BY <2>1, <2>2
<1>6. EndOf(t, i) <= Len(t.stack) /\ Len(t.stack) <= LsWords /\ Len(t.stack) \in Nat
  <2>1. t.stack \in Seq(Val)
    BY DEF Captured
  <2>2. EndOf(t, i) <= Len(t.stack) /\ Len(t.stack) <= LsWords
    BY DEF ThreadOK
  <2> QED
    BY <2>1, <2>2
<1>7. EndOf(t, i) = AtOf(t, i) + Words[t.chain[i].func] + t.chain[i].pushed
  BY DEF EndOf
<1>8. EndOf(t, i) \in Nat
  BY SMTT(30), <1>0, <1>2, <1>3, <1>5, <1>7
<1>9. EndOf(t, i) <= LsWords
  BY <1>0, <1>6, <1>8
<1>10. AtOf(t, i) + Words[t.chain[i].func] <= Len(t.stack)
  <2>1. t.chain[i].pushed \in Nat
    BY <1>0, <1>2
  <2> QED
    BY SMTT(30), <1>3, <1>5, <1>6, <1>7, <2>1
<1> QED
  BY <1>1, <1>2, <1>3, <1>4, <1>5, <1>6, <1>7, <1>9, <1>10

\* The next activation of a thread that is being rebuilt fits where it was captured.
LEMMA NextActivationFits ==
  ASSUME IInv, mode = "resume", Waker.next <= Len(WakeChain)
  PROVE  LET a == WakeChain[Waker.next]
         IN /\ a \in Activation /\ a.func \in Func /\ a.pushed \in 0 .. LsWords
            /\ a.sw \in {0, 1} /\ a.pc \in Pc
            /\ CanEnter(a.func) /\ Fits(a.func, a.pushed)
            /\ EnterAt = AtOf(Waker.thread, Waker.next)
<1>1. PICK t \in Captured : t = Waker.thread /\ ThreadOK(t) /\ t.chain = WakeChain
  BY ResumingFacts
<1>2. PICK j \in 1 .. Len(t.chain) : j = Waker.next /\ j = Len(frames) + 1
  BY <1>1, ResumingFacts
<1>3. Len(t.chain) \in Nat /\ CallDepth \in Nat /\ LsWords \in Nat /\ Len(t.chain) <= CallDepth
      /\ Len(frames) \in Nat
  BY <1>1, ResumingFacts, LocalStackAssumption
<1>4. /\ t.chain[j] \in Activation /\ t.chain[j].func \in Func
      /\ t.chain[j].pushed \in 0 .. LsWords /\ t.chain[j].sw \in {0, 1} /\ t.chain[j].pc \in Pc
      /\ Words[t.chain[j].func] \in Nat /\ AtOf(t, j) \in Nat
      /\ EndOf(t, j) = AtOf(t, j) + Words[t.chain[j].func] + t.chain[j].pushed
      /\ EndOf(t, j) <= LsWords
      /\ (j # 1 => AtOf(t, j) = EndOf(t, j - 1))
  BY <1>1, ThreadFacts
<1>5. EnterAt = AtOf(t, j)
  <2>1. CASE j = 1
    <3>1. frames = <<>>
      BY <1>2, <2>1, EmptySeq DEF IInv, StackInv, StackType
    <3>2. x = IdleExec
      BY <3>1 DEF IInv, StackInv, ContextsOK
    <3> QED
      BY <2>1, <3>2 DEF EnterAt, AtOf, IdleExec
  <2>2. CASE j # 1
    <3>1. PICK k \in 1 .. Len(t.chain) : k = j - 1 /\ k = Len(frames) /\ k > 0
      BY <1>2, <1>3, <2>2
    <3>2. /\ x.pushed = t.chain[k].pushed
          /\ x.ls_top = AtOf(t, k) + Words[t.chain[k].func]
      <4>1. k = Waker.next - 1
        BY <1>2, <3>1
      <4> QED
        BY <1>1, <3>1, <4>1 DEF IInv, ResumeOK
    <3>3. EndOf(t, k) = AtOf(t, k) + Words[t.chain[k].func] + t.chain[k].pushed
      BY <1>1, ThreadFacts
    <3> QED
      BY <1>4, <2>2, <3>1, <3>2, <3>3 DEF EnterAt
  <2> QED
    BY <2>1, <2>2
<1>6. EnterAt + Words[t.chain[j].func] + t.chain[j].pushed <= LsWords
  BY <1>4, <1>5
<1>7. EnterAt + Words[t.chain[j].func] <= LsWords
  BY SMTT(30), <1>3, <1>4, <1>5, <1>6
<1>8. Len(frames) < CallDepth
  BY <1>2, <1>3
<1> QED
  BY <1>1, <1>2, <1>4, <1>5, <1>6, <1>7, <1>8 DEF CanEnter, Fits

LEMMA ReenterStep ==
  ASSUME IInv, Reenter
  PROVE  IInv'
<1>1. mode = "resume" /\ Waker.next <= Len(WakeChain)
  BY DEF Reenter
<1>2. PICK t \in Captured : t = Waker.thread /\ ThreadOK(t) /\ t.chain = WakeChain
  BY <1>1, ResumingFacts
<1>3. PICK j \in 1 .. Len(t.chain) : j = Waker.next /\ j = Len(frames) + 1
  BY <1>1, <1>2, ResumingFacts
<1>4. PICK a \in Activation : a = WakeChain[Waker.next] /\ a = t.chain[j]
  BY <1>1, <1>2, <1>3, NextActivationFits
<1>5. /\ a.func \in Func /\ a.pushed \in 0 .. LsWords /\ a.sw \in {0, 1} /\ a.pc \in Pc
      /\ CanEnter(a.func) /\ Fits(a.func, a.pushed) /\ EnterAt = AtOf(t, j)
  BY <1>1, <1>2, <1>3, <1>4, NextActivationFits
<1>6. PICK pc \in Pc : pc = Waker.resume_pc
  BY <1>1, ResumingFacts
<1>7. /\ Enter(a.func, pc, a.pushed, a.sw)
      /\ waking' = <<[Waker EXCEPT !.next = @ + 1, !.resume_pc = a.pc]>>
      /\ UNCHANGED <<bounds, mode, sleeping>>
  BY <1>4, <1>5, <1>6 DEF Reenter
<1>8. /\ Waker \in Waking /\ bounds # <<>> /\ Len(bounds) = 1
      /\ bounds[1].depth = 0 /\ bounds[1] \in Boundary /\ Depth = 0 /\ Len(frames) \in Nat
      /\ frames \in Seq(Frame) /\ x \in Exec
  BY <1>1, ResumingFacts DEF IInv, StackInv, StackType
<1>9. frames = <<>> => pc = 0 /\ x.pc = 0
  <2>1. ASSUME frames = <<>>
        PROVE  pc = 0 /\ x.pc = 0
    <3>1. Waker.next - 1 = 0
      BY <1>3, <2>1
    <3>2. pc = 0
      BY <1>1, <1>6, <3>1 DEF IInv, ResumeOK
    <3>3. x = IdleExec
      BY <2>1 DEF IInv, StackInv, ContextsOK
    <3> QED
      BY <3>2, <3>3 DEF IdleExec
  <2> QED
    BY <2>1
<1>10. FromIdle(pc) /\ ((\E i \in 1 .. Len(bounds) : bounds[i].depth = Len(frames)) => pc = x.pc)
  <2>1. ASSUME NEW i \in 1 .. Len(bounds), bounds[i].depth = Len(frames)
        PROVE  frames = <<>>
    <3>1. i = 1
      BY <1>8
    <3> QED
      BY <1>8, <2>1, <3>1, EmptySeq
  <2> QED
    BY <1>9, <2>1 DEF FromIdle
<1>11. /\ StackInv' /\ frames' # <<>> /\ Len(frames') = Len(frames) + 1
       /\ \A i \in 1 .. Len(frames) : frames'[i] = frames[i]
       /\ frames'[Len(frames) + 1] =
            [func |-> x.func, resume_pc |-> pc, pushed |-> x.pushed, sw |-> x.sw,
             locals_at |-> EnterAt, locals_addr |-> x.locals_addr,
             locals_words |-> x.locals_words]
       /\ \A b \in Boundary : (\E i \in 1 .. Len(bounds) : b = bounds[i]) => HostKept(b)'
  BY <1>5, <1>7, <1>10, EnterBounds
<1>12. BoundsOK'
  <2>1. ASSUME NEW i \in 1 .. Len(bounds)
        PROVE  HostKept(bounds[i])'
    <3>1. PICK b \in Boundary : b = bounds[i]
      BY <1>8, DepthFacts DEF IInv
    <3>2. HostKept(b)'
      BY <1>11, <3>1
    <3> QED
      BY <1>7, <3>1, <3>2 DEF HostKept
  <2> QED
    BY <1>1, <1>7, <1>8, <2>1 DEF IInv, BoundsOK
<1>13. /\ waking' \in Seq(Waking) /\ Len(waking') <= 1 /\ waking' # <<>>
       /\ Waker' = [Waker EXCEPT !.next = @ + 1, !.resume_pc = a.pc]
       /\ Waker'.thread = t /\ Waker'.next = j + 1 /\ Waker'.resume_pc = a.pc
  <2>1. [Waker EXCEPT !.next = @ + 1, !.resume_pc = a.pc] \in Waking
    <3>1. PICK w \in Waking : w = Waker
      BY <1>8
    <3>2. w.next + 1 \in Nat
      BY DEF Waking
    <3>3. [w EXCEPT !.next = @ + 1, !.resume_pc = a.pc] \in Waking
      BY <1>5, <3>2 DEF Waking
    <3> QED
      BY <3>1, <3>3
  <2>2. Waker' = [Waker EXCEPT !.next = @ + 1, !.resume_pc = a.pc]
    BY <1>7 DEF Waker
  <2>3. waking' = <<Waker'>> /\ Waker' \in Waking
    BY <1>7, <2>1, <2>2
  <2>4. Waker'.thread = t /\ Waker'.next = j + 1 /\ Waker'.resume_pc = a.pc
    BY <1>2, <1>3, <1>8, <2>2 DEF Waking
  <2> QED
    BY <2>2, <2>3, <2>4
<1>14. EngineType' /\ SleepingOK'
  BY <1>7, <1>13 DEF IInv, EngineType, SleepingOK
<1>15. ResumeOK'
  <2>1. Len(t.chain) \in Nat /\ Len(frames') = j /\ j > 0 /\ (j + 1) - 1 = j /\ j + 1 \in 1 .. Len(t.chain) + 1
    BY <1>2, <1>3, <1>11, ResumingFacts, <1>1
  <2>2. /\ \A i \in 1 .. j - 1 : frames[i].locals_at = AtOf(t, i)
        /\ \A i \in 2 .. j - 1 : frames[i] = t.shape.fs[i - 1]
    BY <1>1, <1>2, <1>3 DEF IInv, ResumeOK
  <2>3. \A i \in 1 .. j - 1 : frames'[i] = frames[i]
    BY <1>3, <1>11
  <2>4. frames'[j] = [func |-> x.func, resume_pc |-> pc, pushed |-> x.pushed, sw |-> x.sw,
             locals_at |-> AtOf(t, j), locals_addr |-> x.locals_addr,
             locals_words |-> x.locals_words]
    BY <1>3, <1>5, <1>11
  <2>5. ASSUME NEW i \in 1 .. j
        PROVE  frames'[i].locals_at = AtOf(t, i)
    <3>1. i \in 1 .. j - 1 \/ i = j
      OBVIOUS
    <3> QED
      BY <2>2, <2>3, <2>4, <3>1
  <2>6. ASSUME NEW i \in 2 .. j
        PROVE  frames'[i] = t.shape.fs[i - 1]
    <3>1. CASE i \in 2 .. j - 1
      BY <2>2, <2>3, <3>1
    <3>2. CASE i = j
      <4>1. PICK k \in 1 .. Len(t.chain) - 1 : k = j - 1 /\ k = Waker.next - 1 /\ k > 0
        BY <1>3, <2>1, <3>2
      <4>2. /\ pc = t.chain[k].pc
            /\ x = [func |-> t.chain[k].func, pc |-> 0,
                    pushed |-> t.chain[k].pushed, sw |-> t.chain[k].sw,
                    ls_top |-> AtOf(t, k) + Words[t.chain[k].func],
                    locals_addr |-> Base[t.chain[k].func],
                    locals_words |-> Words[t.chain[k].func]]
        BY <1>1, <1>2, <1>6, <4>1 DEF IInv, ResumeOK
      <4>3. t.shape.fs[k] =
               [func |-> t.chain[k].func, resume_pc |-> t.chain[k].pc,
                pushed |-> t.chain[k].pushed, sw |-> t.chain[k].sw,
                locals_at |-> EndOf(t, k), locals_addr |-> Base[t.chain[k].func],
                locals_words |-> Words[t.chain[k].func]]
        BY <1>2, <4>1 DEF ThreadOK
      <4>4. AtOf(t, j) = EndOf(t, k)
        BY <1>2, <4>1, <2>1, ThreadFacts
      <4>5. frames'[j] = t.shape.fs[k]
        BY <2>4, <4>2, <4>3, <4>4
      <4> QED
        BY <3>2, <4>1, <4>5
    <3> QED
      BY <2>1, <3>1, <3>2
  <2>7. x' = [func |-> a.func, pc |-> 0, pushed |-> a.pushed, sw |-> a.sw,
              ls_top |-> AtOf(t, j) + Words[a.func], locals_addr |-> Base[a.func],
              locals_words |-> Words[a.func]]
    BY <1>5, <1>7 DEF Enter
  <2> QED
    BY SMTT(30), <1>1, <1>2, <1>4, <1>7, <1>13, <2>1, <2>5, <2>6, <2>7 DEF ResumeOK
<1> QED
  BY <1>11, <1>12, <1>14, <1>15 DEF IInv

\* The thread runs on over the frames it was captured with.
LEMMA ResumedStep ==
  ASSUME IInv, Resumed
  PROVE  IInv' /\ Shape(1)' = Waker.thread.shape
<1>1. /\ mode = "resume" /\ Waker.next > Len(WakeChain)
      /\ mode' = "qc" /\ waking' = <<>> /\ UNCHANGED <<frames, bounds, sleeping>>
  BY DEF Resumed
<1>2. PICK t \in Captured : t = Waker.thread /\ ThreadOK(t) /\ t.chain = WakeChain
  BY <1>1, ResumingFacts
<1>3. PICK n \in Nat \ {0} : n = Len(t.chain) /\ n = Len(frames) /\ n = Waker.next - 1
  BY <1>1, <1>2, ResumingFacts
<1>4. /\ frames \in Seq(Frame) /\ frames # <<>> /\ x \in Exec /\ LsWords \in Nat
      /\ g \in [Addr -> Val] /\ ls \in [Slot -> Val]
  <2>1. frames \in Seq(Frame) /\ x \in Exec /\ g \in [Addr -> Val] /\ ls \in [Slot -> Val]
    BY DEF IInv, StackInv, StackType
  <2>2. frames # <<>>
    BY <1>3
  <2> QED
    BY <2>1, <2>2, LocalStackAssumption
<1>5. /\ bounds # <<>> /\ Len(bounds) = 1 /\ bounds[1] \in Boundary /\ bounds[1].depth = 0
      /\ Depth = 0 /\ Waker.resume_pc \in Pc
  BY <1>1, ResumingFacts
<1>6. /\ Waker.resume_pc = t.chain[n].pc
      /\ x = [func |-> t.chain[n].func, pc |-> 0, pushed |-> t.chain[n].pushed,
              sw |-> t.chain[n].sw, ls_top |-> AtOf(t, n) + Words[t.chain[n].func],
              locals_addr |-> Base[t.chain[n].func], locals_words |-> Words[t.chain[n].func]]
      /\ \A i \in 1 .. n : frames[i].locals_at = AtOf(t, i)
      /\ \A i \in 2 .. n : frames[i] = t.shape.fs[i - 1]
  BY <1>1, <1>2, <1>3 DEF IInv, ResumeOK
<1>7. n \in 1 .. n /\ 1 \in 1 .. n /\ n > 0
  OBVIOUS
<1>8. frames[1].locals_at = 0 /\ frames[Depth + 1].locals_at = 0
  BY <1>5, <1>6, <1>7 DEF AtOf
<1>9. /\ t.stack \in Seq(Val) /\ Len(t.stack) \in Nat /\ Len(t.stack) <= LsWords
      /\ t.saved \in Seq(SavedLocals) /\ Len(t.saved) = n
  BY <1>2, <1>3 DEF Captured, ThreadOK
<1>10. ls' = [s \in Slot |-> IF s \in 0 .. Len(t.stack) - 1 THEN t.stack[s + 1] ELSE ls[s]]
  <2>1. ls' = IF 0 + Len(t.stack) <= LsWords
                THEN [s \in Slot |-> IF s \in 0 .. 0 + Len(t.stack) - 1
                                       THEN t.stack[s - 0 + 1] ELSE ls[s]]
                ELSE ls
    BY <1>2, <1>8 DEF Resumed
  <2>2. 0 + Len(t.stack) <= LsWords /\ 0 + Len(t.stack) - 1 = Len(t.stack) - 1
    BY <1>9
  <2>3. \A s \in Slot : s - 0 + 1 = s + 1
    BY <1>4 DEF Slot
  <2> QED
    BY <2>1, <2>2, <2>3
<1>11. ls' \in [Slot -> Val]
  <2>1. \A s \in 0 .. Len(t.stack) - 1 : t.stack[s + 1] \in Val
    BY <1>9
  <2> QED
    BY <1>4, <1>10, <2>1
<1>12. g' \in [Addr -> Val]
  <2>1. g' = [a \in Addr |-> IF a \in DOMAIN t.locals THEN t.locals[a] ELSE g[a]]
    BY <1>2 DEF Resumed
  <2>2. PICK A \in SUBSET Addr : t.locals \in [A -> Val]
    BY DEF Captured
  <2> QED
    BY <1>4, <2>1, <2>2
<1>13. saved' = t.saved
  <2>1. saved' = SubSeq(saved, 1, 0) \o t.saved
    BY <1>2, <1>5 DEF Resumed
  <2>2. SubSeq(saved, 1, 0) = <<>>
    BY SubSeqEmpty
  <2> QED
    BY <1>9, <2>1, <2>2, ConcatEmptySeq
<1>14. x' = [x EXCEPT !.pc = Waker.resume_pc]
  BY DEF Resumed
<1>15. /\ x' = t.shape.top /\ x' \in Exec
       /\ \A f \in {"func", "ls_top", "pushed", "locals_addr", "locals_words"} : x'[f] = x[f]
  <2>1. t.shape.top = [func |-> t.chain[n].func, pc |-> t.chain[n].pc, pushed |-> t.chain[n].pushed,
           sw |-> t.chain[n].sw, ls_top |-> AtOf(t, n) + Words[t.chain[n].func],
           locals_addr |-> Base[t.chain[n].func], locals_words |-> Words[t.chain[n].func]]
    BY <1>2, <1>3 DEF ThreadOK
  <2>2. x' = t.shape.top
    BY <1>6, <1>14, <2>1
  <2>3. x' \in Exec
    BY <2>2 DEF Captured
  <2> QED
    BY <1>6, <2>1, <2>2, <2>3
<1>16. ASSUME NEW i \in 1 .. n
       PROVE  CalleeWords(i)' = CalleeWords(i) /\ CalleeWords(i) = Words[t.chain[i].func]
  <2>1. CASE i = n
    BY <2>1, <1>1, <1>3, <1>6, <1>15 DEF CalleeWords
  <2>2. CASE i # n
    <3>1. PICK k \in 2 .. n : k = i + 1 /\ k - 1 = i
      BY <2>2
    <3>2. i \in 1 .. n - 1
      BY <2>2
    <3>3. frames[k] = t.shape.fs[i]
      BY <1>6, <3>1
    <3>4. t.shape.fs[i] =
            [func |-> t.chain[i].func, resume_pc |-> t.chain[i].pc,
             pushed |-> t.chain[i].pushed, sw |-> t.chain[i].sw,
             locals_at |-> EndOf(t, i), locals_addr |-> Base[t.chain[i].func],
             locals_words |-> Words[t.chain[i].func]]
      BY <1>2, <1>3, <3>2 DEF ThreadOK
    <3>5. frames[i + 1].locals_words = Words[t.chain[i].func]
      BY <3>1, <3>3, <3>4
    <3> QED
      BY <2>2, <1>1, <1>3, <3>5 DEF CalleeWords
  <2> QED
    BY <2>1, <2>2
<1>17. SavedLocalsIntact'
  <2>1. ASSUME NEW i \in 1 .. n
        PROVE  /\ DOMAIN t.saved[i] = 0 .. CalleeWords(i)' - 1
               /\ \A k \in DOMAIN t.saved[i] : ls'[frames[i].locals_at + k] = t.saved[i][k]
    <3>1. /\ DOMAIN t.saved[i] = 0 .. Words[t.chain[i].func] - 1
          /\ \A k \in DOMAIN t.saved[i] : t.stack[AtOf(t, i) + k + 1] = t.saved[i][k]
      BY <1>2, <1>3 DEF ThreadOK
    <3>2. /\ AtOf(t, i) \in Nat /\ Words[t.chain[i].func] \in Nat
          /\ AtOf(t, i) + Words[t.chain[i].func] <= Len(t.stack)
      BY <1>2, <1>3, ThreadFacts
    <3>3. ASSUME NEW k \in 0 .. Words[t.chain[i].func] - 1
          PROVE  ls'[AtOf(t, i) + k] = t.stack[AtOf(t, i) + k + 1]
      <4>1. AtOf(t, i) + k \in 0 .. Len(t.stack) - 1
        <5>1. /\ AtOf(t, i) + Words[t.chain[i].func] <= Len(t.stack) /\ Len(t.stack) \in Nat
              /\ AtOf(t, i) \in Nat /\ Words[t.chain[i].func] \in Nat
          BY <1>9, <3>2
        <5>2. PICK w \in Nat, at \in Nat, len \in Nat :
                w = Words[t.chain[i].func] /\ at = AtOf(t, i) /\ len = Len(t.stack) /\ at + w <= len
          BY <5>1
        <5>3. k \in 0 .. w - 1
          BY <5>2
        <5>4. PICK q \in Nat : q = k /\ q <= w - 1
          BY <5>3
        <5>5. at + q \in 0 .. len - 1
          <6>1. at + w <= len
            BY <5>2
          <6>2. q <= w - 1
            BY <5>4
          <6> QED
            BY <6>1, <6>2
        <5> QED
          BY <5>2, <5>4, <5>5
      <4>2. AtOf(t, i) + k \in Slot
        BY <1>4, <1>9, <4>1 DEF Slot
      <4> QED
        BY <1>10, <4>1, <4>2
    <3> QED
      BY <1>6, <1>16, <3>1, <3>3
  <2> QED
    BY <1>1, <1>3, <1>9, <1>13, <2>1 DEF SavedLocalsIntact
<1>18. StackInv'
  <2>1. StackType'
    BY <1>1, <1>4, <1>9, <1>11, <1>12, <1>13, <1>15 DEF StackType
  <2>2. FramesTileStack'
    BY <1>1, <1>15 DEF IInv, StackInv, FramesTileStack
  <2>3. EndsOrdered'
    BY <1>1, <1>3, <1>16 DEF IInv, StackInv, EndsOrdered, SavedEnd
  <2>4. ContextsOK'
    BY <1>1, <1>4, <1>15 DEF IInv, StackInv, ContextsOK, LocalsDescribe
  <2> QED
    BY <1>17, <2>1, <2>2, <2>3, <2>4 DEF StackInv
<1>19. BoundsOK'
  <2>1. Depth < Len(frames)
    <3>1. Depth = 0 /\ Len(frames) = n
      BY <1>3, <1>5
    <3> QED
      BY <3>1, <1>7
  <2> QED
    BY <1>1, <1>4, <1>5, <2>1, BoundsKept DEF IInv
<1>20. EngineType' /\ SleepingOK' /\ ResumeOK'
  BY <1>1 DEF IInv, EngineType, SleepingOK, ResumeOK, Mode
<1>21. Shape(1)' = Waker.thread.shape
  <2>1. t.shape.fs \in Seq(Frame) /\ Len(t.shape.fs) = n - 1
    BY <1>2, <1>3 DEF Captured, ThreadOK
  <2> DEFINE fs == [i \in 1 .. n - 1 |-> [frames[1 + i] EXCEPT !.locals_at = @ - 0]]
  <2>2. ASSUME NEW i \in 1 .. n - 1
        PROVE  fs[i] = t.shape.fs[i]
    <3>1. PICK f \in Frame : f = t.shape.fs[i] /\ f = frames[1 + i]
      <4>1. PICK k \in 2 .. n : k = 1 + i /\ k - 1 = i
        BY <1>3
      <4>2. t.shape.fs[i] \in Frame
        BY <2>1, <1>3
      <4> QED
        BY <1>6, <4>1, <4>2
    <3>2. f.locals_at - 0 = f.locals_at
      <4>1. f.locals_at \in 0 .. LsWords
        BY DEF Frame
      <4> QED
        BY <4>1, <1>4
    <3>3. [f EXCEPT !.locals_at = @ - 0] = f
      BY <3>2 DEF Frame
    <3> QED
      BY <3>1, <3>3
  <2>3. fs = t.shape.fs
    <3>1. t.shape.fs = [i \in 1 .. n - 1 |-> t.shape.fs[i]]
      BY <2>1, <1>3
    <3> QED
      BY <2>2, <3>1
  <2>4. [x' EXCEPT !.ls_top = @ - 0] = x'
    <3>1. x'.ls_top \in 0 .. LsWords
      BY <1>15 DEF Exec
    <3>2. x'.ls_top - 0 = x'.ls_top
      BY <1>4, <3>1
    <3> QED
      BY <1>15, <3>2 DEF Exec
  <2>5. Shape(1)' = [fs |-> fs, top |-> [x' EXCEPT !.ls_top = @ - 0]]
    <3>1. frames'[1].locals_at = 0 /\ frames' = frames /\ Len(frames') - 1 = n - 1
      BY <1>1, <1>3, <1>8
    <3> QED
      BY <3>1 DEF Shape
  <2>6. t.shape = [fs |-> t.shape.fs, top |-> t.shape.top]
    BY DEF Captured
  <2> HIDE DEF fs
  <2>7. Shape(1)' = [fs |-> t.shape.fs, top |-> t.shape.top]
    BY <1>15, <2>3, <2>4, <2>5
  <2> QED
    BY <1>2, <2>6, <2>7
<1> QED
  BY <1>18, <1>19, <1>20, <1>21 DEF IInv

-----------------------------------------------------------------------------
(* The theorems.                                                           *)

LEMMA InitIInv == Init => IInv
<1> SUFFICES ASSUME Init
             PROVE  IInv
  OBVIOUS
<1>1. /\ frames = <<>> /\ x = IdleExec /\ g \in [Addr -> Val] /\ ls = [s \in Slot |-> 0]
      /\ bounds = <<>> /\ mode = "host" /\ sleeping = <<>> /\ waking = <<>> /\ saved = <<>>
      /\ Len(frames) = 0 /\ Len(bounds) = 0 /\ Len(sleeping) = 0 /\ Len(saved) = 0 /\ Len(waking) = 0
  BY DEF Init
<1>2. IdleExec \in Exec
  BY LocalStackAssumption DEF IdleExec, Exec, Pc
<1>3. /\ frames \in Seq(Frame) /\ bounds \in Seq(Boundary) /\ sleeping \in Seq(Captured)
      /\ waking \in Seq(Waking) /\ saved \in Seq(SavedLocals)
  BY <1>1
<1>4. ls \in [Slot -> Val]
  BY <1>1, LocalStackAssumption
<1>5. StackInv
  <2>1. StackType
    BY <1>1, <1>2, <1>3, <1>4 DEF StackType
  <2>2. FramesTileStack /\ SavedLocalsIntact /\ EndsOrdered
    BY <1>1, LocalStackAssumption DEF FramesTileStack, SavedLocalsIntact, EndsOrdered, IdleExec
  <2>3. ContextsOK
    BY <1>1, LocalStackAssumption DEF ContextsOK, LocalsDescribe, IdleExec
  <2> QED
    BY <2>1, <2>2, <2>3 DEF StackInv
<1>6. EngineType
  BY <1>1, <1>3 DEF EngineType, Mode
<1>7. BoundsOK /\ SleepingOK /\ ResumeOK
  BY <1>1 DEF BoundsOK, SleepingOK, ResumeOK
<1> QED
  BY <1>5, <1>6, <1>7 DEF IInv

LEMMA StutterStep ==
  ASSUME IInv, UNCHANGED vars
  PROVE  IInv'
<1>1. UNCHANGED <<frames, x, g, ls, bounds, mode, sleeping, waking, saved>>
  BY DEF vars
<1>2. StackInv'
  BY <1>1, StackKept DEF IInv
<1>3. ASSUME NEW i \in 1 .. Len(bounds)
      PROVE  HostKept(bounds[i])'
  BY <1>1 DEF IInv, BoundsOK, HostKept, LeadsTo, SameContext
<1>4. BoundsOK'
  BY <1>1, <1>3 DEF IInv, BoundsOK, Depth
<1>5. EngineType' /\ SleepingOK'
  BY <1>1 DEF IInv, EngineType, SleepingOK
<1>6. ResumeOK'
  BY <1>1 DEF IInv, ResumeOK, Waker
<1> QED
  BY <1>2, <1>4, <1>5, <1>6 DEF IInv

LEMMA NextIInv == IInv /\ [Next]_vars => IInv'
<1> SUFFICES ASSUME IInv, [Next]_vars
             PROVE  IInv'
  OBVIOUS
<1>1. ASSUME NEW f \in Func, HostCall(f) \/ Call(f)
      PROVE  IInv'
  BY <1>1, HostCallStep, CallStep
<1>2. CASE BuiltinReturns \/ BuiltinFails
  BY <1>2, BuiltinEnds
<1>3. CASE Unwinding \/ Unwound
  BY <1>3, UnwindingStep, UnwoundStep
<1>4. CASE CallBuiltin \/ Return \/ Switch
  BY <1>4, CallBuiltinStep, ReturnStep, SwitchStep
<1>5. CASE StatementFaults
  BY <1>5, FaultStep DEF StatementFaults, Running
<1>6. ASSUME NEW n \in 1 .. MaxPush, Push(n)
      PROVE  IInv'
  BY <1>6, PushStep
<1>7. ASSUME NEW a \in Addr, NEW v \in Val, StoreGlobal(a, v)
      PROVE  IInv'
  BY <1>7, StoreGlobalStep
<1>8. ASSUME NEW s \in Slot, NEW v \in Val, StorePushed(s, v)
      PROVE  IInv'
  BY <1>8, StorePushedStep
<1>9. CASE Sleep \/ Fork
  BY <1>9, SuspendStep DEF Sleep, Fork
<1>10. ASSUME NEW i \in 1 .. Len(sleeping), Wake(i)
       PROVE  IInv'
  BY <1>10, WakeStep
<1>11. CASE Reenter
  BY <1>11, ReenterStep
<1>12. CASE Resumed
  BY <1>12, ResumedStep
<1>13. CASE UNCHANGED vars
  BY <1>13, StutterStep
<1> QED
  BY <1>1, <1>2, <1>3, <1>4, <1>5, <1>6, <1>7, <1>8, <1>9, <1>10, <1>11, <1>12, <1>13 DEF Next

\* The inductive invariant holds in every reachable state.
THEOREM Invariance == Spec => []IInv
BY InitIInv, NextIInv, PTL DEF Spec

\* Every reachable state is well typed (Core, Exec, Frame and Thread of the source).
THEOREM TypeCorrect == Spec => []TypeOK
<1>1. IInv => TypeOK
  BY DEF IInv, StackInv, StackType, EngineType, TypeOK, Waking
<1> QED
  BY <1>1, Invariance, PTL

\* The frames always tile the local stack, and what each activation saved stays
\* there: the arithmetic of Core::enter and Core::leave never drifts.
THEOREM LayoutCorrect == Spec => []LayoutIntact
<1>1. IInv => LayoutIntact
  BY DEF IInv, StackInv, LayoutIntact
<1> QED
  BY <1>1, Invariance, PTL

\* With no call on the native stack there is no frame and no register of one left.
THEOREM IdleClean == Spec => []IdleIsClean
<1>1. IInv => IdleIsClean
  BY DEF IInv, BoundsOK, StackInv, ContextsOK, IdleIsClean
<1> QED
  BY <1>1, Invariance, PTL

\* Rebuilding a captured thread never runs out of frames or of local stack.
THEOREM ResumeAlwaysFits == Spec => []ResumeNeverFails
<1>1. IInv => ResumeNeverFails
  BY NextActivationFits DEF ResumeNeverFails
<1> QED
  BY <1>1, Invariance, PTL

LEMMA SameRegisters ==
  ASSUME NEW c \in Exec, NEW h \in Exec, SameContext(c, h)
  PROVE  c = [h EXCEPT !.sw = IF SwitchReset THEN c.sw ELSE @]
BY DEF SameContext, Exec

\* Only Leave pops frames, and it restores the locals of the activation it ends.
LEMMA StepRestoresLocals ==
  ASSUME IInv, [Next]_vars, Len(frames') < Len(frames)
  PROVE  \A k \in DOMAIN Last(saved) : g'[x.locals_addr + k] = Last(saved)[k]
<1>1. frames \in Seq(Frame) /\ Len(frames) \in Nat
  BY DEF IInv, StackInv, StackType
<1>2. ~(UNCHANGED frames)
  BY <1>1
<1>3. ASSUME NEW f \in Func, NEW pc, NEW pushed, NEW sw, Enter(f, pc, pushed, sw)
      PROVE  FALSE
  <2>1. PICK e : frames' = Append(frames, e)
    BY <1>3 DEF Enter
  <2>2. Len(frames') = Len(frames) + 1
    BY <1>1, <2>1
  <2> QED
    BY <1>1, <2>2
<1>4. frames # <<>>
  BY <1>1
<1>5. CASE Leave
  BY <1>4, <1>5, LeaveStack DEF IInv
<1>6. CASE \E f \in Func : HostCall(f) \/ Call(f)
  BY <1>2, <1>3, <1>6 DEF HostCall, Call, Fault
<1>7. CASE Reenter
  BY <1>2, <1>3, <1>7, NextActivationFits DEF Reenter
<1>8. CASE BuiltinReturns \/ BuiltinFails \/ Unwound \/ CallBuiltin \/ StatementFaults \/ Switch
           \/ Sleep \/ Fork \/ Resumed \/ UNCHANGED vars
  BY <1>2, <1>8 DEF BuiltinReturns, BuiltinFails, Unwound, CallBuiltin, StatementFaults, Switch,
                    Sleep, Fork, Suspend, Resumed, Fault, vars
<1>9. CASE \/ \E n \in 1 .. MaxPush : Push(n)
           \/ \E a \in Addr, v \in Val : StoreGlobal(a, v)
           \/ \E s \in Slot, v \in Val : StorePushed(s, v)
           \/ \E i \in 1 .. Len(sleeping) : Wake(i)
  BY <1>2, <1>9 DEF Push, StoreGlobal, StorePushed, Wake, Fault
<1>10. CASE Unwinding \/ Return
  BY <1>5, <1>10 DEF Unwinding, Return
<1> QED
  BY <1>6, <1>7, <1>8, <1>9, <1>10 DEF Next

\* An engine boundary is left only by Return and by Unwound, with its host's registers.
LEMMA StepRestoresContext ==
  ASSUME IInv, [Next]_vars, Len(bounds') < Len(bounds)
  PROVE  LET before == Last(bounds).host
         IN x' = [before EXCEPT !.sw = IF SwitchReset THEN x'.sw ELSE @]
<1>1. bounds \in Seq(Boundary) /\ Len(bounds) \in Nat /\ IInv'
  BY NextIInv DEF IInv, EngineType
<1>2. ~(UNCHANGED bounds) /\ bounds # <<>>
  BY <1>1
<1>3. ASSUME NEW e, bounds' = Append(bounds, e)
      PROVE  FALSE
  <2>1. Len(bounds') = Len(bounds) + 1
    BY <1>1, <1>3
  <2> QED
    BY <1>1, <2>1
<1>4. Last(bounds).host \in Exec /\ x' \in Exec
  <2>1. Last(bounds) \in Boundary
    BY <1>1, <1>2, FrontFacts
  <2> QED
    BY <1>1, <2>1 DEF Boundary, IInv, StackInv, StackType
<1>5. CASE Return
  BY <1>4, <1>5, ReturnStep, SameRegisters
<1>6. CASE Unwound
  <2>1. SameContext(x', Last(bounds).host)
    BY <1>6, UnwoundStep DEF Unwound
  <2> QED
    BY <1>4, <2>1, SameRegisters
<1>7. CASE \E f \in Func : HostCall(f) \/ Call(f)
  BY <1>2, <1>3, <1>7 DEF HostCall, Call, Fault
<1>8. CASE BuiltinReturns \/ BuiltinFails \/ Unwinding \/ CallBuiltin \/ StatementFaults \/ Switch
           \/ Sleep \/ Fork \/ Resumed \/ Reenter \/ UNCHANGED vars
  BY <1>2, <1>8 DEF BuiltinReturns, BuiltinFails, Unwinding, CallBuiltin, StatementFaults, Switch,
                    Sleep, Fork, Suspend, Resumed, Reenter, Fault, vars
<1>9. CASE \/ \E n \in 1 .. MaxPush : Push(n)
           \/ \E a \in Addr, v \in Val : StoreGlobal(a, v)
           \/ \E s \in Slot, v \in Val : StorePushed(s, v)
  BY <1>2, <1>9 DEF Push, StoreGlobal, StorePushed, Fault
<1>10. CASE \E i \in 1 .. Len(sleeping) : Wake(i)
  BY <1>3, <1>10 DEF Wake
<1> QED
  BY <1>5, <1>6, <1>7, <1>8, <1>9, <1>10 DEF Next

\* However an activation ends, by a return, an error or an abort, its locals are
\* again what they were when it was entered (Core::leave, Core::unwind).
THEOREM LocalsAlwaysRestored == Spec => LocalsRestored
<1>1. IInv /\ [Next]_vars =>
        [Len(frames') < Len(frames) =>
           \A k \in DOMAIN Last(saved) : g'[x.locals_addr + k] = Last(saved)[k]]_vars
  BY StepRestoresLocals
<1> QED
  BY <1>1, Invariance, PTL DEF Spec, LocalsRestored

\* However a host call ends, its caller goes on with the registers it had.
THEOREM CallerContextAlwaysRestored == Spec => CallerContextRestored
<1>1. IInv /\ [Next]_vars =>
        [Len(bounds') < Len(bounds) =>
           LET before == Last(bounds).host
           IN x' = [before EXCEPT !.sw = IF SwitchReset THEN x'.sw ELSE @]]_vars
  BY StepRestoresContext
<1> QED
  BY <1>1, Invariance, PTL DEF Spec, CallerContextRestored

\* A resumed thread goes on over the very frames it was captured with.
THEOREM ResumeAlwaysRebuilds == Spec => ResumeRebuilds
<1>1. IInv /\ [Next]_vars =>
        [mode = "resume" /\ mode' = "qc" => Shape(1)' = Waker.thread.shape]_vars
  <2> SUFFICES ASSUME IInv, Next, mode = "resume", mode' = "qc"
               PROVE  Shape(1)' = Waker.thread.shape
    OBVIOUS
  <2>1. Resumed
    BY DEF Next, HostCall, Call, Running, BuiltinReturns, BuiltinFails, InBuiltin, Unwinding, Unwound,
           CallBuiltin, Return, StatementFaults, Switch, Push, StoreGlobal, StorePushed, Sleep, Fork,
           Suspend, Wake, Reenter
  <2> QED
    BY <2>1, ResumedStep
<1> QED
  BY <1>1, Invariance, PTL DEF Spec, ResumeRebuilds

=============================================================================
