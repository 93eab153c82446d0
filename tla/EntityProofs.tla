---------------------------- MODULE EntityProofs ----------------------------
(***************************************************************************)
(* The entity table and what works on it: what its operations preserve,    *)
(* the walk of csqc::add_entities, whatever happens to the table between   *)
(* two of its steps, and the sleeping threads, for every size of the       *)
(* table, every number of reserved slots, every resting time, every limit  *)
(* and every number of nested calls.                                       *)
(***************************************************************************)
EXTENDS EntityWalk, Threads, TLAPS, FiniteSetTheorems, WellFoundedInduction,
        SequenceTheorems

-----------------------------------------------------------------------------
(* Numbers and the size of the table.                                      *)

LEMMA MinOfNats ==
  ASSUME NEW S, S \subseteq Nat, S # {}
  PROVE  Min(S) \in S
<1> DEFINE Less == {ss \in Nat \X Nat : ss[1] < ss[2]}
<1>1. IsWellFoundedOn(Less, Nat)
  BY NatLessThanWellFounded DEF OpToRel
<1>2. \A x, y \in Nat : y < x => <<y, x>> \in Less
  OBVIOUS
<1> HIDE DEF Less
<1>3. PICK x \in S : \A y \in S : ~ (<<y, x>> \in Less)
  BY <1>1, WFMin
<1>4. x \in Nat /\ \A y \in S : y \in Nat /\ ~ (y < x)
  BY <1>2, <1>3
<1>5. \A y \in S : x <= y
  BY <1>4
<1> QED
  BY <1>5 DEF Min

LEMMA MaxOfTwo ==
  ASSUME NEW a \in Int, NEW b \in Int
  PROVE  Max({a, b}) = IF a >= b THEN a ELSE b
<1>1. CASE a >= b
  <2>1. \A y \in {a, b} : a >= y
    BY <1>1
  <2>2. \A z \in {a, b} : (\A y \in {a, b} : z >= y) => z = a
    BY <1>1
  <2> QED
    BY <1>1, <2>1, <2>2 DEF Max
<1>2. CASE ~(a >= b)
  <2>1. \A y \in {a, b} : b >= y
    BY <1>2
  <2>2. \A z \in {a, b} : (\A y \in {a, b} : z >= y) => z = b
    BY <1>2
  <2> QED
    BY <1>2, <2>1, <2>2 DEF Max
<1> QED
  BY <1>1, <1>2

\* A table is an initial segment of the slots, and its cardinality their number.
LEMMA SizeOfTable ==
  ASSUME NEW t, \E n \in 1 .. MaxEdicts : t \in [0 .. n - 1 -> EntSlot]
  PROVE  /\ Cardinality(DOMAIN t) \in 1 .. MaxEdicts
         /\ t \in [0 .. Cardinality(DOMAIN t) - 1 -> EntSlot]
         /\ DOMAIN t = 0 .. Cardinality(DOMAIN t) - 1
<1>1. PICK n \in 1 .. MaxEdicts : t \in [0 .. n - 1 -> EntSlot]
  OBVIOUS
<1>2. DOMAIN t = 0 .. n - 1
  BY <1>1
<1>3. Cardinality(0 .. n - 1) = n
  BY FS_Interval, EdictsAssumption
<1> QED
  BY <1>1, <1>2, <1>3

LEMMA TableSize ==
  ASSUME EdictsTypeOK
  PROVE  /\ NumEdicts \in 1 .. MaxEdicts
         /\ slots \in [0 .. NumEdicts - 1 -> EntSlot]
         /\ DOMAIN slots = 0 .. NumEdicts - 1
BY SizeOfTable DEF EdictsTypeOK, NumEdicts

\* Growing adds free slots that have never been used.
LEMMA Growing ==
  ASSUME EdictsTypeOK, NEW e \in Ents
  PROVE  LET last == IF e >= NumEdicts - 1 THEN e ELSE NumEdicts - 1
         IN /\ GrownTo(e) \in [0 .. last -> EntSlot]
            /\ last + 1 \in 1 .. MaxEdicts /\ e \in 0 .. last
            /\ (DOMAIN slots) \subseteq 0 .. last
            /\ \A i \in 0 .. last :
                 GrownTo(e)[i] = IF i \in DOMAIN slots THEN slots[i] ELSE NewSlot
<1> DEFINE last == IF e >= NumEdicts - 1 THEN e ELSE NumEdicts - 1
<1>1. NumEdicts \in 1 .. MaxEdicts /\ DOMAIN slots = 0 .. NumEdicts - 1
      /\ slots \in [0 .. NumEdicts - 1 -> EntSlot]
  BY TableSize
<1>2. MaxEdicts \in Nat \ {0} /\ e \in 0 .. MaxEdicts - 1
  BY EdictsAssumption DEF Ents
<1>3. Max({e, NumEdicts - 1}) = last
  BY <1>1, <1>2, MaxOfTwo
<1>4. GrownTo(e) = [i \in 0 .. last |-> IF i \in DOMAIN slots THEN slots[i] ELSE NewSlot]
  BY <1>3 DEF GrownTo
<1>5. NewSlot \in EntSlot
  BY EdictsAssumption DEF NewSlot, EntSlot
<1>6. /\ last \in Int /\ last + 1 \in 1 .. MaxEdicts /\ e \in 0 .. last
      /\ 0 .. NumEdicts - 1 \subseteq 0 .. last
  BY <1>1, <1>2
<1> HIDE DEF last
<1>7. \A i \in 0 .. last : (IF i \in DOMAIN slots THEN slots[i] ELSE NewSlot) \in EntSlot
  BY <1>1, <1>5
<1>8. GrownTo(e) \in [0 .. last -> EntSlot]
      /\ \A i \in 0 .. last :
           GrownTo(e)[i] = IF i \in DOMAIN slots THEN slots[i] ELSE NewSlot
  BY <1>4, <1>7
<1> QED
  BY <1>1, <1>6, <1>8 DEF last

\* The table operations.
TableStep ==
  \/ Spawn \/ SpawnFails
  \/ \E e \in Ents, b \in BOOLEAN : RemoveEdict(e, b) \/ Protect(e, b)
  \/ \E e \in Ents : Claim(e)
  \/ Tick
  \/ UNCHANGED edicts

-----------------------------------------------------------------------------
(* The slot a spawn takes.                                                 *)

LEMMA PickFacts ==
  ASSUME EdictsTypeOK, Pick < MaxEdicts
  PROVE  /\ Pick \in Ents /\ Pick >= FirstSpawnable
         /\ \/ Pick \in DOMAIN slots /\ Pick \in Ready
            \/ Pick \notin DOMAIN slots /\ Ready = {} 
            \/ /\ Pick \in Spawnable /\ Ready = {}
               /\ NumEdicts >= MaxEdicts
<1>1. /\ NumEdicts \in 1 .. MaxEdicts /\ DOMAIN slots = 0 .. NumEdicts - 1
      /\ MaxEdicts \in Nat \ {0} /\ FirstSpawnable \in Nat
  BY TableSize, EdictsAssumption
<1>2. /\ Ready \subseteq Spawnable /\ Spawnable \subseteq DOMAIN slots
      /\ \A e \in Spawnable : e >= FirstSpawnable
  BY DEF Ready, Spawnable
<1>3. (DOMAIN slots) \subseteq Ents /\ (DOMAIN slots) \subseteq Nat
  BY <1>1 DEF Ents
<1>4. NextSlot = IF NumEdicts >= FirstSpawnable THEN NumEdicts ELSE FirstSpawnable
  BY <1>1, MaxOfTwo DEF NextSlot
<1>5. CASE Ready # {}
  <2>1. Pick = Min(Ready)
    BY <1>5 DEF Pick
  <2>2. Ready \subseteq Nat
    BY <1>2, <1>3
  <2>3. Pick \in Ready
    BY <1>5, <2>1, <2>2, MinOfNats
  <2> QED
    BY <1>2, <1>3, <2>3
<1>6. CASE Ready = {} /\ NextSlot < MaxEdicts
  <2>1. Pick = NextSlot
    BY <1>6 DEF Pick
  <2>2. NextSlot \in Ents /\ NextSlot >= FirstSpawnable /\ NextSlot \notin DOMAIN slots
    BY <1>1, <1>4, <1>6 DEF Ents
  <2> QED
    BY <1>6, <2>1, <2>2
<1>7. CASE Ready = {} /\ ~(NextSlot < MaxEdicts)
  <2>1. CASE Spawnable = {}
    <3>1. Pick = MaxEdicts
      BY <1>7, <2>1 DEF Pick
    <3> QED
      BY <3>1, <1>1
  <2>2. CASE Spawnable # {}
    <3>1. Pick = Min(Spawnable)
      BY <1>7, <2>2 DEF Pick
    <3>2. Spawnable \subseteq Nat
      BY <1>2, <1>3
    <3>3. Pick \in Spawnable
      BY <2>2, <3>1, <3>2, MinOfNats
    <3>4. Pick \in 0 .. NumEdicts - 1 /\ Pick >= FirstSpawnable
      BY <1>1, <1>2, <3>3
    <3>5. NumEdicts >= MaxEdicts
      BY <1>1, <1>4, <1>7, <3>4
    <3> QED
      BY <1>2, <1>3, <1>7, <3>3, <3>4, <3>5
  <2> QED
    BY <2>1, <2>2
<1> QED
  BY <1>5, <1>6, <1>7

-----------------------------------------------------------------------------
(* Types.                                                                  *)

LEMMA TakenType ==
  ASSUME NEW s \in EntSlot
  PROVE  Taken(s) \in EntSlot
<1>1. s.serial + 1 \in Nat /\ SerialMod \in Nat \ {0}
  BY EdictsAssumption DEF EntSlot
<1>2. (s.serial + 1) % SerialMod \in 0 .. SerialMod - 1
  BY <1>1
<1> HIDE DEF EntSlot
<1>3. \A n \in 0 .. SerialMod - 1 :
        [s EXCEPT !.in_use = TRUE, !.protected = FALSE, !.serial = n] \in EntSlot
  BY DEF EntSlot
<1> QED
  BY <1>2, <1>3 DEF Taken

\* A slot has come into use no more often than all slots together.
TakesCount == \A e \in Ents : lives[e] <= takes

LEMMA TakeType ==
  ASSUME EdictsTypeOK, TakesCount, NEW e \in Ents, NEW slot \in EntSlot, Take(e, slot)
  PROVE  EdictsTypeOK' /\ TakesCount'
<1> DEFINE last == IF e >= NumEdicts - 1 THEN e ELSE NumEdicts - 1
<1>1. /\ GrownTo(e) \in [0 .. last -> EntSlot]
      /\ last + 1 \in 1 .. MaxEdicts /\ e \in 0 .. last
  BY Growing
<1>2. slots' = [GrownTo(e) EXCEPT ![e] = slot]
  BY DEF Take
<1>3. slots' \in [0 .. last -> EntSlot]
  BY <1>1, <1>2
<1>4. last = (last + 1) - 1
  BY <1>1, TableSize DEF Ents
<1> HIDE DEF last
<1>5. \E n \in 1 .. MaxEdicts : slots' \in [0 .. n - 1 -> EntSlot]
  BY <1>1, <1>3, <1>4
<1>6. /\ takes' \in 1 .. MaxTakes /\ clock' \in 0 .. MaxClock
      /\ takes' = takes + 1 /\ takes \in Nat
  BY EdictsAssumption DEF Take, EdictsTypeOK
<1>7. lives \in [Ents -> Nat] /\ lives' = [lives EXCEPT ![e] = @ + 1]
  BY EdictsAssumption DEF Take, EdictsTypeOK
<1>8. \A o \in Ents : lives'[o] \in Nat /\ lives'[o] <= takes'
  BY <1>6, <1>7 DEF TakesCount
<1>9. \A o \in Ents : lives'[o] \in 0 .. MaxTakes
  BY <1>6, <1>8, EdictsAssumption
<1>10. lives' \in [Ents -> 0 .. MaxTakes]
  BY <1>7, <1>9
<1> QED
  BY <1>5, <1>6, <1>8, <1>10 DEF EdictsTypeOK, TakesCount

\* Freeing a slot, or changing a flag of it, keeps the shape of the table.
LEMMA SlotChangeType ==
  ASSUME EdictsTypeOK, TakesCount, NEW e \in DOMAIN slots, NEW slot \in EntSlot,
         slots' = [slots EXCEPT ![e] = slot], UNCHANGED <<clock, lives, takes>>
  PROVE  EdictsTypeOK' /\ TakesCount'
<1>1. PICK n \in 1 .. MaxEdicts : slots \in [0 .. n - 1 -> EntSlot]
  BY DEF EdictsTypeOK
<1>2. slots' \in [0 .. n - 1 -> EntSlot]
  BY <1>1
<1> QED
  BY <1>2 DEF EdictsTypeOK, TakesCount

\* Every operation keeps the types of the table.
LEMMA TableTypes ==
  ASSUME EdictsTypeOK, TakesCount, TableStep
  PROVE  EdictsTypeOK' /\ TakesCount'
<1>1. CASE Spawn
  <2>1. Pick \in Ents
    BY <1>1, PickFacts DEF Spawn
  <2>2. GrownTo(Pick)[Pick] \in EntSlot
    BY <2>1, Growing
  <2> QED
    BY <1>1, <2>1, <2>2, TakenType, TakeType DEF Spawn
<1>2. CASE SpawnFails \/ UNCHANGED edicts
  BY <1>2 DEF SpawnFails, edicts, EdictsTypeOK, TakesCount
<1>3. ASSUME NEW e \in Ents, NEW b \in BOOLEAN, RemoveEdict(e, b)
      PROVE  EdictsTypeOK' /\ TakesCount'
  <2>1. e \in DOMAIN slots /\ slots[e] \in EntSlot
    BY <1>3, TableSize DEF RemoveEdict, MayRemove, InUse
  <2>2. FreeTime(b) \in 0 .. MaxClock
    BY EdictsAssumption DEF FreeTime, EdictsTypeOK
  <2> DEFINE slot == [slots[e] EXCEPT !.in_use = FALSE, !.freetime = FreeTime(b)]
  <2>3. slot \in EntSlot
    BY <2>1, <2>2 DEF EntSlot
  <2>4. slots' = [slots EXCEPT ![e] = slot]
    BY <1>3, <2>1, TableSize DEF RemoveEdict, EntSlot
  <2> HIDE DEF slot
  <2> QED
    BY <1>3, <2>1, <2>3, <2>4, SlotChangeType DEF RemoveEdict
<1>4. ASSUME NEW e \in Ents, NEW b \in BOOLEAN, Protect(e, b)
      PROVE  EdictsTypeOK' /\ TakesCount'
  <2>1. e \in DOMAIN slots /\ slots[e] \in EntSlot
    BY <1>4, TableSize DEF Protect
  <2> DEFINE slot == [slots[e] EXCEPT !.protected = b]
  <2>2. slot \in EntSlot
    BY <2>1 DEF EntSlot
  <2>3. slots' = [slots EXCEPT ![e] = slot]
    BY <1>4, <2>1 DEF Protect
  <2> HIDE DEF slot
  <2> QED
    BY <1>4, <2>1, <2>2, <2>3, SlotChangeType DEF Protect
<1>5. ASSUME NEW e \in Ents, Claim(e)
      PROVE  EdictsTypeOK' /\ TakesCount'
  <2>1. Taken(GrownTo(e)[e]) \in EntSlot
    BY Growing, TakenType
  <2>2. [Taken(GrownTo(e)[e]) EXCEPT !.freetime = 0] \in EntSlot
    BY <2>1, EdictsAssumption DEF EntSlot
  <2> QED
    BY <1>5, <2>2, TakeType DEF Claim
<1>6. CASE Tick
  BY <1>6, EdictsAssumption DEF Tick, EdictsTypeOK, TakesCount
<1> QED
  BY <1>1, <1>2, <1>3, <1>4, <1>5, <1>6 DEF TableStep

LEMMA TableInit ==
  EdictsInit => EdictsTypeOK /\ TakesCount
<1> SUFFICES ASSUME EdictsInit PROVE EdictsTypeOK /\ TakesCount
  OBVIOUS
<1>1. World \in Ents /\ {World} = 0 .. 1 - 1 /\ 1 \in 1 .. MaxEdicts
  BY EdictsAssumption DEF World, Ents
<1>2. [NewSlot EXCEPT !.in_use = TRUE, !.serial = 1] \in EntSlot
  <2>1. 0 \in 0 .. MaxClock /\ 1 \in 0 .. SerialMod - 1
    BY EdictsAssumption
  <2> QED
    BY <2>1 DEF NewSlot, EntSlot
<1>3. slots \in [0 .. 1 - 1 -> EntSlot]
  BY <1>1, <1>2 DEF EdictsInit
<1>4. clock \in 0 .. MaxClock /\ takes \in 1 .. MaxTakes /\ takes = 1
  BY EdictsAssumption DEF EdictsInit
<1>5. \A e \in Ents : lives[e] \in 0 .. MaxTakes /\ lives[e] <= 1
  BY EdictsAssumption DEF EdictsInit
<1>6. lives \in [Ents -> 0 .. MaxTakes]
  BY <1>5 DEF EdictsInit
<1> QED
  BY <1>1, <1>3, <1>4, <1>5, <1>6 DEF EdictsTypeOK, TakesCount

-----------------------------------------------------------------------------
(* What a spawn does to the slots it does not take.                        *)

LEMMA SpawnEffect ==
  ASSUME EdictsTypeOK, Spawn
  PROVE  /\ Pick \in Ents /\ Pick >= FirstSpawnable
         /\ \A e \in DOMAIN slots : e # Pick => e \in DOMAIN slots' /\ slots'[e] = slots[e]
         /\ \A e \in DOMAIN slots' : e # Pick => (e \in DOMAIN slots \/ ~slots'[e].in_use)
         /\ Pick \in DOMAIN slots => Pick \in Spawnable
<1>1. /\ Pick \in Ents /\ Pick >= FirstSpawnable
      /\ Pick \in DOMAIN slots => Pick \in Spawnable
  BY PickFacts DEF Spawn, Ready
<1> DEFINE last == IF Pick >= NumEdicts - 1 THEN Pick ELSE NumEdicts - 1
<1>2. /\ GrownTo(Pick) \in [0 .. last -> EntSlot]
      /\ (DOMAIN slots) \subseteq 0 .. last
      /\ \A i \in 0 .. last : GrownTo(Pick)[i] = IF i \in DOMAIN slots THEN slots[i] ELSE NewSlot
  BY <1>1, Growing
<1> HIDE DEF last
<1>3. slots' = [GrownTo(Pick) EXCEPT ![Pick] = Taken(GrownTo(Pick)[Pick])]
  BY DEF Spawn, Take
<1>4. /\ DOMAIN slots' = 0 .. last
      /\ \A i \in 0 .. last : i # Pick => slots'[i] = GrownTo(Pick)[i]
  BY <1>2, <1>3
<1>5. ~NewSlot.in_use
  BY DEF NewSlot
<1> QED
  BY <1>1, <1>2, <1>4, <1>5

\* A spawn takes no reserved slot.
LEMMA SpawnLeavesReserved ==
  ASSUME EdictsTypeOK, Spawn
  PROVE  \A e \in 1 .. FirstSpawnable - 1 : InUse(e)' => InUse(e)
<1> SUFFICES ASSUME NEW e \in 1 .. FirstSpawnable - 1, InUse(e)'
             PROVE  InUse(e)
  OBVIOUS
<1>1. e # Pick
  BY SpawnEffect, EdictsAssumption DEF Ents
<1>2. e \in DOMAIN slots' /\ slots'[e].in_use
  BY DEF InUse
<1> QED
  BY <1>1, <1>2, SpawnEffect DEF InUse

\* A spawn takes a resting slot only when there is nothing else to take.
LEMMA SpawnLeavesResting ==
  ASSUME EdictsTypeOK, Spawn, NEW e \in DOMAIN slots,
         InUse(e)', ~InUse(e), Resting(e)
  PROVE  /\ Cardinality(DOMAIN slots) >= MaxEdicts
         /\ \A o \in DOMAIN slots : o >= FirstSpawnable /\ ~InUse(o) => Resting(o)
<1>1. e = Pick
  BY SpawnEffect DEF InUse
<1>2. \A o \in DOMAIN slots : slots[o].freetime \in Int
  BY TableSize DEF EntSlot
<1>3. clock \in Int /\ Early \in Int /\ Quiet \in Int
  BY EdictsAssumption DEF EdictsTypeOK
<1>4. \A o \in DOMAIN slots : ~slots[o].in_use => (Reusable(slots[o]) <=> ~Resting(o))
  BY <1>2, <1>3 DEF Reusable, Resting
<1>5. e \notin Ready
  BY <1>4 DEF Ready, Spawnable
<1>6. Ready = {} /\ NumEdicts >= MaxEdicts
  BY <1>1, <1>5, PickFacts DEF Spawn
<1>7. \A o \in DOMAIN slots : o >= FirstSpawnable /\ ~slots[o].in_use => ~Reusable(slots[o])
  BY <1>6 DEF Ready, Spawnable
<1> QED
  BY <1>4, <1>6, <1>7 DEF InUse, NumEdicts
-----------------------------------------------------------------------------
(* Serials.                                                                *)

\* While serials do not wrap, that of a slot is the number of its occupants so far.
SerialsCount ==
  \A e \in Ents : lives[e] = SerialOf(e) /\ (InUse(e) => lives[e] > 0)

\* An operation of the table only adds occupants, and a slot that comes into use gets one.
LivesGrow == \A e \in Ents : lives[e]' >= lives[e] /\ (InUse(e)' /\ ~InUse(e) => lives[e]' > lives[e])

LEMMA SerialsInit ==
  ASSUME EdictsInit
  PROVE  SerialsCount
<1>1. /\ DOMAIN slots = {World} /\ slots[World] = [NewSlot EXCEPT !.in_use = TRUE, !.serial = 1]
      /\ \A e \in Ents : lives[e] = IF e = World THEN 1 ELSE 0
  BY DEF EdictsInit
<1>2. slots[World].serial = 1
  BY <1>1 DEF NewSlot
<1>3. \A e \in Ents : lives[e] = SerialOf(e)
  BY <1>1, <1>2 DEF SerialOf
<1>4. \A e \in Ents : InUse(e) => e = World
  BY <1>1 DEF InUse
<1> QED
  BY <1>1, <1>3, <1>4 DEF SerialsCount

LEMMA NextSerial ==
  ASSUME NEW n \in Nat, NEW m \in Nat, n + 1 < m
  PROVE  (n + 1) % m = n + 1
OBVIOUS

LEMMA TakeSerials ==
  ASSUME EdictsTypeOK, TakesCount, SerialsCount, NEW e \in Ents, NEW slot \in EntSlot,
         Take(e, slot), slot.in_use, slot.serial = (GrownTo(e)[e].serial + 1) % SerialMod
  PROVE  SerialsCount' /\ LivesGrow
<1> DEFINE last == IF e >= NumEdicts - 1 THEN e ELSE NumEdicts - 1
<1>1. /\ GrownTo(e) \in [0 .. last -> EntSlot]
      /\ e \in 0 .. last /\ (DOMAIN slots) \subseteq 0 .. last
      /\ \A i \in 0 .. last : GrownTo(e)[i] = IF i \in DOMAIN slots THEN slots[i] ELSE NewSlot
  BY Growing
<1> HIDE DEF last
<1>2. slots' = [GrownTo(e) EXCEPT ![e] = slot] /\ lives' = [lives EXCEPT ![e] = @ + 1]
  BY DEF Take
<1>3. /\ DOMAIN slots' = 0 .. last /\ slots'[e] = slot
      /\ \A i \in 0 .. last : i # e => slots'[i] = IF i \in DOMAIN slots THEN slots[i] ELSE NewSlot
  BY <1>1, <1>2
<1>4. lives \in [Ents -> 0 .. MaxTakes]
  BY DEF EdictsTypeOK
<1>5. /\ lives'[e] = lives[e] + 1 /\ lives[e] \in Nat
      /\ \A o \in Ents : o # e => lives'[o] = lives[o]
      /\ \A o \in Ents : lives[o] \in Nat
  BY <1>2, <1>4
<1>6. GrownTo(e)[e].serial = lives[e]
  BY <1>1 DEF SerialsCount, SerialOf, NewSlot
<1>7. lives[e] + 1 < SerialMod /\ SerialMod \in Nat
  <2>1. lives[e] <= takes /\ takes < MaxTakes /\ takes \in Int
    BY DEF TakesCount, Take, EdictsTypeOK
  <2> QED
    BY <1>5, <2>1, EdictsAssumption
<1>8. slot.serial = lives'[e]
  BY <1>5, <1>6, <1>7, NextSerial
<1>9. ASSUME NEW o \in Ents, o # e
      PROVE  SerialOf(o)' = SerialOf(o) /\ (InUse(o)' <=> InUse(o))
  BY <1>1, <1>3, <1>9 DEF SerialOf, InUse, NewSlot
<1>10. SerialOf(e)' = lives'[e]
  BY <1>1, <1>3, <1>8 DEF SerialOf
<1>11. ASSUME NEW o \in Ents
       PROVE  /\ lives'[o] = SerialOf(o)' /\ (InUse(o)' => lives'[o] > 0)
              /\ lives'[o] >= lives[o] /\ (InUse(o)' /\ ~InUse(o) => lives'[o] > lives[o])
  <2>1. CASE o = e
    BY <1>5, <1>10, <2>1
  <2>2. CASE o # e
    BY <1>5, <1>9, <2>2 DEF SerialsCount
  <2> QED
    BY <2>1, <2>2
<1> QED
  BY <1>11 DEF SerialsCount, LivesGrow

\* Every operation keeps serial and number of occupants equal.
LEMMA SerialsStep ==
  ASSUME EdictsTypeOK, TakesCount, SerialsCount, TableStep
  PROVE  SerialsCount' /\ LivesGrow
<1>1. CASE Spawn
  <2>1. Pick \in Ents
    BY <1>1, PickFacts DEF Spawn
  <2> DEFINE old == GrownTo(Pick)[Pick]
  <2>2. old \in EntSlot
    BY <2>1, Growing
  <2>3. Taken(old) \in EntSlot /\ Taken(old).in_use
        /\ Taken(old).serial = (old.serial + 1) % SerialMod
    BY <2>2, TakenType DEF Taken, EntSlot
  <2> QED
    BY <1>1, <2>1, <2>3, TakeSerials DEF Spawn
<1>2. CASE UNCHANGED <<slots, lives>>
  BY <1>2 DEF SerialsCount, LivesGrow, SerialOf, InUse, EdictsTypeOK
<1>3. ASSUME NEW e \in Ents, NEW b \in BOOLEAN, RemoveEdict(e, b) \/ Protect(e, b)
      PROVE  SerialsCount' /\ LivesGrow
  <2>1. DOMAIN slots' = DOMAIN slots /\ lives' = lives
        /\ \A o \in DOMAIN slots : slots'[o].serial = slots[o].serial
                                   /\ (slots'[o].in_use => slots[o].in_use)
    <3>1. \A o \in DOMAIN slots : slots[o] \in EntSlot
      BY TableSize
    <3>2. \/ slots' = [slots EXCEPT ![e].in_use = FALSE, ![e].freetime = FreeTime(b)]
          \/ slots' = [slots EXCEPT ![e].protected = b]
      BY <1>3 DEF RemoveEdict, Protect
    <3> QED
      BY <1>3, <3>1, <3>2 DEF RemoveEdict, Protect, EntSlot
  <2>2. \A o \in Ents : SerialOf(o)' = SerialOf(o) /\ (InUse(o)' => InUse(o))
    BY <2>1 DEF SerialOf, InUse
  <2> QED
    BY <2>1, <2>2 DEF SerialsCount, LivesGrow, EdictsTypeOK
<1>4. ASSUME NEW e \in Ents, Claim(e)
      PROVE  SerialsCount' /\ LivesGrow
  <2> DEFINE old == GrownTo(e)[e]
             slot == [Taken(old) EXCEPT !.freetime = 0]
  <2>1. old \in EntSlot
    BY Growing
  <2>2. slot \in EntSlot /\ slot.in_use /\ slot.serial = (old.serial + 1) % SerialMod
    <3>1. Taken(old) \in EntSlot /\ Taken(old).in_use
          /\ Taken(old).serial = (old.serial + 1) % SerialMod
      BY <2>1, TakenType DEF Taken, EntSlot
    <3>2. 0 \in 0 .. MaxClock
      BY EdictsAssumption
    <3> QED
      BY <3>1, <3>2 DEF EntSlot
  <2> QED
    BY <1>4, <2>2, TakeSerials DEF Claim
<1> QED
  BY <1>1, <1>2, <1>3, <1>4 DEF TableStep, SpawnFails, Tick, edicts

-----------------------------------------------------------------------------
(* THE WALK (module EntityWalk).                                           *)

\* The slots the walk is done with.
Passed(e) == IF walk.phase = "add" THEN e <= walk.index ELSE e < walk.index

\* While a walk is under way its index stays below the limit, and the limit inside the
\* table: no slot is ever taken out of the table.
WalkInTable ==
  /\ walk.phase # "off" => walk.index >= 1 /\ walk.limit <= NumEdicts
  /\ walk.phase \in {"predraw", "add"} => walk.index < walk.limit
  /\ walk.phase = "off" => added = <<>> /\ steady = {}

\* What has been handed on lies behind the index, in order.
AddedBehind ==
  /\ \A i \in DOMAIN added : Passed(added[i][1])
  /\ \A i, j \in DOMAIN added : i < j => added[i][1] < added[j][1]

\* A steady entity is in use and visible, and has been handed on once the walk has
\* passed it.
SteadyVisited ==
  \A e \in steady :
    /\ e >= 1 /\ e < walk.limit /\ InUse(e) /\ visible[e]
    /\ Passed(e) => <<e, lives[e]>> \in Range(added)

\* The inductive invariant.
WalkInv == WalkTypeOK /\ TakesCount /\ WalkInTable /\ AddedBehind /\ SteadyVisited

-----------------------------------------------------------------------------
\* The table never shrinks.
LEMMA TableGrows ==
  ASSUME EdictsTypeOK, TakesCount, TableStep
  PROVE  (DOMAIN slots) \subseteq DOMAIN slots' /\ NumEdicts <= NumEdicts'
<1>1. EdictsTypeOK'
  BY TableTypes
<1>2. (DOMAIN slots) \subseteq DOMAIN slots'
  <2>1. CASE Spawn
    BY <2>1, SpawnEffect, Growing DEF Spawn, Take
  <2>2. ASSUME NEW e \in Ents, Claim(e)
        PROVE  (DOMAIN slots) \subseteq DOMAIN slots'
    BY <2>2, Growing DEF Claim, Take
  <2>3. ASSUME NEW e \in Ents, NEW b \in BOOLEAN, RemoveEdict(e, b) \/ Protect(e, b)
        PROVE  (DOMAIN slots) \subseteq DOMAIN slots'
    BY <2>3, TableSize DEF RemoveEdict, Protect
  <2>4. CASE SpawnFails \/ Tick \/ UNCHANGED edicts
    BY <2>4 DEF SpawnFails, Tick, edicts
  <2> QED
    BY <2>1, <2>2, <2>3, <2>4 DEF TableStep
<1>3. NumEdicts \in Int /\ DOMAIN slots = 0 .. NumEdicts - 1
  BY TableSize
<1>4. NumEdicts' \in Int /\ DOMAIN slots' = 0 .. NumEdicts' - 1
  <2>1. \E n \in 1 .. MaxEdicts : slots' \in [0 .. n - 1 -> EntSlot]
    BY <1>1 DEF EdictsTypeOK
  <2> QED
    BY <2>1, SizeOfTable, EdictsAssumption DEF NumEdicts
<1>5. NumEdicts >= 1
  BY TableSize
<1>6. PICK n \in Int : n = NumEdicts
  BY <1>3
<1>7. PICK m \in Int : m = NumEdicts'
  BY <1>4
<1>8. n - 1 \in DOMAIN slots
  BY <1>3, <1>5, <1>6
<1>9. n - 1 \in 0 .. m - 1
  BY <1>2, <1>4, <1>7, <1>8
<1>10. n <= m
  BY <1>9
<1> QED
  BY <1>2, <1>6, <1>7, <1>10

LEMMA AppendFacts ==
  ASSUME NEW S, NEW s \in Seq(S), NEW v \in S
  PROVE  /\ Append(s, v) \in Seq(S) /\ Len(s) \in Nat
         /\ DOMAIN s = 1 .. Len(s) /\ DOMAIN Append(s, v) = 1 .. Len(s) + 1
         /\ \A i \in 1 .. Len(s) : Append(s, v)[i] = s[i]
         /\ Append(s, v)[Len(s) + 1] = v
         /\ Range(s) \subseteq Range(Append(s, v)) /\ v \in Range(Append(s, v))
<1>1. /\ Append(s, v) \in Seq(S) /\ Len(s) \in Nat
      /\ DOMAIN s = 1 .. Len(s) /\ DOMAIN Append(s, v) = 1 .. Len(s) + 1
      /\ \A i \in 1 .. Len(s) : Append(s, v)[i] = s[i]
      /\ Append(s, v)[Len(s) + 1] = v
  OBVIOUS
<1>2. 1 .. Len(s) \subseteq 1 .. Len(s) + 1 /\ Len(s) + 1 \in 1 .. Len(s) + 1
  BY <1>1
<1> QED
  BY <1>1, <1>2 DEF Range

-----------------------------------------------------------------------------
(* Steps of other code.                                                    *)

WalkState == <<selfGlobal, walk, added, initial>>

LEMMA OtherCodeKeeps ==
  ASSUME WalkInv, TableStep, UNCHANGED <<walk, added>>, selfGlobal' \in Ents,
         visible' \in [Ents -> BOOLEAN], hooked' \in [Ents -> BOOLEAN],
         steady' \subseteq {e \in steady : InUse(e)' /\ lives'[e] = lives[e] /\ visible'[e]}
  PROVE  WalkInv'
<1>1. EdictsTypeOK' /\ TakesCount'
  BY TableTypes DEF WalkInv, WalkTypeOK
<1>2. NumEdicts \in Int /\ NumEdicts' \in Int /\ NumEdicts <= NumEdicts'
  <2>1. \E n \in 1 .. MaxEdicts : slots' \in [0 .. n - 1 -> EntSlot]
    BY <1>1 DEF EdictsTypeOK
  <2>2. NumEdicts' \in Int
    BY <2>1, SizeOfTable, EdictsAssumption DEF NumEdicts
  <2> QED
    BY <2>2, TableSize, TableGrows DEF WalkInv, WalkTypeOK
<1>3. WalkTypeOK'
  BY <1>1 DEF WalkInv, WalkTypeOK
<1>4. WalkInTable'
  <2>1. walk.limit \in Int
    BY EdictsAssumption DEF WalkInv, WalkTypeOK
  <2>2. PICK n \in Int, m \in Int : n = NumEdicts /\ m = NumEdicts' /\ n <= m
    BY <1>2
  <2>3. walk.phase # "off" => walk.limit <= n
    BY <2>2 DEF WalkInv, WalkInTable
  <2>4. walk.phase # "off" => walk.limit <= m
    BY <2>1, <2>2, <2>3
  <2> QED
    BY <2>2, <2>4 DEF WalkInv, WalkInTable
<1>5. AddedBehind'
  BY DEF WalkInv, AddedBehind, Passed
<1>6. SteadyVisited'
  BY DEF WalkInv, SteadyVisited, Passed
<1> QED
  BY <1>1, <1>3, <1>4, <1>5, <1>6 DEF WalkInv

LEMMA ChangeTableKeeps ==
  ASSUME WalkInv, ChangeEntities
  PROVE  WalkInv'
<1>1. visible \in [Ents -> BOOLEAN] /\ hooked \in [Ents -> BOOLEAN]
  BY DEF WalkInv, WalkTypeOK
<1>2. visible' \in [Ents -> BOOLEAN] /\ hooked' \in [Ents -> BOOLEAN] /\ TableStep
  <2>1. CASE SpawnEntity
    BY <1>1, <2>1 DEF SpawnEntity, Zeroed, TableStep
  <2>2. CASE SpawnFails /\ UNCHANGED <<visible, hooked>>
    BY <1>1, <2>2 DEF TableStep
  <2>3. ASSUME NEW e \in Ents, NEW b \in BOOLEAN, Protect(e, b), UNCHANGED <<visible, hooked>>
        PROVE  visible' \in [Ents -> BOOLEAN] /\ hooked' \in [Ents -> BOOLEAN] /\ TableStep
    BY <1>1, <2>3 DEF TableStep
  <2>4. ASSUME NEW e \in Ents, ClaimEntity(e)
        PROVE  visible' \in [Ents -> BOOLEAN] /\ hooked' \in [Ents -> BOOLEAN] /\ TableStep
    BY <1>1, <2>4 DEF ClaimEntity, Zeroed, TableStep
  <2>5. ASSUME NEW e \in Ents, NEW b \in BOOLEAN, RemoveEntity(e, b)
        PROVE  visible' \in [Ents -> BOOLEAN] /\ hooked' \in [Ents -> BOOLEAN] /\ TableStep
    BY <1>1, <2>5 DEF RemoveEntity, Zeroed, TableStep
  <2> QED
    BY <2>1, <2>2, <2>3, <2>4, <2>5 DEF ChangeEntities
<1>3. UNCHANGED <<walk, added>> /\ selfGlobal' \in Ents
  BY DEF ChangeEntities, WalkInv, WalkTypeOK
<1>4. steady' = {e \in steady : InUse(e)' /\ lives'[e] = lives[e] /\ visible'[e]}
  BY DEF ChangeEntities, KeepSteady
<1> QED
  BY <1>2, <1>3, <1>4, OtherCodeKeeps

LEMMA PassTimeKeeps ==
  ASSUME WalkInv, PassTime
  PROVE  WalkInv'
<1>1. /\ TableStep /\ UNCHANGED <<walk, added, steady, visible, hooked, selfGlobal, slots, lives>>
  BY DEF PassTime, TableStep, Tick
<1>2. steady' \subseteq {e \in steady : InUse(e)' /\ lives'[e] = lives[e] /\ visible'[e]}
  BY <1>1 DEF InUse, WalkInv, SteadyVisited
<1>3. /\ visible' \in [Ents -> BOOLEAN] /\ hooked' \in [Ents -> BOOLEAN] /\ selfGlobal' \in Ents
  BY <1>1 DEF WalkInv, WalkTypeOK
<1> QED
  BY <1>1, <1>2, <1>3, OtherCodeKeeps

LEMMA SetFieldsKeeps ==
  ASSUME WalkInv, NEW e \in Ents, NEW shown \in BOOLEAN, NEW hook \in BOOLEAN,
         SetFields(e, shown, hook)
  PROVE  WalkInv'
<1>1. /\ TableStep /\ UNCHANGED <<walk, added, selfGlobal>>
      /\ steady' = {o \in steady : InUse(o)' /\ lives'[o] = lives[o] /\ visible'[o]}
  BY DEF SetFields, TableStep, KeepSteady
<1>2. /\ visible' \in [Ents -> BOOLEAN] /\ hooked' \in [Ents -> BOOLEAN] /\ selfGlobal' \in Ents
  BY <1>1 DEF SetFields, WalkInv, WalkTypeOK
<1> QED
  BY <1>1, <1>2, OtherCodeKeeps

-----------------------------------------------------------------------------
(* Steps of the walk.                                                      *)

\* A step of the walk leaves the table alone.
LEMMA TableUnchanged ==
  ASSUME WalkInv, UNCHANGED edicts
  PROVE  /\ EdictsTypeOK' /\ TakesCount' /\ UNCHANGED <<slots, lives>>
         /\ NumEdicts' = NumEdicts /\ \A e : InUse(e)' = InUse(e)
<1>1. EdictsTypeOK' /\ TakesCount'
  BY TableTypes DEF TableStep, WalkInv, WalkTypeOK
<1> QED
  BY <1>1 DEF edicts, NumEdicts, InUse

\* The numbers a walk works with.
LEMMA WalkNumbers ==
  ASSUME WalkInv
  PROVE  /\ walk.index \in Nat /\ walk.limit \in Nat /\ NumEdicts \in Nat
         /\ NumEdicts <= MaxEdicts /\ MaxEdicts \in Nat /\ NumEdicts >= 1
         /\ walk.phase # "off" => walk.limit <= MaxEdicts /\ walk.index >= 1
<1>1. /\ walk.index \in Nat /\ walk.limit \in Nat /\ NumEdicts \in Nat
      /\ NumEdicts <= MaxEdicts /\ NumEdicts >= 1 /\ MaxEdicts \in Nat
  BY TableSize, EdictsAssumption DEF WalkInv, WalkTypeOK
<1>2. walk.phase # "off" => walk.index >= 1 /\ walk.limit <= NumEdicts
  BY DEF WalkInv, WalkInTable
<1> QED
  BY <1>1, <1>2

Walk == [phase : {"off", "step", "predraw", "add"}, index : 0 .. MaxEdicts,
         limit : 0 .. MaxEdicts, saved : Ents]

\* The walk goes on to the next slot; what it leaves behind is no longer steady, or has
\* been handed on.
LEMMA NextIndexKeeps ==
  ASSUME WalkInv, UNCHANGED <<edicts, visible, hooked, added>>, walk' = NextIndex,
         walk.phase # "off", walk.index < walk.limit,
         selfGlobal' \in Ents, steady' \subseteq steady,
         walk.index \in steady' => walk.phase = "add"
  PROVE  WalkInv'
<1>1. /\ walk \in Walk /\ walk.index \in Nat /\ walk.limit \in Nat /\ MaxEdicts \in Nat
      /\ walk.limit <= MaxEdicts
  BY WalkNumbers DEF WalkInv, WalkTypeOK, Walk
<1>2. /\ walk' = [walk EXCEPT !.phase = "step", !.index = walk.index + 1]
      /\ walk'.phase = "step" /\ walk'.index = walk.index + 1
      /\ walk'.limit = walk.limit /\ walk'.saved = walk.saved
  BY <1>1 DEF NextIndex, Walk
<1>3. walk.index + 1 \in 0 .. MaxEdicts
  BY <1>1
<1>4. walk' \in Walk
  BY <1>1, <1>2, <1>3 DEF Walk
<1>5. EdictsTypeOK' /\ TakesCount' /\ NumEdicts' = NumEdicts /\ lives' = lives
      /\ \A e : InUse(e)' = InUse(e)
  BY TableUnchanged
<1>6. WalkTypeOK'
  BY <1>4, <1>5 DEF WalkInv, WalkTypeOK, Walk
<1>7. WalkInTable'
  BY <1>1, <1>2, <1>5 DEF WalkInv, WalkInTable
<1>8. \A e \in Nat : Passed(e) => Passed(e)'
  BY <1>1, <1>2 DEF Passed
<1>9. \A i \in DOMAIN added : added[i][1] \in Nat
  BY DEF WalkInv, WalkTypeOK, Ents
<1>10. AddedBehind'
  BY <1>8, <1>9 DEF WalkInv, AddedBehind
<1>11. ASSUME NEW e \in steady'
       PROVE  /\ e >= 1 /\ e < walk'.limit /\ InUse(e)' /\ visible'[e]
              /\ Passed(e)' => <<e, lives'[e]>> \in Range(added')
  <2>1. /\ e \in steady /\ e >= 1 /\ e < walk.limit /\ InUse(e) /\ visible[e]
        /\ Passed(e) => <<e, lives[e]>> \in Range(added)
    BY DEF WalkInv, SteadyVisited
  <2>2. e \in Nat
    BY <2>1 DEF WalkInv, WalkTypeOK, Ents
  <2>3. Passed(e)' => e <= walk.index
    BY <1>1, <1>2, <2>2 DEF Passed
  <2>4. e < walk.index => Passed(e)
    BY <1>1, <2>2 DEF Passed
  <2>5. e = walk.index => walk.phase = "add"
    OBVIOUS
  <2>6. Passed(e)' => Passed(e)
    BY <1>1, <2>2, <2>3, <2>4, <2>5 DEF Passed
  <2> QED
    BY <1>2, <1>5, <2>1, <2>6
<1>12. SteadyVisited'
  BY <1>11 DEF SteadyVisited
<1> QED
  BY <1>5, <1>6, <1>7, <1>10, <1>12 DEF WalkInv

\* The entity at the index is handed on.
LEMMA AddKeeps ==
  ASSUME WalkInv, UNCHANGED <<edicts, visible, hooked>>, Add,
         walk.phase \in {"step", "predraw"}, walk.index < walk.limit,
         selfGlobal' \in Ents, steady' \subseteq steady
  PROVE  WalkInv'
<1> DEFINE v == <<walk.index, lives[walk.index]>>
<1>1. /\ walk \in Walk /\ walk.index \in Nat /\ walk.limit \in Nat /\ MaxEdicts \in Nat
      /\ walk.limit <= MaxEdicts /\ walk.phase # "off" /\ walk.index >= 1
  BY WalkNumbers DEF WalkInv, WalkTypeOK, Walk
<1>2. /\ walk' = [walk EXCEPT !.phase = "add"]
      /\ walk'.phase = "add" /\ walk'.index = walk.index
      /\ walk'.limit = walk.limit /\ walk'.saved = walk.saved
  BY <1>1 DEF Add, Walk
<1>3. walk' \in Walk
  BY <1>1, <1>2 DEF Walk
<1>4. EdictsTypeOK' /\ TakesCount' /\ NumEdicts' = NumEdicts /\ lives' = lives
      /\ \A e : InUse(e)' = InUse(e)
  BY TableUnchanged
<1>5. walk.index \in Ents
  BY <1>1 DEF Ents
<1>6. v \in Ents \X (0 .. MaxTakes) /\ v[1] = walk.index
  BY <1>5 DEF WalkInv, WalkTypeOK, EdictsTypeOK
<1>7. added \in Seq(Ents \X (0 .. MaxTakes)) /\ added' = Append(added, v)
  BY DEF WalkInv, WalkTypeOK, Add
<1> HIDE DEF v
<1>8. /\ added' \in Seq(Ents \X (0 .. MaxTakes)) /\ Len(added) \in Nat
      /\ DOMAIN added = 1 .. Len(added) /\ DOMAIN added' = 1 .. Len(added) + 1
      /\ \A i \in 1 .. Len(added) : added'[i] = added[i]
      /\ added'[Len(added) + 1] = v
      /\ Range(added) \subseteq Range(added') /\ v \in Range(added')
  BY <1>6, <1>7, AppendFacts
<1>9. WalkTypeOK'
  BY <1>3, <1>4, <1>8 DEF WalkInv, WalkTypeOK, Walk
<1>10. WalkInTable'
  BY <1>1, <1>2, <1>4 DEF WalkInv, WalkInTable
<1>11. \A i \in 1 .. Len(added) : added[i][1] \in Nat /\ added[i][1] < walk.index
  <2>1. \A i \in 1 .. Len(added) : added[i] \in Ents \X (0 .. MaxTakes)
    BY <1>7, <1>8
  <2>2. \A i \in 1 .. Len(added) : added[i][1] \in Nat
    BY <2>1 DEF Ents
  <2>3. \A i \in 1 .. Len(added) : added[i][1] < walk.index
    BY <1>8 DEF WalkInv, AddedBehind, Passed
  <2> QED
    BY <2>2, <2>3
<1>12. AddedBehind'
  <2>1. \A i \in 1 .. Len(added) + 1 : i \in 1 .. Len(added) \/ i = Len(added) + 1
    BY <1>8
  <2>2. \A i \in 1 .. Len(added) + 1 : added'[i][1] <= walk.index
    <3>1. \A i \in 1 .. Len(added) : added'[i][1] <= walk.index
      BY <1>1, <1>8, <1>11
    <3>2. added'[Len(added) + 1][1] = walk.index /\ walk.index <= walk.index
      BY <1>1, <1>6, <1>8
    <3> QED
      BY <2>1, <3>1, <3>2
  <2>3. ASSUME NEW i \in 1 .. Len(added) + 1, NEW j \in 1 .. Len(added) + 1, i < j
        PROVE  added'[i][1] < added'[j][1]
    <3>1. i \in 1 .. Len(added)
      BY <1>8, <2>3
    <3>2. CASE j \in 1 .. Len(added)
      BY <1>8, <2>3, <3>1, <3>2 DEF WalkInv, AddedBehind
    <3>3. CASE j = Len(added) + 1
      BY <1>6, <1>8, <1>11, <3>1, <3>3
    <3> QED
      BY <2>1, <3>2, <3>3
  <2> QED
    BY <1>2, <1>8, <2>2, <2>3 DEF AddedBehind, Passed
<1>13. ASSUME NEW e \in steady'
       PROVE  /\ e >= 1 /\ e < walk'.limit /\ InUse(e)' /\ visible'[e]
              /\ Passed(e)' => <<e, lives'[e]>> \in Range(added')
  <2>1. /\ e \in steady /\ e >= 1 /\ e < walk.limit /\ InUse(e) /\ visible[e]
        /\ Passed(e) => <<e, lives[e]>> \in Range(added)
    BY DEF WalkInv, SteadyVisited
  <2>2. e \in Nat
    BY <2>1 DEF WalkInv, WalkTypeOK, Ents
  <2>3. Passed(e)' => e = walk.index \/ Passed(e)
    BY <1>1, <1>2, <2>2 DEF Passed
  <2>4. e = walk.index => <<e, lives[e]>> = v
    BY DEF v
  <2> QED
    BY <1>2, <1>4, <1>8, <2>1, <2>3, <2>4
<1>14. SteadyVisited'
  BY <1>13 DEF SteadyVisited
<1> QED
  BY <1>4, <1>9, <1>10, <1>12, <1>14 DEF WalkInv

\* The walk begins, calls a predraw function, or is over.
LEMMA StartWalkKeeps ==
  ASSUME WalkInv, StartWalk
  PROVE  WalkInv'
<1>1. /\ NumEdicts \in 1 .. MaxEdicts /\ DOMAIN slots = 0 .. NumEdicts - 1
      /\ MaxEdicts \in Nat \ {0}
  BY TableSize, EdictsAssumption DEF WalkInv, WalkTypeOK
<1>2. /\ walk' = [phase |-> "step", index |-> 1, limit |-> NumEdicts, saved |-> World]
      /\ added' = <<>> /\ UNCHANGED <<edicts, visible, hooked, selfGlobal>>
      /\ steady' = {e \in Ents \ {World} : InUse(e) /\ visible[e]}
  BY DEF StartWalk, Limit
<1>3. /\ EdictsTypeOK' /\ TakesCount' /\ NumEdicts' = NumEdicts
      /\ \A e : InUse(e)' = InUse(e)
  BY <1>2, TableUnchanged
<1>4. World \in Ents /\ 1 \in 0 .. MaxEdicts /\ NumEdicts \in 0 .. MaxEdicts
  BY <1>1 DEF World, Ents
<1>5. walk' \in Walk
  BY <1>2, <1>4 DEF Walk
<1>6. WalkTypeOK'
  BY <1>2, <1>3, <1>5 DEF WalkInv, WalkTypeOK, Walk
<1>7. WalkInTable'
  BY <1>1, <1>2, <1>3 DEF WalkInTable
<1>8. AddedBehind'
  BY <1>2 DEF AddedBehind
<1>9. ASSUME NEW e \in steady'
      PROVE  /\ e >= 1 /\ e < walk'.limit /\ InUse(e)' /\ visible'[e] /\ ~Passed(e)'
  <2>1. e \in Ents /\ e # World /\ InUse(e) /\ visible[e]
    BY <1>2
  <2>2. e \in Nat /\ e >= 1 /\ e \in 0 .. NumEdicts - 1
    BY <1>1, <2>1 DEF InUse, Ents, World
  <2> QED
    BY <1>1, <1>2, <1>3, <2>1, <2>2 DEF Passed
<1>10. SteadyVisited'
  BY <1>9 DEF SteadyVisited
<1> QED
  BY <1>3, <1>6, <1>7, <1>8, <1>10 DEF WalkInv

LEMMA CallPredrawKeeps ==
  ASSUME WalkInv, CallPredraw
  PROVE  WalkInv'
<1>1. /\ walk \in Walk /\ walk.index \in Nat /\ walk.limit \in Nat /\ MaxEdicts \in Nat
      /\ walk.limit <= MaxEdicts /\ walk.phase = "step" /\ walk.index < walk.limit
  BY WalkNumbers DEF WalkInv, WalkTypeOK, Walk, CallPredraw, AtIndex
<1>2. walk.index \in Ents /\ selfGlobal \in Ents
  BY <1>1 DEF Ents, WalkInv, WalkTypeOK
<1>3. /\ walk' = [walk EXCEPT !.phase = "predraw", !.saved = selfGlobal]
      /\ selfGlobal' = walk.index /\ UNCHANGED <<edicts, visible, hooked, added, steady>>
  BY DEF CallPredraw
<1>4. /\ walk' \in Walk /\ walk'.phase = "predraw" /\ walk'.index = walk.index
      /\ walk'.limit = walk.limit
  BY <1>1, <1>2, <1>3 DEF Walk
<1>5. /\ EdictsTypeOK' /\ TakesCount' /\ NumEdicts' = NumEdicts /\ lives' = lives
      /\ \A e : InUse(e)' = InUse(e)
  BY <1>3, TableUnchanged
<1>6. WalkTypeOK'
  BY <1>2, <1>3, <1>4, <1>5 DEF WalkInv, WalkTypeOK, Walk
<1>7. WalkInTable'
  BY <1>1, <1>4, <1>5 DEF WalkInv, WalkInTable
<1>8. \A e : Passed(e)' = Passed(e)
  BY <1>1, <1>4 DEF Passed
<1>9. AddedBehind'
  BY <1>3, <1>8 DEF WalkInv, AddedBehind
<1>10. SteadyVisited'
  BY <1>3, <1>4, <1>5, <1>8 DEF WalkInv, SteadyVisited
<1> QED
  BY <1>5, <1>6, <1>7, <1>9, <1>10 DEF WalkInv

LEMMA EndKeeps ==
  ASSUME WalkInv, UNCHANGED <<edicts, visible, hooked>>, selfGlobal' \in Ents,
         walk' = NoWalk, added' = <<>>, steady' = {}
  PROVE  WalkInv'
<1>1. /\ EdictsTypeOK' /\ TakesCount' /\ MaxEdicts \in Nat \ {0}
  BY TableUnchanged, EdictsAssumption
<1>2. World \in Ents /\ 0 \in 0 .. MaxEdicts
  BY <1>1 DEF World, Ents
<1>3. walk' \in Walk /\ walk'.phase = "off"
  BY <1>2 DEF NoWalk, Walk
<1>4. WalkTypeOK'
  BY <1>1, <1>3 DEF WalkInv, WalkTypeOK, Walk
<1> QED
  BY <1>1, <1>3, <1>4 DEF WalkInv, WalkInTable, AddedBehind, SteadyVisited

-----------------------------------------------------------------------------
(* The invariant.                                                          *)

LEMMA WalkInitOK == WalkInit => WalkInv
<1> SUFFICES ASSUME WalkInit PROVE WalkInv
  OBVIOUS
<1>1. EdictsTypeOK /\ TakesCount
  BY TableInit DEF WalkInit
<1>2. World \in Ents /\ 0 \in 0 .. MaxEdicts
  BY EdictsAssumption DEF World, Ents
<1>3. walk \in Walk /\ walk.phase = "off" /\ added = <<>> /\ steady = {}
  BY <1>2 DEF WalkInit, NoWalk, Walk
<1>4. WalkTypeOK
  BY <1>1, <1>2, <1>3 DEF WalkInit, WalkTypeOK, Walk
<1> QED
  BY <1>1, <1>3, <1>4 DEF WalkInv, WalkInTable, AddedBehind, SteadyVisited

LEMMA WalkStepOK == WalkInv /\ [WalkNext]_walkVars => WalkInv'
<1> SUFFICES ASSUME WalkInv, [WalkNext]_walkVars PROVE WalkInv'
  OBVIOUS
<1>0. selfGlobal \in Ents /\ walk.saved \in Ents /\ \A e \in steady : InUse(e) /\ visible[e]
  BY DEF WalkInv, WalkTypeOK, SteadyVisited
<1>1. CASE ChangeEntities
  BY <1>1, ChangeTableKeeps
<1>2. CASE PassTime
  BY <1>2, PassTimeKeeps
<1>3. ASSUME NEW e \in Ents, NEW s \in BOOLEAN, NEW h \in BOOLEAN, SetFields(e, s, h)
      PROVE  WalkInv'
  BY <1>3, SetFieldsKeeps
<1>4. CASE StartWalk
  BY <1>4, StartWalkKeeps
<1>5. CASE Skip
  BY <1>0, <1>5, NextIndexKeeps DEF Skip, AtIndex, Shown
<1>6. CASE AddDirectly
  BY <1>0, <1>6, AddKeeps DEF AddDirectly, AtIndex
<1>7. CASE CallPredraw
  BY <1>7, CallPredrawKeeps
<1>8. ASSUME NEW r \in BOOLEAN, PredrawReturns(r)
      PROVE  WalkInv'
  <2>1. /\ walk.phase = "predraw" /\ walk.index < walk.limit /\ selfGlobal' \in Ents
        /\ UNCHANGED <<edicts, visible, hooked>> /\ steady' \subseteq steady
    BY <1>0, <1>8 DEF PredrawReturns, WalkInv, WalkInTable
  <2>2. CASE Hidden(r)
    <3>1. walk.index \notin steady' /\ walk' = NextIndex /\ added' = added
      BY <1>0, <1>8, <2>2 DEF PredrawReturns, Hidden
    <3> QED
      BY <2>1, <3>1, NextIndexKeeps
  <2>3. CASE ~Hidden(r)
    BY <1>8, <2>1, <2>3, AddKeeps DEF PredrawReturns
  <2> QED
    BY <2>2, <2>3
<1>9. CASE PredrawFails
  BY <1>0, <1>9, EndKeeps DEF PredrawFails
<1>10. CASE AddReturns
  <2>1. walk.phase = "add" /\ walk.index < walk.limit
    BY <1>10 DEF AddReturns, WalkInv, WalkInTable
  <2> QED
    BY <1>0, <1>10, <2>1, NextIndexKeeps DEF AddReturns
<1>11. CASE WalkEnds
  BY <1>0, <1>11, EndKeeps DEF WalkEnds
<1>12. CASE UNCHANGED walkVars
  <2>1. /\ TableStep /\ UNCHANGED <<walk, added, steady, visible, hooked, selfGlobal, slots, lives>>
    BY <1>12 DEF walkVars, TableStep, edicts
  <2>2. steady' \subseteq {e \in steady : InUse(e)' /\ lives'[e] = lives[e] /\ visible'[e]}
    BY <1>0, <2>1 DEF InUse
  <2>3. visible' \in [Ents -> BOOLEAN] /\ hooked' \in [Ents -> BOOLEAN] /\ selfGlobal' \in Ents
    BY <2>1 DEF WalkInv, WalkTypeOK
  <2> QED
    BY <2>1, <2>2, <2>3, OtherCodeKeeps
<1> QED
  BY <1>1, <1>2, <1>3, <1>4, <1>5, <1>6, <1>7, <1>8, <1>9, <1>10, <1>11, <1>12 DEF WalkNext

\* The invariant holds whatever predraw, `add` and other code do to the table between two
\* steps of add_entities.
THEOREM WalkInvariance == WalkSpec => []WalkInv
<1> QED
  BY WalkInitOK, WalkStepOK, PTL DEF WalkSpec

-----------------------------------------------------------------------------
(* The properties.                                                         *)

\* The table, its fields and the walk keep their types.
THEOREM WalkTypesHold == WalkSpec => []WalkTypeOK
<1>1. WalkInv => WalkTypeOK
  BY DEF WalkInv
<1> QED
  BY <1>1, WalkInvariance, PTL

\* Vm::spawn never hands out a reserved slot, however the table grows.
THEOREM ReservedAlwaysClaimed == WalkSpec => ReservedOnlyClaimed
<1>1. WalkInv => [Spawn => \A e \in 1 .. FirstSpawnable - 1 : InUse(e)' => InUse(e)]_edicts
  BY SpawnLeavesReserved DEF WalkInv, WalkTypeOK
<1> QED
  BY <1>1, WalkInvariance, PTL DEF ReservedOnlyClaimed

\* Vm::spawn reuses a slot that has not rested only in a full table without a slot that has.
THEOREM RemovedSlotAlwaysRests == WalkSpec => RemovedSlotRests
<1>1. WalkInv =>
        [\A e \in DOMAIN slots :
           Spawn /\ InUse(e)' /\ ~InUse(e) /\ Resting(e) =>
             /\ Cardinality(DOMAIN slots) >= MaxEdicts
             /\ \A o \in DOMAIN slots : o >= FirstSpawnable /\ ~InUse(o) => Resting(o)]_edicts
  BY SpawnLeavesResting DEF WalkInv, WalkTypeOK
<1> QED
  BY <1>1, WalkInvariance, PTL DEF RemovedSlotRests

\* Vm::spawn keeps both promises about the slot it takes.
THEOREM SlotsAlwaysRespected == WalkSpec => SlotsRespected
BY ReservedAlwaysClaimed, RemovedSlotAlwaysRests DEF SlotsRespected

\* add_entities hands on every entity that stays visible and that predraw does not hide.
THEOREM WalkNeverMisses == WalkSpec => WalkMissesNone
<1>1. WalkInv => [WalkEnds => \A e \in steady : <<e, lives[e]>> \in Range(added)]_walkVars
  <2> SUFFICES ASSUME WalkInv, WalkEnds, NEW e \in steady
               PROVE  <<e, lives[e]>> \in Range(added)
    OBVIOUS
  <2>1. walk.phase = "step" /\ walk.index >= walk.limit
    BY DEF WalkEnds
  <2>2. e < walk.limit /\ e \in Nat /\ walk.index \in Nat /\ walk.limit \in Nat
    <3>1. e \in Ents /\ e < walk.limit
      BY DEF WalkInv, SteadyVisited, WalkTypeOK
    <3> QED
      BY <3>1, WalkNumbers DEF Ents
  <2>3. Passed(e)
    BY <2>1, <2>2 DEF Passed
  <2> QED
    BY <2>3 DEF WalkInv, SteadyVisited
<1> QED
  BY <1>1, WalkInvariance, PTL DEF WalkMissesNone

\* add_entities hands on entities in slot order, each once, and none that is free.
THEOREM WalkAlwaysAddsLiveInOrder == WalkSpec => WalkAddsLiveInOrder
<1> DEFINE Good == added' # added /\ added' # <<>> =>
                     LET e == added'[Len(added')][1]
                     IN InUse(e) /\ \A i \in 1 .. Len(added) : added[i][1] < e
<1>1. WalkInv /\ [WalkNext]_walkVars => [Good]_walkVars
  <2> SUFFICES ASSUME WalkInv, WalkNext, added' # added, added' # <<>> PROVE Good
    BY DEF walkVars
  <2>1. ASSUME Add, InUse(walk.index), walk.phase \in {"step", "predraw"}
        PROVE  Good
    <3>1. added' = Append(added, <<walk.index, lives[walk.index]>>)
      BY <2>1 DEF Add
    <3>2. /\ added'[Len(added')][1] = walk.index /\ DOMAIN added = 1 .. Len(added)
      BY <3>1 DEF WalkInv, WalkTypeOK
    <3>3. \A i \in DOMAIN added : added[i][1] < walk.index
      BY <2>1 DEF WalkInv, AddedBehind, Passed
    <3> QED
      BY <2>1, <3>2, <3>3
  <2>2. \/ AddDirectly
        \/ \E r \in BOOLEAN : PredrawReturns(r)
    BY DEF WalkNext, ChangeEntities, PassTime, SetFields, StartWalk, Skip, CallPredraw,
           PredrawFails, AddReturns, WalkEnds
  <2>3. CASE AddDirectly
    BY <2>1, <2>3 DEF AddDirectly, AtIndex, Shown
  <2>4. ASSUME NEW r \in BOOLEAN, PredrawReturns(r) PROVE Good
    <3>1. Add /\ InUse(walk.index) /\ walk.phase = "predraw"
      BY <2>4 DEF PredrawReturns, Hidden
    <3> QED
      BY <2>1, <3>1
  <2> QED
    BY <2>2, <2>3, <2>4
<1> QED
  BY <1>1, WalkInvariance, PTL DEF WalkAddsLiveInOrder, WalkSpec

-----------------------------------------------------------------------------
(* THE SLEEPING THREADS (module Threads).                                  *)

-----------------------------------------------------------------------------
(* How often a thread occurs in a sequence.                                *)

\* The positions of a sequence at which t sits, among those of a set.
At(t, s, S) == {k \in S : s[k] = t}

LEMMA PositionsFinite ==
  ASSUME NEW T, NEW s \in Seq(T), NEW S \in SUBSET DOMAIN s
  PROVE  /\ IsFiniteSet(S) /\ Cardinality(S) \in Nat
<1>1. DOMAIN s = 1 .. Len(s) /\ Len(s) \in Nat
  BY LenProperties
<1>2. IsFiniteSet(1 .. Len(s))
  BY <1>1, FS_Interval
<1>3. IsFiniteSet(S)
  BY <1>1, <1>2, FS_Subset
<1> QED
  BY <1>3, FS_CardinalityType

LEMMA AtFinite ==
  ASSUME NEW T, NEW s \in Seq(T), NEW S \in SUBSET DOMAIN s, NEW t
  PROVE  IsFiniteSet(At(t, s, S)) /\ Cardinality(At(t, s, S)) \in Nat
<1>1. At(t, s, S) \in SUBSET DOMAIN s
  BY DEF At
<1> QED
  BY <1>1, PositionsFinite

LEMMA TimesType ==
  ASSUME NEW T, NEW s \in Seq(T), NEW t
  PROVE  /\ Times(t, s) \in Nat
         /\ Times(t, s) = Cardinality(At(t, s, DOMAIN s))
<1>1. Times(t, s) = Cardinality(At(t, s, DOMAIN s))
  BY DEF Times, At
<1> QED
  BY <1>1, AtFinite

\* A one-to-one map between finite sets of positions keeps their number.
LEMMA SameNumber ==
  ASSUME NEW A, NEW B, IsFiniteSet(A), NEW f \in [A -> B],
         \A b \in B : \E a \in A : f[a] = b,
         \A a1, a2 \in A : f[a1] = f[a2] => a1 = a2
  PROVE  Cardinality(A) = Cardinality(B)
<1>1. f \in Injection(A, B)
  BY DEF Injection, IsInjective
<1>2. f \in Surjection(A, B)
  BY DEF Surjection
<1>3. ExistsBijection(A, B)
  BY <1>1, <1>2 DEF Bijection, ExistsBijection
<1> QED
  BY <1>3, FS_Bijection

\* In what follows a sequence counts the occurrences in both parts of a concatenation.
LEMMA TimesConcat ==
  ASSUME NEW T, NEW s \in Seq(T), NEW u \in Seq(T), NEW t
  PROVE  Times(t, s \o u) = Times(t, s) + Times(t, u)
<1> DEFINE n == Len(s)
           m == Len(u)
           A == At(t, s, DOMAIN s)
           B == At(t, u, DOMAIN u)
           C == At(t, s \o u, n + 1 .. n + m)
           f == [i \in B |-> i + n]
<1>1. /\ n \in Nat /\ m \in Nat
      /\ DOMAIN s = 1 .. n /\ DOMAIN u = 1 .. m
  BY LenProperties
<1>2. /\ s \o u \in Seq(T) /\ Len(s \o u) = n + m
      /\ \A i \in 1 .. n + m : (s \o u)[i] = IF i <= n THEN s[i] ELSE u[i - n]
  BY ConcatProperties
<1>3. DOMAIN (s \o u) = 1 .. n + m
  BY <1>2, LenProperties
<1>4. /\ IsFiniteSet(A) /\ IsFiniteSet(B) /\ IsFiniteSet(C)
      /\ Cardinality(A) \in Nat /\ Cardinality(B) \in Nat /\ Cardinality(C) \in Nat
  <2>1. n + 1 .. n + m \in SUBSET DOMAIN (s \o u)
    BY <1>1, <1>3
  <2> QED
    BY <1>2, <2>1, AtFinite
<1>5. Cardinality(B) = Cardinality(C)
  <2>1. \A i \in 1 .. m : i + n \in n + 1 .. n + m /\ (s \o u)[i + n] = u[i]
    <3> TAKE i \in 1 .. m
    <3>1. i + n \in 1 .. n + m /\ ~(i + n <= n) /\ (i + n) - n = i
      BY <1>1
    <3> QED
      BY <1>1, <1>2, <3>1
  <2>2. f \in [B -> C]
    BY <1>1, <2>1 DEF At
  <2>3. \A c \in C : c - n \in 1 .. m /\ (c - n) + n = c
    BY <1>1 DEF At
  <2>4. \A c \in C : c - n \in B
    BY <1>1, <2>1, <2>3 DEF At
  <2>5. \A c \in C : \E i \in B : f[i] = c
    BY <2>3, <2>4
  <2>6. \A i1, i2 \in B : f[i1] = f[i2] => i1 = i2
    BY <1>1 DEF At
  <2> HIDE DEF f, B, C
  <2> QED
    BY <1>4, <2>2, <2>5, <2>6, SameNumber
<1>6. At(t, s \o u, DOMAIN (s \o u)) = A \cup C
  <2>1. \A i \in 1 .. n : i \in 1 .. n + m /\ (s \o u)[i] = s[i]
    BY <1>1, <1>2
  <2>2. 1 .. n + m = (1 .. n) \cup (n + 1 .. n + m)
    BY <1>1
  <2> QED
    BY <1>1, <1>3, <2>1, <2>2 DEF At
<1>7. A \cap C = {}
  BY <1>1 DEF At
<1>8. Cardinality(A \cup C) = Cardinality(A) + Cardinality(C)
  <2> HIDE DEF A, C
  <2>1. Cardinality(A \cup C) = Cardinality(A) + Cardinality(C) - Cardinality({})
    BY <1>4, <1>7, FS_Union
  <2> QED
    BY <1>4, <2>1, FS_EmptySet
<1>9. Times(t, s \o u) = Cardinality(A \cup C)
  BY <1>2, <1>6, TimesType
<1> QED
  BY <1>5, <1>8, <1>9, TimesType

LEMMA TimesOne ==
  ASSUME NEW x, NEW t
  PROVE  Times(t, <<x>>) = IF x = t THEN 1 ELSE 0
<1>1. {i \in DOMAIN <<x>> : <<x>>[i] = t} = IF x = t THEN {1} ELSE {}
  OBVIOUS
<1> QED
  BY <1>1, FS_Singleton, FS_EmptySet DEF Times

LEMMA TimesEmpty ==
  ASSUME NEW t
  PROVE  Times(t, <<>>) = 0
<1>1. {i \in DOMAIN <<>> : <<>>[i] = t} = {}
  OBVIOUS
<1> QED
  BY <1>1, FS_EmptySet DEF Times

LEMMA TimesAppend ==
  ASSUME NEW T, NEW s \in Seq(T), NEW x \in T, NEW t
  PROVE  Times(t, Append(s, x)) = Times(t, s) + (IF x = t THEN 1 ELSE 0)
<1> DEFINE one == <<x>>
<1>1. Append(s, x) = s \o one /\ one \in Seq(T)
  BY AppendIsConcat
<1>2. Times(t, one) = IF x = t THEN 1 ELSE 0
  BY TimesOne
<1> HIDE DEF one
<1>3. Times(t, s \o one) = Times(t, s) + Times(t, one)
  BY <1>1, TimesConcat
<1> QED
  BY <1>1, <1>2, <1>3

LEMMA HeadThenTail ==
  ASSUME NEW T, NEW s \in Seq(T), s # <<>>
  PROVE  /\ Head(s) \in T /\ Tail(s) \in Seq(T) /\ Len(Tail(s)) = Len(s) - 1
         /\ s = <<Head(s)>> \o Tail(s)
         /\ \A t : Times(t, s) = (IF Head(s) = t THEN 1 ELSE 0) + Times(t, Tail(s))
<1>1. Head(s) \in T /\ Tail(s) \in Seq(T) /\ Len(Tail(s)) = Len(s) - 1
  BY HeadTailProperties
<1> DEFINE one == <<Head(s)>>
<1>2. s = one \o Tail(s) /\ one \in Seq(T)
  BY <1>1, LenProperties, EmptySeq
<1>3. \A t : Times(t, one) = IF Head(s) = t THEN 1 ELSE 0
  BY TimesOne
<1> HIDE DEF one
<1>4. \A t : Times(t, one \o Tail(s)) = Times(t, one) + Times(t, Tail(s))
  BY <1>1, <1>2, TimesConcat
<1>5. \A t : Times(t, s) = (IF Head(s) = t THEN 1 ELSE 0) + Times(t, Tail(s))
  BY <1>2, <1>3, <1>4
<1> QED
  BY <1>1, <1>2, <1>5 DEF one
-----------------------------------------------------------------------------
(* Taking threads out of the list in some order.                           *)

LEMMA SeqOfFunction ==
  ASSUME NEW T, NEW n \in Nat, NEW q \in [1 .. n -> T]
  PROVE  q \in Seq(T) /\ Len(q) = n /\ DOMAIN q = 1 .. n
<1>1. q \in Seq(T)
  BY SeqDef
<1>2. DOMAIN q = 1 .. n /\ DOMAIN q = 1 .. Len(q) /\ Len(q) \in Nat
  BY <1>1, LenProperties
<1> QED
  BY <1>1, <1>2

\* The elements of s at the positions p gives them.
Chosen(s, p) == [i \in DOMAIN p |-> s[p[i]]]

\* p visits each position of S once.
Visits(p, S) ==
  /\ p \in [1 .. Cardinality(S) -> S] /\ Range(p) = S
  /\ \A i, j \in DOMAIN p : i < j => p[i] # p[j]

\* q holds what s holds at the positions of S, each as often.
HoldsThose(q, s, S) == \A t : Times(t, q) = Cardinality(At(t, s, S))

LEMMA ChosenFacts ==
  ASSUME NEW T, NEW s \in Seq(T), NEW S \in SUBSET DOMAIN s, NEW p, Visits(p, S)
  PROVE  /\ Chosen(s, p) \in Seq(T) /\ Len(Chosen(s, p)) = Cardinality(S)
         /\ DOMAIN Chosen(s, p) = DOMAIN p
         /\ HoldsThose(Chosen(s, p), s, S)
<1> DEFINE n == Cardinality(S)
           q == Chosen(s, p)
<1>0. /\ p \in [1 .. n -> S] /\ Range(p) = S
      /\ \A i, j \in DOMAIN p : i < j => p[i] # p[j]
  BY DEF Visits
<1>1. n \in Nat /\ DOMAIN p = 1 .. n
  BY <1>0, PositionsFinite
<1>2. DOMAIN s = 1 .. Len(s) /\ \A k \in DOMAIN s : s[k] \in T
  BY LenProperties
<1>3. q \in [1 .. n -> T] /\ \A i \in 1 .. n : q[i] = s[p[i]]
  BY <1>0, <1>1, <1>2 DEF Chosen
<1> HIDE DEF q, n
<1>4. q \in Seq(T) /\ Len(q) = n /\ DOMAIN q = 1 .. n
  BY <1>1, <1>3, SeqOfFunction
<1>5. ASSUME NEW t
      PROVE  Times(t, q) = Cardinality(At(t, s, S))
  <2> DEFINE A == At(t, q, DOMAIN q)
             B == At(t, s, S)
             f == [i \in A |-> p[i]]
  <2>1. f \in [A -> B]
    BY <1>0, <1>1, <1>3, <1>4 DEF At, n
  <2>2. \A b \in B : \E i \in DOMAIN p : p[i] = b
    BY <1>0 DEF At, Range
  <2>3. \A b \in B : \E i \in A : f[i] = b
    BY <1>1, <1>3, <1>4, <2>2 DEF At
  <2>4. \A i, j \in A : f[i] = f[j] => i = j
    <3> SUFFICES ASSUME NEW i \in A, NEW j \in A, f[i] = f[j], i # j PROVE FALSE
      OBVIOUS
    <3>1. i \in 1 .. n /\ j \in 1 .. n /\ p[i] = p[j]
      BY <1>4 DEF At
    <3>2. i < j \/ j < i
      BY <1>1, <3>1
    <3> QED
      BY <1>0, <1>1, <3>1, <3>2
  <2>5. IsFiniteSet(A)
    BY <1>4, AtFinite
  <2> HIDE DEF A, B, f
  <2>6. Cardinality(A) = Cardinality(B)
    BY <2>1, <2>3, <2>4, <2>5, SameNumber
  <2> QED
    BY <1>4, <2>6, TimesType DEF A, B
<1> QED
  BY <1>1, <1>4, <1>5 DEF q, n, HoldsThose

LEMMA SplitAt ==
  ASSUME NEW T, NEW s \in Seq(T), NEW S \in SUBSET DOMAIN s, NEW t
  PROVE  Times(t, s) = Cardinality(At(t, s, S)) + Cardinality(At(t, s, (DOMAIN s) \ S))
<1> DEFINE A == At(t, s, S)
           B == At(t, s, (DOMAIN s) \ S)
<1>1. IsFiniteSet(A) /\ IsFiniteSet(B) /\ Cardinality(A) \in Nat /\ Cardinality(B) \in Nat
  BY AtFinite
<1>2. A \cap B = {} /\ At(t, s, DOMAIN s) = A \cup B
  BY DEF At
<1> HIDE DEF A, B
<1>3. Cardinality(A \cup B) = Cardinality(A) + Cardinality(B) - Cardinality({})
  BY <1>1, <1>2, FS_Union
<1>4. Cardinality(A \cup B) = Cardinality(A) + Cardinality(B)
  BY <1>1, <1>3, FS_EmptySet
<1> QED
  BY <1>2, <1>4, TimesType DEF A, B

\* What a pass begins with: all threads are in the queue or still asleep, the queue holds
\* those that are due, and in the order of their wake times.
LEMMA StartPassEffect ==
  ASSUME threads \in Seq(Thread), StartPass
  PROVE  /\ queue' \in Seq(Thread) /\ threads' \in Seq(Thread) /\ due' \in Seq(Thread)
         /\ Len(queue') = Len(due')
         /\ \A t : Times(t, queue') = Times(t, due')
         /\ \A t : Times(t, threads') + Times(t, queue') = Times(t, threads)
         /\ \A i, j \in DOMAIN queue' : i < j => queue'[i].wake <= queue'[j].wake
         /\ \A t \in Range(threads') \cup Range(queue') : t \in Range(threads)
<1>1. PICK p \in Arranged(DueIndices, QueueOrder) : queue' = Chosen(threads, p)
  BY DEF StartPass, Chosen
<1>2. PICK r \in Arranged((DOMAIN threads) \ DueIndices, Sits) : threads' = Chosen(threads, r)
  BY DEF StartPass, Chosen
<1>3. PICK d \in Arranged(DueIndices, Sits) : due' = Chosen(threads, d)
  BY DEF StartPass, Chosen
<1>4. DueIndices \in SUBSET DOMAIN threads /\ (DOMAIN threads) \ DueIndices \in SUBSET DOMAIN threads
  BY DEF DueIndices
<1>5. /\ DOMAIN threads = 1 .. Len(threads) /\ Len(threads) \in Nat
      /\ \A k \in DOMAIN threads : threads[k] \in Thread
  BY LenProperties
<1>6. \A k \in DOMAIN threads : k \in Int /\ threads[k].wake \in Int
  BY <1>5 DEF Thread
<1>7. /\ p \in [1 .. Cardinality(DueIndices) -> DueIndices] /\ Range(p) = DueIndices
      /\ \A i, j \in DOMAIN p : i < j => WakesBefore(p[i], p[j])
  BY <1>1 DEF Arranged, QueueOrder
<1>8. \A i, j \in DOMAIN p : i < j => p[i] # p[j] /\ threads[p[i]].wake <= threads[p[j]].wake
  <2> SUFFICES ASSUME NEW i \in DOMAIN p, NEW j \in DOMAIN p, i < j
               PROVE  p[i] # p[j] /\ threads[p[i]].wake <= threads[p[j]].wake
    OBVIOUS
  <2>1. p[i] \in DOMAIN threads /\ p[j] \in DOMAIN threads
    BY <1>4, <1>7
  <2>2. WakesBefore(p[i], p[j])
    BY <1>7
  <2> QED
    BY <1>6, <2>1, <2>2 DEF WakesBefore
<1>9. Visits(p, DueIndices)
  BY <1>7, <1>8 DEF Visits
<1>10. ASSUME NEW S \in SUBSET DOMAIN threads, NEW o \in Arranged(S, Sits)
       PROVE  Visits(o, S)
  <2>1. /\ o \in [1 .. Cardinality(S) -> S] /\ Range(o) = S
        /\ \A i, j \in DOMAIN o : i < j => o[i] < o[j]
    BY <1>10 DEF Arranged, Sits
  <2>2. \A i \in DOMAIN o : o[i] \in Int
    BY <1>6, <2>1
  <2>3. \A i, j \in DOMAIN o : i < j => o[i] # o[j]
    BY <2>1, <2>2
  <2> QED
    BY <2>1, <2>3 DEF Visits
<1>11. /\ queue' \in Seq(Thread) /\ Len(queue') = Cardinality(DueIndices)
       /\ DOMAIN queue' = DOMAIN p /\ HoldsThose(queue', threads, DueIndices)
  BY <1>1, <1>4, <1>9, ChosenFacts
<1>12. /\ threads' \in Seq(Thread) /\ DOMAIN threads' = DOMAIN r
       /\ HoldsThose(threads', threads, (DOMAIN threads) \ DueIndices)
  BY <1>2, <1>4, <1>10, ChosenFacts
<1>13. /\ due' \in Seq(Thread) /\ Len(due') = Cardinality(DueIndices)
       /\ HoldsThose(due', threads, DueIndices)
  BY <1>3, <1>4, <1>10, ChosenFacts
<1>14. \A t : Times(t, threads') + Times(t, queue') = Times(t, threads)
  <2> TAKE t
  <2>1. /\ Cardinality(At(t, threads, DueIndices)) \in Nat
        /\ Cardinality(At(t, threads, (DOMAIN threads) \ DueIndices)) \in Nat
    BY <1>4, AtFinite
  <2> QED
    BY <1>4, <1>11, <1>12, <2>1, SplitAt DEF HoldsThose
<1>15. \A i, j \in DOMAIN queue' : i < j => queue'[i].wake <= queue'[j].wake
  BY <1>1, <1>8, <1>11 DEF Chosen
<1>16. \A t \in Range(threads') \cup Range(queue') : t \in Range(threads)
  <2>1. \A i \in DOMAIN threads' : threads'[i] \in Range(threads)
    <3>1. \A i \in DOMAIN r : r[i] \in DOMAIN threads
      BY <1>2 DEF Arranged
    <3> QED
      BY <1>2, <1>12, <3>1 DEF Chosen, Range
  <2>2. \A i \in DOMAIN queue' : queue'[i] \in Range(threads)
    BY <1>1, <1>4, <1>7, <1>11 DEF Chosen, Range
  <2> QED
    BY <2>1, <2>2 DEF Range
<1> QED
  BY <1>11, <1>12, <1>13, <1>14, <1>15, <1>16 DEF HoldsThose
-----------------------------------------------------------------------------
(* The invariant.                                                          *)

\* Only a pass has a queue and a history.
IdleEmpty == ~pass => queue = <<>> /\ ran = <<>> /\ due = <<>>

\* A pass has resumed or still holds as many threads as were due.
AllAccounted == pass => Len(ran) + Len(queue) = Len(due)

\* The serial in a thread tells its `self` from every later occupant of the slot.
SoundCopy(t) ==
  /\ t.serial <= lives[t.self]
  /\ t.life # t.serial => t.life = 0 /\ (InUse(t.self) => t.serial < lives[t.self])

CopiesSound == \A t \in Range(threads) \cup Range(queue) : SoundCopy(t)

ThreadsInv ==
  /\ TypeOK /\ TakesCount /\ SerialsCount
  /\ IdleEmpty /\ AllAccounted /\ PassRunsDueInOrder
  /\ CopiesSound

\* The running thread goes to sleep, or a copy of it does.
Suspends ==
  /\ \E delay \in Delays, size \in Sizes : threads' = Append(threads, Snapshot(delay, size))
  /\ UNCHANGED <<queue, pass, due, ran, failed>>

\* What a step does to the table and to the sleepers.
LEMMA SchedulingSteps ==
  ASSUME [Next]_vars
  PROVE  \/ TableStep /\ UNCHANGED scheduling
         \/ UNCHANGED edicts /\ (Suspends \/ StartPass \/ Resume \/ EndPass \/ (pass /\ AbandonPass))
<1>1. CASE ChangeTable
  BY <1>1 DEF ChangeTable, TableStep
<1>2. CASE UNCHANGED vars \/ Call \/ Return
           \/ (\E t \in 0 .. MaxTime : SetTime(t)) \/ (\E e \in Ents : SetSelf(e))
  BY <1>2 DEF vars, Call, Return, SetTime, SetSelf, TableStep
<1>3. CASE \E delay \in Delays, size \in Sizes :
             Fork(delay, size) \/ Sleep(delay, size) \/ SleepFromBuiltin(delay, size)
  <2>1. PICK delay \in Delays, size \in Sizes : Suspend(delay, size)
    BY <1>3 DEF Fork, Sleep, SleepFromBuiltin
  <2>2. UNCHANGED edicts /\ Suspends
    BY <2>1 DEF Suspend, Suspends
  <2> QED
    BY <2>2
<1>4. CASE Fail \/ SuspendFails
  <2>1. Fail
    BY <1>4 DEF SuspendFails
  <2> QED
    BY <2>1 DEF Fail, TableStep
<1>5. CASE StartPass \/ Resume \/ EndPass
  <2>1. UNCHANGED edicts
    BY <1>5 DEF StartPass, Resume, EndPass
  <2> QED
    BY <1>5, <2>1
<1> QED
  BY <1>1, <1>2, <1>3, <1>4, <1>5 DEF Next

-----------------------------------------------------------------------------
(* Types.                                                                  *)

LEMMA SnapshotFacts ==
  ASSUME TypeOK, SerialsCount, NEW delay \in Delays, NEW size \in Sizes
  PROVE  Snapshot(delay, size) \in Thread /\ SoundCopy(Snapshot(delay, size))
<1>1. time + delay \in Int /\ self \in Ents /\ lives[self] \in 0 .. MaxTakes
  BY ThreadsAssumption DEF TypeOK, EdictsTypeOK
<1>2. SerialOf(self) \in 0 .. SerialMod - 1
  <2>1. \A e \in DOMAIN slots : slots[e].serial \in 0 .. SerialMod - 1
    BY TableSize DEF TypeOK, EntSlot
  <2> QED
    BY <2>1, EdictsAssumption DEF SerialOf
<1>3. lives[self] = SerialOf(self)
  BY <1>1 DEF SerialsCount
<1>4. 0 \in 0 .. MaxTakes
  BY EdictsAssumption
<1> DEFINE t == Snapshot(delay, size)
<1>5. /\ t.wake = time + delay /\ t.size = size /\ t.self = self /\ t.serial = SerialOf(self)
      /\ t.life = IF InUse(self) THEN lives[self] ELSE 0
      /\ t = [wake |-> t.wake, size |-> t.size, self |-> t.self, serial |-> t.serial,
              life |-> t.life]
  BY DEF Snapshot
<1> HIDE DEF t
<1>6. t \in Thread
  BY <1>1, <1>2, <1>3, <1>4, <1>5 DEF Thread
<1>7. SoundCopy(t)
  BY <1>1, <1>3, <1>5 DEF SoundCopy
<1> QED
  BY <1>6, <1>7 DEF t

LEMMA ThreadsInitOK == Init => ThreadsInv
<1> SUFFICES ASSUME Init PROVE ThreadsInv
  OBVIOUS
<1>1. EdictsInit
  BY DEF Init
<1>2. EdictsTypeOK /\ TakesCount /\ SerialsCount
  BY <1>1, TableInit, SerialsInit
<1>3. /\ 0 \in 0 .. MaxDepth /\ 0 \in 0 .. MaxTime /\ World \in Ents
  BY ThreadsAssumption, EdictsAssumption DEF World, Ents
<1>4. <<>> \in Seq(Thread)
  BY EmptySeq
<1>5. TypeOK
  BY <1>2, <1>3, <1>4 DEF Init, TypeOK
<1>6. ~pass /\ threads = <<>> /\ queue = <<>> /\ ran = <<>> /\ due = <<>>
  BY DEF Init
<1>7. IdleEmpty /\ AllAccounted /\ PassRunsDueInOrder
  BY <1>6 DEF IdleEmpty, AllAccounted, PassRunsDueInOrder
<1>8. CopiesSound
  BY <1>6 DEF CopiesSound, Range
<1> QED
  BY <1>2, <1>5, <1>7, <1>8 DEF ThreadsInv

\* Every step keeps the types of the sleepers and of the pass.
LEMMA SchedulingTypes ==
  ASSUME ThreadsInv, [Next]_vars
  PROVE  /\ threads' \in Seq(Thread) /\ queue' \in Seq(Thread) /\ pass' \in BOOLEAN
         /\ due' \in Seq(Thread) /\ ran' \in Seq(Thread) /\ failed' \in BOOLEAN
<1>1. /\ threads \in Seq(Thread) /\ queue \in Seq(Thread) /\ pass \in BOOLEAN
      /\ due \in Seq(Thread) /\ ran \in Seq(Thread) /\ failed \in BOOLEAN
  BY DEF ThreadsInv, TypeOK
<1>2. <<>> \in Seq(Thread)
  BY EmptySeq
<1>3. CASE UNCHANGED scheduling
  BY <1>1, <1>3 DEF scheduling
<1>4. CASE Suspends
  <2>1. PICK delay \in Delays, size \in Sizes : threads' = Append(threads, Snapshot(delay, size))
    BY <1>4 DEF Suspends
  <2>2. threads' \in Seq(Thread)
    BY <1>1, <2>1, SnapshotFacts, AppendProperties DEF ThreadsInv
  <2> QED
    BY <1>1, <1>4, <2>2 DEF Suspends
<1>5. CASE StartPass
  BY <1>1, <1>2, <1>5, StartPassEffect DEF StartPass
<1>6. CASE Resume
  <2>1. queue # <<>>
    BY <1>6 DEF Resume
  <2>2. Head(queue) \in Thread /\ Tail(queue) \in Seq(Thread)
    BY <1>1, <2>1, HeadThenTail
  <2>3. Append(ran, Head(queue)) \in Seq(Thread)
    BY <1>1, <2>2, AppendProperties
  <2> QED
    BY <1>1, <1>6, <2>2, <2>3 DEF Resume
<1>7. CASE EndPass
  BY <1>1, <1>2, <1>7 DEF EndPass
<1>8. CASE AbandonPass
  BY <1>1, <1>2, <1>8, ConcatProperties DEF AbandonPass, Kept
<1> QED
  BY <1>3, <1>4, <1>5, <1>6, <1>7, <1>8, SchedulingSteps

LEMMA TypesStep ==
  ASSUME ThreadsInv, [Next]_vars
  PROVE  TypeOK' /\ TakesCount' /\ SerialsCount' /\ LivesGrow
<1>1. TypeOK /\ EdictsTypeOK /\ TakesCount /\ SerialsCount
  BY DEF ThreadsInv, TypeOK
<1>2. TableStep
  BY SchedulingSteps DEF TableStep
<1>3. EdictsTypeOK' /\ TakesCount' /\ SerialsCount' /\ LivesGrow
  BY <1>1, <1>2, TableTypes, SerialsStep
<1>4. /\ depth \in 0 .. MaxDepth /\ MaxDepth \in Nat \ {0}
      /\ time \in 0 .. MaxTime /\ self \in Ents /\ slept \in BOOLEAN
  BY <1>1, ThreadsAssumption DEF TypeOK
<1>5. depth' \in 0 .. MaxDepth
  <2>1. CASE UNCHANGED depth
    BY <1>4, <2>1
  <2>2. CASE depth < MaxDepth /\ depth' = depth + 1
    BY <1>4, <2>2
  <2>3. CASE depth > 0 /\ depth' = depth - 1
    BY <1>4, <2>3
  <2>4. CASE depth' = 1
    BY <1>4, <2>4
  <2> QED
    BY <2>1, <2>2, <2>3, <2>4
       DEF Next, vars, ChangeTable, SetTime, SetSelf, Call, Fork, Sleep, SleepFromBuiltin, Suspend,
           StartPass, Resume, EndPass, Return, Fail, SuspendFails, Running
<1>6. self' \in Ents
  <2>1. ASSUME NEW e \in Ents, SetSelf(e)
        PROVE  self' \in Ents
    BY <2>1 DEF SetSelf
  <2>2. CASE Resume
    <3>1. queue # <<>> /\ queue \in Seq(Thread)
      BY <1>1, <2>2 DEF Resume, TypeOK
    <3>2. Head(queue) \in Thread
      BY <3>1, HeadThenTail
    <3>3. Head(queue).self \in Ents /\ World \in Ents
      BY <3>2, EdictsAssumption DEF Thread, World, Ents
    <3> QED
      BY <2>2, <3>3 DEF Resume, Restored
  <2>3. CASE UNCHANGED self
    BY <1>4, <2>3
  <2> QED
    BY <2>1, <2>2, <2>3
       DEF Next, vars, ChangeTable, SetTime, Call, Fork, Sleep, SleepFromBuiltin, Suspend,
           StartPass, EndPass, Return, Fail, SuspendFails
<1>7. time' \in 0 .. MaxTime /\ slept' \in BOOLEAN
  <2>1. ASSUME NEW t \in 0 .. MaxTime, SetTime(t)
        PROVE  time' \in 0 .. MaxTime /\ slept' \in BOOLEAN
    BY <1>4, <2>1 DEF SetTime
  <2>2. CASE UNCHANGED time /\ (UNCHANGED slept \/ slept' = TRUE \/ slept' = FALSE)
    BY <1>4, <2>2
  <2> QED
    BY <2>1, <2>2
       DEF Next, vars, ChangeTable, SetSelf, Call, Fork, Sleep, SleepFromBuiltin, Suspend,
           StartPass, Resume, EndPass, Return, Fail, SuspendFails
<1> QED
  BY <1>3, <1>5, <1>6, <1>7, SchedulingTypes DEF TypeOK
-----------------------------------------------------------------------------
(* The pass.                                                               *)

\* The sequence all holds the threads of d, in the order of their wake times.
HoldsInOrder(all, d) ==
  /\ \A t \in Range(all \o d) : Times(t, all) = Times(t, d)
  /\ \A i, j \in DOMAIN all : i < j => all[i].wake <= all[j].wake

LEMMA PassRunsDueInOrderIs ==
  PassRunsDueInOrder <=> (pass => HoldsInOrder(ran \o queue, due))
BY DEF PassRunsDueInOrder, HoldsInOrder

LEMMA PassRunsDueInOrderNext ==
  PassRunsDueInOrder' <=> (pass' => HoldsInOrder(ran' \o queue', due'))
BY DEF PassRunsDueInOrder, HoldsInOrder

\* Resuming moves a thread from the front of the queue to the end of those resumed.
LEMMA ResumeEffect ==
  ASSUME ThreadsInv, Resume
  PROVE  /\ Head(queue) \in Thread /\ queue # <<>> /\ queue \in Seq(Thread)
         /\ Tail(queue) \in Seq(Thread)
         /\ Len(ran') + Len(queue') = Len(ran) + Len(queue)
         /\ ran' \o queue' = ran \o queue
<1>1. /\ queue # <<>> /\ queue \in Seq(Thread) /\ ran \in Seq(Thread)
      /\ queue' = Tail(queue) /\ ran' = Append(ran, Head(queue))
  BY DEF Resume, ThreadsInv, TypeOK
<1> DEFINE one == <<Head(queue)>>
<1>2. Head(queue) \in Thread /\ Tail(queue) \in Seq(Thread) /\ Len(Tail(queue)) = Len(queue) - 1
      /\ queue = one \o Tail(queue)
  BY <1>1, HeadThenTail
<1>3. one \in Seq(Thread) /\ Append(ran, Head(queue)) = ran \o one
      /\ Len(Append(ran, Head(queue))) = Len(ran) + 1
  BY <1>1, <1>2, AppendIsConcat, AppendProperties
<1> HIDE DEF one
<1>4. (ran \o one) \o Tail(queue) = ran \o (one \o Tail(queue))
  <2> DEFINE rest == Tail(queue)
  <2>1. ran \in Seq(Thread) /\ one \in Seq(Thread) /\ rest \in Seq(Thread)
    BY <1>1, <1>2, <1>3
  <2> HIDE DEF rest
  <2>2. (ran \o one) \o rest = ran \o (one \o rest)
    BY <2>1, ConcatAssociative
  <2> QED
    BY <2>2 DEF rest
<1>5. Len(ran) \in Nat /\ Len(queue) \in Nat
  BY <1>1, LenProperties
<1> QED
  BY <1>1, <1>2, <1>3, <1>4, <1>5

LEMMA PassStep ==
  ASSUME ThreadsInv, [Next]_vars
  PROVE  IdleEmpty' /\ AllAccounted' /\ PassRunsDueInOrder'
<1>1. /\ threads \in Seq(Thread) /\ queue \in Seq(Thread) /\ due \in Seq(Thread)
      /\ IdleEmpty /\ AllAccounted
      /\ pass => HoldsInOrder(ran \o queue, due)
  BY PassRunsDueInOrderIs DEF ThreadsInv, TypeOK
<1>2. CASE UNCHANGED <<queue, pass, due, ran>>
  BY <1>1, <1>2, PassRunsDueInOrderNext DEF IdleEmpty, AllAccounted
<1>3. CASE StartPass
  <2>1. /\ queue' \in Seq(Thread) /\ due' \in Seq(Thread) /\ Len(queue') = Len(due')
        /\ \A t : Times(t, queue') = Times(t, due')
        /\ \A i, j \in DOMAIN queue' : i < j => queue'[i].wake <= queue'[j].wake
    BY <1>1, <1>3, StartPassEffect
  <2>2. pass' = TRUE /\ ran' = <<>>
    BY <1>3 DEF StartPass
  <2>3. ran' \o queue' = queue'
    BY <2>1, <2>2, ConcatEmptySeq
  <2>4. HoldsInOrder(queue', due')
    BY <2>1 DEF HoldsInOrder
  <2>5. Len(ran') + Len(queue') = Len(due')
    BY <2>1, <2>2, EmptySeq, LenProperties
  <2> QED
    BY <2>2, <2>3, <2>4, <2>5, PassRunsDueInOrderNext DEF IdleEmpty, AllAccounted
<1>4. CASE Resume
  <2>1. pass /\ pass' = pass /\ due' = due
    BY <1>4 DEF Resume
  <2>2. ran' \o queue' = ran \o queue /\ Len(ran') + Len(queue') = Len(ran) + Len(queue)
    BY <1>4, ResumeEffect
  <2>3. HoldsInOrder(ran' \o queue', due')
    BY <1>1, <2>1, <2>2
  <2> QED
    BY <1>1, <2>1, <2>2, <2>3, PassRunsDueInOrderNext DEF IdleEmpty, AllAccounted
<1>5. CASE EndPass \/ AbandonPass
  <2>1. pass' = FALSE /\ queue' = <<>> /\ ran' = <<>> /\ due' = <<>>
    BY <1>5 DEF EndPass, AbandonPass
  <2> QED
    BY <2>1, PassRunsDueInOrderNext DEF IdleEmpty, AllAccounted
<1>6. UNCHANGED scheduling \/ Suspends => UNCHANGED <<queue, pass, due, ran>>
  BY DEF scheduling, Suspends
<1> QED
  BY <1>2, <1>3, <1>4, <1>5, <1>6, SchedulingSteps

-----------------------------------------------------------------------------
(* The sleepers.                                                           *)

LEMMA AppendRange ==
  ASSUME NEW T, NEW s \in Seq(T), NEW x \in T
  PROVE  Range(Append(s, x)) = Range(s) \cup {x}
<1> DEFINE one == <<x>>
<1>1. Append(s, x) = s \o one /\ one \in Seq(T) /\ Range(one) = {x}
  BY AppendIsConcat DEF Range
<1> HIDE DEF one
<1>2. Range(s \o one) = Range(s) \cup Range(one)
  BY <1>1, RangeConcatenation
<1> QED
  BY <1>1, <1>2

LEMMA TailRange ==
  ASSUME NEW T, NEW s \in Seq(T), s # <<>>
  PROVE  Head(s) \in Range(s) /\ Range(Tail(s)) \subseteq Range(s)
<1> DEFINE one == <<Head(s)>>
           rest == Tail(s)
<1>1. rest \in Seq(T) /\ one \in Seq(T) /\ Range(one) = {Head(s)} /\ s = one \o rest
  BY HeadThenTail DEF Range
<1> HIDE DEF one, rest
<1>2. Range(one \o rest) = Range(one) \cup Range(rest)
  <2>1. rest \in Seq(T) /\ one \in Seq(T)
    BY <1>1
  <2> QED
    BY <2>1, RangeConcatenation
<1> QED
  BY <1>1, <1>2 DEF rest

\* A step leaves asleep, or in the queue, nobody but who was there and who suspends.
LEMMA NoStrangers ==
  ASSUME ThreadsInv, [Next]_vars, NEW t \in Range(threads') \cup Range(queue')
  PROVE  \/ t \in Range(threads) \cup Range(queue)
         \/ /\ UNCHANGED edicts
            /\ \E delay \in Delays, size \in Sizes : t = Snapshot(delay, size)
<1>1. threads \in Seq(Thread) /\ queue \in Seq(Thread)
  BY DEF ThreadsInv, TypeOK
<1>2. CASE UNCHANGED scheduling \/ EndPass
  BY <1>2 DEF scheduling, EndPass
<1>3. CASE UNCHANGED edicts /\ Suspends
  <2>1. PICK delay \in Delays, size \in Sizes : threads' = Append(threads, Snapshot(delay, size))
    BY <1>3 DEF Suspends
  <2>2. Snapshot(delay, size) \in Thread
    BY SnapshotFacts DEF ThreadsInv
  <2>3. Range(threads') = Range(threads) \cup {Snapshot(delay, size)} /\ queue' = queue
    BY <1>1, <1>3, <2>1, <2>2, AppendRange DEF Suspends
  <2> QED
    BY <1>3, <2>3
<1>4. CASE StartPass
  BY <1>1, <1>4, StartPassEffect
<1>5. CASE Resume
  <2>1. threads' = threads /\ queue' = Tail(queue) /\ queue # <<>>
    BY <1>5 DEF Resume
  <2> QED
    BY <1>1, <2>1, TailRange
<1>6. CASE AbandonPass
  <2>1. Range(threads') = Range(threads) \cup Range(queue)
    BY <1>1, <1>6, RangeConcatenation DEF AbandonPass, Kept
  <2>2. Range(queue') = {}
    BY <1>6 DEF AbandonPass, Range
  <2> QED
    BY <2>1, <2>2
<1> QED
  BY <1>2, <1>3, <1>4, <1>5, <1>6, SchedulingSteps

LEMMA SoundCopyStays ==
  ASSUME ThreadsInv, [Next]_vars, NEW t \in Thread, SoundCopy(t)
  PROVE  SoundCopy(t)'
<1>1. LivesGrow /\ SerialsCount' /\ EdictsTypeOK' /\ EdictsTypeOK
  BY TypesStep DEF ThreadsInv, TypeOK
<1>2. t.self \in Ents /\ t.serial \in Int /\ t.life \in Int
  BY EdictsAssumption DEF Thread
<1>3. lives[t.self] \in Int /\ lives'[t.self] \in Int
  BY <1>1, <1>2 DEF EdictsTypeOK
<1>4. /\ lives'[t.self] >= lives[t.self]
      /\ InUse(t.self)' /\ ~InUse(t.self) => lives'[t.self] > lives[t.self]
  BY <1>1, <1>2 DEF LivesGrow
<1>5. t.serial <= lives[t.self]
      /\ (t.life # t.serial => t.life = 0 /\ (InUse(t.self) => t.serial < lives[t.self]))
  BY DEF SoundCopy
<1>6. t.serial <= lives'[t.self]
  BY <1>2, <1>3, <1>4, <1>5
<1>7. ASSUME t.life # t.serial, InUse(t.self)'
      PROVE  t.serial < lives'[t.self]
  <2>1. CASE InUse(t.self)
    BY <1>2, <1>3, <1>4, <1>5, <1>7, <2>1
  <2>2. CASE ~InUse(t.self)
    BY <1>2, <1>3, <1>4, <1>5, <1>7, <2>2
  <2> QED
    BY <2>1, <2>2
<1> QED
  BY <1>5, <1>6, <1>7 DEF SoundCopy

LEMMA CopiesStep ==
  ASSUME ThreadsInv, [Next]_vars
  PROVE  CopiesSound'
<1> SUFFICES ASSUME NEW t \in Range(threads') \cup Range(queue')
             PROVE  SoundCopy(t)'
  BY DEF CopiesSound
<1>1. CASE t \in Range(threads) \cup Range(queue)
  <2>1. threads \in Seq(Thread) /\ queue \in Seq(Thread)
    BY DEF ThreadsInv, TypeOK
  <2>2. t \in Thread
    BY <1>1, <2>1, RangeOfSeq
  <2>3. SoundCopy(t)
    BY <1>1 DEF ThreadsInv, CopiesSound
  <2> QED
    BY <2>2, <2>3, SoundCopyStays
<1>2. ASSUME NEW delay \in Delays, NEW size \in Sizes, t = Snapshot(delay, size), UNCHANGED edicts
      PROVE  SoundCopy(t)'
  <2>1. SoundCopy(t)
    BY <1>2, SnapshotFacts DEF ThreadsInv
  <2> QED
    BY <1>2, <2>1 DEF SoundCopy, InUse, edicts
<1> QED
  BY <1>1, <1>2, NoStrangers
\* A step takes no thread away but the one it resumes.
LEMMA SleepersStep ==
  ASSUME ThreadsInv, [Next]_vars, NEW t
  PROVE  Times(t, Asleep') >= Times(t, Asleep) - IF ran' = Append(ran, t) THEN 1 ELSE 0
<1> DEFINE a == Times(t, threads)
           b == Times(t, queue)
           a1 == Times(t, threads')
           b1 == Times(t, queue')
<1>1. /\ threads \in Seq(Thread) /\ queue \in Seq(Thread)
      /\ threads' \in Seq(Thread) /\ queue' \in Seq(Thread)
  BY SchedulingTypes DEF ThreadsInv, TypeOK
<1>2. a \in Nat /\ b \in Nat /\ a1 \in Nat /\ b1 \in Nat
  BY <1>1, TimesType
<1>3. Times(t, threads \o queue) = a + b
  BY <1>1, TimesConcat
<1>4. Times(t, threads' \o queue') = a1 + b1
  BY <1>1, TimesConcat
<1>5. a1 + b1 >= a + b - IF ran' = Append(ran, t) THEN 1 ELSE 0
  <2>1. CASE UNCHANGED scheduling \/ EndPass
    <3>1. a1 = a /\ b1 = b
      BY <2>1 DEF scheduling, EndPass
    <3> QED
      BY <1>2, <3>1
  <2>2. CASE Suspends
    <3>1. PICK delay \in Delays, size \in Sizes : threads' = Append(threads, Snapshot(delay, size))
      BY <2>2 DEF Suspends
    <3>2. Snapshot(delay, size) \in Thread /\ b1 = b
      BY <2>2, SnapshotFacts DEF ThreadsInv, Suspends
    <3>3. a1 = a + (IF Snapshot(delay, size) = t THEN 1 ELSE 0)
      BY <1>1, <3>1, <3>2, TimesAppend
    <3> QED
      BY <1>2, <3>2, <3>3
  <2>3. CASE StartPass
    <3>1. a1 + b1 = a
      BY <1>1, <2>3, StartPassEffect
    <3>2. queue = <<>>
      BY <2>3 DEF ThreadsInv, IdleEmpty, StartPass
    <3>3. b = 0
      BY <3>2, TimesEmpty
    <3> QED
      BY <1>2, <3>1, <3>3
  <2>4. CASE Resume
    <3>1. threads' = threads /\ queue' = Tail(queue) /\ ran' = Append(ran, Head(queue)) /\ queue # <<>>
      BY <2>4 DEF Resume
    <3>2. b = (IF Head(queue) = t THEN 1 ELSE 0) + b1
      BY <1>1, <3>1, HeadThenTail
    <3> QED
      BY <1>2, <3>1, <3>2
  <2>5. CASE AbandonPass
    <3>1. threads' = threads \o queue /\ queue' = <<>>
      BY <2>5 DEF AbandonPass, Kept
    <3>2. a1 = a + b /\ b1 = 0
      BY <1>3, <3>1, TimesEmpty
    <3> QED
      BY <1>2, <3>2
  <2> HIDE DEF a, b, a1, b1
  <2> QED
    BY <2>1, <2>2, <2>3, <2>4, <2>5, SchedulingSteps
<1>6. Asleep = threads \o queue /\ Asleep' = threads' \o queue'
  BY DEF Asleep
<1>7. Times(t, Asleep) = a + b
  BY <1>3, <1>6
<1>8. Times(t, Asleep') = a1 + b1
  BY <1>4, <1>6
<1> HIDE DEF a, b, a1, b1
<1> QED
  BY <1>2, <1>5, <1>7, <1>8

-----------------------------------------------------------------------------
(* The properties.                                                         *)

LEMMA ThreadsStepOK == ThreadsInv /\ [Next]_vars => ThreadsInv'
BY TypesStep, PassStep, CopiesStep DEF ThreadsInv

THEOREM ThreadsInvariance == Spec => []ThreadsInv
<1> QED
  BY ThreadsInitOK, ThreadsStepOK, PTL DEF Spec

\* The table, the sleepers and the pass keep their types.
THEOREM ThreadsTypesHold == Spec => []TypeOK
<1>1. ThreadsInv => TypeOK
  BY DEF ThreadsInv
<1> QED
  BY <1>1, ThreadsInvariance, PTL

\* Vm::run_threads resumes the threads that were due when it began, each once and in the
\* order of their wake times, whatever QuakeC does to the clock and forks meanwhile.
THEOREM PassAlwaysRunsDueInOrder == Spec => []PassRunsDueInOrder
<1>1. ThreadsInv => PassRunsDueInOrder
  BY DEF ThreadsInv
<1> QED
  BY <1>1, ThreadsInvariance, PTL

\* Vm::run_threads loses no sleeping thread, also when one that it resumes fails.
THEOREM SleepersAlwaysKept == Spec => SleepersKept
<1> DEFINE Keeps ==
      /\ \A t \in Range(Asleep) :
           Times(t, Asleep') >= Times(t, Asleep) - IF ran' = Append(ran, t) THEN 1 ELSE 0
      /\ EndPass => Len(ran) = Len(due)
<1>1. ThreadsInv /\ [Next]_vars => [Keeps]_vars
  <2> SUFFICES ASSUME ThreadsInv, [Next]_vars PROVE Keeps
    OBVIOUS
  <2>1. \A t \in Range(Asleep) :
          Times(t, Asleep') >= Times(t, Asleep) - IF ran' = Append(ran, t) THEN 1 ELSE 0
    BY SleepersStep
  <2>2. ASSUME EndPass
        PROVE  Len(ran) = Len(due)
    <3>1. Len(ran) + Len(queue) = Len(due) /\ queue = <<>> /\ ran \in Seq(Thread)
      BY <2>2 DEF EndPass, ThreadsInv, AllAccounted, TypeOK
    <3>2. Len(queue) = 0 /\ Len(ran) \in Nat
      BY <3>1, EmptySeq, LenProperties
    <3> QED
      BY <3>1, <3>2
  <2> QED
    BY <2>1, <2>2
<1> QED
  BY <1>1, ThreadsInvariance, PTL DEF Spec, SleepersKept

\* restore_thread gives a resumed thread the entity it was suspended with or the world,
\* never a later occupant of the slot: the serials tell them apart.
THEOREM ResumedSelfAlwaysSame == Spec => ResumedSelfIsSame
<1> DEFINE Same ==
      ran' # ran /\ ran' # <<>> =>
        LET t == ran'[Len(ran')]
        IN IF InUse(t.self) /\ lives[t.self] = t.life THEN self' = t.self ELSE self' = World
<1>1. ThreadsInv /\ [Next]_vars => [Same]_vars
  <2> SUFFICES ASSUME ThreadsInv, [Next]_vars, ran' # ran, ran' # <<>>
               PROVE  LET t == ran'[Len(ran')]
                      IN IF InUse(t.self) /\ lives[t.self] = t.life
                         THEN self' = t.self ELSE self' = World
    OBVIOUS
  <2>1. Resume
    BY SchedulingSteps DEF scheduling, Suspends, StartPass, EndPass, AbandonPass
  <2> DEFINE t == Head(queue)
  <2>2. t \in Thread /\ queue \in Seq(Thread) /\ queue # <<>> /\ ran \in Seq(Thread)
    BY <2>1, ResumeEffect DEF ThreadsInv, TypeOK
  <2>3. ran' = Append(ran, t) /\ self' = Restored(t)
    BY <2>1 DEF Resume
  <2>4. ran'[Len(ran')] = t
    BY <2>2, <2>3, AppendProperties
  <2>5. t \in Range(queue)
    BY <2>2, TailRange
  <2>6. SoundCopy(t)
    BY <2>5 DEF ThreadsInv, CopiesSound
  <2> HIDE DEF t
  <2>7. t.self \in Ents /\ t.serial \in Int /\ t.life \in Int /\ EdictsTypeOK
    BY <2>2, EdictsAssumption DEF Thread, ThreadsInv, TypeOK
  <2>8. /\ lives[t.self] = SerialOf(t.self) /\ lives[t.self] \in Int
        /\ InUse(t.self) => lives[t.self] > 0
    BY <2>7 DEF ThreadsInv, SerialsCount, EdictsTypeOK
  <2>9. ASSUME InUse(t.self)
        PROVE  slots[t.self].serial = t.serial <=> lives[t.self] = t.life
    <3>1. slots[t.self].serial = lives[t.self]
      BY <2>8, <2>9 DEF SerialOf, InUse
    <3>2. CASE t.life = t.serial
      BY <3>1, <3>2
    <3>3. CASE t.life # t.serial
      BY <2>6, <2>7, <2>8, <2>9, <3>1, <3>3 DEF SoundCopy
    <3> QED
      BY <3>2, <3>3
  <2> QED
    BY <2>3, <2>4, <2>9 DEF Restored
<1> QED
  BY <1>1, ThreadsInvariance, PTL DEF Spec, ResumedSelfIsSame
=============================================================================
