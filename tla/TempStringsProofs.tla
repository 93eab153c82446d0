-------------------------- MODULE TempStringsProofs --------------------------
(***************************************************************************)
(* The temp-string table of module TempStrings for every limit, growth and *)
(* number of places: it is a store of strings, its counts of live strings  *)
(* and of their bytes are exact, and it refuses a slot only at its limit.  *)
(***************************************************************************)
EXTENDS TempStrings, FiniteSetTheorems, WellFoundedInduction, TLAPS

-----------------------------------------------------------------------------
(* The inductive invariant.                                                *)

TableTyped ==
    /\ capacity \in 1 .. MaxSlots
    /\ DOMAIN slots \subseteq 0 .. capacity - 1
    /\ slots \in [DOMAIN slots -> Nat \cup {Free}]
    /\ cursor \in Nat

RefsTyped ==
    /\ pins \in [Refs -> Nat]
    /\ words \in [Places -> Refs \cup {NoRef}]

LiveExact == live = Cardinality(Used)

BytesExact == bytes = SizeOf(Used) /\ bytes \in 0 .. MaxBytes

IInv == TableTyped /\ RefsTyped /\ LiveExact /\ BytesExact

-----------------------------------------------------------------------------
(* Numbers.                                                                *)

LEMMA PaddedNat ==
    ASSUME NEW len \in Lengths
    PROVE  Padded(len) \in Nat
<1>1. len + Unit \in Nat /\ Unit \in Nat \ {0}
  BY TempStringsAssumption
<1>2. \A a \in Nat, u \in Nat \ {0} : a \div u \in Nat
  OBVIOUS
<1>3. \A a, u \in Nat : a * u \in Nat
  OBVIOUS
<1> QED
  BY <1>1, <1>2, <1>3 DEF Padded

LEMMA GrownFacts ==
    ASSUME TableTyped
    PROVE  Grown \in capacity .. MaxSlots
BY TempStringsAssumption DEF TableTyped, Grown, Smaller

LEMMA ResizedFacts ==
    ASSUME TableTyped
    PROVE  /\ DOMAIN Resized = 0 .. Grown - 1
           /\ Resized \in [0 .. Grown - 1 -> Nat \cup {Free}]
           /\ DOMAIN slots \subseteq DOMAIN Resized
           /\ \A i \in DOMAIN slots : Resized[i] = slots[i]
           /\ {i \in DOMAIN Resized : Resized[i] # Free} = Used
<1>1. Grown \in capacity .. MaxSlots /\ capacity \in 1 .. MaxSlots /\ MaxSlots \in Nat
  BY GrownFacts, TempStringsAssumption DEF TableTyped
<1>2. DOMAIN slots \subseteq 0 .. Grown - 1
  BY <1>1 DEF TableTyped
<1>3. DOMAIN Resized = 0 .. Grown - 1
  BY DEF Resized
<1>4. \A i \in 0 .. Grown - 1 : Resized[i] = IF i \in DOMAIN slots THEN slots[i] ELSE Free
  BY DEF Resized
<1>5. \A i \in DOMAIN slots : slots[i] \in Nat \cup {Free}
  BY DEF TableTyped
<1>6. Resized \in [0 .. Grown - 1 -> Nat \cup {Free}]
  BY <1>5 DEF Resized
<1> QED
  BY <1>2, <1>3, <1>4, <1>6 DEF Used

LEMMA UsedFinite ==
    ASSUME TableTyped
    PROVE  /\ IsFiniteSet(Used) /\ Cardinality(Used) \in Nat
           /\ Used \subseteq DOMAIN slots /\ Used \subseteq Refs
<1>1. Used \subseteq DOMAIN slots /\ DOMAIN slots \subseteq 0 .. capacity - 1
  BY DEF Used, TableTyped
<1>2. capacity \in Int /\ capacity - 1 \in Int /\ capacity - 1 <= MaxRef /\ MaxRef \in Nat
  BY TempStringsAssumption DEF TableTyped
<1>3. IsFiniteSet(0 .. capacity - 1)
  BY <1>2, FS_Interval
<1>4. IsFiniteSet(Used)
  BY <1>1, <1>3, FS_Subset
<1>5. 0 .. capacity - 1 \subseteq 0 .. MaxRef
  BY <1>2
<1> QED
  BY <1>1, <1>4, <1>5, FS_CardinalityType DEF Refs

LEMMA UsedAtMost ==
    ASSUME TableTyped
    PROVE  Cardinality(Used) <= capacity
<1>1. Used \subseteq 0 .. capacity - 1
  BY UsedFinite DEF TableTyped
<1>2. capacity - 1 \in Int /\ capacity \in Nat \ {0}
  BY TempStringsAssumption DEF TableTyped
<1>3. IsFiniteSet(0 .. capacity - 1) /\ Cardinality(0 .. capacity - 1) = capacity
  BY <1>2, FS_Interval
<1> QED
  BY <1>1, <1>3, FS_Subset

-----------------------------------------------------------------------------
(* The sum of the sizes f of the elements of a set, as a number of bytes.  *)

BytesOf(f, S) == UNION {{i} \X (1 .. f[i]) : i \in S}
Total(f, S) == Cardinality(BytesOf(f, S))

LEMMA TotalFinite ==
    ASSUME NEW S, IsFiniteSet(S), NEW f, \A i \in S : f[i] \in Nat
    PROVE  IsFiniteSet(BytesOf(f, S)) /\ Total(f, S) \in Nat
<1> DEFINE Family == {{i} \X (1 .. f[i]) : i \in S}
           g == [i \in S |-> {i} \X (1 .. f[i])]
<1>1. g \in Surjection(S, Family)
  BY DEF Surjection
<1>2. \A i \in S : IsFiniteSet({i} \X (1 .. f[i]))
  <2> TAKE i \in S
  <2>0. PICK n \in Nat : n = f[i]
    OBVIOUS
  <2>1. IsFiniteSet({i}) /\ IsFiniteSet(1 .. n)
    <3>1. IsFiniteSet(1 .. n)
      BY FS_Interval
    <3> QED
      BY <3>1, FS_Singleton
  <2> QED
    BY <2>0, <2>1, FS_Product
<1>3. \A F \in Family : IsFiniteSet(F)
  BY <1>2
<1> HIDE DEF Family, g
<1>4. IsFiniteSet(Family)
  BY <1>1, FS_Surjection
<1>5. IsFiniteSet(UNION Family)
  BY <1>3, <1>4, FS_UNION
<1> QED
  BY <1>5, FS_CardinalityType DEF BytesOf, Total, Family

LEMMA TotalOfNone ==
    ASSUME NEW f
    PROVE  Total(f, {}) = 0
<1>1. BytesOf(f, {}) = {}
  BY DEF BytesOf
<1> QED
  BY <1>1, FS_EmptySet DEF Total

LEMMA TotalOfOne ==
    ASSUME NEW f, NEW i, f[i] \in Nat
    PROVE  Total(f, {i}) = f[i]
<1> DEFINE one == {i}
<1>1. PICK n \in Nat : n = f[i]
  OBVIOUS
<1>2. BytesOf(f, {i}) = one \X (1 .. n)
  BY <1>1 DEF BytesOf
<1>3. IsFiniteSet(one) /\ Cardinality(one) = 1
  BY FS_Singleton
<1>4. IsFiniteSet(1 .. n) /\ Cardinality(1 .. n) = n
  BY FS_Interval
<1>5. Total(f, {i}) = Cardinality(one \X (1 .. n))
  BY <1>2 DEF Total
<1> HIDE DEF one
<1>6. Cardinality(one \X (1 .. n)) = 1 * n
  BY <1>3, <1>4, FS_Product
<1>7. 1 * n = n
  OBVIOUS
<1> QED
  BY <1>1, <1>5, <1>6, <1>7

LEMMA TotalOfTwo ==
    ASSUME NEW A, NEW B, IsFiniteSet(A), IsFiniteSet(B), A \cap B = {},
           NEW f, \A i \in A \cup B : f[i] \in Nat
    PROVE  Total(f, A \cup B) = Total(f, A) + Total(f, B)
<1> DEFINE X == BytesOf(f, A)
           Y == BytesOf(f, B)
<1>1. BytesOf(f, A \cup B) = X \cup Y
  BY DEF BytesOf
<1>2. X \cap Y = {}
  <2>1. \A x \in X : x[1] \in A
    BY DEF BytesOf
  <2>2. \A y \in Y : y[1] \in B
    BY DEF BytesOf
  <2> HIDE DEF X, Y
  <2> QED
    BY <2>1, <2>2
<1>3. IsFiniteSet(X) /\ IsFiniteSet(Y) /\ Cardinality(X) \in Nat /\ Cardinality(Y) \in Nat
  BY TotalFinite DEF Total
<1> HIDE DEF X, Y
<1>4. Cardinality(X \cup Y) = Cardinality(X) + Cardinality(Y) - Cardinality({})
  BY <1>2, <1>3, FS_Union
<1>5. Cardinality(X \cup Y) = Cardinality(X) + Cardinality(Y)
  BY <1>3, <1>4, FS_EmptySet
<1> QED
  BY <1>1, <1>5 DEF Total, X, Y

\* The sum of a set without one of its elements.
LEMMA TotalWithout ==
    ASSUME NEW S, IsFiniteSet(S), NEW x \in S, NEW f, \A i \in S : f[i] \in Nat
    PROVE  /\ Total(f, S) = Total(f, S \ {x}) + f[x]
           /\ Total(f, S \ {x}) \in Nat
<1> DEFINE R == S \ {x}
           X == {x}
<1>1. IsFiniteSet(R) /\ IsFiniteSet(X) /\ R \cap X = {} /\ S = R \cup X
  BY FS_Subset, FS_Singleton
<1>2. Total(f, X) = f[x]
  BY TotalOfOne
<1>3. Total(f, R) \in Nat
  BY <1>1, TotalFinite
<1> HIDE DEF R, X
<1>4. Total(f, R \cup X) = Total(f, R) + Total(f, X)
  BY <1>1, TotalOfTwo
<1> QED
  BY <1>1, <1>2, <1>3, <1>4 DEF R

LEMMA TotalSame ==
    ASSUME NEW S, NEW f, NEW g, \A i \in S : f[i] = g[i]
    PROVE  Total(f, S) = Total(g, S)
<1>1. {{i} \X (1 .. f[i]) : i \in S} = {{i} \X (1 .. g[i]) : i \in S}
  OBVIOUS
<1> QED
  BY <1>1 DEF Total, BytesOf

LEMMA SizeOfIsTotal ==
    ASSUME NEW S
    PROVE  SizeOf(S) = Total(slots, S)
BY DEF SizeOf, BytesIn, Total, BytesOf

LEMMA SizeOfUsedNext == SizeOf(Used)' = Total(slots', Used')
BY DEF SizeOf, BytesIn, Total, BytesOf

LEMMA UsedSizes ==
    ASSUME TableTyped
    PROVE  \A i \in Used : slots[i] \in Nat
BY DEF TableTyped, Used

-----------------------------------------------------------------------------
(* free_slot finds a slot.                                                 *)

LEMMA Least ==
    ASSUME NEW S, S \subseteq Nat, S # {}
    PROVE  \E m \in S : \A n \in S : m <= n
<1> DEFINE Before == {pair \in Nat \X Nat : pair[1] < pair[2]}
<1>1. IsWellFoundedOn(Before, Nat)
  BY NatLessThanWellFounded DEF OpToRel
<1>2. \A m, n \in Nat : n < m => <<n, m>> \in Before
  OBVIOUS
<1> HIDE DEF Before
<1>3. PICK m \in S : \A n \in S : ~ (<<n, m>> \in Before)
  BY <1>1, WFMin
<1>4. m \in Nat /\ \A n \in S : n \in Nat /\ ~ (n < m)
  BY <1>2, <1>3
<1> QED
  BY <1>3, <1>4

LEMMA SlotFound ==
    ASSUME TableTyped, LiveExact, live < MaxSlots
    PROVE  CanTakeSlot /\ \E i \in DOMAIN Resized : IsNext(i)
<1>1. /\ Grown \in Nat /\ Grown >= 1 /\ capacity \in Nat /\ live \in Nat
      /\ capacity <= Grown /\ live < Grown /\ MaxSlots \in Nat
      /\ live >= capacity => Grown > capacity
  <2>1. live \in Nat
    BY UsedFinite DEF LiveExact
  <2>2. capacity \in Nat /\ capacity >= 1 /\ MaxSlots \in Nat /\ InitialSlots \in Nat \ {0}
    BY TempStringsAssumption DEF TableTyped
  <2>3. Grown = IF live >= capacity
                  THEN IF 2 * capacity + InitialSlots < MaxSlots THEN 2 * capacity + InitialSlots ELSE MaxSlots
                  ELSE capacity
    BY DEF Grown, Smaller
  <2>4. Grown \in capacity .. MaxSlots
    BY GrownFacts
  <2>5. live >= capacity => Grown > capacity /\ Grown > live
    <3>1. live <= capacity
      BY UsedAtMost DEF LiveExact
    <3> QED
      BY <2>1, <2>2, <2>3, <3>1
  <2> QED
    BY <2>1, <2>2, <2>4, <2>5
<1>2. CanTakeSlot
  BY <1>1 DEF CanTakeSlot
<1> DEFINE Vacant == {i \in DOMAIN Resized : Resized[i] = Free}
<1>3. Vacant # {}
  <2>1. ASSUME Vacant = {}
        PROVE  Used = 0 .. Grown - 1
    BY <2>1, ResizedFacts
  <2>2. Cardinality(0 .. Grown - 1) = Grown
    BY <1>1, FS_Interval
  <2> QED
    BY <1>1, <2>1, <2>2 DEF LiveExact
<1>4. Start \in 0 .. Grown - 1
  BY <1>1 DEF Start, TableTyped
<1> DEFINE After(j) == IF j >= Start THEN j - Start ELSE j + Grown - Start
<1>5. \A j \in Vacant : After(j) \in Nat
  <2>1. \A j \in Vacant : j \in 0 .. Grown - 1
    BY ResizedFacts
  <2> QED
    BY <1>1, <1>4, <2>1
<1>6. PICK m \in {After(j) : j \in Vacant} : \A n \in {After(j) : j \in Vacant} : m <= n
  <2>1. {After(j) : j \in Vacant} \subseteq Nat /\ {After(j) : j \in Vacant} # {}
    BY <1>3, <1>5
  <2> HIDE DEF Vacant, After
  <2> QED
    BY <2>1, Least
<1>7. PICK i \in Vacant : \A j \in Vacant : After(i) <= After(j)
  BY <1>6
<1>8. IsNext(i)
  BY <1>7 DEF IsNext
<1> QED
  BY <1>2, <1>8

-----------------------------------------------------------------------------
(* Every step.                                                             *)

LEMMA InitHolds == Init => IInv
<1> SUFFICES ASSUME Init PROVE IInv
  OBVIOUS
<1>1. TableTyped
  BY TempStringsAssumption DEF Init, TableTyped, Smaller
<1>2. RefsTyped
  BY DEF Init, RefsTyped
<1>3. Used = {}
  BY DEF Init, Used
<1>4. BytesExact
  <2>1. SizeOf({}) = 0
    BY SizeOfIsTotal, TotalOfNone
  <2>2. bytes = 0 /\ 0 \in 0 .. MaxBytes
    BY TempStringsAssumption DEF Init
  <2> QED
    BY <1>3, <2>1, <2>2 DEF BytesExact
<1> QED
  BY <1>1, <1>2, <1>3, <1>4, FS_EmptySet DEF IInv, LiveExact, Init

\* A store of strings that step by step takes, changes and forgets some.
LEMMA AllocStep ==
    ASSUME IInv, NEW len \in Lengths, NEW p \in Places, Alloc(len, p)
    PROVE  IInv' /\ (\E r \in Refs : Store!New(r) /\ Held' \subseteq Refs)
<1>1. PICK i \in DOMAIN Resized :
        /\ IsNext(i)
        /\ slots' = [Resized EXCEPT ![i] = Padded(len)]
        /\ cursor' = i + 1
        /\ words' = [words EXCEPT ![p] = i]
  BY DEF Alloc
<1>2. /\ i \in 0 .. Grown - 1 /\ Resized[i] = Free /\ i \notin Used
      /\ Grown \in 1 .. MaxSlots /\ MaxSlots \in Nat
  <2>1. TableTyped /\ MaxSlots \in Nat
    BY TempStringsAssumption DEF IInv
  <2>2. Resized[i] = Free
    BY <1>1 DEF IsNext
  <2>3. Grown \in 1 .. MaxSlots
    BY <2>1, GrownFacts DEF TableTyped
  <2> QED
    BY <2>1, <2>2, <2>3, ResizedFacts
<1>3. i \in Refs
  BY <1>2, TempStringsAssumption DEF Refs
<1>4. Padded(len) \in Nat /\ Free \notin Nat
  BY PaddedNat DEF Free
<1>5. DOMAIN slots' = 0 .. Grown - 1 /\ slots' \in [0 .. Grown - 1 -> Nat \cup {Free}]
  BY <1>1, <1>2, <1>4, ResizedFacts DEF IInv
<1>6. TableTyped'
  BY <1>1, <1>2, <1>5 DEF TableTyped, Alloc
<1>7. /\ slots'[i] = Padded(len)
      /\ \A j \in DOMAIN slots' : j # i => slots'[j] = Resized[j]
  BY <1>1, <1>2, <1>5, ResizedFacts DEF IInv
<1>8. Used' = Used \cup {i}
  <2>1. \A j \in DOMAIN slots' : slots'[j] # Free <=> (j = i \/ Resized[j] # Free)
    BY <1>2, <1>4, <1>7
  <2>2. Used = {j \in DOMAIN slots' : Resized[j] # Free}
    BY <1>5, ResizedFacts DEF IInv
  <2> QED
    BY <1>2, <1>5, <2>1, <2>2 DEF Used
<1>9. LiveExact'
  <2>1. Cardinality(Used') = Cardinality(Used) + 1
    BY <1>2, <1>8, UsedFinite, FS_AddElement DEF IInv
  <2> QED
    BY <2>1 DEF LiveExact, IInv, Alloc
<1>10. RefsTyped'
  BY <1>1, <1>3 DEF RefsTyped, IInv, Alloc
<1>11. Held' \subseteq Refs
  BY <1>10 DEF Held, RefsTyped, NoRef, Places
<1>12. Store!New(i)
  <2>1. i \notin DOMAIN Strings
    BY <1>2 DEF Strings
  <2>2. \A r \in Used' : slots'[r] \in Nat
    BY <1>5 DEF Used
  <2>3. Strings' \in [Used \cup {i} -> Nat]
    BY <1>8, <2>2 DEF Strings
  <2>4. \A q \in Used : slots'[q] = slots[q]
    BY <1>2, <1>5, <1>7, UsedFinite, ResizedFacts DEF IInv
  <2>5. \A q \in Used : Strings'[q] = Strings[q]
    BY <1>8, <2>4 DEF Strings
  <2> QED
    BY <2>1, <2>3, <2>5 DEF Store!New, Strings
<1>13. BytesExact'
  <2> DEFINE used == Used
             one == {i}
  <2>1. IsFiniteSet(used) /\ \A j \in used : slots[j] \in Nat
    BY UsedFinite, UsedSizes DEF IInv
  <2>2. IsFiniteSet(one) /\ used \cap one = {}
    BY <1>2, FS_Singleton
  <2>3. \A j \in used : slots'[j] = slots[j]
    BY <1>2, <1>5, <1>7, UsedFinite, ResizedFacts DEF IInv
  <2>4. slots'[i] \in Nat /\ slots'[i] = Padded(len)
    BY <1>4, <1>7
  <2>5. Total(slots', one) = Padded(len)
    BY <2>4, TotalOfOne
  <2>6. Used' = used \cup one
    BY <1>8
  <2>7. bytes = Total(slots, used) /\ bytes \in 0 .. MaxBytes
    BY SizeOfIsTotal DEF IInv, BytesExact
  <2>8. \A j \in used \cup one : slots'[j] \in Nat
    BY <2>1, <2>3, <2>4
  <2> HIDE DEF used, one
  <2>9. Total(slots', used) = Total(slots, used)
    BY <2>3, TotalSame
  <2>10. Total(slots', used \cup one) = Total(slots', used) + Total(slots', one)
    BY <2>1, <2>2, <2>8, TotalOfTwo
  <2>11. bytes' = bytes + Padded(len) /\ Padded(len) <= MaxBytes - bytes
    BY DEF Alloc, Fits
  <2>12. bytes' = Total(slots', Used')
    BY <2>5, <2>6, <2>7, <2>9, <2>10, <2>11
  <2>13. bytes' \in 0 .. MaxBytes
    BY <1>4, <2>7, <2>11, TempStringsAssumption
  <2> QED
    BY <2>12, <2>13, SizeOfUsedNext DEF BytesExact
<1> QED
  BY <1>3, <1>6, <1>9, <1>10, <1>11, <1>12, <1>13 DEF IInv

LEMMA ExtendStep ==
    ASSUME IInv, NEW p \in Places, NEW len \in Lengths, Extend(p, len)
    PROVE  IInv' /\ (\E r \in Refs : Store!Write(r) /\ UNCHANGED Held)
<1>1. PICK i \in Refs :
        /\ i = words[p] /\ i \in Used /\ i \in DOMAIN slots
        /\ slots[i] \in Nat /\ slots[i] < len /\ len \in Nat
  <2>1. words[p] \in Used /\ words[p] \in DOMAIN slots /\ words[p] \in Refs
    BY UsedFinite DEF Extend, HasString, Used, IInv
  <2>2. slots[words[p]] \in Nat /\ len \in Nat
    BY <2>1, TempStringsAssumption DEF IInv, TableTyped, Used, Free
  <2> QED
    BY <2>1, <2>2 DEF Extend
<1> DEFINE grow == Padded(len - 1)
<1>2. slots' = [slots EXCEPT ![i] = grow]
  BY <1>1 DEF Extend
<1>3. grow \in Nat /\ Free \notin Nat
  <2>1. len - 1 + Unit \in Nat /\ Unit \in Nat \ {0}
    BY <1>1, TempStringsAssumption
  <2>2. \A a \in Nat, u \in Nat \ {0} : a \div u \in Nat
    OBVIOUS
  <2>3. \A a, u \in Nat : a * u \in Nat
    OBVIOUS
  <2> QED
    BY <2>1, <2>2, <2>3 DEF Padded, Free
<1> HIDE DEF grow
<1>4. DOMAIN slots' = DOMAIN slots /\ slots' \in [DOMAIN slots -> Nat \cup {Free}]
  BY <1>1, <1>2, <1>3 DEF IInv, TableTyped
<1>5. slots'[i] = grow /\ \A j \in DOMAIN slots : j # i => slots'[j] = slots[j]
  BY <1>1, <1>2
<1>6. Used' = Used
  BY <1>1, <1>3, <1>4, <1>5 DEF Used
<1>7. TableTyped' /\ RefsTyped'
  BY <1>4 DEF IInv, TableTyped, RefsTyped, Extend
<1>8. LiveExact'
  BY <1>6 DEF IInv, LiveExact, Extend
<1>9. Held' = Held
  BY DEF Held, Extend
<1>10. Store!Write(i)
  <2>1. i \in DOMAIN Strings
    BY <1>1 DEF Strings
  <2>2. \A r \in Used : slots'[r] \in Nat
    BY <1>4, <1>6 DEF Used
  <2>3. Strings' \in [Used -> Nat]
    BY <1>6, <2>2 DEF Strings
  <2>4. \A q \in Used \ {i} : Strings'[q] = Strings[q]
    BY <1>5, <1>6, UsedFinite DEF Strings, IInv
  <2> QED
    BY <2>1, <2>3, <2>4 DEF Store!Write, Strings
<1>11. \E r \in Refs : Store!Write(r) /\ Held' = Held
  BY <1>1, <1>9, <1>10
<1>12. BytesExact'
  <2> DEFINE used == Used
             rest == Used \ {i}
  <2>1. IsFiniteSet(used) /\ (\A j \in used : slots[j] \in Nat) /\ i \in used
    BY <1>1, UsedFinite, UsedSizes DEF IInv
  <2>2. \A j \in used : slots'[j] \in Nat
    BY <1>3, <1>5, <2>1, UsedFinite DEF IInv
  <2>3. \A j \in rest : slots'[j] = slots[j]
    BY <1>5, UsedFinite DEF IInv
  <2>4. bytes = Total(slots, used) /\ bytes \in 0 .. MaxBytes
    BY SizeOfIsTotal DEF IInv, BytesExact
  <2>5. rest = used \ {i} /\ Used' = used
    BY <1>6
  <2> HIDE DEF used, rest
  <2>6. Total(slots, used) = Total(slots, rest) + slots[i] /\ Total(slots, rest) \in Nat
    BY <2>1, <2>5, TotalWithout
  <2>7. Total(slots', used) = Total(slots', rest) + slots'[i]
    BY <2>1, <2>2, <2>5, TotalWithout
  <2>8. Total(slots', rest) = Total(slots, rest)
    BY <2>3, TotalSame
  <2>9. bytes' = bytes + (grow - slots[i]) /\ bytes + (grow - slots[i]) <= MaxBytes
    BY <1>1 DEF Extend, grow
  <2>10. bytes' = Total(slots', Used')
    <3>1. Total(slots', used) = Total(slots, rest) + grow
      BY <1>5, <2>7, <2>8
    <3>2. bytes' = Total(slots, rest) + slots[i] + (grow - slots[i])
      BY <2>4, <2>6, <2>9
    <3>3. bytes' = Total(slots, rest) + grow
      BY <1>1, <1>3, <2>6, <3>2
    <3> QED
      BY <2>5, <3>1, <3>3
  <2>11. bytes' \in 0 .. MaxBytes
    BY <1>1, <1>3, <2>4, <2>6, <2>9, TempStringsAssumption
  <2> QED
    BY <2>10, <2>11, SizeOfUsedNext DEF BytesExact
<1> QED
  BY <1>7, <1>8, <1>11, <1>12 DEF IInv

\* Nothing but references changes.
LEMMA RefsStep ==
    ASSUME IInv, RefsTyped', UNCHANGED <<slots, capacity, cursor, live, bytes>>
    PROVE  IInv' /\ Store!Hold
<1>1. TableTyped'
  BY DEF IInv, TableTyped
<1>2. Used' = Used
  BY DEF Used
<1>3. LiveExact'
  BY <1>2 DEF IInv, LiveExact
<1>4. Held' \subseteq Refs
  BY DEF Held, RefsTyped, NoRef, Places
<1>5. Strings' = Strings
  BY <1>2 DEF Strings
<1>6. BytesExact'
  <2>1. Total(slots', Used') = Total(slots, Used) /\ bytes' = bytes
    BY <1>2
  <2>2. bytes = Total(slots, Used) /\ bytes \in 0 .. MaxBytes
    BY SizeOfIsTotal DEF IInv, BytesExact
  <2> QED
    BY <2>1, <2>2, SizeOfUsedNext DEF BytesExact
<1> QED
  BY <1>1, <1>3, <1>4, <1>5, <1>6 DEF IInv, Store!Hold, Strings

LEMMA CollectStep ==
    ASSUME IInv, Collect
    PROVE  IInv' /\ Store!Forget /\ UNCHANGED Held
<1>1. DOMAIN slots' = DOMAIN slots
  BY DEF Collect, Collected
<1>2. \A j \in DOMAIN slots : slots'[j] = IF j \in Marked THEN slots[j] ELSE Free
  BY DEF Collect, Collected
<1>3. slots' \in [DOMAIN slots' -> Nat \cup {Free}]
  BY <1>1 DEF IInv, TableTyped, Collect, Collected
<1>4. Used' = Used \ Dead
  BY <1>1, <1>2 DEF Used, Dead
<1>5. Used' \subseteq Used /\ \A r \in Used' : slots'[r] = slots[r] /\ slots'[r] \in Nat
  BY <1>1, <1>2, <1>3, <1>4 DEF Used, Dead
<1>6. LiveExact'
  <2>1. Cardinality(Used \ Dead) = Cardinality(Used) - Cardinality(Used \cap Dead)
    BY UsedFinite, FS_Difference DEF IInv
  <2>2. Used \cap Dead = Dead
    BY DEF Dead
  <2> QED
    BY <1>4, <2>1, <2>2 DEF LiveExact, IInv, Collect
<1>7. capacity' \in capacity .. MaxSlots
  BY TempStringsAssumption DEF IInv, TableTyped, Collect, Smaller
<1>8. TableTyped'
  <2>1. capacity' \in 1 .. MaxSlots /\ DOMAIN slots' \subseteq 0 .. capacity' - 1
    BY <1>1, <1>7, TempStringsAssumption DEF IInv, TableTyped
  <2>2. cursor' \in Nat
    BY DEF Collect
  <2> QED
    BY <1>3, <2>1, <2>2 DEF TableTyped
<1>9. RefsTyped'
  BY DEF IInv, RefsTyped, Collect
<1>10. Held' = Held
  BY DEF Held, Collect
<1>11. Store!Forget
  <2>1. DOMAIN Strings' = Used' /\ DOMAIN Strings = Used
    BY DEF Strings
  <2>2. Used \cap Held \subseteq Used'
    BY <1>4 DEF Held, Marked, Dead
  <2>3. Strings' \in [Used' -> Nat]
    BY <1>5 DEF Strings
  <2>4. \A r \in Used' : Strings'[r] = Strings[r]
    BY <1>5 DEF Strings
  <2> QED
    BY <1>5, <2>1, <2>2, <2>3, <2>4 DEF Store!Forget, Strings
<1>12. BytesExact'
  <2> DEFINE gone == Dead
             left == Used'
             used == Used
  <2>1. used = left \cup gone /\ left \cap gone = {}
    BY <1>4 DEF Dead
  <2>2. IsFiniteSet(used) /\ \A j \in used : slots[j] \in Nat
    BY UsedFinite, UsedSizes DEF IInv
  <2>3. \A j \in left : slots'[j] = slots[j]
    BY <1>5
  <2>4. bytes = Total(slots, used) /\ bytes \in 0 .. MaxBytes /\ bytes' = bytes - Total(slots, gone)
    BY SizeOfIsTotal DEF IInv, BytesExact, Collect, BytesAfter
  <2>5. Used' = left
    OBVIOUS
  <2> HIDE DEF gone, left, used
  <2>6. IsFiniteSet(left) /\ IsFiniteSet(gone)
    BY <2>1, <2>2, FS_Subset
  <2>7. Total(slots, left) \in Nat /\ Total(slots, gone) \in Nat
    BY <2>1, <2>2, <2>6, TotalFinite
  <2>8. Total(slots, left \cup gone) = Total(slots, left) + Total(slots, gone)
    BY <2>1, <2>2, <2>6, TotalOfTwo
  <2>9. Total(slots', left) = Total(slots, left)
    BY <2>3, TotalSame
  <2>10. bytes' = Total(slots', Used') /\ bytes' \in 0 .. MaxBytes
    BY <2>1, <2>4, <2>5, <2>7, <2>8, <2>9, TempStringsAssumption
  <2> QED
    BY <2>10, SizeOfUsedNext DEF BytesExact
<1> QED
  BY <1>6, <1>8, <1>9, <1>10, <1>11, <1>12 DEF IInv

\* Every step keeps the invariant and is a step of the store, or none.
LEMMA StepHolds == IInv /\ [Next]_vars => IInv' /\ [Store!Next]_<<Strings, Held>>
<1> SUFFICES ASSUME IInv, [Next]_vars
             PROVE  IInv' /\ [Store!Next]_<<Strings, Held>>
  OBVIOUS
<1>1. ASSUME NEW len \in Lengths, NEW p \in Places, Alloc(len, p)
      PROVE  IInv' /\ Store!Next
  BY <1>1, AllocStep DEF Store!Next
<1>2. ASSUME NEW p \in Places, NEW len \in Lengths, Extend(p, len)
      PROVE  IInv' /\ Store!Next
  BY <1>2, ExtendStep DEF Store!Next
<1>3. ASSUME NEW p \in Places, NEW q \in Places, Copy(p, q)
      PROVE  IInv' /\ Store!Next
  <2>1. RefsTyped'
    BY <1>3 DEF Copy, IInv, RefsTyped
  <2> QED
    BY <1>3, <2>1, RefsStep DEF Copy, Store!Next
<1>4. ASSUME NEW p \in Places, NEW r \in Refs \cup {NoRef}, Overwrite(p, r)
      PROVE  IInv' /\ Store!Next
  <2>1. RefsTyped'
    BY <1>4 DEF Overwrite, IInv, RefsTyped
  <2> QED
    BY <1>4, <2>1, RefsStep DEF Overwrite, Store!Next
<1>5. ASSUME NEW p \in Places, Pin(p)
      PROVE  IInv' /\ Store!Next
  <2>1. words[p] \in Refs
    BY <1>5 DEF Pin, IInv, RefsTyped
  <2>2. RefsTyped'
    BY <1>5, <2>1 DEF Pin, IInv, RefsTyped
  <2> QED
    BY <1>5, <2>2, RefsStep DEF Pin, Store!Next
<1>6. ASSUME NEW r \in Refs, Unpin(r)
      PROVE  IInv' /\ Store!Next
  <2>1. RefsTyped'
    BY <1>6 DEF Unpin, IInv, RefsTyped
  <2> QED
    BY <1>6, <2>1, RefsStep DEF Unpin, Store!Next
<1>7. CASE Collect
  BY <1>7, CollectStep DEF Store!Next
<1>8. CASE UNCHANGED <<slots, capacity, cursor, live, bytes, pins, words>>
  <2>1. RefsTyped'
    BY <1>8 DEF IInv, RefsTyped
  <2> QED
    BY <1>8, <2>1, RefsStep DEF Store!Next
<1> QED
  BY <1>1, <1>2, <1>3, <1>4, <1>5, <1>6, <1>7, <1>8 DEF Next, CollectGarbage, CallBegins, CallEnds, vars, Strings

-----------------------------------------------------------------------------
(* The theorems.                                                           *)

\* The invariant holds in every state.
THEOREM Invariance == Spec => []IInv
BY InitHolds, StepHolds, PTL DEF Spec

\* The count of live strings that a limit is checked against is that of the table.
THEOREM LiveAlwaysExact == Spec => []LiveExact
<1>1. IInv => LiveExact
  BY DEF IInv
<1> QED
  BY <1>1, Invariance, PTL

\* free_slot refuses a slot only when limits.temp_strings are live.
THEOREM SlotsRefusedOnlyAtLimit == Spec => []RefusedOnlyAtLimit
<1>1. IInv => RefusedOnlyAtLimit
  BY SlotFound DEF IInv, RefusedOnlyAtLimit
<1> QED
  BY <1>1, Invariance, PTL

\* The counts of live strings and of their bytes, which alloc, temp_raw_mut and
\* collect_garbage keep, are those of the table, and free_slot refuses only at the limit.
THEOREM LimitsAlwaysExact == Spec => []LimitsExact
<1>1. IInv => LimitsExact
  BY SlotFound DEF IInv, LimitsExact, CountsExact, LiveExact, BytesExact, TableTyped, RefusedOnlyAtLimit
<1> QED
  BY <1>1, Invariance, PTL

\* The table is a store of strings: what a root names is never lost or overwritten.
THEOREM StringsAlwaysKept == Spec => StringsKept
<1>1. Init => Store!Init
  <2> SUFFICES ASSUME Init PROVE Store!Init
    OBVIOUS
  <2>1. Used = {}
    BY DEF Init, Used
  <2>2. Held = {}
    BY DEF Init, Held, NoRef, Places
  <2> QED
    BY <2>1, <2>2 DEF Store!Init, Strings
<1>2. IInv /\ [Next]_vars => [Store!Next]_<<Strings, Held>>
  BY StepHolds
<1> QED
  BY <1>1, <1>2, Invariance, PTL DEF Spec, StringsKept, Store!Spec
=============================================================================
