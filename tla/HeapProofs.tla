----------------------------- MODULE HeapProofs -----------------------------
(***************************************************************************)
(* The allocator of module Heap for every size of the region, of its       *)
(* blocks and of the requests.                                             *)
(***************************************************************************)
EXTENDS Heap, TLAPS, WellFoundedInduction

-----------------------------------------------------------------------------
(* Least and greatest numbers.                                             *)

LEMMA MinOfNats ==
  ASSUME NEW S, S \subseteq Nat, S # {}
  PROVE  Min(S) \in S /\ \A y \in S : Min(S) <= y
<1> DEFINE Less == {ss \in Nat \X Nat : ss[1] < ss[2]}
<1>1. IsWellFoundedOn(Less, Nat)
  BY NatLessThanWellFounded DEF OpToRel
<1>2. \A x, y \in Nat : y < x => <<y, x>> \in Less
  OBVIOUS
<1> HIDE DEF Less
<1>3. PICK x \in S : \A y \in S : ~ (<<y, x>> \in Less)
  BY <1>1, WFMin
<1>4. x \in Nat /\ \A y \in S : y \in Nat /\ ~ (y < x)
  BY <1>2, <1>3
<1>5. \A y \in S : x <= y
  BY <1>4
<1> QED
  BY <1>5 DEF Min

LEMMA MaxOfNats ==
  ASSUME NEW n \in Nat, NEW S, S \subseteq 0 .. n, S # {}
  PROVE  Max(S) \in S /\ \A y \in S : y <= Max(S)
<1> DEFINE T == {n - x : x \in S}
<1>1. T \subseteq Nat /\ T # {}
  OBVIOUS
<1>2. PICK t \in T : \A u \in T : t <= u
  BY <1>1, MinOfNats
<1>3. PICK x \in S : t = n - x
  BY <1>2
<1>4. \A y \in S : n - y \in T /\ y \in 0 .. n /\ x \in 0 .. n
  OBVIOUS
<1>5. \A y \in S : n - x <= n - y
  BY <1>2, <1>3, <1>4
<1>6. \A y \in S : x >= y /\ y <= x
  BY <1>4, <1>5
<1>7. Max(S) \in S /\ \A y \in S : Max(S) >= y
  BY <1>3, <1>6 DEF Max
<1>8. \A y \in S : y \in Int
  OBVIOUS
<1>9. Max(S) \in Int
  BY <1>7, <1>8
<1>10. \A y \in S : y <= Max(S)
  BY <1>7, <1>8, <1>9
<1> QED
  BY <1>7, <1>10

-----------------------------------------------------------------------------
(* Tilings of an interval by two kinds of blocks, U and F, with sizes z.   *)

Sized(len, U, F, z) ==
  /\ len \in Nat /\ U \subseteq Nat /\ F \subseteq Nat
  /\ \A o \in U \cup F : z[o] \in Nat

\* The blocks of either kind fill 0 .. len - 1.
Fills(len, U, F, z) ==
  /\ U \cap F = {}
  /\ \A o \in U \cup F : z[o] > 0 /\ o + z[o] <= len
  /\ \A o, p \in U \cup F : o < p => o + z[o] <= p
  /\ len > 0 => 0 \in U \cup F
  /\ \A o \in U \cup F : o + z[o] < len => o + z[o] \in U \cup F

\* No two free blocks touch.
Coalesced(F, z) == \A o \in F : o + z[o] \notin F

\* The only free blocks that touch are o and the one in front of it.
TouchAt(F, z, o) == \A p \in F : p + z[p] \in F => p < o /\ p + z[p] = o

LEMMA ExtendFills ==
  ASSUME NEW len, NEW U, NEW F, NEW z, NEW y, NEW s \in Nat \ {0},
         Sized(len, U, F, z), Fills(len, U, F, z), Coalesced(F, z),
         \A o \in U \cup F : y[o] = z[o], y[len] = s
  PROVE  /\ len \notin U \cup F
         /\ Sized(len + s, U \cup {len}, F, y) /\ Fills(len + s, U \cup {len}, F, y)
         /\ Coalesced(F, y)
<1>1. len \in Nat /\ \A o \in U \cup F : o \in Nat /\ z[o] \in Nat /\ o < len
  BY DEF Sized, Fills
<1>2. len \notin U \cup F
  BY <1>1
<1>3. Sized(len + s, U \cup {len}, F, y)
  BY <1>1 DEF Sized
<1>4. Fills(len + s, U \cup {len}, F, y)
  <2>1. (U \cup {len}) \cap F = {}
    BY <1>2 DEF Fills
  <2>2. \A o \in (U \cup {len}) \cup F : y[o] > 0 /\ o + y[o] <= len + s
    BY <1>1 DEF Fills
  <2>3. \A o, p \in (U \cup {len}) \cup F : o < p => o + y[o] <= p
    BY <1>1 DEF Fills
  <2>4. 0 \in (U \cup {len}) \cup F
    BY <1>1 DEF Fills
  <2>5. \A o \in (U \cup {len}) \cup F :
          o + y[o] < len + s => o + y[o] \in (U \cup {len}) \cup F
    BY <1>1 DEF Fills
  <2> QED
    BY <2>1, <2>2, <2>3, <2>4, <2>5 DEF Fills
<1>5. Coalesced(F, y)
  BY DEF Coalesced
<1> QED
  BY <1>2, <1>3, <1>4, <1>5

\* A free block comes into use whole.
LEMMA TakeFills ==
  ASSUME NEW len, NEW U, NEW F, NEW z, NEW y, NEW o \in F,
         Sized(len, U, F, z), Fills(len, U, F, z), Coalesced(F, z),
         \A p \in U \cup F : y[p] = z[p]
  PROVE  /\ Sized(len, U \cup {o}, F \ {o}, y) /\ Fills(len, U \cup {o}, F \ {o}, y)
         /\ Coalesced(F \ {o}, y)
<1>1. (U \cup {o}) \cup (F \ {o}) = U \cup F
  OBVIOUS
<1> QED
  BY <1>1 DEF Sized, Fills, Coalesced

\* The first part of a free block comes into use.
LEMMA SplitFills ==
  ASSUME NEW len, NEW U, NEW F, NEW z, NEW y, NEW o \in Nat, NEW s \in Nat \ {0},
         NEW t \in Nat, NEW r \in Nat \ {0},
         Sized(len, U, F, z), Fills(len, U, F, z), Coalesced(F, z),
         o \in F, t = o + s, z[o] = s + r, y[o] = s, y[t] = r,
         \A p \in (U \cup F) \ {o} : y[p] = z[p]
  PROVE  /\ t \notin U \cup F
         /\ Sized(len, U \cup {o}, (F \ {o}) \cup {t}, y)
         /\ Fills(len, U \cup {o}, (F \ {o}) \cup {t}, y)
         /\ Coalesced((F \ {o}) \cup {t}, y)
<1> DEFINE A == U \cup {o}
           B == (F \ {o}) \cup {t}
<1>1. /\ len \in Nat /\ o \in Nat /\ z[o] \in Nat /\ o + z[o] <= len
      /\ \A p \in U \cup F : p \in Nat /\ z[p] \in Nat /\ z[p] > 0 /\ p + z[p] <= len
  BY DEF Sized, Fills
<1>2. \A p \in (U \cup F) \ {o} : p + z[p] <= o \/ o + z[o] <= p
  BY <1>1 DEF Fills
<1>3. t \notin U \cup F
  BY <1>1, <1>2
<1>4. \A p \in A \cup B : p = o \/ p = t \/ p \in (U \cup F) \ {o}
  OBVIOUS
<1>5. Sized(len, A, B, y)
  BY <1>1 DEF Sized
<1>6. A \cap B = {}
  BY <1>1, <1>3 DEF Fills
<1>7. \A p \in A \cup B : y[p] > 0 /\ p + y[p] <= len
  BY <1>1, <1>4
<1>8. \A p, q \in A \cup B : p < q => p + y[p] <= q
  BY <1>1, <1>2, <1>4 DEF Fills
<1>9. len > 0 => 0 \in A \cup B
  BY DEF Fills
<1>10. \A p \in A \cup B : p + y[p] < len => p + y[p] \in A \cup B
  <2>1. \A p \in U \cup F : p \in A \cup B
    OBVIOUS
  <2>2. o + y[o] \in A \cup B
    OBVIOUS
  <2>3. t + y[t] = o + z[o]
    BY <1>1
  <2>4. \A p \in U \cup F : p + z[p] < len => p + z[p] \in A \cup B
    BY <2>1 DEF Fills
  <2> QED
    BY <1>4, <2>2, <2>3, <2>4
<1>11. Coalesced(B, y)
  <2>1. t + y[t] = o + z[o] /\ o + z[o] \notin F /\ o + z[o] # t
    BY <1>1 DEF Coalesced
  <2>2. \A p \in F \ {o} : p + z[p] \notin F /\ p + z[p] # t
    BY <1>1, <1>2 DEF Coalesced
  <2> QED
    BY <2>1, <2>2 DEF Coalesced
<1> QED
  BY <1>3, <1>5, <1>6, <1>7, <1>8, <1>9, <1>10, <1>11 DEF Fills

\* A used block becomes free.
LEMMA LoosenFills ==
  ASSUME NEW len, NEW U, NEW F, NEW z, NEW o \in U,
         Sized(len, U, F, z), Fills(len, U, F, z)
  PROVE  Sized(len, U \ {o}, F \cup {o}, z) /\ Fills(len, U \ {o}, F \cup {o}, z)
<1>1. (U \ {o}) \cup (F \cup {o}) = U \cup F
  OBVIOUS
<1> QED
  BY <1>1 DEF Sized, Fills

\* A free block is joined to the free block behind it.
LEMMA JoinFills ==
  ASSUME NEW len, NEW U, NEW F, NEW z, NEW y, NEW p \in F, NEW q \in F,
         Sized(len, U, F, z), Fills(len, U, F, z),
         p + z[p] = q, y[p] = z[p] + z[q],
         \A r \in (U \cup F) \ {p, q} : y[r] = z[r]
  PROVE  Sized(len, U, F \ {q}, y) /\ Fills(len, U, F \ {q}, y)
<1> DEFINE G == F \ {q}
<1>1. /\ len \in Nat
      /\ \A r \in U \cup F : r \in Nat /\ z[r] \in Nat /\ z[r] > 0 /\ r + z[r] <= len
  BY DEF Sized, Fills
<1>2. q # p /\ q \notin U /\ p \notin U /\ p \in G
  BY <1>1 DEF Fills
<1>3. \A r \in U \cup G : r = p \/ r \in (U \cup F) \ {p, q}
  BY <1>2
<1>4. p + y[p] = q + z[q] /\ y[p] \in Nat /\ y[p] > 0
  BY <1>1
<1>5. \A r \in (U \cup F) \ {p, q} : r + z[r] <= p \/ q + z[q] <= r
  BY <1>1, <1>2 DEF Fills
<1>6. Sized(len, U, G, y)
  BY <1>1, <1>2, <1>3, <1>4 DEF Sized
<1>7. U \cap G = {}
  BY DEF Fills
<1>8. \A r \in U \cup G : y[r] > 0 /\ r + y[r] <= len
  BY <1>1, <1>3, <1>4
<1>9. \A r, t \in U \cup G : r < t => r + y[r] <= t
  BY <1>1, <1>3, <1>4, <1>5 DEF Fills
<1>10. len > 0 => 0 \in U \cup G
  BY <1>1, <1>2 DEF Fills
<1>11. \A r \in U \cup G : r + y[r] < len => r + y[r] \in U \cup G
  <2>1. \A r \in (U \cup F) \ {p, q} : r + z[r] # q
    BY <1>1, <1>5
  <2>2. \A r \in U \cup F : r + z[r] < len => r + z[r] \in U \cup F
    BY DEF Fills
  <2>3. \A r \in (U \cup F) \ {p, q} : r + y[r] < len => r + y[r] \in U \cup G
    BY <2>1, <2>2
  <2>4. p + y[p] < len => p + y[p] \in U \cup G
    BY <1>1, <1>4, <2>2
  <2> QED
    BY <1>3, <2>3, <2>4
<1> QED
  BY <1>6, <1>7, <1>8, <1>9, <1>10, <1>11 DEF Fills

-----------------------------------------------------------------------------
(* The blocks of a heap.                                                   *)

Sizes(h) == [o \in Starts(h) |-> SizeAt(h, o)]

LEMMA TiledMeansFills ==
  ASSUME NEW h, Typed(h)
  PROVE  /\ Tiled(h) => /\ Sized(h.len, DOMAIN h.used, DOMAIN h.free, Sizes(h))
                        /\ Fills(h.len, DOMAIN h.used, DOMAIN h.free, Sizes(h))
                        /\ Coalesced(DOMAIN h.free, Sizes(h))
         /\ /\ Fills(h.len, DOMAIN h.used, DOMAIN h.free, Sizes(h))
            /\ Coalesced(DOMAIN h.free, Sizes(h))
            /\ \A o \in DOMAIN h.used : h.used[o].n > 0 /\ h.used[o].n <= h.used[o].size
            => Tiled(h)
<1> DEFINE U == DOMAIN h.used
           F == DOMAIN h.free
<1>1. U \subseteq Nat /\ F \subseteq Nat /\ h.len \in Nat
  BY HeapAssumption DEF Typed, Offsets
<1>2. \A o \in U : h.used[o].size \in Nat
  BY DEF Typed, Block
<1>3. \A o \in F : h.free[o] \in Nat
  BY DEF Typed
<1>4. \A o \in U \cup F : Sizes(h)[o] = SizeAt(h, o) /\ SizeAt(h, o) \in Nat
  BY <1>2, <1>3 DEF Sizes, Starts, SizeAt
<1>5. Sized(h.len, U, F, Sizes(h))
  BY <1>1, <1>4 DEF Sized
<1>6. ASSUME U \cap F = {}
      PROVE  \A o \in F : Sizes(h)[o] = h.free[o]
  BY <1>6 DEF Sizes, Starts, SizeAt
<1>7. ASSUME Tiled(h)
      PROVE  Fills(h.len, U, F, Sizes(h)) /\ Coalesced(F, Sizes(h))
  <2>1. U \cap F = {}
    BY <1>7 DEF Tiled
  <2>2. Fills(h.len, U, F, Sizes(h))
    BY <1>4, <1>7 DEF Tiled, Fills, Starts
  <2>3. Coalesced(F, Sizes(h))
    BY <1>6, <1>7, <2>1 DEF Tiled, Coalesced
  <2> QED
    BY <2>2, <2>3
<1>8. ASSUME Fills(h.len, U, F, Sizes(h)), Coalesced(F, Sizes(h)),
             \A o \in U : h.used[o].n > 0 /\ h.used[o].n <= h.used[o].size
      PROVE  Tiled(h)
  <2>1. U \cap F = {}
    BY <1>8 DEF Fills
  <2>2. \A o \in F : o + h.free[o] \notin F
    BY <1>6, <1>8, <2>1 DEF Coalesced
  <2>3. \A o \in Starts(h) : SizeAt(h, o) > 0 /\ o + SizeAt(h, o) <= h.len
    BY <1>4, <1>8 DEF Fills, Starts
  <2>4. \A o, p \in Starts(h) : o < p => o + SizeAt(h, o) <= p
    BY <1>4, <1>8 DEF Fills, Starts
  <2>5. /\ h.len > 0 => 0 \in Starts(h)
        /\ \A o \in Starts(h) : o + SizeAt(h, o) < h.len => o + SizeAt(h, o) \in Starts(h)
    BY <1>4, <1>8 DEF Fills, Starts
  <2> QED
    BY <1>8, <2>1, <2>2, <2>3, <2>4, <2>5 DEF Tiled
<1> QED
  BY <1>5, <1>7, <1>8

LEMMA RoundUpFits ==
  ASSUME NEW n \in Nat \ {0}
  PROVE  RoundUp(n) \in Nat \ {0} /\ n <= RoundUp(n)
<1> DEFINE m == n + Align - 1
           q == m \div Align
<1>1. m \in Nat /\ Align \in Nat \ {0}
  BY HeapAssumption
<1>2. q \in Nat /\ m % Align \in 0 .. Align - 1 /\ m = Align * q + (m % Align)
  BY <1>1, Z3
<1>3. q * Align \in Nat /\ Align * q = q * Align
  BY <1>1, <1>2
<1>4. q * Align >= n
  BY <1>1, <1>2, <1>3
<1> QED
  BY <1>3, <1>4 DEF RoundUp

-----------------------------------------------------------------------------
(* Allocating.                                                             *)

LEMMA PlaceFacts ==
  ASSUME NEW h, Typed(h), Tiled(h), NEW n \in Nat \ {0}, CanAlloc(h, n)
  PROVE  \/ /\ Fitting(h, RoundUp(n)) # {}
            /\ Place(h, n) \in DOMAIN h.free /\ h.free[Place(h, n)] >= RoundUp(n)
            /\ LenWith(h, n) = h.len
         \/ /\ Fitting(h, RoundUp(n)) = {}
            /\ Place(h, n) = h.len /\ LenWith(h, n) = h.len + RoundUp(n)
            /\ LenWith(h, n) <= MaxHeap
<1>1. CASE Fitting(h, RoundUp(n)) # {}
  <2>1. Fitting(h, RoundUp(n)) \subseteq Nat
    BY HeapAssumption DEF Fitting, Typed, Offsets
  <2>2. Min(Fitting(h, RoundUp(n))) \in Fitting(h, RoundUp(n))
    BY <1>1, <2>1, MinOfNats
  <2> QED
    BY <1>1, <2>2 DEF Place, LenWith, Fitting
<1>2. CASE Fitting(h, RoundUp(n)) = {}
  BY <1>2 DEF Place, LenWith, CanAlloc
<1> QED
  BY <1>1, <1>2

LEMMA AllocPlace ==
  ASSUME NEW h, Typed(h), Tiled(h), NEW n \in Nat \ {0}, CanAlloc(h, n)
  PROVE  /\ Place(h, n) \in 0 .. MaxHeap /\ LenWith(h, n) \in 0 .. MaxHeap
         /\ Place(h, n) \notin DOMAIN h.used /\ h.len <= LenWith(h, n)
         /\ Place(h, n) + RoundUp(n) <= LenWith(h, n)
         /\ Fitting(h, RoundUp(n)) = {} => Place(h, n) \notin Starts(h)
<1> DEFINE o == Place(h, n)
<1>1. RoundUp(n) \in Nat \ {0}
  BY RoundUpFits
<1>2. h.len \in 0 .. MaxHeap /\ MaxHeap \in Nat
  BY HeapAssumption DEF Typed
<1>3. CASE Fitting(h, RoundUp(n)) # {}
  <2>1. o \in DOMAIN h.free /\ h.free[o] >= RoundUp(n) /\ LenWith(h, n) = h.len
    BY <1>3, PlaceFacts
  <2>2. o \in 0 .. MaxHeap /\ h.free[o] \in Nat
    BY <2>1 DEF Typed, Offsets
  <2>3. o \notin DOMAIN h.used
    BY <2>1 DEF Tiled
  <2>4. o + h.free[o] <= h.len
    BY <2>1, <2>3 DEF Tiled, Starts, SizeAt
  <2> QED
    BY <1>1, <1>2, <1>3, <2>1, <2>2, <2>3, <2>4
<1>4. CASE Fitting(h, RoundUp(n)) = {}
  <2>1. o = h.len /\ LenWith(h, n) = h.len + RoundUp(n) /\ LenWith(h, n) <= MaxHeap
    BY <1>4, PlaceFacts
  <2>2. h.len \notin Starts(h)
    <3>1. SUFFICES ASSUME h.len \in Starts(h) PROVE FALSE
      OBVIOUS
    <3>2. SizeAt(h, h.len) \in Nat
      BY <3>1 DEF Starts, SizeAt, Typed, Block
    <3>3. SizeAt(h, h.len) > 0 /\ h.len + SizeAt(h, h.len) <= h.len
      BY <3>1 DEF Tiled
    <3> QED
      BY <1>2, <3>2, <3>3
  <2> QED
    BY <1>1, <1>2, <2>1, <2>2 DEF Starts
<1> QED
  BY <1>3, <1>4

LEMMA AllocTyped ==
  ASSUME NEW h, Typed(h), Tiled(h), NEW n \in Nat \ {0}, CanAlloc(h, n)
  PROVE  Typed(Alloc(h, n))
<1> DEFINE o == Place(h, n)
           s == RoundUp(n)
           a == Alloc(h, n)
<1>1. s \in Nat \ {0} /\ MaxHeap \in Nat
  BY RoundUpFits, HeapAssumption
<1>2. o \in Offsets /\ LenWith(h, n) \in 0 .. MaxHeap /\ h.len <= LenWith(h, n)
      /\ o + s <= LenWith(h, n)
  BY AllocPlace DEF Offsets
<1>3. a = [len |-> a.len, data |-> a.data, used |-> a.used, free |-> a.free]
  BY DEF Alloc
<1>4. a.len = LenWith(h, n)
  BY DEF Alloc
<1>5. a.data \in [0 .. a.len - 1 -> Val]
  <2>1. a.data = Cleared(h, n)
    BY DEF Alloc
  <2>2. Cleared(h, n) = [i \in 0 .. LenWith(h, n) - 1 |->
                           IF i >= o /\ i < o + s THEN 0 ELSE h.data[i]]
    BY DEF Cleared
  <2>3. \A i \in 0 .. LenWith(h, n) - 1 : (i >= o /\ i < o + s) \/ i \in 0 .. h.len - 1
    <3>1. CASE Fitting(h, s) # {}
      BY <1>2, <3>1, PlaceFacts
    <3>2. CASE Fitting(h, s) = {}
      <4>1. o = h.len /\ LenWith(h, n) = h.len + s /\ h.len \in Nat
        BY <3>2, PlaceFacts DEF Typed
      <4> QED
        BY <1>1, <4>1
    <3> QED
      BY <3>1, <3>2
  <2>4. \A i \in 0 .. h.len - 1 : h.data[i] \in Val
    BY DEF Typed
  <2>5. \A i \in 0 .. LenWith(h, n) - 1 :
          (IF i >= o /\ i < o + s THEN 0 ELSE h.data[i]) \in Val
    BY <2>3, <2>4, HeapAssumption
  <2> QED
    BY <1>4, <2>1, <2>2, <2>5
<1>6. a.used \in [DOMAIN a.used -> Block] /\ DOMAIN a.used \subseteq Offsets
  <2>1. a.used = With(h.used, o, [size |-> s, n |-> n])
    BY DEF Alloc
  <2>2. [size |-> s, n |-> n] \in Block
    BY <1>1 DEF Block
  <2> QED
    BY <1>2, <2>1, <2>2 DEF With, Typed
<1>7. a.free \in [DOMAIN a.free -> Nat] /\ DOMAIN a.free \subseteq Offsets
  <2>1. CASE Fitting(h, s) = {}
    BY <2>1 DEF Alloc, Typed
  <2>2. CASE Fitting(h, s) # {}
    <3>1. a.free = Split(h.free, o, s)
      BY <2>2 DEF Alloc
    <3>2. o \in DOMAIN h.free /\ h.free[o] >= s /\ h.free[o] \in Nat
      BY <2>2, PlaceFacts DEF Typed
    <3>3. o + s \in Offsets
      BY <1>1, <1>2 DEF Offsets
    <3>4. CASE h.free[o] > s
      <4>1. a.free = With(Without(h.free, o), o + s, h.free[o] - s)
        BY <3>1, <3>4 DEF Split
      <4>2. h.free[o] - s \in Nat
        BY <1>1, <3>2, <3>4
      <4> QED
        BY <3>3, <4>1, <4>2 DEF With, Without, Typed
    <3>5. CASE ~ (h.free[o] > s)
      <4>1. a.free = Without(h.free, o)
        BY <3>1, <3>5 DEF Split
      <4> QED
        BY <4>1 DEF Without, Typed
    <3> QED
      BY <3>4, <3>5
  <2> QED
    BY <2>1, <2>2
<1> QED
  BY <1>2, <1>3, <1>4, <1>5, <1>6, <1>7 DEF Typed

LEMMA AllocTiled ==
  ASSUME NEW h, Typed(h), Tiled(h), NEW n \in Nat \ {0}, CanAlloc(h, n)
  PROVE  Tiled(Alloc(h, n))
<1> DEFINE o == Place(h, n)
           s == RoundUp(n)
           a == Alloc(h, n)
           U == DOMAIN h.used
           F == DOMAIN h.free
           z == Sizes(h)
           y == Sizes(a)
<1>1. Sized(h.len, U, F, z) /\ Fills(h.len, U, F, z) /\ Coalesced(F, z)
  BY TiledMeansFills
<1>2. s \in Nat \ {0} /\ n <= s
  BY RoundUpFits
<1>3. Typed(a)
  BY AllocTyped
<1>4. /\ a.len = LenWith(h, n)
      /\ a.used = With(h.used, o, [size |-> s, n |-> n])
      /\ a.free = IF Fitting(h, s) # {} THEN Split(h.free, o, s) ELSE h.free
  BY DEF Alloc
<1>5. /\ DOMAIN a.used = U \cup {o} /\ a.used[o] = [size |-> s, n |-> n]
      /\ \A p \in U : p # o => a.used[p] = h.used[p]
  BY <1>4 DEF With
<1>6. o \notin U
  BY AllocPlace
<1>7. y[o] = s /\ \A p \in U : y[p] = z[p]
  <2>1. \A p \in DOMAIN a.used : y[p] = a.used[p].size
    BY DEF Sizes, Starts, SizeAt
  <2>2. \A p \in U : z[p] = h.used[p].size
    BY DEF Sizes, Starts, SizeAt
  <2> QED
    BY <1>5, <1>6, <2>1, <2>2
<1>8. \A p \in F : p \notin U /\ z[p] = h.free[p]
  BY <1>1 DEF Fills, Sizes, Starts, SizeAt
<1>9. \A p \in DOMAIN a.free : p \notin U \cup {o} => y[p] = a.free[p]
  BY <1>5 DEF Sizes, Starts, SizeAt
<1>10. \A p \in DOMAIN a.used : a.used[p].n > 0 /\ a.used[p].n <= a.used[p].size
  <2>1. \A p \in U : h.used[p].n > 0 /\ h.used[p].n <= h.used[p].size
    BY DEF Tiled
  <2> QED
    BY <1>2, <1>5, <1>6, <2>1
<1>11. Fills(a.len, DOMAIN a.used, DOMAIN a.free, y) /\ Coalesced(DOMAIN a.free, y)
  <2>1. CASE Fitting(h, s) = {}
    <3>1. o = h.len /\ a.len = h.len + s /\ a.free = h.free
      BY <1>4, <2>1, PlaceFacts
    <3>2. o \notin U \cup F
      BY <2>1, AllocPlace DEF Starts
    <3>3. \A p \in U \cup F : y[p] = z[p]
      BY <1>7, <1>8, <1>9, <3>1, <3>2
    <3> HIDE DEF z, y, U, F, o, a, s
    <3>4. Fills(h.len + s, U \cup {h.len}, F, y) /\ Coalesced(F, y)
      BY <1>1, <1>2, <1>7, <3>1, <3>3, ExtendFills
    <3> QED
      BY <1>5, <3>1, <3>4 DEF U, F
  <2>2. CASE Fitting(h, s) # {}
    <3>1. o \in F /\ h.free[o] >= s /\ a.len = h.len /\ h.free[o] \in Nat
      BY <1>4, <2>2, PlaceFacts DEF Typed
    <3>2. a.free = Split(h.free, o, s)
      BY <1>4, <2>2
    <3>3. CASE h.free[o] > s
      <4>1. a.free = With(Without(h.free, o), o + s, h.free[o] - s)
        BY <3>2, <3>3 DEF Split
      <4>2. /\ DOMAIN a.free = (F \ {o}) \cup {o + s} /\ a.free[o + s] = h.free[o] - s
            /\ \A p \in F \ {o} : p # o + s => a.free[p] = h.free[p]
        BY <4>1 DEF With, Without
      <4>3. o + s \notin U \cup F
        <5>1. o + s > o /\ o + s < o + z[o] /\ o \in Nat
          BY <1>2, <1>8, <3>1, <3>3 DEF Typed, Offsets
        <5> HIDE DEF z, U, F, o, s
        <5>2. \A p \in U \cup F : p \in Nat /\ z[p] \in Nat
          BY <1>1 DEF Sized
        <5>3. \A p \in U \cup F : o < p => o + z[o] <= p
          BY <1>1, <3>1 DEF Fills
        <5> QED
          BY <3>1, <5>1, <5>2, <5>3
      <4>4. o + s # o
        BY <1>2, <3>1 DEF Typed, Offsets
      <4>5. /\ y[o + s] = h.free[o] - s /\ z[o] = h.free[o] /\ o \in Nat
            /\ h.free[o] - s \in Nat \ {0} /\ z[o] = s + (h.free[o] - s) /\ o + s \in Nat
        <5>1. y[o + s] = h.free[o] - s
          BY <1>9, <4>2, <4>3, <4>4
        <5>2. z[o] = h.free[o] /\ o \in Nat
          BY <1>8, <3>1 DEF Typed, Offsets
        <5> HIDE DEF y, z, U, F, o, s
        <5>3. /\ h.free[o] - s \in Nat \ {0} /\ h.free[o] = s + (h.free[o] - s)
              /\ o + s \in Nat
          BY <1>2, <3>1, <3>3, <5>2
        <5> QED
          BY <5>1, <5>2, <5>3
      <4>6. \A p \in (U \cup F) \ {o} : y[p] = z[p]
        BY <1>7, <1>8, <1>9, <4>2, <4>3
      <4> HIDE DEF z, y, U, F, o, a, s
      <4>7. /\ Fills(h.len, U \cup {o}, (F \ {o}) \cup {o + s}, y)
            /\ Coalesced((F \ {o}) \cup {o + s}, y)
        <5>1. PICK e \in Nat, w \in Nat \ {0}, t \in Nat, r \in Nat \ {0} :
                e = o /\ w = s /\ t = o + s /\ r = h.free[o] - s
          BY <1>2, <4>5
        <5>2. t = e + w /\ z[e] = w + r /\ y[e] = w /\ y[t] = r /\ e \in F
          BY <1>7, <3>1, <4>5, <5>1
        <5>3. \A p \in (U \cup F) \ {e} : y[p] = z[p]
          BY <4>6, <5>1
        <5>4. /\ Fills(h.len, U \cup {e}, (F \ {e}) \cup {t}, y)
              /\ Coalesced((F \ {e}) \cup {t}, y)
          BY <1>1, <5>2, <5>3, SplitFills
        <5> QED
          BY <5>1, <5>4
      <4> QED
        BY <1>5, <3>1, <4>2, <4>7 DEF U, F
    <3>4. CASE ~ (h.free[o] > s)
      <4>1. a.free = Without(h.free, o) /\ h.free[o] = s
        BY <1>2, <3>1, <3>2, <3>4 DEF Split
      <4>2. DOMAIN a.free = F \ {o} /\ \A p \in F \ {o} : a.free[p] = h.free[p]
        BY <4>1 DEF Without
      <4>3. \A p \in U \cup F : y[p] = z[p]
        BY <1>7, <1>8, <1>9, <3>1, <4>1, <4>2
      <4> HIDE DEF z, y, U, F, o, a, s
      <4>4. Fills(h.len, U \cup {o}, F \ {o}, y) /\ Coalesced(F \ {o}, y)
        BY <1>1, <3>1, <4>3, TakeFills
      <4> QED
        BY <1>5, <3>1, <4>2, <4>4 DEF U, F
    <3> QED
      BY <3>3, <3>4
  <2> QED
    BY <2>1, <2>2
<1> QED
  BY <1>3, <1>10, <1>11, TiledMeansFills

-----------------------------------------------------------------------------
(* Freeing.                                                                *)

\* Freeing the used block o: joined to the free block behind it, and then to the one in
\* front of it.
LEMMA FreeFills ==
  ASSUME NEW len, NEW U, NEW F, NEW z, NEW o \in Nat, NEW n \in Nat, NEW y,
         Sized(len, U, F, z), Fills(len, U, F, z), Coalesced(F, z),
         o \in U, n = o + z[o],
         n \in F => y[o] = z[o] + z[n], n \notin F => y[o] = z[o],
         \A p \in (U \cup F) \ {o} : y[p] = z[p]
  PROVE  /\ Sized(len, U \ {o}, (F \cup {o}) \ {n}, y)
         /\ Fills(len, U \ {o}, (F \cup {o}) \ {n}, y)
         /\ TouchAt((F \cup {o}) \ {n}, y, o)
<1> DEFINE V == U \ {o}
           G == F \cup {o}
<1>1. /\ len \in Nat /\ o \in Nat /\ z[o] \in Nat /\ z[o] > 0
      /\ \A p \in U \cup F : p \in Nat /\ z[p] \in Nat /\ z[p] > 0 /\ p + z[p] <= len
  BY DEF Sized, Fills
<1>2. Sized(len, V, G, z) /\ Fills(len, V, G, z)
  BY LoosenFills
<1>3. o \notin F /\ n # o /\ \A p \in F : p + z[p] \notin F
  BY <1>1 DEF Fills, Coalesced
<1>4. ASSUME NEW p \in F, p + z[p] = o
      PROVE  p < o
  <2>1. p \in Nat /\ z[p] \in Nat /\ z[p] > 0
    BY <1>1
  <2> QED
    BY <1>1, <1>4, <2>1
<1>5. CASE n \in F
  <2>1. PICK q \in Nat : q = n
    BY <1>1
  <2>2. o \in G /\ q \in G /\ o + z[o] = q /\ y[o] = z[o] + z[q]
    BY <1>5, <2>1
  <2>3. \A p \in (V \cup G) \ {o, q} : y[p] = z[p]
    BY <2>1
  <2>4. Sized(len, V, G \ {q}, y) /\ Fills(len, V, G \ {q}, y)
    BY <1>2, <2>2, <2>3, JoinFills
  <2>5. o + y[o] = q + z[q]
    BY <1>1, <1>5, <2>1, <2>2
  <2>6. q + z[q] \notin F /\ q + z[q] # o
    BY <1>1, <1>3, <1>5, <2>1
  <2>7. \A p \in F \ {q} : p + y[p] \notin F
    BY <1>3, <2>1, <2>3
  <2>8. \A p \in F \ {q} : p + y[p] = o => p < o
    BY <1>3, <1>4, <2>3
  <2>9. TouchAt(G \ {q}, y, o)
    BY <2>5, <2>6, <2>7, <2>8 DEF TouchAt
  <2> QED
    BY <2>1, <2>4, <2>9
<1>6. CASE n \notin F
  <2>1. G \ {n} = G
    BY <1>3, <1>6
  <2>2. y[o] = z[o] /\ \A p \in V \cup G : y[p] = z[p]
    BY <1>6
  <2>3. V \cap G = {}
    BY <1>2 DEF Fills
  <2>4. Sized(len, V, G, y)
    BY <1>2, <2>2 DEF Sized
  <2>5. Fills(len, V, G, y)
    BY <1>2, <2>2 DEF Fills
  <2>6. TouchAt(G, y, o)
    BY <1>3, <1>4, <1>6, <2>2 DEF TouchAt
  <2> QED
    BY <2>1, <2>4, <2>5, <2>6
<1> QED
  BY <1>5, <1>6

LEMMA JoinDomain ==
  ASSUME NEW free, NEW o \in Nat, NEW size, DOMAIN free \subseteq Nat
  PROVE  DOMAIN Join(free, o, size) \subseteq (DOMAIN free) \cup {o}
<1> DEFINE rest == Without(free, o + size)
           before == {p \in DOMAIN rest : p < o}
           m == Max(before)
           l == JoinNext(free, o, size)
<1>1. DOMAIN rest \subseteq DOMAIN free
  BY DEF Without
<1>2. before # {} => m \in before
  <2>1. before \subseteq 0 .. o
    BY <1>1
  <2> HIDE DEF before
  <2> QED
    BY <2>1, MaxOfNats
<1>3. Join(free, o, size) = IF before # {} /\ m + rest[m] = o
                              THEN With(rest, m, rest[m] + l) ELSE With(rest, o, l)
  BY DEF Join
<1>4. before \subseteq DOMAIN rest
  OBVIOUS
<1> HIDE DEF before, m, l, rest
<1> QED
  BY <1>1, <1>2, <1>3, <1>4 DEF With

Gives(f, z) == \A p \in DOMAIN f : z[p] = f[p]
InNat(f) == \A p \in DOMAIN f : f[p] \in Nat

\* What freeing does to a tiling.
LEMMA JoinKeepsTiling ==
  ASSUME NEW len, NEW U, NEW free, NEW z, NEW o \in U, NEW y,
         Sized(len, U, DOMAIN free, z), Fills(len, U, DOMAIN free, z),
         Coalesced(DOMAIN free, z), Gives(free, z),
         Gives(Join(free, o, z[o]), y),
         \A p \in U \ {o} : y[p] = z[p]
  PROVE  /\ Fills(len, U \ {o}, DOMAIN Join(free, o, z[o]), y)
         /\ Coalesced(DOMAIN Join(free, o, z[o]), y)
         /\ InNat(Join(free, o, z[o]))
<1> DEFINE F == DOMAIN free
           n == o + z[o]
           rest == Without(free, n)
           l == JoinNext(free, o, z[o])
           before == {p \in DOMAIN rest : p < o}
           m == Max(before)
           x == [p \in U \cup F |-> IF p = o THEN l ELSE z[p]]
           V == U \ {o}
           G == (F \cup {o}) \ {n}
<1>1. /\ len \in Nat /\ o \in Nat /\ z[o] \in Nat /\ z[o] > 0 /\ U \cap F = {}
      /\ \A p \in U \cup F : p \in Nat /\ z[p] \in Nat /\ z[p] > 0 /\ p + z[p] <= len
  BY DEF Sized, Fills
<1>2. DOMAIN rest = F \ {n} /\ \A p \in F \ {n} : rest[p] = z[p]
  BY DEF Without, Gives
<1>3. l = z[o] + (IF n \in F THEN z[n] ELSE 0) /\ l \in Nat
  BY <1>1 DEF JoinNext, Gives
<1>4. x[o] = l /\ \A p \in (U \cup F) \ {o} : x[p] = z[p]
  OBVIOUS
<1>5. /\ Sized(len, V, G, x) /\ Fills(len, V, G, x)
      /\ TouchAt(G, x, o)
  <2> HIDE DEF x, l, n
  <2>1. PICK e \in Nat, t \in Nat : e = o /\ t = n /\ t = e + z[e]
    BY <1>1 DEF n
  <2>2. (t \in F => x[e] = z[e] + z[t]) /\ (t \notin F => x[e] = z[e]) /\ e \in U
    BY <1>1, <1>3, <1>4, <2>1
  <2>3. \A p \in (U \cup F) \ {e} : x[p] = z[p]
    BY <1>4, <2>1
  <2>4. /\ Sized(len, U \ {e}, (F \cup {e}) \ {t}, x)
        /\ Fills(len, U \ {e}, (F \cup {e}) \ {t}, x)
        /\ TouchAt((F \cup {e}) \ {t}, x, e)
    BY <2>1, <2>2, <2>3, FreeFills
  <2> QED
    BY <2>1, <2>4
<1>6. o \in G /\ o \notin F
  BY <1>1
<1>7. \A p \in before : p \in F \ {n} /\ p < o /\ p \in 0 .. o /\ x[p] = z[p] /\ rest[p] = z[p]
  <2>1. \A p \in before : p \in F \ {n} /\ p < o
    BY <1>2
  <2> HIDE DEF before, x, rest, n
  <2>2. \A p \in before : p \in Nat /\ p \in 0 .. o /\ p # o
    <3>1. SUFFICES ASSUME NEW p \in before
                   PROVE  p \in Nat /\ p \in 0 .. o /\ p # o
      OBVIOUS
    <3>2. p \in Nat /\ p < o
      BY <1>1, <2>1
    <3> QED
      BY <1>1, <3>2
  <2> QED
    BY <1>2, <1>4, <2>1, <2>2
<1>8. Join(free, o, z[o]) = IF before # {} /\ m + rest[m] = o
                               THEN With(rest, m, rest[m] + l) ELSE With(rest, o, l)
  BY DEF Join
<1>9. before # {} => m \in before /\ \A p \in before : p <= m
  <2>1. before \subseteq 0 .. o
    BY <1>7
  <2> HIDE DEF before
  <2> QED
    BY <1>1, <2>1, MaxOfNats
<1>10. CASE before # {} /\ m + rest[m] = o
  <2>1. m \in before /\ m \in F \ {n} /\ m < o /\ m \in Nat /\ m + z[m] = o /\ x[m] = z[m]
        /\ rest[m] = z[m]
    BY <1>1, <1>7, <1>9, <1>10
  <2>2. Join(free, o, z[o]) = With(rest, m, rest[m] + l)
    BY <1>8, <1>10
  <2> HIDE DEF before, x, l, rest, m, n
  <2>3. PICK e : e = m
    OBVIOUS
  <2>4. DOMAIN Join(free, o, z[o]) = G \ {o}
    BY <1>2, <1>6, <2>1, <2>2 DEF With
  <2>5. y[e] = x[e] + x[o] /\ Join(free, o, z[o])[e] = z[e] + l
    BY <1>4, <1>6, <2>1, <2>2, <2>3, <2>4 DEF With, Gives
  <2>6. \A p \in (G \ {o}) \ {e} : y[p] = x[p] /\ Join(free, o, z[o])[p] = z[p]
    BY <1>2, <1>4, <2>2, <2>3, <2>4 DEF With, Gives
  <2>7. \A p \in (V \cup G) \ {e, o} : y[p] = x[p]
    BY <1>4, <2>6
  <2>8. Fills(len, V, G \ {o}, y)
    BY <1>5, <1>6, <2>1, <2>3, <2>5, <2>7, JoinFills
  <2>9. Coalesced(G \ {o}, y)
    <3>1. e + y[e] = o + x[o]
      BY <1>1, <1>3, <1>4, <2>1, <2>3, <2>5
    <3>2. o + x[o] \notin G
      BY <1>1, <1>5, <1>6 DEF TouchAt
    <3>3. \A p \in (G \ {o}) \ {e} : p + x[p] \notin G \ {o}
      BY <1>5 DEF TouchAt
    <3> QED
      BY <2>6, <3>1, <3>2, <3>3 DEF Coalesced
  <2>10. \A p \in G \ {o} : Join(free, o, z[o])[p] \in Nat
    <3>1. z[e] \in Nat /\ z[e] + l \in Nat
      BY <1>1, <1>3, <2>1, <2>3
    <3>2. \A p \in (G \ {o}) \ {e} : z[p] \in Nat
      BY <1>1
    <3> QED
      BY <2>5, <2>6, <3>1, <3>2
  <2> QED
    BY <2>4, <2>8, <2>9, <2>10 DEF InNat
<1>11. CASE ~ (before # {} /\ m + rest[m] = o)
  <2>1. Join(free, o, z[o]) = With(rest, o, l)
    BY <1>8, <1>11
  <2>2. \A p \in F \ {n} : ~ (p < o /\ p + z[p] = o)
    <3>1. SUFFICES ASSUME NEW p \in F \ {n}, p < o, p + z[p] = o PROVE FALSE
      OBVIOUS
    <3>2. p \in before
      BY <1>2, <3>1
    <3>3. m \in before /\ p <= m /\ m \in F /\ m < o /\ rest[m] = z[m]
      BY <1>7, <1>9, <3>2
    <3>4. m # p
      BY <1>11, <3>1, <3>2, <3>3
    <3> HIDE DEF before, x, l, rest, m, n
    <3>5. m \in Nat /\ p \in Nat /\ z[p] \in Nat
      BY <1>1, <3>3
    <3> p < m
      BY <3>3, <3>4, <3>5
    <3>6. p + z[p] <= m
      BY <3>3 DEF Fills
    <3> QED
      BY <1>1, <3>1, <3>3, <3>5, <3>6
  <2> HIDE DEF before, x, l, rest, m, n
  <2>3. /\ DOMAIN Join(free, o, z[o]) = G
        /\ Join(free, o, z[o])[o] = l
        /\ \A p \in G \ {o} : Join(free, o, z[o])[p] = z[p]
    BY <1>2, <1>6, <2>1 DEF With
  <2>4. \A p \in V \cup G : y[p] = x[p]
    BY <1>4, <2>3 DEF Gives
  <2>5. Fills(len, V, G, y)
    BY <1>5, <2>4 DEF Fills
  <2>6. Coalesced(G, y)
    <3>1. \A p \in G : p + x[p] \notin G
      <4>1. SUFFICES ASSUME NEW p \in G, p + x[p] \in G PROVE FALSE
        OBVIOUS
      <4>2. p < o /\ p + x[p] = o
        BY <1>5, <4>1 DEF TouchAt
      <4>3. p # o
        BY <1>1, <4>2
      <4>4. p \in F \ {n} /\ x[p] = z[p]
        BY <1>4, <4>3
      <4> QED
        BY <2>2, <4>2, <4>4
    <3> QED
      BY <2>4, <3>1 DEF Coalesced
  <2>7. \A p \in G : Join(free, o, z[o])[p] \in Nat
    BY <1>1, <1>3, <2>3
  <2> QED
    BY <2>3, <2>5, <2>6, <2>7 DEF InNat
<1> QED
  BY <1>10, <1>11

LEMMA FreeKeeps ==
  ASSUME NEW h, Typed(h), Tiled(h), NEW o \in DOMAIN h.used
  PROVE  Typed(Free(h, o)) /\ Tiled(Free(h, o))
<1> DEFINE U == DOMAIN h.used
           F == DOMAIN h.free
           z == Sizes(h)
           g == Free(h, o)
           J == Join(h.free, o, h.used[o].size)
           y == Sizes(g)
<1>1. Sized(h.len, U, F, z) /\ Fills(h.len, U, F, z) /\ Coalesced(F, z) /\ U \cap F = {}
  BY TiledMeansFills DEF Fills
<1>2. g = [len |-> h.len, data |-> h.data, used |-> Without(h.used, o), free |-> J]
  <2>1. h = [len |-> h.len, data |-> h.data, used |-> h.used, free |-> h.free]
    BY DEF Typed
  <2> HIDE DEF J
  <2>2. g = [h EXCEPT !.used = Without(@, o), !.free = J]
    BY DEF Free, J
  <2> QED
    BY <2>1, <2>2
<1>3. /\ DOMAIN g.used = U \ {o} /\ g.free = J /\ g.len = h.len /\ g.data = h.data
      /\ \A p \in U \ {o} : g.used[p] = h.used[p]
  BY <1>2 DEF Without
<1>4. U \subseteq Offsets /\ F \subseteq Offsets /\ Offsets \subseteq Nat
  BY HeapAssumption DEF Typed, Offsets
<1>5. DOMAIN J \subseteq F \cup {o}
  BY <1>4, JoinDomain
<1>6. z[o] = h.used[o].size /\ \A p \in U : z[p] = h.used[p].size
  BY DEF Sizes, Starts, SizeAt
<1>7. Gives(h.free, z)
  BY <1>1 DEF Sizes, Starts, SizeAt, Gives
<1>8. /\ \A p \in DOMAIN g.used : y[p] = g.used[p].size
      /\ \A p \in DOMAIN g.free : p \notin DOMAIN g.used => y[p] = g.free[p]
  BY DEF Sizes, Starts, SizeAt
<1>9. (\A p \in U \ {o} : y[p] = z[p]) /\ Gives(J, y)
  BY <1>1, <1>3, <1>5, <1>6, <1>8 DEF Gives
<1>10. Fills(h.len, U \ {o}, DOMAIN J, y) /\ Coalesced(DOMAIN J, y) /\ InNat(J)
  <2>1. J = Join(h.free, o, z[o])
    BY <1>6
  <2> HIDE DEF y, z, g, J
  <2>2. Gives(Join(h.free, o, z[o]), y)
    BY <1>9, <2>1
  <2>3. /\ Fills(h.len, U \ {o}, DOMAIN Join(h.free, o, z[o]), y)
        /\ Coalesced(DOMAIN Join(h.free, o, z[o]), y) /\ InNat(Join(h.free, o, z[o]))
    <3>1. o \in U
      OBVIOUS
    <3>2. \A p \in U \ {o} : y[p] = z[p]
      BY <1>9
    <3>3. /\ Sized(h.len, U, DOMAIN h.free, z) /\ Fills(h.len, U, DOMAIN h.free, z)
          /\ Coalesced(DOMAIN h.free, z)
      BY <1>1
    <3> HIDE DEF U
    <3> QED
      BY <1>7, <2>2, <3>1, <3>2, <3>3, JoinKeepsTiling
  <2> QED
    BY <2>1, <2>3
<1>11. Typed(g)
  <2>1. g = [len |-> g.len, data |-> g.data, used |-> g.used, free |-> g.free]
    BY <1>2
  <2>2. g.len \in 0 .. MaxHeap /\ g.data \in [0 .. g.len - 1 -> Val]
    BY <1>3 DEF Typed
  <2>3. g.used \in [DOMAIN g.used -> Block] /\ DOMAIN g.used \subseteq Offsets
    <3>1. g.used = Without(h.used, o)
      BY <1>2
    <3> QED
      BY <3>1 DEF Without, Typed
  <2>4. g.free \in [DOMAIN g.free -> Nat] /\ DOMAIN g.free \subseteq Offsets
    <3>1. J = [p \in DOMAIN J |-> J[p]]
      BY DEF Join, With
    <3> HIDE DEF J, g
    <3> QED
      BY <1>3, <1>4, <1>5, <1>10, <3>1 DEF InNat
  <2> QED
    BY <2>1, <2>2, <2>3, <2>4 DEF Typed
<1>12. \A p \in DOMAIN g.used : g.used[p].n > 0 /\ g.used[p].n <= g.used[p].size
  BY <1>3 DEF Tiled
<1> HIDE DEF g, y, J
<1>13. Fills(g.len, DOMAIN g.used, DOMAIN g.free, Sizes(g)) /\ Coalesced(DOMAIN g.free, Sizes(g))
  BY <1>3, <1>10 DEF y
<1>14. Tiled(g)
  BY <1>11, <1>12, <1>13, TiledMeansFills
<1> QED
  BY <1>11, <1>14 DEF g

-----------------------------------------------------------------------------
(* Writing.                                                                *)

LEMMA DataChange ==
  ASSUME NEW h, Typed(h), Tiled(h), NEW d \in [0 .. h.len - 1 -> Val]
  PROVE  Typed([h EXCEPT !.data = d]) /\ Tiled([h EXCEPT !.data = d])
<1> DEFINE g == [h EXCEPT !.data = d]
<1>1. h = [len |-> h.len, data |-> h.data, used |-> h.used, free |-> h.free]
  BY DEF Typed
<1>2. g = [len |-> h.len, data |-> d, used |-> h.used, free |-> h.free]
  BY <1>1
<1>3. g.len = h.len /\ g.data = d /\ g.used = h.used /\ g.free = h.free
  BY <1>2
<1> HIDE DEF g
<1>4. Typed(g)
  BY <1>2, <1>3 DEF Typed
<1>5. Tiled(g)
  BY <1>3 DEF Tiled, Starts, SizeAt
<1> QED
  BY <1>4, <1>5 DEF g

LEMMA CopyTyped ==
  ASSUME NEW len \in Nat, NEW data \in [0 .. len - 1 -> Val], NEW from \in Nat, NEW to \in Nat,
         NEW n \in Nat, from + n <= len
  PROVE  Copy(data, from, to, n) \in [0 .. len - 1 -> Val]
<1>1. \A i \in 0 .. len - 1 : i >= to /\ i < to + n => from + (i - to) \in 0 .. len - 1
  OBVIOUS
<1> QED
  BY <1>1 DEF Copy

\* The blocks of a heap do not overlap.
LEMMA BlocksApart ==
  ASSUME NEW h, Typed(h), Tiled(h)
  PROVE  /\ \A p \in DOMAIN h.used :
              /\ p \in Nat /\ h.used[p].n \in Nat /\ h.used[p].n > 0 /\ h.used[p].size \in Nat
              /\ h.used[p].n <= h.used[p].size /\ p + h.used[p].size <= h.len
         /\ \A p, q \in DOMAIN h.used :
              p # q => p + h.used[p].size <= q \/ q + h.used[q].size <= p
<1>1. \A p \in DOMAIN h.used : p \in Nat
  BY HeapAssumption DEF Typed, Offsets
<1>2. \A p \in DOMAIN h.used : h.used[p].n \in Nat /\ h.used[p].size \in Nat
  BY DEF Typed, Block
<1>3. \A p \in DOMAIN h.used :
        /\ h.used[p].n > 0 /\ h.used[p].n <= h.used[p].size
        /\ p \in Starts(h) /\ SizeAt(h, p) = h.used[p].size
  BY DEF Tiled, Starts, SizeAt
<1>4. \A p \in DOMAIN h.used : p + h.used[p].size <= h.len
  BY <1>3 DEF Tiled
<1>5. \A p, q \in DOMAIN h.used : p < q => p + h.used[p].size <= q
  BY <1>3 DEF Tiled
<1> QED
  BY <1>1, <1>2, <1>3, <1>4, <1>5

LEMMA ReallocKeeps ==
  ASSUME NEW h, Typed(h), Tiled(h), NEW old \in DOMAIN h.used, NEW n \in Nat \ {0},
         CanAlloc(h, n)
  PROVE  Typed(Realloc(h, old, n)) /\ Tiled(Realloc(h, old, n))
<1> DEFINE a == Alloc(h, n)
           d == Copy(a.data, old, Place(h, n), Kept(h, old, n))
           b == [a EXCEPT !.data = d]
<1>1. Typed(a) /\ Tiled(a)
  BY AllocTyped, AllocTiled
<1>2. /\ old \in Nat /\ h.used[old].n \in Nat /\ h.used[old].size \in Nat
      /\ h.used[old].n <= h.used[old].size /\ old + h.used[old].size <= h.len
  BY BlocksApart
<1>3. Kept(h, old, n) \in Nat /\ Kept(h, old, n) <= h.used[old].n
  BY <1>2 DEF Kept
<1>4. h.len <= a.len /\ a.len \in Nat /\ h.len \in Nat /\ Place(h, n) \in Nat
  <2>1. a.len = LenWith(h, n) /\ MaxHeap \in Nat
    BY HeapAssumption DEF Alloc
  <2> QED
    BY <2>1, AllocPlace DEF Typed
<1>5. d \in [0 .. a.len - 1 -> Val]
  <2>1. a.data \in [0 .. a.len - 1 -> Val]
    BY <1>1 DEF Typed
  <2>2. old + Kept(h, old, n) <= a.len
    BY <1>2, <1>3, <1>4
  <2> HIDE DEF a
  <2> QED
    BY <1>2, <1>3, <1>4, <2>1, <2>2, CopyTyped
<1>6. Typed(b) /\ Tiled(b)
  <2> HIDE DEF a, d
  <2> QED
    BY <1>1, <1>5, DataChange
<1>7. old \in DOMAIN b.used
  BY DEF Alloc, With
<1>8. Realloc(h, old, n) = Free(b, old)
  BY DEF Realloc
<1> HIDE DEF b
<1> QED
  BY <1>6, <1>7, <1>8, FreeKeeps

-----------------------------------------------------------------------------
(* The region is always tiled.                                             *)

IInv == TypeOK /\ BlocksTile

LEMMA SizeFacts ==
  ASSUME NEW n \in Requests, Allowed(n)
  PROVE  Size(n) \in Nat \ {0}
  BY HeapAssumption DEF Allowed, Size

LEMMA InitHolds == Init => IInv
<1> SUFFICES ASSUME Init PROVE IInv
  OBVIOUS
<1>1. /\ heap.len = 0 /\ DOMAIN heap.used = {} /\ DOMAIN heap.free = {}
      /\ heap.used = [o \in {} |-> 0] /\ heap.free = [o \in {} |-> 0]
      /\ heap.data = [i \in {} |-> 0]
      /\ heap = [len |-> heap.len, data |-> heap.data, used |-> heap.used, free |-> heap.free]
  BY DEF Init
<1>2. Typed(heap)
  <2>1. heap.len \in 0 .. MaxHeap /\ 0 .. heap.len - 1 = {}
    BY <1>1, HeapAssumption
  <2> QED
    BY <1>1, <2>1 DEF Typed
<1>3. Tiled(heap)
  BY <1>1 DEF Tiled, Starts
<1> QED
  BY <1>2, <1>3 DEF IInv, TypeOK, BlocksTile

LEMMA StepHolds == IInv /\ [Next]_heap => IInv'
<1> SUFFICES ASSUME IInv, [Next]_heap PROVE Typed(heap') /\ Tiled(heap')
  BY DEF IInv, TypeOK, BlocksTile
<1>1. Typed(heap) /\ Tiled(heap)
  BY DEF IInv, TypeOK, BlocksTile
<1>2. ASSUME NEW n \in Requests, MemAlloc(n) PROVE Typed(heap') /\ Tiled(heap')
  BY <1>1, <1>2, SizeFacts, AllocTyped, AllocTiled DEF MemAlloc
<1>3. ASSUME NEW o \in Offsets, MemFree(o) PROVE Typed(heap') /\ Tiled(heap')
  BY <1>1, <1>3, FreeKeeps DEF MemFree
<1>4. ASSUME NEW n \in Requests, NEW o \in Offsets, MemRealloc(o, n)
      PROVE  Typed(heap') /\ Tiled(heap')
  BY <1>1, <1>4, SizeFacts, ReallocKeeps DEF MemRealloc
<1>5. ASSUME NEW n \in Requests, NEW o \in Offsets, NEW from \in Offsets, MemCpy(o, from, n)
      PROVE  Typed(heap') /\ Tiled(heap')
  <2>1. /\ o \in Nat /\ from \in Nat /\ n \in Nat /\ from + n <= heap.len /\ heap.len \in Nat
        /\ heap.data \in [0 .. heap.len - 1 -> Val]
    BY <1>1, <1>5, HeapAssumption DEF MemCpy, InHeap, Offsets, Typed
  <2>2. Copy(heap.data, from, o, n) \in [0 .. heap.len - 1 -> Val]
    BY <2>1, CopyTyped
  <2>3. heap' = [heap EXCEPT !.data = Copy(heap.data, from, o, n)]
    BY <1>5 DEF MemCpy
  <2> QED
    BY <1>1, <2>2, <2>3, DataChange
<1>6. ASSUME NEW n \in Requests, NEW o \in Offsets, NEW v \in Val, MemFill(o, n, v)
      PROVE  Typed(heap') /\ Tiled(heap')
  <2> DEFINE d == [i \in DOMAIN heap.data |-> IF i >= o /\ i < o + n THEN v ELSE heap.data[i]]
  <2>1. heap.data \in [0 .. heap.len - 1 -> Val]
    BY <1>1 DEF Typed
  <2>2. d \in [0 .. heap.len - 1 -> Val]
    BY <2>1
  <2>3. heap' = [heap EXCEPT !.data = d]
    BY <1>6 DEF MemFill
  <2> HIDE DEF d
  <2> QED
    BY <1>1, <2>2, <2>3, DataChange
<1>7. CASE UNCHANGED heap
  BY <1>1, <1>7
<1> QED
  BY <1>2, <1>3, <1>4, <1>5, <1>6, <1>7 DEF Next, MemFails

\* The region, the used and the free blocks keep their types, and every offset stays in
\* the region, whatever QuakeC allocates, frees, resizes and writes (vm/heap.rs).
THEOREM TypesHold == Spec => []TypeOK
<1>1. IInv => TypeOK
  BY DEF IInv
<1> QED
  BY <1>1, InitHolds, StepHolds, PTL DEF Spec

\* No byte of the region is ever lost or handed out twice, and free blocks never touch:
\* splitting, joining and growing keep the block lists a tiling (Heap::alloc, Heap::free).
THEOREM BlocksAlwaysTile == Spec => []BlocksTile
<1>1. IInv => BlocksTile
  BY DEF IInv
<1> QED
  BY <1>1, InitHolds, StepHolds, PTL DEF Spec

-----------------------------------------------------------------------------
(* The heap implements HeapBlocks.                                         *)

LEMMA BlocksOfFacts ==
  ASSUME NEW h
  PROVE  /\ DOMAIN BlocksOf(h) = DOMAIN h.used
         /\ \A p \in DOMAIN h.used :
              BlocksOf(h)[p] = [n |-> h.used[p].n,
                                bytes |-> [k \in 0 .. h.used[p].n - 1 |-> h.data[p + k]]]
  BY DEF BlocksOf

LEMMA AbsApart ==
  ASSUME NEW h, Typed(h), Tiled(h)
  PROVE  Blocks!Apart(BlocksOf(h))
<1> SUFFICES ASSUME NEW p \in DOMAIN h.used, NEW q \in DOMAIN h.used, p # q
             PROVE  Blocks!Cells(BlocksOf(h), p) \cap Blocks!Cells(BlocksOf(h), q) = {}
  BY BlocksOfFacts DEF Blocks!Apart
<1>1. /\ p \in Nat /\ h.used[p].n \in Nat /\ h.used[p].size \in Nat
      /\ q \in Nat /\ h.used[q].n \in Nat /\ h.used[q].size \in Nat
      /\ h.used[p].n <= h.used[p].size /\ h.used[q].n <= h.used[q].size
      /\ p + h.used[p].size <= q \/ q + h.used[q].size <= p
  BY BlocksApart
<1>2. BlocksOf(h)[p].n = h.used[p].n /\ BlocksOf(h)[q].n = h.used[q].n
  BY DEF BlocksOf
<1>3. p + h.used[p].n <= q \/ q + h.used[q].n <= p
  BY <1>1
<1> QED
  BY <1>1, <1>2, <1>3 DEF Blocks!Cells

\* Heap a is h with a zeroed block of n bytes at o.
Allocated(h, a, o, n) ==
  /\ o \in Nat /\ o \notin DOMAIN h.used /\ o + n <= a.len
  /\ DOMAIN a.used = (DOMAIN h.used) \cup {o} /\ a.used[o].n = n
  /\ \A p \in DOMAIN h.used : a.used[p] = h.used[p]
  /\ \A k \in 0 .. n - 1 : a.data[o + k] = 0
  /\ \A p \in DOMAIN h.used : \A k \in 0 .. h.used[p].n - 1 :
       /\ a.data[p + k] = h.data[p + k] /\ p + k \in 0 .. a.len - 1
       /\ ~ (p + k >= o /\ p + k < o + n)

LEMMA AllocData ==
  ASSUME NEW h, Typed(h), Tiled(h), NEW n \in Nat \ {0}, CanAlloc(h, n)
  PROVE  Allocated(h, Alloc(h, n), Place(h, n), n)
<1> DEFINE o == Place(h, n)
           s == RoundUp(n)
           a == Alloc(h, n)
           len == LenWith(h, n)
<1>1. o \in Nat /\ o \notin DOMAIN h.used /\ o + s <= len /\ len \in Nat /\ h.len <= len
  BY AllocPlace, HeapAssumption
<1>2. s \in Nat /\ n <= s
  BY RoundUpFits
<1>3. /\ a.len = len /\ a.data = Cleared(h, n)
      /\ a.used = With(h.used, o, [size |-> s, n |-> n])
  BY DEF Alloc
<1>4. /\ DOMAIN a.used = (DOMAIN h.used) \cup {o} /\ a.used[o] = [size |-> s, n |-> n]
      /\ \A p \in DOMAIN h.used : a.used[p] = h.used[p]
  BY <1>1, <1>3 DEF With
<1>5. \A i \in 0 .. len - 1 : a.data[i] = IF i >= o /\ i < o + s THEN 0 ELSE h.data[i]
  BY <1>3 DEF Cleared
<1>6. h.len \in Nat
  BY DEF Typed
<1> HIDE DEF o, s, len
<1>7. \A k \in 0 .. n - 1 : a.data[o + k] = 0
  <2>1. \A k \in 0 .. n - 1 : o + k \in 0 .. len - 1 /\ o + k >= o /\ o + k < o + s
    BY <1>1, <1>2
  <2> HIDE DEF a
  <2> QED
    BY <1>5, <2>1
<1>8. ASSUME NEW p \in DOMAIN h.used, NEW k \in 0 .. h.used[p].n - 1
      PROVE  /\ a.data[p + k] = h.data[p + k] /\ p + k \in 0 .. len - 1
             /\ ~ (p + k >= o /\ p + k < o + n)
  <2>1. /\ p \in Nat /\ h.used[p].n \in Nat /\ h.used[p].size \in Nat
        /\ h.used[p].n <= h.used[p].size /\ p + h.used[p].size <= h.len
    BY BlocksApart
  <2>2. p + h.used[p].size <= o \/ o + s <= p
    <3>1. Typed(a) /\ Tiled(a)
      BY AllocTyped, AllocTiled
    <3>2. p \in DOMAIN a.used /\ o \in DOMAIN a.used /\ p # o
          /\ a.used[p].size = h.used[p].size /\ a.used[o].size = s
      BY <1>1, <1>4
    <3> HIDE DEF a
    <3>3. p + a.used[p].size <= o \/ o + a.used[o].size <= p
      BY <3>1, <3>2, BlocksApart
    <3> QED
      BY <3>2, <3>3
  <2>3. p + k \in 0 .. len - 1 /\ ~ (p + k >= o /\ p + k < o + s)
    BY <1>1, <1>2, <1>6, <2>1, <2>2
  <2>4. ~ (p + k >= o /\ p + k < o + n)
    BY <1>1, <1>2, <2>1, <2>3
  <2> HIDE DEF a
  <2> QED
    BY <1>5, <2>3, <2>4
<1>9. o + n <= len
  BY <1>1, <1>2
<1> HIDE DEF a
<1>10. /\ \A k \in 0 .. n - 1 : a.data[o + k] = 0
       /\ \A p \in DOMAIN h.used : \A k \in 0 .. h.used[p].n - 1 :
            /\ a.data[p + k] = h.data[p + k] /\ p + k \in 0 .. a.len - 1
            /\ ~ (p + k >= o /\ p + k < o + n)
       /\ o + n <= a.len
  BY <1>3, <1>7, <1>8, <1>9
<1>11. Allocated(h, a, o, n)
  BY <1>1, <1>4, <1>10 DEF Allocated
<1> QED
  BY <1>11 DEF o, a

LEMMA AllocAbs ==
  ASSUME NEW h, Typed(h), Tiled(h), NEW n \in Nat \ {0}, CanAlloc(h, n)
  PROVE  BlocksOf(Alloc(h, n)) = Blocks!Placed(BlocksOf(h), Place(h, n), n, Blocks!Zeroed(n))
<1> DEFINE o == Place(h, n)
           a == Alloc(h, n)
<1>1. Allocated(h, a, o, n)
  BY AllocData
<1> HIDE DEF o, a
<1> USE <1>1 DEF Allocated
<1>2. [k \in 0 .. n - 1 |-> a.data[o + k]] = Blocks!Zeroed(n)
  BY DEF Blocks!Zeroed
<1>3. \A p \in DOMAIN h.used :
        [k \in 0 .. a.used[p].n - 1 |-> a.data[p + k]] = [k \in 0 .. h.used[p].n - 1 |-> h.data[p + k]]
  OBVIOUS
<1>4. /\ DOMAIN BlocksOf(a) = (DOMAIN h.used) \cup {o}
      /\ BlocksOf(a) = [q \in DOMAIN BlocksOf(a) |-> BlocksOf(a)[q]]
      /\ BlocksOf(a)[o] = [n |-> n, bytes |-> Blocks!Zeroed(n)]
      /\ \A p \in DOMAIN h.used : BlocksOf(a)[p] = BlocksOf(h)[p]
  BY <1>2, <1>3 DEF BlocksOf
<1>5. BlocksOf(a) = Blocks!Placed(BlocksOf(h), o, n, Blocks!Zeroed(n))
  BY <1>4, BlocksOfFacts DEF Blocks!Placed
<1> QED
  BY <1>5 DEF o, a

LEMMA FreeAbs ==
  ASSUME NEW h, h = [len |-> h.len, data |-> h.data, used |-> h.used, free |-> h.free],
         NEW o \in DOMAIN h.used
  PROVE  BlocksOf(Free(h, o)) = Blocks!Removed(BlocksOf(h), o)
<1> DEFINE g == Free(h, o)
<1>1. g.data = h.data /\ g.used = Without(h.used, o)
  BY DEF Free
<1> HIDE DEF g
<1>2. DOMAIN g.used = (DOMAIN h.used) \ {o}
      /\ \A p \in (DOMAIN h.used) \ {o} : g.used[p] = h.used[p]
  BY <1>1 DEF Without
<1>3. BlocksOf(g) = Blocks!Removed(BlocksOf(h), o)
  BY <1>1, <1>2 DEF Blocks!Removed, BlocksOf
<1> QED
  BY <1>3 DEF g

\* The contents an old block b of size m leaves in a new one of size n.
Carried(m, bytes, n) == [k \in 0 .. n - 1 |-> IF k < m THEN bytes[k] ELSE 0]

LEMMA ReallocAbs ==
  ASSUME NEW h, Typed(h), Tiled(h), NEW old \in DOMAIN h.used, NEW n \in Nat \ {0},
         CanAlloc(h, n)
  PROVE  BlocksOf(Realloc(h, old, n)) =
           Blocks!Placed(Blocks!Removed(BlocksOf(h), old), Place(h, n), n,
                         Carried(h.used[old].n, BlocksOf(h)[old].bytes, n))
<1> DEFINE o == Place(h, n)
           a == Alloc(h, n)
           m == Kept(h, old, n)
           d == Copy(a.data, old, o, m)
           b == [a EXCEPT !.data = d]
           carried == Carried(h.used[old].n, BlocksOf(h)[old].bytes, n)
<1>1. Allocated(h, a, o, n)
  BY AllocData
<1>2. Typed(a)
  BY AllocTyped
<1>3. a = [len |-> a.len, data |-> a.data, used |-> a.used, free |-> a.free]
      /\ DOMAIN a.data = 0 .. a.len - 1 /\ a.len \in Nat
  BY <1>2, HeapAssumption DEF Typed
<1>4. old \in Nat /\ h.used[old].n \in Nat
  BY BlocksApart
<1>5. m \in Nat /\ m <= n /\ m <= h.used[old].n /\ (m < n => m = h.used[old].n)
  BY <1>4 DEF Kept
<1>6. Realloc(h, old, n) = Free(b, old)
  BY DEF Realloc
<1> HIDE DEF o, a, m, carried
<1>7. \A i \in 0 .. a.len - 1 : d[i] = IF i >= o /\ i < o + m THEN a.data[old + (i - o)] ELSE a.data[i]
  BY <1>3 DEF Copy
<1>8. b = [len |-> a.len, data |-> d, used |-> a.used, free |-> a.free]
  BY <1>3
<1>9. /\ b.len = a.len /\ b.data = d /\ b.used = a.used
      /\ b = [len |-> b.len, data |-> b.data, used |-> b.used, free |-> b.free]
  BY <1>8
<1> HIDE DEF d, b
<1>10. \A k \in 0 .. n - 1 : d[o + k] = IF k < h.used[old].n THEN h.data[old + k] ELSE 0
  <2>1. SUFFICES ASSUME NEW k \in 0 .. n - 1
                 PROVE  d[o + k] = IF k < h.used[old].n THEN h.data[old + k] ELSE 0
    OBVIOUS
  <2>2. o + k \in 0 .. a.len - 1 /\ (o + k) - o = k /\ o + k >= o /\ (o + k < o + m <=> k < m)
        /\ k \in Nat
    BY <1>1, <1>3, <1>5 DEF Allocated
  <2>3. CASE k < m
    <3>1. d[o + k] = a.data[old + k]
      BY <1>7, <2>2, <2>3
    <3>2. k \in 0 .. h.used[old].n - 1
      BY <1>4, <1>5, <2>2, <2>3
    <3>3. a.data[old + k] = h.data[old + k]
      BY <1>1, <3>2 DEF Allocated
    <3>4. k < h.used[old].n
      BY <1>4, <3>2
    <3> QED
      BY <3>1, <3>3, <3>4
  <2>4. CASE ~ (k < m)
    <3>1. d[o + k] = a.data[o + k] /\ a.data[o + k] = 0
      BY <1>1, <1>7, <2>2, <2>4 DEF Allocated
    <3>2. ~ (k < h.used[old].n)
      BY <1>4, <1>5, <2>2, <2>4
    <3> QED
      BY <3>1, <3>2
  <2> QED
    BY <2>3, <2>4
<1>11. ASSUME NEW p \in DOMAIN h.used, NEW k \in 0 .. h.used[p].n - 1
       PROVE  d[p + k] = h.data[p + k]
  <2>1. p \in Nat /\ h.used[p].n \in Nat
    BY BlocksApart
  <2>2. /\ a.data[p + k] = h.data[p + k] /\ p + k \in 0 .. a.len - 1
        /\ ~ (p + k >= o /\ p + k < o + n)
    BY <1>1 DEF Allocated
  <2>3. ~ (p + k >= o /\ p + k < o + m)
    BY <1>1, <1>5, <2>1, <2>2 DEF Allocated
  <2> QED
    BY <1>7, <2>2, <2>3
<1>12. [k \in 0 .. n - 1 |-> d[o + k]] = carried
  <2>1. \A k \in 0 .. h.used[old].n - 1 : BlocksOf(h)[old].bytes[k] = h.data[old + k]
    BY DEF BlocksOf
  <2>2. \A k \in 0 .. n - 1 : k < h.used[old].n => k \in 0 .. h.used[old].n - 1
    BY <1>4
  <2>3. \A k \in 0 .. n - 1 :
          d[o + k] = IF k < h.used[old].n THEN BlocksOf(h)[old].bytes[k] ELSE 0
    BY <1>10, <2>1, <2>2
  <2> QED
    BY <2>3 DEF carried, Carried
<1>13. \A p \in DOMAIN h.used :
         [k \in 0 .. h.used[p].n - 1 |-> d[p + k]] = [k \in 0 .. h.used[p].n - 1 |-> h.data[p + k]]
  BY <1>11
<1>14. /\ DOMAIN BlocksOf(b) = (DOMAIN h.used) \cup {o}
       /\ BlocksOf(b)[o] = [n |-> n, bytes |-> carried]
       /\ \A p \in DOMAIN h.used : BlocksOf(b)[p] = BlocksOf(h)[p]
  <2>1. DOMAIN BlocksOf(b) = (DOMAIN h.used) \cup {o}
    BY <1>1, <1>9 DEF BlocksOf, Allocated
  <2>2. BlocksOf(b)[o] = [n |-> n, bytes |-> [k \in 0 .. n - 1 |-> d[o + k]]]
    BY <1>1, <1>9 DEF BlocksOf, Allocated
  <2>3. ASSUME NEW p \in DOMAIN h.used
        PROVE  BlocksOf(b)[p] = BlocksOf(h)[p]
    <3>1. BlocksOf(b)[p] = [n |-> h.used[p].n, bytes |-> [k \in 0 .. h.used[p].n - 1 |-> d[p + k]]]
      BY <1>1, <1>9 DEF BlocksOf, Allocated
    <3>2. BlocksOf(h)[p] = [n |-> h.used[p].n,
                            bytes |-> [k \in 0 .. h.used[p].n - 1 |-> h.data[p + k]]]
      BY DEF BlocksOf
    <3> QED
      BY <1>13, <3>1, <3>2
  <2> QED
    BY <1>12, <2>1, <2>2, <2>3
<1>15. BlocksOf(Free(b, old)) = Blocks!Removed(BlocksOf(b), old)
  BY <1>1, <1>9, FreeAbs DEF Allocated
<1>16. Blocks!Removed(BlocksOf(b), old)
         = Blocks!Placed(Blocks!Removed(BlocksOf(h), old), o, n, carried)
  BY <1>1, <1>14, BlocksOfFacts DEF Blocks!Removed, Blocks!Placed, Allocated
<1> QED
  BY <1>6, <1>15, <1>16 DEF o, carried

LEMMA InitMaps == Init => Blocks!Init
<1> SUFFICES ASSUME Init PROVE BlocksOf(heap) = [p \in {} |-> 0]
  BY DEF Blocks!Init
<1>1. DOMAIN heap.used = {}
  BY DEF Init
<1> QED
  BY <1>1 DEF BlocksOf

LEMMA AllocMaps ==
  ASSUME IInv, IInv', NEW n \in Requests, MemAlloc(n)
  PROVE  Blocks!Allocate
<1> DEFINE o == Place(heap, Size(n))
<1>1. Typed(heap) /\ Tiled(heap) /\ Typed(heap') /\ Tiled(heap')
  BY DEF IInv, TypeOK, BlocksTile
<1>2. Allowed(n) /\ CanAlloc(heap, Size(n)) /\ heap' = Alloc(heap, Size(n))
  BY DEF MemAlloc
<1>3. Size(n) \in Nat \ {0}
  BY <1>2, SizeFacts
<1>4. Allocated(heap, heap', o, Size(n))
  BY <1>1, <1>2, <1>3, AllocData
<1>5. BlocksOf(heap') = Blocks!Placed(BlocksOf(heap), o, Size(n), Blocks!Zeroed(Size(n)))
  BY <1>1, <1>2, <1>3, AllocAbs
<1>6. Blocks!Apart(BlocksOf(heap'))
  BY <1>1, AbsApart
<1> HIDE DEF o
<1>7. o \in Nat /\ o \notin DOMAIN BlocksOf(heap) /\ o \in DOMAIN BlocksOf(heap')
      /\ BlocksOf(heap')[o].n = Size(n)
  BY <1>4 DEF Allocated, BlocksOf
<1> QED
  BY <1>3, <1>5, <1>6, <1>7 DEF Blocks!Allocate, Blocks!New

LEMMA FreeMaps ==
  ASSUME IInv, NEW o \in Offsets, MemFree(o)
  PROVE  Blocks!Free
<1>1. Typed(heap)
  BY DEF IInv, TypeOK
<1>2. o \in DOMAIN heap.used /\ heap' = Free(heap, o)
  BY DEF MemFree
<1>3. heap = [len |-> heap.len, data |-> heap.data, used |-> heap.used, free |-> heap.free]
  BY <1>1 DEF Typed
<1>4. BlocksOf(heap') = Blocks!Removed(BlocksOf(heap), o)
  BY <1>2, <1>3, FreeAbs
<1>5. o \in DOMAIN BlocksOf(heap)
  BY <1>2, BlocksOfFacts
<1> QED
  BY <1>4, <1>5 DEF Blocks!Free

LEMMA ReallocMaps ==
  ASSUME IInv, IInv', NEW n \in Requests, NEW old \in Offsets, MemRealloc(old, n)
  PROVE  Blocks!Reallocate
<1> DEFINE o == Place(heap, Size(n))
<1>1. Typed(heap) /\ Tiled(heap) /\ Typed(heap') /\ Tiled(heap')
  BY DEF IInv, TypeOK, BlocksTile
<1>2. /\ Allowed(n) /\ CanAlloc(heap, Size(n)) /\ old \in DOMAIN heap.used
      /\ heap' = Realloc(heap, old, Size(n))
  BY DEF MemRealloc
<1>3. Size(n) \in Nat \ {0}
  BY <1>2, SizeFacts
<1>4. Allocated(heap, Alloc(heap, Size(n)), o, Size(n))
  BY <1>1, <1>2, <1>3, AllocData
<1>5. BlocksOf(heap') =
        Blocks!Placed(Blocks!Removed(BlocksOf(heap), old), o, Size(n),
                      Carried(heap.used[old].n, BlocksOf(heap)[old].bytes, Size(n)))
  BY <1>1, <1>2, <1>3, ReallocAbs
<1>6. Blocks!Apart(BlocksOf(heap'))
  BY <1>1, AbsApart
<1> HIDE DEF o
<1>7. o \in Nat /\ o \notin DOMAIN BlocksOf(heap) /\ old \in DOMAIN BlocksOf(heap)
      /\ BlocksOf(heap)[old].n = heap.used[old].n
  BY <1>2, <1>4 DEF Allocated, BlocksOf
<1>8. o \in DOMAIN BlocksOf(heap') /\ BlocksOf(heap')[o].n = Size(n)
  BY <1>5 DEF Blocks!Placed
<1>9. Carried(heap.used[old].n, BlocksOf(heap)[old].bytes, Size(n))
        = [k \in 0 .. BlocksOf(heap')[o].n - 1 |->
             IF k < BlocksOf(heap)[old].n THEN BlocksOf(heap)[old].bytes[k] ELSE 0]
  BY <1>7, <1>8 DEF Carried
<1> QED
  BY <1>3, <1>5, <1>6, <1>7, <1>8, <1>9 DEF Blocks!Reallocate, Blocks!New

LEMMA WriteMaps ==
  ASSUME IInv, IInv', heap'.used = heap.used
  PROVE  Blocks!Write
<1>1. Typed(heap') /\ Tiled(heap')
  BY DEF IInv, TypeOK, BlocksTile
<1>2. DOMAIN BlocksOf(heap') = DOMAIN BlocksOf(heap)
  BY BlocksOfFacts
<1>3. ASSUME NEW p \in DOMAIN BlocksOf(heap)
      PROVE  /\ BlocksOf(heap')[p].n = BlocksOf(heap)[p].n
             /\ BlocksOf(heap')[p].bytes \in Blocks!Contents(BlocksOf(heap)[p].n)
  <2>1. p \in DOMAIN heap.used /\ p \in DOMAIN heap'.used
    BY <1>3, BlocksOfFacts
  <2>2. /\ p \in Nat /\ heap'.used[p].n \in Nat /\ heap'.used[p].size \in Nat
        /\ heap'.used[p].n <= heap'.used[p].size /\ p + heap'.used[p].size <= heap'.len
    BY <1>1, <2>1, BlocksApart
  <2>3. heap'.data \in [0 .. heap'.len - 1 -> Val] /\ heap'.len \in Nat
    BY <1>1, HeapAssumption DEF Typed
  <2>4. \A k \in 0 .. heap'.used[p].n - 1 : p + k \in 0 .. heap'.len - 1
    BY <2>2, <2>3
  <2>5. \A k \in 0 .. heap'.used[p].n - 1 : heap'.data[p + k] \in Val
    BY <2>3, <2>4
  <2>6. /\ BlocksOf(heap')[p].n = heap'.used[p].n /\ BlocksOf(heap)[p].n = heap'.used[p].n
        /\ BlocksOf(heap')[p].bytes = [k \in 0 .. heap'.used[p].n - 1 |-> heap'.data[p + k]]
    BY <2>1 DEF BlocksOf
  <2> QED
    BY <2>5, <2>6 DEF Blocks!Contents
<1> QED
  BY <1>2, <1>3 DEF Blocks!Write

LEMMA StepMaps == IInv /\ IInv' /\ [Next]_heap => [Blocks!Next]_(BlocksOf(heap))
<1> SUFFICES ASSUME IInv, IInv', [Next]_heap
             PROVE  Blocks!Next \/ BlocksOf(heap') = BlocksOf(heap)
  OBVIOUS
<1>1. ASSUME NEW n \in Requests, MemAlloc(n) PROVE Blocks!Next
  BY <1>1, AllocMaps DEF Blocks!Next
<1>2. ASSUME NEW o \in Offsets, MemFree(o) PROVE Blocks!Next
  BY <1>2, FreeMaps DEF Blocks!Next
<1>3. ASSUME NEW n \in Requests, NEW o \in Offsets, MemRealloc(o, n) PROVE Blocks!Next
  BY <1>3, ReallocMaps DEF Blocks!Next
<1>4. ASSUME NEW n \in Requests, NEW o \in Offsets, NEW from \in Offsets, MemCpy(o, from, n)
      PROVE  Blocks!Next
  <2>1. heap'.used = heap.used
    BY <1>4 DEF MemCpy
  <2> QED
    BY <2>1, WriteMaps DEF Blocks!Next
<1>5. ASSUME NEW n \in Requests, NEW o \in Offsets, NEW v \in Val, MemFill(o, n, v)
      PROVE  Blocks!Next
  <2>1. heap'.used = heap.used
    BY <1>5 DEF MemFill
  <2> QED
    BY <2>1, WriteMaps DEF Blocks!Next
<1>6. CASE UNCHANGED heap
  BY <1>6
<1> QED
  BY <1>1, <1>2, <1>3, <1>4, <1>5, <1>6 DEF Next, MemFails

\* The allocator implements HeapBlocks: disjoint zeroed blocks, contents carried over by a
\* reallocation, and no block touched but the one asked about (stdlib/memory.rs).
THEOREM HeapImplementsBlocks == Spec => HeapKeepsBlocks
<1>1. Init => Blocks!Init
  BY InitMaps
<1>2. IInv /\ IInv' /\ [Next]_heap => [Blocks!Next]_(BlocksOf(heap))
  BY StepMaps
<1> QED
  BY <1>1, <1>2, InitHolds, StepHolds, PTL DEF Spec, HeapKeepsBlocks, Blocks!Spec
=============================================================================
