-------------------------------- MODULE Heap --------------------------------
(***************************************************************************)
(* The QuakeC heap (vm/heap.rs): a first-fit allocator over one region,    *)
(* with the builtins that allocate, free, resize, copy and fill            *)
(* (stdlib/memory.rs).                                                     *)
(*                                                                         *)
(* A pointer is an offset into the region; ranges outside it belong to     *)
(* other memory.  The process never runs out of memory itself, and numbers *)
(* stay far below 2^32 (MaxAlloc is 2^24 bytes).                           *)
(***************************************************************************)
EXTENDS Integers, FiniteSetsExt

CONSTANTS
  Align,     \* ALIGN: blocks are multiples of it
  MaxHeap,   \* limits.heap_bytes, rounded down to a multiple of Align
  MaxAlloc,  \* MAX_ALLOC: the largest block QuakeC may ask for
  Val,       \* values of a cell
  Requests   \* bound: sizes asked for, copied and filled

ASSUME HeapAssumption ==
  /\ Align \in Nat \ {0} /\ MaxHeap \in Nat /\ MaxAlloc \in Nat
  /\ MaxHeap % Align = 0
  /\ 0 \in Val /\ Requests \subseteq Int

VARIABLE heap  \* Heap: data (and its length), used and free blocks

Offsets == 0 .. MaxHeap
Init == heap = [len |-> 0, data |-> [i \in {} |-> 0],
                used |-> [o \in {} |-> 0], free |-> [o \in {} |-> 0]]

With(f, k, v) == [x \in (DOMAIN f) \cup {k} |-> IF x = k THEN v ELSE f[x]]
Without(f, k) == [x \in (DOMAIN f) \ {k} |-> f[x]]

-----------------------------------------------------------------------------
(* Heap::alloc.                                                            *)

RoundUp(n) == ((n + Align - 1) \div Align) * Align

Fitting(h, size) == {o \in DOMAIN h.free : h.free[o] >= size}
CanAlloc(h, n) == Fitting(h, RoundUp(n)) # {} \/ h.len + RoundUp(n) <= MaxHeap

\* The first free block that is large enough, else the end of the region.
Place(h, n) == IF Fitting(h, RoundUp(n)) # {} THEN Min(Fitting(h, RoundUp(n))) ELSE h.len

\* The free block at o gives up its first words.
SplitKeepingLength(free, o, size) ==
  IF free[o] > size THEN With(Without(free, o), o + size, free[o]) ELSE Without(free, o)
Split(free, o, size) ==
  IF free[o] > size THEN With(Without(free, o), o + size, free[o] - size) ELSE Without(free, o)

\* Where the heap ends with n more bytes in use.
LenWith(h, n) == IF Fitting(h, RoundUp(n)) # {} THEN h.len ELSE h.len + RoundUp(n)

ClearedNew(h, n) ==
  [i \in 0 .. LenWith(h, n) - 1 |-> IF i < h.len THEN h.data[i] ELSE 0]
Cleared(h, n) ==
  LET o == Place(h, n)
  IN [i \in 0 .. LenWith(h, n) - 1 |-> IF i >= o /\ i < o + RoundUp(n) THEN 0 ELSE h.data[i]]

Alloc(h, n) ==
  LET o == Place(h, n)
      size == RoundUp(n)
  IN [len |-> LenWith(h, n), data |-> Cleared(h, n),
      used |-> With(h.used, o, [size |-> size, n |-> n]),
      free |-> IF Fitting(h, size) # {} THEN Split(h.free, o, size) ELSE h.free]

-----------------------------------------------------------------------------
(* Heap::free and Heap::realloc.                                           *)

\* The free list with o .. o + size - 1 on it, joined to its neighbours.
JoinNext(free, o, size) == size + (IF o + size \in DOMAIN free THEN free[o + size] ELSE 0)
Join(free, o, size) ==
  LET rest == Without(free, o + size)
      len == JoinNext(free, o, size)
      before == {p \in DOMAIN rest : p < o}
      prev == Max(before)
  IN IF before # {} /\ prev + rest[prev] = o
       THEN With(rest, prev, rest[prev] + len)
       ELSE With(rest, o, len)

Free(h, o) ==
  [h EXCEPT !.used = Without(@, o), !.free = Join(@, o, h.used[o].size)]

\* data.copy_within.
Copy(data, from, to, n) ==
  [i \in DOMAIN data |-> IF i >= to /\ i < to + n THEN data[from + (i - to)] ELSE data[i]]

Kept(h, old, n) == IF h.used[old].n <= n THEN h.used[old].n ELSE n

Realloc(h, old, n) ==
  LET new == Alloc(h, n)
  IN Free([new EXCEPT !.data = Copy(@, old, Place(h, n), Kept(h, old, n))], old)

-----------------------------------------------------------------------------
(* The builtins; a failure changes nothing.                                *)

\* alloc_size: 0 means 1.
Size(n) == IF n = 0 THEN 1 ELSE n
Allowed(n) == n >= 0 /\ n <= MaxAlloc

\* memalloc, and memrealloc of the null pointer.
MemAlloc(n) ==
  /\ Allowed(n) /\ CanAlloc(heap, Size(n))
  /\ heap' = Alloc(heap, Size(n))

MemFree(o) ==
  /\ o \in DOMAIN heap.used
  /\ heap' = Free(heap, o)

MemRealloc(o, n) ==
  /\ Allowed(n) /\ o \in DOMAIN heap.used /\ CanAlloc(heap, Size(n))
  /\ heap' = Realloc(heap, o, Size(n))

InHeap(o, n) == o >= 0 /\ n >= 0 /\ o + n <= heap.len

\* memcpy; the ranges may overlap.
MemCpy(to, from, n) ==
  /\ InHeap(to, n) /\ InHeap(from, n)
  /\ heap' = [heap EXCEPT !.data = Copy(@, from, to, n)]

\* memfill8, memsetval and the pointer stores of QuakeC.
MemFill(to, n, v) ==
  /\ InHeap(to, n)
  /\ heap' = [heap EXCEPT !.data = [i \in DOMAIN @ |-> IF i >= to /\ i < to + n THEN v ELSE @[i]]]

\* A size that is refused, a full heap, or no block at o.
MemFails(o, n) ==
  /\ ~Allowed(n) \/ ~CanAlloc(heap, Size(n)) \/ o \notin DOMAIN heap.used
  /\ UNCHANGED heap

Next ==
  \/ \E n \in Requests :
       \/ MemAlloc(n)
       \/ \E o \in Offsets :
            \/ MemFails(o, n) \/ MemRealloc(o, n) \/ \E v \in Val : MemFill(o, n, v)
            \/ \E from \in Offsets : MemCpy(o, from, n)
  \/ \E o \in Offsets : MemFree(o)

Spec == Init /\ [][Next]_heap

-----------------------------------------------------------------------------
(* Properties.                                                             *)

Block == [size : Nat, n : Nat]

Typed(h) ==
  /\ h = [len |-> h.len, data |-> h.data, used |-> h.used, free |-> h.free]
  /\ h.len \in 0 .. MaxHeap
  /\ h.data \in [0 .. h.len - 1 -> Val]
  /\ h.used \in [DOMAIN h.used -> Block] /\ DOMAIN h.used \subseteq Offsets
  /\ h.free \in [DOMAIN h.free -> Nat] /\ DOMAIN h.free \subseteq Offsets

\* The types of the region and of the two block lists.
TypeOK == Typed(heap)

SizeAt(h, o) == IF o \in DOMAIN h.used THEN h.used[o].size ELSE h.free[o]
Starts(h) == (DOMAIN h.used) \cup DOMAIN h.free

Tiled(h) ==
  /\ (DOMAIN h.used) \cap (DOMAIN h.free) = {}
  /\ \A o \in Starts(h) : SizeAt(h, o) > 0 /\ o + SizeAt(h, o) <= h.len
  /\ \A o, p \in Starts(h) : o < p => o + SizeAt(h, o) <= p
  /\ h.len > 0 => 0 \in Starts(h)
  /\ \A o \in Starts(h) : o + SizeAt(h, o) < h.len => o + SizeAt(h, o) \in Starts(h)
  /\ \A o \in DOMAIN h.free : o + h.free[o] \notin DOMAIN h.free
  /\ \A o \in DOMAIN h.used : h.used[o].n > 0 /\ h.used[o].n <= h.used[o].size

\* The used and the free blocks fill the region with no gap and no overlap, and no two
\* free blocks touch: nothing leaks, however blocks are split, joined and resized, and a
\* request fails only when no contiguous room is left.
BlocksTile == Tiled(heap)

BlocksOf(h) ==
  [o \in DOMAIN h.used |->
     [n |-> h.used[o].n, bytes |-> [k \in 0 .. h.used[o].n - 1 |-> h.data[o + k]]]]

Blocks == INSTANCE HeapBlocks WITH blocks <- BlocksOf(heap)

\* The allocator hands out disjoint zeroed blocks, carries the contents over when it
\* resizes one, and touches no block but the one it is asked about.
HeapKeepsBlocks == Blocks!Spec
=============================================================================
