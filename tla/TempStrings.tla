----------------------------- MODULE TempStrings -----------------------------
(***************************************************************************)
(* Temp strings (src/src/vm/strings.rs): the slot table, host pins and the *)
(* conservative collection, with what decides when it runs (vm/mod.rs).    *)
(* A string is its length; a reference is its slot.  A place is a word     *)
(* that can hold one: an aligned word of region S, E or the heap or of the *)
(* words a sleeping thread keeps (aligned, a root), or any other           *)
(* (an unaligned word, a value of a hash table, a variable of the host).   *)
(***************************************************************************)
EXTENDS Integers, FiniteSetsExt

CONSTANTS
    Aligned, Elsewhere,   \* the places that are roots, and the others
    InitialSlots,         \* INITIAL_SLOTS
    MaxSlots, MaxBytes,   \* limits.temp_strings and limits.temp_bytes
    MaxGrowth,            \* MAX_TEMP_GROWTH
    Lengths,              \* lengths of strings, without the terminator
    Unit,                 \* what a slot's size is a multiple of: 4
    MaxRef,               \* the references words can look like: 0 .. MaxRef
    MaxNesting, MaxPins   \* bounds on nested host calls and on the pins of a slot

ASSUME TempStringsAssumption ==
    /\ InitialSlots \in Nat \ {0} /\ MaxSlots \in Nat \ {0} /\ MaxBytes \in Nat
    /\ MaxGrowth \in Nat /\ Lengths \subseteq Nat /\ Unit \in Nat \ {0}
    /\ MaxRef \in Nat /\ MaxSlots <= MaxRef + 1 /\ MaxNesting \in Nat /\ MaxPins \in Nat
    /\ Aligned \cap Elsewhere = {}

NoRef == -1
Free == -1
Places == Aligned \cup Elsewhere
Refs == 0 .. MaxRef

VARIABLES
    slots,      \* Strings::slots: the size of each string, or Free; a slot beyond it is no slot
    capacity, cursor, live, bytes,
    pins,       \* Strings::pins: how often a reference is pinned
    words,      \* what each place holds: a reference, or NoRef for any other value
    nesting     \* Core::nesting

vars == <<slots, capacity, cursor, live, bytes, pins, words, nesting>>

Smaller(a, b) == IF a < b THEN a ELSE b
Padded(len) == ((len + Unit) \div Unit) * Unit
HasString(r) == r \in DOMAIN slots /\ slots[r] # Free
Used == {i \in DOMAIN slots : slots[i] # Free}

Init ==
    /\ slots = [i \in {} |-> Free]
    /\ capacity = Smaller(InitialSlots, MaxSlots)
    /\ cursor = 0 /\ live = 0 /\ bytes = 0
    /\ pins = [r \in Refs |-> 0]
    /\ words = [p \in Places |-> NoRef]
    /\ nesting = 0

----------------------------------------------------------------------------
(* Allocation.                                                             *)

Fits(len) == Padded(len) <= MaxBytes - bytes

\* The capacity free_slot goes on with: a full table grows, within the limit.
Grown == IF live >= capacity THEN Smaller(2 * capacity + InitialSlots, MaxSlots) ELSE capacity
Resized == [i \in 0 .. Grown - 1 |-> IF i \in DOMAIN slots THEN slots[i] ELSE Free]

Start == cursor % Grown
CanTakeSlot == live < capacity \/ Grown > capacity
\* free_slot: the first free slot from the cursor on, around the table; none
\* when the table is full and cannot grow.
IsNext(i) ==
    LET after(j) == IF j >= Start THEN j - Start ELSE j + Grown - Start IN
    /\ i \in DOMAIN Resized /\ Resized[i] = Free
    /\ \A j \in DOMAIN Resized : Resized[j] = Free => after(i) <= after(j)

\* alloc: the reference goes to the place p.
Alloc(len, p) ==
    /\ Fits(len) /\ CanTakeSlot
    /\ \E i \in DOMAIN Resized :
          /\ IsNext(i)
          /\ slots' = [Resized EXCEPT ![i] = Padded(len)]
          /\ cursor' = i + 1
          /\ words' = [words EXCEPT ![p] = i]
    /\ capacity' = Grown
    /\ live' = live + 1
    /\ bytes' = bytes + Padded(len)
    /\ UNCHANGED <<pins, nesting>>

\* temp_raw_mut: a write to `len' bytes of the string a place refers to lets it
\* grow; one that finds no room changes nothing.
Extend(p, len) ==
    /\ HasString(words[p])
    /\ slots[words[p]] < len /\ len <= MaxGrowth
    /\ LET grow == Padded(len - 1)
           more == grow - slots[words[p]] IN
       /\ bytes + more <= MaxBytes
       /\ slots' = [slots EXCEPT ![words[p]] = grow]
       /\ bytes' = bytes + more
    /\ UNCHANGED <<capacity, cursor, live, pins, words, nesting>>

----------------------------------------------------------------------------
(* References.                                                             *)

\* A place takes what another holds; or any value that is no reference to it.
Copy(p, q) ==
    /\ words' = [words EXCEPT ![q] = words[p]]
    /\ UNCHANGED <<slots, capacity, cursor, live, bytes, pins, nesting>>

\* A place takes an integer that happens to look like a reference, or none.
Overwrite(p, r) ==
    /\ words' = [words EXCEPT ![p] = r]
    /\ UNCHANGED <<slots, capacity, cursor, live, bytes, pins, nesting>>

Pin(p) ==
    /\ words[p] # NoRef /\ pins[words[p]] < MaxPins
    /\ pins' = [pins EXCEPT ![words[p]] = @ + 1]
    /\ UNCHANGED <<slots, capacity, cursor, live, bytes, words, nesting>>

Unpin(r) ==
    /\ pins[r] > 0
    /\ pins' = [pins EXCEPT ![r] = @ - 1]
    /\ UNCHANGED <<slots, capacity, cursor, live, bytes, words, nesting>>

----------------------------------------------------------------------------
(* Collection.                                                             *)

Half == capacity \div 2
WantsCollection == live >= Half /\ cursor >= Half

\* A mutant: pins do not count.
MarkedRootsOnly == {words[p] : p \in Aligned}
Marked == {words[p] : p \in Aligned} \cup {r \in Refs : pins[r] > 0}

Collected == [i \in DOMAIN slots |-> IF i \in Marked THEN slots[i] ELSE Free]
Dead == Used \ Marked

\* The bytes of the strings in some slots, each by its slot and its place there.
BytesIn(S) == UNION {{i} \X (1 .. slots[i]) : i \in S}
SizeOf(S) == Cardinality(BytesIn(S))

\* A mutant: what the strings freed took is not given back.
BytesAfterKept == bytes
BytesAfter == bytes - SizeOf(Dead)

Collect ==
    /\ slots' = Collected
    /\ live' = live - Cardinality(Dead)
    /\ bytes' = BytesAfter
    /\ cursor' = 0
    /\ capacity' = IF live' >= Half THEN Smaller(2 * capacity, MaxSlots) ELSE capacity
    /\ UNCHANGED <<pins, words>>

\* collect_garbage: refused while QuakeC runs.
CollectGarbage == nesting = 0 /\ Collect /\ UNCHANGED nesting

\* A host call begins, from the host or from a builtin.
CallBegins ==
    /\ nesting < MaxNesting
    /\ nesting' = nesting + 1
    /\ UNCHANGED <<slots, capacity, cursor, live, bytes, pins, words>>

\* A host call ends; the outermost collects if a collection is due.
CallEnds ==
    /\ nesting > 0
    /\ nesting' = nesting - 1
    /\ IF nesting = 1 /\ WantsCollection THEN Collect
       ELSE UNCHANGED <<slots, capacity, cursor, live, bytes, pins, words>>

Next ==
    \/ \E len \in Lengths, p \in Places : Alloc(len, p)
    \/ \E p \in Places, len \in Lengths : Extend(p, len)
    \/ \E p, q \in Places : Copy(p, q)
    \/ \E p \in Places, r \in Refs \cup {NoRef} : Overwrite(p, r)
    \/ \E p \in Places : Pin(p)
    \/ \E r \in Refs : Unpin(r)
    \/ CollectGarbage
    \/ CallBegins
    \/ CallEnds

Spec == Init /\ [][Next]_vars

----------------------------------------------------------------------------
(* Properties.                                                             *)

TypeOK ==
    /\ \E n \in 0 .. MaxSlots : slots \in [0 .. n - 1 -> Nat \cup {Free}]
    /\ capacity \in 1 .. MaxSlots
    /\ cursor \in 0 .. MaxSlots /\ live \in Nat /\ bytes \in 0 .. MaxBytes
    /\ pins \in [Refs -> 0 .. MaxPins]
    /\ words \in [Places -> Refs \cup {NoRef}]
    /\ nesting \in 0 .. MaxNesting

\* The counters a limit is checked against are those of the table, whatever was
\* allocated, grown, pinned and collected: live strings and their bytes, within
\* the capacity and the limits (Strings::live, Strings::room).
CountsExact ==
    /\ live = Cardinality(Used)
    /\ bytes = SizeOf(Used)
    /\ DOMAIN slots \subseteq 0 .. capacity - 1

\* A slot is refused only at the limit: a table whose cursor has passed its free
\* slots, or one at its capacity, still takes a string (free_slot).
RefusedOnlyAtLimit == live < MaxSlots => CanTakeSlot /\ \E i \in DOMAIN Resized : IsNext(i)

\* The slot table is a store of strings: what memory, a sleeping thread or a pin
\* refers to is never collected, moved or overwritten, and a new string takes a
\* slot that is free (the aligned words and pins of design.md).
Held == ({words[p] : p \in Aligned} \ {NoRef}) \cup {r \in Refs : pins[r] > 0}

Strings == [i \in Used |-> slots[i]]

Store == INSTANCE StringStore WITH Refs <- Refs, Texts <- Nat, store <- Strings, held <- Held

StringsKept == Store!Spec

\* The limits (limits.temp_strings, limits.temp_bytes) are those of the strings
\* that are there: nothing that was freed counts, and nothing less is refused.
LimitsExact == CountsExact /\ RefusedOnlyAtLimit
=============================================================================
