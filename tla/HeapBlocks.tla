----------------------------- MODULE HeapBlocks -----------------------------
(***************************************************************************)
(* What the QuakeC heap promises (stdlib/memory.rs): blocks that do not    *)
(* overlap, zeroed when handed out, with contents that only writes change  *)
(* and that a reallocation carries over.                                   *)
(***************************************************************************)
EXTENDS Integers

CONSTANT Val     \* values of a cell of memory

VARIABLE blocks  \* the allocated blocks: where each starts, and its contents

Cells(b, p) == p .. p + b[p].n - 1
Apart(b) == \A p, q \in DOMAIN b : p # q => Cells(b, p) \cap Cells(b, q) = {}

Contents(n) == [0 .. n - 1 -> Val]
Zeroed(n) == [k \in 0 .. n - 1 |-> 0]

\* A block with these contents starts at p.
Placed(b, p, n, bytes) ==
  [q \in (DOMAIN b) \cup {p} |-> IF q = p THEN [n |-> n, bytes |-> bytes] ELSE b[q]]
Removed(b, p) == [q \in (DOMAIN b) \ {p} |-> b[q]]

Init == blocks = [p \in {} |-> 0]

\* The block that comes into being.
New == (DOMAIN blocks') \ DOMAIN blocks

Allocate ==
  \E p \in New :
    /\ p \in Nat /\ blocks'[p].n \in Nat \ {0}
    /\ blocks' = Placed(blocks, p, blocks'[p].n, Zeroed(blocks'[p].n))
    /\ Apart(blocks')

Free == \E p \in DOMAIN blocks : blocks' = Removed(blocks, p)

\* The contents move to a new block; what the old one did not have is zero.
Reallocate ==
  \E p \in DOMAIN blocks, q \in New :
    LET n == blocks'[q].n
        kept == [k \in 0 .. n - 1 |-> IF k < blocks[p].n THEN blocks[p].bytes[k] ELSE 0]
    IN /\ q \in Nat /\ n \in Nat \ {0}
       /\ blocks' = Placed(Removed(blocks, p), q, n, kept)
       /\ Apart(blocks')

\* QuakeC writes where it likes.
Write ==
  /\ DOMAIN blocks' = DOMAIN blocks
  /\ \A p \in DOMAIN blocks :
       /\ blocks'[p].n = blocks[p].n
       /\ blocks'[p].bytes \in Contents(blocks[p].n)

Next == Allocate \/ Free \/ Reallocate \/ Write

Spec == Init /\ [][Next]_blocks
=============================================================================
