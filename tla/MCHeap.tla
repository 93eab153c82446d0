------------------------------- MODULE MCHeap -------------------------------
(* TLC instances of Heap.                                                  *)
EXTENDS Heap
=============================================================================
