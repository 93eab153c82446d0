----------------------------- MODULE MCThreads ------------------------------
(* TLC instances of Threads.                                               *)
EXTENDS Threads
=============================================================================
