---------------------------- MODULE MCEntityWalk ----------------------------
(* TLC instances of EntityWalk.                                            *)
EXTENDS EntityWalk
=============================================================================
