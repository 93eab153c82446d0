---------------------------- MODULE MCHostCalls ----------------------------
(* TLC instances of HostCalls.                                             *)
EXTENDS HostCalls
=============================================================================
