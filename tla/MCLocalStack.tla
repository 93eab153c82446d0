--------------------------- MODULE MCLocalStack ---------------------------
(* TLC instances of LocalStack: a small leaf function and a larger one whose *)
(* locals overlap, as compilers that share locals between functions lay them *)
(* out.                                                                      *)
EXTENDS LocalStackProofs

CONSTANTS f, h

MCBase == f :> 1 @@ h :> 0
MCWords == f :> 1 @@ h :> 2
MCParams == f :> 1 @@ h :> 0
=============================================================================
