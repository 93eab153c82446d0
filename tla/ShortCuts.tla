------------------------------ MODULE ShortCuts ------------------------------
(***************************************************************************)
(* What the short cuts of the interpreter's inner loop promise: that the   *)
(* interpreter with them implements the one without, which reaches every   *)
(* operand in all of region S and checks every access.                     *)
(***************************************************************************)
EXTENDS Interpreter

Slow == INSTANCE Interpreter WITH FastPaths <- FALSE, View <- "whole"

\* Whatever the inner loop does through the window, the views of memory and
\* the fast field stores is what the plain checks would have done, with the
\* same warnings and errors.  The one exception is a call of the H forms whose
\* parameters lie past the window (ParmsInView).
FastPathsExact == [][ParmsInView(st') => Slow!Execute(st')]_vars
=============================================================================
