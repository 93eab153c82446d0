------------------------- MODULE InstructionBudget -------------------------
(***************************************************************************)
(* What limits.runaway promises (vm/config.rs): a host call has one        *)
(* instruction budget, counted at jumps, calls and returns, which the      *)
(* calls builtins make back into QuakeC draw on too.  The statement that   *)
(* would use it up is refused, and from then on every other.               *)
(***************************************************************************)
EXTENDS Integers

CONSTANT Runaway   \* limits.runaway

VARIABLES
  left,    \* what is left of the budget
  ran,     \* counted statements run since it was started
  open,    \* a host call is in progress
  failed   \* a call is ending because the budget is used up

vars == <<left, ran, open, failed>>

Init == left = 0 /\ ran = 0 /\ ~open /\ ~failed

\* An outermost call, or a resumed thread, starts the budget.
Start ==
  /\ ~open
  /\ left' = Runaway /\ ran' = 0 /\ open' \in BOOLEAN
  /\ UNCHANGED failed

Count ==
  /\ open /\ left > 1
  /\ left' = left - 1 /\ ran' = ran + 1
  /\ UNCHANGED <<open, failed>>

Refuse ==
  /\ open /\ left <= 1
  /\ left' = 0 /\ failed' = TRUE
  /\ UNCHANGED <<ran, open>>

\* A call ends, the error of a used-up budget is handled or handed on, or a panic ends all.
Settle ==
  /\ open
  /\ open' \in BOOLEAN /\ failed' \in BOOLEAN
  /\ failed' => left = 0
  /\ UNCHANGED <<left, ran>>

Next == Start \/ Count \/ Refuse \/ Settle

Spec == Init /\ [][Next]_vars
=============================================================================
