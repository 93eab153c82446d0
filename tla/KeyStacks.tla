------------------------------ MODULE KeyStacks ------------------------------
(***************************************************************************)
(* What hash tables promise: each key of a table has a stack of values,    *)
(* whatever bucket they share with other keys; adding pushes, replacing    *)
(* exchanges the newest, deleting pops.                                    *)
(***************************************************************************)
EXTENDS Sequences, Integers

CONSTANTS Handles, Keys, Values

VARIABLE stacks   \* for each table there is, by handle: the values of each key, newest last

\* gamestate, handle 0, is there from the start.
Init == stacks = [h \in {0} |-> [k \in Keys |-> << >>]]

Pop(st) == SubSeq(st, 1, Len(st) - 1)

\* A new table holds nothing.
Appear(h) ==
    /\ h \notin DOMAIN stacks /\ h \in DOMAIN stacks'
    /\ stacks' = [g \in DOMAIN stacks \union {h} |->
                    IF g = h THEN [k \in Keys |-> << >>] ELSE stacks[g]]

Vanish(h) ==
    /\ h \in DOMAIN stacks /\ h # 0 /\ h \notin DOMAIN stacks'
    /\ stacks' = [g \in DOMAIN stacks \ {h} |-> stacks[g]]

\* A value is pushed, the newest is popped, or it is exchanged for another.
Change(h, k) ==
    LET old == stacks[h][k]
        new == stacks'[h][k]
    IN /\ new # old
       /\ \/ new # << >> /\ new[Len(new)] \in Values /\ Pop(new) \in {old, Pop(old)}
          \/ old # << >> /\ new = Pop(old)
       /\ stacks' = [stacks EXCEPT ![h][k] = new]

Next ==
    \/ \E h \in Handles : Appear(h) \/ Vanish(h)
    \/ \E h \in DOMAIN stacks \cap DOMAIN stacks', k \in Keys : Change(h, k)

Spec == Init /\ [][Next]_stacks
=============================================================================
