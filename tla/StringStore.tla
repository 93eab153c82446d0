----------------------------- MODULE StringStore -----------------------------
(***************************************************************************)
(* What temp strings promise QuakeC and the host: a reference names the    *)
(* same string for as long as something that counts holds it, and a new    *)
(* string never takes a reference that something still means.              *)
(***************************************************************************)
CONSTANTS Refs, Texts

VARIABLES
    store,   \* the strings there are: a function from some of the references
    held     \* the references that count: in memory, in threads asleep, pinned

Init == store = [r \in {} |-> 0] /\ held = {}

\* A string appears under a reference that named none.
New(r) ==
    /\ r \notin DOMAIN store
    /\ store' \in [DOMAIN store \union {r} -> Texts]
    /\ \A q \in DOMAIN store : store'[q] = store[q]

\* A string that exists is written to.
Write(r) ==
    /\ r \in DOMAIN store
    /\ store' \in [DOMAIN store -> Texts]
    /\ \A q \in DOMAIN store \ {r} : store'[q] = store[q]

\* Some strings nothing holds disappear; the others keep their text.
Forget ==
    /\ DOMAIN store' \subseteq DOMAIN store
    /\ DOMAIN store \intersect held \subseteq DOMAIN store'
    /\ store' \in [DOMAIN store' -> Texts]
    /\ \A r \in DOMAIN store' : store'[r] = store[r]

\* References come to be held or are dropped.
Hold == held' \subseteq Refs /\ UNCHANGED store

Next ==
    \/ \E r \in Refs : New(r) /\ held' \subseteq Refs
    \/ \E r \in Refs : Write(r) /\ UNCHANGED held
    \/ Forget /\ UNCHANGED held
    \/ Hold

Spec == Init /\ [][Next]_<<store, held>>
=============================================================================
