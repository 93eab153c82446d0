---------------------------- MODULE PackedStrings ----------------------------
(***************************************************************************)
(* Texts that hold other texts (src/src/stdlib/string.rs): info strings,   *)
(* \key\value\key\value, and alt strings, 'one' 'two', where a backslash   *)
(* takes the next byte as it is, inside and outside the quotes.            *)
(***************************************************************************)
EXTENDS Bytes

CONSTANTS
    InfoFieldMax,      \* INFO_FIELD_MAX
    InfoMax,           \* INFO_MAX
    InfoPairMax,       \* INFO_PAIR_MAX
    InfoKeyMax         \* INFO_KEY_MAX

ASSUME PackedAssumption ==
    /\ {InfoFieldMax, InfoPairMax, InfoKeyMax} \subseteq Nat
    /\ InfoMax \in Nat \ {0}

VER == <<STAR, 118, 101, 114>>      \* *ver

\* Where the pairs of an info string are cut: before each backslash, and before
\* the first byte if no backslash is there.
Cuts(info) ==
    (IF At(info, 1) = BACKSLASH THEN << >> ELSE <<0>>)
        \o Positions(info, LAMBDA p : info[p] = BACKSLASH) \o <<Len(info) + 1>>

\* The part of an info string between one cut and the next.
Field(info, cuts, i) == SubSeq(info, cuts[i] + 1, cuts[i + 1] - 1)

\* The pairs; a key without a backslash after it is none.
PairsBetween(info, cuts) ==
    [i \in 1 .. (Len(cuts) - 1) \div 2 |->
        [key |-> Field(info, cuts, 2 * i - 1), value |-> Field(info, cuts, 2 * i)]]
Pairs(info) == PairsBetween(info, Cuts(info))

\* The first pair of a key; none (0) if there is none.
First(pairs, key) ==
    LET hits == {i \in DOMAIN pairs : pairs[i].key = key} IN IF hits = {} THEN 0 ELSE Min(hits)

\* A key or value that a search cannot pass.
Overlong(pair) == Len(pair.key) >= InfoFieldMax \/ Len(pair.value) >= InfoFieldMax

\* The value of pair i, if no pair up to it stops the search.
ValueAt(pairs, i) ==
    IF i = 0 \/ \E j \in 1 .. i : Overlong(pairs[j]) THEN << >> ELSE pairs[i].value
ValueOf(pairs, key) == ValueAt(pairs, First(pairs, key))
InfoGet(info, key) == ValueOf(Pairs(info), key)

\* An info string without pair i.
WithoutPair(info, cuts, i) ==
    IF i = 0 THEN info ELSE Upto(info, Max({cuts[2 * i - 1], 1}) - 1) \o From(info, cuts[2 * i + 1])

\* info_remove: without the first pair of the key.
InfoRemove(info, key) == WithoutPair(info, Cuts(info), First(Pairs(info), key))

\* The pair of *ver makes room for a longer value, if there is one.
RoomFor(info, old, value) == old = << >> \/ Len(value) + Len(info) + 1 - Len(old) <= InfoMax

RECURSIVE MakeRoom(_, _, _)
MakeRoom(info, key, value) ==
    IF RoomFor(info, InfoGet(info, key), value) THEN [info |-> info, fits |-> TRUE]
    ELSE IF InfoGet(info, VER) = << >> THEN [info |-> info, fits |-> FALSE]
    ELSE MakeRoom(InfoRemove(info, VER), key, value)

\* info_set: the new info string, and whether the change was accepted.
Result(info, accepted) == [info |-> info, accepted |-> accepted]

PairText(key, value) == Upto(<<BACKSLASH>> \o key \o <<BACKSLASH>> \o value, InfoPairMax)

\* A mutant: the pair is gone when the change is refused.
WithPair_Removes(original, removed, pair, value) ==
    IF value = << >> THEN Result(removed, TRUE)
    ELSE IF Len(pair) + Len(removed) + 1 > InfoMax THEN Result(removed, FALSE)
    ELSE Result(removed \o SelectSeq(pair, LAMBDA c : c > 13), TRUE)

\* The pair goes to the end of what is left without the old one.
WithPair(original, removed, pair, value) ==
    IF value = << >> THEN Result(removed, TRUE)
    ELSE IF Len(pair) + Len(removed) + 1 > InfoMax THEN Result(original, FALSE)
    ELSE Result(removed \o SelectSeq(pair, LAMBDA c : c > 13), TRUE)

SetIn(original, room, key, value) ==
    IF room.fits THEN WithPair(original, InfoRemove(room.info, key), PairText(key, value), value)
    ELSE Result(room.info, FALSE)

SetInfo(original, key, value) ==
    IF {BACKSLASH, QUOTE} \cap (ToSet(key) \cup ToSet(value)) # {} \/ Len(key) >= InfoKeyMax
    THEN Result(original, FALSE)
    ELSE SetIn(original, MakeRoom(original, key, value), key, value)

InfoSet(info, key, value) == SetInfo(Upto(info, InfoMax - 1), key, value)

----------------------------------------------------------------------------
(* Alt strings.                                                            *)

\* The positions from p on that are read: a backslash passes the one after it.
RECURSIVE ReadFrom(_, _)
ReadFrom(s, p) ==
    IF p > Len(s) THEN {}
    ELSE {p} \cup ReadFrom(s, IF s[p] = BACKSLASH THEN p + 2 ELSE p + 1)

Quotes(s, p) == {q \in ReadFrom(s, p) : s[q] = APOSTROPHE}

altstr_count(s) == Cardinality(Quotes(s, 1)) \div 2

\* after_quote: the position after the n-th quote, 0 if there is none.
AfterNth(quotes, n) == Max({0} \cup {q + 1 : q \in {r \in quotes : Cardinality(quotes \cap 1 .. r) = n}})
AfterQuote(s, n) == AfterNth(Quotes(s, 1), n)

\* closing_quote
ClosingQuote(s, p) == Min(Quotes(s, p) \cup {Len(s) + 1})

altstr_prepare(s) == FlattenSeq([i \in DOMAIN s |-> IF s[i] = APOSTROPHE THEN <<BACKSLASH, s[i]>> ELSE <<s[i]>>])

\* The bytes of a quoted string from p to its end, a backslash giving the one after it.
BytesUnquoted(s, p, end) ==
    LET taken == {IF s[q] = BACKSLASH THEN q + 1 ELSE q : q \in {r \in ReadFrom(s, p) : r < end}}
        order == Positions(s, LAMBDA q : q \in taken)
    IN [i \in DOMAIN order |-> s[order[i]]]
Contents(s, p) == IF p = 0 THEN << >> ELSE BytesUnquoted(s, p, ClosingQuote(s, p))

\* The contents of quoted string num.
altstr_get(s, num) == Contents(s, AfterQuote(s, 2 * num + 1))

\* altstr_set: the contents exchanged; a missing string appends them.
Spliced(s, p, value) ==
    IF p = 0 THEN s \o value ELSE Upto(s, p - 1) \o value \o From(s, ClosingQuote(s, p))
altstr_set(s, num, value) == Spliced(s, AfterQuote(s, 2 * num + 1), value)
=============================================================================
