----------------------------- MODULE Containers -----------------------------
(***************************************************************************)
(* Hash tables (src/src/stdlib/hash.rs), string buffers (strbuf.rs) and    *)
(* the token list (tokenize.rs): what they hold, and the storage they      *)
(* share one limit of (util.rs).  A text is a sequence of bytes.           *)
(***************************************************************************)
EXTENDS Integers, SequencesExt

CONSTANTS
    Keys, Texts, Lines,       \* keys of entries, texts stored, lists of lines and tokens
    HashOf,                   \* the hash of a key
    Types, StringType, DefaultType,   \* value types, EV_STRING, EV_VECTOR
    Sizes, MinBuckets, DefaultBuckets, MaxBuckets, GamestateBuckets,
    BucketBytes, EntryBytes, SlotBytes, TokenBytes,   \* what each is charged
    TablesLimit, BuffersLimit, EntriesLimit, MaxSetIndex,
    ContainerLimit            \* limits.container_bytes

ASSUME ContainersAssumption ==
    /\ ContainerLimit \in Nat /\ Sizes \subseteq Int /\ {MinBuckets, MaxBuckets} \subseteq Nat \ {0}
    /\ DefaultBuckets \in Nat \ {0} /\ GamestateBuckets \in Nat \ {0}
    /\ {BucketBytes, EntryBytes, SlotBytes, TokenBytes} \subseteq Nat
    /\ {TablesLimit, BuffersLimit, EntriesLimit, MaxSetIndex} \subseteq Nat
    /\ StringType \in Types \ {0} /\ DefaultType # 0
    /\ Keys \subseteq Seq(Nat) /\ HashOf \in [Keys -> Nat]
    /\ Texts \subseteq Seq(Nat) /\ Lines \subseteq Seq(Seq(Nat))

VARIABLES
    tables,      \* Tables::tables, by handle - 1; << >> where there is none
    gamestate,   \* Tables::gamestate; << >> until it is first used
    bufs,        \* Buffers::bufs, by handle - 1; << >> where there is none
    tokens,      \* Tokens: the list of texts and what it is charged
    used         \* StdState::container_bytes

vars == <<tables, gamestate, bufs, tokens, used>>
None == << >>
Hole == << -1 >>     \* no text has it

\* The sum of a function over a finite set, as a number of bytes.
BytesOf(f, S) == UNION {{i} \X (1 .. f[i]) : i \in S}
SumOf(f) == Cardinality(BytesOf(f, DOMAIN f))

Lesser(a, b) == IF a < b THEN a ELSE b

----------------------------------------------------------------------------
(* Storage: charge, release and recharge.                                  *)

CanCharge(n) == used + n <= ContainerLimit
\* recharge: growing must fit, shrinking always does.
CanRecharge(old, new) == new < old \/ CanCharge(new - old)

----------------------------------------------------------------------------
(* Hash tables.                                                            *)

EntryCost(e) == EntryBytes + Len(e.key) + (IF e.ty = StringType THEN Len(e.val) ELSE 0)

NewTable(n, ty) == [ty |-> ty, buckets |-> [b \in 1 .. n |-> << >>], bytes |-> n * BucketBytes]

BucketOf(t, key) == (HashOf[key] % Len(t.buckets)) + 1

\* The places of the entries of a key in its bucket; the greatest is the newest.
Matches(t, key) ==
    LET bucket == t.buckets[BucketOf(t, key)] IN
    {i \in DOMAIN bucket : bucket[i].key = key}

Without(t, b, i) ==
    [t EXCEPT !.buckets[b] = RemoveAt(@, i), !.bytes = @ - EntryCost(t.buckets[b][i])]

\* The table a handle designates: 0 is gamestate, which its first use makes.
Gamestate == IF gamestate = None THEN NewTable(GamestateBuckets, StringType) ELSE gamestate
IsTable(h) == h = 0 \/ (h \in DOMAIN tables /\ tables[h] # None)
Table(h) == IF h = 0 THEN Gamestate ELSE tables[h]
Put(h, t) ==
    IF h = 0 THEN gamestate' = t /\ UNCHANGED tables
    ELSE tables' = [tables EXCEPT ![h] = t] /\ gamestate' = gamestate

Buckets(size) == IF size < MinBuckets THEN DefaultBuckets ELSE Lesser(size, MaxBuckets)
FirstFree(seq) ==
    LET free == {i \in DOMAIN seq : seq[i] = None} IN
    IF free = {} THEN Len(seq) + 1 ELSE Min(free)
InSlot(seq, v) ==
    IF FirstFree(seq) > Len(seq) THEN Append(seq, v) ELSE [seq EXCEPT ![FirstFree(seq)] = v]
LiveIn(seq) == Cardinality({i \in DOMAIN seq : seq[i] # None})

hash_createtab(size, type) ==
    LET t == NewTable(Buckets(size), type) IN
    /\ LiveIn(tables) < TablesLimit
    /\ CanCharge(t.bytes)
    /\ tables' = InSlot(tables, t)
    /\ used' = used + t.bytes
    /\ UNCHANGED <<gamestate, bufs, tokens>>

\* gamestate cannot be destroyed, though naming it makes it.
hash_destroytab(h) ==
    /\ IsTable(h)
    /\ Put(h, IF h = 0 THEN Gamestate ELSE None)
    /\ used' = IF h = 0 THEN used ELSE used - tables[h].bytes
    /\ UNCHANGED <<bufs, tokens>>

\* A mutant: the oldest entry of the key is the one replaced.
ReplacedOldest(t, key, stacked) ==
    IF ~stacked /\ Matches(t, key) # {} THEN {Min(Matches(t, key))} ELSE {}

\* The entry hash_add replaces, if any.
Replaced(t, key, stacked) ==
    IF ~stacked /\ Matches(t, key) # {} THEN {Max(Matches(t, key))} ELSE {}

\* stacked: HASH_ADD is set and HASH_REPLACE is not.
hash_add(h, key, val, type, stacked) ==
    /\ IsTable(h)
    /\ LET t == Table(h)
           b == BucketOf(t, key)
           out == Replaced(t, key, stacked)
           e == [key |-> key, ty |-> IF type = 0 THEN t.ty ELSE type, val |-> val]
           old == IF out = {} THEN 0 ELSE EntryCost(t.buckets[b][Max(out)])
           rest == IF out = {} THEN t ELSE Without(t, b, Max(out))
       IN IF key # << >> /\ CanRecharge(old, EntryCost(e))
          THEN /\ Put(h, [rest EXCEPT !.buckets[b] = Append(@, e), !.bytes = @ + EntryCost(e)])
               /\ used' = used + EntryCost(e) - old
          ELSE Put(h, t) /\ UNCHANGED used
    /\ UNCHANGED <<bufs, tokens>>

\* hash_delete: the newest entry goes, also if its text then finds no room as a
\* temp string and the builtin fails.
hash_delete(h, key) ==
    /\ IsTable(h)
    /\ LET t == Table(h)
           b == BucketOf(t, key)
           i == Max(Matches(t, key))
       IN IF Matches(t, key) # {}
          THEN Put(h, Without(t, b, i)) /\ used' = used - EntryCost(t.buckets[b][i])
          ELSE Put(h, t) /\ UNCHANGED used
    /\ UNCHANGED <<bufs, tokens>>

----------------------------------------------------------------------------
(* String buffers.                                                         *)

TextCost(text) == IF text = Hole THEN 0 ELSE Len(text)
Contents(strings) ==
    [strings |-> strings,
     bytes |-> Len(strings) * SlotBytes + SumOf([i \in DOMAIN strings |-> TextCost(strings[i])])]

IsBuf(b) == b \in DOMAIN bufs /\ bufs[b] # None
TextAt(buf, i) == IF i < Len(buf.strings) THEN buf.strings[i + 1] ELSE Hole

\* A mutant: what the entry held before is not taken off.
BytesAfterSetKept(buf, i, text) ==
    buf.bytes + (IF i < Len(buf.strings) THEN 0 ELSE i + 1 - Len(buf.strings)) * SlotBytes
        + Len(text)

BytesAfterSet(buf, i, text) ==
    buf.bytes + (IF i < Len(buf.strings) THEN 0 ELSE i + 1 - Len(buf.strings)) * SlotBytes
        + Len(text) - TextCost(TextAt(buf, i))

\* set: entry i (from 0) of a buffer that grows with holes.
WithText(buf, i, text) ==
    LET n == IF i < Len(buf.strings) THEN Len(buf.strings) ELSE i + 1 IN
    [strings |-> [k \in 1 .. n |-> IF k = i + 1 THEN text ELSE TextAt(buf, k - 1)],
     bytes |-> BytesAfterSet(buf, i, text)]

\* store: a refused entry changes nothing.
Store(b, i, text) ==
    /\ CanRecharge(bufs[b].bytes, BytesAfterSet(bufs[b], i, text))
    /\ bufs' = [bufs EXCEPT ![b] = WithText(@, i, text)]
    /\ used' = used + BytesAfterSet(bufs[b], i, text) - bufs[b].bytes
    /\ UNCHANGED <<tables, gamestate, tokens>>

\* replace: the contents of a buffer are exchanged.
Exchange(b, contents) ==
    /\ CanRecharge(bufs[b].bytes, contents.bytes)
    /\ bufs' = [bufs EXCEPT ![b] = contents]
    /\ used' = used + contents.bytes - bufs[b].bytes
    /\ UNCHANGED <<tables, gamestate, tokens>>

buf_create ==
    /\ LiveIn(bufs) < BuffersLimit
    /\ bufs' = InSlot(bufs, Contents(<< >>))
    /\ UNCHANGED <<tables, gamestate, tokens, used>>

buf_del(b) ==
    /\ IsBuf(b)
    /\ bufs' = [bufs EXCEPT ![b] = None]
    /\ used' = used - bufs[b].bytes
    /\ UNCHANGED <<tables, gamestate, tokens>>

buf_copy(from, to) ==
    /\ IsBuf(from) /\ IsBuf(to) /\ from # to
    /\ Exchange(to, bufs[from])

bufstr_set(b, i, text) ==
    /\ IsBuf(b) /\ i <= MaxSetIndex /\ i < EntriesLimit
    /\ Store(b, i, text)

\* The entry bufstr_add takes: the end, or the first hole.
AddIndex(buf, ordered) ==
    LET holes == {i \in DOMAIN buf.strings : buf.strings[i] = Hole} IN
    IF ordered \/ holes = {} THEN Len(buf.strings) ELSE Min(holes) - 1

bufstr_add(b, text, ordered) ==
    /\ IsBuf(b)
    /\ AddIndex(bufs[b], ordered) < EntriesLimit
    /\ Store(b, AddIndex(bufs[b], ordered), text)

\* The text leaves a hole; the slot stays charged.
bufstr_free(b, i) ==
    /\ IsBuf(b) /\ i < Len(bufs[b].strings)
    /\ bufs' = [bufs EXCEPT ![b].strings[i + 1] = Hole,
                            ![b].bytes = @ - TextCost(TextAt(bufs[b], i))]
    /\ used' = used - TextCost(TextAt(bufs[b], i))
    /\ UNCHANGED <<tables, gamestate, tokens>>

\* Byte order.
Before(a, b) ==
    \/ IsStrictPrefix(a, b)
    \/ \E k \in 1 .. Lesser(Len(a), Len(b)) :
          a[k] < b[k] /\ \A j \in 1 .. k - 1 : a[j] = b[j]

\* The places of some texts in the order of the first `prefix' bytes of each (0 for all),
\* equal ones as they sit.
Orders(texts, places, prefix, backward) ==
    LET key(i) == IF prefix = 0 THEN texts[i] ELSE SubSeq(texts[i], 1, Lesser(prefix, Len(texts[i])))
        precedes(i, j) ==
            IF key(i) = key(j) THEN i < j
            ELSE IF backward THEN Before(key(j), key(i)) ELSE Before(key(i), key(j))
    IN {p \in [1 .. Cardinality(places) -> places] :
          Range(p) = places /\ \A m, n \in DOMAIN p : m < n => precedes(p[m], p[n])}

Ordered(texts, p) == [n \in DOMAIN p |-> texts[p[n]]]

\* buf_sort: the holes go.  It takes the strings out of the buffer before it
\* replaces them, which cannot be refused: a buffer only shrinks.
buf_sort(b, prefix, backward) ==
    /\ IsBuf(b)
    /\ LET strings == bufs[b].strings
           texts == {i \in DOMAIN strings : strings[i] # Hole}
       IN \E p \in Orders(strings, texts, prefix, backward) :
             LET contents == Contents(Ordered(strings, p)) IN
             IF CanRecharge(bufs[b].bytes, contents.bytes) THEN Exchange(b, contents)
             ELSE /\ bufs' = [bufs EXCEPT ![b].strings = << >>]
                  /\ UNCHANGED <<tables, gamestate, tokens, used>>

\* buf_cvarlist: the names the host has, sorted.
buf_cvarlist(b, names) ==
    /\ IsBuf(b)
    /\ \E p \in Orders(names, DOMAIN names, 0, FALSE) :
          LET kept == SubSeq(Ordered(names, p), 1, Lesser(Len(names), EntriesLimit))
          IN Exchange(b, Contents(kept))

\* A buffer with the first n lines appended, and whether the n-th is accepted.
WithLines(buf, lines, n) ==
    [strings |-> buf.strings \o SubSeq(lines, 1, n),
     bytes |-> buf.bytes + n * SlotBytes + SumOf([i \in 1 .. n |-> Len(lines[i])])]
Accepted(buf, lines, n) ==
    /\ Len(buf.strings) + n <= EntriesLimit
    /\ CanCharge(WithLines(buf, lines, n).bytes - buf.bytes)

\* The lines are appended until one is refused.
buf_loadfile(b, lines) ==
    /\ IsBuf(b)
    /\ \E n \in 0 .. Len(lines) :
          /\ \A k \in 1 .. n : Accepted(bufs[b], lines, k)
          /\ n < Len(lines) => ~Accepted(bufs[b], lines, n + 1)
          /\ Exchange(b, WithLines(bufs[b], lines, n))

----------------------------------------------------------------------------
(* The token list.                                                         *)

ListBytes(list) == Len(list) * TokenBytes + SumOf([i \in DOMAIN list |-> Len(list[i])])

\* budget: what is left once the current list is dropped.
TokenBudget == ContainerLimit - (used - tokens.bytes)

\* Budget::take: tokens are kept until one costs more than is left, counting
\* the slack of a growing list.
Affordable(list) ==
    LET cost(n) == SumOf([i \in 1 .. n |-> 2 * TokenBytes + Len(list[i])])
    IN SubSeq(list, 1, Max({n \in 0 .. Len(list) : cost(n) <= TokenBudget}))

\* set_tokens: the old list is released; the new one is charged, or cleared if
\* it cannot be.
Tokenize(texts) ==
    LET list == Affordable(texts)
        others == used - tokens.bytes
        ok == others + ListBytes(list) <= ContainerLimit
    IN /\ tokens' = IF ok THEN [list |-> list, bytes |-> ListBytes(list)]
                    ELSE [list |-> << >>, bytes |-> 0]
       /\ used' = IF ok THEN others + ListBytes(list) ELSE others
       /\ UNCHANGED <<tables, gamestate, bufs>>

----------------------------------------------------------------------------

Init ==
    /\ tables = << >> /\ gamestate = None /\ bufs = << >>
    /\ tokens = [list |-> << >>, bytes |-> 0] /\ used = 0

Handles == 0 .. TablesLimit
BufHandles == 1 .. BuffersLimit
Indices == 0 .. EntriesLimit

TableStep ==
    \/ \E size \in Sizes, type \in Types : hash_createtab(size, IF type = 0 THEN DefaultType ELSE type)
    \/ \E h \in Handles : hash_destroytab(h)
    \/ \E h \in Handles, key \in Keys, val \in Texts, type \in Types, stacked \in BOOLEAN :
          hash_add(h, key, val, type, stacked)
    \/ \E h \in Handles, key \in Keys : hash_delete(h, key)

BufferStep ==
    \/ buf_create
    \/ \E b \in BufHandles : buf_del(b)
    \/ \E from, to \in BufHandles : buf_copy(from, to)
    \/ \E b \in BufHandles, i \in Indices, text \in Texts : bufstr_set(b, i, text)
    \/ \E b \in BufHandles, text \in Texts, ordered \in BOOLEAN : bufstr_add(b, text, ordered)
    \/ \E b \in BufHandles, i \in Indices : bufstr_free(b, i)
    \/ \E b \in BufHandles, prefix \in 0 .. 1, backward \in BOOLEAN : buf_sort(b, prefix, backward)
    \/ \E b \in BufHandles, names \in Lines : buf_cvarlist(b, names)
    \/ \E b \in BufHandles, lines \in Lines : buf_loadfile(b, lines)

Next == TableStep \/ BufferStep \/ \E texts \in Lines : Tokenize(texts)

Spec == Init /\ [][Next]_vars

----------------------------------------------------------------------------
(* Properties.                                                             *)

BucketCost(bucket) == SumOf([i \in DOMAIN bucket |-> EntryCost(bucket[i])])
EntriesCost(t) == SumOf([b \in DOMAIN t.buckets |-> BucketCost(t.buckets[b])])
ChargedTo(seq) == SumOf([i \in DOMAIN seq |-> IF seq[i] = None THEN 0 ELSE seq[i].bytes])
TableCost(t) == Len(t.buckets) * BucketBytes + EntriesCost(t)

\* What is charged is what the tables, buffers and tokens hold, never more than
\* the limit, in whatever order they were filled, replaced, sorted and dropped;
\* gamestate's buckets alone are not charged (charge, release, recharge).
ChargedExactly ==
    /\ \A t \in ToSet(tables) : t # None => t.bytes = TableCost(t)
    /\ \A b \in ToSet(bufs) : b # None => b.bytes = Contents(b.strings).bytes
    /\ used = ChargedTo(tables) + ChargedTo(bufs)
                + (IF gamestate = None THEN 0 ELSE EntriesCost(gamestate))
                + ListBytes(tokens.list)
    /\ used <= ContainerLimit

\* A token list that was cut to the budget can be charged: set_tokens never
\* drops the tokens it has just read ("so the charge succeeds").
TokensAffordable ==
    \A texts \in Lines : used - tokens.bytes + ListBytes(Affordable(texts)) <= ContainerLimit

\* The one storage budget of all containers balances, and a token list fits in it.
BudgetBalances == ChargedExactly /\ TokensAffordable

\* The n-th smallest of a set of places.
Nth(S, n) == CHOOSE i \in S : Cardinality({j \in S : j <= i}) = n

\* Each key of a table has the entries added for it, newest last, whatever keys
\* share its bucket; replacing and deleting reach the newest only.
StackOf(t, key) ==
    LET bucket == t.buckets[BucketOf(t, key)]
        places == Matches(t, key)
    IN [n \in 1 .. Cardinality(places) |-> bucket[Nth(places, n)]]

Named == {h \in Handles : IsTable(h)}
TableStacks == [h \in Named |-> [k \in Keys \ {<< >>} |-> StackOf(Table(h), k)]]

KeyStacks == INSTANCE KeyStacks WITH
                Handles <- Handles, Keys <- Keys \ {<< >>},
                Values <- [key : Keys, ty : Types \cup {StringType, DefaultType}, val : Texts],
                stacks <- TableStacks

TablesAreStacks == KeyStacks!Spec
=============================================================================
