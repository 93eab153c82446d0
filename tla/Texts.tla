-------------------------------- MODULE Texts --------------------------------
(***************************************************************************)
(* A QuakeC program that holds one string and passes it through the string *)
(* builtins (src/src/stdlib/string.rs, tokenize.rs, charset.rs,            *)
(* convert.rs, json.rs), in every order.  What they compute is defined in  *)
(* the modules this one extends; an action is one call.                    *)
(***************************************************************************)
EXTENDS Strings, Tokens, PackedStrings, Json

CONSTANTS
    FirstTexts,          \* the strings the program starts with
    ReadTexts,           \* bound: more of them, which are only looked at
    Pieces,              \* the other arguments that are strings
    InfoPieces,          \* bound: more of them, for keys and values, which are only tried
    Numbers,             \* the arguments that are numbers
    Patterns,            \* wildcard patterns
    MaxCalls, MaxLen,    \* bounds on the builtins called in turn, and on the string
    JsonLen,             \* bound: texts so short are made documents
    Plenty               \* a storage limit that no token list of the runs reaches

VARIABLES
    text,
    calls      \* builtins called

vars == <<text, calls>>

TypeOK == text \in Seq(Byte \ {NUL}) /\ calls \in 0 .. MaxCalls

Init == (text \in FirstTexts /\ calls = 0) \/ (text \in ReadTexts /\ calls = MaxCalls)

\* The string is exchanged for the result of a builtin.
Becomes(result) ==
    /\ calls < MaxCalls /\ Len(result) <= MaxLen
    /\ text' = UptoNul(result)
    /\ calls' = calls + 1

Strcat == \E piece \in Pieces : Becomes(strcat(<<text, piece>>))
Substring == \E first, count \in Numbers, cs \in Charsets : Becomes(substring(text, first, count, cs))
Strreplace == \E search, new \in Pieces, fold \in BOOLEAN : Becomes(replace_all(search, new, text, fold))
Strtrim == Becomes(strtrim(text))
Strpad == \E pad \in Numbers, piece \in Pieces : Becomes(strpad(pad, <<text, piece>>))
Strconv == \E ccase, redalpha, rednum \in 0 .. 2 : Becomes(strconv(ccase, redalpha, rednum, <<text>>))
ChangesCase == \E scheme \in Schemes, upper \in BOOLEAN : Becomes(ChangeCase(text, scheme, upper))
Instr == \E piece \in Pieces : \E rest \in instr(text, <<piece>>) : Becomes(rest)
UriEscapes == Becomes(UriEscape(text))
UriUnescapes == Becomes(UriUnescape(text))
Argescape == Becomes(QuoteString(text, MaxLen + 3))
Argv == \E qc \in BOOLEAN : \E token \in ToSet(Split(text, qc, Plenty)) : Becomes(token.text)
Infoadd == \E key, value \in Pieces : Becomes(InfoSet(text, key, value).info)
Infoget == \E key \in Pieces : Becomes(InfoGet(text, key))
AltstrPrepare == Becomes(altstr_prepare(text))
AltstrSet == \E num \in Numbers, value \in Pieces : Becomes(altstr_set(text, num, value))
AltstrGet == \E num \in Numbers : Becomes(altstr_get(text, num))
Chr2str ==
    \E cs, new \in Charsets :
        Becomes(chr2str([i \in 1 .. strlen(text, cs) |-> str2chr(text, i - 1, cs)], new))
BufImplode == \E glue \in Pieces :
    Becomes(buf_implode([i \in DOMAIN FileLines(text) |-> {FileLines(text)[i]}], glue))

Itos == Becomes(itos(stoi(text)))
Htos == Becomes(htos(stoh(text)))

Next ==
    \/ Strcat \/ Substring \/ Strreplace \/ Strtrim \/ Strpad \/ Strconv \/ ChangesCase \/ Instr
    \/ UriEscapes \/ UriUnescapes \/ Argescape \/ Argv \/ Infoadd \/ Infoget
    \/ AltstrPrepare \/ AltstrSet \/ AltstrGet \/ Chr2str \/ BufImplode
    \/ Itos \/ Htos

Spec == Init /\ [][Next]_vars

----------------------------------------------------------------------------
(* Quoting and tokens.                                                     *)

\* The sizes of the buffer quote_string is given: less than a token may hold.
BufSizes == 3 .. TokenMax + 2

\* The size that a text surely fits.
SizeFor(s) == IF ToSet(s) \cap {NL, CR, QUOTE} = {} THEN Len(s) + 3 ELSE 2 * Len(s) + 4

\* The tokens of a quoted text are one: the text, or what fits the n bytes.
OneToken(list, quoted, n) ==
    /\ Len(list) = 1 /\ list[1].start = 1 /\ list[1].end = Len(quoted) + 1
    /\ IsPrefix(list[1].text, text)
    /\ SizeFor(text) <= n => list[1].text = text
ReadsBack(quoted, n) == OneToken(Split(quoted, FALSE, Plenty), quoted, n)

\* What argescape (and %S) quotes is read back by the console tokenizer as one
\* token, the text or, where the buffer is too small, what the text starts with;
\* uri_unescape reads back what uri_escape wrote.
QuotesReadBack ==
    /\ \A n \in BufSizes : ReadsBack(QuoteString(text, n), n)
    /\ UriUnescape(UriEscape(text)) = text

JoinedWith(list, glue) ==
    FlattenSeq([i \in DOMAIN list |-> IF i = 1 THEN list[i].text ELSE glue \o list[i].text])

Cut(s, token) == SubSeq(s, token.start, token.end - 1)

\* A token was read from the bytes of its range, with none before them.
TokenAlone(token, before, qc) ==
    /\ before <= token.start /\ token.start < token.end
    /\ Split(SubSeq(text, before, token.start - 1), qc, Plenty) = << >>
    /\ Split(Cut(text, token), qc, Plenty)
          = <<[text |-> token.text, start |-> 1, end |-> Len(Cut(text, token)) + 1]>>

TokensAlone(list, qc) ==
    LET end == IF list = << >> THEN 1 ELSE Last(list).end IN
    /\ \A i \in DOMAIN list : TokenAlone(list[i], IF i = 1 THEN 1 ELSE list[i - 1].end, qc)
    /\ end <= Len(text) + 1
    /\ Split(From(text, end), qc, Plenty) = << >>
    /\ \A left \in 0 .. 3 * TokenBytes : IsPrefix(Split(text, qc, left), list)

\* argv_start_index and argv_end_index bound what a token was read from: the
\* ranges ascend, tokenizing a range again gives that token alone, tokenizing
\* what is between two ranges gives none, and a list that the storage limit cuts
\* short holds the first tokens.  tokenizebyseparator and strreplace agree on
\* the occurrences of a separator: replacing it is joining the tokens.
TokensTile ==
    /\ \A search, new \in Pieces :
          search # << >> /\ Len(text) * (1 + Len(new)) < ReplaceMax
            => replace_all(search, new, text, FALSE) = JoinedWith(SplitBy(text, <<search>>, Plenty), new)
    /\ \A qc \in BOOLEAN : TokensAlone(Split(text, qc, Plenty), qc)

----------------------------------------------------------------------------
(* Characters.                                                             *)

\* Text that is well-formed in a scheme.
Clean(s, scheme) ==
    scheme = "Utf8" => \A c \in ToSet(Chars(s, scheme)) : Decode(s, c.at + 1, scheme).error = "none"

\* With utf8 on, the builtins agree on what a character is: offsets in characters
\* and in bytes are each other's inverse, a text cut between two characters has
\* as many on both sides, strstrofs names the character its hit starts in, and
\* the code points of a well-formed text give back its characters.
CharactersCounted ==
    \A scheme \in Schemes :
        LET cs == [utf8 |-> TRUE, scheme |-> scheme]
            n == strlen(text, cs)
            points == [i \in 1 .. n |-> str2chr(text, i - 1, cs)]
            again == chr2str(points, cs)
        IN  /\ \A i \in 0 .. n :
                  LET before == substring(text, 0, i, cs)
                      after == substring(text, i, -1, cs)
                  IN  /\ CharOffset(text, ByteOffset(text, i, scheme), scheme) = i
                      /\ before \o after = text
                      /\ strlen(before, cs) = i /\ strlen(after, cs) = n - i
                      /\ i < n => substring(text, i - n, 1, cs) = substring(text, i, 1, cs)
            /\ \A sub \in Pieces \ {<< >>} :
                  LET at == Find(text, sub)
                      i == strstrofs(text, sub, 0, cs)
                  IN IF at = -1 THEN i = -1
                     ELSE at \in ByteOffset(text, i, scheme) .. ByteOffset(text, i + 1, scheme) - 1
            /\ Clean(text, scheme) => points = [i \in 1 .. strlen(again, cs) |-> str2chr(again, i - 1, cs)]

----------------------------------------------------------------------------
(* Searching and comparing.                                                *)

\* What a wildcard pattern means.
RECURSIVE Matches(_, _)
Matches(pattern, s) ==
    IF pattern = << >> THEN s = << >>
    ELSE IF pattern[1] = STAR
         THEN \/ Matches(Tail(pattern), s)
              \/ s # << >> /\ s[1] \notin {SLASH, BACKSLASH} /\ Matches(pattern, Tail(s))
    ELSE /\ s # << >>
         /\ pattern[1] = QUESTION \/ Lower(pattern[1]) = Lower(s[1])
         /\ Matches(Tail(pattern), Tail(s))

\* find returns the first occurrence (its search backs up by the borders of the
\* needle), wildcmp's rows compute what the pattern means, two texts compare
\* equal over a length exactly when substring gives the same for both, and the
\* rules of bufstr_find agree with these searches.
SearchesExact ==
    /\ \A i \in DOMAIN text : \A j \in i .. Len(text) :
          LET needle == SubSeq(text, i, j)
          IN Find(text, needle) + 1 = Min({p \in DOMAIN text : StartsAt(text, p, needle)})
    /\ \A pattern \in Patterns : wildcmp(pattern, text) <=> Matches(pattern, text)
    /\ \A piece \in Pieces, rule \in {1, 2, 4} :
          LET bytes == [utf8 |-> FALSE, scheme |-> "Quake"]
              agrees == CASE rule = 1 -> strncmp(text, piece, NoLimit, 0, 0, bytes) = 0
                          [] rule = 2 -> strncmp(text, piece, Len(piece), 0, 0, bytes) = 0
                          [] rule = 4 -> Find(text, piece) # -1
          IN bufstr_find(<<{}, {text}>>, piece, rule, 0, 1) = IF agrees THEN 1 ELSE -1
    /\ \A piece \in Pieces, len \in {-1, 1}, cs \in [utf8 : BOOLEAN, scheme : {"Utf8"}] :
          LET cut(s) == substring(s, 0, len, cs) IN
          /\ (strncmp(text, piece, len, 0, 0, cs) = 0) <=> (cut(text) = cut(piece))
          /\ strcasecmp(text, piece, len, 0, 0, cs) = -strcasecmp(piece, text, len, 0, 0, cs)

----------------------------------------------------------------------------
(* Texts within texts.                                                     *)

\* An info string as infoadd builds it: whole pairs, each key once.
IsInfo(s) ==
    /\ s = << >> \/ (s[1] = BACKSLASH /\ Len(Cuts(s)) % 2 = 1)
    /\ Len(s) < InfoMax
    /\ LET pairs == Pairs(s) IN \A i \in DOMAIN pairs : ~Overlong(pairs[i]) /\ First(pairs, pairs[i].key) = i

Visible13(s) == \A i \in DOMAIN s : s[i] > 13

LegalPair(key, value) ==
    {BACKSLASH, QUOTE} \cap (ToSet(key) \cup ToSet(value)) = {} /\ Len(key) < InfoKeyMax

\* The bytes of an info string in which the key has a value, the terminator included.
SizeWith(info, key, value) == Len(InfoRemove(info, key)) + Len(key) + Len(value) + 3

\* An accepted change sets the key and keeps every other one.  *ver makes room for
\* a value that gets longer than there is room for.
AcceptedKeeps(info, s, key, value) ==
    /\ LegalPair(key, value)
    /\ InfoGet(info, key) = Upto(value, InfoPairMax - 2 - Len(key))
    /\ \A pair \in ToSet(Pairs(s)) :
          \/ pair.key = key \/ InfoGet(info, pair.key) = pair.value
          \/ pair.key = VER /\ InfoGet(s, key) # << >> /\ SizeWith(s, key, value) > InfoMax

\* A change is refused only if it is not allowed, or too long: for a key with a
\* value, even without *ver.  It changes nothing, except that *ver is gone when
\* giving it up did not help.
RefusedKeeps(info, s, key, value) ==
    LET old == InfoGet(s, key)
        bare == InfoRemove(s, VER)
        tooLong == SizeWith(IF old = << >> THEN s ELSE bare, key, value) > InfoMax
    IN  /\ ~LegalPair(key, value) \/ tooLong
        /\ \/ info = s
           \/ LegalPair(key, value) /\ key # VER /\ old # << >> /\ info = bare

InfoaddKeeps(result, s, key, value) ==
    /\ IsInfo(result.info)
    /\ IF result.accepted THEN AcceptedKeeps(result.info, s, key, value)
                          ELSE RefusedKeeps(result.info, s, key, value)

\* Of the quoted strings of s, result differs in number num, which is value.
OthersKept(result, s, num, value) ==
    /\ altstr_count(result) = altstr_count(s)
    /\ \A other \in 0 .. altstr_count(s) - 1 :
          altstr_get(result, other) = IF other = num THEN value ELSE altstr_get(s, other)

\* infoadd on an info string gives an info string: a change that is allowed and
\* fits gives the key its value (as much as a pair may hold) and every other key
\* keeps its own, *ver until it must make room; a change that is refused leaves
\* the string, and the value of its key, alone, except that *ver may have been
\* given up in vain.  altstr_set with a prepared value changes that quoted string
\* and no other.
PackedStringsKept ==
    /\ IsInfo(text) =>
          \A key, value \in {piece \in Pieces \cup InfoPieces : Visible13(piece)} :
              InfoaddKeeps(InfoSet(text, key, value), text, key, value)
    /\ \A num \in 0 .. altstr_count(text) - 1, value \in {piece \in Pieces : BACKSLASH \notin ToSet(piece)} :
          OthersKept(altstr_set(text, num, altstr_prepare(value)), text, num, value)

----------------------------------------------------------------------------
(* Numbers.                                                                *)

\* The length of the longest prefix of a text that has a form; 0 if none has.
Longest(s, HasForm(_)) == Max({0} \cup {n \in DOMAIN s : HasForm(SubSeq(s, 1, n))})

\* Some white space, perhaps a sign, and a number that has a form.
Signed(s, HasForm(_)) ==
    \E i \in 0 .. Len(s) : \E j \in i .. i + 1 :
        /\ j < Len(s) /\ \A p \in 1 .. i : s[p] \in SpaceBytes
        /\ j > i => s[j] \in {MINUS, PLUS}
        /\ HasForm(From(s, j + 1))

AllIn(s, base) == s # << >> /\ \A i \in DOMAIN s : DigitValue(s[i]) < base
IsHex(s) == Len(s) > 2 /\ s[1] = ZERO /\ IsX(s[2]) /\ AllIn(From(s, 3), 16)

\* An integer constant of C in a base; base 0 leaves the choice to the text.
IntegerForm(s, base) ==
    CASE base = 0 -> IsHex(s) \/ AllIn(s, 8) \/ (AllIn(s, 10) /\ s[1] # ZERO)
      [] base = 16 -> IsHex(s) \/ AllIn(s, 16)
      [] OTHER -> AllIn(s, base)

\* Digits with at most one point among them, and an exponent or none.
Mantissa(s, IsDigit(_)) ==
    /\ \E i \in DOMAIN s : IsDigit(s[i])
    /\ \E point \in 0 .. Len(s) : \A i \in DOMAIN s : IF i = point THEN s[i] = POINT ELSE IsDigit(s[i])
Exponent(s) == AllIn(s, 10) \/ (s # << >> /\ s[1] \in {MINUS, PLUS} /\ AllIn(Tail(s), 10))
Scaled(s, IsDigit(_), marks) ==
    \/ Mantissa(s, IsDigit)
    \/ \E i \in DOMAIN s : s[i] \in marks /\ Mantissa(SubSeq(s, 1, i - 1), IsDigit) /\ Exponent(From(s, i + 1))

\* A floating-point constant of C, or a name of one.
RealForm(s) ==
    LET low == [i \in DOMAIN s |-> Lower(s[i])] IN
    \/ low \in {INF, INFINITY, NAN}
    \/ /\ Len(s) > 4 /\ SubSeq(low, 1, 3) = NAN /\ s[4] = 40 /\ s[Len(s)] = 41
       /\ \A i \in 5 .. Len(s) - 1 : WordByte(s[i])
    \/ Scaled(s, Digit, {69, 101})
    \/ Len(s) > 2 /\ s[1] = ZERO /\ IsX(s[2]) /\ Scaled(From(s, 3), HexDigit, {80, 112})

\* The results of stol and stoul for a text that starts with so long a number.
IntegersParsed(long, unsigned, base, used) ==
    /\ long.used = used /\ unsigned.used = used
    /\ stol(Upto(text, used), base) = long /\ stoul(Upto(text, used), base) = unsigned
    /\ long.value \in -LongMax .. LongMax - 1 => unsigned.value = long.value % 2 ^ LongBits
    /\ stol(itos(long.value), 10).value = long.value

\* `used' of stol, stoul and stod is the longest prefix that C calls a number (a
\* sign, 0x, a point or an exponent that leads nowhere is not part of it), which
\* converted alone is the same number; the signed and the unsigned conversion are
\* the same bits unless they stop at their limits; and a number read from a text,
\* printed and read again, is that number.
NumbersParsed ==
    /\ \A base \in {0, 10, 16, 36} :
          IntegersParsed(stol(text, base), stoul(text, base), base,
                         Longest(text, LAMBDA s : Signed(s, LAMBDA n : IntegerForm(n, base))))
    /\ strtod_used(text) = Longest(text, LAMBDA s : Signed(s, RealForm))
    /\ stoi(itos(stoi(text))) = stoi(text) /\ stoh(htos(stoh(text))) = stoh(text)

----------------------------------------------------------------------------
(* JSON.                                                                   *)

Text(t) == [ty |-> STRING_NODE, text |-> t]
Number(n) == [ty |-> NUMBER_NODE, num |-> n]
Plain(ty) == [ty |-> ty]
Pair(key, node) == [key |-> key, node |-> node]
Array(nodes) == [ty |-> ARRAY_NODE, kids |-> [i \in DOMAIN nodes |-> Pair(<< >>, nodes[i])]]
Object(pairs) == [ty |-> OBJECT_NODE, kids |-> pairs]

\* Documents with a text in them: as the root, as keys (twice the same, empty, with
\* a NUL), nested as deep as they may be and deeper, cut short, or followed by more.
Nodes(t) ==
    LET one == Object(<<Pair(t, Text(t)), Pair(t, Number(7))>>)
        nul == Object(<<Pair(t \o <<NUL>>, Array(<< >>)), Pair(t, Plain(TRUE_NODE)), Pair(<< >>, one)>>)
    IN {Text(t \o <<NUL>> \o t), one, nul,
        Array(<<Text(t), Array(<<Number(5), Plain(NULL_NODE)>>), Text(t)>>), Array(<<nul, Number(2)>>),
        Array(<<Array(<<Array(<<Array(<< >>)>>)>>)>>), Object(<<Pair(t, Text(t)), Pair(t, Plain(INVALID))>>)}
Documents(t) == [root : Nodes(t), trailing : BOOLEAN]

Children(node) == IF IsContainer(node.ty) THEN {node.kids[i].node : i \in DOMAIN node.kids} ELSE {}

\* What a tree needs: words and the bytes of its names, and temp strings.
RECURSIVE Cells(_), TempsOf(_), Valid(_, _)
Cells(node) ==
    4 + IF ~IsContainer(node.ty) THEN 0
        ELSE FoldFunction(+, 0, [i \in DOMAIN node.kids |->
                Cells(node.kids[i].node)
                + LET name == NameOf(node, i) IN IF name = << >> THEN 0 ELSE Len(name \o <<NUL>>)])
TempsOf(node) ==
    IF node.ty = STRING_NODE THEN 1
    ELSE IF ~IsContainer(node.ty) THEN 0
    ELSE FoldFunction(+, 0, [i \in DOMAIN node.kids |-> TempsOf(node.kids[i].node)])
Valid(node, depth) ==
    /\ node.ty # INVALID /\ (IsContainer(node.ty) => depth > 0)
    /\ \A kid \in Children(node) : Valid(kid, depth - 1)

\* What the getters tell of a node and of all below it.
RECURSIVE ReadsAs(_, _, _)
ReadsAs(memory, p, node) ==
    /\ p # 0 /\ json_get_value_type(memory, p) = node.ty
    /\ node.ty = STRING_NODE => /\ StrBytes(memory, json_get_string(memory, p)) = qc_text(node.text)
                                /\ json_get_integer(memory, p) = atoi(qc_text(node.text))
    /\ node.ty = NUMBER_NODE => json_get_integer(memory, p) = node.num
    /\ node.ty = TRUE_NODE => json_get_integer(memory, p) = 1
    /\ IF ~IsContainer(node.ty) THEN json_get_length(memory, p) = 0
       ELSE LET n == Len(node.kids)
                Kid(i) == json_get_child_at_index(memory, p, i - 1)
                named == [i \in 1 .. n |-> NameOf(node, i)]
            IN  /\ json_get_length(memory, p) = n /\ Kid(0) = 0 /\ Kid(n + 1) = 0
                /\ \A i \in 1 .. n :
                      /\ ReadsAs(memory, Kid(i), node.kids[i].node)
                      /\ StrBytes(memory, json_get_name(memory, Kid(i))) = named[i]
                      /\ json_find_object_child(memory, p, named[i])
                            = Kid(Min({k \in 1 .. n : named[k] = named[i]}))
                /\ json_find_object_child(memory, p, <<QUOTE, QUOTE, QUOTE>>) = 0

\* Heaps for a tree of some size: empty, with a block in front, with a hole in front
\* that it fills or just does not, and nearly full.
Filled(heap) == [heap EXCEPT !.data = [i \in DOMAIN @ |-> 9]]
WithHole(size) == LET block == HeapOf!Alloc(HeapOf!Alloc(NewHeap, size), 2) IN Filled(HeapOf!Free(block, 0))
HeapsFor(size) ==
    {NewHeap, Filled(HeapOf!Alloc(NewHeap, 3)), Filled(HeapOf!Alloc(NewHeap, HeapMax - HeapAlign))}
    \cup {WithHole(n) : n \in {size, size - HeapAlign} \cap 1 .. HeapMax - 2 * HeapAlign}

\* The result of json_parse, for a tree that needs size cells.
ReadBack(heap, document, room, size, result, new) ==
    /\ (result.root # 0) <=> /\ Valid(document.root, JsonDepth) /\ ~document.trailing
                             /\ TempsOf(document.root) <= room
                             /\ size <= HeapMax /\ HeapOf!CanAlloc(heap, size)
    /\ \A o \in DOMAIN heap.used :
          /\ o \in DOMAIN result.heap.used /\ result.heap.used[o] = heap.used[o]
          /\ \A i \in o .. o + heap.used[o].size - 1 : result.heap.data[i] = heap.data[i]
    /\ IF result.root = 0 THEN new = {}
       ELSE /\ new = {result.root - HeapBase}
            /\ ReadsAs([heap |-> result.heap, temps |-> result.temps], result.root, document.root)
ResultReadBack(heap, document, room, size, result) ==
    ReadBack(heap, document, room, size, result, (DOMAIN result.heap.used) \ DOMAIN heap.used)
DocumentReadBack(document, room, size) ==
    \A heap \in HeapsFor(size) : ResultReadBack(heap, document, room, size, json_parse(heap, document, room))

\* A document becomes a tree exactly if it is whole, nests no deeper than allowed,
\* and heap and temp strings have room for what it needs.  The tree is one new
\* block; the getters read it back as the document, a NUL as its overlong form and
\* a key that is there twice as the first.  What was in use keeps its place and
\* content, and a failure leaves no block behind.
TreesReadBack ==
    Len(text) <= JsonLen =>
        \A document \in Documents(text), room \in 0 .. 2 :
            DocumentReadBack(document, room, Cells(document.root))
=============================================================================
