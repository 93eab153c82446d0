------------------------------- MODULE Strings -------------------------------
(***************************************************************************)
(* What the string builtins compute (src/src/stdlib/string.rs, and the     *)
(* searches of strbuf.rs).  `cs' is the charset configuration: offsets are *)
(* characters of its scheme if `utf8' is on, bytes otherwise.              *)
(***************************************************************************)
EXTENDS Charset

CONSTANTS
    IntBits,             \* the width of an int: 32
    TempBuf,             \* TEMPBUF
    ReplaceMax,          \* 4,094, where strreplace stops
    ConcatMax,           \* CONCAT_MAX
    ShortNeedle          \* 16: find compares needles up to this byte by byte

ASSUME StringsAssumption == /\ IntBits \in 2 .. 30
                            /\ {TempBuf, ReplaceMax, ConcatMax, ShortNeedle} \subseteq Nat

\* A sum of ints, wrapped.
Int32(n) == ((n + 2^(IntBits - 1)) % 2^IntBits) - 2^(IntBits - 1)

\* The bytes a text starts with up to a NUL, which is what vm.ret_str keeps.
UptoNul(s) == SubSeq(s, 1, FirstIn(s, 1, {NUL}) - 1)

strlen(s, cs) == IF cs.utf8 THEN CharCount(s, cs.scheme) ELSE Len(s)

\* byte_ofs: a negative offset is the end.
ByteOfs(s, chars, scheme) == IF chars < 0 THEN Len(s) ELSE ByteOffset(s, chars, scheme)

strcat(args) == FlattenSeq(args)

\* args_concat: two or more arguments share a buffer.
ArgsConcat(args) == IF Len(args) = 1 THEN args[1] ELSE Upto(FlattenSeq(args), ConcatMax)

\* n characters of a text from the byte offset of a character on.
SlicedAt(s, from, n, cs) ==
    Upto(From(s, from + 1), IF cs.utf8 THEN ByteOfs(From(s, from + 1), n, cs.scheme) ELSE n)

Slice(s, start, length, slen, cs) ==
    IF start >= slen \/ length <= 0 THEN << >>
    ELSE SlicedAt(s, IF cs.utf8 THEN ByteOfs(s, start, cs.scheme) ELSE start, Min({length, slen - start}), cs)

\* Negative starts count from the end; a length of -1 runs to the end.
SliceFrom(s, start, count, slen, cs) ==
    Slice(s, Max({start, 0}), IF count < 0 THEN Int32(Int32(slen - start) + Int32(count + 1)) ELSE count,
          slen, cs)

SubstringOf(s, first, count, slen, cs) ==
    SliceFrom(s, IF first < 0 THEN Int32(slen + first) ELSE first, count, slen, cs)

substring(s, first, count, cs) == SubstringOf(s, first, count, strlen(s, cs), cs)

----------------------------------------------------------------------------
(* Searching.                                                              *)

\* The longest border of the match that the byte can extend: k bytes of the
\* needle match, fail[i] is the longest border of its first i bytes.
RECURSIVE Fallback(_, _, _, _)
Fallback(needle, fail, k, c) ==
    IF k > 0 /\ At(needle, k + 1) # c THEN Fallback(needle, fail, fail[k], c) ELSE k

Advanced(needle, fail, k, c) ==
    LET j == Fallback(needle, fail, k, c) IN IF At(needle, j + 1) = c THEN j + 1 ELSE j

Failures(needle) ==
    FoldLeft(LAMBDA fail, c : Append(fail, Advanced(needle, fail, Last(fail), c)), <<0>>, Tail(needle))

RECURSIVE FindFrom(_, _, _, _, _)
FindFrom(s, needle, fail, i, k) ==
    IF i > Len(s) THEN -1
    ELSE LET j == Advanced(needle, fail, k, s[i]) IN
         IF j = Len(needle) THEN i - j ELSE FindFrom(s, needle, fail, i + 1, j)

\* A mutant: after a mismatch the search starts over instead of at the border.
FindOver(s, needle) ==
    IF needle = << >> THEN 0 ELSE FindFrom(s, needle, [i \in DOMAIN needle |-> 0], 1, 0)

\* find: the offset of the first occurrence, -1 if there is none.
Find(s, needle) ==
    IF needle = << >> THEN 0
    ELSE IF Len(needle) <= ShortNeedle
         THEN LET hits == {p \in DOMAIN s : StartsAt(s, p, needle)} IN
              IF hits = {} THEN -1 ELSE Min(hits) - 1
    ELSE FindFrom(s, needle, Failures(needle), 1, 0)

\* The number of the character a hit is in; k is its offset behind first, -1 for no hit.
HitAt(s, first, k, cs) ==
    IF k = -1 THEN -1 ELSE IF cs.utf8 THEN CharOffset(s, first + k, cs.scheme) ELSE first + k

FindAfter(s, sub, first, cs) ==
    IF first < 0 \/ (first # 0 /\ first > Len(s)) THEN -1
    ELSE HitAt(s, first, Find(From(s, first + 1), sub), cs)

strstrofs(s, sub, start, cs) ==
    FindAfter(s, sub, IF cs.utf8 THEN ByteOfs(s, start, cs.scheme) ELSE start, cs)

\* instr: the rest of the text from the token on; {} is the null string.
instr(s, tokens) ==
    LET k == Find(s, ArgsConcat(tokens)) IN IF k = -1 THEN {} ELSE {From(s, k + 1)}

\* One row of wildcmp: which first j - 1 bytes the pattern so far matches.
WildcardRow(s, ok, c) ==
    [j \in DOMAIN ok |->
        IF c = STAR THEN \E i \in 1 .. j : ok[i] /\ \A k \in i .. j - 1 : s[k] \notin {SLASH, BACKSLASH}
        ELSE j > 1 /\ ok[j - 1] /\ (c = QUESTION \/ Lower(c) = Lower(s[j - 1]))]

wildcmp(pattern, s) ==
    FoldLeft(LAMBDA ok, c : WildcardRow(s, ok, c), [j \in 1 .. Len(s) + 1 |-> j = 1], pattern)[Len(s) + 1]

MatchesRule(s, pattern, rule) ==
    CASE rule = 1 -> s = pattern
      [] rule = 2 -> StartsAt(s, 1, pattern)
      [] rule = 3 -> Len(pattern) <= Len(s) /\ From(s, Len(s) - Len(pattern) + 1) = pattern
      [] rule = 4 -> pattern = << >> \/ \E p \in DOMAIN s : StartsAt(s, p, pattern)
      [] OTHER -> wildcmp(pattern, s)

\* bufstr_find, in entries that are a text or a hole ({}); -1 if none matches.
bufstr_find(entries, pattern, rule, start, step) ==
    LET hits == {i \in start .. Len(entries) - 1 :
                    /\ (i - start) % step = 0
                    /\ \E s \in entries[i + 1] : MatchesRule(s, pattern, rule)}
    IN IF start < 0 \/ step <= 0 \/ hits = {} THEN -1 ELSE Min(hits)

\* buf_implode: the glue goes before an entry once something is there.
buf_implode(entries, glue) ==
    FoldLeft(LAMBDA out, s : IF out = << >> THEN s ELSE out \o glue \o s, << >>,
             FlattenSeq([i \in DOMAIN entries |-> SetToSeq(entries[i])]))

\* file_lines, for buf_loadfile.
FileLines(data) ==
    LET fields == Fields(data, NL)
        n == Len(fields)
        line(i) == IF i < n /\ fields[i] # << >> /\ Last(fields[i]) = CR THEN Front(fields[i]) ELSE fields[i]
    IN [i \in 1 .. (IF fields[n] = << >> THEN n - 1 ELSE n) |-> UptoNul(line(i))]

----------------------------------------------------------------------------
(* Characters.                                                             *)

\* The character at a byte offset, 0 if there is none.
ChrAt(s, ofs, cs) ==
    IF ofs < 0 \/ ofs >= Len(s) THEN 0
    ELSE IF cs.utf8 THEN Decode(s, ofs + 1, cs.scheme).ch ELSE s[ofs + 1]

ChrAtIndex(s, index, cs) == ChrAt(s, IF cs.utf8 THEN ByteOfs(s, index, cs.scheme) ELSE index, cs)

str2chr(s, index, cs) == ChrAtIndex(s, IF index < 0 THEN strlen(s, cs) + index ELSE index, cs)

chr2str(codes, cs) ==
    UptoNul(FlattenSeq([i \in DOMAIN codes |->
        IF cs.utf8 \/ codes[i] > 255 THEN Encode(codes[i], cs.scheme, codes[i] > 255)
        ELSE <<codes[i] % 256>>]))

\* change_case, of ASCII letters and of the same letters at U+E020 to U+E07F.
ChangedCase(ch, upper) ==
    LET low == ch % 128
        private == ch - PrivateUse \in 32 .. 127
        letter == IF upper THEN low \in 97 .. 122 ELSE low \in 65 .. 90
    IN  IF (ch < 128 \/ private) /\ letter THEN IF upper THEN ch - 32 ELSE ch + 32 ELSE ch

\* (The 8,191 bytes change_case stops at are beyond the texts of the runs.)
ChangeCase(s, scheme, upper) ==
    LET chars == Chars(s, scheme) IN
    FlattenSeq([i \in DOMAIN chars |-> Encode(ChangedCase(chars[i].ch, upper), scheme, FALSE)])

----------------------------------------------------------------------------
(* Conversions.                                                            *)

\* conv_digit: a digit of one colour (its base) in another.
ConvDigit(b, base, mode) == (b - base + (IF mode \in 1 .. 4 THEN <<48, 176, 18, 146>>[mode] ELSE base)) % 256

\* conv_alpha, for the letter at position i (5 and 6 colour every other one).
ConvAlpha(b, case, colour, ccase, redalpha, i) ==
    LET reds == redalpha = 2 \/ (redalpha = 5 /\ i % 2 = 1) \/ (redalpha = 6 /\ i % 2 = 0) IN
    b - case - colour
      + (IF ccase = 1 THEN 97 ELSE IF ccase = 2 THEN 65 ELSE case)
      + (IF reds THEN 128 ELSE IF redalpha \in {1, 5, 6} THEN 0 ELSE colour)

ConvChar(b, ccase, redalpha, rednum, i) ==
    CASE b \in 48 .. 57 -> ConvDigit(b, 48, rednum)
      [] b \in 176 .. 185 -> ConvDigit(b, 176, rednum)
      [] b \in 146 .. 155 -> ConvDigit(b, 146, rednum)
      [] b \in 18 .. 27 -> ConvDigit(b, 18, rednum)
      [] b \in 97 .. 122 -> ConvAlpha(b, 97, 0, ccase, redalpha, i)
      [] b \in 65 .. 90 -> ConvAlpha(b, 65, 0, ccase, redalpha, i)
      [] b \in 225 .. 250 -> ConvAlpha(b, 97, 128, ccase, redalpha, i)
      [] b \in 193 .. 218 -> ConvAlpha(b, 65, 128, ccase, redalpha, i)
      [] OTHER -> CASE b % 128 < 16 \/ redalpha \notin {1, 2} -> b
                    [] b % 128 >= 16 /\ redalpha = 1 -> b % 128
                    [] b % 128 >= 16 /\ redalpha = 2 -> 128 + (b % 128)

strconv(ccase, redalpha, rednum, args) ==
    LET s == Upto(ArgsConcat(args), TempBuf) IN
    [i \in DOMAIN s |-> ConvChar(s[i], ccase, redalpha, rednum, i)]

Spaces(n) == [i \in 1 .. n |-> SPACE]

strpad(pad, args) ==
    LET src == ArgsConcat(args)
        before == Max({0, Min({-pad - Len(src), TempBuf})})
    IN  IF pad < 0 THEN Spaces(before) \o Upto(src, TempBuf - before)
        ELSE Upto(src, TempBuf) \o Spaces(Min({pad, TempBuf}) - Len(src))

strtrim(s) ==
    LET kept == {p \in DOMAIN s : s[p] \notin {SPACE, TAB, NL, CR}} IN
    IF kept = {} THEN << >> ELSE SubSeq(s, Min(kept), Max(kept))

Fold(s, fold) == IF fold THEN [i \in DOMAIN s |-> Lower(s[i])] ELSE s

RECURSIVE ReplacedFrom(_, _, _, _, _, _)
ReplacedFrom(search, replace, s, fold, p, out) ==
    IF p > Len(s) \/ Len(out) >= ReplaceMax - Len(replace) THEN out
    ELSE IF StartsAt(Fold(s, fold), p, Fold(search, fold))
         THEN ReplacedFrom(search, replace, s, fold, p + Len(search), out \o replace)
         ELSE ReplacedFrom(search, replace, s, fold, p + 1, Append(out, s[p]))

\* Of strreplace and (fold) strireplace.
replace_all(search, replace, s, fold) ==
    IF search = << >> THEN s ELSE ReplacedFrom(search, replace, s, fold, 1, << >>)

----------------------------------------------------------------------------
(* Comparison.                                                             *)

NoLimit == -1

\* c_strncmp, over the first n bytes: a text ends with NUL.
CByte(s, i) == IF i > Len(s) THEN NUL ELSE s[i]

\* Comparing the first n bytes (NoLimit: all), from byte i on.
RECURSIVE CompareFrom(_, _, _, _)
CompareFrom(a, b, n, i) ==
    IF i = n + 1 THEN 0
    ELSE IF CByte(a, i) # CByte(b, i) \/ CByte(a, i) = NUL THEN CByte(a, i) - CByte(b, i)
    ELSE CompareFrom(a, b, n, i + 1)

Compare(a, b, n, fold) == CompareFrom(Fold(a, fold), Fold(b, fold), n, 1)

\* compare_window: what the length and the offsets leave of the two texts.
Behind(s, ofs, cs) ==
    From(s, 1 + (IF cs.utf8 THEN IF ofs # 0 THEN ByteOfs(s, ofs, cs.scheme) ELSE 0
                 ELSE IF ofs \in 0 .. Len(s) THEN ofs ELSE Len(s)))

\* The bytes of two texts that len characters take.
Limit(a, b, len, cs) ==
    IF cs.utf8 THEN Max({ByteOfs(a, len, cs.scheme), ByteOfs(b, len, cs.scheme)}) ELSE Max({len, NoLimit})

CompareOver(a, b, len, fold, cs) == Compare(a, b, Limit(a, b, len, cs), fold)

CompareWindow(a, b, len, aofs, bofs, fold, cs) ==
    CompareOver(Behind(a, aofs, cs), Behind(b, bofs, cs), len, fold, cs)

strncmp(a, b, len, aofs, bofs, cs) == CompareWindow(a, b, len, aofs, bofs, FALSE, cs)

Sign(n) == IF n < 0 THEN -1 ELSE IF n > 0 THEN 1 ELSE 0

strcasecmp(a, b, len, aofs, bofs, cs) == Sign(CompareWindow(a, b, len, aofs, bofs, TRUE, cs))
=============================================================================
