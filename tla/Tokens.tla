------------------------------- MODULE Tokens -------------------------------
(***************************************************************************)
(* How texts are cut into tokens (src/src/stdlib/tokenize.rs) and quoted   *)
(* so that they are read back (format.rs, string.rs).  A range ends before *)
(* its `end'.                                                              *)
(***************************************************************************)
EXTENDS Bytes

CONSTANTS
    TokenMax, CStringMax,    \* TOKEN_MAX, CSTRING_MAX
    TokenBytes               \* TOKEN_BYTES

ASSUME TokensAssumption == TokenMax \in Nat \ {0} /\ CStringMax \in Nat \ {0} /\ TokenBytes \in Nat

White == NUL .. SPACE
Visible == Byte \ White

\* Bytes that are tokens by themselves in QuakeC mode: \n { } ( ) [ ] ' : , ;
Single == {NL, 123, 125, 40, 41, 91, 93, APOSTROPHE, 58, 44, 59}
Stops(qc) == IF qc THEN White \cup Single ELSE White

Read(text, next) == [text |-> text, next |-> next]

\* The \x escape at p: the value of up to two hex digits, and the position after.
HexEscapeOf(s, p, digits) ==
    CASE digits = 0 -> [value |-> 0, next |-> p]
      [] digits = 1 -> [value |-> HexValue(s[p]), next |-> p + 1]
      [] digits = 2 -> [value |-> 16 * HexValue(s[p]) + HexValue(s[p + 1]), next |-> p + 2]
HexEscape(s, p) ==
    HexEscapeOf(s, p, Cardinality({i \in {0, 1} : \A j \in 0 .. i : HexDigit(At(s, p + j))}))

\* What follows a backslash: a byte of the text, none (a line goes on), or, for
\* \x, a byte that may end it.
Escaped(s, p) ==
    LET e == s[p] IN
    CASE e = CR -> [value |-> -1, next |-> IF At(s, p + 1) = NL THEN p + 2 ELSE p + 1]
      [] e = NL -> [value |-> -1, next |-> p + 1]
      [] e = 110 -> [value |-> NL, next |-> p + 1]
      [] e = 116 -> [value |-> TAB, next |-> p + 1]
      [] e = 114 -> [value |-> CR, next |-> p + 1]
      [] e = 120 -> HexEscape(s, p + 1)
      [] e \in {DOLLAR, BACKSLASH, APOSTROPHE, QUOTE} -> [value |-> e, next |-> p + 1]
      [] OTHER -> [value |-> QUESTION, next |-> p + 1]

\* parse_cstring: the text of a C string from p on, after its quote.
RECURSIVE CString(_, _, _), CStringAfter(_, _, _, _)
CString(s, p, out) ==
    IF Len(out) >= CStringMax THEN Read(out, p)
    ELSE IF p > Len(s) \/ (s[p] = BACKSLASH /\ p = Len(s)) THEN Read(out, Len(s) + 1)
    ELSE IF s[p] = BACKSLASH THEN CStringAfter(s, s[p + 1], Escaped(s, p + 1), out)
    ELSE IF s[p] \in {QUOTE, NUL} THEN Read(out, p + 1)
    ELSE CString(s, p + 1, Append(out, s[p]))
CStringAfter(s, escape, e, out) ==
    IF e.value \in {QUOTE, NUL} /\ escape = 120 THEN Read(out, e.next)
    ELSE CString(s, e.next, IF e.value = -1 THEN out ELSE Append(out, e.value))

\* A quoted token from p on: a doubled quote stands for one.
RECURSIVE Quoted(_, _, _, _)
Quoted(s, p, quote, out) ==
    IF Len(out) >= TokenMax THEN Read(out, p)
    ELSE IF p > Len(s) THEN Read(out, Len(s) + 1)
    ELSE IF s[p] # quote THEN Quoted(s, p + 1, quote, Append(out, s[p]))
    ELSE IF At(s, p + 1) = quote THEN Quoted(s, p + 2, quote, Append(out, quote))
    ELSE Read(out, p + 1)

\* The position after the comment that starts at p; p if none does.
AfterComment(s, p, qc) ==
    CASE StartsAt(s, p, <<SLASH, SLASH>>) -> FirstIn(s, p, {NL})
      [] ~qc /\ StartsAt(s, p, <<SLASH, STAR>>) ->
            Min({q + 2 : q \in {r \in p + 2 .. Len(s) : StartsAt(s, r, <<STAR, SLASH>>)}}
                    \cup {Len(s) + 1})
      [] OTHER -> p

\* Where the next token is: white space and comments are passed, a newline is not.
RECURSIVE TokenStart(_, _, _), AfterComments(_, _, _, _)
TokenStart(s, p, qc) ==
    LET q == FirstIn(s, p, Visible \cup {NL}) IN AfterComments(s, q, AfterComment(s, q, qc), qc)
AfterComments(s, q, next, qc) == IF next = q THEN q ELSE TokenStart(s, next, qc)

\* The end of a word: at a stop, or where the buffer is full.
WordEnd(s, q, qc) == Min({FirstIn(s, q + 1, Stops(qc)), q + TokenMax})

\* The token at q.
TokenAt(s, q, qc) ==
    CASE q > Len(s) -> {}
      [] At(s, q) = NL -> {Read(<<NL>>, q + 1)}
      [] StartsAt(s, q, <<BACKSLASH, QUOTE>>) -> {CString(s, q + 2, << >>)}
      [] At(s, q) = QUOTE \/ (qc /\ At(s, q) = APOSTROPHE) -> {Quoted(s, q + 1, s[q], << >>)}
      [] qc /\ At(s, q) \in Single \ {NL, APOSTROPHE} -> {Read(<<s[q]>>, q + 1)}
      [] OTHER -> {Read(SubSeq(s, q, WordEnd(s, q, qc) - 1), WordEnd(s, q, qc))}

\* parse_token: the token after p, if there is one.
ParseToken(s, p, qc) == TokenAt(s, TokenStart(s, p, qc), qc)

\* What Budget::take takes for a token.
Cost(bytes) == 2 * TokenBytes + Len(bytes)

\* split, from p on with `left' bytes of the budget.
RECURSIVE SplitFrom(_, _, _, _, _), SplitAt(_, _, _, _, _), SplitWith(_, _, _, _, _, _)
SplitFrom(s, p, qc, left, list) == SplitAt(s, FirstIn(s, p, Visible), qc, left, list)
SplitAt(s, q, qc, left, list) ==
    IF q > Len(s) THEN list ELSE SplitWith(s, q, qc, ParseToken(s, q, qc), left, list)
SplitWith(s, q, qc, token, left, list) ==
    IF \A t \in token : Cost(t.text) > left THEN list
    ELSE LET t == CHOOSE t \in token : TRUE IN
         SplitFrom(s, t.next, qc, left - Cost(t.text),
                   Append(list, [text |-> t.text, start |-> q, end |-> t.next]))

Split(s, qc, budget) == SplitFrom(s, 1, qc, budget, << >>)

\* The separators that start at p.
Hits(s, seps, p) == {i \in DOMAIN seps : seps[i] # << >> /\ StartsAt(s, p, seps[i])}

\* split_by: the separators are tried in order at each byte.
RECURSIVE SplitByFrom(_, _, _, _, _, _), SplitByAt(_, _, _, _, _, _, _)
SplitByFrom(s, seps, start, p, left, list) ==
    IF p <= Len(s) /\ Hits(s, seps, p) = {} THEN SplitByFrom(s, seps, start, p + 1, left, list)
    ELSE SplitByAt(s, seps, start, p, Min({p, Len(s) + 1}), left, list)
SplitByAt(s, seps, start, p, end, left, list) ==
    LET token == [text |-> SubSeq(s, start, end - 1), start |-> start, end |-> end] IN
    IF Cost(token.text) > left THEN list
    ELSE IF p > Len(s) THEN Append(list, token)
    ELSE LET next == p + Len(seps[Min(Hits(s, seps, p))]) IN
         SplitByFrom(s, seps, next, next, left - Cost(token.text), Append(list, token))

\* A mutant: no token between two separators in a row.
SplitByNonEmpty(s, seps, budget) ==
    SelectSeq(IF s = << >> THEN << >> ELSE SplitByFrom(s, seps, 1, 1, budget, << >>), LAMBDA t : t.text # << >>)

SplitBy(s, seps, budget) == IF s = << >> THEN << >> ELSE SplitByFrom(s, seps, 1, 1, budget, << >>)

----------------------------------------------------------------------------
(* Quoting.                                                                *)

\* A mutant: backslashes stay as they are.
QuotedByteBare(c) ==
    CASE c = NL -> <<BACKSLASH, 110>>
      [] c = CR -> <<BACKSLASH, 114>>
      [] c = TAB -> <<BACKSLASH, 116>>
      [] c \in {APOSTROPHE, QUOTE, DOLLAR} -> <<BACKSLASH, c>>
      [] OTHER -> <<c>>

QuotedByte(c) ==
    CASE c = NL -> <<BACKSLASH, 110>>
      [] c = CR -> <<BACKSLASH, 114>>
      [] c = TAB -> <<BACKSLASH, 116>>
      [] c \in {APOSTROPHE, QUOTE, BACKSLASH, DOLLAR} -> <<BACKSLASH, c>>
      [] OTHER -> <<c>>

\* The bytes of the C form, one text byte after another until less than two
\* bytes of room are left.
CFormUpto(s, room) ==
    LET len(n) == Len(Exchanged(SubSeq(s, 1, n), QuotedByte))
        n == Max({0} \cup {k \in DOMAIN s : \A j \in 0 .. k - 1 : room - len(j) >= 2})
    IN Exchanged(SubSeq(s, 1, n), QuotedByte)

\* quote_string: plain quotes, or the \" form for texts with a newline or quote.
QuoteString(s, bufsize) ==
    IF ToSet(s) \cap {NL, CR, QUOTE} = {}
    THEN <<QUOTE>> \o Upto(s, Max({bufsize - 3, 0})) \o <<QUOTE>>
    ELSE <<BACKSLASH, QUOTE>> \o CFormUpto(s, Max({bufsize - 4, 0})) \o <<QUOTE>>

\* uri_escape: all but letters, digits and . - _ ~ (the 8,188 bytes it stops at
\* are beyond the texts of the runs; likewise in uri_unescape).
UriEscaped(c) ==
    IF Letter(c) \/ Digit(c) \/ c \in {46, 45, 95, 126} THEN <<c>>
    ELSE <<PERCENT, HexByte(c \div 16), HexByte(c % 16)>>
UriEscape(s) == Exchanged(s, UriEscaped)

RECURSIVE UriUnescape(_)
UriUnescape(s) ==
    IF s = << >> THEN << >>
    ELSE IF s[1] = PERCENT /\ HexDigit(At(s, 2)) /\ HexDigit(At(s, 3))
         THEN LET c == 16 * HexValue(s[2]) + HexValue(s[3]) IN
              IF c = NUL THEN << >> ELSE <<c>> \o UriUnescape(From(s, 4))
         ELSE <<s[1]>> \o UriUnescape(Tail(s))
=============================================================================
