------------------------------- MODULE MCTexts -------------------------------
(* Instances of Texts. *)
EXTENDS Texts

E_ACUTE == <<195, 169>>
PAIR == <<237, 160, 189, 237, 184, 128>>      \* U+1F600 as two surrogates

MCPieces == {<< >>, <<97>>, <<NL>>, <<QUOTE>>, <<APOSTROPHE>>, <<BACKSLASH>>, <<SLASH>>, E_ACUTE}

Times(n, c) == [i \in 1 .. n |-> c]

\* Keys and values at the limits, and beyond.
MCInfoPieces == {VER} \cup {Times(n, 65) : n \in {1, 4, InfoKeyMax - 1, InfoKeyMax, InfoPairMax, InfoMax}}

\* Info strings of one and two pairs, up to the greatest size.
InfoTexts ==
    LET pairs(key) == {<<BACKSLASH>> \o key \o <<BACKSLASH>> \o Times(n, 97) : n \in {1, 4}}
        both(key, other) == {first \o second : first \in pairs(key), second \in pairs(other)}
    IN  {info \in pairs(<<97>>) \cup pairs(VER) \cup both(<<97>>, VER) \cup both(VER, <<97>>) \cup both(<<97>>, <<65>>) :
            Len(info) < InfoMax}

MCFirstTexts ==
    {<< >>, PAIR, <<192, 128>>, <<225, 97>>, E_ACUTE \o <<97>>,
     <<BACKSLASH>> \o VER \o <<BACKSLASH, 97, BACKSLASH, 97, BACKSLASH, 65>>,
     <<APOSTROPHE, 97, APOSTROPHE, SPACE, APOSTROPHE, APOSTROPHE>>,
     <<97, 65, 97, 97, 65, 97, 65, 97, 97>>,
     <<SLASH, STAR, 97, STAR, SLASH, 65, SLASH, SLASH>>}

MCReadTexts ==
    LET number == {sign \o zero \o digits \o rest :
                      sign \in {<< >>, <<MINUS>>, <<SPACE, PLUS>>}, zero \in {<< >>, <<48>>, <<48, 120>>},
                      digits \in {<< >>, <<49>>, <<56, 57>>, <<102>>},
                      rest \in {<< >>, <<POINT>>, <<POINT, 49, 101>>, <<101, MINUS, 49>>, <<112, PLUS>>, <<112, 50>>, <<122>>}}
        name == {sign \o word \o rest :
                    sign \in {<< >>, <<PLUS>>}, word \in {NAN, INF, INFINITY, <<78, 65, 110>>},
                    rest \in {<< >>, <<40>>, <<40, 41>>, <<40, 49, 95, 97, 41, 41>>, <<40, 46, 41>>, <<105>>}}
    IN {long \in number \cup name : Len(long) <= MaxLen}
       \cup InfoTexts
       \cup {<<48, 88, 55, 70, 70>>, <<57, 57, 57, 57, 57>>, <<MINUS, 53, 49, 50>>, <<MINUS, 53, 49, 51>>, <<122, 122, 122>>}

MCNumbers == {-2, 0, 2}
MCPatterns == [1 .. 2 -> {97, STAR, QUESTION, SLASH}] \cup {<<STAR, 97, STAR>>, <<97, STAR, QUESTION>>, <<STAR, SLASH, STAR>>}
=============================================================================
