---------------------------- MODULE MCMultiProgs ----------------------------
(***************************************************************************)
(* MultiProgs with a main program and the add-ons the host can supply: one *)
(* that shares `x', links `g' and `m' both ways and adds a field, one that *)
(* adds a vector field, one that needs more field words than there are and *)
(* one whose names are too long.                                           *)
(***************************************************************************)
EXTENDS MultiProgs

Names == {"", "x", "g", "m", "b", "hp", "init", "own", "mana", "thisprogs", "p", "far", "wild",
          "org", "org_x", "org_y", "autocvar_c", "more", "toolong"}
MCNameBytes == [n \in Names |-> CASE n = "" -> 0 [] n = "toolong" -> 60 [] OTHER -> 1]
MCCvarOf(n) == IF n = "autocvar_c" THEN "c" ELSE ""

Plain(type) == [type |-> type, save |-> FALSE, shared |-> FALSE]
Shared(type) == [type |-> type, save |-> FALSE, shared |-> TRUE]
Section(rows) == [ofs |-> 100, rows |-> rows]

\* Words 0 to 6 are the null word, RETURN and the one PARM.
Reserved == <<0, 0, 0, 0, 0, 0, 0>>

File ==
    [bytes |-> 1000, version |-> 7, secondary |-> "Fte16", compressed |-> FALSE,
     statements |-> Section(<<>>), globaldefs |-> Section(<<>>), fielddefs |-> Section(<<>>),
     functions |-> Section(<<>>), strings |-> [ofs |-> 100, len |-> 3],
     globals |-> Section(Reserved), entity_fields |-> 0,
     linenums |-> [ofs |-> 0, rows |-> <<>>], types |-> 0,
     bodyless |-> [ofs |-> 900, count |-> 0, names |-> <<>>]]

NullFunction == <<0, 0, 0, 0, "", "", 0, <<0>>>>

\* m(p) at statement 1 with its parameter at word 10; b is builtin 1.
MainFile ==
    [File EXCEPT
        !.version = 6,
        !.globals.rows = Reserved \o <<0, 0, 1, 0, 2, 0>>,
        !.globaldefs.rows =
            << <<Shared("Float"), 7, "x">>, <<Plain("Function"), 8, "g">>,
               <<Plain("Function"), 9, "m">>, <<Plain("Function"), 11, "b">>,
               <<Plain("Field"), 12, "hp">> >>,
        !.fielddefs.rows = << <<Plain("Float"), 0, "hp">> >>,
        !.entity_fields = 1,
        \* DONE, CALL1 g, STORE_V to the last operand, IF by -2, IF out of range,
        \* GLOBAL INDEX at the limit, an unknown opcode
        !.statements.rows =
            << <<0, 0, 0, 0>>, <<52, 8, 0, 0>>, <<32, 15, 15, 0>>, <<49, 7, 14, 0>>,
               <<49, 7, 8, 0>>, <<80, 16, 7, 7>>, <<290, 0, 0, 0>> >>,
        !.functions.rows =
            << NullFunction, <<1, 10, 1, 0, "m", "", 1, <<1>>>>,
               <<-1, 0, 0, 0, "b", "", 0, <<0>>>> >>]

\* g(p) calls m; init; own is a builtin of its own.
Addon ==
    [File EXCEPT
        !.globals.rows = Reserved \o <<0, 1, 1, 2, 3, 0, 1, 0, 0, PointerFlag + 4>>,
        !.globaldefs.rows =
            << <<Plain("Function"), 7, "m">>, <<Plain("Float"), 8, "x">>,
               <<Plain("Function"), 9, "g">>, <<Plain("Function"), 10, "init">>,
               <<Plain("Function"), 11, "own">>, <<Plain("Field"), 12, "mana">>,
               <<Plain("Field"), 13, "hp">>, <<Plain("Integer"), 15, "thisprogs">>,
               <<Plain("Pointer"), 16, "p">> >>,
        !.fielddefs.rows = << <<Plain("Float"), 0, "mana">>, <<Plain("Float"), 1, "hp">> >>,
        !.entity_fields = 2,
        !.statements.rows = << <<0, 0, 0, 0>>, <<52, 7, 0, 0>>, <<32, 19, 19, 0>>,
                               <<49, 7, 65530, 0>>, <<51, 11, 0, 0>> >>,
        !.functions.rows =
            << NullFunction, <<1, 14, 1, 0, "g", "", 1, <<1>>>>,
               <<2, 14, 0, 0, "init", "", 0, <<0>>>>, <<0, 0, 0, 0, "own", "", 0, <<0>>>>,
               <<1, 19, 2, 0, "far", "", 0, <<0>>>>, <<9, 0, 0, 0, "wild", "", 0, <<0>>>> >>,
        !.bodyless = [ofs |-> 900, count |-> 1, names |-> <<"m">>],
        !.linenums = [ofs |-> 100, rows |-> <<1, 2, 3, 4, 5>>]]

\* A vector field and its components, a hole in the field words, an autocvar.
Vectors ==
    [File EXCEPT
        !.secondary = "Fte32",
        !.globals.rows = Reserved \o <<0, 1, 4, 0, 0>>,
        !.globaldefs.rows =
            << <<Plain("Float"), 7, "x">>, <<Plain("Field"), 8, "org">>,
               <<Plain("Field"), 9, "hp">>, <<Plain("Float"), 10, "autocvar_c">>,
               <<Plain("Function"), 11, "g">> >>,
        !.fielddefs.rows = << <<Plain("Float"), 1, "org_x">>, <<Plain("Vector"), 1, "org">>,
                              <<Plain("Float"), 2, "org_y">>, <<Plain("Float"), 4, "hp">> >>,
        !.entity_fields = 5,
        !.statements.rows = << <<0, 0, 0, 0>>, <<61, 63, 0, 0>> >>,
        !.functions.rows = <<NullFunction>>,
        !.bodyless = [ofs |-> 900, count |-> 1, names |-> <<"g">>]]

Huge == [File EXCEPT !.version = 3, !.entity_fields = 30,
            !.fielddefs.rows = << <<Plain("Float"), "more", 0>> >>]
TooLong == [File EXCEPT !.functions.rows = <<NullFunction, <<0, 0, 0, 0, "toolong", "", 0, <<0>>>>>>]


\* Two field globals of one word, as a vector field and its first component:
\* the add-on's field words 0 and 1 are the VM's 1 and 2.
Doubled ==
    [File EXCEPT
        !.globals.rows = Reserved \o <<0, 0>>,
        !.globaldefs.rows = << <<Plain("Float"), 7, "x">>, <<Plain("Field"), 8, "org">>,
                               <<Plain("Field"), 8, "org_x">> >>,
        !.fielddefs.rows = << <<Plain("Vector"), 0, "org">>, <<Plain("Float"), 0, "org_x">> >>,
        !.entity_fields = 3,
        !.functions.rows = <<NullFunction>>]

MCFileOf == ("main" :> MainFile) @@ ("addon" :> Addon) @@ ("vectors" :> Vectors)
         @@ ("huge" :> Huge) @@ ("too long" :> TooLong) @@ ("doubled" :> Doubled)
=============================================================================
