---------------------------- MODULE MCLegacyConfig ---------------------------
(* Values for TLC: three sections, one of them spelt in two ways that hold  *)
(* and in two that fail; keys with and without a letter before the number,  *)
(* which says a type in lower case only, and one with nothing before the =; *)
(* values of one name or more, with a comment, a protected comment sign and *)
(* a quoted one; a row of symbols; a # in a key, and a string with another  *)
(* quote in it, of which the program takes not what they mean.  No file has *)
(* the section dx.                                                          *)
EXTENDS LegacyKeyTable

MCWord == {"settings", "inkeys", "INKEYS", "dx", "k3", "include", "s2", "S2", "2",
           "x", "ROW0", "Home", "Select", "TermHome", "TermEnd"}
MCFold == [w \in MCWord |->
             CASE w = "INKEYS" -> "inkeys" [] w = "S2" -> "s2" [] OTHER -> w]

MCLine ==
  {<<"[", "settings", "]">>, <<"space", "[", "inkeys", "]", "x">>, <<"[", "INKEYS", ";", "]">>,
   <<"[", "k3", "]">>, <<"[", "inkeys", "space", "]">>, <<"[", "inkeys">>,
   <<"include", "space", "=", "x">>,
   <<"2", "space", "=", "space", ";", "x">>,
   <<"space", "s2", "space", "=", "Home", "space", "x", "space", ";", "Home">>,
   <<"S2", "=", "space", "x", "space", "space">>,
   <<"2", "=", "x", "space", "backslash", ";", "space", "Home">>,
   <<"s2", "=", "quote", ";", "quote">>,
   <<"2", "=", "quote", "apostrophe", ";", "quote">>,
   <<"ROW0", "=", "x", "space", "Select", "space", "Home">>,
   <<"x", "space", "#", "space", "=", "Home">>,
   <<"TermEnd", "=", "x">>, <<"TermEnd", "=", "Home">>,
   <<"=", "x">>}

MCSettings    == <<"settings">>
MCKeySections == [k3 \in BOOLEAN |->
                    IF k3 THEN <<<<"inkeys">>, <<"k3">>>> ELSE <<<<"inkeys">>, <<"dx">>>>]

MCCode == [k \in {<<"s2">>, <<"S2">>, <<"2">>, <<"ROW0">>, <<"x", "space", "#">>, <<>>,
                   <<"TermEnd">>} |->
             CASE k = <<"s2">> -> [type |-> KT_SHIFT, code |-> 2]
               [] k = <<"ROW0">> -> [type |-> KT_SYM, code |-> 0]
               [] k = <<"S2">> -> [type |-> 0, code |-> 0]
               [] k = <<"2">>  -> [type |-> 0, code |-> 2]
               [] k = <<>>     -> [type |-> 2, code |-> 0] \* index() again
               [] OTHER        -> [type |-> 0, code |-> 0]]
MCRank == [n \in {<<"x">>, <<"Home">>, <<";">>, <<"quote", ";", "quote">>,
                   <<"quote", "apostrophe">>, <<"Select">>} |->
             CASE n = <<";">> -> 1 [] n = <<"x">> -> 2 [] n = <<"quote", "apostrophe">> -> 3
               [] n = <<"Home">> -> 5 [] n = <<"Select">> -> 6 [] OTHER -> 4]

MCParam   == {"TermEnd", "TermHome"}
MCOwnName == [p \in {"TermHome"} |-> <<"Home">>]
=============================================================================
