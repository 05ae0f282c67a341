------------------------ MODULE MCHelpCommandTracker ------------------------
(* Values for TLC: a command of two letters, a buffer of three, lines of up *)
(* to five characters, so that a line can outgrow the buffer by two and     *)
(* shrink back below it.                                                    *)
EXTENDS HelpCommandTracker

MCChars  == {"h", "p", "[", "1"}
MCFinals == {"h", "p", "["}
MCWord   == <<"h", "p">>
=============================================================================
