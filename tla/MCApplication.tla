---------------------------- MODULE MCApplication ----------------------------
(* Values for TLC: a terminal of two rows and one column, with a strip of   *)
(* the panel below it, and one key of every kind the routing tells apart.   *)
EXTENDS Application

MCDigits     == {"1"}
MCDigitValue == [d \in MCDigits |-> 1]
MCPrintable  == {"a"}
MCBytes      == MCPrintable \cup {"LF", "CR"}
MCPics       == {"blank", "ink", "none"}
MCPicOf      == [b \in MCPrintable |-> "ink"]

MCKeys == {"ShiftL", "H", "Menu", "Enter", "Right"}

MCConfigs == {[limit |-> 3, num |-> 1, den |-> 1, auto |-> TRUE]}
=============================================================================
