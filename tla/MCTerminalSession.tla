-------------------------- MODULE MCTerminalSession --------------------------
(* Values for TLC: a grid of two rows and two columns, tab stops two apart. *)
EXTENDS TerminalSession

MCDigits     == {"1", "2"}
MCDigitValue == [d \in MCDigits |-> IF d = "1" THEN 1 ELSE 2]
MCPrintable  == {"a", " ", "[", ";", "1", "2", "H", "J"}
MCBytes      == MCPrintable \cup {"ESC", "CR", "LF", "BS", "TAB", "BEL"}
MCPics       == {"blank", "ink", "none"}

\* Syntax bytes that leak into the text are drawn like the letter.
MCPicOf == [b \in MCPrintable |-> IF b = " " THEN "blank" ELSE "ink"]
=============================================================================
