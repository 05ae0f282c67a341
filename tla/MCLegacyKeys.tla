----------------------------- MODULE MCLegacyKeys ----------------------------
(* Values for TLC: two terminals on a screen of two rows, no scrollback or  *)
(* one of three rows; of the modifiers Shift, one that acts like it and     *)
(* Lang, which with Shift does something else.                              *)
EXTENDS LegacyKeys

MCName     == {"A1", "A2"}
MCSbChoice == {0, 3}
MCKeypad   == {"Shift", "Sym", "Lang", "End", "ScrollUp", "ScrollDown", "tabkey"}
=============================================================================
