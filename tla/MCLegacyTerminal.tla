--------------------------- MODULE MCLegacyTerminal -------------------------
(* Values for TLC: the smallest screen that term_new() accepts, parameters  *)
(* at and past both ends, a scrollback that shows two rows.                 *)
EXTENDS LegacyTerminal

MCArgs    == {0, 3, 12}
MCInkCols == {0}
=============================================================================
