-------------------------- MODULE TerminalSession --------------------------
(***************************************************************************)
(* The terminal of myts-ng (terminal/terminal_session.hpp): a grid of      *)
(* cells, a cursor, one dirty flag per row, fed byte by byte through the   *)
(* decoder, and painted row by row on the surface the application shows.   *)
(*                                                                         *)
(* A cell holds the picture of the byte written in it.  Bytes drawn alike  *)
(* are one picture, Blank is the picture of ' ', and NoPic is the content  *)
(* of a cell whose byte has no glyph in the loaded font: draw_char leaves  *)
(* the pixels of such a cell as they were.                                 *)
(***************************************************************************)
EXTENDS AnsiParser, FiniteSets

CONSTANTS
  Rows, Cols,   \* rows_ and cols_, both positive (line 43 replaces others)
  TabWidth,     \* distance of tab stops, 8 in the code
  Bytes,        \* the bytes a run feeds
  Printable,    \* those of them at or above 32
  Pics, Blank, NoPic,
  PicOf         \* the picture of each printable byte

ASSUME SessionAssumption ==
  /\ Rows \in Nat \ {0} /\ Cols \in Nat \ {0} /\ TabWidth \in Nat \ {0}
  /\ MaxParam >= Rows /\ MaxParam >= Cols
  /\ Printable \subseteq Bytes
  /\ PicOf \in [Printable -> Pics]
  /\ Blank \in Pics /\ NoPic \in Pics /\ Blank # NoPic
  /\ {"ESC", "CR", "LF", "BS", "TAB"} \cap Printable = {}

VARIABLES
  term,      \* cells_, cursor_row_, cursor_col_, dirty_rows_
  surface    \* what is painted at each cell: a picture, perhaps inverted

sessionVars == <<parser, term, surface>>

RowIds == 0..(Rows - 1)
ColIds == 0..(Cols - 1)
Pos    == RowIds \X ColIds

\* Index of a position in the flat array cells_; col may be Cols.
Idx(r, c) == r * Cols + c

TermType ==
  [cells : [Pos -> Pics], row : RowIds, col : 0..Cols, dirty : SUBSET RowIds]

SurfaceType == [Pos -> [pic : Pics \ {NoPic}, inv : BOOLEAN]]

EmptySurface == [p \in Pos |-> [pic |-> Blank, inv |-> FALSE]]

FreshTerm ==
  [cells |-> [p \in Pos |-> Blank], row |-> 0, col |-> 0, dirty |-> RowIds]

SessionInit ==
  /\ ParserInit
  /\ term = FreshTerm
  /\ surface = EmptySurface

-----------------------------------------------------------------------------
(* Handlers of the decoder, as functions of the terminal's state.          *)

ScrollUp(t) ==
  IF Rows <= 1 THEN t
  ELSE [t EXCEPT
          !.cells = [p \in Pos |-> IF p[1] < Rows - 1
                                   THEN t.cells[<<p[1] + 1, p[2]>>] ELSE Blank],
          !.dirty = RowIds]

\* Mutants of AdvanceRow: it never scrolls; it scrolls one row early.
AdvanceRowOnly(t) == [t EXCEPT !.row = @ + 1]

AdvanceRowEarly(t) ==
  IF t.row + 2 < Rows THEN [t EXCEPT !.row = @ + 1] ELSE ScrollUp(t)

AdvanceRow(t) ==
  IF t.row + 1 < Rows THEN [t EXCEPT !.row = @ + 1] ELSE ScrollUp(t)

NewLine(t) == [AdvanceRow(t) EXCEPT !.col = 0]

\* Mutant of PutChar: the row is not flagged.
PutCharUnflagged(t, pic) ==
  LET w == IF t.col >= Cols THEN NewLine(t) ELSE t
  IN  [w EXCEPT !.cells[<<w.row, w.col>>] = pic, !.col = @ + 1]

\* A cursor past the last column wraps only when the next byte is printed.
PutChar(t, pic) ==
  LET w == IF t.col >= Cols THEN NewLine(t) ELSE t
  IN  [w EXCEPT !.cells[<<w.row, w.col>>] = pic,
                !.dirty = @ \cup {w.row},
                !.col = @ + 1]

Tab(t) ==
  LET stop == ((t.col + TabWidth) \div TabWidth) * TabWidth
  IN  IF stop >= Cols THEN NewLine(t) ELSE [t EXCEPT !.col = stop]

OnPrintChar(t, b) ==
  CASE b = "CR"       -> [t EXCEPT !.col = 0]
    [] b = "LF"       -> AdvanceRow(t)
    [] b = "BS"       -> [t EXCEPT !.col = IF @ > 0 THEN @ - 1 ELSE 0]
    [] b = "TAB"      -> Tab(t)
    [] b \in Printable -> PutChar(t, PicOf[b])
    [] OTHER          -> t

\* A 1-based coordinate brought into 0 .. n - 1.
Target(x, n) ==
  LET z == IF x > 0 THEN x - 1 ELSE 0 IN IF z >= n THEN n - 1 ELSE z

OnCursorMove(t, x, y) ==
  [t EXCEPT !.row = Target(x, Rows),
            !.col = Target(y, Cols),
            !.dirty = @ \cup {t.row, Target(x, Rows)}]

EraseWhere(t, S) ==
  [p \in Pos |-> IF p \in S THEN Blank ELSE t.cells[p]]

\* The cells ED 1 blanks: cells_[0 .. end_idx], cut at the end of the array.
UpToCursor(t) == {p \in Pos : Idx(p[1], p[2]) <= Idx(t.row, t.col)}
FromCursor(t) == {p \in Pos : Idx(p[1], p[2]) >= Idx(t.row, t.col)}

OnEraseDisplay(t, mode) ==
  CASE mode = 2 -> FreshTerm
    [] mode = 0 -> [t EXCEPT !.cells = EraseWhere(t, FromCursor(t)),
                             !.dirty = @ \cup {r \in RowIds : r >= t.row}]
    [] mode = 1 -> [t EXCEPT !.cells = EraseWhere(t, UpToCursor(t)),
                             !.dirty = @ \cup {r \in RowIds : r <= t.row}]
    [] OTHER    -> t

-----------------------------------------------------------------------------
(* Feeding.  One action per branch of the decoder; a chunk read from the   *)
(* pty is any number of such steps with no painting in between.            *)

Decode(b) ==
  /\ \/ StartEscape(b) \/ Introduce(b) \/ CollectDigit(b) \/ CollectSeparator(b)
  /\ UNCHANGED term

PrintByte(b) ==
  /\ PassToHandler(b)
  /\ term' = OnPrintChar(term, b)

ExecuteCsi(b) ==
  /\ Terminate(b)
  /\ term' = CASE b \in {"H", "f"} -> OnCursorMove(term, parser.a1, parser.a2)
               [] b = "J"          -> OnEraseDisplay(term, parser.a1)
               [] OTHER            -> term

FeedByte(b) == Decode(b) \/ PrintByte(b) \/ ExecuteCsi(b)

-----------------------------------------------------------------------------
(* Painting.                                                               *)

\* TerminalSession::render of the given rows over what s shows already.
Paint(s, t, rows) ==
  [p \in Pos |->
     IF p[1] \in rows /\ t.cells[p] # NoPic
     THEN [pic |-> t.cells[p], inv |-> p = <<t.row, t.col>>]
     ELSE s[p]]

\* Application::render_frame: take_dirty_rows, return when none is dirty.
RenderFrame ==
  /\ term.dirty # {}
  /\ surface' = Paint(surface, term, term.dirty)
  /\ term' = [term EXCEPT !.dirty = {}]
  /\ UNCHANGED parser

\* Mutant of RestoreDisplay: only the flagged rows are painted again.
RestoreFlagged ==
  /\ surface' = Paint(EmptySurface, term, term.dirty)
  /\ term' = [term EXCEPT !.dirty = RowIds]
  /\ UNCHANGED parser

\* Application::restore_terminal_display: wipe, paint every row, and leave
\* the dirty flags mark_all_dirty has raised.
RestoreDisplay ==
  /\ surface' = Paint(EmptySurface, term, RowIds)
  /\ term' = [term EXCEPT !.dirty = RowIds]
  /\ UNCHANGED parser

Feed == \E b \in Bytes : FeedByte(b) /\ UNCHANGED surface

SessionNext == Feed \/ RenderFrame \/ RestoreDisplay

SessionSpec == SessionInit /\ [][SessionNext]_sessionVars

-----------------------------------------------------------------------------
(* Properties.                                                             *)

(* The decoder, the grid and the surface keep their types; in particular   *)
(* the cursor stays in the grid or one column past it, so that the index   *)
(* cursor_row_ * cols_ + cursor_col_ of the next write is in cells_ once   *)
(* on_print_char has wrapped.                                              *)
SessionTypeOK ==
  /\ parser \in ParserType
  /\ term \in TermType
  /\ surface \in SurfaceType

(* What a clean row shows.  take_dirty_rows promises that a row is flagged *)
(* "if any cell in that row changed"; the code keeps this but for one      *)
(* cell: ED 1 with the cursor past the last column blanks the first cell   *)
(* of the row below and flags only the rows up to the cursor's.            *)
StaleAt(p) ==
  /\ p[1] \notin term.dirty
  /\ term.cells[p] # NoPic
  /\ surface[p].pic # term.cells[p]

StaleOnlyBelowWrap ==
  \A p \in Pos : StaleAt(p) => p[2] = 0 /\ term.cells[p] = Blank

(* Output never eats other text.  Printing (wrapping and scrolling         *)
(* included) changes one cell, or moves every row up by one, and then only *)
(* with the cursor on the last row, and changes one cell of the last row.  *)
SameExcept(f, g, p) == \A q \in Pos \ {p} : f[q] = g[q]

KeepsText ==
  \E p \in Pos :
    \/ SameExcept(term'.cells, term.cells, p)
    \/ /\ term.row = Rows - 1
       /\ p[1] = Rows - 1
       /\ SameExcept(term'.cells, ScrollUp(term).cells, p)

PrintKeepsText ==
  [][(parser.state = "Ground" /\ parser'.state = "Ground") => KeepsText]_sessionVars
=============================================================================
