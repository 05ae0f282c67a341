------------------------- MODULE Application_proofs -------------------------
(***************************************************************************)
(* The terminal of myts-ng for every size of grid, every font and every    *)
(* stream of bytes: each handler is a function of the terminal, so the     *)
(* proof is one lemma per handler: it keeps the type, and a row whose      *)
(* cells it changes is flagged, but for the cell ED 1 may blank below a    *)
(* pending wrap.  Then, for every size of panel and every sequence of      *)
(* keys, what the application shows and where its keys go: the panel is    *)
(* the canvas, the canvas is the help screen or the terminal, and a key    *)
(* acts once.                                                              *)
(***************************************************************************)
EXTENDS Application, SequenceLemmas

\* A handler that turns t into u owes the surface nothing new.
Flagged(t, u) ==
  /\ t.dirty \subseteq u.dirty
  /\ \A p \in Pos : p[1] \notin u.dirty =>
       \/ u.cells[p] = t.cells[p]
       \/ p[2] = 0 /\ u.cells[p] = Blank

Handled(t, u) == u \in TermType /\ Flagged(t, u)

-----------------------------------------------------------------------------
(* Arithmetic of the flat index.                                           *)

LEMMA ProductMonotone ==
  ASSUME NEW a \in Nat, NEW b \in Nat, NEW c \in Nat, a <= b
  PROVE  a * c \in Nat /\ b * c \in Nat /\ a * c <= b * c
<1>1. PICK d \in Nat : b = a + d
  <2> WITNESS b - a \in Nat
  <2> QED OBVIOUS
<1>2. d * c \in Nat /\ b * c = a * c + d * c
  BY <1>1
<1> QED
  BY <1>2

(* A cell at or before the cursor is in the cursor's row or above, or it   *)
(* is the first cell of the row below.                                     *)
LEMMA UpToCursorRows ==
  ASSUME NEW r \in Nat, NEW c \in Nat, NEW row \in Nat, NEW col \in Nat,
         Cols \in Nat \ {0}, col <= Cols, Idx(r, c) <= Idx(row, col)
  PROVE  r <= row \/ c = 0
<1> SUFFICES ASSUME row + 1 <= r PROVE c = 0
  OBVIOUS
<1>1. (row + 1) * Cols <= r * Cols /\ r * Cols \in Nat /\ row * Cols \in Nat
  BY ProductMonotone
<1>2. (row + 1) * Cols = row * Cols + Cols
  OBVIOUS
<1> QED
  BY <1>1, <1>2 DEF Idx

(* A cell at or after the cursor is in the cursor's row or below.          *)
LEMMA FromCursorRows ==
  ASSUME NEW r \in Nat, NEW c \in Nat, NEW row \in Nat, NEW col \in Nat,
         Cols \in Nat \ {0}, c < Cols, Idx(r, c) >= Idx(row, col)
  PROVE  r >= row
<1> SUFFICES ASSUME r + 1 <= row PROVE FALSE
  OBVIOUS
<1>1. (r + 1) * Cols <= row * Cols /\ r * Cols \in Nat /\ row * Cols \in Nat
  BY ProductMonotone
<1>2. (r + 1) * Cols = r * Cols + Cols
  OBVIOUS
<1> QED
  BY <1>1, <1>2 DEF Idx

LEMMA TabStop ==
  ASSUME NEW col \in Nat, NEW w \in Nat \ {0}
  PROVE  ((col + w) \div w) * w \in Nat
<1>1. (col + w) \div w \in Nat
  OBVIOUS
<1> QED
  BY <1>1

-----------------------------------------------------------------------------
(* The handlers of the decoder.                                            *)

LEMMA GridFacts ==
  /\ Rows \in Nat \ {0} /\ Cols \in Nat \ {0} /\ TabWidth \in Nat \ {0}
  /\ MaxParam \in Nat
  /\ Blank \in Pics
  /\ 0 \in RowIds /\ 0 \in ColIds /\ 0 \in 0..Cols
  /\ \A p \in Pos : p[1] \in RowIds /\ p[2] \in ColIds
<1>1. /\ Rows \in Nat \ {0} /\ Cols \in Nat \ {0} /\ TabWidth \in Nat \ {0}
      /\ MaxParam \in Nat /\ Blank \in Pics
  BY SessionAssumption, ParserAssumption
<1>2. 0 \in RowIds /\ 0 \in ColIds /\ 0 \in 0..Cols
  BY <1>1 DEF RowIds, ColIds
<1>3. \A p \in Pos : p[1] \in RowIds /\ p[2] \in ColIds
  BY DEF Pos
<1> QED
  BY <1>1, <1>2, <1>3

LEMMA TermFields ==
  ASSUME NEW t \in TermType
  PROVE  /\ t.cells \in [Pos -> Pics] /\ t.row \in RowIds /\ t.col \in 0..Cols
         /\ t.dirty \in SUBSET RowIds
         /\ t.row \in Nat /\ t.col \in Nat
  BY GridFacts DEF TermType, RowIds

LEMMA UnchangedHandled ==
  ASSUME NEW t \in TermType PROVE Handled(t, t)
  BY DEF Handled, Flagged

LEMMA HandledTransitive ==
  ASSUME NEW t, NEW u, NEW v, Handled(t, u), Handled(u, v)
  PROVE  Handled(t, v)
  BY DEF Handled, Flagged

\* Moving the cursor inside the grid changes no cell.
LEMMA MoveHandled ==
  ASSUME NEW t \in TermType, NEW r \in RowIds, NEW c \in 0..Cols
  PROVE  Handled(t, [t EXCEPT !.row = r, !.col = c])
  BY DEF Handled, Flagged, TermType

LEMMA ScrollUpHandled ==
  ASSUME NEW t \in TermType PROVE Handled(t, ScrollUp(t))
<1>1. CASE Rows <= 1
  BY <1>1, UnchangedHandled DEF ScrollUp
<1>2. CASE Rows > 1
  <2> DEFINE f == [p \in Pos |-> IF p[1] < Rows - 1
                                 THEN t.cells[<<p[1] + 1, p[2]>>] ELSE Blank]
  <2>1. ScrollUp(t) = [t EXCEPT !.cells = f, !.dirty = RowIds]
    BY <1>2, GridFacts DEF ScrollUp
  <2>2. ASSUME NEW p \in Pos, p[1] < Rows - 1 PROVE <<p[1] + 1, p[2]>> \in Pos
    BY <2>2, GridFacts DEF Pos, RowIds
  <2>3. f \in [Pos -> Pics]
    BY <2>2, GridFacts, TermFields
  <2> HIDE DEF f
  <2> QED
    BY <2>1, <2>3, GridFacts DEF Handled, Flagged, TermType
<1> QED
  BY <1>1, <1>2, GridFacts

LEMMA AdvanceRowHandled ==
  ASSUME NEW t \in TermType PROVE Handled(t, AdvanceRow(t))
<1>1. CASE t.row + 1 < Rows
  <2>1. t.row + 1 \in RowIds
    BY <1>1, TermFields, GridFacts DEF RowIds
  <2>2. AdvanceRow(t) = [t EXCEPT !.row = t.row + 1, !.col = t.col]
    BY <1>1 DEF AdvanceRow, TermType
  <2>3. t.col \in 0..Cols
    BY TermFields
  <2>4. Handled(t, [t EXCEPT !.row = t.row + 1, !.col = t.col])
    BY <2>1, <2>3, MoveHandled
  <2> QED
    BY <2>2, <2>4
<1>2. CASE ~(t.row + 1 < Rows)
  BY <1>2, ScrollUpHandled DEF AdvanceRow
<1> QED
  BY <1>1, <1>2

LEMMA NewLineHandled ==
  ASSUME NEW t \in TermType PROVE Handled(t, NewLine(t))
<1> DEFINE u == AdvanceRow(t)
<1>1. Handled(t, u) /\ u \in TermType
  BY AdvanceRowHandled DEF Handled
<1>2. NewLine(t) = [u EXCEPT !.row = u.row, !.col = 0]
  BY <1>1 DEF NewLine, TermType
<1>3. Handled(u, NewLine(t))
  <2> HIDE DEF u
  <2>1. u.row \in RowIds /\ 0 \in 0..Cols
    BY <1>1, TermFields, GridFacts
  <2>2. Handled(u, [u EXCEPT !.row = u.row, !.col = 0])
    BY <1>1, <2>1, MoveHandled
  <2> QED
    BY <1>2, <2>2
<1> QED
  BY <1>1, <1>3, HandledTransitive

LEMMA PutCharHandled ==
  ASSUME NEW t \in TermType, NEW pic \in Pics
  PROVE  Handled(t, PutChar(t, pic))
<1> DEFINE w == IF t.col >= Cols THEN NewLine(t) ELSE t
           q == <<w.row, w.col>>
           u == [w EXCEPT !.cells[q] = pic, !.dirty = @ \cup {w.row}, !.col = @ + 1]
<1>1. Handled(t, w) /\ w \in TermType
  BY NewLineHandled, UnchangedHandled DEF Handled
<1>2. w.col < Cols
  <2>1. CASE t.col >= Cols
    <3>1. AdvanceRow(t) \in TermType
      BY AdvanceRowHandled DEF Handled
    <3>2. NewLine(t).col = 0
      BY <3>1 DEF NewLine, TermType
    <3> QED
      BY <2>1, <3>2, GridFacts
  <2>2. CASE ~(t.col >= Cols)
    BY <2>2, TermFields, GridFacts
  <2> QED
    BY <2>1, <2>2
<1>3. PutChar(t, pic) = u
  BY DEF PutChar
<1> HIDE DEF w
<1>4. /\ w.cells \in [Pos -> Pics] /\ w.row \in RowIds /\ w.col \in 0..Cols
      /\ w.dirty \in SUBSET RowIds
  BY <1>1, TermFields
<1>5. q \in Pos /\ w.col + 1 \in 0..Cols
  BY <1>2, <1>4, GridFacts DEF Pos, ColIds
<1>6. u = [cells |-> [w.cells EXCEPT ![q] = pic], row |-> w.row,
           col |-> w.col + 1, dirty |-> w.dirty \cup {w.row}]
  <2>1. w = [cells |-> w.cells, row |-> w.row, col |-> w.col, dirty |-> w.dirty]
    BY <1>1 DEF TermType
  <2>2. u = [w EXCEPT !.cells = [w.cells EXCEPT ![q] = pic],
                      !.dirty = w.dirty \cup {w.row}, !.col = w.col + 1]
    OBVIOUS
  <2> HIDE DEF q, u
  <2> QED
    BY <2>1, <2>2
<1>7. u \in TermType
  BY <1>4, <1>5, <1>6 DEF TermType
<1>8. Flagged(w, u)
  <2> SUFFICES ASSUME NEW p \in Pos, p[1] \notin u.dirty
               PROVE  u.cells[p] = w.cells[p]
    BY <1>6 DEF Flagged
  <2>1. p # q
    BY <1>6
  <2> QED
    BY <1>4, <1>6, <2>1
<1> QED
  BY <1>1, <1>3, <1>7, <1>8, HandledTransitive DEF Handled

LEMMA TabHandled ==
  ASSUME NEW t \in TermType PROVE Handled(t, Tab(t))
<1> DEFINE stop == ((t.col + TabWidth) \div TabWidth) * TabWidth
<1>1. stop \in Nat
  BY TabStop, TermFields, GridFacts
<1>2. Tab(t) = IF stop >= Cols THEN NewLine(t) ELSE [t EXCEPT !.col = stop]
  BY DEF Tab
<1> HIDE DEF stop
<1>3. CASE stop >= Cols
  BY <1>2, <1>3, NewLineHandled
<1>4. CASE ~(stop >= Cols)
  <2>1. stop \in 0..Cols /\ t.row \in RowIds
    BY <1>1, <1>4, GridFacts, TermFields
  <2>2. Handled(t, [t EXCEPT !.row = t.row, !.col = stop])
    BY <2>1, MoveHandled
  <2>3. [t EXCEPT !.row = t.row, !.col = stop] = [t EXCEPT !.col = stop]
    BY DEF TermType
  <2> QED
    BY <1>2, <1>4, <2>2, <2>3
<1> QED
  BY <1>3, <1>4

LEMMA OnPrintCharHandled ==
  ASSUME NEW t \in TermType, NEW b PROVE Handled(t, OnPrintChar(t, b))
<1>1. \A c \in 0..Cols : Handled(t, [t EXCEPT !.col = c])
  <2> TAKE c \in 0..Cols
  <2>1. Handled(t, [t EXCEPT !.row = t.row, !.col = c])
    BY TermFields, MoveHandled
  <2>2. [t EXCEPT !.row = t.row, !.col = c] = [t EXCEPT !.col = c]
    BY DEF TermType
  <2> QED
    BY <2>1, <2>2
<1>2. (IF t.col > 0 THEN t.col - 1 ELSE 0) \in 0..Cols
  BY TermFields, GridFacts
<1>3. b \in Printable => PicOf[b] \in Pics
  BY SessionAssumption
<1> QED
  BY <1>1, <1>2, <1>3, GridFacts, AdvanceRowHandled, TabHandled, PutCharHandled,
     UnchangedHandled DEF OnPrintChar

LEMMA TargetInRange ==
  ASSUME NEW x \in Nat, NEW n \in Nat \ {0}
  PROVE  Target(x, n) \in 0..(n - 1)
  BY DEF Target

LEMMA OnCursorMoveHandled ==
  ASSUME NEW t \in TermType, NEW x \in Nat, NEW y \in Nat
  PROVE  Handled(t, OnCursorMove(t, x, y))
<1>1. Target(x, Rows) \in RowIds /\ Target(y, Cols) \in 0..Cols
  <2>1. Target(x, Rows) \in 0..(Rows - 1) /\ Target(y, Cols) \in 0..(Cols - 1)
    BY TargetInRange, GridFacts
  <2> QED
    BY <2>1, GridFacts DEF RowIds
<1> QED
  BY <1>1, TermFields DEF OnCursorMove, Handled, Flagged, TermType

LEMMA EraseWhereType ==
  ASSUME NEW t \in TermType, NEW S
  PROVE  /\ EraseWhere(t, S) \in [Pos -> Pics]
         /\ \A p \in Pos : EraseWhere(t, S)[p] = IF p \in S THEN Blank ELSE t.cells[p]
  BY TermFields, GridFacts DEF EraseWhere

\* The rows of the cells each mode of ED blanks.
LEMMA ErasedRows ==
  ASSUME NEW t \in TermType, NEW p \in Pos
  PROVE  /\ p \in UpToCursor(t) => p[1] <= t.row \/ p[2] = 0
         /\ p \in FromCursor(t) => p[1] >= t.row
<1>1. /\ p[1] \in Nat /\ p[2] \in Nat /\ p[2] < Cols
      /\ t.row \in Nat /\ t.col \in Nat /\ t.col <= Cols
      /\ Cols \in Nat \ {0}
  BY TermFields, GridFacts DEF RowIds, ColIds
<1>2. p \in UpToCursor(t) => p[1] <= t.row \/ p[2] = 0
  BY <1>1, UpToCursorRows DEF UpToCursor
<1>3. p \in FromCursor(t) => p[1] >= t.row
  BY <1>1, FromCursorRows DEF FromCursor
<1> QED
  BY <1>2, <1>3

LEMMA FreshTermHandled ==
  ASSUME NEW t \in TermType PROVE Handled(t, FreshTerm)
  BY GridFacts, TermFields DEF Handled, Flagged, FreshTerm, TermType

LEMMA OnEraseDisplayHandled ==
  ASSUME NEW t \in TermType, NEW mode
  PROVE  Handled(t, OnEraseDisplay(t, mode))
<1> DEFINE Erased(S, R) ==
      [t EXCEPT !.cells = EraseWhere(t, S), !.dirty = t.dirty \cup R]
<1>1. ASSUME NEW S, NEW R \in SUBSET RowIds,
             \A p \in Pos : p \in S => p[1] \in R \/ p[2] = 0
      PROVE  Handled(t, Erased(S, R))
  <2>1. Erased(S, R) = [cells |-> EraseWhere(t, S), row |-> t.row, col |-> t.col,
                        dirty |-> t.dirty \cup R]
    <3>1. t = [cells |-> t.cells, row |-> t.row, col |-> t.col, dirty |-> t.dirty]
      BY DEF TermType
    <3> DEFINE c == EraseWhere(t, S)
               d == t.dirty \cup R
    <3>2. Erased(S, R) = [t EXCEPT !.cells = c, !.dirty = d]
      OBVIOUS
    <3> HIDE DEF c, d, Erased
    <3>3. Erased(S, R) = [cells |-> c, row |-> t.row, col |-> t.col, dirty |-> d]
      BY <3>1, <3>2
    <3> QED
      BY <3>3 DEF c, d
  <2>2. Erased(S, R) \in TermType
    BY <2>1, EraseWhereType, TermFields DEF TermType
  <2>3. Flagged(t, Erased(S, R))
    BY <1>1, <2>1, EraseWhereType DEF Flagged
  <2> QED
    BY <2>2, <2>3 DEF Handled
<1>2. CASE mode = 2
  BY <1>2, FreshTermHandled DEF OnEraseDisplay
<1>3. CASE mode = 0
  <2> DEFINE R == {r \in RowIds : r >= t.row}
  <2>1. \A p \in Pos : p \in FromCursor(t) => p[1] \in R \/ p[2] = 0
    BY ErasedRows, GridFacts
  <2>2. Handled(t, Erased(FromCursor(t), R))
    BY <1>1, <2>1
  <2> QED
    BY <1>3, <2>2 DEF OnEraseDisplay
<1>4. CASE mode = 1
  <2> DEFINE R == {r \in RowIds : r <= t.row}
  <2>1. \A p \in Pos : p \in UpToCursor(t) => p[1] \in R \/ p[2] = 0
    BY ErasedRows, GridFacts
  <2>2. Handled(t, Erased(UpToCursor(t), R))
    BY <1>1, <2>1
  <2> QED
    BY <1>4, <2>2 DEF OnEraseDisplay
<1>5. CASE mode \notin {0, 1, 2}
  BY <1>5, UnchangedHandled DEF OnEraseDisplay
<1> QED
  BY <1>2, <1>3, <1>4, <1>5

-----------------------------------------------------------------------------
(* Feeding and painting.                                                   *)

LEMMA PaintType ==
  ASSUME NEW s \in SurfaceType, NEW t \in TermType, NEW rows
  PROVE  /\ Paint(s, t, rows) \in SurfaceType
         /\ \A p \in Pos : p[1] \in rows /\ t.cells[p] # NoPic
                             => Paint(s, t, rows)[p].pic = t.cells[p]
         /\ \A p \in Pos : p[1] \notin rows => Paint(s, t, rows)[p] = s[p]
<1> DEFINE v(p) == IF p[1] \in rows /\ t.cells[p] # NoPic
                   THEN [pic |-> t.cells[p], inv |-> p = <<t.row, t.col>>]
                   ELSE s[p]
<1>1. Paint(s, t, rows) = [p \in Pos |-> v(p)]
  BY DEF Paint
<1>2. \A p \in Pos : v(p) \in [pic : Pics \ {NoPic}, inv : BOOLEAN]
  BY TermFields DEF SurfaceType
<1> QED
  BY <1>1, <1>2 DEF SurfaceType

LEMMA EmptySurfaceType == EmptySurface \in SurfaceType
  BY SessionAssumption DEF EmptySurface, SurfaceType

LEMMA ParserFields ==
  ASSUME parser \in ParserType
  PROVE  /\ parser.state \in ParserStates
         /\ parser.a1 \in 0..MaxParam /\ parser.a2 \in 0..MaxParam
         /\ parser.seps \in 0..2
         /\ parser.a1 \in Nat /\ parser.a2 \in Nat
<1>1. /\ parser.state \in ParserStates
      /\ parser.a1 \in 0..MaxParam /\ parser.a2 \in 0..MaxParam
      /\ parser.seps \in 0..2
  BY DEF ParserType
<1> QED
  BY <1>1, GridFacts

LEMMA IdleType == Idle \in ParserType /\ [Idle EXCEPT !.state = "Csi"] \in ParserType
<1>1. 0 \in 0..MaxParam /\ 0 \in 0..2
  BY GridFacts
<1> QED
  BY <1>1 DEF Idle, ParserType, ParserStates

LEMMA AddDigitType ==
  ASSUME NEW n \in 0..MaxParam, NEW b \in Digits
  PROVE  AddDigit(n, b) \in 0..MaxParam
<1>1. DigitValue[b] \in 0..9 /\ MaxParam \in Nat
  BY ParserAssumption
<1> QED
  BY <1>1 DEF AddDigit

LEMMA DecodeType ==
  ASSUME parser \in ParserType, NEW b, Decode(b) \/ PassToHandler(b) \/ Terminate(b)
  PROVE  parser' \in ParserType
<1> USE ParserFields
<1>1. ASSUME StartEscape(b) PROVE parser' \in ParserType
  BY <1>1 DEF StartEscape, ParserType, ParserStates
<1>2. ASSUME Introduce(b) PROVE parser' \in ParserType
  BY <1>2, IdleType DEF Introduce
<1>3. ASSUME CollectDigit(b) PROVE parser' \in ParserType
  <2>1. AddDigit(parser.a1, b) \in 0..MaxParam /\ AddDigit(parser.a2, b) \in 0..MaxParam
    BY <1>3, AddDigitType DEF CollectDigit
  <2> QED
    BY <1>3, <2>1 DEF CollectDigit, ParserType
<1>4. ASSUME CollectSeparator(b) PROVE parser' \in ParserType
  <2>1. (IF parser.seps < 2 THEN parser.seps + 1 ELSE 2) \in 0..2
    OBVIOUS
  <2> QED
    BY <1>4, <2>1 DEF CollectSeparator, ParserType
<1>5. ASSUME PassToHandler(b) PROVE parser' \in ParserType
  BY <1>5 DEF PassToHandler
<1>6. ASSUME Terminate(b) PROVE parser' \in ParserType
  BY <1>6, IdleType DEF Terminate
<1> QED
  BY <1>1, <1>2, <1>3, <1>4, <1>5, <1>6 DEF Decode

-----------------------------------------------------------------------------
(* The invariant.                                                          *)

SessionInv == SessionTypeOK /\ StaleOnlyBelowWrap

LEMMA SessionInitInv == SessionInit => SessionInv
<1> SUFFICES ASSUME SessionInit PROVE SessionInv
  OBVIOUS
<1>1. parser \in ParserType /\ surface \in SurfaceType
  BY IdleType, EmptySurfaceType DEF SessionInit, ParserInit
<1>2. term = FreshTerm /\ term \in TermType /\ term.dirty = RowIds
  BY GridFacts DEF SessionInit, FreshTerm, TermType
<1>3. StaleOnlyBelowWrap
  BY <1>2, GridFacts DEF StaleOnlyBelowWrap, StaleAt
<1> QED
  BY <1>1, <1>2, <1>3 DEF SessionInv, SessionTypeOK

\* A handler keeps the invariant while nothing is painted.
LEMMA HandledKeepsStale ==
  ASSUME StaleOnlyBelowWrap, Handled(term, term'), UNCHANGED surface
  PROVE  StaleOnlyBelowWrap'
  BY DEF StaleOnlyBelowWrap, StaleAt, Handled, Flagged

\* Feeding a byte keeps the types and owes the surface nothing new.
LEMMA FeedHandled ==
  ASSUME parser \in ParserType, term \in TermType, NEW b, FeedByte(b)
  PROVE  parser' \in ParserType /\ Handled(term, term')
<1>1. parser' \in ParserType
  BY DecodeType DEF FeedByte, PrintByte, ExecuteCsi
<1>2. CASE Decode(b)
  BY <1>1, <1>2, UnchangedHandled DEF Decode
<1>3. CASE PrintByte(b)
  BY <1>1, <1>3, OnPrintCharHandled DEF PrintByte
<1>4. CASE ExecuteCsi(b)
  BY <1>1, <1>4, ParserFields, OnCursorMoveHandled, OnEraseDisplayHandled,
     UnchangedHandled DEF ExecuteCsi
<1> QED
  BY <1>2, <1>3, <1>4 DEF FeedByte

LEMMA FeedInv ==
  ASSUME SessionInv, NEW b, FeedByte(b), UNCHANGED surface
  PROVE  SessionInv'
<1>1. parser \in ParserType /\ term \in TermType /\ surface \in SurfaceType
  BY DEF SessionInv, SessionTypeOK
<1>2. parser' \in ParserType /\ Handled(term, term')
  BY <1>1, FeedHandled
<1>3. term' \in TermType
  BY <1>2 DEF Handled
<1>4. StaleOnlyBelowWrap'
  BY <1>2, HandledKeepsStale DEF SessionInv
<1> QED
  BY <1>1, <1>2, <1>3, <1>4 DEF SessionInv, SessionTypeOK

LEMMA RenderFrameInv ==
  ASSUME SessionInv, RenderFrame PROVE SessionInv'
<1>1. parser \in ParserType /\ term \in TermType /\ surface \in SurfaceType
  BY DEF SessionInv, SessionTypeOK
<1>2. /\ surface' = Paint(surface, term, term.dirty)
      /\ term' = [term EXCEPT !.dirty = {}]
      /\ parser' = parser
  BY DEF RenderFrame
<1>3. term' \in TermType /\ term'.cells = term.cells
  BY <1>1, <1>2 DEF TermType
<1>4. StaleOnlyBelowWrap'
  <2> SUFFICES ASSUME NEW p \in Pos, StaleAt(p)'
               PROVE  p[2] = 0 /\ term.cells[p] = Blank
    BY <1>3 DEF StaleOnlyBelowWrap
  <2>1. term.cells[p] # NoPic /\ surface'[p].pic # term.cells[p]
    BY <1>3 DEF StaleAt
  <2>2. p[1] \notin term.dirty
    BY <1>1, <1>2, <2>1, PaintType
  <2>3. surface'[p] = surface[p]
    BY <1>1, <1>2, <2>2, PaintType
  <2> QED
    BY <2>1, <2>2, <2>3 DEF SessionInv, StaleOnlyBelowWrap, StaleAt
<1> QED
  BY <1>1, <1>2, <1>3, <1>4, PaintType DEF SessionInv, SessionTypeOK

LEMMA RestoreDisplayInv ==
  ASSUME SessionInv, RestoreDisplay PROVE SessionInv'
<1>1. parser \in ParserType /\ term \in TermType
  BY DEF SessionInv, SessionTypeOK
<1>2. /\ surface' = Paint(EmptySurface, term, RowIds)
      /\ term' = [term EXCEPT !.dirty = RowIds]
      /\ parser' = parser
  BY DEF RestoreDisplay
<1>3. term' \in TermType /\ term'.dirty = RowIds
  BY <1>1, <1>2 DEF TermType
<1>4. StaleOnlyBelowWrap'
  BY <1>3, GridFacts DEF StaleOnlyBelowWrap, StaleAt
<1> QED
  BY <1>1, <1>2, <1>3, <1>4, PaintType, EmptySurfaceType DEF SessionInv, SessionTypeOK

LEMMA SessionStepInv == SessionInv /\ [SessionNext]_sessionVars => SessionInv'
<1> SUFFICES ASSUME SessionInv, [SessionNext]_sessionVars PROVE SessionInv'
  OBVIOUS
<1>1. CASE Feed
  BY <1>1, FeedInv DEF Feed
<1>2. CASE RenderFrame
  BY <1>2, RenderFrameInv
<1>3. CASE RestoreDisplay
  BY <1>3, RestoreDisplayInv
<1>4. CASE UNCHANGED sessionVars
  BY <1>4 DEF sessionVars, SessionInv, SessionTypeOK, StaleOnlyBelowWrap, StaleAt
<1> QED
  BY <1>1, <1>2, <1>3, <1>4 DEF SessionNext

(* The two invariants hold together of every execution.                    *)
THEOREM SessionInvariant == SessionSpec => []SessionInv
  BY SessionInitInv, SessionStepInv, PTL DEF SessionSpec

(* The cursor never leaves the grid by more than the pending column, the   *)
(* decoder's parameters stay bounded, and every cell is painted or blank,  *)
(* whatever bytes arrive.                                                  *)
THEOREM SessionTypeCorrect == SessionSpec => []SessionTypeOK
  BY SessionInvariant, PTL DEF SessionInv

(* A row that is not flagged shows its cells, except for the one cell ED 1 *)
(* blanks below a pending wrap.                                            *)
THEOREM CleanRowsAreShown == SessionSpec => []StaleOnlyBelowWrap
  BY SessionInvariant, PTL DEF SessionInv

-----------------------------------------------------------------------------
(* Printing keeps the text.                                                *)

\* The cells of u are those of t, or those of t moved up by one row.
Moved(t, u) ==
  \/ u.cells = t.cells
  \/ t.row = Rows - 1 /\ u.row = Rows - 1 /\ u.cells = ScrollUp(t).cells

Kept(t, u) ==
  \E p \in Pos :
    \/ SameExcept(u.cells, t.cells, p)
    \/ /\ t.row = Rows - 1 /\ p[1] = Rows - 1
       /\ SameExcept(u.cells, ScrollUp(t).cells, p)

LEMMA MovedIsKept ==
  ASSUME NEW t, NEW u, Moved(t, u) PROVE Kept(t, u)
<1> DEFINE p == <<Rows - 1, 0>>
<1>1. p \in Pos /\ p[1] = Rows - 1
  BY GridFacts DEF Pos, RowIds
<1>2. SameExcept(u.cells, t.cells, p)
        \/ (t.row = Rows - 1 /\ SameExcept(u.cells, ScrollUp(t).cells, p))
  BY DEF Moved, SameExcept
<1> HIDE DEF p
<1> QED
  BY <1>1, <1>2 DEF Kept

LEMMA NewLineMoves ==
  ASSUME NEW t \in TermType
  PROVE  Moved(t, AdvanceRow(t)) /\ Moved(t, NewLine(t)) /\ NewLine(t).col = 0
<1> DEFINE u == AdvanceRow(t)
<1>1. u \in TermType
  BY AdvanceRowHandled DEF Handled
<1>2. Moved(t, u)
  <2>1. CASE t.row + 1 < Rows
    <3>1. u = [t EXCEPT !.row = t.row + 1]
      BY <2>1 DEF AdvanceRow
    <3>2. u.cells = t.cells
      BY <3>1 DEF TermType
    <3> QED
      BY <3>2 DEF Moved
  <2>2. CASE ~(t.row + 1 < Rows)
    <3>1. t.row = Rows - 1
      BY <2>2, TermFields, GridFacts DEF RowIds
    <3>2. u = ScrollUp(t)
      BY <2>2 DEF AdvanceRow
    <3>3. ScrollUp(t).row = t.row
      BY DEF ScrollUp, TermType
    <3> HIDE DEF u
    <3> QED
      BY <3>1, <3>2, <3>3 DEF Moved
  <2> QED
    BY <2>1, <2>2
<1>3. NewLine(t).cells = u.cells /\ NewLine(t).row = u.row /\ NewLine(t).col = 0
  BY <1>1 DEF NewLine, TermType
<1> HIDE DEF u
<1>4. Moved(t, NewLine(t))
  BY <1>2, <1>3 DEF Moved
<1> QED
  BY <1>2, <1>3, <1>4 DEF u

LEMMA PutCharKeeps ==
  ASSUME NEW t \in TermType, NEW pic \in Pics PROVE Kept(t, PutChar(t, pic))
<1> DEFINE w == IF t.col >= Cols THEN NewLine(t) ELSE t
           q == <<w.row, w.col>>
           u == [w EXCEPT !.cells[q] = pic, !.dirty = @ \cup {w.row}, !.col = @ + 1]
<1>1. w \in TermType /\ Moved(t, w)
  BY NewLineHandled, NewLineMoves DEF Handled, Moved
<1>2. PutChar(t, pic) = u
  BY DEF PutChar
<1>3. w.col < Cols
  <2>1. t.col >= Cols => w.col = 0
    BY NewLineMoves
  <2> QED
    BY <2>1, TermFields, GridFacts
<1> HIDE DEF w
<1>4. q \in Pos /\ q[1] = w.row
  BY <1>1, <1>3, TermFields, GridFacts DEF Pos, ColIds
<1>5. u.cells = [w.cells EXCEPT ![q] = pic]
  BY <1>1 DEF TermType
<1>6. SameExcept(u.cells, w.cells, q)
  <2>1. w.cells \in [Pos -> Pics]
    BY <1>1, TermFields
  <2> HIDE DEF q, u
  <2> QED
    BY <1>5, <2>1 DEF SameExcept
<1> HIDE DEF q, u
<1>7. CASE w.cells = t.cells
  BY <1>2, <1>4, <1>6, <1>7 DEF Kept
<1>8. CASE t.row = Rows - 1 /\ w.row = Rows - 1 /\ w.cells = ScrollUp(t).cells
  BY <1>2, <1>4, <1>6, <1>8 DEF Kept
<1> QED
  BY <1>1, <1>7, <1>8 DEF Moved

LEMMA PrintKeeps ==
  ASSUME NEW t \in TermType, NEW b PROVE Kept(t, OnPrintChar(t, b))
<1>1. \A c : Moved(t, [t EXCEPT !.col = c])
  BY DEF Moved, TermType
<1>2. Moved(t, t)
  BY DEF Moved
<1>3. Moved(t, Tab(t))
  BY <1>1, NewLineMoves DEF Tab
<1>4. CASE b \in {"CR", "LF", "BS", "TAB"}
  <2>1. Moved(t, OnPrintChar(t, b))
    <3>0. b \notin Printable
      BY <1>4, SessionAssumption
    <3>1. CASE b = "CR"
      BY <1>1, <3>0, <3>1 DEF OnPrintChar
    <3>2. CASE b = "LF"
      BY <3>0, <3>2, NewLineMoves DEF OnPrintChar
    <3>3. CASE b = "BS"
      <4> DEFINE c == IF t.col > 0 THEN t.col - 1 ELSE 0
      <4>1. OnPrintChar(t, b) = [t EXCEPT !.col = c]
        BY <3>0, <3>3 DEF OnPrintChar
      <4> HIDE DEF c
      <4> QED
        BY <1>1, <4>1
    <3>4. CASE b = "TAB"
      BY <1>3, <3>0, <3>4 DEF OnPrintChar
    <3> QED
      BY <1>4, <3>1, <3>2, <3>3, <3>4
  <2> QED
    BY <2>1, MovedIsKept
<1>5. CASE b \notin {"CR", "LF", "BS", "TAB"} /\ b \in Printable
  BY <1>5, PutCharKeeps, SessionAssumption DEF OnPrintChar
<1>6. CASE b \notin {"CR", "LF", "BS", "TAB"} /\ b \notin Printable
  BY <1>2, <1>6, MovedIsKept DEF OnPrintChar
<1> QED
  BY <1>4, <1>5, <1>6

(* Printing, wrapping and scrolling never change the text of another cell. *)
THEOREM PrintAlwaysKeepsText == SessionSpec => PrintKeepsText
<1> DEFINE Printed == parser.state = "Ground" /\ parser'.state = "Ground"
<1>1. SessionInv /\ [SessionNext]_sessionVars => [Printed => KeepsText]_sessionVars
  <2> SUFFICES ASSUME SessionInv, SessionNext, Printed PROVE KeepsText
    OBVIOUS
  <2>1. term \in TermType
    BY DEF SessionInv, SessionTypeOK
  <2>2. Kept(term, term') => KeepsText
    BY DEF Kept, KeepsText
  <2>3. ASSUME NEW b \in Bytes, FeedByte(b) PROVE Kept(term, term')
    <3>1. ~Decode(b) /\ ~ExecuteCsi(b)
      BY <2>3, ParserFields DEF SessionInv, SessionTypeOK, ParserType, Decode,
         StartEscape, Introduce, CollectDigit, CollectSeparator, ExecuteCsi, Terminate
    <3> QED
      BY <2>1, <2>3, <3>1, PrintKeeps DEF FeedByte, PrintByte
  <2>4. ASSUME term'.cells = term.cells PROVE Kept(term, term')
    BY <2>4, MovedIsKept DEF Moved
  <2>5. CASE RenderFrame \/ RestoreDisplay
    BY <2>1, <2>2, <2>4, <2>5 DEF RenderFrame, RestoreDisplay, TermType
  <2> QED
    BY <2>2, <2>3, <2>5 DEF SessionNext, Feed
<1> QED
  BY <1>1, SessionInvariant, PTL DEF SessionSpec, PrintKeepsText

-----------------------------------------------------------------------------
(* The application.                                                        *)

\* Between two steps the display has nothing collected: whoever marks flushes.
DispType == [region : {NoRect}, count : Nat, cfg : Configs]

HelpType == [active : BOOLEAN, page : Pages, last : Keys \cup {NoKey}]

LinesType == [Lines -> [page : -2..3, key : Keys \cup {NoKey}]]

Started == phase \in {"run", "closing"}

AppTypeOK ==
  /\ SessionTypeOK
  /\ disp \in DispType
  /\ help \in HelpType
  /\ phase \in {"boot", "run", "closing", "stopped"} /\ chunk \in {"none", "fed"}
  /\ helpLines \in LinesType
  /\ missed \in Nat

\* Before run() nothing was drawn, typed or sent.
BootInv ==
  phase = "boot" => /\ surface = EmptySurface /\ helpLines = NoHelpLines
                    /\ ~help.active /\ chunk = "none"

\* While help is closed the canvas owes the terminal only what is flagged;
\* between two chunks it owes nothing.  While it is open it shows the page.
ViewInv ==
  /\ phase \in {"boot", "run", "closing"} =>
       IF help.active THEN helpLines = HelpView(help)
       ELSE helpLines = NoHelpLines /\ StaleOnlyBelowWrap
  /\ Looping /\ ~help.active => ShowsTerminal

\* Output is fed and painted with no key in between.
WroteInv == phase = "boot" \/ chunk = "fed" => wrote = ""

-----------------------------------------------------------------------------
(* The panel.                                                              *)

LEMMA LayoutFacts ==
  /\ Width \in Nat \ {0} /\ Height \in Nat \ {0} /\ Width % 2 = 0
  /\ Rows \in Nat \ {0} /\ RowIds \subseteq Nat
  /\ StatusTop \in 0..(Height - 1) /\ KeypadTop \in 0..StatusTop
  /\ Lines \subseteq Nat
  /\ \A p \in OnPanel : p \in Pos /\ p[1] \in RowIds /\ p[1] \in Lines
  /\ NoKey \in Keys \cup {NoKey}
<1>1. /\ Width \in Nat \ {0} /\ Height \in Nat \ {0} /\ Width % 2 = 0
      /\ Rows \in Nat \ {0}
      /\ StatusTop \in 0..(Height - 1) /\ KeypadTop \in 0..StatusTop
  BY ApplicationAssumption, SessionAssumption, DisplayAssumption
<1>2. \A p \in OnPanel : p \in Pos /\ p[1] \in RowIds /\ p[1] < Height
  BY GridFacts DEF OnPanel, RowIds
<1> QED  BY <1>1, <1>2 DEF RowIds, Lines

\* A band across the panel is stored as far as the panel goes, and needs no
\* alignment, because the panel's width is even; one below the panel is not
\* stored at all.
LEMMA BandIsStored ==
  ASSUME NEW d \in DispType, NEW y \in Nat, NEW h \in Nat, h > 0
  PROVE  LET m == Marked(d, Rect(0, y, Width, h))
         IN  /\ Height <= y => m = d
             /\ y < Height =>
                  m = [d EXCEPT !.region = Rect(0, y, Width, Lesser(y + h, Height) - y)]
<1> DEFINE box == Rect(0, y, Width, h)
           k == Lesser(y + h, Height) - y
           m == Marked(d, box)
<1>1. /\ box.x = 0 /\ box.y = y /\ box.width = Width /\ box.height = h
      /\ Bounds.x = 0 /\ Bounds.y = 0 /\ Bounds.width = Width /\ Bounds.height = Height
  BY DEF Rect, Bounds
<1>2. k \in Int /\ (y < Height => k > 0) /\ (Height <= y => k <= 0)
  BY LayoutFacts DEF Lesser
<1> HIDE DEF box
<1>3. /\ Greater(box.x, Bounds.x) = 0 /\ Greater(box.y, Bounds.y) = y
      /\ Lesser(Right(box), Right(Bounds)) - 0 = Width
      /\ Lesser(Bottom(box), Bottom(Bounds)) - y = k
  BY <1>1, LayoutFacts DEF Greater, Lesser, Right, Bottom
<1>4. ~IsEmpty(box) /\ ~IsEmpty(Bounds)
  BY <1>1, LayoutFacts DEF IsEmpty
<1> HIDE DEF k
<1>5. IsEmpty(Rect(0, y, Width, k)) <=> k <= 0
  BY <1>2, LayoutFacts DEF IsEmpty, Rect
<1>6. Clip(box, Bounds) = IF k <= 0 THEN NoRect ELSE Rect(0, y, Width, k)
  BY <1>3, <1>4, <1>5 DEF Clip
<1>7. ASSUME Height <= y PROVE m = d
  <2>1. Clip(box, Bounds) = NoRect /\ IsEmpty(NoRect)
    BY <1>2, <1>6, <1>7 DEF NoRect, IsEmpty, Rect
  <2> QED  BY <2>1 DEF Marked
<1>8. ASSUME y < Height PROVE m = [d EXCEPT !.region = Rect(0, y, Width, k)]
  <2>1. Clip(box, Bounds) = Rect(0, y, Width, k) /\ ~IsEmpty(Clip(box, Bounds))
    BY <1>2, <1>5, <1>6, <1>8
  <2>2. EvenDown(0) = 0 /\ EvenUp(0 + Width) - 0 = Width
    BY LayoutFacts DEF EvenDown, EvenUp
  <2>3. AlignEven(Rect(0, y, Width, k)) = Rect(0, y, Width, k)
    BY <2>2 DEF AlignEven, Rect, Right
  <2>4. ~HasDirty(d)
    BY DEF HasDirty, DispType
  <2> QED  BY <2>1, <2>3, <2>4 DEF Marked
<1> QED  BY <1>7, <1>8 DEF box, k

\* Two canvases that agree on the panel are the same.
LEMMA SameCanvas ==
  ASSUME NEW sf, NEW sf2, NEW hl,
         \A p \in OnPanel : sf2[p] = sf[p]
  PROVE  Canvas(sf2, hl) = Canvas(sf, hl)
<1>1. [p \in OnPanel |-> sf2[p]] = [p \in OnPanel |-> sf[p]]
  OBVIOUS
<1> QED  BY <1>1 DEF Canvas

\* Sending the lines of a region that holds all that was drawn makes the
\* panel the canvas.
LEMMA LinesAreShown ==
  ASSUME NEW sf, NEW hl \in LinesType, NEW sf2, NEW hl2 \in LinesType, NEW ls,
         \A p \in OnPanel : p[1] \notin ls => sf2[p] = sf[p],
         \A n \in Lines : n \notin ls => hl2[n] = hl[n]
  PROVE  ShowLines(Canvas(sf, hl), Canvas(sf2, hl2), ls) = Canvas(sf2, hl2)
<1> DEFINE c1 == [p \in OnPanel |-> sf[p]]
           c2 == [p \in OnPanel |-> sf2[p]]
           mx == [q \in OnPanel |-> IF q[1] \in ls THEN c2[q] ELSE c1[q]]
           ml == [n \in Lines |-> IF n \in ls THEN hl2[n] ELSE hl[n]]
<1>1. /\ Canvas(sf, hl).cells = c1 /\ Canvas(sf, hl).lines = hl
      /\ Canvas(sf2, hl2).cells = c2 /\ Canvas(sf2, hl2).lines = hl2
  BY DEF Canvas
<1>2. ShowLines(Canvas(sf, hl), Canvas(sf2, hl2), ls) = Canvas(mx, ml)
  BY <1>1 DEF ShowLines
<1>3. \A p \in OnPanel : mx[p] = sf2[p]
  OBVIOUS
<1>4. ml = hl2
  <2>1. \A n \in Lines : (IF n \in ls THEN hl2[n] ELSE hl[n]) = hl2[n]
    OBVIOUS
  <2> QED  BY <2>1 DEF LinesType
<1> HIDE DEF mx, ml
<1>5. Canvas(mx, hl2) = Canvas(sf2, hl2)
  BY <1>3, SameCanvas
<1> QED  BY <1>2, <1>4, <1>5

\* What a refresh of a band leaves: nothing collected, and a panel that is
\* the canvas again if all that was drawn is in the band, unless the driver
\* failed.
LEMMA BandIsShown ==
  ASSUME NEW s, s.disp \in DispType, s.missed \in Nat,
         NEW sf \in SurfaceType, NEW hl \in LinesType,
         NEW sf2 \in SurfaceType, NEW hl2 \in LinesType,
         s.missed = 0 => s.panel = Canvas(sf, hl),
         NEW y \in Nat, NEW h \in Nat, h > 0,
         \A p \in OnPanel : ~(y <= p[1] /\ p[1] < y + h) => sf2[p] = sf[p],
         \A n \in Lines : ~(y <= n /\ n < y + h) => hl2[n] = hl[n],
         NEW ok \in BOOLEAN
  PROVE  LET u == UpdateOf(s, Canvas(sf2, hl2), Rect(0, y, Width, h), ok)
         IN  /\ u.disp \in DispType /\ u.missed \in Nat
             /\ u.missed = 0 => u.panel = Canvas(sf2, hl2)
<1> DEFINE cv == Canvas(sf2, hl2)
           box == Rect(0, y, Width, h)
           d == Marked(s.disp, box)
           u == UpdateOf(s, cv, box, ok)
           k == Lesser(y + h, Height) - y
           ls == LinesOf(d.region)
<1>1. CASE Height <= y
  <2>1. d = s.disp
    BY <1>1, BandIsStored
  <2>2. ~HasDirty(d)
    BY <2>1 DEF HasDirty, DispType
  <2>3. u = s
    BY <2>2 DEF UpdateOf
  <2>4. \A n \in Lines : ~(y <= n /\ n < y + h)
    BY <1>1, LayoutFacts DEF Lines
  <2>5. \A p \in OnPanel : p[1] \in Lines
    BY LayoutFacts
  <2>6. \A p \in OnPanel : sf2[p] = sf[p]
    BY <2>4, <2>5
  <2>7. \A n \in Lines : hl2[n] = hl[n]
    BY <2>4
  <2>8. hl2 = hl
    BY <2>7 DEF LinesType
  <2>9. Canvas(sf2, hl2) = Canvas(sf, hl)
    BY <2>6, <2>8, SameCanvas
  <2> HIDE DEF u
  <2>10. u.disp \in DispType /\ u.missed \in Nat /\ (u.missed = 0 => u.panel = cv)
    BY <2>3, <2>9
  <2> QED  BY <2>10 DEF u
<1>2. CASE y < Height
  <2>0. k \in Nat /\ k > 0
    BY <1>2, LayoutFacts DEF Lesser
  <2>1. d = [s.disp EXCEPT !.region = Rect(0, y, Width, k)]
    BY <1>2, BandIsStored
  <2> HIDE DEF k
  <2>2. d.region = Rect(0, y, Width, k) /\ d.count \in Nat /\ d.cfg \in Configs
    BY <2>1 DEF DispType
  <2>3. d \in [region : {Rect(0, y, Width, k)}, count : Nat, cfg : Configs]
    BY <2>1 DEF DispType
  <2>4. \A n \in Lines : n \in ls <=> y <= n /\ n < y + h
    <3>1. \A n \in Lines : n \in ls <=> y <= n /\ n < y + k
      BY <2>2 DEF LinesOf, Bottom, Rect
    <3>2. \A n \in Lines : n \in Nat /\ n < Height
      BY LayoutFacts DEF Lines
    <3>3. \A n \in Lines : n < y + k <=> n < y + h
      BY <3>2, LayoutFacts DEF k, Lesser
    <3> QED  BY <3>1, <3>3
  <2>5. HasDirty(d)
    BY <1>2, <2>2, LayoutFacts DEF HasDirty, NoRect, Rect
  <2> HIDE DEF d, ls
  <2>6. /\ u.disp = Flushed(d)
        /\ u.panel = CASE ~ok -> s.panel
                       [] ok /\ Escalates(d) -> cv
                       [] OTHER -> ShowLines(s.panel, cv, ls)
        /\ u.missed = CASE ~ok -> s.missed + 1
                        [] ok /\ Escalates(d) -> 0
                        [] OTHER -> s.missed
    BY <2>5 DEF UpdateOf, SendOf, d, ls
  <2>7. Flushed(d) \in DispType
    <3> DEFINE c == IF Escalates(d) THEN 0 ELSE d.count + 1
    <3>1. c \in Nat
      BY <2>2
    <3>2. Flushed(d) = [d EXCEPT !.region = NoRect, !.count = c]
      BY <2>3 DEF Flushed
    <3> HIDE DEF c
    <3> QED  BY <2>3, <3>1, <3>2 DEF DispType
  <2>8. u.missed \in Nat
    BY <2>6
  <2>9. ASSUME s.missed = 0
        PROVE  ShowLines(s.panel, cv, ls) = cv
    <3>1. \A p \in OnPanel : p[1] \notin ls => sf2[p] = sf[p]
      BY <2>4, LayoutFacts
    <3>2. \A n \in Lines : n \notin ls => hl2[n] = hl[n]
      BY <2>4
    <3> QED  BY <2>9, <3>1, <3>2, LinesAreShown
  <2>10. u.missed = 0 => u.panel = cv
    BY <2>6, <2>9
  <2> QED  BY <2>6, <2>7, <2>8, <2>10
<1> QED  BY <1>1, <1>2, LayoutFacts

\* A full flash shows everything, unless the driver failed.
LEMMA FlashShows ==
  ASSUME NEW s, s.disp \in DispType, s.missed \in Nat, NEW cv, NEW ok \in BOOLEAN
  PROVE  LET u == FlashOf(s, cv, ok)
         IN  /\ u.disp \in DispType /\ u.missed \in Nat
             /\ u.missed = 0 => u.panel = cv
<1> DEFINE u == FlashOf(s, cv, ok)
<1>1. /\ u.disp = Refreshed(s.disp)
      /\ u.panel = IF ok THEN cv ELSE s.panel
      /\ u.missed = IF ok THEN 0 ELSE s.missed + 1
  BY DEF FlashOf
<1>2. Refreshed(s.disp) \in DispType
  BY DEF Refreshed, DispType
<1> HIDE DEF u
<1>3. u.disp \in DispType /\ u.missed \in Nat /\ (u.missed = 0 => u.panel = cv)
  BY <1>1, <1>2
<1> QED  BY <1>3 DEF u

\* The first and the last of a set of rows.
LEMMA EndsOfRows ==
  ASSUME NEW rows \in SUBSET RowIds, rows # {}
  PROVE  /\ FirstOf(rows) \in rows /\ LastOf(rows) \in rows
         /\ \A r \in rows : FirstOf(rows) <= r /\ r <= LastOf(rows)
<1>1. \E r \in rows : \A q \in rows : r <= q
  BY LeastOf, GridFacts DEF RowIds
<1>2. \E r \in rows : \A q \in rows : q <= r
  <2> DEFINE back == {Rows - r : r \in rows}
  <2>0. Rows \in Nat /\ \A r \in rows : r \in Nat /\ Rows - r \in Nat
    BY GridFacts DEF RowIds
  <2>1. back \in SUBSET Nat /\ back # {}
    BY <2>0
  <2>2. PICK n \in back : \A m \in back : n <= m
    BY <2>1, LeastOf
  <2>3. PICK r \in rows : n = Rows - r
    BY <2>2
  <2>4. \A q \in rows : q <= r
    <3> SUFFICES ASSUME NEW q \in rows PROVE q <= r
      OBVIOUS
    <3>1. n <= Rows - q
      BY <2>2
    <3> QED  BY <2>0, <2>3, <3>1
  <2> QED  BY <2>4
<1> QED  BY <1>1, <1>2 DEF FirstOf, LastOf

-----------------------------------------------------------------------------
(* What is drawn.                                                          *)

\* The canvas and the panel after a step that draws.
Drawn ==
  /\ surface' \in SurfaceType /\ helpLines' \in LinesType
  /\ disp' \in DispType /\ missed' \in Nat
  /\ missed' = 0 => panel' = Canvas(surface', helpLines')

LEMMA FrameDraws ==
  ASSUME term \in TermType, surface \in SurfaceType, helpLines \in LinesType,
         NEW s, s.disp \in DispType, s.missed \in Nat,
         s.missed = 0 => s.panel = Canvas(surface, helpLines),
         NEW ok \in BOOLEAN, FrameFrom(s, ok)
  PROVE  Drawn
<1> DEFINE y == FirstOf(term.dirty)
           h == LastOf(term.dirty) - FirstOf(term.dirty) + 1
<1>1. /\ term.dirty \in SUBSET RowIds /\ term.dirty # {}
      /\ surface' = Paint(surface, term, term.dirty)
      /\ helpLines' = [n \in Lines |-> IF n \in term.dirty THEN NoHelpLine ELSE helpLines[n]]
      /\ ShownBecomes(UpdateOf(s, Canvas(surface', helpLines'), Rect(0, y, Width, h), ok))
  BY TermFields DEF FrameFrom, RenderFrame, DirtyBand
<1>2. /\ y \in Nat /\ h \in Nat /\ h > 0
      /\ \A r \in term.dirty : y <= r /\ r < y + h
  <2> DEFINE l == LastOf(term.dirty)
  <2>1. /\ y \in term.dirty /\ l \in term.dirty
        /\ \A r \in term.dirty : y <= r /\ r <= l
    BY <1>1, EndsOfRows
  <2>2. \A r \in term.dirty : r \in Nat /\ r < Rows
    BY <1>1, LayoutFacts DEF RowIds
  <2>3. h = l - y + 1
    OBVIOUS
  <2> HIDE DEF y, l, h
  <2>4. y \in Nat /\ l \in Nat /\ y <= l /\ l < Rows
    BY <2>1, <2>2
  <2>5. h \in Nat /\ h > 0 /\ y + h = l + 1
    BY <2>3, <2>4
  <2>7. ASSUME NEW r \in term.dirty PROVE y <= r /\ r < y + h
    BY <2>1, <2>2, <2>4, <2>5
  <2> QED  BY <2>4, <2>5, <2>7
<1> HIDE DEF y, h
<1>3. NoHelpLine \in [page : -2..3, key : Keys \cup {NoKey}]
  BY DEF NoHelpLine
<1>4. surface' \in SurfaceType /\ \A p \in Pos : p[1] \notin term.dirty => surface'[p] = surface[p]
  BY <1>1, PaintType
<1>5. helpLines' \in LinesType /\ \A n \in Lines : n \notin term.dirty => helpLines'[n] = helpLines[n]
  BY <1>1, <1>3 DEF LinesType
<1>6. /\ \A p \in OnPanel : ~(y <= p[1] /\ p[1] < y + h) => surface'[p] = surface[p]
      /\ \A n \in Lines : ~(y <= n /\ n < y + h) => helpLines'[n] = helpLines[n]
  BY <1>2, <1>4, <1>5, LayoutFacts
<1> DEFINE u == UpdateOf(s, Canvas(surface', helpLines'), Rect(0, y, Width, h), ok)
<1>7. /\ u.disp \in DispType /\ u.missed \in Nat
      /\ u.missed = 0 => u.panel = Canvas(surface', helpLines')
  BY <1>2, <1>4, <1>5, <1>6, BandIsShown
<1>8. disp' = u.disp /\ panel' = u.panel /\ missed' = u.missed
  BY <1>1 DEF ShownBecomes
<1> QED  BY <1>4, <1>5, <1>7, <1>8 DEF Drawn

LEMMA HelpViewType ==
  ASSUME NEW h \in HelpType
  PROVE  /\ HelpView(h) \in LinesType
         /\ \A n \in Lines : HelpLine(h, n) \in [page : -2..3, key : Keys \cup {NoKey}]
<1>1. ASSUME NEW n \in Lines
      PROVE  HelpLine(h, n) \in [page : -2..3, key : Keys \cup {NoKey}]
  <2>1. h.page \in -2..3 /\ h.last \in Keys \cup {NoKey}
    BY DEF HelpType, Pages
  <2> QED  BY <2>1 DEF HelpLine
<1> QED  BY <1>1 DEF HelpView, LinesType

\* What the step started from.
Before ==
  /\ surface \in SurfaceType /\ helpLines \in LinesType
  /\ disp \in DispType /\ missed \in Nat
  /\ missed = 0 => panel = Canvas(surface, helpLines)

LEMMA ShownFields ==
  Shown.disp = disp /\ Shown.panel = panel /\ Shown.missed = missed
  BY DEF Shown

LEMMA HelpDraws ==
  ASSUME Before, NEW h \in HelpType, NEW ok \in BOOLEAN, DrawHelp(h, ok)
  PROVE  Drawn
<1>1. /\ surface' \in SurfaceType /\ helpLines' \in LinesType
      /\ ShownBecomes(UpdateOf(Shown, Canvas(surface', helpLines'),
                               Rect(0, 0, Width, Height), ok))
  BY EmptySurfaceType, HelpViewType DEF DrawHelp, Bounds
<1>2. /\ Height \in Nat /\ Height > 0
      /\ \A p \in OnPanel : 0 <= p[1] /\ p[1] < 0 + Height
      /\ \A n \in Lines : 0 <= n /\ n < 0 + Height
  <2>1. Height \in Nat /\ Height > 0
    BY LayoutFacts
  <2>2. \A n \in Lines : 0 <= n /\ n < 0 + Height
    BY <2>1 DEF Lines
  <2>3. \A p \in OnPanel : p[1] \in Lines
    BY LayoutFacts
  <2> QED  BY <2>1, <2>2, <2>3
<1> DEFINE u == UpdateOf(Shown, Canvas(surface', helpLines'), Rect(0, 0, Width, Height), ok)
<1>3. /\ u.disp \in DispType /\ u.missed \in Nat
      /\ u.missed = 0 => u.panel = Canvas(surface', helpLines')
  BY <1>1, <1>2, BandIsShown, ShownFields DEF Before
<1>4. disp' = u.disp /\ panel' = u.panel /\ missed' = u.missed
  BY <1>1 DEF ShownBecomes
<1> QED  BY <1>1, <1>3, <1>4 DEF Drawn

LEMMA HelpKeyDraws ==
  ASSUME Before, NEW h \in HelpType, NEW ok \in BOOLEAN, DrawHelpKey(h, ok)
  PROVE  Drawn
<1> DEFINE drawn == StatusLines \cup (IF h.page = Keypad THEN KeypadLines ELSE {})
           top   == IF h.page = Keypad THEN KeypadTop ELSE StatusTop
           u == UpdateOf(Shown, Canvas(surface, helpLines'),
                         Rect(0, top, Width, Height - top), ok)
<1>1. /\ surface' = surface
      /\ helpLines' = [n \in Lines |-> IF n \in drawn THEN HelpLine(h, n) ELSE helpLines[n]]
      /\ ShownBecomes(u)
  BY DEF DrawHelpKey
<1>2. helpLines' \in LinesType
  BY <1>1, HelpViewType DEF LinesType, Before
<1>3. top \in Nat /\ Height - top \in Nat /\ Height - top > 0
  BY LayoutFacts
<1>4. \A n \in Lines : n \in drawn => top <= n
  BY LayoutFacts DEF StatusLines, KeypadLines, Lines
<1>5. \A n \in Lines : n \in Nat /\ n < top + (Height - top)
  BY LayoutFacts, <1>3 DEF Lines
<1>6. \A n \in Lines : ~(top <= n /\ n < top + (Height - top)) => helpLines'[n] = helpLines[n]
  BY <1>1, <1>4, <1>5
<1> HIDE DEF top, drawn
<1>7. /\ u.disp \in DispType /\ u.missed \in Nat
      /\ u.missed = 0 => u.panel = Canvas(surface, helpLines')
  BY <1>2, <1>3, <1>6, BandIsShown, ShownFields DEF Before
<1>8. disp' = u.disp /\ panel' = u.panel /\ missed' = u.missed
  BY <1>1 DEF ShownBecomes
<1> QED  BY <1>1, <1>2, <1>7, <1>8 DEF Drawn, Before

-----------------------------------------------------------------------------
(* The routes.                                                             *)

LEMMA NavigatedType ==
  ASSUME NEW h \in HelpType, NEW m, NEW e
  PROVE  Navigated(h, m, e) \in HelpType /\ Navigated(h, m, e).active = h.active
<1>1. h.page \in 0..3
  BY DEF HelpType, Pages
<1>2. \A pg \in Pages : /\ [h EXCEPT !.page = pg] \in HelpType
                        /\ [h EXCEPT !.page = pg].active = h.active
  BY DEF HelpType
<1>3. e.key \in DigitKeys => PageOfDigit[e.key] \in Pages
  BY DEF PageOfDigit, Pages
<1>4. /\ (IF h.page = 3 THEN 0 ELSE h.page + 1) \in Pages
      /\ (IF h.page = 0 THEN 3 ELSE h.page - 1) \in Pages
  BY <1>1 DEF Pages
<1>5. NextPage(h) \in HelpType /\ NextPage(h).active = h.active
  BY <1>2, <1>4 DEF NextPage
<1>6. PrevPage(h) \in HelpType /\ PrevPage(h).active = h.active
  BY <1>2, <1>4 DEF PrevPage
<1> QED  BY <1>2, <1>3, <1>5, <1>6 DEF Navigated

\* Which state an event finds and leaves on each route.
LEMMA Routes ==
  ASSUME NEW h \in HelpType, NEW m, NEW e \in Events
  PROVE  LET r == Route(h, m, e)
             g == HelpAfter(h, m, e)
         IN  /\ g \in HelpType
             /\ r = "Pass" => ~h.active /\ g = h
             /\ r = "RedrawFull" => g.active
             /\ r = "RedrawDelta" => h.active /\ g.active /\ g.page = h.page
             /\ r = "Consume" => h.active /\ g = h
             /\ r = "Exit" => ~g.active
<1> DEFINE r == Route(h, m, e)
           g == HelpAfter(h, m, e)
<1>1. h.active \in BOOLEAN
  BY DEF HelpType
<1>2. CASE ~h.active
  <2>1. r \in {"RedrawFull", "Pass"}
    BY <1>2 DEF Route, InactiveRoute
  <2>2. Opened(h) \in HelpType /\ Opened(h).active
    BY DEF Opened, HelpType, Pages
  <2>3. g = IF r = "RedrawFull" THEN Opened(h) ELSE h
    BY <1>2, <2>1 DEF HelpAfter
  <2> QED  BY <1>2, <2>1, <2>2, <2>3
<1>3. CASE h.active
  <2>1. r \in {"Consume", "Exit", "RedrawFull", "RedrawDelta"}
    BY <1>3 DEF Route, ActiveRoute
  <2>2. Navigated(h, m, e) \in HelpType /\ Navigated(h, m, e).active
    BY <1>3, NavigatedType
  <2>3. Closed(h) \in HelpType /\ ~Closed(h).active
    BY DEF Closed, HelpType
  <2>4. Recorded(h, e) \in HelpType /\ Recorded(h, e).active /\ Recorded(h, e).page = h.page
    BY <1>3 DEF Recorded, HelpType, Events
  <2>5. /\ r = "RedrawFull" => g = Navigated(h, m, e)
        /\ r = "Exit" => g = Closed(h)
        /\ r = "RedrawDelta" => g = Recorded(h, e)
        /\ r = "Consume" => g = h
    BY <1>3 DEF HelpAfter
  <2> QED  BY <1>3, <2>1, <2>2, <2>3, <2>4, <2>5
<1> QED  BY <1>1, <1>2, <1>3

-----------------------------------------------------------------------------
(* The invariant.                                                          *)

AppInv == AppTypeOK /\ BootInv /\ PanelIsCanvas /\ ViewInv /\ WroteInv

LEMMA AppInitInv == AppInit => AppInv
<1> SUFFICES ASSUME AppInit PROVE AppInv
  OBVIOUS
<1>1. SessionTypeOK /\ StaleOnlyBelowWrap /\ surface = EmptySurface
  BY SessionInitInv DEF AppInit, SessionInv, SessionInit
<1>2. disp \in DispType
  <2>1. PICK c \in Configs : disp = [region |-> NoRect, count |-> 0, cfg |-> c]
    BY DEF AppInit, FreshDisplay
  <2> QED  BY <2>1 DEF DispType
<1>3. help \in HelpType /\ ~help.active
  <2>1. help = [active |-> FALSE, page |-> 0, last |-> NoKey]
    BY DEF AppInit, HelpClosed
  <2> QED  BY <2>1 DEF HelpType, Pages
<1>4. helpLines \in LinesType /\ helpLines = NoHelpLines
  <2>1. helpLines = NoHelpLines
    BY DEF AppInit
  <2>2. NoHelpLine \in [page : -2..3, key : Keys \cup {NoKey}]
    BY DEF NoHelpLine
  <2> QED  BY <2>1, <2>2 DEF NoHelpLines, LinesType
<1>5. phase = "boot" /\ chunk = "none" /\ missed = 0 /\ wrote = ""
  BY DEF AppInit
<1> QED  BY <1>1, <1>2, <1>3, <1>4, <1>5
         DEF AppInv, AppTypeOK, BootInv, PanelIsCanvas, ViewInv, WroteInv, Looping

\* Once the loop runs, a step starts from a panel that is the canvas.
LEMMA StartedBefore ==
  ASSUME AppInv, Started
  PROVE  Before
  BY DEF AppInv, AppTypeOK, SessionTypeOK, PanelIsCanvas, Started, Before

\* A step that draws leaves the panel as the canvas.
LEMMA DrawnPanel ==
  ASSUME AppTypeOK, Drawn, parser' \in ParserType, term' \in TermType,
         help' \in HelpType, phase' \in {"run", "closing"}, chunk' = "none"
  PROVE  AppTypeOK' /\ BootInv' /\ PanelIsCanvas'
  BY DEF AppTypeOK, SessionTypeOK, BootInv, PanelIsCanvas, Drawn

\* Painting the flagged rows shows the terminal.
LEMMA FrameShows ==
  ASSUME SessionInv, helpLines = NoHelpLines, NEW s, NEW ok, FrameFrom(s, ok)
  PROVE  SessionInv' /\ helpLines' = NoHelpLines /\ ShowsTerminal'
<1>1. RenderFrame
  BY DEF FrameFrom
<1>2. SessionInv' /\ term'.dirty = {}
  BY <1>1, RenderFrameInv DEF RenderFrame, SessionInv, SessionTypeOK, TermType
<1>3. helpLines' = NoHelpLines
  BY DEF FrameFrom, NoHelpLines
<1>4. ASSUME NEW p \in OnPanel
      PROVE  \/ term'.cells[p] \in {NoPic, surface'[p].pic}
             \/ p[2] = 0 /\ term'.cells[p] = Blank
  BY <1>2, LayoutFacts DEF SessionInv, StaleOnlyBelowWrap, StaleAt
<1> QED  BY <1>2, <1>3, <1>4 DEF ShowsTerminal

LEMMA StartInv ==
  ASSUME AppInv, NEW ok1 \in BOOLEAN, NEW ok2 \in BOOLEAN, Start(ok1, ok2)
  PROVE  AppInv'
<1> DEFINE s == FlashOf(Shown, BlankCanvas, ok1)
<1>1. /\ phase' = "run" /\ chunk' = "none" /\ help' = help /\ ~help.active
      /\ FrameFrom(s, ok2)
      /\ surface = EmptySurface /\ helpLines = NoHelpLines
      /\ StaleOnlyBelowWrap
  BY DEF Start, AppInv, BootInv, ViewInv
<1>2. s.disp \in DispType /\ s.missed \in Nat /\ (s.missed = 0 => s.panel = BlankCanvas)
  BY ShownFields, FlashShows DEF AppInv, AppTypeOK
<1>3. BlankCanvas = Canvas(surface, helpLines)
  BY <1>1 DEF BlankCanvas
<1> HIDE DEF s
<1>4. SessionInv /\ helpLines \in LinesType
  BY <1>1 DEF SessionInv, AppInv, AppTypeOK
<1>5. Drawn
  BY <1>1, <1>2, <1>3, <1>4, FrameDraws DEF SessionInv, SessionTypeOK
<1>6. SessionInv' /\ helpLines' = NoHelpLines /\ ShowsTerminal'
  BY <1>1, <1>4, FrameShows
<1>7. AppTypeOK' /\ BootInv' /\ PanelIsCanvas'
  BY <1>1, <1>5, <1>6, DrawnPanel DEF AppInv, AppTypeOK, SessionInv, SessionTypeOK
<1>8. ViewInv' /\ WroteInv'
  BY <1>1, <1>6 DEF ViewInv, WroteInv, SessionInv
<1> QED  BY <1>7, <1>8 DEF AppInv

LEMMA PtyByteInv ==
  ASSUME AppInv, NEW b \in Bytes, PtyByte(b)
  PROVE  AppInv'
<1>1. /\ UNCHANGED <<surface, disp, help, phase, helpLines, panel, missed>>
      /\ phase = "run" /\ chunk' = "fed" /\ wrote' = "" /\ FeedByte(b)
  BY DEF PtyByte
<1>2. parser' \in ParserType /\ Handled(term, term') /\ term' \in TermType
  BY <1>1, FeedHandled DEF AppInv, AppTypeOK, SessionTypeOK, Handled
<1>3. AppTypeOK' /\ BootInv' /\ PanelIsCanvas' /\ WroteInv'
  BY <1>1, <1>2 DEF AppInv, AppTypeOK, SessionTypeOK, BootInv, PanelIsCanvas, WroteInv
<1>4. ~Looping'
  BY <1>1 DEF Looping
<1>5. ~help.active => StaleOnlyBelowWrap'
  BY <1>1, <1>2, HandledKeepsStale DEF AppInv, ViewInv
<1>6. ViewInv'
  BY <1>1, <1>4, <1>5 DEF AppInv, ViewInv, HelpView
<1> QED  BY <1>3, <1>6 DEF AppInv

LEMMA EndOfChunkHiddenInv ==
  ASSUME AppInv, EndOfChunkHidden
  PROVE  AppInv'
<1>1. /\ UNCHANGED <<parser, term, surface, disp, help, phase, helpLines, panel, missed, wrote>>
      /\ phase = "run" /\ chunk' = "none" /\ (help.active \/ term.dirty = {})
  BY DEF EndOfChunkHidden
<1>2. AppTypeOK' /\ BootInv' /\ PanelIsCanvas' /\ WroteInv'
  BY <1>1 DEF AppInv, AppTypeOK, SessionTypeOK, BootInv, PanelIsCanvas, WroteInv
<1>3. StaleOnlyBelowWrap' = StaleOnlyBelowWrap
  BY <1>1 DEF StaleOnlyBelowWrap, StaleAt
<1>4. ~help.active => ShowsTerminal'
  <2>1. \A p \in OnPanel : p \in Pos /\ p[1] \in RowIds
    BY LayoutFacts
  <2> QED  BY <1>1, <2>1 DEF AppInv, ViewInv, ShowsTerminal, StaleOnlyBelowWrap, StaleAt
<1>5. ViewInv'
  BY <1>1, <1>3, <1>4 DEF AppInv, ViewInv, HelpView
<1> QED  BY <1>2, <1>5 DEF AppInv

LEMMA EndOfChunkShownInv ==
  ASSUME AppInv, NEW ok \in BOOLEAN, EndOfChunkShown(ok)
  PROVE  AppInv'
<1>1. /\ phase = "run" /\ phase' = "run" /\ chunk' = "none"
      /\ help' = help /\ ~help.active /\ FrameFrom(Shown, ok)
      /\ helpLines = NoHelpLines /\ StaleOnlyBelowWrap
  BY DEF EndOfChunkShown, AppInv, ViewInv
<1>2. Before /\ SessionInv
  BY <1>1, StartedBefore DEF Started, AppInv, AppTypeOK, SessionInv
<1>3. Drawn
  BY <1>1, <1>2, ShownFields, FrameDraws DEF Before, SessionInv, SessionTypeOK
<1>4. SessionInv' /\ helpLines' = NoHelpLines /\ ShowsTerminal'
  BY <1>1, <1>2, FrameShows
<1>5. AppTypeOK' /\ BootInv' /\ PanelIsCanvas'
  BY <1>1, <1>3, <1>4, DrawnPanel DEF AppInv, AppTypeOK, SessionInv, SessionTypeOK
<1>6. ViewInv' /\ WroteInv'
  BY <1>1, <1>4 DEF ViewInv, WroteInv, SessionInv
<1> QED  BY <1>5, <1>6 DEF AppInv

\* A step that changes neither the terminal, the canvas, the panel nor the
\* help screen, and does not start the loop or end a chunk.
LEMMA QuietInv ==
  ASSUME AppInv,
         UNCHANGED <<parser, term, surface, disp, help, helpLines, panel, missed, chunk>>,
         phase' = phase \/ phase' = "stopped" \/ (phase = "run" /\ phase' = "closing"),
         WroteInv'
  PROVE  AppInv'
<1>1. AppTypeOK' /\ BootInv' /\ PanelIsCanvas'
  BY DEF AppInv, AppTypeOK, SessionTypeOK, BootInv, PanelIsCanvas
<1>2. /\ StaleOnlyBelowWrap' = StaleOnlyBelowWrap /\ ShowsTerminal' = ShowsTerminal
      /\ HelpView(help)' = HelpView(help)
  BY DEF StaleOnlyBelowWrap, StaleAt, ShowsTerminal, HelpView
<1>3. ViewInv'
  BY <1>2 DEF AppInv, ViewInv, Looping
<1> QED  BY <1>1, <1>3 DEF AppInv

\* An event finds the loop running and leaves it so.
LEMMA ReceivedFacts ==
  ASSUME AppInv, NEW e \in Events, NEW route, Received(e, route)
  PROVE  /\ Before /\ phase' \in {"run", "closing"} /\ chunk' = "none"
         /\ phase' = phase /\ chunk' = chunk
         /\ help \in HelpType /\ help' = HelpAfter(help, mods', e)
         /\ Route(help, mods', e) = route
<1>1. Looping
  BY DEF Received
<1>2. Started /\ chunk = "none"
  BY <1>1 DEF Looping, Started
<1> QED  BY <1>2, StartedBefore DEF Received, Started, AppInv, AppTypeOK

\* The help screen drawn whole, by whichever way it was asked for.
LEMMA HelpDrawnInv ==
  ASSUME AppInv, Before, NEW ok \in BOOLEAN, help' \in HelpType, help'.active,
         phase' \in {"run", "closing"}, chunk' = "none", DrawHelp(help', ok),
         UNCHANGED <<parser, term>>
  PROVE  AppInv'
<1>1. Drawn
  BY HelpDraws
<1>2. AppTypeOK' /\ BootInv' /\ PanelIsCanvas'
  BY <1>1, DrawnPanel DEF AppInv, AppTypeOK, SessionTypeOK
<1>3. ViewInv' /\ WroteInv'
  BY DEF ViewInv, WroteInv, DrawHelp
<1> QED  BY <1>2, <1>3 DEF AppInv

LEMMA HelpRedrawnInv ==
  ASSUME AppInv, NEW e \in Events, NEW ok \in BOOLEAN, HelpRedrawn(e, ok)
  PROVE  AppInv'
<1>1. Received(e, "RedrawFull") /\ DrawHelp(help', ok) /\ UNCHANGED <<parser, term>>
  BY DEF HelpRedrawn
<1>2. help' \in HelpType /\ help'.active
  BY <1>1, ReceivedFacts, Routes
<1> QED  BY <1>1, <1>2, ReceivedFacts, HelpDrawnInv

LEMMA HelpKeyShownInv ==
  ASSUME AppInv, NEW e \in Events, NEW ok \in BOOLEAN, HelpKeyShown(e, ok)
  PROVE  AppInv'
<1>1. Received(e, "RedrawDelta") /\ DrawHelpKey(help', ok) /\ UNCHANGED <<parser, term>>
  BY DEF HelpKeyShown
<1>2. help' \in HelpType /\ help'.active /\ help.active /\ help'.page = help.page
  BY <1>1, ReceivedFacts, Routes
<1>3. Drawn
  BY <1>1, <1>2, ReceivedFacts, HelpKeyDraws
<1>4. AppTypeOK' /\ BootInv' /\ PanelIsCanvas'
  BY <1>1, <1>2, <1>3, ReceivedFacts, DrawnPanel DEF AppInv, AppTypeOK, SessionTypeOK
<1>5. helpLines = HelpView(help)
  BY <1>1, <1>2 DEF AppInv, ViewInv, Received, Looping
<1>6. helpLines' = HelpView(help')
  <2>1. helpLines' = [y \in Lines |->
          IF y \in StatusLines \cup (IF help'.page = Keypad THEN KeypadLines ELSE {})
          THEN HelpLine(help', y) ELSE helpLines[y]]
    BY <1>1 DEF DrawHelpKey
  <2>2. ASSUME NEW y \in Lines,
               y \notin StatusLines \cup (IF help'.page = Keypad THEN KeypadLines ELSE {})
        PROVE  helpLines[y] = HelpLine(help', y)
    BY <1>2, <1>5, <2>2 DEF HelpView, HelpLine
  <2> QED  BY <2>1, <2>2 DEF HelpView
<1>7. ViewInv' /\ WroteInv'
  BY <1>1, <1>2, <1>6, ReceivedFacts DEF ViewInv, WroteInv
<1> QED  BY <1>4, <1>7 DEF AppInv

LEMMA HelpExitedInv ==
  ASSUME AppInv, NEW e \in Events, NEW ok \in BOOLEAN, HelpExited(e, ok)
  PROVE  AppInv'
<1> DEFINE u == FlashOf(Shown, Canvas(surface', helpLines'), ok)
<1>1. /\ Received(e, "Exit") /\ helpLines' = NoHelpLines /\ ShownBecomes(u)
      /\ surface' = Paint(EmptySurface, term, RowIds)
      /\ term' = [term EXCEPT !.dirty = RowIds] /\ parser' = parser
  BY DEF HelpExited, RestoreDisplay
<1>2. help' \in HelpType /\ ~help'.active
  BY <1>1, ReceivedFacts, Routes
<1>3. term \in TermType /\ parser \in ParserType
  BY DEF AppInv, AppTypeOK, SessionTypeOK
<1>4. term' \in TermType /\ term'.dirty = RowIds /\ term'.cells = term.cells
  BY <1>1, <1>3 DEF TermType
<1>5. /\ surface' \in SurfaceType
      /\ \A p \in Pos : term.cells[p] # NoPic => surface'[p].pic = term.cells[p]
  BY <1>1, <1>3, PaintType, EmptySurfaceType, GridFacts
<1>6. helpLines' \in LinesType
  BY <1>1 DEF NoHelpLines, NoHelpLine, LinesType
<1>7. u.disp \in DispType /\ u.missed \in Nat
      /\ (u.missed = 0 => u.panel = Canvas(surface', helpLines'))
  BY FlashShows, ShownFields DEF AppInv, AppTypeOK
<1>8. Drawn
  BY <1>1, <1>5, <1>6, <1>7 DEF Drawn, ShownBecomes
<1>9. AppTypeOK' /\ BootInv' /\ PanelIsCanvas'
  BY <1>1, <1>2, <1>3, <1>4, <1>8, ReceivedFacts, DrawnPanel DEF AppInv
<1>10. ShowsTerminal'
  <2>1. \A p \in OnPanel : p \in Pos
    BY LayoutFacts
  <2> QED  BY <1>1, <1>4, <1>5, <2>1 DEF ShowsTerminal
<1>11. StaleOnlyBelowWrap'
  BY <1>4, GridFacts DEF StaleOnlyBelowWrap, StaleAt
<1>12. ViewInv' /\ WroteInv'
  BY <1>1, <1>2, <1>10, <1>11, ReceivedFacts DEF ViewInv, WroteInv
<1> QED  BY <1>9, <1>12 DEF AppInv

LEMMA TypedHelpInv ==
  ASSUME AppInv, NEW e \in Events, NEW ok \in BOOLEAN, TypedHelp(e, ok)
  PROVE  AppInv'
<1>1. /\ Looping /\ UNCHANGED <<parser, term, phase, chunk>>
      /\ help' = Opened(help) /\ DrawHelp(help', ok)
  BY DEF TypedHelp, Typed
<1>2. Started /\ chunk = "none"
  BY <1>1 DEF Looping, Started
<1>3. help' \in HelpType /\ help'.active
  BY <1>1 DEF Opened, HelpType, Pages
<1> QED  BY <1>1, <1>2, <1>3, StartedBefore, HelpDrawnInv DEF Started

LEMMA AppStepInv == AppInv /\ [AppNext]_appVars => AppInv'
<1> SUFFICES ASSUME AppInv, [AppNext]_appVars PROVE AppInv'
  OBVIOUS
<1>1. ASSUME SpawnFailed \/ PtyClosed \/ RunReturns PROVE AppInv'
  <2>1. WroteInv'
    BY <1>1 DEF AppInv, WroteInv, SpawnFailed, PtyClosed, RunReturns
  <2> QED  BY <1>1, <2>1, QuietInv DEF SpawnFailed, PtyClosed, RunReturns
<1>2. ASSUME NEW e \in Events, Consumed(e) PROVE AppInv'
  <2>1. /\ help \in HelpType /\ help' = HelpAfter(help, mods', e)
        /\ Route(help, mods', e) = "Consume"
        /\ phase' = phase /\ chunk' = chunk
    BY <1>2, ReceivedFacts DEF Consumed
  <2>2. help' = help
    BY <2>1, Routes
  <2> QED  BY <1>2, <2>1, <2>2, QuietInv DEF Consumed, WroteInv
<1>3. ASSUME NEW e \in Events, TypedOnly(e) PROVE AppInv'
  <2>1. WroteInv'
    BY <1>3 DEF TypedOnly, Typed, Looping, WroteInv
  <2> QED  BY <1>3, <2>1, QuietInv DEF TypedOnly, Typed
<1>4. CASE UNCHANGED appVars
  <2>1. WroteInv'
    BY <1>4 DEF AppInv, WroteInv, appVars
  <2> QED  BY <1>4, <2>1, QuietInv DEF appVars
<1> QED  BY <1>1, <1>2, <1>3, <1>4, StartInv, PtyByteInv, EndOfChunkHiddenInv,
            EndOfChunkShownInv, HelpRedrawnInv, HelpKeyShownInv, HelpExitedInv,
            TypedHelpInv DEF AppNext, InputEvent

THEOREM AppInvariant == AppSpec => []AppInv
  BY AppInitInv, AppStepInv, PTL DEF AppSpec

(* The panel never lags behind the canvas: each refresh covers all that    *)
(* was drawn since the one before, unless a driver call failed; whether    *)
(* the grid is taller than the panel or leaves lines of it unused.         *)
THEOREM PanelAlwaysCanvas == AppSpec => []PanelIsCanvas
  BY AppInvariant, PTL DEF AppInv

(* Between callbacks the canvas shows the help screen while it is open,    *)
(* with its page and its key, and else the terminal, with the output that  *)
(* came while it was open.                                                 *)
THEOREM RightViewAlways == AppSpec => []RightView
<1>1. AppInv => RightView
  BY DEF AppInv, ViewInv, RightView, Looping
<1> QED  BY <1>1, AppInvariant, PTL

(* A key acts once: the event that opens or closes the help screen, or     *)
(* finds it open, is not also written to the shell, but for the line end   *)
(* of a typed help command.                                                *)
THEOREM KeysActOnce == AppSpec => KeyActsOnce
<1> DEFINE Once == wrote' # ""
                     => ~help.active /\ (help'.active => wrote' \in {"CR", "LF"})
<1>1. AppInv /\ [AppNext]_appVars => [Once]_appVars
  <2> SUFFICES ASSUME AppInv, AppNext, wrote' # ""
               PROVE  ~help.active /\ (help'.active => wrote' \in {"CR", "LF"})
    OBVIOUS
  <2>1. \A ok1, ok2 \in BOOLEAN : Start(ok1, ok2) => wrote' = ""
    BY DEF Start, AppInv, WroteInv
  <2>2. EndOfChunkHidden => wrote' = ""
    BY DEF EndOfChunkHidden, AppInv, WroteInv
  <2>3. \A ok \in BOOLEAN : EndOfChunkShown(ok) => wrote' = ""
    BY DEF EndOfChunkShown, AppInv, WroteInv
  <2>4. SpawnFailed \/ PtyClosed \/ RunReturns => wrote' = ""
    BY DEF SpawnFailed, PtyClosed, RunReturns, AppInv, WroteInv
  <2>5. \A b \in Bytes : PtyByte(b) => wrote' = ""
    BY DEF PtyByte
  <2>6. \A e \in Events, ok \in BOOLEAN :
          HelpRedrawn(e, ok) \/ HelpKeyShown(e, ok) \/ HelpExited(e, ok) \/ Consumed(e)
            => wrote' = ""
    BY DEF HelpRedrawn, HelpKeyShown, HelpExited, Consumed
  <2>7. PICK e \in Events, ok \in BOOLEAN : TypedOnly(e) \/ TypedHelp(e, ok)
    BY <2>1, <2>2, <2>3, <2>4, <2>5, <2>6 DEF AppNext, InputEvent
  <2>8. ~help.active
    <3>1. Route(help, mods', e) = "Pass" /\ help \in HelpType
      BY <2>7 DEF TypedOnly, TypedHelp, Typed, AppInv, AppTypeOK
    <3> QED  BY <3>1, Routes
  <2>9. help'.active => wrote' \in {"CR", "LF"}
    BY <2>7, <2>8 DEF TypedOnly, TypedHelp
  <2> QED  BY <2>8, <2>9
<1> QED  BY <1>1, AppInvariant, PTL DEF AppSpec, KeyActsOnce
=============================================================================
