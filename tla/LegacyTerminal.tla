--------------------------- MODULE LegacyTerminal ---------------------------
(***************************************************************************)
(* The screen of a legacy terminal (terminal.c): the page, the cursor, the *)
(* scroll region, the scrollback, and what page_append() and do_csi() do   *)
(* to them, one action for each character or complete escape sequence      *)
(* (LegacyPty has how the bytes arrive).  The cursor is an offset into the *)
(* page as in the code, and may be one past its end.                       *)
(*                                                                         *)
(* A character is a letter (0x60 to 0x7e, what the graphic set replaces),  *)
(* a line of that set, or a blank, which stands for every other one; a row *)
(* is the set of those that are not blank, with their columns.             *)
(* Attributes are left out, and so are the flags that only term_keyin()    *)
(* and term_state() read (cursor keys, hidden cursor).  A parameter of a   *)
(* sequence is a member of Args; the code takes 1 for a missing one, and   *)
(* what it does otherwise for none at all is the 0 of J and K.             *)
(***************************************************************************)
EXTENDS Integers, Sequences, FiniteSets

CONSTANTS
  Rows, Cols,   \* the geometry; term_new() replaces less than 4 by 10
  SbLines,      \* rows of the scrollback's memory
  Args,         \* parameters of sequences
  InkCols,      \* bound: the columns where a letter is typed
  MaxInk        \* bound: how many rows have one at a time

ASSUME TerminalAssumption ==
  /\ Rows \in Nat /\ Rows >= 4
  /\ Cols \in Nat /\ Cols >= 10
  /\ SbLines \in Nat
  /\ Args \subseteq Nat

VARIABLES
  cur,                        \* cursor, an offset into the page
  scroll_top, scroll_bottom,  \* the region, the second row excluded
  originmode,
  wrapped,                    \* kf_wrapped
  graphics, dographic,        \* kf_graphics, kf_dographic
  page,                       \* the rows
  sb,                         \* the scrollback: its memory and top
  typed                       \* history: the row of the last character, while
                              \* nothing has moved the cursor since

region == <<scroll_top, scroll_bottom>>
flags  == <<graphics, dographic>>
vars   == <<cur, region, originmode, wrapped, flags, page, sb, typed>>

PageLen  == Rows * Cols
RowId    == 0 .. Rows - 1
NoRow    == -1
ColId    == 0 .. Cols - 1
Row      == SUBSET (ColId \X {"letter", "line"})
BlankRow == {}

Lesser(a, b) == IF a < b THEN a ELSE b
curcol == cur % Cols
currow == cur \div Cols

-----------------------------------------------------------------------------
(* The helpers of terminal.c.                                              *)

\* B(): the cursor is kept in the region, or in the page.
Keep(c, st, bt, om) ==
  LET low == IF om THEN st * Cols ELSE 0
      high == IF om THEN bt * Cols ELSE PageLen
  IN  IF c < low THEN low ELSE IF c > high THEN high ELSE c

B(c) == Keep(c, scroll_top, scroll_bottom, originmode)

\* erase(): what falls outside the page is not seen in it.
Erase(start, len) ==
  [r \in RowId |-> {x \in page[r] : \/ r * Cols + x[1] < start
                                    \/ r * Cols + x[1] >= start + len}]

\* page_scroll() n times on the rows from st up to bt, bt excluded.
ScrollRows(pg, st, bt, n) ==
  [r \in RowId |-> IF r < st \/ r >= bt THEN pg[r]
                   ELSE IF r + n < bt THEN pg[r + n] ELSE BlankRow]

\* page_scroll() keeps a row that leaves the top of the page: the memory is
\* moved down by a row and the new one goes last.
PushLate(s, row) ==
  LET top == IF s.top < SbLines - 1 THEN s.top + 1 ELSE s.top
  IN  [top |-> top,
       lines |-> [i \in 0 .. SbLines - 1 |->
         IF i = SbLines - 1 THEN row
         ELSE IF top > 2 /\ i >= SbLines - top - 1 THEN s.lines[i + 1]
         ELSE s.lines[i]]]

Push(s, row) ==
  LET top == IF s.top < SbLines - 1 THEN s.top + 1 ELSE s.top
  IN  [top |-> top,
       lines |-> [i \in 0 .. SbLines - 1 |->
         IF i = SbLines - 1 THEN row
         ELSE IF top > 1 /\ i >= SbLines - top - 1 THEN s.lines[i + 1]
         ELSE s.lines[i]]]

PushRows(pg, st, bt, n) ==
  IF st # 0 \/ SbLines = 0 THEN sb
  ELSE LET pushed[i \in 0 .. n] ==
             IF i = 0 THEN sb
             ELSE Push(pushed[i - 1], ScrollRows(pg, st, bt, i - 1)[0])
       IN  pushed[n]

page_scroll(st, bt, n) ==
  /\ page' = ScrollRows(page, st, bt, n)
  /\ sb' = PushRows(page, st, bt, n)

\* page_scrolldown() k times, each from a row further down, as 'L' does.
ScrollDownRows(pg, st, bt, k) ==
  [r \in RowId |-> IF r < st \/ r >= bt THEN pg[r]
                   ELSE IF r < st + k THEN BlankRow ELSE pg[r - k]]

\* The loop that brings a cursor at or below the region's end back: a row
\* up, B() with the origin mode on, page_scroll().  B() leaves the cursor at
\* the end of the region at most, so the body runs twice at most.
BelowPage(c) == c >= PageLen
Below(c)   == c >= scroll_bottom * Cols
Pull(c)    == Keep(c - Cols, scroll_top, scroll_bottom, TRUE)
Settled(c) == IF ~ Below(c) THEN c
              ELSE IF ~ Below(Pull(c)) THEN Pull(c) ELSE Pull(Pull(c))
Pulls(c)   == IF ~ Below(c) THEN 0 ELSE IF ~ Below(Pull(c)) THEN 1 ELSE 2

Settle(c) ==
  /\ cur' = Settled(c)
  /\ page_scroll(scroll_top, scroll_bottom, Pulls(c))

\* What a step other than a character does to kf_wrapped, with the history.
KeepsFlag  == UNCHANGED <<wrapped, typed>>
MovesOn    == wrapped' = wrapped /\ typed' = NoRow
ClearsFlag == wrapped' = FALSE /\ typed' = NoRow
UNCHANGEDText == UNCHANGED <<page, sb>>
UNCHANGEDModes == UNCHANGED <<region, originmode, flags>>

-----------------------------------------------------------------------------
(* Characters.                                                             *)

Ink == Cardinality({r \in RowId : page[r] # BlankRow}) +
       Cardinality({i \in 0 .. SbLines - 1 : sb.lines[i] # BlankRow})

Graphic(ch) == ch = "letter" /\ graphics /\ dographic

\* Where the flag is not told of the character that went to c: it was typed
\* in the last column, under the scroll region, and moved into the first one;
\* or is a line of the graphic set, which leaves the flag as it was.
FlagMisses(c, keeps) == IF curcol = Cols - 1 THEN c % Cols # curcol ELSE keeps

PutChar(ch) ==
  LET c == Settled(cur)
      r == c \div Cols
      pg == ScrollRows(page, scroll_top, scroll_bottom, Pulls(cur))
      other == {x \in pg[r] : x[1] # c % Cols}
      shown == IF Graphic(ch) THEN "line" ELSE ch
      keeps == Graphic(ch) /\ wrapped
  IN  /\ page' = [pg EXCEPT ![r] =
           IF ch = "blank" THEN other ELSE other \cup {<<c % Cols, shown>>}]
      /\ sb' = PushRows(page, scroll_top, scroll_bottom, Pulls(cur))
      /\ cur' = IF c + 1 > PageLen THEN 0 ELSE c + 1
      /\ wrapped' = (curcol = Cols - 1 \/ keeps)
      /\ typed' = IF FlagMisses(c, keeps) THEN NoRow ELSE r
      /\ UNCHANGEDModes

PrintLetter == curcol \in InkCols /\ Ink < MaxInk /\ PutChar("letter")
PrintBlank  == PutChar("blank")

LineFeedMoves ==
  /\ Settle(cur + Cols)
  /\ ClearsFlag
  /\ UNCHANGEDModes

LineFeed ==
  /\ Settle(IF wrapped THEN cur ELSE cur + Cols)
  /\ ClearsFlag
  /\ UNCHANGEDModes

CarriageReturn ==
  /\ cur' = B(cur - curcol - (IF wrapped THEN Cols ELSE 0))
  /\ ClearsFlag
  /\ UNCHANGEDText /\ UNCHANGEDModes

\* A step that only moves the cursor and leaves kf_wrapped as it was.
MoveTo(c) ==
  /\ cur' = c
  /\ MovesOn
  /\ UNCHANGEDText /\ UNCHANGEDModes

Tab == MoveTo(B(IF curcol >= Cols - 8 THEN cur + Cols - 1 - curcol
                ELSE cur + 8 - (curcol % 8)))

Backspace == MoveTo(B(IF curcol > 0 THEN cur - 1 ELSE cur))

\* ESC c: the region and the modes stay, and so does the page.
Reset ==
  /\ cur' = 0
  /\ sb' = [sb EXCEPT !.top = 0]
  /\ MovesOn
  /\ UNCHANGED page /\ UNCHANGEDModes

Index == MoveTo(B(cur + Cols))

NextLine ==
  /\ Settle(cur - curcol + (IF wrapped THEN 0 ELSE Cols))
  /\ ClearsFlag
  /\ UNCHANGEDModes

ReverseIndex ==
  /\ IF cur - Cols < scroll_top * Cols
       THEN /\ cur' = B(cur)
            /\ page' = ScrollDownRows(page, scroll_top, scroll_bottom, 1)
       ELSE cur' = B(cur - Cols) /\ UNCHANGED page
  /\ ClearsFlag
  /\ UNCHANGED sb /\ UNCHANGEDModes

\* ESC # 8 fills the page with a character that is not a letter of the model.
Align ==
  /\ page' = [r \in RowId |-> BlankRow]
  /\ KeepsFlag
  /\ UNCHANGED <<cur, sb>> /\ UNCHANGEDModes

\* ESC ( 0, ESC ) 0, ESC ( B or ESC ) B, SO and SI.
Charset(g, d) ==
  /\ graphics' = g /\ dographic' = d
  /\ KeepsFlag
  /\ UNCHANGED <<cur, region, originmode>> /\ UNCHANGEDText

ShiftOut     == Charset(graphics, TRUE)
ShiftIn      == Charset(graphics, FALSE)
G0Graphics   == Charset(TRUE, TRUE)
G1Graphics   == Charset(graphics, TRUE)
AsciiCharset == Charset(FALSE, FALSE)

-----------------------------------------------------------------------------
(* do_csi(): the cursor.                                                   *)

OneOf(a) == IF a = 0 THEN 1 ELSE a

CursorUp(a) ==
  LET c == cur - Cols * OneOf(a)
  IN  MoveTo(IF c < 0 THEN curcol ELSE c)

CursorDown(a) ==
  LET c == cur + Cols * OneOf(a)
  IN  MoveTo(IF c >= PageLen THEN PageLen - Cols + curcol ELSE c)

CursorRight(a) == MoveTo(B(cur + Lesser(OneOf(a), Cols - curcol - 1)))
CursorLeft(a)  == MoveTo(B(cur - Lesser(OneOf(a), curcol)))
ColumnTo(a)    == MoveTo(B(cur + Lesser(a, Cols) - 1 - curcol))

\* A row outside the region gives the whole page back to scrolling.
RegionFor(row) ==
  IF row < scroll_top \/ row >= scroll_bottom THEN <<0, Rows>> ELSE region

RowTo(a) ==
  LET row == Lesser(a, Rows) - 1
      new == RegionFor(row)
  IN  /\ scroll_top' = new[1] /\ scroll_bottom' = new[2]
      /\ cur' = Keep(row * Cols + curcol, new[1], new[2], originmode)
      /\ MovesOn
      /\ UNCHANGED <<originmode, flags>> /\ UNCHANGEDText

Position(a1, a2) ==
  LET row == Lesser(OneOf(a1), Rows) - 1
      col == Lesser(OneOf(a2), Cols) - 1
      new == IF originmode THEN region ELSE RegionFor(row)
      at  == IF originmode THEN row + scroll_top ELSE row
  IN  /\ scroll_top' = new[1] /\ scroll_bottom' = new[2]
      /\ cur' = Keep(at * Cols + col, new[1], new[2], originmode)
      /\ ClearsFlag
      /\ UNCHANGED <<originmode, flags>> /\ UNCHANGEDText

SetRegionAny(a1, a2) ==
  /\ a1 >= 1 /\ a1 < a2
  /\ scroll_top' = a1 - 1 /\ scroll_bottom' = a2
  /\ cur' = Keep((a1 - 1) * Cols, a1 - 1, a2, originmode)
  /\ MovesOn
  /\ UNCHANGED <<originmode, flags>> /\ UNCHANGEDText

\* 'r': none at all stands for the whole page, a region of one row is refused.
SetRegion(a1, a2) ==
  /\ a1 >= 1 /\ a1 < a2 /\ a2 <= Rows
  /\ scroll_top' = a1 - 1 /\ scroll_bottom' = a2
  /\ cur' = Keep((a1 - 1) * Cols, a1 - 1, a2, originmode)
  /\ MovesOn
  /\ UNCHANGED <<originmode, flags>> /\ UNCHANGEDText

OriginMode(on) ==
  /\ originmode' = on
  /\ cur' = IF on THEN scroll_top * Cols ELSE 0
  /\ ClearsFlag
  /\ UNCHANGED <<region, flags>> /\ UNCHANGEDText

-----------------------------------------------------------------------------
(* do_csi(): the text.                                                     *)

Edit(pg) ==
  /\ page' = pg
  /\ KeepsFlag
  /\ UNCHANGED <<cur, sb>> /\ UNCHANGEDModes

ColumnMode ==
  /\ cur' = 0
  /\ page' = [r \in RowId |-> BlankRow]
  /\ MovesOn
  /\ UNCHANGED sb /\ UNCHANGEDModes

EraseSpanRow(cmd, a) ==
  CASE cmd = "J" /\ a = 1 -> <<0, cur + 1>>
    [] cmd = "J" /\ a = 2 -> <<0, PageLen>>
    [] cmd = "J" /\ a \notin {1, 2} -> <<cur, PageLen - cur>>
    [] cmd = "K" /\ a = 1 -> <<cur - curcol, curcol + 1>>
    [] cmd = "K" /\ a # 1 -> <<cur - curcol, Cols>>
    [] cmd = "X" -> <<cur, a>>

\* Where an erasure begins and how long it is, per command.
EraseSpan(cmd, a) ==
  CASE cmd = "J" /\ a = 1 -> <<0, cur + 1>>
    [] cmd = "J" /\ a = 2 -> <<0, PageLen>>
    [] cmd = "J" /\ a \notin {1, 2} -> <<cur, PageLen - cur>>
    [] cmd = "K" /\ a = 1 -> <<cur - curcol, curcol + 1>>
    [] cmd = "K" /\ a = 2 -> <<cur - curcol, Cols>>
    [] cmd = "K" /\ a \notin {1, 2} -> <<cur, Cols - curcol>>
    [] cmd = "X" -> <<cur, Lesser(a, Cols - curcol)>>

EraseChars(cmd, a) ==
  Edit(Erase(EraseSpan(cmd, a)[1], EraseSpan(cmd, a)[2]))

\* '@' and 'P' move the rest of the cursor's row; past the end of the page
\* there is no row to move.
EditRow(new) ==
  Edit([r \in RowId |-> IF r = currow THEN new ELSE page[r]])

InsertChars(n) ==
  LET kept == {x \in page[currow] : x[1] < curcol}
      moves == {x \in page[currow] : x[1] >= curcol /\ x[1] + n < Cols}
  IN  EditRow(kept \cup {<<x[1] + n, x[2]>> : x \in moves})

DeleteChars(a) ==
  LET kept == {x \in page[currow] : x[1] < curcol}
      moves == {x \in page[currow] : x[1] >= curcol + a}
  IN  EditRow(kept \cup {<<x[1] - a, x[2]>> : x \in moves})

InRegion == scroll_top * Cols <= cur /\ cur < scroll_bottom * Cols

InsertLines(a) ==
  /\ InRegion
  /\ Edit(ScrollDownRows(page, currow, scroll_bottom,
                         Lesser(a, scroll_bottom - 1 - currow)))

DeleteLines(a) ==
  /\ InRegion /\ currow + 1 < scroll_bottom
  /\ page_scroll(currow, scroll_bottom, a)
  /\ KeepsFlag
  /\ UNCHANGED cur /\ UNCHANGEDModes

-----------------------------------------------------------------------------
TerminalInit ==
  /\ cur = 0
  /\ scroll_top = 0 /\ scroll_bottom = Rows
  /\ originmode = FALSE
  /\ wrapped = FALSE /\ typed = NoRow
  /\ graphics = FALSE /\ dographic = FALSE
  /\ page = [r \in RowId |-> BlankRow]
  /\ sb = [top |-> 0, lines |-> [i \in 0 .. SbLines - 1 |-> BlankRow]]

Control ==
  \/ PrintLetter \/ PrintBlank \/ LineFeed \/ CarriageReturn \/ Tab
  \/ Backspace \/ ShiftOut \/ ShiftIn

Escape ==
  \/ Reset \/ Index \/ NextLine \/ ReverseIndex \/ Align
  \/ G0Graphics \/ G1Graphics \/ AsciiCharset

CsiMove ==
  \/ \E a \in Args : \/ CursorUp(a) \/ CursorDown(a) \/ CursorRight(a)
                     \/ CursorLeft(a) \/ ColumnTo(a) \/ RowTo(a)
  \/ \E a1, a2 \in Args : Position(a1, a2)
  \/ \E a1, a2 \in Args \cup {1, Rows} : SetRegion(a1, a2)

CsiErase == \E cmd \in {"J", "K", "X"}, a \in Args : EraseChars(cmd, a)

\* 'h' and 'l': of the modes, those that do something to the page.
SetMode   == ColumnMode \/ OriginMode(TRUE)
ResetMode == ColumnMode \/ OriginMode(FALSE)

CsiEdit ==
  \E a \in Args : InsertChars(a) \/ DeleteChars(a) \/ InsertLines(a) \/ DeleteLines(a)

TerminalNext ==
  Control \/ Escape \/ CsiMove \/ CsiErase \/ CsiEdit \/ SetMode \/ ResetMode

TerminalSpec == TerminalInit /\ [][TerminalNext]_vars

-----------------------------------------------------------------------------
(* Properties.                                                             *)

PageTypeOK ==
  /\ cur \in 0 .. PageLen
  /\ scroll_top \in Nat /\ scroll_bottom \in Nat
  /\ scroll_top + 1 < scroll_bottom /\ scroll_bottom <= Rows
  /\ originmode \in BOOLEAN
  /\ wrapped \in BOOLEAN /\ typed \in RowId \cup {NoRow}
  /\ graphics \in BOOLEAN /\ dographic \in BOOLEAN
  /\ page \in [RowId -> Row]

\* page_scroll() counts one row less than the memory has.
Depth  == IF SbLines = 0 THEN 0 ELSE SbLines - 1
Memory == [top : 0 .. Depth, lines : [0 .. SbLines - 1 -> Row]]

\* The cursor is in the page or right behind it, the region has two rows at
\* least and the scrollback reaches no further than its memory: what every
\* address computed in terminal.c rests on.
TermTypeOK == PageTypeOK /\ sb \in Memory

\* CR goes to the start of the row that the last character is in, LF and NEL
\* go to the row below it or to the last one of the region, whether the
\* character filled its row or not, and whatever was erased, inserted, deleted
\* or scrolled since: unless a sequence has moved the cursor.
LineEndsByText ==
  [][typed # NoRow =>
       /\ CarriageReturn => cur' = B(typed * Cols)
       /\ LineFeed \/ NextLine =>
            cur' \div Cols = Lesser(typed + 1, scroll_bottom - 1)]_vars

\* Erasing stays in the cursor's row (K, X) or in the page (J): except where
\* the cursor is behind the page, which is where printing in the last
\* column of the last row leaves it.
ErasesInPage ==
  cur < PageLen =>
    \A cmd \in {"J", "K", "X"}, a \in Args :
      LET from == EraseSpan(cmd, a)[1]
          to == from + EraseSpan(cmd, a)[2]
          first == IF cmd = "J" THEN 0 ELSE currow * Cols
          last == IF cmd = "J" THEN PageLen ELSE (currow + 1) * Cols
      IN  first <= from /\ from <= to /\ to <= last

\* Rows under the scroll region are changed by erasing and by editing a row
\* only: text and newlines go into the region wherever the cursor was, and
\* no scrolling, inserting or deleting of lines reaches them.
ChangesRows ==
  CsiErase \/ Align \/ ColumnMode
  \/ \E a \in Args : InsertChars(a) \/ DeleteChars(a)

BottomKept ==
  [][(\A r \in scroll_bottom .. Rows - 1 : page'[r] = page[r])
     \/ ChangesRows]_vars

\* What the user can scroll back to, oldest row first.
Scrollback(s) == [i \in 1 .. s.top |-> s.lines[SbLines - s.top + i - 1]]

Suffix(s, n) == SubSeq(s, Len(s) - n + 1, Len(s))

\* How many rows a step may scroll: one, two where the cursor is under the
\* region, as many as lines are deleted.
ScrollsBy ==
  {1} \cup (IF currow >= scroll_bottom THEN {2} ELSE {})
         \cup {a \in Args : DeleteLines(a)}

\* The scrollback is what left the top of the page, in order and without a
\* gap, as far as it reaches: a step adds the first k rows of the page, which
\* then has the rows below in their place.  Only ESC c forgets it.
ScrollbackIsHistory ==
  [][\/ sb' = sb
     \/ Reset
     \/ \E k \in ScrollsBy :
          LET left == [i \in 1 .. k |-> IF i <= scroll_bottom THEN page[i - 1]
                                        ELSE BlankRow]
              all == Scrollback(sb) \o left
              fits == IF SbLines = 0 THEN 0 ELSE Lesser(Len(all), SbLines - 1)
          IN  /\ Scrollback(sb') = Suffix(all, fits)
              /\ scroll_top = 0
              /\ \A r \in 0 .. scroll_bottom - 1 - k :
                   page'[r] = page[r + k]
    ]_vars
=============================================================================
