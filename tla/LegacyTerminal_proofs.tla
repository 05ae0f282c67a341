------------------------ MODULE LegacyTerminal_proofs ------------------------
(* For every geometry, every region and every parameter: the cursor stays in *)
(* the page or right behind it, CR, LF and NEL find the row they end,         *)
(* an erasure stays where it should, what is under the scroll region is kept, *)
(* and the scrollback is what left the page.                                  *)
EXTENDS LegacyTerminal, SequenceLemmas, TLAPS

-----------------------------------------------------------------------------
(* Offsets, rows and columns.                                              *)

LEMMA Grid ==
  /\ Rows \in Nat /\ Rows >= 4 /\ Cols \in Nat /\ Cols >= 10
  /\ PageLen \in Nat /\ Args \subseteq Nat /\ SbLines \in Nat
BY TerminalAssumption DEF PageLen

LEMMA ProductGrows ==
  ASSUME NEW a \in Nat, NEW b \in Nat, NEW c \in Nat, a <= b
  PROVE  a * c \in Nat /\ b * c \in Nat /\ a * c <= b * c
<1>1. PICK d \in Nat : b = a + d
  <2> WITNESS b - a \in Nat
  <2> QED OBVIOUS
<1>2. d * c \in Nat /\ b * c = a * c + d * c
  BY <1>1
<1> QED
  BY <1>2

(* Where rows begin.                                                       *)
LEMMA RowStart ==
  ASSUME NEW r \in Nat, r <= Rows
  PROVE  /\ r * Cols \in Nat /\ r * Cols <= PageLen
         /\ (r + 1) * Cols = r * Cols + Cols
         /\ r < Rows => r * Cols + Cols <= PageLen
<1>1. r * Cols \in Nat /\ r * Cols <= PageLen
  BY Grid, ProductGrows DEF PageLen
<1>2. (r + 1) * Cols = r * Cols + Cols
  BY Grid
<1>3. r < Rows => (r + 1) * Cols <= PageLen
  BY Grid, ProductGrows, r + 1 \in Nat DEF PageLen
<1> QED
  BY <1>1, <1>2, <1>3

(* An offset is its row and its column.                                    *)
LEMMA RowAndColumn ==
  ASSUME NEW c \in Nat
  PROVE  /\ c % Cols \in 0 .. Cols - 1
         /\ c \div Cols \in Nat
         /\ c = (c \div Cols) * Cols + (c % Cols)
         /\ (c \div Cols) * Cols \in Nat
<1>1. Cols \in Nat /\ Cols > 0
  BY Grid
<1> QED
  BY <1>1

(* An offset before the start of a row is in a row above it.               *)
LEMMA RowAbove ==
  ASSUME NEW c \in Nat, NEW r \in Nat, c < r * Cols
  PROVE  c \div Cols < r
<1> SUFFICES ASSUME r <= c \div Cols PROVE FALSE
  BY RowAndColumn
<1>1. r * Cols <= (c \div Cols) * Cols
  BY RowAndColumn, Grid, ProductGrows
<1> QED
  BY <1>1, RowAndColumn, Grid, r * Cols \in Nat

(* A row and a column are those of one offset.                              *)
LEMMA RowOf ==
  ASSUME NEW q \in Nat, NEW k \in 0 .. Cols - 1, NEW c, c = q * Cols + k
  PROVE  c \in Nat /\ c \div Cols = q /\ c % Cols = k
<1> DEFINE m == c % Cols
           d == c \div Cols
<1>1. q * Cols \in Nat /\ c \in Nat
  BY Grid
<1>2. m \in 0 .. Cols - 1 /\ d \in Nat /\ c = d * Cols + m
  BY <1>1, RowAndColumn
<1> HIDE DEF m, d
<1>3. CASE d = q
  BY <1>1, <1>2, <1>3, Grid DEF m, d
<1>4. CASE d + 1 <= q
  <2>1. (d + 1) * Cols <= q * Cols /\ (d + 1) * Cols = d * Cols + Cols /\ d * Cols \in Nat
    BY <1>2, <1>4, Grid, ProductGrows, d + 1 \in Nat
  <2> QED
    BY <2>1, <1>2, <1>1, Grid
<1>5. CASE q + 1 <= d
  <2>1. (q + 1) * Cols <= d * Cols /\ (q + 1) * Cols = q * Cols + Cols /\ d * Cols \in Nat
    BY <1>2, <1>5, Grid, ProductGrows, q + 1 \in Nat
  <2> QED
    BY <2>1, <1>2, <1>1, Grid
<1> QED
  BY <1>2, <1>3, <1>4, <1>5

LEMMA MultipleOfCols ==
  ASSUME NEW q \in Nat
  PROVE  (q * Cols) % Cols = 0 /\ (q * Cols) \div Cols = q
<1>1. 0 \in 0 .. Cols - 1 /\ q * Cols = q * Cols + 0
  BY Grid
<1> QED
  BY <1>1, RowOf

(* After the last column comes the first of the next row.                  *)
LEMMA NextRow ==
  ASSUME NEW c \in Nat, c % Cols = Cols - 1
  PROVE  (c + 1) % Cols = 0
<1>1. c \div Cols \in Nat /\ c + 1 = (c \div Cols + 1) * Cols
  <2>1. (c \div Cols + 1) * Cols = (c \div Cols) * Cols + Cols
    BY RowAndColumn, Grid
  <2> QED
    BY <2>1, RowAndColumn, Grid
<1> QED
  BY <1>1, MultipleOfCols

-----------------------------------------------------------------------------
(* Where the cursor is put.                                                *)

(* A cursor kept in a region, or in the page, is in the page or behind it. *)
LEMMA KeepInPage ==
  ASSUME NEW c \in Int, NEW st \in Nat, NEW bt \in Nat, st <= bt, bt <= Rows,
         NEW om \in BOOLEAN
  PROVE  /\ Keep(c, st, bt, om) \in 0 .. PageLen
         /\ om => Keep(c, st, bt, om) <= bt * Cols
<1>1. st * Cols \in Nat /\ bt * Cols \in Nat
      /\ st * Cols <= bt * Cols /\ bt * Cols <= PageLen
  BY RowStart, Grid, ProductGrows
<1>2. DEFINE low == IF om THEN st * Cols ELSE 0
             high == IF om THEN bt * Cols ELSE PageLen
<1>3. low \in Nat /\ high \in Nat /\ low <= high /\ high <= PageLen
  BY <1>1, Grid
<1>4. om => high = bt * Cols
  OBVIOUS
<1>5. Keep(c, st, bt, om) = IF c < low THEN low ELSE IF c > high THEN high ELSE c
  BY DEF Keep
<1> HIDE DEF low, high
<1> QED
  BY <1>3, <1>4, <1>5, Grid

(* The region, as PageTypeOK has it, with the offsets of its ends.         *)
LEMMA Region ==
  ASSUME PageTypeOK
  PROVE  /\ scroll_top \in Nat /\ scroll_bottom \in Nat
         /\ scroll_top < scroll_bottom /\ scroll_bottom <= Rows
         /\ originmode \in BOOLEAN /\ cur \in Nat /\ cur <= PageLen
         /\ scroll_top * Cols \in Nat /\ scroll_bottom * Cols \in Nat
         /\ scroll_top * Cols + Cols < scroll_bottom * Cols
         /\ scroll_bottom * Cols <= PageLen
<1>1. /\ scroll_top \in Nat /\ scroll_bottom \in Nat
      /\ scroll_top + 1 < scroll_bottom /\ scroll_bottom <= Rows
      /\ originmode \in BOOLEAN /\ cur \in Nat /\ cur <= PageLen
  BY Grid DEF PageTypeOK
<1>2. /\ scroll_top * Cols \in Nat /\ scroll_bottom * Cols \in Nat
      /\ scroll_bottom * Cols <= PageLen
  BY <1>1, RowStart, Grid
<1>3. (scroll_top + 2) * Cols <= scroll_bottom * Cols
  BY <1>1, Grid, ProductGrows, scroll_top + 2 \in Nat
<1>4. (scroll_top + 2) * Cols = scroll_top * Cols + 2 * Cols
  BY <1>1, Grid
<1> QED
  BY <1>1, <1>2, <1>3, <1>4, Grid

(* The code's B() of whatever is computed from the cursor.                 *)
LEMMA BInPage ==
  ASSUME PageTypeOK, NEW c \in Int
  PROVE  B(c) \in 0 .. PageLen
  BY Region, KeepInPage DEF B

(* The loop of two turns ends: the cursor it leaves is above the region's  *)
(* end, in the page.                                                       *)
LEMMA SettledInPage ==
  ASSUME PageTypeOK, NEW c \in Nat
  PROVE  Settled(c) \in Nat /\ Settled(c) < scroll_bottom * Cols
         /\ Settled(c) < PageLen
<1> DEFINE low == scroll_top * Cols
           high == scroll_bottom * Cols
<1>1. low \in Nat /\ high \in Nat /\ low + Cols < high /\ high <= PageLen
      /\ Cols \in Nat /\ Cols >= 10 /\ PageLen \in Nat
  BY Region, Grid
<1>2. \A d \in Int : Pull(d) = IF d - Cols < low THEN low
                               ELSE IF d - Cols > high THEN high ELSE d - Cols
  BY DEF Pull, Keep
<1>3. \A d \in Int : Below(d) <=> d >= high
  BY DEF Below
<1> HIDE DEF low, high
<1>4. Pull(c) \in Nat /\ Pull(c) <= high
  BY <1>1, <1>2
<1>5. Pull(c) = high => Pull(Pull(c)) = high - Cols
  BY <1>1, <1>2, <1>4
<1>6. Settled(c) = IF c < high THEN c ELSE IF Pull(c) < high THEN Pull(c) ELSE Pull(Pull(c))
  BY <1>1, <1>3, <1>4 DEF Settled
<1>7. Settled(c) \in Nat /\ Settled(c) < high
  BY <1>1, <1>4, <1>5, <1>6
<1> QED
  BY <1>1, <1>7 DEF high

(* It leaves the column as it is or puts the cursor in the first one.      *)
LEMMA SettledColumn ==
  ASSUME PageTypeOK, NEW c \in Nat
  PROVE  Settled(c) % Cols \in {c % Cols, 0}
<1> DEFINE low == scroll_top * Cols
           high == scroll_bottom * Cols
<1>1. low \in Nat /\ high \in Nat /\ low + Cols < high
      /\ Cols \in Nat /\ Cols >= 10 /\ scroll_bottom - 1 \in Nat
  BY Region, Grid
<1>2. low % Cols = 0
  BY Region, MultipleOfCols
<1>3. (high - Cols) % Cols = 0
  <2>1. (scroll_bottom - 1) * Cols = high - Cols
    BY Region, Grid
  <2> QED
    BY <1>1, <2>1, MultipleOfCols
<1>4. c - Cols >= 0 => (c - Cols) % Cols = c % Cols
  <2> SUFFICES ASSUME c - Cols >= 0 PROVE (c - Cols) % Cols = c % Cols
    OBVIOUS
  <2> DEFINE q == c \div Cols
             k == c % Cols
  <2>1. q \in Nat /\ k \in 0 .. Cols - 1 /\ c = q * Cols + k
    BY RowAndColumn
  <2> HIDE DEF q, k
  <2>2. q # 0
    BY <1>1, <2>1
  <2>3. q - 1 \in Nat /\ c - Cols = (q - 1) * Cols + k
    BY <1>1, <2>1, <2>2
  <2>4. (c - Cols) % Cols = k
    BY <2>1, <2>3, RowOf
  <2> QED
    BY <2>4 DEF k
<1>5. \A d \in Int : Pull(d) = IF d - Cols < low THEN low
                               ELSE IF d - Cols > high THEN high ELSE d - Cols
  BY DEF Pull, Keep
<1>6. \A d \in Int : Below(d) <=> d >= high
  BY DEF Below
<1> HIDE DEF low, high
<1>7. Settled(c) \in {c, low, high - Cols} \/ (c - Cols >= 0 /\ Settled(c) = c - Cols)
  <2>1. Pull(c) \in Nat /\ Pull(c) <= high
    BY <1>1, <1>5
  <2>2. Pull(c) = high => Pull(Pull(c)) = high - Cols
    BY <1>1, <1>5, <2>1
  <2> QED
    BY <1>1, <1>5, <1>6, <2>1, <2>2 DEF Settled
<1> QED
  BY <1>2, <1>3, <1>4, <1>7

(* At the start of the row after q, or in its row further right, a cursor  *)
(* is brought to that row, or to the last one of the region.               *)
LEMMA SettledRow ==
  ASSUME PageTypeOK, NEW q \in Nat, q < scroll_bottom,
         NEW k \in 0 .. Cols - 1, NEW c, c = (q + 1) * Cols + k
  PROVE  /\ c \in Nat
         /\ Settled(c) \div Cols = Lesser(q + 1, scroll_bottom - 1)
<1> DEFINE low == scroll_top * Cols
           high == scroll_bottom * Cols
<1>1. low \in Nat /\ high \in Nat /\ low + Cols < high
      /\ Cols \in Nat /\ Cols >= 10 /\ scroll_bottom \in Nat
  BY Region, Grid
<1>2. q * Cols \in Nat /\ (q + 1) * Cols = q * Cols + Cols /\ c = q * Cols + Cols + k
  BY Grid
<1>3. c \in Nat /\ c \div Cols = q + 1
  BY RowOf, q + 1 \in Nat
<1>4. CASE q + 1 < scroll_bottom
  <2>1. (q + 2) * Cols <= high /\ (q + 2) * Cols = q * Cols + 2 * Cols
    BY <1>1, <1>4, Grid, ProductGrows, q + 2 \in Nat
  <2>2. c < high
    BY <1>1, <1>2, <2>1
  <2>3. Settled(c) = c
    BY <1>1, <1>3, <2>2 DEF Settled, Below
  <2> QED
    BY <1>1, <1>3, <1>4, <2>3 DEF Lesser
<1>5. CASE q + 1 = scroll_bottom
  <2>1. high = q * Cols + Cols
    BY <1>2, <1>5
  <2>2. c - Cols = q * Cols + k /\ c - Cols >= low /\ c - Cols < high /\ c >= high
    BY <1>1, <1>2, <2>1
  <2>3. Pull(c) = c - Cols
    BY <1>1, <1>3, <2>2 DEF Pull, Keep
  <2>4. Settled(c) = c - Cols
    BY <1>1, <1>3, <2>2, <2>3 DEF Settled, Below
  <2>5. (c - Cols) \div Cols = q
    BY <2>2, RowOf
  <2> QED
    BY <1>1, <1>3, <1>5, <2>4, <2>5 DEF Lesser
<1> QED
  BY <1>1, <1>4, <1>5

(* How often the page is scrolled by it.                                   *)
LEMMA PullsIsSmall ==
  ASSUME NEW c
  PROVE  Pulls(c) \in Nat /\ Pulls(c) <= 2
  BY DEF Pulls

-----------------------------------------------------------------------------
(* Pages.                                                                  *)

Pages == [RowId -> Row]

(* What the scrolling, erasing and editing of pages makes is a page, and   *)
(* none of the two kinds of scrolling reaches under its end.               *)
LEMMA ScrollsArePages ==
  ASSUME NEW pg \in Pages, NEW st \in Nat, NEW bt \in Nat, bt <= Rows, NEW n \in Nat
  PROVE  /\ ScrollRows(pg, st, bt, n) \in Pages
         /\ ScrollDownRows(pg, st, bt, n) \in Pages
         /\ \A r \in RowId : r >= bt => /\ ScrollRows(pg, st, bt, n)[r] = pg[r]
                                        /\ ScrollDownRows(pg, st, bt, n)[r] = pg[r]
<1>1. BlankRow \in Row
  BY DEF BlankRow, Row
<1>2. ASSUME NEW r \in RowId
      PROVE  /\ ScrollRows(pg, st, bt, n)[r] \in Row
             /\ ScrollDownRows(pg, st, bt, n)[r] \in Row
             /\ r >= bt => /\ ScrollRows(pg, st, bt, n)[r] = pg[r]
                           /\ ScrollDownRows(pg, st, bt, n)[r] = pg[r]
  <2>1. pg[r] \in Row /\ r \in Nat /\ r < Rows
    BY Grid DEF Pages, RowId
  <2>2. ScrollRows(pg, st, bt, n)[r] =
          IF r < st \/ r >= bt THEN pg[r]
          ELSE IF r + n < bt THEN pg[r + n] ELSE BlankRow
    BY DEF ScrollRows
  <2>3. ScrollDownRows(pg, st, bt, n)[r] =
          IF r < st \/ r >= bt THEN pg[r]
          ELSE IF r < st + n THEN BlankRow ELSE pg[r - n]
    BY DEF ScrollDownRows
  <2>4. r + n < bt => pg[r + n] \in Row
    <3>1. r + n < bt => r + n \in RowId
      BY <2>1, Grid DEF RowId
    <3> QED
      BY <3>1 DEF Pages
  <2>5. ~ (r < st + n) => pg[r - n] \in Row
    <3>1. ~ (r < st + n) => r - n \in RowId
      BY <2>1, Grid DEF RowId
    <3> QED
      BY <3>1 DEF Pages
  <2> QED
    BY <1>1, <2>1, <2>2, <2>3, <2>4, <2>5
<1>3. ScrollRows(pg, st, bt, n) = [r \in RowId |-> ScrollRows(pg, st, bt, n)[r]]
      /\ ScrollDownRows(pg, st, bt, n) = [r \in RowId |-> ScrollDownRows(pg, st, bt, n)[r]]
  BY DEF ScrollRows, ScrollDownRows
<1> QED
  BY <1>2, <1>3 DEF Pages

-----------------------------------------------------------------------------
(* What every step has to do: keep the two invariants, and the rows under  *)
(* the scroll region unless it is one of those that may change any row.    *)

(* Where the cursor is after a character, while nothing has moved it:      *)
(* behind the character, which is at the start of the next row where       *)
(* kf_wrapped is set and in the same row where it is not.                  *)
FlagIsRow ==
  typed # NoRow =>
    /\ typed < scroll_bottom
    /\ IF wrapped THEN cur = (typed + 1) * Cols ELSE cur \div Cols = typed

Inv      == PageTypeOK /\ FlagIsRow
RowsKept == \A r \in scroll_bottom .. Rows - 1 : page'[r] = page[r]
StepOK   == Inv' /\ (RowsKept \/ ChangesRows)

FlagsMove == MovesOn \/ ClearsFlag
FlagsKept == (KeepsFlag /\ cur' = cur) \/ FlagsMove

(* The parts of PageTypeOK, one by one.                                    *)
LEMMA TypeParts ==
  ASSUME PageTypeOK
  PROVE  /\ cur \in 0 .. PageLen /\ page \in Pages
         /\ scroll_top \in Nat /\ scroll_bottom \in Nat
         /\ scroll_top + 1 < scroll_bottom /\ scroll_bottom <= Rows
         /\ originmode \in BOOLEAN /\ wrapped \in BOOLEAN /\ typed \in RowId \cup {NoRow}
         /\ graphics \in BOOLEAN /\ dographic \in BOOLEAN
  BY DEF PageTypeOK, Pages

LEMMA TypeFromParts ==
  ASSUME cur' \in 0 .. PageLen, page' \in Pages,
         scroll_top' \in Nat, scroll_bottom' \in Nat,
         scroll_top' + 1 < scroll_bottom', scroll_bottom' <= Rows,
         originmode' \in BOOLEAN, wrapped' \in BOOLEAN, typed' \in RowId \cup {NoRow},
         graphics' \in BOOLEAN, dographic' \in BOOLEAN
  PROVE  PageTypeOK'
  BY DEF PageTypeOK, Pages, PageLen, RowId, Row, ColId

(* A step that leaves the modes alone and changes nothing below the region *)
(* and moves the cursor, if at all, with one of the three ways to treat    *)
(* kf_wrapped.                                                             *)
LEMMA FlagStep ==
  ASSUME Inv, FlagsKept, scroll_bottom' = scroll_bottom \/ FlagsMove
  PROVE  wrapped' \in BOOLEAN /\ typed' \in RowId \cup {NoRow} /\ FlagIsRow'
<1> USE DEF FlagIsRow, KeepsFlag, MovesOn, ClearsFlag
<1>1. wrapped \in BOOLEAN /\ typed \in RowId \cup {NoRow} /\ FlagIsRow
  BY TypeParts DEF Inv
<1>2. CASE KeepsFlag /\ cur' = cur /\ scroll_bottom' = scroll_bottom
  BY <1>1, <1>2
<1>3. CASE MovesOn
  BY <1>1, <1>3
<1>4. CASE ClearsFlag
  BY <1>4
<1> QED
  BY <1>2, <1>3, <1>4 DEF FlagsKept, FlagsMove

LEMMA QuietStep ==
  ASSUME Inv, FlagsKept, cur' \in 0 .. PageLen, page' \in Pages, UNCHANGEDModes
  PROVE  Inv'
<1>1. PageTypeOK
  BY DEF Inv
<1>2. /\ scroll_top' = scroll_top /\ scroll_bottom' = scroll_bottom
      /\ originmode' = originmode /\ graphics' = graphics /\ dographic' = dographic
  BY DEF UNCHANGEDModes, region, flags
<1>3. wrapped' \in BOOLEAN /\ typed' \in RowId \cup {NoRow} /\ FlagIsRow'
  BY <1>2, FlagStep
<1>4. PageTypeOK'
  BY <1>1, <1>2, <1>3, TypeParts, TypeFromParts
<1> QED
  BY <1>3, <1>4 DEF Inv

(* A step that does not touch the page keeps its rows.                     *)
LEMMA SamePage ==
  ASSUME Inv, page' = page
  PROVE  page' \in Pages /\ RowsKept
  BY TypeParts DEF Inv, RowsKept

LEMMA MoveToOK ==
  ASSUME Inv, NEW c, c \in 0 .. PageLen, MoveTo(c)
  PROVE  StepOK
<1>1. cur' = c /\ MovesOn /\ page' = page /\ UNCHANGEDModes
  BY DEF MoveTo, UNCHANGEDText
<1> QED
  BY <1>1, SamePage, QuietStep DEF StepOK, FlagsKept, FlagsMove

-----------------------------------------------------------------------------
(* Characters, and the controls that scroll.                               *)

(* The loop of '\n', ESC E and of printing: the cursor ends in the region, *)
(* and what the page loses it loses in the region.                         *)
LEMMA SettleScrolls ==
  ASSUME PageTypeOK, NEW c \in Nat
  PROVE  LET pg == ScrollRows(page, scroll_top, scroll_bottom, Pulls(c))
         IN  /\ pg \in Pages
             /\ \A r \in RowId : r >= scroll_bottom => pg[r] = page[r]
             /\ Settled(c) \in 0 .. PageLen
<1>1. Pulls(c) \in Nat /\ page \in Pages
      /\ scroll_top \in Nat /\ scroll_bottom \in Nat /\ scroll_bottom <= Rows
  BY PullsIsSmall, TypeParts
<1>2. Settled(c) \in 0 .. PageLen
  BY SettledInPage, Grid
<1>3. ASSUME NEW n \in Nat
      PROVE  /\ ScrollRows(page, scroll_top, scroll_bottom, n) \in Pages
             /\ \A r \in RowId : r >= scroll_bottom =>
                  ScrollRows(page, scroll_top, scroll_bottom, n)[r] = page[r]
  <2>1. ScrollRows(page, scroll_top, scroll_bottom, n) \in Pages
    BY <1>1, ScrollsArePages
  <2>2. \A r \in RowId : r >= scroll_bottom =>
          ScrollRows(page, scroll_top, scroll_bottom, n)[r] = page[r]
    BY <1>1, ScrollsArePages
  <2> QED
    BY <2>1, <2>2
<1> QED
  BY <1>1, <1>2, <1>3

LEMMA RowsBelow ==
  ASSUME PageTypeOK, NEW r \in scroll_bottom .. Rows - 1
  PROVE  r \in RowId /\ r >= scroll_bottom
  BY TypeParts, Grid DEF RowId

LEMMA SettleOK ==
  ASSUME Inv, NEW c \in Nat, Settle(c), ClearsFlag, UNCHANGEDModes
  PROVE  StepOK
<1>1. /\ cur' = Settled(c)
      /\ page' = ScrollRows(page, scroll_top, scroll_bottom, Pulls(c))
  BY DEF Settle, page_scroll
<1>2. cur' \in 0 .. PageLen /\ page' \in Pages
      /\ \A r \in RowId : r >= scroll_bottom => page'[r] = page[r]
  BY <1>1, SettleScrolls DEF Inv
<1>3. RowsKept
  BY <1>2, RowsBelow DEF Inv, RowsKept
<1> QED
  BY <1>2, <1>3, QuietStep DEF StepOK, FlagsKept, FlagsMove

(* A character goes into the region; where it fills the last column, the   *)
(* cursor is at the start of the next row, or the flag misses it.          *)
LEMMA PutCharOK ==
  ASSUME Inv, NEW ch \in {"letter", "blank"}, PutChar(ch)
  PROVE  StepOK
<1> DEFINE c == Settled(cur)
           r == c \div Cols
           pg == ScrollRows(page, scroll_top, scroll_bottom, Pulls(cur))
           other == {x \in pg[r] : x[1] # c % Cols}
           new == IF ch = "blank" THEN other
                  ELSE other \cup {<<c % Cols, IF Graphic(ch) THEN "line" ELSE ch>>}
           keeps == Graphic(ch) /\ wrapped
<1>1. PageTypeOK /\ cur \in Nat
  BY Region DEF Inv
<1>2. c \in Nat /\ c < scroll_bottom * Cols /\ c < PageLen
  BY <1>1, SettledInPage
<1>3. r \in Nat /\ r < scroll_bottom /\ r \in RowId
  <2>1. r \in Nat /\ r < scroll_bottom
    BY <1>1, <1>2, RowAndColumn, RowAbove, TypeParts
  <2> QED
    BY <1>1, <2>1, TypeParts, Grid DEF RowId
<1>4. c % Cols \in ColId
  BY <1>2, RowAndColumn DEF ColId
<1>5. /\ page' = [pg EXCEPT ![r] = new]
      /\ cur' = IF c + 1 > PageLen THEN 0 ELSE c + 1
      /\ wrapped' = (curcol = Cols - 1 \/ keeps)
      /\ typed' = IF FlagMisses(c, keeps) THEN NoRow ELSE r
      /\ UNCHANGEDModes
  BY DEF PutChar
<1>6. pg \in Pages /\ \A q \in RowId : q >= scroll_bottom => pg[q] = page[q]
  BY <1>1, SettleScrolls
<1>7. cur' = c + 1 /\ cur' \in 0 .. PageLen
  BY <1>2, <1>5, Grid
<1>8. new \in Row
  <2>1. pg[r] \in Row
    BY <1>3, <1>6 DEF Pages
  <2>2. <<c % Cols, IF Graphic(ch) THEN "line" ELSE ch>> \in ColId \X {"letter", "line"}
        \/ ch = "blank"
    BY <1>4 DEF Graphic
  <2> QED
    BY <2>1, <2>2 DEF Row
<1> HIDE DEF c, r, pg, new
<1>9. page' \in Pages
  BY <1>3, <1>5, <1>6, <1>8 DEF Pages
<1>10. RowsKept
  <2> SUFFICES ASSUME NEW q \in scroll_bottom .. Rows - 1 PROVE page'[q] = page[q]
    BY DEF RowsKept
  <2>1. q \in RowId /\ q >= scroll_bottom /\ q # r
    BY <1>1, <1>3, RowsBelow, TypeParts
  <2> QED
    BY <1>5, <1>6, <2>1 DEF Pages
<1>11. wrapped' \in BOOLEAN /\ typed' \in RowId \cup {NoRow}
  BY <1>3, <1>5
<1>12. FlagIsRow'
  <2> SUFFICES ASSUME typed' = r, ~ FlagMisses(c, keeps)
               PROVE  /\ r < scroll_bottom'
                      /\ IF wrapped' THEN cur' = (r + 1) * Cols
                         ELSE cur' \div Cols = r
    BY <1>5 DEF FlagIsRow
  <2>1. /\ c = r * Cols + (c % Cols) /\ c % Cols \in 0 .. Cols - 1
        /\ r * Cols \in Nat /\ (r + 1) * Cols = r * Cols + Cols
    BY <1>2, <1>3, RowAndColumn, Grid DEF r
  <2>2. r < scroll_bottom'
    BY <1>3, <1>5 DEF UNCHANGEDModes, region
  <2>3. CASE curcol = Cols - 1
    <3>1. c % Cols = Cols - 1 /\ wrapped'
      BY <1>5, <2>3 DEF FlagMisses
    <3>2. cur' = (r + 1) * Cols
      BY <1>2, <1>7, <2>1, <3>1, Grid
    <3> QED
      BY <2>2, <3>1, <3>2
  <2>4. CASE curcol # Cols - 1
    <3>1. ~ wrapped'
      BY <1>5, <2>4 DEF FlagMisses
    <3>2. c % Cols # Cols - 1
      BY <1>1, <2>4, SettledColumn, Grid DEF c, curcol
    <3> DEFINE k == (c % Cols) + 1
    <3>3. k \in 0 .. Cols - 1 /\ cur' = r * Cols + k
      BY <1>7, <2>1, <3>2, Grid
    <3> HIDE DEF k
    <3>4. cur' \div Cols = r
      BY <1>3, <3>3, RowOf
    <3> QED
      BY <2>2, <3>1, <3>4
  <2> QED
    BY <2>3, <2>4
<1>13. PageTypeOK'
  <2>1. /\ scroll_top' = scroll_top /\ scroll_bottom' = scroll_bottom
        /\ originmode' = originmode /\ graphics' = graphics /\ dographic' = dographic
    BY <1>5 DEF UNCHANGEDModes, region, flags
  <2> QED
    BY <1>1, <1>7, <1>9, <1>11, <2>1, TypeParts, TypeFromParts
<1> QED
  BY <1>10, <1>12, <1>13 DEF StepOK, Inv

(* SO, SI and the sequences that choose a character set.                   *)
LEMMA CharsetOK ==
  ASSUME Inv, NEW g \in BOOLEAN, NEW d \in BOOLEAN, Charset(g, d)
  PROVE  StepOK
<1>1. /\ cur' = cur /\ page' = page /\ KeepsFlag
      /\ scroll_top' = scroll_top /\ scroll_bottom' = scroll_bottom
      /\ originmode' = originmode /\ graphics' = g /\ dographic' = d
  BY DEF Charset, UNCHANGEDText, region
<1>2. wrapped' \in BOOLEAN /\ typed' \in RowId \cup {NoRow} /\ FlagIsRow'
  BY <1>1, FlagStep DEF FlagsKept
<1>3. PageTypeOK'
  BY <1>1, <1>2, TypeParts, TypeFromParts DEF Inv
<1> QED
  BY <1>1, <1>2, <1>3, SamePage DEF StepOK, Inv

LEMMA ControlOK ==
  ASSUME Inv, Control
  PROVE  StepOK
<1>1. PageTypeOK /\ cur \in Nat /\ cur <= PageLen
  BY Region DEF Inv
<1>2. curcol \in 0 .. Cols - 1 /\ Cols \in Nat /\ Cols >= 10 /\ PageLen \in Nat
  BY <1>1, RowAndColumn, Grid DEF curcol
<1>3. CASE PrintLetter
  BY <1>3, PutCharOK DEF PrintLetter
<1>4. CASE PrintBlank
  BY <1>4, PutCharOK DEF PrintBlank
<1>5. CASE LineFeed
  <2> DEFINE c == IF wrapped THEN cur ELSE cur + Cols
  <2>1. c \in Nat
    BY <1>1, <1>2
  <2>2. Settle(c) /\ ClearsFlag /\ UNCHANGEDModes
    BY <1>5 DEF LineFeed
  <2> HIDE DEF c
  <2> QED
    BY <2>1, <2>2, SettleOK
<1>6. CASE CarriageReturn
  <2> DEFINE c == cur - curcol - (IF wrapped THEN Cols ELSE 0)
  <2>1. c \in Int
    BY <1>1, <1>2
  <2>2. cur' = B(c) /\ ClearsFlag /\ page' = page /\ UNCHANGEDModes
    BY <1>6 DEF CarriageReturn, UNCHANGEDText
  <2> HIDE DEF c
  <2> QED
    BY <1>1, <2>1, <2>2, BInPage, SamePage, QuietStep DEF StepOK, FlagsKept, FlagsMove
<1>7. CASE Tab
  <2> DEFINE c == IF curcol >= Cols - 8 THEN cur + Cols - 1 - curcol
                  ELSE cur + 8 - (curcol % 8)
  <2>1. c \in Int
    BY <1>1, <1>2
  <2>2. MoveTo(B(c))
    BY <1>7 DEF Tab
  <2> HIDE DEF c
  <2> QED
    BY <1>1, <2>1, <2>2, BInPage, MoveToOK
<1>8. CASE Backspace
  <2> DEFINE c == IF curcol > 0 THEN cur - 1 ELSE cur
  <2>1. c \in Int
    BY <1>1, <1>2
  <2>2. MoveTo(B(c))
    BY <1>8 DEF Backspace
  <2> HIDE DEF c
  <2> QED
    BY <1>1, <2>1, <2>2, BInPage, MoveToOK
<1>9. CASE ShiftOut \/ ShiftIn
  BY <1>9, CharsetOK, TypeParts DEF ShiftOut, ShiftIn, Inv
<1> QED
  BY <1>3, <1>4, <1>5, <1>6, <1>7, <1>8, <1>9 DEF Control

-----------------------------------------------------------------------------
(* Escape sequences.                                                       *)

LEMMA EscapeOK ==
  ASSUME Inv, Escape
  PROVE  StepOK
<1>1. PageTypeOK /\ cur \in Nat /\ cur <= PageLen
  BY Region DEF Inv
<1>2. curcol \in 0 .. Cols - 1 /\ Cols \in Nat /\ PageLen \in Nat
      /\ cur - curcol \in Nat
  <2>1. curcol \in 0 .. Cols - 1 /\ Cols \in Nat /\ PageLen \in Nat
    BY <1>1, RowAndColumn, Grid DEF curcol
  <2>2. (cur \div Cols) * Cols \in Nat /\ cur = (cur \div Cols) * Cols + (cur % Cols)
    BY <1>1, RowAndColumn
  <2> QED
    BY <1>1, <2>1, <2>2 DEF curcol
<1>3. CASE Reset
  <2>1. cur' = 0 /\ MovesOn /\ page' = page /\ UNCHANGEDModes
    BY <1>3 DEF Reset
  <2>2. 0 \in 0 .. PageLen
    BY <1>2
  <2> QED
    BY <2>1, <2>2, SamePage, QuietStep DEF StepOK, FlagsKept, FlagsMove
<1>4. CASE Index
  BY <1>1, <1>2, <1>4, BInPage, MoveToOK, cur + Cols \in Int DEF Index
<1>5. CASE NextLine
  <2> DEFINE c == cur - curcol + (IF wrapped THEN 0 ELSE Cols)
  <2>1. c \in Nat
    BY <1>2
  <2>2. Settle(c) /\ ClearsFlag /\ UNCHANGEDModes
    BY <1>5 DEF NextLine
  <2> HIDE DEF c
  <2> QED
    BY <2>1, <2>2, SettleOK
<1>6. CASE ReverseIndex
  <2>1. ClearsFlag /\ UNCHANGEDModes
    BY <1>6 DEF ReverseIndex
  <2>2. CASE cur - Cols < scroll_top * Cols
    <3>1. cur' = B(cur) /\ page' = ScrollDownRows(page, scroll_top, scroll_bottom, 1)
      BY <1>6, <2>2 DEF ReverseIndex
    <3>2. page' \in Pages /\ \A r \in RowId : r >= scroll_bottom => page'[r] = page[r]
      <4>1. page \in Pages /\ scroll_top \in Nat /\ scroll_bottom \in Nat
            /\ scroll_bottom <= Rows /\ 1 \in Nat
        BY <1>1, TypeParts
      <4>2. ScrollDownRows(page, scroll_top, scroll_bottom, 1) \in Pages
        BY <4>1, ScrollsArePages
      <4>3. \A r \in RowId : r >= scroll_bottom =>
              ScrollDownRows(page, scroll_top, scroll_bottom, 1)[r] = page[r]
        BY <4>1, ScrollsArePages
      <4> QED
        BY <3>1, <4>2, <4>3
    <3>3. cur' \in 0 .. PageLen
      BY <1>1, <3>1, BInPage
    <3>4. RowsKept
      BY <1>1, <3>2, RowsBelow DEF RowsKept
    <3> QED
      BY <2>1, <3>2, <3>3, <3>4, QuietStep DEF StepOK, FlagsKept, FlagsMove
  <2>3. CASE ~ (cur - Cols < scroll_top * Cols)
    <3>1. cur' = B(cur - Cols) /\ page' = page
      BY <1>6, <2>3 DEF ReverseIndex
    <3>2. cur' \in 0 .. PageLen
      BY <1>1, <1>2, <3>1, BInPage, cur - Cols \in Int
    <3> QED
      BY <2>1, <3>1, <3>2, SamePage, QuietStep DEF StepOK, FlagsKept, FlagsMove
  <2> QED
    BY <2>2, <2>3
<1>7. CASE Align
  <2>1. cur' = cur /\ KeepsFlag /\ UNCHANGEDModes /\ page' = [r \in RowId |-> BlankRow]
    BY <1>7 DEF Align
  <2>2. page' \in Pages
    BY <2>1 DEF Pages, Row, BlankRow
  <2> QED
    BY <1>1, <1>7, <2>1, <2>2, TypeParts, QuietStep DEF StepOK, FlagsKept, FlagsMove, ChangesRows
<1>8. CASE G0Graphics \/ G1Graphics \/ AsciiCharset
  BY <1>8, CharsetOK, TypeParts DEF G0Graphics, G1Graphics, AsciiCharset, Inv
<1> QED
  BY <1>3, <1>4, <1>5, <1>6, <1>7, <1>8 DEF Escape

-----------------------------------------------------------------------------
(* do_csi(): the cursor.                                                   *)

(* A step that may give the region or the origin mode a new value, and     *)
(* leaves the text.                                                        *)
LEMMA ModesStep ==
  ASSUME Inv, FlagsMove, cur' \in 0 .. PageLen,
         scroll_top' \in Nat, scroll_bottom' \in Nat,
         scroll_top' + 1 < scroll_bottom', scroll_bottom' <= Rows,
         originmode' \in BOOLEAN, UNCHANGED flags, UNCHANGEDText
  PROVE  StepOK
<1>1. page' = page /\ graphics' = graphics /\ dographic' = dographic
  BY DEF UNCHANGEDText, flags
<1>2. wrapped' \in BOOLEAN /\ typed' \in RowId \cup {NoRow} /\ FlagIsRow'
  BY FlagStep DEF FlagsKept
<1>3. PageTypeOK'
  BY <1>1, <1>2, TypeParts, TypeFromParts DEF Inv
<1> QED
  BY <1>1, <1>2, <1>3, SamePage DEF StepOK, Inv

(* A row outside the region gives the whole page back.                     *)
LEMMA RegionForOK ==
  ASSUME PageTypeOK, NEW row \in Int
  PROVE  /\ RegionFor(row)[1] \in Nat /\ RegionFor(row)[2] \in Nat
         /\ RegionFor(row)[1] + 1 < RegionFor(row)[2] /\ RegionFor(row)[2] <= Rows
         /\ region[1] = scroll_top /\ region[2] = scroll_bottom
<1>1. RegionFor(row) = <<0, Rows>> \/ RegionFor(row) = <<scroll_top, scroll_bottom>>
  BY DEF RegionFor, region
<1> QED
  BY <1>1, TypeParts, Grid DEF region

LEMMA CsiMoveOK ==
  ASSUME Inv, CsiMove
  PROVE  StepOK
<1>1. /\ PageTypeOK /\ cur \in Nat /\ cur <= PageLen
      /\ scroll_top \in Nat /\ scroll_bottom \in Nat
      /\ scroll_top + 1 < scroll_bottom /\ scroll_bottom <= Rows
      /\ originmode \in BOOLEAN
  BY Region, TypeParts DEF Inv
<1>2. /\ curcol \in 0 .. Cols - 1 /\ Cols \in Nat /\ Rows \in Nat
      /\ PageLen \in Nat /\ Cols <= PageLen
  <2>1. 1 * Cols <= Rows * Cols /\ 1 * Cols = Cols
    BY Grid, ProductGrows
  <2> QED
    BY <1>1, <2>1, RowAndColumn, Grid DEF curcol, PageLen
<1>3. ASSUME NEW a \in Args,
             CursorUp(a) \/ CursorDown(a) \/ CursorRight(a) \/ CursorLeft(a) \/ ColumnTo(a)
      PROVE  StepOK
  <2>1. a \in Nat /\ OneOf(a) \in Nat /\ Cols * OneOf(a) \in Nat
    BY Grid DEF OneOf
  <2>2. CASE CursorUp(a)
    <3> DEFINE c == cur - Cols * OneOf(a)
    <3>1. (IF c < 0 THEN curcol ELSE c) \in 0 .. PageLen
      BY <1>1, <1>2, <2>1
    <3> QED
      BY <2>2, <3>1, MoveToOK DEF CursorUp
  <2>3. CASE CursorDown(a)
    <3> DEFINE c == cur + Cols * OneOf(a)
    <3>1. (IF c >= PageLen THEN PageLen - Cols + curcol ELSE c) \in 0 .. PageLen
      BY <1>1, <1>2, <2>1
    <3> QED
      BY <2>3, <3>1, MoveToOK DEF CursorDown
  <2>4. CASE CursorRight(a)
    <3>1. cur + Lesser(OneOf(a), Cols - curcol - 1) \in Int
      BY <1>1, <1>2, <2>1 DEF Lesser
    <3> QED
      BY <1>1, <2>4, <3>1, BInPage, MoveToOK DEF CursorRight
  <2>5. CASE CursorLeft(a)
    <3>1. cur - Lesser(OneOf(a), curcol) \in Int
      BY <1>1, <1>2, <2>1 DEF Lesser
    <3> QED
      BY <1>1, <2>5, <3>1, BInPage, MoveToOK DEF CursorLeft
  <2>6. CASE ColumnTo(a)
    <3>1. cur + Lesser(a, Cols) - 1 - curcol \in Int
      BY <1>1, <1>2, <2>1 DEF Lesser
    <3> QED
      BY <1>1, <2>6, <3>1, BInPage, MoveToOK DEF ColumnTo
  <2> QED
    BY <1>3, <2>2, <2>3, <2>4, <2>5, <2>6
<1>4. ASSUME NEW a \in Args, RowTo(a) PROVE StepOK
  <2> DEFINE row == Lesser(a, Rows) - 1
             new == RegionFor(row)
  <2>1. row \in Int /\ row * Cols + curcol \in Int
    <3>1. a \in Nat
      BY Grid
    <3> QED
      BY <1>2, <3>1 DEF Lesser
  <2>2. /\ scroll_top' = new[1] /\ scroll_bottom' = new[2]
        /\ cur' = Keep(row * Cols + curcol, new[1], new[2], originmode)
        /\ MovesOn /\ originmode' = originmode /\ UNCHANGED flags /\ UNCHANGEDText
    BY <1>4 DEF RowTo
  <2> HIDE DEF row
  <2>3. new[1] \in Nat /\ new[2] \in Nat /\ new[1] + 1 < new[2] /\ new[2] <= Rows
    BY <1>1, <2>1, RegionForOK
  <2> HIDE DEF new
  <2>4. cur' \in 0 .. PageLen
    <3> DEFINE c == row * Cols + curcol
    <3>1. c \in Int /\ new[1] <= new[2] /\ cur' = Keep(c, new[1], new[2], originmode)
      BY <2>1, <2>2, <2>3
    <3> HIDE DEF c
    <3> QED
      BY <1>1, <2>3, <3>1, KeepInPage
  <2> QED
    BY <1>1, <2>2, <2>3, <2>4, ModesStep DEF FlagsMove
<1>5. ASSUME NEW a1 \in Args, NEW a2 \in Args, Position(a1, a2) PROVE StepOK
  <2> DEFINE row == Lesser(OneOf(a1), Rows) - 1
             col == Lesser(OneOf(a2), Cols) - 1
             new == IF originmode THEN region ELSE RegionFor(row)
             at  == IF originmode THEN row + scroll_top ELSE row
  <2>1. row \in Int /\ col \in Int /\ at \in Int
    <3>1. a1 \in Nat /\ a2 \in Nat
      BY Grid
    <3> QED
      BY <1>1, <1>2, <3>1 DEF Lesser, OneOf
  <2>2. at * Cols + col \in Int
    <3> HIDE DEF at, col
    <3> QED
      BY <1>2, <2>1
  <2>3. /\ scroll_top' = new[1] /\ scroll_bottom' = new[2]
        /\ cur' = Keep(at * Cols + col, new[1], new[2], originmode)
        /\ ClearsFlag /\ originmode' = originmode /\ UNCHANGED flags /\ UNCHANGEDText
    BY <1>5 DEF Position
  <2> HIDE DEF row, col, at
  <2>4. new[1] \in Nat /\ new[2] \in Nat /\ new[1] + 1 < new[2] /\ new[2] <= Rows
    <3>1. CASE originmode
      BY <1>1, <2>1, <3>1, RegionForOK
    <3>2. CASE ~ originmode
      BY <1>1, <2>1, <3>2, RegionForOK
    <3> QED
      BY <3>1, <3>2
  <2> HIDE DEF new
  <2>5. cur' \in 0 .. PageLen
    <3> DEFINE c == at * Cols + col
    <3>1. c \in Int /\ new[1] <= new[2] /\ cur' = Keep(c, new[1], new[2], originmode)
      BY <2>2, <2>3, <2>4
    <3> HIDE DEF c
    <3> QED
      BY <1>1, <2>4, <3>1, KeepInPage
  <2> QED
    BY <1>1, <2>3, <2>4, <2>5, ModesStep DEF FlagsMove
<1>6. ASSUME NEW a1 \in Args \cup {1, Rows}, NEW a2 \in Args \cup {1, Rows},
             SetRegion(a1, a2)
      PROVE  StepOK
  <2>1. a1 \in Nat /\ a2 \in Nat
    BY Grid
  <2>2. /\ a1 >= 1 /\ a1 < a2 /\ a2 <= Rows
        /\ scroll_top' = a1 - 1 /\ scroll_bottom' = a2
        /\ cur' = Keep((a1 - 1) * Cols, a1 - 1, a2, originmode)
        /\ MovesOn /\ originmode' = originmode /\ UNCHANGED flags /\ UNCHANGEDText
    BY <1>6 DEF SetRegion
  <2>3. a1 - 1 \in Nat /\ (a1 - 1) * Cols \in Int
    BY <1>2, <2>1, <2>2
  <2>4. cur' \in 0 .. PageLen
    BY <1>1, <2>1, <2>2, <2>3, KeepInPage
  <2> QED
    BY <1>1, <2>1, <2>2, <2>3, <2>4, ModesStep DEF FlagsMove
<1> QED
  BY <1>3, <1>4, <1>5, <1>6 DEF CsiMove

-----------------------------------------------------------------------------
(* do_csi(): the text and the modes.                                       *)

LEMMA CsiEraseOK ==
  ASSUME Inv, CsiErase
  PROVE  StepOK
<1>1. PICK cmd \in {"J", "K", "X"}, a \in Args : EraseChars(cmd, a)
  BY DEF CsiErase
<1>2. /\ page' = Erase(EraseSpan(cmd, a)[1], EraseSpan(cmd, a)[2])
      /\ KeepsFlag /\ cur' = cur /\ UNCHANGEDModes
  BY <1>1 DEF EraseChars, Edit
<1>3. page' \in Pages
  <2> SUFFICES ASSUME NEW start, NEW len PROVE Erase(start, len) \in Pages
    BY <1>2
  <2>1. \A r \in RowId : page[r] \in Row
    BY TypeParts DEF Inv, Pages
  <2>2. \A r \in RowId : {x \in page[r] : \/ r * Cols + x[1] < start
                                          \/ r * Cols + x[1] >= start + len} \in Row
    BY <2>1 DEF Row
  <2> QED
    BY <2>2 DEF Erase, Pages
<1> QED
  BY <1>2, <1>3, TypeParts, QuietStep DEF StepOK, Inv, FlagsKept, FlagsMove, ChangesRows

(* The rest of the row moves to the right or to the left.                  *)
LEMMA EditRowOK ==
  ASSUME Inv, NEW new, EditRow(new), currow \in RowId => new \in Row
  PROVE  Inv'
<1>1. /\ page' = [r \in RowId |-> IF r = currow THEN new ELSE page[r]]
      /\ KeepsFlag /\ cur' = cur /\ UNCHANGEDModes
  BY DEF EditRow, Edit
<1>2. page' \in Pages
  BY <1>1, TypeParts DEF Inv, Pages
<1> QED
  BY <1>1, <1>2, TypeParts, QuietStep DEF Inv, FlagsKept, FlagsMove

LEMMA EditCharsOK ==
  ASSUME Inv, NEW a \in Args, InsertChars(a) \/ DeleteChars(a)
  PROVE  StepOK
<1>1. a \in Nat /\ Cols \in Nat /\ curcol \in Nat
  BY Region, RowAndColumn, Grid DEF Inv, curcol
<1>2. ChangesRows
  BY DEF ChangesRows
<1>3. currow \in RowId =>
        /\ page[currow] \in SUBSET (ColId \X {"letter", "line"})
        /\ \A x \in page[currow] : x[1] \in ColId /\ x[2] \in {"letter", "line"}
  BY TypeParts DEF Inv, Pages, Row
<1>4. CASE InsertChars(a)
  <2> DEFINE kept == {x \in page[currow] : x[1] < curcol}
             moves == {x \in page[currow] : x[1] >= curcol /\ x[1] + a < Cols}
             new == kept \cup {<<x[1] + a, x[2]>> : x \in moves}
  <2>1. ASSUME currow \in RowId PROVE new \in Row
    <3>1. \A x \in moves : x[1] + a \in ColId /\ x[2] \in {"letter", "line"}
      BY <1>1, <1>3, <2>1 DEF ColId
    <3>2. kept \subseteq ColId \X {"letter", "line"}
      BY <1>3, <2>1
    <3> QED
      BY <3>1, <3>2 DEF Row
  <2>2. EditRow(new)
    BY <1>4 DEF InsertChars
  <2> HIDE DEF new
  <2> QED
    BY <1>2, <2>1, <2>2, EditRowOK DEF StepOK
<1>5. CASE DeleteChars(a)
  <2> DEFINE kept == {x \in page[currow] : x[1] < curcol}
             moves == {x \in page[currow] : x[1] >= curcol + a}
             new == kept \cup {<<x[1] - a, x[2]>> : x \in moves}
  <2>1. ASSUME currow \in RowId PROVE new \in Row
    <3>1. \A x \in moves : x[1] - a \in ColId /\ x[2] \in {"letter", "line"}
      BY <1>1, <1>3, <2>1 DEF ColId
    <3>2. kept \subseteq ColId \X {"letter", "line"}
      BY <1>3, <2>1
    <3> QED
      BY <3>1, <3>2 DEF Row
  <2>2. EditRow(new)
    BY <1>5 DEF DeleteChars
  <2> HIDE DEF new
  <2> QED
    BY <1>2, <2>1, <2>2, EditRowOK DEF StepOK
<1> QED
  BY <1>4, <1>5

(* 'L' and 'M' are obeyed in the region only, so they stay in it.          *)
LEMMA EditLinesOK ==
  ASSUME Inv, NEW a \in Args, InsertLines(a) \/ DeleteLines(a)
  PROVE  StepOK
<1>1. /\ PageTypeOK /\ cur \in Nat /\ page \in Pages
      /\ scroll_bottom \in Nat /\ scroll_bottom <= Rows /\ a \in Nat
  BY Region, TypeParts, Grid DEF Inv
<1>2. currow \in Nat /\ currow < scroll_bottom
  <2>1. cur < scroll_bottom * Cols
    BY DEF InsertLines, DeleteLines, InRegion
  <2> QED
    BY <1>1, <2>1, RowAndColumn, RowAbove DEF currow
<1>3. /\ KeepsFlag /\ cur' = cur /\ UNCHANGEDModes
      /\ \E n \in Nat : \/ page' = ScrollRows(page, currow, scroll_bottom, n)
                        \/ page' = ScrollDownRows(page, currow, scroll_bottom, n)
  <2>1. CASE InsertLines(a)
    <3> DEFINE n == Lesser(a, scroll_bottom - 1 - currow)
    <3>1. n \in Nat
      BY <1>1, <1>2 DEF Lesser
    <3> QED
      BY <2>1, <3>1 DEF InsertLines, Edit
  <2>2. CASE DeleteLines(a)
    BY <1>1, <2>2 DEF DeleteLines, page_scroll
  <2> QED
    BY <2>1, <2>2
<1>4. page' \in Pages /\ \A r \in RowId : r >= scroll_bottom => page'[r] = page[r]
  <2>1. PICK n \in Nat : \/ page' = ScrollRows(page, currow, scroll_bottom, n)
                         \/ page' = ScrollDownRows(page, currow, scroll_bottom, n)
    BY <1>3
  <2>2. ScrollRows(page, currow, scroll_bottom, n) \in Pages
        /\ ScrollDownRows(page, currow, scroll_bottom, n) \in Pages
    BY <1>1, <1>2, ScrollsArePages
  <2>3. \A r \in RowId : r >= scroll_bottom =>
          /\ ScrollRows(page, currow, scroll_bottom, n)[r] = page[r]
          /\ ScrollDownRows(page, currow, scroll_bottom, n)[r] = page[r]
    BY <1>1, <1>2, ScrollsArePages
  <2> QED
    BY <2>1, <2>2, <2>3
<1>5. RowsKept
  BY <1>1, <1>4, RowsBelow DEF RowsKept
<1> QED
  BY <1>3, <1>4, <1>5, TypeParts, QuietStep DEF StepOK, Inv, FlagsKept, FlagsMove

LEMMA ModeOK ==
  ASSUME Inv, SetMode \/ ResetMode
  PROVE  StepOK
<1>1. CASE ColumnMode
  <2>1. /\ cur' = 0 /\ MovesOn /\ UNCHANGEDModes
        /\ page' = [r \in RowId |-> BlankRow]
    BY <1>1 DEF ColumnMode
  <2>2. page' \in Pages
    BY <2>1 DEF Pages, Row, BlankRow
  <2>3. cur' \in 0 .. PageLen
    BY <2>1, Grid
  <2> QED
    BY <1>1, <2>1, <2>2, <2>3, QuietStep DEF StepOK, FlagsKept, FlagsMove, ChangesRows
<1>2. ASSUME NEW on \in BOOLEAN, OriginMode(on) PROVE StepOK
  <2>1. /\ originmode' = on /\ cur' = IF on THEN scroll_top * Cols ELSE 0
        /\ ClearsFlag /\ scroll_top' = scroll_top /\ scroll_bottom' = scroll_bottom
        /\ UNCHANGED flags /\ UNCHANGEDText
    BY <1>2 DEF OriginMode, region
  <2>2. cur' \in 0 .. PageLen
    <3>1. scroll_top * Cols \in Nat /\ scroll_top * Cols <= PageLen
      BY Region, Grid DEF Inv
    <3> QED
      BY <2>1, <3>1, Grid
  <2> QED
    BY <2>1, <2>2, TypeParts, ModesStep DEF Inv, FlagsMove
<1> QED
  BY <1>1, <1>2 DEF SetMode, ResetMode

-----------------------------------------------------------------------------
(* What page_scroll() keeps.                                               *)

LEMMA DepthIs ==
  /\ Depth \in Nat /\ Depth <= SbLines
  /\ SbLines # 0 => SbLines \in Nat \ {0} /\ Depth = SbLines - 1
  BY Grid DEF Depth

\* The m-th of the rows of a memory, from the newest.
Kept(s, m) == s.lines[SbLines - m]

LEMMA PushIs ==
  ASSUME NEW s \in Memory, SbLines # 0, NEW row \in Row
  PROVE  /\ Push(s, row) \in Memory /\ Push(s, row).top = Lesser(s.top + 1, Depth)
         /\ Kept(Push(s, row), 1) = row
         /\ \A m \in 1 .. Depth - 1 :
              m < Push(s, row).top => Kept(Push(s, row), m + 1) = Kept(s, m)
<1> DEFINE top == IF s.top < SbLines - 1 THEN s.top + 1 ELSE s.top
           new(i) == IF i = SbLines - 1 THEN row
                     ELSE IF top > 1 /\ i >= SbLines - top - 1 THEN s.lines[i + 1]
                     ELSE s.lines[i]
           lines == [i \in 0 .. SbLines - 1 |-> new(i)]
<1>1. Push(s, row) = [top |-> top, lines |-> lines]
  BY DEF Push
<1>2. /\ SbLines \in Nat \ {0} /\ Depth = SbLines - 1
      /\ s.top \in 0 .. Depth /\ s.lines \in [0 .. SbLines - 1 -> Row]
  BY DepthIs DEF Memory
<1>3. top \in 0 .. Depth /\ top = Lesser(s.top + 1, Depth)
  BY <1>2 DEF Lesser
<1> HIDE DEF top
<1>4. \A i \in 0 .. SbLines - 1 : new(i) \in Row
  <2> SUFFICES ASSUME NEW i \in 0 .. SbLines - 1 PROVE new(i) \in Row
    OBVIOUS
  <2>1. s.lines[i] \in Row
    BY <1>2
  <2>2. i # SbLines - 1 => s.lines[i + 1] \in Row
    <3>1. i # SbLines - 1 => i + 1 \in 0 .. SbLines - 1
      BY <1>2
    <3> QED  BY <1>2, <3>1
  <2> QED  BY <2>1, <2>2
<1>5. lines \in [0 .. SbLines - 1 -> Row]
  BY <1>4
<1>6. new(SbLines - 1) = row
  OBVIOUS
<1>7. ASSUME NEW m \in 1 .. Depth - 1, m < top
      PROVE  new(SbLines - (m + 1)) = s.lines[SbLines - m]
  <2>1. /\ SbLines - (m + 1) # SbLines - 1 /\ top > 1
        /\ SbLines - (m + 1) >= SbLines - top - 1 /\ SbLines - (m + 1) + 1 = SbLines - m
    BY <1>2, <1>3, <1>7
  <2> QED  BY <2>1
<1> HIDE DEF new
<1>8. ASSUME NEW m \in 1 .. Depth + 1
      PROVE  lines[SbLines - m] = new(SbLines - m)
  <2>1. SbLines - m \in 0 .. SbLines - 1
    BY <1>2
  <2> QED  BY <2>1
<1>9. /\ Push(s, row).top = top /\ \A m : Kept(Push(s, row), m) = lines[SbLines - m]
      /\ \A m : Kept(s, m) = s.lines[SbLines - m]
  BY <1>1 DEF Kept
<1>10. Push(s, row) \in Memory
  BY <1>1, <1>3, <1>5 DEF Memory
<1>11. Kept(Push(s, row), 1) = row
  <2>1. 1 \in 1 .. Depth + 1
    BY <1>2
  <2> QED  BY <1>6, <1>8, <1>9, <2>1
<1>12. ASSUME NEW m \in 1 .. Depth - 1, m < top
       PROVE  Kept(Push(s, row), m + 1) = Kept(s, m)
  <2>1. m + 1 \in 1 .. Depth + 1
    BY <1>2
  <2> QED  BY <1>7, <1>8, <1>9, <1>12, <2>1
<1> HIDE DEF lines
<1> QED  BY <1>3, <1>9, <1>10, <1>11, <1>12

\* The i-th row that leaves a page scrolled at the top.
RowOut(pg, bt, i) == IF i <= bt THEN pg[i - 1] ELSE BlankRow

LEMMA RowOutIs ==
  ASSUME NEW pg \in Pages, NEW bt \in 1 .. Rows, NEW i \in Nat \ {0}
  PROVE  ScrollRows(pg, 0, bt, i - 1)[0] = RowOut(pg, bt, i) /\ RowOut(pg, bt, i) \in Row
<1>1. 0 \in RowId /\ ~ (0 < 0 \/ 0 >= bt) /\ (0 + (i - 1) < bt <=> i <= bt) /\ 0 + (i - 1) = i - 1
  BY Grid DEF RowId
<1>2. ScrollRows(pg, 0, bt, i - 1)[0] = RowOut(pg, bt, i)
  BY <1>1 DEF ScrollRows, RowOut
<1>3. i <= bt => i - 1 \in RowId
  BY Grid DEF RowId
<1>4. BlankRow \in Row
  BY DEF BlankRow, Row
<1> QED  BY <1>2, <1>3, <1>4 DEF RowOut, Pages

\* The memory after each of n turns of page_scroll().
Pushing(f, pg, bt, n) ==
  f = [i \in 0 .. n |-> IF i = 0 THEN sb
                        ELSE Push(f[i - 1], ScrollRows(pg, 0, bt, i - 1)[0])]

LEMMA PushingAt ==
  ASSUME NEW f, NEW pg, NEW bt, NEW n \in Nat, Pushing(f, pg, bt, n)
  PROVE  /\ f[0] = sb
         /\ \A i \in 1 .. n : f[i] = Push(f[i - 1], ScrollRows(pg, 0, bt, i - 1)[0])
<1> DEFINE e(j) == IF j = 0 THEN sb ELSE Push(f[j - 1], ScrollRows(pg, 0, bt, j - 1)[0])
<1>1. f = [j \in 0 .. n |-> e(j)]
  BY DEF Pushing
<1> HIDE DEF e
<1>2. f[0] = e(0) /\ \A i \in 1 .. n : f[i] = e(i) /\ i # 0
  BY <1>1
<1> QED  BY <1>2 DEF e

LEMMA PushingExists ==
  ASSUME NEW pg \in Pages, NEW bt \in 1 .. Rows, NEW n \in Nat, sb \in Memory, SbLines # 0
  PROVE  \E f : Pushing(f, pg, bt, n)
<1> DEFINE out(i) == ScrollRows(pg, 0, bt, i - 1)[0]
           next == [x \in Memory \X (1 .. n) |-> Push(x[1], out(x[2]))]
<1>1. \A i \in 1 .. n : out(i) \in Row
  BY RowOutIs
<1> HIDE DEF out
<1>2. next \in [Memory \X (1 .. n) -> Memory]
  <2>1. ASSUME NEW x \in Memory \X (1 .. n) PROVE Push(x[1], out(x[2])) \in Memory
    <3>1. x[1] \in Memory /\ out(x[2]) \in Row
      BY <1>1
    <3> QED  BY <3>1, PushIs
  <2> QED  BY <2>1
<1>3. PICK f : Forward(f, next, sb, n) /\ \A i \in 0 .. n : f[i] \in Memory
  <2> HIDE DEF next
  <2> QED  BY <1>2, ForwardExists
<1> DEFINE e(j) == IF j = 0 THEN sb ELSE Push(f[j - 1], out(j))
<1>4. ASSUME NEW i \in 0 .. n PROVE f[i] = e(i)
  <2>1. CASE i = 0
    BY <1>3, <2>1 DEF Forward
  <2>2. CASE i # 0
    <3>1. i \in 1 .. n /\ i - 1 \in 0 .. n
      BY <2>2
    <3>2. <<f[i - 1], i>> \in Memory \X (1 .. n)
      BY <1>3, <3>1
    <3>3. next[<<f[i - 1], i>>] = Push(f[i - 1], out(i))
      BY <3>2
    <3>4. f[i] = next[<<f[i - 1], i>>]
      <4> HIDE DEF next
      <4> QED  BY <1>3, <3>1 DEF Forward
    <3> QED  BY <2>2, <3>3, <3>4
  <2> QED  BY <2>1, <2>2
<1>5. f = [i \in 0 .. n |-> f[i]]
  BY <1>3 DEF Forward
<1> HIDE DEF e
<1>6. f = [i \in 0 .. n |-> e(i)]
  BY <1>4, <1>5
<1>7. Pushing(f, pg, bt, n)
  BY <1>6 DEF Pushing, e, out
<1> QED  BY <1>7

LEMMA PushRowsIs ==
  ASSUME NEW pg \in Pages, NEW bt \in 1 .. Rows, NEW n \in Nat, sb \in Memory, SbLines # 0
  PROVE  \E f : Pushing(f, pg, bt, n) /\ PushRows(pg, 0, bt, n) = f[n]
<1> DEFINE c == CHOOSE f : Pushing(f, pg, bt, n)
<1>1. Pushing(c, pg, bt, n)
  BY PushingExists
<1>2. PushRows(pg, 0, bt, n) = c[n]
  BY SMT DEF PushRows, Pushing
<1> QED  BY <1>1, <1>2

\* The n-th of the rows that the scrollback had and of those scrolled out since.
RowOfAll(pg, bt, n) ==
  IF n <= sb.top THEN sb.lines[SbLines - sb.top + n - 1] ELSE RowOut(pg, bt, n - sb.top)

\* After k turns a memory has the last of them.
Remembers(s, pg, bt, k) ==
  /\ s \in Memory /\ s.top = Lesser(sb.top + k, Depth)
  /\ \A m \in 1 .. s.top : Kept(s, m) = RowOfAll(pg, bt, sb.top + k - m + 1)

LEMMA RemembersFirst ==
  ASSUME NEW pg, NEW bt, sb \in Memory
  PROVE  Remembers(sb, pg, bt, 0)
<1>1. sb.top \in Nat /\ sb.top <= Depth /\ Depth \in Nat /\ SbLines \in Nat
  BY DepthIs, Grid DEF Memory
<1>2. ASSUME NEW m \in 1 .. sb.top
      PROVE  Kept(sb, m) = RowOfAll(pg, bt, sb.top + 0 - m + 1)
  <2>1. sb.top + 0 - m + 1 <= sb.top /\ SbLines - sb.top + (sb.top + 0 - m + 1) - 1 = SbLines - m
    BY <1>1
  <2> QED  BY <2>1 DEF Kept, RowOfAll
<1>3. sb.top = Lesser(sb.top + 0, Depth)
  BY <1>1 DEF Lesser
<1> QED  BY <1>2, <1>3 DEF Remembers

LEMMA RemembersNext ==
  ASSUME NEW pg \in Pages, NEW bt \in 1 .. Rows, NEW k \in Nat, NEW s,
         sb \in Memory, SbLines # 0, Remembers(s, pg, bt, k)
  PROVE  Remembers(Push(s, RowOut(pg, bt, k + 1)), pg, bt, k + 1)
<1> DEFINE row == RowOut(pg, bt, k + 1)
           t == Push(s, row)
           all(n) == RowOfAll(pg, bt, n)
<1>1. /\ sb.top \in Nat /\ sb.top <= Depth /\ Depth \in Nat
      /\ s \in Memory /\ s.top = Lesser(sb.top + k, Depth)
      /\ \A m \in 1 .. s.top : Kept(s, m) = all(sb.top + k - m + 1)
  BY DepthIs DEF Memory, Remembers
<1>2. row \in Row
  BY RowOutIs
<1>3. /\ t \in Memory /\ t.top = Lesser(s.top + 1, Depth) /\ Kept(t, 1) = row
      /\ \A m \in 1 .. Depth - 1 : m < t.top => Kept(t, m + 1) = Kept(s, m)
  BY <1>1, <1>2, PushIs
<1>4. row = all(sb.top + k + 1)
  <2> DEFINE n == sb.top + k + 1
  <2>1. ~ n <= sb.top /\ n - sb.top = k + 1
    BY <1>1
  <2> HIDE DEF n
  <2>2. all(n) = RowOut(pg, bt, n - sb.top)
    BY <2>1 DEF RowOfAll
  <2>3. all(n) = row
    BY <2>1, <2>2
  <2> HIDE DEF all, row
  <2> QED  BY <2>3 DEF n
<1> HIDE DEF row, t, all
<1>5. t.top = Lesser(sb.top + (k + 1), Depth) /\ s.top \in Nat /\ t.top <= s.top + 1 /\ t.top <= Depth
  BY <1>1, <1>3 DEF Lesser
<1>6. ASSUME NEW m \in 1 .. t.top
      PROVE  Kept(t, m) = all(sb.top + (k + 1) - m + 1)
  <2>1. CASE m = 1
    <3>1. sb.top + (k + 1) - m + 1 = sb.top + k + 1
      BY <1>1, <2>1
    <3> QED  BY <1>3, <1>4, <2>1, <3>1
  <2>2. CASE m # 1
    <3> DEFINE l == m - 1
    <3>0. t.top \in Nat
      BY <1>3 DEF Memory
    <3>1. /\ l \in 1 .. Depth - 1 /\ l < t.top /\ l \in 1 .. s.top /\ l + 1 = m
          /\ sb.top + k - l + 1 = sb.top + (k + 1) - m + 1
      BY <1>1, <1>5, <2>2, <3>0
    <3> HIDE DEF l
    <3>2. Kept(t, l + 1) = Kept(s, l) /\ Kept(s, l) = all(sb.top + k - l + 1)
      BY <1>1, <1>3, <3>1
    <3> QED  BY <3>1, <3>2
  <2> QED  BY <2>1, <2>2
<1>7. Remembers(t, pg, bt, k + 1)
  BY <1>3, <1>5, <1>6 DEF Remembers, all
<1> QED  BY <1>7 DEF t, row

LEMMA PushRowsRemembers ==
  ASSUME NEW pg \in Pages, NEW bt \in 1 .. Rows, NEW k \in Nat, sb \in Memory, SbLines # 0
  PROVE  Remembers(PushRows(pg, 0, bt, k), pg, bt, k)
<1>1. PICK f : Pushing(f, pg, bt, k) /\ PushRows(pg, 0, bt, k) = f[k]
  BY PushRowsIs
<1>2. /\ f[0] = sb
      /\ \A i \in 1 .. k : f[i] = Push(f[i - 1], ScrollRows(pg, 0, bt, i - 1)[0])
  BY <1>1, PushingAt
<1> DEFINE T == {i \in Nat : i <= k => Remembers(f[i], pg, bt, i)}
<1>3. 0 \in T
  BY <1>2, RemembersFirst
<1>4. ASSUME NEW i \in Nat, i \in T PROVE i + 1 \in T
  <2> SUFFICES ASSUME i + 1 <= k PROVE Remembers(f[i + 1], pg, bt, i + 1)
    OBVIOUS
  <2>1. i + 1 \in 1 .. k /\ i + 1 \in Nat \ {0} /\ i + 1 - 1 = i /\ i <= k
    OBVIOUS
  <2>2. Remembers(f[i], pg, bt, i)
    BY <1>4, <2>1
  <2>3. f[i + 1] = Push(f[i + 1 - 1], ScrollRows(pg, 0, bt, i + 1 - 1)[0])
    BY <1>2, <2>1
  <2>4. ScrollRows(pg, 0, bt, i + 1 - 1)[0] = RowOut(pg, bt, i + 1)
    BY <2>1, RowOutIs
  <2>5. f[i + 1] = Push(f[i], RowOut(pg, bt, i + 1))
    BY <2>1, <2>3, <2>4
  <2> QED  BY <2>2, <2>5, RemembersNext
<1> HIDE DEF T
<1>5. k \in T
  BY <1>3, <1>4, Counting
<1> QED  BY <1>1, <1>5 DEF T

\* As the property has it: the rows that a step scrolls out, after the
\* scrollback as it was.
Left(pg, bt, k) == [i \in 1 .. k |-> IF i <= bt THEN pg[i - 1] ELSE BlankRow]

Grows(s, t, pg, bt, k) ==
  LET all == Scrollback(s) \o Left(pg, bt, k)
      fits == IF SbLines = 0 THEN 0 ELSE Lesser(Len(all), SbLines - 1)
  IN  Scrollback(t) = Suffix(all, fits)

LEMMA ScrollbackIs ==
  ASSUME NEW s \in Memory
  PROVE  /\ Scrollback(s) \in Seq(Row) /\ Len(Scrollback(s)) = s.top /\ s.top \in Nat
         /\ \A i \in 1 .. s.top : Scrollback(s)[i] = s.lines[SbLines - s.top + i - 1]
<1>1. s.top \in Nat /\ s.top <= Depth /\ s.lines \in [0 .. SbLines - 1 -> Row] /\ SbLines \in Nat
  BY DepthIs, Grid DEF Memory
<1>2. ASSUME NEW i \in 1 .. s.top PROVE s.lines[SbLines - s.top + i - 1] \in Row
  <2>1. SbLines - s.top + i - 1 \in 0 .. SbLines - 1
    BY <1>1, DepthIs
  <2> QED  BY <1>1, <2>1
<1> DEFINE line(i) == s.lines[SbLines - s.top + i - 1]
<1>3. Scrollback(s) = [i \in 1 .. s.top |-> line(i)]
  BY DEF Scrollback
<1>4. \A i \in 1 .. s.top : line(i) \in Row
  BY <1>2
<1> HIDE DEF line
<1>5. Scrollback(s) \in Seq(Row) /\ Len(Scrollback(s)) = s.top
  BY <1>1, <1>3, <1>4
<1>6. \A i \in 1 .. s.top : Scrollback(s)[i] = line(i)
  BY <1>3
<1> QED  BY <1>1, <1>5, <1>6 DEF line

LEMMA LeftIs ==
  ASSUME NEW pg \in Pages, NEW bt \in 1 .. Rows, NEW k \in Nat
  PROVE  /\ Left(pg, bt, k) \in Seq(Row) /\ Len(Left(pg, bt, k)) = k
         /\ \A i \in 1 .. k : Left(pg, bt, k)[i] = RowOut(pg, bt, i)
<1>1. Left(pg, bt, k) = [i \in 1 .. k |-> RowOut(pg, bt, i)]
  BY DEF Left, RowOut
<1>2. \A i \in 1 .. k : RowOut(pg, bt, i) \in Row
  BY RowOutIs
<1> QED  BY <1>1, <1>2

LEMMA RemembersAll ==
  ASSUME NEW pg \in Pages, NEW bt \in 1 .. Rows, NEW k \in Nat, NEW t,
         sb \in Memory, SbLines # 0, Remembers(t, pg, bt, k)
  PROVE  Grows(sb, t, pg, bt, k)
<1> DEFINE old == Scrollback(sb)
           left == Left(pg, bt, k)
           all == old \o left
           n == sb.top + k
           fits == Lesser(Len(all), SbLines - 1)
<1>1. /\ old \in Seq(Row) /\ Len(old) = sb.top /\ sb.top \in Nat
      /\ \A i \in 1 .. sb.top : old[i] = sb.lines[SbLines - sb.top + i - 1]
  BY ScrollbackIs
<1>2. left \in Seq(Row) /\ Len(left) = k /\ \A i \in 1 .. k : left[i] = RowOut(pg, bt, i)
  BY LeftIs
<1> HIDE DEF old, left
<1>3. all \in Seq(Row) /\ Len(all) = n
  <2>1. all \in Seq(Row) /\ Len(all) = Len(old) + Len(left)
    BY <1>1, <1>2, ConcatProperties
  <2> HIDE DEF all
  <2> QED  BY <1>1, <1>2, <2>1
<1>4. ASSUME NEW i \in 1 .. n PROVE all[i] = RowOfAll(pg, bt, i)
  <2>1. CASE i <= sb.top
    <3>1. all[i] = old[i] /\ i \in 1 .. sb.top
      BY <1>1, <1>2, <2>1
    <3> QED  BY <1>1, <2>1, <3>1 DEF RowOfAll
  <2>2. CASE ~ i <= sb.top
    <3>1. i - sb.top \in 1 .. k
      BY <1>1, <2>2
    <3>2. i \in Len(old) + 1 .. Len(old) + Len(left) /\ i - Len(old) = i - sb.top
      BY <1>1, <1>2, <2>2
    <3>3. all[i] = left[i - Len(old)]
      <4>1. /\ old \in Seq(Row) /\ left \in Seq(Row) /\ i \in 1 .. Len(old) + Len(left)
            /\ ~ i <= Len(old)
        BY <1>1, <1>2, <3>2
      <4> QED  BY <4>1, ConcatProperties
    <3>4. left[i - sb.top] = RowOut(pg, bt, i - sb.top)
      BY <1>2, <3>1
    <3> QED  BY <2>2, <3>2, <3>3, <3>4 DEF RowOfAll
  <2> QED  BY <2>1, <2>2
<1>5. t \in Memory /\ t.top = Lesser(n, SbLines - 1)
      /\ \A m \in 1 .. t.top : Kept(t, m) = RowOfAll(pg, bt, sb.top + k - m + 1)
  BY DepthIs, Zenon DEF Remembers
<1>6. /\ Scrollback(t) \in Seq(Row) /\ Len(Scrollback(t)) = t.top /\ t.top \in Nat
      /\ \A i \in 1 .. t.top : Scrollback(t)[i] = t.lines[SbLines - t.top + i - 1]
  BY <1>5, ScrollbackIs
<1>7. t.top = fits
  BY <1>3, <1>5, Zenon
<1> DEFINE h == n - fits + 1
           last == From(all, h)
<1>8. n \in Nat /\ fits \in 0 .. n /\ h \in 1 .. n + 1
  <2>1. n \in Nat /\ SbLines - 1 \in Nat
    BY <1>1, DepthIs
  <2>2. fits = Lesser(n, SbLines - 1)
    BY <1>3
  <2> HIDE DEF all, fits, n
  <2> QED  BY <2>1, <2>2 DEF Lesser
<1>9. /\ Suffix(all, fits) = last /\ last \in Seq(Row) /\ Len(last) = fits
      /\ \A j \in 1 .. fits : last[j] = all[h + j - 1]
  <2>1. Suffix(all, fits) = last
    BY <1>3 DEF Suffix, From
  <2> HIDE DEF all, fits
  <2>2. /\ last \in Seq(Row) /\ Len(last) = n - h + 1
        /\ \A j \in 1 .. n - h + 1 : last[j] = all[h + j - 1]
    <3> HIDE DEF h, n
    <3> QED  BY <1>3, <1>8, FromIs
  <2>3. n - h + 1 = fits
    BY <1>8
  <2> QED  BY <2>1, <2>2, <2>3
<1>10. ASSUME NEW j \in 1 .. fits PROVE Scrollback(t)[j] = last[j]
  <2> DEFINE m == fits - j + 1
  <2>0. n = sb.top + k /\ SbLines \in Nat /\ sb.top \in Nat
    BY <1>1, Grid
  <2> HIDE DEF all, fits, n
  <2>1. /\ m \in 1 .. t.top /\ SbLines - t.top + j - 1 = SbLines - m
        /\ sb.top + k - m + 1 = h + j - 1 /\ h + j - 1 \in 1 .. n
    <3>1. t.top = fits /\ n \in Nat /\ fits \in Nat /\ fits <= n /\ h = n - fits + 1
      BY <1>7, <1>8
    <3>2. m \in 1 .. fits /\ SbLines - fits + j - 1 = SbLines - m
          /\ n - m + 1 = h + j - 1 /\ h + j - 1 \in 1 .. n
      BY <2>0, <3>1
    <3> HIDE DEF m, h
    <3> QED  BY <2>0, <3>1, <3>2
  <2>2. Scrollback(t)[j] = Kept(t, m)
    BY <1>6, <1>7, <2>1 DEF Kept
  <2> HIDE DEF m, h, last
  <2>3. Kept(t, m) = RowOfAll(pg, bt, h + j - 1)
    BY <1>5, <2>1
  <2>4. all[h + j - 1] = RowOfAll(pg, bt, h + j - 1)
    BY <1>4, <2>1
  <2> QED  BY <1>9, <2>2, <2>3, <2>4
<1>11. Scrollback(t) = last
  <2> DEFINE a == Scrollback(t)
  <2>1. a \in Seq(Row) /\ last \in Seq(Row) /\ Len(a) = fits /\ Len(last) = fits
        /\ \A j \in 1 .. fits : a[j] = last[j]
    BY <1>6, <1>7, <1>9, <1>10
  <2> HIDE DEF a, last, fits
  <2>2. a = last
    BY <2>1
  <2> QED  BY <2>2 DEF a
<1>12. Scrollback(t) = Suffix(all, fits)
  BY <1>9, <1>11
<1> QED  BY <1>12 DEF Grows, old, left

-----------------------------------------------------------------------------
(* Every step keeps the scrollback, forgets it, or adds to it what leaves  *)
(* the page.                                                               *)

SameBelow(k) == \A r \in 0 .. scroll_bottom - 1 - k : page'[r] = page[r + k]

HistoryKept ==
  \/ sb' = sb
  \/ Reset
  \/ \E k \in ScrollsBy : /\ Grows(sb, sb', page, scroll_bottom, k)
                          /\ scroll_top = 0 /\ SameBelow(k)

SbStep == sb' \in Memory /\ HistoryKept

LEMMA SameSb ==
  ASSUME sb \in Memory, sb' = sb
  PROVE  SbStep
  BY DEF SbStep, HistoryKept

LEMMA PageScrollOK ==
  ASSUME PageTypeOK, sb \in Memory, NEW st, NEW k \in Nat,
         st = 0 => scroll_top = 0,
         sb' = PushRows(page, st, scroll_bottom, k),
         k # 0 => k \in ScrollsBy,
         st = 0 /\ k # 0 => SameBelow(k)
  PROVE  SbStep
<1>1. page \in Pages /\ scroll_bottom \in 1 .. Rows
  BY TypeParts, Grid
<1>2. CASE st # 0 \/ SbLines = 0
  <2>1. sb' = sb
    BY <1>2 DEF PushRows
  <2> QED  BY <2>1, SameSb
<1>3. CASE st = 0 /\ SbLines # 0 /\ k = 0
  <2>1. PICK f : Pushing(f, page, scroll_bottom, 0) /\ PushRows(page, 0, scroll_bottom, 0) = f[0]
    BY <1>1, <1>3, PushRowsIs
  <2>2. f[0] = sb
    BY <2>1, PushingAt
  <2> QED  BY <1>3, <2>1, <2>2, SameSb
<1>4. CASE st = 0 /\ SbLines # 0 /\ k # 0
  <2>1. Remembers(PushRows(page, 0, scroll_bottom, k), page, scroll_bottom, k)
    BY <1>1, <1>4, PushRowsRemembers
  <2>2. Remembers(sb', page, scroll_bottom, k)
    BY <1>4, <2>1
  <2>3. Grows(sb, sb', page, scroll_bottom, k) /\ sb' \in Memory
    BY <1>1, <1>4, <2>2, RemembersAll DEF Remembers
  <2> QED  BY <1>4, <2>3 DEF SbStep, HistoryKept
<1> QED  BY <1>2, <1>3, <1>4

(* An offset at or behind the start of a row is in it or below.            *)
LEMMA RowBelow ==
  ASSUME NEW c \in Nat, NEW r \in Nat, r * Cols <= c
  PROVE  r <= c \div Cols
<1> DEFINE q == c \div Cols
<1> SUFFICES ASSUME q + 1 <= r PROVE FALSE
  BY RowAndColumn
<1>1. q \in Nat /\ q * Cols \in Nat /\ c < q * Cols + Cols
  BY RowAndColumn, Grid
<1> HIDE DEF q
<1>2. (q + 1) * Cols <= r * Cols /\ (q + 1) * Cols = q * Cols + Cols
  BY <1>1, Grid, ProductGrows, q + 1 \in Nat
<1> QED  BY <1>1, <1>2, Grid, r * Cols \in Nat

(* Where the cursor comes from and where it goes if the page is scrolled.  *)
LEMMA PullsIs ==
  ASSUME PageTypeOK, NEW c \in Nat
  PROVE  /\ Pulls(c) \in {0, 1, 2}
         /\ Pulls(c) = 2 => scroll_bottom * Cols + Cols <= c
         /\ Pulls(c) # 0 => (scroll_bottom - 1) * Cols <= Settled(c)
<1> DEFINE low == scroll_top * Cols
           high == scroll_bottom * Cols
<1>1. low \in Nat /\ high \in Nat /\ low + Cols < high
      /\ Cols \in Nat /\ Cols >= 10
  BY Region, Grid
<1>2. \A d \in Int : Pull(d) = IF d - Cols < low THEN low
                               ELSE IF d - Cols > high THEN high ELSE d - Cols
  BY DEF Pull, Keep
<1>3. \A d \in Int : Below(d) <=> d >= high
  BY DEF Below
<1>4. (scroll_bottom - 1) * Cols = high - Cols
  BY Region, Grid
<1> HIDE DEF low, high
<1>5. Pull(c) \in Int
  BY <1>1, <1>2
<1>6. Pulls(c) = IF c < high THEN 0 ELSE IF Pull(c) < high THEN 1 ELSE 2
  BY <1>1, <1>3, <1>5 DEF Pulls
<1>7. Settled(c) = IF c < high THEN c ELSE IF Pull(c) < high THEN Pull(c) ELSE Pull(Pull(c))
  BY <1>1, <1>3, <1>5 DEF Settled
<1>8. c >= high => Pull(c) = IF c - Cols > high THEN high ELSE c - Cols
  BY <1>1, <1>2
<1>9. Pull(high) = high - Cols
  BY <1>1, <1>2
<1>10. Pulls(c) \in {0, 1, 2} /\ (Pulls(c) = 2 => high + Cols <= c)
  BY <1>1, <1>6, <1>8
<1>11. Pulls(c) # 0 => high - Cols <= Settled(c)
  <2>1. CASE c < high
    BY <1>6, <2>1
  <2>2. CASE c >= high /\ Pull(c) < high
    BY <1>1, <1>7, <1>8, <2>2
  <2>3. CASE c >= high /\ Pull(c) >= high
    <3>1. c - Cols >= high
      BY <1>1, <1>8, <2>3
    <3>2. Settled(c) = Pull(Pull(c))
      BY <1>1, <1>5, <1>7, <2>3
    <3>3. Pull(Pull(c)) = high - Cols \/ Pull(c) > high
      BY <1>1, <1>8, <1>9, <2>3, <3>1
    <3>4. ~ Pull(c) > high
      BY <1>1, <1>8, <2>3
    <3> QED  BY <1>1, <3>2, <3>3, <3>4
  <2> QED  BY <1>1, <1>5, <2>1, <2>2, <2>3
<1> QED  BY <1>4, <1>10, <1>11 DEF high

LEMMA PullsAllowed ==
  ASSUME PageTypeOK, NEW c \in Nat, c <= cur + Cols, Pulls(c) # 0
  PROVE  Pulls(c) \in ScrollsBy
<1>1. cur \in Nat /\ scroll_bottom \in Nat /\ scroll_bottom * Cols \in Nat
      /\ Cols \in Nat
  BY Region, Grid
<1>2. CASE Pulls(c) = 1
  BY <1>2 DEF ScrollsBy
<1>3. CASE Pulls(c) = 2
  <2>1. scroll_bottom * Cols <= cur
    <3>1. scroll_bottom * Cols + Cols <= c
      BY <1>3, PullsIs
    <3> QED  BY <1>1, <3>1
  <2>2. currow >= scroll_bottom
    <3>1. scroll_bottom <= cur \div Cols
      BY <1>1, <2>1, RowBelow
    <3> QED  BY <1>1, <3>1, RowAndColumn DEF currow
  <2> QED  BY <1>3, <2>2 DEF ScrollsBy
<1> QED  BY <1>2, <1>3, PullsIs

(* What the rows of the region become when it is scrolled at the top.      *)
LEMMA ScrolledAt ==
  ASSUME PageTypeOK, NEW k \in Nat, NEW r \in 0 .. scroll_bottom - 1 - k
  PROVE  r \in RowId /\ ScrollRows(page, 0, scroll_bottom, k)[r] = page[r + k]
<1>1. scroll_bottom \in Nat /\ scroll_bottom <= Rows /\ Rows \in Nat
  BY TypeParts, Grid
<1>2. r \in RowId /\ ~ (r < 0 \/ r >= scroll_bottom) /\ r + k < scroll_bottom
  BY <1>1 DEF RowId
<1> QED  BY <1>2 DEF ScrollRows

LEMMA SettleSb ==
  ASSUME PageTypeOK, sb \in Memory, NEW c \in Nat, c <= cur + Cols, Settle(c)
  PROVE  SbStep
<1> DEFINE k == Pulls(c)
<1>1. /\ page' = ScrollRows(page, scroll_top, scroll_bottom, k)
      /\ sb' = PushRows(page, scroll_top, scroll_bottom, k)
  BY DEF Settle, page_scroll
<1>2. k \in Nat /\ (k # 0 => k \in ScrollsBy)
  BY PullsIs, PullsAllowed
<1> HIDE DEF k
<1>3. scroll_top = 0 => SameBelow(k)
  BY <1>1, <1>2, ScrolledAt DEF SameBelow
<1> QED  BY <1>1, <1>2, <1>3, PageScrollOK

LEMMA PutCharSb ==
  ASSUME PageTypeOK, sb \in Memory, NEW ch, PutChar(ch)
  PROVE  SbStep
<1> DEFINE k == Pulls(cur)
           c == Settled(cur)
           q == c \div Cols
           pg == ScrollRows(page, scroll_top, scroll_bottom, k)
           other == {x \in pg[q] : x[1] # c % Cols}
           shown == IF Graphic(ch) THEN "line" ELSE ch
           new == IF ch = "blank" THEN other ELSE other \cup {<<c % Cols, shown>>}
<1>1. /\ page' = [pg EXCEPT ![q] = new]
      /\ sb' = PushRows(page, scroll_top, scroll_bottom, k)
  BY DEF PutChar
<1>2. cur \in Nat /\ cur <= cur + Cols /\ scroll_bottom - 1 \in Nat /\ c \in Nat /\ q \in Nat
  <2>1. cur \in Nat /\ cur <= cur + Cols /\ scroll_bottom - 1 \in Nat
    BY Region, TypeParts, Grid
  <2>2. c \in Nat
    BY <2>1, SettledInPage
  <2>3. q \in Nat
    BY <2>2, RowAndColumn
  <2> QED  BY <2>1, <2>2, <2>3
<1>3. k \in Nat /\ (k # 0 => k \in ScrollsBy /\ scroll_bottom - 1 <= q)
  BY <1>2, PullsIs, PullsAllowed, RowBelow
<1> HIDE DEF k, q, new
<1>4. ASSUME scroll_top = 0, k # 0 PROVE SameBelow(k)
  <2> SUFFICES ASSUME NEW r \in 0 .. scroll_bottom - 1 - k PROVE page'[r] = page[r + k]
    BY DEF SameBelow
  <2>1. r \in RowId /\ pg[r] = page[r + k]
    BY <1>3, <1>4, ScrolledAt
  <2>2. r # q
    BY <1>2, <1>3, <1>4
  <2>3. DOMAIN pg = RowId
    BY DEF ScrollRows
  <2> HIDE DEF pg
  <2> QED  BY <1>1, <2>1, <2>2, <2>3
<1> QED  BY <1>1, <1>3, <1>4, PageScrollOK

LEMMA DeleteLinesSb ==
  ASSUME PageTypeOK, sb \in Memory, NEW a \in Args, DeleteLines(a)
  PROVE  SbStep
<1>1. /\ page' = ScrollRows(page, currow, scroll_bottom, a)
      /\ sb' = PushRows(page, currow, scroll_bottom, a)
      /\ scroll_top * Cols <= cur
  BY DEF DeleteLines, page_scroll, InRegion
<1>2. a \in Nat /\ a \in ScrollsBy
  BY Grid DEF ScrollsBy
<1>3. currow = 0 => scroll_top = 0
  <2>1. scroll_top <= currow /\ scroll_top \in Nat
    BY <1>1, Region, RowBelow DEF currow
  <2> QED  BY <2>1
<1>4. currow = 0 => SameBelow(a)
  BY <1>1, <1>2, ScrolledAt DEF SameBelow
<1> QED  BY <1>1, <1>2, <1>3, <1>4, PageScrollOK

LEMMA SbNext ==
  ASSUME PageTypeOK, sb \in Memory, TerminalNext
  PROVE  SbStep
<1>0. cur \in Nat /\ Cols \in Nat /\ curcol \in Nat /\ curcol <= cur
  <2>1. cur \in Nat /\ Cols \in Nat /\ curcol \in Nat
    BY Region, Grid, RowAndColumn DEF curcol
  <2>2. cur = (cur \div Cols) * Cols + curcol /\ (cur \div Cols) * Cols \in Nat
    BY <2>1, RowAndColumn DEF curcol
  <2> QED  BY <2>1, <2>2
<1>1. CASE Control
  <2>1. CASE PrintLetter \/ PrintBlank
    BY <2>1, PutCharSb DEF PrintLetter, PrintBlank
  <2>2. CASE LineFeed
    <3> DEFINE c == IF wrapped THEN cur ELSE cur + Cols
    <3>1. c \in Nat /\ c <= cur + Cols /\ Settle(c)
      BY <1>0, <2>2 DEF LineFeed
    <3> QED  BY <3>1, SettleSb
  <2>3. CASE CarriageReturn \/ Tab \/ Backspace \/ ShiftOut \/ ShiftIn
    BY <2>3, SameSb DEF CarriageReturn, Tab, Backspace, ShiftOut, ShiftIn, MoveTo, Charset,
                       UNCHANGEDText
  <2> QED  BY <1>1, <2>1, <2>2, <2>3 DEF Control
<1>2. CASE Escape
  <2>1. CASE Reset
    <3>1. sb' = [sb EXCEPT !.top = 0]
      BY <2>1 DEF Reset
    <3>2. sb' \in Memory
      BY <3>1, DepthIs DEF Memory
    <3> QED  BY <2>1, <3>2 DEF SbStep, HistoryKept
  <2>2. CASE NextLine
    <3> DEFINE c == cur - curcol + (IF wrapped THEN 0 ELSE Cols)
    <3>1. c \in Nat /\ c <= cur + Cols /\ Settle(c)
      BY <1>0, <2>2 DEF NextLine
    <3> QED  BY <3>1, SettleSb
  <2>3. CASE Index \/ ReverseIndex \/ Align \/ G0Graphics \/ G1Graphics \/ AsciiCharset
    BY <2>3, SameSb DEF Index, ReverseIndex, Align, G0Graphics, G1Graphics, AsciiCharset,
                       MoveTo, Charset, UNCHANGEDText
  <2> QED  BY <1>2, <2>1, <2>2, <2>3 DEF Escape
<1>3. CASE CsiMove
  <2>1. sb' = sb
    BY <1>3 DEF CsiMove, CursorUp, CursorDown, CursorRight, CursorLeft, ColumnTo, RowTo,
                Position, SetRegion, MoveTo, UNCHANGEDText
  <2> QED  BY <2>1, SameSb
<1>4. CASE CsiErase
  <2>1. sb' = sb
    BY <1>4 DEF CsiErase, EraseChars, Edit
  <2> QED  BY <2>1, SameSb
<1>5. CASE CsiEdit
  <2>1. PICK a \in Args : InsertChars(a) \/ DeleteChars(a) \/ InsertLines(a) \/ DeleteLines(a)
    BY <1>5 DEF CsiEdit
  <2>2. CASE InsertChars(a) \/ DeleteChars(a) \/ InsertLines(a)
    <3>1. sb' = sb
      BY <2>2 DEF InsertChars, DeleteChars, InsertLines, EditRow, Edit
    <3> QED  BY <3>1, SameSb
  <2> QED  BY <2>1, <2>2, DeleteLinesSb
<1>6. CASE SetMode \/ ResetMode
  <2>1. sb' = sb
    BY <1>6 DEF SetMode, ResetMode, ColumnMode, OriginMode, UNCHANGEDText
  <2> QED  BY <2>1, SameSb
<1> QED  BY <1>1, <1>2, <1>3, <1>4, <1>5, <1>6 DEF TerminalNext

-----------------------------------------------------------------------------
(* Together.                                                               *)

LEMMA InitOK ==
  ASSUME TerminalInit
  PROVE  Inv
<1>1. page \in Pages
  BY DEF TerminalInit, Pages, Row, BlankRow
<1>2. PageTypeOK
  <2>1. 0 \in Nat /\ Rows \in Nat /\ 0 + 1 < Rows /\ Rows <= Rows /\ 0 \in 0 .. PageLen
    BY Grid
  <2> QED
    BY <1>1, <2>1 DEF TerminalInit, PageTypeOK, Pages
<1> QED
  BY <1>2 DEF TerminalInit, Inv, FlagIsRow

LEMMA NextOK ==
  ASSUME Inv, TerminalNext
  PROVE  StepOK
<1>1. CASE CsiEdit
  BY <1>1, EditCharsOK, EditLinesOK DEF CsiEdit
<1> QED
  BY <1>1, ControlOK, EscapeOK, CsiMoveOK, CsiEraseOK, ModeOK DEF TerminalNext

LEMMA StutterOK ==
  ASSUME Inv, UNCHANGED vars
  PROVE  StepOK
<1>1. /\ cur' = cur /\ page' = page /\ wrapped' = wrapped /\ typed' = typed
      /\ UNCHANGEDModes
  BY DEF vars, UNCHANGEDModes
<1> QED
  BY <1>1, TypeParts, SamePage, QuietStep DEF StepOK, Inv, FlagsKept, FlagsMove, KeepsFlag

LEMMA Always == TerminalSpec => []Inv
<1>1. TerminalInit => Inv
  BY InitOK
<1>2. Inv /\ [TerminalNext]_vars => Inv'
  BY NextOK, StutterOK DEF StepOK
<1> QED
  BY <1>1, <1>2, PTL DEF TerminalSpec

SbTypeOK == sb \in Memory

LEMMA AlwaysTyped == TerminalSpec => [](PageTypeOK /\ SbTypeOK)
<1>1. TerminalInit => SbTypeOK
  <2>1. BlankRow \in Row /\ 0 \in 0 .. Depth
    BY DepthIs DEF BlankRow, Row
  <2> QED  BY <2>1 DEF TerminalInit, SbTypeOK, Memory
<1>2. PageTypeOK /\ SbTypeOK /\ [TerminalNext]_vars => SbTypeOK'
  BY SbNext DEF SbStep, SbTypeOK, vars
<1>3. Inv => PageTypeOK
  BY DEF Inv
<1> QED
  BY <1>1, <1>2, <1>3, Always, PTL DEF TerminalSpec

(* The cursor stays in the page or right behind it, the region keeps two    *)
(* rows and the scrollback its memory, whatever the shell sends: what every  *)
(* address that terminal.c computes rests on.                               *)
THEOREM CursorInPage == TerminalSpec => []TermTypeOK
<1>1. PageTypeOK /\ SbTypeOK => TermTypeOK
  BY DEF SbTypeOK, TermTypeOK
<1> QED
  BY <1>1, AlwaysTyped, PTL

(* The row that a line ends in is the one its last character is in.        *)
LEMMA LineEndsOK ==
  ASSUME Inv, typed # NoRow
  PROVE  /\ CarriageReturn => cur' = B(typed * Cols)
         /\ LineFeed \/ NextLine => cur' \div Cols = Lesser(typed + 1, scroll_bottom - 1)
<1>1. /\ PageTypeOK /\ cur \in Nat /\ typed \in Nat /\ typed < scroll_bottom
      /\ IF wrapped THEN cur = (typed + 1) * Cols ELSE cur \div Cols = typed
  BY Region, TypeParts, Grid DEF Inv, FlagIsRow, RowId
<1>2. /\ typed * Cols \in Nat /\ (typed + 1) * Cols = typed * Cols + Cols
      /\ Cols \in Nat /\ Cols >= 10 /\ curcol \in 0 .. Cols - 1
  BY <1>1, RowAndColumn, Grid DEF curcol
<1>3. IF wrapped THEN cur = typed * Cols + Cols /\ curcol = 0
      ELSE cur = typed * Cols + curcol
  <2>1. CASE wrapped
    BY <1>1, <1>2, <2>1, MultipleOfCols, typed + 1 \in Nat DEF curcol
  <2>2. CASE ~ wrapped
    BY <1>1, <2>2, RowAndColumn DEF curcol
  <2> QED
    BY <2>1, <2>2
<1>4. CarriageReturn => cur' = B(typed * Cols)
  <2>1. cur - curcol - (IF wrapped THEN Cols ELSE 0) = typed * Cols
    BY <1>2, <1>3
  <2> QED
    BY <2>1 DEF CarriageReturn
<1>5. ASSUME NEW k \in 0 .. Cols - 1, Settle((typed + 1) * Cols + k)
      PROVE  cur' \div Cols = Lesser(typed + 1, scroll_bottom - 1)
  BY <1>1, <1>5, SettledRow DEF Settle
<1>6. LineFeed => \E k \in 0 .. Cols - 1 : Settle((typed + 1) * Cols + k)
  <2> DEFINE c == IF wrapped THEN cur ELSE cur + Cols
  <2>1. c = (typed + 1) * Cols + curcol
    BY <1>1, <1>2, <1>3
  <2>2. LineFeed => Settle(c)
    BY DEF LineFeed
  <2> HIDE DEF c
  <2> QED
    BY <1>2, <2>1, <2>2
<1>7. NextLine => \E k \in 0 .. Cols - 1 : Settle((typed + 1) * Cols + k)
  <2> DEFINE c == cur - curcol + (IF wrapped THEN 0 ELSE Cols)
  <2>1. 0 \in 0 .. Cols - 1 /\ c = (typed + 1) * Cols + 0
    BY <1>1, <1>2, <1>3
  <2>2. NextLine => Settle(c)
    BY DEF NextLine
  <2> HIDE DEF c
  <2> QED
    BY <2>1, <2>2
<1> QED
  BY <1>4, <1>5, <1>6, <1>7

(* CR, LF and NEL end the line that the last character is in: for every     *)
(* geometry and region, whether the character filled its row or not, and    *)
(* whatever was erased, edited or scrolled since, as long as no sequence    *)
(* has moved the cursor.                                                    *)
THEOREM LinesEndByText == TerminalSpec => LineEndsByText
<1>1. Inv /\ [TerminalNext]_vars =>
        [typed # NoRow =>
           /\ CarriageReturn => cur' = B(typed * Cols)
           /\ LineFeed \/ NextLine =>
                cur' \div Cols = Lesser(typed + 1, scroll_bottom - 1)]_vars
  BY LineEndsOK
<1> QED
  BY <1>1, Always, PTL DEF TerminalSpec, LineEndsByText

(* 'J' erases in the page, 'K' and 'X' in the row of the cursor, unless the *)
(* cursor is behind the page.                                               *)
THEOREM ErasuresStay == TerminalSpec => []ErasesInPage
<1>1. ASSUME PageTypeOK PROVE ErasesInPage
  <2> SUFFICES ASSUME cur < PageLen,
                      NEW cmd \in {"J", "K", "X"}, NEW a \in Args
               PROVE  LET from == EraseSpan(cmd, a)[1]
                          to == from + EraseSpan(cmd, a)[2]
                          first == IF cmd = "J" THEN 0 ELSE currow * Cols
                          last == IF cmd = "J" THEN PageLen ELSE (currow + 1) * Cols
                      IN  first <= from /\ from <= to /\ to <= last
    BY DEF ErasesInPage
  <2> DEFINE start == currow * Cols
  <2>1. /\ cur \in Nat /\ a \in Nat /\ PageLen \in Nat /\ Cols \in Nat
        /\ curcol \in Nat /\ curcol < Cols
        /\ start \in Nat /\ cur = start + curcol
        /\ (currow + 1) * Cols = start + Cols
    <3>1. cur \in Nat /\ a \in Nat /\ PageLen \in Nat /\ Cols \in Nat
      BY <1>1, Region, Grid
    <3>2. /\ cur % Cols \in 0 .. Cols - 1 /\ cur \div Cols \in Nat
          /\ cur = (cur \div Cols) * Cols + (cur % Cols)
          /\ (cur \div Cols) * Cols \in Nat
      BY <3>1, RowAndColumn
    <3>3. (cur \div Cols + 1) * Cols = (cur \div Cols) * Cols + Cols
      BY <3>1, <3>2
    <3> QED
      BY <3>1, <3>2, <3>3 DEF curcol, currow
  <2>2. CASE cmd = "J"
    <3>1. EraseSpan(cmd, a) = IF a = 1 THEN <<0, cur + 1>>
                              ELSE IF a = 2 THEN <<0, PageLen>> ELSE <<cur, PageLen - cur>>
      BY <2>2 DEF EraseSpan
    <3> QED
      BY <2>1, <2>2, <3>1
  <2>3. CASE cmd = "K"
    <3>1. EraseSpan(cmd, a) = IF a = 1 THEN <<cur - curcol, curcol + 1>>
                              ELSE IF a = 2 THEN <<cur - curcol, Cols>>
                              ELSE <<cur, Cols - curcol>>
      BY <2>3 DEF EraseSpan
    <3> HIDE DEF start
    <3> QED
      BY <2>1, <2>3, <3>1 DEF start
  <2>4. CASE cmd = "X"
    <3>1. EraseSpan(cmd, a) = <<cur, Lesser(a, Cols - curcol)>>
      BY <2>4 DEF EraseSpan
    <3> QED
      BY <2>1, <2>4, <3>1 DEF Lesser
  <2> QED
    BY <2>2, <2>3, <2>4
<1> QED
  BY <1>1, AlwaysTyped, PTL

(* Text, newlines, scrolling and the inserting and deleting of lines stay   *)
(* out of the rows under the scroll region.                                 *)
THEOREM BottomIsKept == TerminalSpec => BottomKept
<1>1. Inv /\ [TerminalNext]_vars =>
        [(\A r \in scroll_bottom .. Rows - 1 : page'[r] = page[r]) \/ ChangesRows]_vars
  BY NextOK, StutterOK DEF StepOK, RowsKept
<1> QED
  BY <1>1, Always, PTL DEF TerminalSpec, BottomKept

(* The scrollback holds what left the top of the page, in order and without *)
(* a gap, as far as its memory reaches, for every size of it and whatever   *)
(* the shell sends; only ESC c forgets it.                                  *)
THEOREM ScrollbackKept == TerminalSpec => ScrollbackIsHistory
<1>1. PageTypeOK /\ SbTypeOK /\ [TerminalNext]_vars => HistoryKept
  <2>1. UNCHANGED vars => HistoryKept
    BY DEF vars, HistoryKept
  <2> QED  BY <2>1, SbNext DEF SbStep, SbTypeOK
<1>2. HistoryKept =>
        [\/ sb' = sb
         \/ Reset
         \/ \E k \in ScrollsBy :
              LET left == [i \in 1 .. k |-> IF i <= scroll_bottom THEN page[i - 1]
                                            ELSE BlankRow]
                  all == Scrollback(sb) \o left
                  fits == IF SbLines = 0 THEN 0 ELSE Lesser(Len(all), SbLines - 1)
              IN  /\ Scrollback(sb') = Suffix(all, fits)
                  /\ scroll_top = 0
                  /\ \A r \in 0 .. scroll_bottom - 1 - k :
                       page'[r] = page[r + k]]_vars
  BY Zenon DEF HistoryKept, Grows, Left, SameBelow
<1> QED
  BY <1>1, <1>2, AlwaysTyped, PTL DEF TerminalSpec, ScrollbackIsHistory
=============================================================================
