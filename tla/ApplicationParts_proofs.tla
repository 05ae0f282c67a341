---------------------- MODULE ApplicationParts_proofs -----------------------
(***************************************************************************)
(* The parts of myts-ng that have specifications of their own: the tracker *)
(* of the help command for every alphabet, every command and every size of *)
(* the buffer; the panel for every set of boxes and of refresh             *)
(* configurations, where the work is in the geometry, which is about       *)
(* integers only; and the arrays of core/event_loop.hpp, which implement   *)
(* LoopRegistry for every size and every sequence of calls the callbacks   *)
(* make.                                                                   *)
(***************************************************************************)
EXTENDS HelpCommandTracker, EinkPanel, EventLoop,
        SequenceTheorems, FiniteSetTheorems, TLAPS

-----------------------------------------------------------------------------
(* The help command tracker.                                               *)

TrackerInv == TrackerTypeOK /\ TextIsLine

LEMMA TrackerFacts ==
  /\ Cap \in Nat /\ Cap > 0 /\ MaxLine \in Nat
  /\ Word \in Seq(Chars \ {Mark}) /\ Len(Word) < Cap
  /\ Mark = "~"
<1>1. Word \in Seq(Chars \ {"~"}) /\ Cap \in Nat /\ MaxLine \in Nat /\ Len(Word) < Cap
  BY TrackerAssumption
<1>2. Len(Word) \in Nat
  BY <1>1
<1> QED
  BY <1>1, <1>2 DEF Mark

LEMMA AllButLast ==
  ASSUME NEW S, NEW s \in Seq(S), s # <<>>
  PROVE  SubSeq(s, 1, Len(s) - 1) \in Seq(S) /\ Len(SubSeq(s, 1, Len(s) - 1)) = Len(s) - 1
<1> DEFINE n == Len(s) - 1
<1>1. Len(s) \in Nat \ {0}
  BY EmptySeq
<1>2. n \in Nat /\ \A k \in 1..n : s[k] \in S
  BY <1>1, LenProperties
<1> HIDE DEF n
<1>3. SubSeq(s, 1, n) \in Seq(S) /\ Len(SubSeq(s, 1, n)) = IF 1 <= n THEN n - 1 + 1 ELSE 0
  BY <1>2, SubSeqProperties
<1>4. Len(SubSeq(s, 1, n)) = n
  BY <1>2, <1>3
<1> QED
  BY <1>3, <1>4 DEF n

LEMMA NothingTyped ==
  /\ <<>> \in Seq(Chars) /\ <<>> \in Seq(Chars \cup {Mark})
  /\ Len(<<>>) = 0 /\ 0 \in Nat /\ 0 <= Cap
  BY EmptySeq, TrackerFacts

LEMMA TrackerInitInv == TrackerInit => TrackerInv
<1> SUFFICES ASSUME TrackerInit PROVE TrackerInv
  OBVIOUS
<1>1. TrackerTypeOK
  <2>1. triggered \in BOOLEAN /\ plain \in BOOLEAN /\ mode = "Text"
    BY DEF TrackerInit
  <2>2. text = <<>> /\ line = <<>> /\ peak = 0
    BY DEF TrackerInit
  <2> QED
    BY <2>1, <2>2, NothingTyped DEF TrackerTypeOK
<1>2. TextIsLine
  BY DEF TrackerInit, TextIsLine
<1> QED
  BY <1>1, <1>2 DEF TrackerInv

-----------------------------------------------------------------------------
(* One lemma per action of process_char.                                   *)

LEMMA BeginEscapeInv == TrackerInv /\ BeginEscape => TrackerInv'
  BY NothingTyped DEF BeginEscape, ShellUnknown, TrackerInv, TrackerTypeOK, TextIsLine

LEMMA SubmitInv ==
  ASSUME TrackerInv, NEW c, Submit(c) PROVE TrackerInv'
<1>1. triggered' \in BOOLEAN
  BY DEF Submit, Matches
<1>2. mode' = "Text" /\ text' = <<>> /\ line' = <<>> /\ plain' = TRUE /\ peak' = 0
  BY DEF Submit, Reset, ShellNewLine
<1> QED
  BY <1>1, <1>2, NothingTyped DEF TrackerInv, TrackerTypeOK, TextIsLine

LEMMA EraseInv ==
  ASSUME TrackerInv, NEW c, Erase(c) PROVE TrackerInv'
<1>1. /\ text \in Seq(Chars \cup {Mark}) /\ Len(text) <= Cap
      /\ line \in Seq(Chars) /\ peak \in Nat /\ Len(line) <= peak
      /\ plain \in BOOLEAN /\ mode = "Text"
  BY DEF TrackerInv, TrackerTypeOK, Erase
<1>2. /\ text' \in Seq(Chars \cup {Mark}) /\ Len(text') <= Cap
  BY <1>1, AllButLast, TrackerFacts DEF Erase, Backspaced
<1>3. line' \in Seq(Chars) /\ Len(line') <= peak
  BY <1>1, AllButLast DEF Erase, ShellErases
<1>4. UNCHANGED <<mode, plain, peak>> /\ triggered' = FALSE
  BY DEF Erase, ShellErases
<1>5. text = line => text' = line'
  BY DEF Erase, Backspaced, ShellErases
<1> QED
  BY <1>1, <1>2, <1>3, <1>4, <1>5 DEF TrackerInv, TrackerTypeOK, TextIsLine

LEMMA ControlInv == TrackerInv /\ Control => TrackerInv'
  BY NothingTyped DEF Control, Reset, ShellUnknown, TrackerInv, TrackerTypeOK, TextIsLine

(* The character the buffer has no room for, is one the line has grown     *)
(* past Cap with.                                                          *)
LEMMA AppendCharInv ==
  ASSUME TrackerInv, NEW c, AppendChar(c) PROVE TrackerInv'
<1>1. /\ text \in Seq(Chars \cup {Mark}) /\ Len(text) <= Cap /\ Len(text) \in Nat
      /\ line \in Seq(Chars) /\ peak \in Nat /\ Len(line) <= peak /\ Len(line) \in Nat
      /\ plain \in BOOLEAN /\ mode = "Text" /\ c \in Chars
  BY DEF TrackerInv, TrackerTypeOK, AppendChar
<1>2. text' \in Seq(Chars \cup {Mark}) /\ Len(text') <= Cap
  <2>1. CASE Len(text) < Cap
    BY <1>1, <2>1, TrackerFacts DEF AppendChar, Stored
  <2>2. CASE ~(Len(text) < Cap)
    <3>1. text' = [text EXCEPT ![1] = Mark]
      BY <2>2 DEF AppendChar, Stored
    <3>2. 1 \in 1..Len(text)
      BY <1>1, <2>2, TrackerFacts
    <3> QED
      BY <1>1, <3>1, <3>2
  <2> QED
    BY <2>1, <2>2
<1>3. /\ line' = Append(line, c) /\ line' \in Seq(Chars) /\ Len(line') = Len(line) + 1
      /\ peak' = (IF Len(line) + 1 > peak THEN Len(line) + 1 ELSE peak)
      /\ plain' = plain /\ mode' = mode /\ triggered' = FALSE
  BY <1>1 DEF AppendChar, ShellAppends
<1>4. peak' \in Nat /\ peak <= peak' /\ Len(line') <= peak'
  BY <1>1, <1>3
<1>5. TextIsLine'
  <2> SUFFICES ASSUME plain, peak' <= Cap PROVE text' = line'
    BY <1>1, <1>3 DEF TextIsLine
  <2>1. text = line
    BY <1>1, <1>4, TrackerFacts DEF TrackerInv, TextIsLine
  <2>2. Len(text) < Cap
    BY <1>1, <1>3, <1>4, <2>1, TrackerFacts
  <2> QED
    BY <1>3, <2>1, <2>2 DEF AppendChar, Stored
<1> QED
  BY <1>1, <1>2, <1>3, <1>4, <1>5 DEF TrackerInv, TrackerTypeOK

LEMMA EscapeLineEndInv ==
  ASSUME TrackerInv, NEW c, EscapeLineEnd(c) PROVE TrackerInv'
<1>1. triggered' \in BOOLEAN /\ plain' \in BOOLEAN /\ mode' = "Text"
  BY DEF EscapeLineEnd, Reset, ShellNewLine
<1>2. text' = <<>> /\ line' = <<>> /\ peak' = 0
  BY DEF EscapeLineEnd, Reset, ShellNewLine
<1> QED
  BY <1>1, <1>2, NothingTyped DEF TrackerInv, TrackerTypeOK, TextIsLine

LEMMA EscapeByteInv ==
  ASSUME TrackerInv, NEW c, EscapeByte(c) PROVE TrackerInv'
<1>1. /\ mode' \in {"Text", "Escape", "Csi"}
      /\ text' = text /\ text = <<>> /\ triggered' = FALSE
      /\ plain' = FALSE /\ line' = line /\ peak' = peak
  BY DEF EscapeByte, ShellUnknown, TrackerInv, TrackerTypeOK
<1>2. TrackerTypeOK'
  BY <1>1 DEF TrackerInv, TrackerTypeOK
<1>3. TextIsLine'
  BY <1>1 DEF TextIsLine
<1> QED
  BY <1>2, <1>3 DEF TrackerInv

LEMMA TrackerStepInv == TrackerInv /\ [TrackerNext]_trackerVars => TrackerInv'
<1> SUFFICES ASSUME TrackerInv, [TrackerNext]_trackerVars PROVE TrackerInv'
  OBVIOUS
<1>1. ASSUME NEW c \in Keys, ProcessChar(c) PROVE TrackerInv'
  BY <1>1, BeginEscapeInv, SubmitInv, EraseInv, ControlInv, AppendCharInv,
     EscapeLineEndInv, EscapeByteInv DEF ProcessChar
<1>2. CASE UNCHANGED trackerVars
  BY <1>2 DEF trackerVars, TrackerInv, TrackerTypeOK, TextIsLine
<1> QED
  BY <1>1, <1>2 DEF TrackerNext

(* The two invariants hold together of every execution.                    *)
THEOREM TrackerInvariant == TrackerSpec => []TrackerInv
  BY TrackerInitInv, TrackerStepInv, PTL DEF TrackerSpec

(* The buffer is never written past its end.                               *)
THEOREM TrackerTypeCorrect == TrackerSpec => []TrackerTypeOK
  BY TrackerInvariant, PTL DEF TrackerInv

(* The tracker and the shell agree on a line that fits the buffer.         *)
THEOREM TrackerFollowsLine == TrackerSpec => []TextIsLine
  BY TrackerInvariant, PTL DEF TrackerInv

(* The help screen opens if and only if the submitted line is the command. *)
THEOREM HelpOpensIffTyped == TrackerSpec => HelpIffTyped
<1> DEFINE Ended == line' = <<>> /\ peak' = 0 /\ plain /\ peak <= Cap /\ peak > 0
           Correct == triggered' <=> line = Word
<1>1. TrackerInv /\ [TrackerNext]_trackerVars => [Ended => Correct]_trackerVars
  <2> SUFFICES ASSUME TrackerInv, NEW c \in Keys, ProcessChar(c), Ended PROVE Correct
    BY DEF TrackerNext
  <2>1. mode = "Text" /\ text = line
    BY DEF TrackerInv, TextIsLine
  <2>2. peak \in Nat /\ Len(line) \in Nat
    BY DEF TrackerInv, TrackerTypeOK
  <2>3. peak' # peak
    BY <2>2
  <2>4. CASE Submit(c)
    BY <2>1, <2>4 DEF Submit, Matches
  <2>5. ~AppendChar(c)
    <3> SUFFICES ASSUME AppendChar(c) PROVE FALSE
      OBVIOUS
    <3>1. peak' = IF Len(line) + 1 > peak THEN Len(line) + 1 ELSE peak
      BY DEF AppendChar, ShellAppends
    <3> QED
      BY <2>2, <2>3, <3>1
  <2> QED
    BY <2>1, <2>3, <2>4, <2>5
       DEF ProcessChar, BeginEscape, Control, Erase, ShellErases, ShellUnknown,
           EscapeLineEnd, EscapeByte
<1> QED
  BY <1>1, TrackerInvariant, PTL DEF TrackerSpec, HelpIffTyped

-----------------------------------------------------------------------------
(* The panel.                                                              *)

\* Every pixel of the panel that a covers is covered by b.
CoveredBy(a, b) ==
  \A x \in 0..(Width - 1), y \in 0..(Height - 1) : Covers(a, x, y) => Covers(b, x, y)

\* A box that is not empty and lies in the panel.
Inside(a) ==
  /\ a \in Rects /\ ~IsEmpty(a)
  /\ a.x >= 0 /\ a.y >= 0 /\ Right(a) <= Width /\ Bottom(a) <= Height

-----------------------------------------------------------------------------
(* Even numbers.                                                           *)

LEMMA EvenDifference ==
  ASSUME NEW m \in Int, NEW n \in Int, m % 2 = 0, n % 2 = 0
  PROVE  (n - m) % 2 = 0 /\ (m + n) % 2 = 0
  OBVIOUS

-----------------------------------------------------------------------------
(* Rectangles.                                                             *)

LEMMA NoRectIsEmpty ==
  /\ NoRect \in Rects /\ IsEmpty(NoRect)
  /\ \A x \in Int, y \in Int : ~Covers(NoRect, x, y)
  BY DEF NoRect, Rect, Rects, IsEmpty, Covers, Right, Bottom

(* Clipping keeps the pixels of the panel and yields a box inside it, or   *)
(* nothing when the box has no pixel of the panel.                         *)
LEMMA ClipKeepsPixels ==
  ASSUME NEW a \in Rects
  PROVE  /\ CoveredBy(a, Clip(a, Bounds))
         /\ IsEmpty(Clip(a, Bounds)) \/ Inside(Clip(a, Bounds))
         /\ Clip(a, Bounds) \in Rects
<1> DEFINE x1 == Greater(a.x, 0)
           y1 == Greater(a.y, 0)
           w == Lesser(Right(a), Width) - x1
           h == Lesser(Bottom(a), Height) - y1
           c == Rect(x1, y1, w, h)
<1>1. /\ Width \in Nat \ {0} /\ Height \in Nat \ {0}
      /\ a.x \in Int /\ a.y \in Int /\ a.width \in Int /\ a.height \in Int
  BY DisplayAssumption DEF Rects
<1>2. x1 \in Int /\ y1 \in Int /\ w \in Int /\ h \in Int
  BY <1>1 DEF Greater, Lesser, Right, Bottom
<1>3. c \in Rects /\ c.x = x1 /\ c.y = y1 /\ c.width = w /\ c.height = h
  <2> HIDE DEF x1, y1, w, h
  <2> QED BY <1>2 DEF Rect, Rects
<1>4. /\ Bounds.x = 0 /\ Bounds.y = 0 /\ Bounds.width = Width /\ Bounds.height = Height
      /\ Right(Bounds) = Width /\ Bottom(Bounds) = Height
      /\ ~IsEmpty(Bounds)
  BY <1>1 DEF Bounds, Rect, Right, Bottom, IsEmpty
<1>5. Clip(a, Bounds) = IF IsEmpty(a) \/ IsEmpty(c) THEN NoRect ELSE c
  BY <1>4 DEF Clip
<1>6. CoveredBy(a, c) /\ ((IsEmpty(a) \/ IsEmpty(c)) => CoveredBy(a, NoRect))
  <2> SUFFICES ASSUME NEW x \in 0..(Width - 1), NEW y \in 0..(Height - 1),
                      Covers(a, x, y)
               PROVE  Covers(c, x, y) /\ ~IsEmpty(a) /\ ~IsEmpty(c)
    BY DEF CoveredBy
  <2>1. a.x <= x /\ x < a.x + a.width /\ a.y <= y /\ y < a.y + a.height
    BY DEF Covers, Right, Bottom
  <2>2. x1 <= x /\ x < x1 + w /\ y1 <= y /\ y < y1 + h
    BY <1>1, <2>1 DEF Greater, Lesser, Right, Bottom
  <2> QED
    BY <1>1, <1>2, <1>3, <2>1, <2>2 DEF Covers, Right, Bottom, IsEmpty
<1>7. ~IsEmpty(c) => Inside(c)
  <2> SUFFICES ASSUME w > 0, h > 0 PROVE Inside(c)
    BY <1>2, <1>3 DEF IsEmpty
  <2>1. x1 >= 0 /\ y1 >= 0 /\ x1 + w <= Width /\ y1 + h <= Height
    BY <1>1 DEF Greater, Lesser, Right, Bottom
  <2> QED
    BY <1>2, <1>3, <2>1 DEF Inside, IsEmpty, Right, Bottom
<1> HIDE DEF c
<1> QED
  BY <1>3, <1>5, <1>6, <1>7, NoRectIsEmpty

(* Widening to whole bytes loses no pixel.                                 *)
LEMMA AlignFits ==
  ASSUME NEW a, Inside(a)
  PROVE  /\ AlignEven(a) \in Rects
         /\ Fits(AlignEven(a))
         /\ CoveredBy(a, AlignEven(a))
<1> DEFINE x1 == EvenDown(a.x)
           x2 == EvenUp(a.x + a.width)
           b == Rect(x1, a.y, x2 - x1, a.height)
<1>1. /\ a.x \in Int /\ a.y \in Int /\ a.width \in Int /\ a.height \in Int
      /\ a.width > 0 /\ a.height > 0 /\ a.x >= 0 /\ a.y >= 0
      /\ a.x + a.width <= Width /\ a.y + a.height <= Height
      /\ Width \in Nat \ {0} /\ Height \in Nat \ {0}
  BY DisplayAssumption DEF Inside, Rects, IsEmpty, Right, Bottom
<1>2. /\ x1 \in Int /\ x1 % 2 = 0
      /\ 0 <= x1 /\ x1 <= a.x
  BY <1>1 DEF EvenDown
<1>3. /\ x2 \in Int /\ x2 % 2 = 0
      /\ a.x + a.width <= x2
      /\ x2 <= EvenUp(Width) /\ EvenUp(Width) \in Int
  BY <1>1 DEF EvenUp, EvenDown
<1>4. (x2 - x1) % 2 = 0 /\ x2 - x1 > 0
  <2> HIDE DEF x1, x2
  <2> QED BY <1>1, <1>2, <1>3, EvenDifference
<1>5. AlignEven(a) = b
  BY DEF AlignEven, Right
<1> HIDE DEF x1, x2
<1>6. b.x = x1 /\ b.y = a.y /\ b.width = x2 - x1 /\ b.height = a.height
  BY DEF Rect
<1>7. b \in Rects
  BY <1>1, <1>2, <1>3 DEF Rect, Rects
<1> HIDE DEF b
<1>8. Fits(b)
  BY <1>1, <1>2, <1>3, <1>4, <1>6 DEF Fits, IsEmpty, Right, Bottom
<1>9. CoveredBy(a, b)
  BY <1>1, <1>2, <1>3, <1>6 DEF CoveredBy, Covers, Right, Bottom
<1> QED
  BY <1>5, <1>7, <1>8, <1>9

(* Nor does the bounding box of two regions.                               *)
LEMMA BoundingBoxFits ==
  ASSUME NEW a \in Rects, NEW b \in Rects, Fits(a), Fits(b)
  PROVE  /\ BoundingBox(a, b) \in Rects
         /\ Fits(BoundingBox(a, b))
         /\ CoveredBy(a, BoundingBox(a, b)) /\ CoveredBy(b, BoundingBox(a, b))
<1> DEFINE x1 == Lesser(a.x, b.x)
           y1 == Lesser(a.y, b.y)
           x2 == Greater(a.x + a.width, b.x + b.width)
           y2 == Greater(a.y + a.height, b.y + b.height)
           u == Rect(x1, y1, x2 - x1, y2 - y1)
<1>1. /\ a.x \in Int /\ a.y \in Int /\ a.width \in Int /\ a.height \in Int
      /\ b.x \in Int /\ b.y \in Int /\ b.width \in Int /\ b.height \in Int
      /\ Width \in Nat \ {0} /\ Height \in Nat \ {0}
  BY DisplayAssumption DEF Rects
<1>2. EvenUp(Width) \in Int
  BY <1>1 DEF EvenUp, EvenDown
<1>3. /\ a.width > 0 /\ a.height > 0 /\ a.x >= 0 /\ a.y >= 0
      /\ a.x % 2 = 0 /\ a.width % 2 = 0
      /\ a.x + a.width <= EvenUp(Width) /\ a.y + a.height <= Height
      /\ b.width > 0 /\ b.height > 0 /\ b.x >= 0 /\ b.y >= 0
      /\ b.x % 2 = 0 /\ b.width % 2 = 0
      /\ b.x + b.width <= EvenUp(Width) /\ b.y + b.height <= Height
  BY <1>1 DEF Fits, IsEmpty, Right, Bottom
<1>4. /\ x1 \in Int /\ y1 \in Int /\ x2 \in Int /\ y2 \in Int
      /\ x1 <= a.x /\ x1 <= b.x /\ y1 <= a.y /\ y1 <= b.y /\ x1 >= 0 /\ y1 >= 0
      /\ a.x + a.width <= x2 /\ b.x + b.width <= x2 /\ x2 <= EvenUp(Width)
      /\ a.y + a.height <= y2 /\ b.y + b.height <= y2 /\ y2 <= Height
  BY <1>1, <1>2, <1>3 DEF Lesser, Greater
<1>5. x1 % 2 = 0 /\ (x2 - x1) % 2 = 0
  <2>1. x1 % 2 = 0
    BY <1>3 DEF Lesser
  <2>2. (a.x + a.width) % 2 = 0 /\ (b.x + b.width) % 2 = 0
    BY <1>1, <1>3, EvenDifference
  <2>3. x2 % 2 = 0
    BY <2>2 DEF Greater
  <2> QED
    BY <1>4, <2>1, <2>3, EvenDifference
<1>6. BoundingBox(a, b) = u
  BY DEF BoundingBox, Right, Bottom
<1> HIDE DEF x1, y1, x2, y2
<1>7. u \in Rects /\ u.x = x1 /\ u.y = y1 /\ u.width = x2 - x1 /\ u.height = y2 - y1
  BY <1>4 DEF Rect, Rects
<1> HIDE DEF u
<1>8. Fits(u)
  BY <1>1, <1>2, <1>3, <1>4, <1>5, <1>7 DEF Fits, IsEmpty, Right, Bottom
<1>9. CoveredBy(a, u) /\ CoveredBy(b, u)
  BY <1>1, <1>4, <1>7 DEF CoveredBy, Covers, Right, Bottom
<1> QED
  BY <1>6, <1>7, <1>8, <1>9

-----------------------------------------------------------------------------
(* Steps.                                                                  *)

PanelInv == PanelTypeOK /\ RegionFits /\ OwedIsPending

(* mark_dirty keeps the count and the configuration, keeps the region      *)
(* within the panel, and covers what was pending and the new box.          *)
LEMMA MarkedCovers ==
  ASSUME PanelTypeOK, RegionFits, NEW box \in Rects
  PROVE  LET d == Marked(disp, box)
         IN  /\ d \in [region : Rects, count : 0..CountBound, cfg : Configs]
             /\ HasDirty(d) => Fits(d.region)
             /\ HasDirty(disp) => HasDirty(d)
             /\ CoveredBy(disp.region, d.region) /\ CoveredBy(box, d.region)
<1> DEFINE c == Clip(box, Bounds)
           a == AlignEven(c)
           d == Marked(disp, box)
<1>1. /\ disp \in [region : Rects, count : 0..CountBound, cfg : Configs]
      /\ HasDirty(disp) => Fits(disp.region)
  BY DEF PanelTypeOK, RegionFits
<1>2. CoveredBy(box, c) /\ (IsEmpty(c) \/ Inside(c))
  BY ClipKeepsPixels
<1>3. ASSUME NEW r, Fits(r) PROVE r # NoRect
  BY <1>3, NoRectIsEmpty DEF Fits
<1>4. CASE IsEmpty(c)
  <2>1. d = disp
    BY <1>4 DEF Marked
  <2>2. CoveredBy(box, d.region)
    BY <1>2, <1>4, DisplayAssumption, ClipKeepsPixels
       DEF CoveredBy, Covers, IsEmpty, Right, Bottom, Rects
  <2> QED
    BY <1>1, <2>1, <2>2 DEF CoveredBy
<1>5. CASE ~IsEmpty(c)
  <2>1. a \in Rects /\ Fits(a) /\ CoveredBy(box, a)
    <3>1. a \in Rects /\ Fits(a) /\ CoveredBy(c, a)
      BY <1>2, <1>5, AlignFits
    <3> QED
      BY <1>2, <3>1 DEF CoveredBy
  <2>2. CASE ~HasDirty(disp)
    <3>1. d = [disp EXCEPT !.region = a]
      BY <1>5, <2>2 DEF Marked
    <3>2. CoveredBy(disp.region, a)
      BY <2>2, NoRectIsEmpty DEF HasDirty, CoveredBy
    <3>3. /\ d \in [region : Rects, count : 0..CountBound, cfg : Configs]
          /\ HasDirty(d) /\ Fits(d.region)
          /\ CoveredBy(disp.region, d.region) /\ CoveredBy(box, d.region)
      <4> HIDE DEF a, d
      <4> QED BY <1>1, <1>3, <2>1, <3>1, <3>2 DEF HasDirty
    <3> QED
      BY <3>3
  <2>3. CASE HasDirty(disp)
    <3> DEFINE u == BoundingBox(disp.region, a)
    <3>1. d = [disp EXCEPT !.region = u]
      BY <1>5, <2>3 DEF Marked
    <3>2. /\ u \in Rects /\ Fits(u)
          /\ CoveredBy(disp.region, u) /\ CoveredBy(a, u)
      BY <1>1, <2>1, <2>3, BoundingBoxFits
    <3>3. CoveredBy(box, u)
      BY <2>1, <3>2 DEF CoveredBy
    <3>4. /\ d \in [region : Rects, count : 0..CountBound, cfg : Configs]
          /\ HasDirty(d) /\ Fits(d.region)
          /\ CoveredBy(disp.region, d.region) /\ CoveredBy(box, d.region)
      <4> HIDE DEF a, d, u
      <4> QED BY <1>1, <1>3, <3>1, <3>2, <3>3 DEF HasDirty
    <3> QED
      BY <3>4
  <2> QED
    BY <2>2, <2>3
<1> QED
  BY <1>4, <1>5

LEMMA ZeroCount == 0 \in 0..CountBound
  BY PanelAssumption

LEMMA PanelInitInv == PanelInit => PanelInv
<1> SUFFICES ASSUME PanelInit PROVE PanelInv
  OBVIOUS
<1>1. PICK c \in Configs : disp = FreshDisplay(c)
  BY DEF PanelInit
<1>2. owed = {} /\ missed = FALSE
  BY DEF PanelInit
<1>3. disp = [region |-> NoRect, count |-> 0, cfg |-> c]
  BY <1>1 DEF FreshDisplay
<1>4. PanelTypeOK
  BY <1>2, <1>3, NoRectIsEmpty, ZeroCount DEF PanelTypeOK
<1>5. RegionFits /\ OwedIsPending
  BY <1>2, <1>3 DEF RegionFits, OwedIsPending, HasDirty
<1> QED
  BY <1>4, <1>5 DEF PanelInv

(* The pixels owed after a flush of the pending region alone: none.        *)
LEMMA FlushedOwesNothing ==
  ASSUME PanelTypeOK, OwedIsPending, ~missed
  PROVE  owed \ PixelsOf(disp.region) = {}
  BY DEF OwedIsPending, PanelTypeOK, PixelsOf, Pixels

LEMMA PanelStepInv == PanelInv /\ [PanelNext]_panelVars => PanelInv'
<1> SUFFICES ASSUME PanelInv, [PanelNext]_panelVars PROVE PanelInv'
  OBVIOUS
<1> USE DEF PanelInv
<1>0. /\ disp \in [region : Rects, count : 0..CountBound, cfg : Configs]
      /\ owed \subseteq Pixels /\ missed \in BOOLEAN
      /\ CountBound \in Nat
  BY PanelAssumption DEF PanelTypeOK
<1>1. ASSUME NEW box \in Boxes, MarkDirty(box) PROVE PanelInv'
  <2> DEFINE d == Marked(disp, box)
  <2>1. disp' = d /\ owed' = owed \cup PixelsOf(box) /\ missed' = missed
    BY <1>1 DEF MarkDirty
  <2>2. /\ d \in [region : Rects, count : 0..CountBound, cfg : Configs]
        /\ HasDirty(d) => Fits(d.region)
        /\ CoveredBy(disp.region, d.region) /\ CoveredBy(box, d.region)
    BY PanelAssumption, MarkedCovers
  <2> HIDE DEF d
  <2>3. PanelTypeOK' /\ RegionFits'
    BY <1>0, <2>1, <2>2 DEF PanelTypeOK, RegionFits, PixelsOf
  <2>4. OwedIsPending'
    <3> SUFFICES ASSUME ~missed, NEW p \in owed \cup PixelsOf(box)
                 PROVE  Covers(d.region, p[1], p[2])
      BY <2>1 DEF OwedIsPending
    <3>1. p \in Pixels /\ p[1] \in 0..(Width - 1) /\ p[2] \in 0..(Height - 1)
      BY <1>0 DEF Pixels, PixelsOf
    <3>2. CASE p \in owed
      BY <2>2, <3>1, <3>2 DEF OwedIsPending, CoveredBy
    <3>3. CASE p \in PixelsOf(box)
      BY <2>2, <3>1, <3>3 DEF PixelsOf, CoveredBy
    <3> QED
      BY <3>2, <3>3
  <2> QED
    BY <2>3, <2>4
<1>2. ASSUME NEW ok \in BOOLEAN, FlushFull(ok) PROVE PanelInv'
  <2>1. disp' = [disp EXCEPT !.region = NoRect, !.count = 0]
    BY <1>0, <1>2 DEF FlushFull, Flushed
  <2>2. missed' = ~ok /\ owed' = (IF ok THEN {} ELSE owed)
    BY <1>2 DEF FlushFull, FullFlash
  <2>3. PanelTypeOK'
    <3>1. disp' \in [region : Rects, count : 0..CountBound, cfg : Configs]
      BY <1>0, <2>1, NoRectIsEmpty, ZeroCount
    <3> QED
      BY <1>0, <2>2, <3>1 DEF PanelTypeOK
  <2>4. RegionFits'
    BY <1>0, <2>1 DEF RegionFits, HasDirty
  <2>5. OwedIsPending'
    BY <2>2 DEF OwedIsPending
  <2> QED
    BY <2>3, <2>4, <2>5
<1>3. ASSUME NEW ok \in BOOLEAN, FlushArea(ok) PROVE PanelInv'
  <2>1. disp' = [disp EXCEPT !.region = NoRect, !.count = disp.count + 1]
    BY <1>0, <1>3 DEF FlushArea, Flushed
  <2>2. disp.count + 1 \in 0..CountBound
    BY <1>0, <1>3 DEF FlushArea
  <2>3. PanelTypeOK' /\ RegionFits'
    BY <1>0, <1>3, <2>1, <2>2, NoRectIsEmpty
       DEF FlushArea, PanelTypeOK, RegionFits, HasDirty
  <2>4. OwedIsPending'
    BY <1>0, <1>3, FlushedOwesNothing DEF FlushArea, OwedIsPending
  <2> QED
    BY <2>3, <2>4
<1>4. ASSUME NEW ok \in BOOLEAN, RefreshFull(ok) PROVE PanelInv'
  <2>1. disp' = [disp EXCEPT !.region = NoRect, !.count = 0]
    BY <1>4 DEF RefreshFull, Refreshed
  <2>2. missed' = ~ok /\ owed' = (IF ok THEN {} ELSE owed)
    BY <1>4 DEF RefreshFull, FullFlash
  <2>3. PanelTypeOK'
    <3>1. disp' \in [region : Rects, count : 0..CountBound, cfg : Configs]
      BY <1>0, <2>1, NoRectIsEmpty, ZeroCount
    <3> QED
      BY <1>0, <2>2, <3>1 DEF PanelTypeOK
  <2>4. RegionFits'
    BY <1>0, <2>1 DEF RegionFits, HasDirty
  <2>5. OwedIsPending'
    BY <2>2 DEF OwedIsPending
  <2> QED
    BY <2>3, <2>4, <2>5
<1>5. ASSUME NEW c \in Configs, SetRefreshConfig(c) PROVE PanelInv'
  BY <1>0, <1>5 DEF SetRefreshConfig, PanelTypeOK, RegionFits, OwedIsPending, HasDirty
<1>6. CASE UNCHANGED panelVars
  BY <1>6 DEF panelVars, PanelTypeOK, RegionFits, OwedIsPending, HasDirty
<1> QED
  BY <1>1, <1>2, <1>3, <1>4, <1>5, <1>6 DEF PanelNext

(* The bounds the run checks, for every panel and every configuration.     *)
THEOREM PanelInvariant == PanelSpec => []PanelInv
  BY PanelInitInv, PanelStepInv, PTL DEF PanelSpec

(* The counter and the region keep their types.                            *)
THEOREM PanelTypeCorrect == PanelSpec => []PanelTypeOK
  BY PanelInvariant, PTL DEF PanelInv

(* The controller is only asked for whole bytes inside the panel.          *)
THEOREM RegionAlwaysFits == PanelSpec => []RegionFits
  BY PanelInvariant, PTL DEF PanelInv

(* No marked pixel is forgotten while the controller works.                *)
THEOREM NothingForgotten == PanelSpec => []OwedIsPending
  BY PanelInvariant, PTL DEF PanelInv

(* The anti-ghosting limit holds at every flush, however the policy has    *)
(* been changed before it.                                                 *)
THEOREM GhostingAlwaysBounded == PanelSpec => GhostingBounded
<1> DEFINE Sent == HasDirty(disp) /\ disp'.region = NoRect /\ disp.cfg.auto
           Low == disp'.count < Greater(disp.cfg.limit, 1)
<1>1. PanelInv /\ [PanelNext]_panelVars => [Sent => Low]_panelVars
  <2> SUFFICES ASSUME PanelInv, PanelNext, Sent PROVE Low
    OBVIOUS
  <2>1. /\ disp \in [region : Rects, count : 0..CountBound, cfg : Configs]
        /\ disp.cfg \in ConfigType
        /\ disp.region # NoRect
    BY DisplayAssumption DEF PanelInv, PanelTypeOK, HasDirty
  <2>2. disp.cfg.limit \in Nat /\ disp.count \in Nat
    BY <2>1, PanelAssumption DEF ConfigType
  <2>3. ASSUME disp'.count = 0 PROVE Low
    BY <2>2, <2>3 DEF Greater
  <2>4. ASSUME NEW box \in Boxes, MarkDirty(box) PROVE FALSE
    BY <2>4, MarkedCovers, PanelAssumption DEF MarkDirty, PanelInv, HasDirty
  <2>5. ASSUME NEW ok \in BOOLEAN, FlushFull(ok) PROVE Low
    BY <2>1, <2>3, <2>5 DEF FlushFull, Flushed
  <2>6. ASSUME NEW ok \in BOOLEAN, FlushArea(ok) PROVE Low
    <3>1. disp'.count = disp.count + 1 /\ ~(disp.count + 1 >= disp.cfg.limit)
      BY <2>1, <2>6 DEF FlushArea, Flushed, Escalates
    <3> QED
      BY <2>2, <3>1 DEF Greater
  <2>7. ASSUME NEW ok \in BOOLEAN, RefreshFull(ok) PROVE Low
    BY <2>1, <2>3, <2>7 DEF RefreshFull, Refreshed
  <2>8. ASSUME NEW c \in Configs, SetRefreshConfig(c) PROVE FALSE
    BY <2>1, <2>8 DEF SetRefreshConfig
  <2> QED
    BY <2>4, <2>5, <2>6, <2>7, <2>8 DEF PanelNext
<1> QED
  BY <1>1, PanelInvariant, PTL DEF PanelSpec, GhostingBounded

-----------------------------------------------------------------------------
(* The event loop.                                                         *)

Timer == [id : Ids, left : Nat]
Entry == [fd : Fds, cb : Callbacks]

NoTwice(s)     == \A a, b \in 1..Len(s) : s[a] = s[b] => a = b
DistinctIds(s) == \A a, b \in 1..Len(s) : s[a].id = s[b].id => a = b

DistinctFds(s) == \A a, b \in 1..Len(s) : s[a].fd = s[b].fd => a = b

WatchersInv == watchers \in Seq(Entry) /\ DistinctFds(watchers)
TimersInv   == timers \in Seq(Timer) /\ DistinctIds(timers)
IndexInv    == nextId \in Ids /\ i \in Nat
CallerInv   == cur = Nobody <=> ~InCallback

\* The arrays hold no entry twice: without it a removal by value would leave
\* a second copy behind, and the set of entries would not lose the value.
LoopInv == WatchersInv /\ TimersInv /\ IndexInv /\ CallerInv

-----------------------------------------------------------------------------
(* What the operations on the arrays do to the set of their entries.       *)

\* Removing entry k moves the last entry there and keeps the others.
LEMMA RemovedAtEntries ==
  ASSUME NEW T, NEW s \in Seq(T), NEW k \in 1..Len(s)
  PROVE  /\ RemovedAt(s, k) \in Seq(T)
         /\ Len(RemovedAt(s, k)) = Len(s) - 1
         /\ \A j \in 1..(Len(s) - 1) :
              RemovedAt(s, k)[j] = IF j = k THEN s[Len(s)] ELSE s[j]
<1> DEFINE r == [s EXCEPT ![k] = s[Len(s)]]
<1>1. Len(s) \in Nat /\ Len(s) \in 1..Len(s) /\ s[Len(s)] \in T
  BY LenProperties, ElementOfSeq
<1>2. r \in Seq(T) /\ Len(r) = Len(s)
  BY <1>1, ExceptSeq
<1>3. \A j \in 1..Len(s) : r[j] = IF j = k THEN s[Len(s)] ELSE s[j]
  BY LenProperties
<1> HIDE DEF r
<1>4. /\ SubSeq(r, 1, Len(s) - 1) \in Seq(T)
      /\ Len(SubSeq(r, 1, Len(s) - 1)) = Len(s) - 1
      /\ \A j \in 1..(Len(s) - 1) : SubSeq(r, 1, Len(s) - 1)[j] = r[j]
  BY <1>1, <1>2
<1>5. RemovedAt(s, k) = SubSeq(r, 1, Len(s) - 1)
  BY DEF RemovedAt, r
<1> QED  BY <1>1, <1>3, <1>4, <1>5

\* With no entry twice, the set of entries loses exactly the one removed.
LEMMA RemovedAtElems ==
  ASSUME NEW T, NEW s \in Seq(T), NoTwice(s), NEW k \in 1..Len(s)
  PROVE  Elems(RemovedAt(s, k)) = Elems(s) \ {s[k]}
<1> DEFINE r == RemovedAt(s, k)
<1>1. /\ Len(s) \in Nat /\ Len(r) = Len(s) - 1
      /\ \A j \in 1..(Len(s) - 1) : r[j] = IF j = k THEN s[Len(s)] ELSE s[j]
  BY RemovedAtEntries, LenProperties
<1> HIDE DEF r
<1>2. ASSUME NEW x \in Elems(r)
      PROVE  x \in Elems(s) \ {s[k]}
  <2>1. PICK j \in 1..(Len(s) - 1) : x = r[j]
    BY <1>1 DEF Elems
  <2>2. ASSUME j = k PROVE x = s[Len(s)] /\ Len(s) # k
    BY <1>1, <2>1, <2>2
  <2>3. ASSUME j # k PROVE x = s[j]
    BY <1>1, <2>1, <2>3
  <2> QED  BY <1>1, <2>2, <2>3 DEF Elems, NoTwice
<1>3. ASSUME NEW x \in Elems(s), x # s[k]
      PROVE  x \in Elems(r)
  <2>1. PICK j \in 1..Len(s) : x = s[j]
    BY DEF Elems
  <2>2. j # k
    BY <1>3, <2>1
  <2>3. CASE j = Len(s)
    <3>1. k \in 1..(Len(s) - 1) /\ r[k] = x
      BY <1>1, <2>1, <2>2, <2>3
    <3> QED  BY <1>1, <3>1 DEF Elems
  <2>4. CASE j # Len(s)
    <3>1. j \in 1..(Len(s) - 1) /\ r[j] = x
      BY <1>1, <2>1, <2>2, <2>4
    <3> QED  BY <1>1, <3>1 DEF Elems
  <2> QED  BY <2>3, <2>4
<1> QED  BY <1>2, <1>3 DEF r

\* A removal leaves no entry twice where there was none.
LEMMA RemovedAtNoTwice ==
  ASSUME NEW T, NEW s \in Seq(T), NoTwice(s), NEW k \in 1..Len(s)
  PROVE  NoTwice(RemovedAt(s, k))
<1> DEFINE r == RemovedAt(s, k)
<1>1. /\ Len(s) \in Nat /\ Len(r) = Len(s) - 1
      /\ \A j \in 1..(Len(s) - 1) : r[j] = IF j = k THEN s[Len(s)] ELSE s[j]
  BY RemovedAtEntries, LenProperties
<1> HIDE DEF r
<1>2. ASSUME NEW a \in 1..(Len(s) - 1), NEW b \in 1..(Len(s) - 1), r[a] = r[b]
      PROVE  a = b
  BY <1>1, <1>2 DEF NoTwice
<1>3. NoTwice(r)
  BY <1>1, <1>2 DEF NoTwice
<1> QED  BY <1>3 DEF r

\* The same for the ids of the timers.
LEMMA RemovedAtDistinctIds ==
  ASSUME NEW T, NEW s \in Seq(T), DistinctIds(s), NEW k \in 1..Len(s)
  PROVE  DistinctIds(RemovedAt(s, k))
<1> DEFINE r == RemovedAt(s, k)
<1>1. /\ Len(s) \in Nat /\ Len(r) = Len(s) - 1
      /\ \A j \in 1..(Len(s) - 1) : r[j] = IF j = k THEN s[Len(s)] ELSE s[j]
  BY RemovedAtEntries, LenProperties
<1> HIDE DEF r
<1>2. ASSUME NEW a \in 1..(Len(s) - 1), NEW b \in 1..(Len(s) - 1), r[a].id = r[b].id
      PROVE  a = b
  BY <1>1, <1>2 DEF DistinctIds
<1>3. DistinctIds(r)
  BY <1>1, <1>2 DEF DistinctIds
<1> QED  BY <1>3 DEF r

\* And for the descriptors.
LEMMA RemovedAtDistinctFds ==
  ASSUME NEW T, NEW s \in Seq(T), DistinctFds(s), NEW k \in 1..Len(s)
  PROVE  DistinctFds(RemovedAt(s, k))
<1> DEFINE r == RemovedAt(s, k)
<1>1. /\ Len(s) \in Nat /\ Len(r) = Len(s) - 1
      /\ \A j \in 1..(Len(s) - 1) : r[j] = IF j = k THEN s[Len(s)] ELSE s[j]
  BY RemovedAtEntries, LenProperties
<1> HIDE DEF r
<1>2. ASSUME NEW a \in 1..(Len(s) - 1), NEW b \in 1..(Len(s) - 1), r[a].fd = r[b].fd
      PROVE  a = b
  BY <1>1, <1>2 DEF DistinctFds
<1>3. DistinctFds(r)
  BY <1>1, <1>2 DEF DistinctFds
<1> QED  BY <1>3 DEF r

\* Entries with distinct descriptors are distinct.
LEMMA DistinctFdsNoTwice ==
  ASSUME NEW s, DistinctFds(s)
  PROVE  NoTwice(s)
BY DEF DistinctFds, NoTwice

\* Timers with distinct ids are distinct.
LEMMA DistinctIdsNoTwice ==
  ASSUME NEW s, DistinctIds(s)
  PROVE  NoTwice(s)
BY DEF DistinctIds, NoTwice

\* A search that finds nothing removes nothing, one that finds a single
\* entry removes that one.
LEMMA RemovedFirstIs ==
  ASSUME NEW s, NEW found \in SUBSET (1..Len(s)), \A a, b \in found : a = b,
         Len(s) \in Nat
  PROVE  \/ found = {} /\ RemovedFirst(s, found) = s
         \/ \E k \in 1..Len(s) : found = {k} /\ RemovedFirst(s, found) = RemovedAt(s, k)
<1>1. CASE found = {}
  BY <1>1 DEF RemovedFirst
<1>2. CASE found # {}
  <2>1. PICK k \in 1..Len(s) : found = {k}
    BY <1>2
  <2>2. k <= k
    OBVIOUS
  <2>3. First(found) = k
    BY <2>1, <2>2 DEF First
  <2>4. RemovedFirst(s, found) = RemovedAt(s, k)
    BY <1>2, <2>3 DEF RemovedFirst
  <2> QED  BY <2>1, <2>4
<1> QED  BY <1>1, <1>2

\* An entry appended is added to the set of entries.
LEMMA AppendElems ==
  ASSUME NEW T, NEW s \in Seq(T), NEW e \in T
  PROVE  Elems(Append(s, e)) = Elems(s) \cup {e}
<1> DEFINE r == Append(s, e)
<1>1. /\ Len(s) \in Nat /\ Len(r) = Len(s) + 1 /\ r[Len(s) + 1] = e
      /\ \A j \in 1..Len(s) : r[j] = s[j]
  BY AppendProperties, LenProperties
<1> HIDE DEF r
<1>2. 1..Len(r) = 1..Len(s) \cup {Len(s) + 1}
  BY <1>1
<1>3. Elems(r) = Elems(s) \cup {e}
  BY <1>1, <1>2, Zenon DEF Elems
<1> QED  BY <1>3 DEF r

\* With no entry twice an array has as many entries as their set has members.
LEMMA ElemsCounted ==
  ASSUME NEW T, NEW s \in Seq(T), NoTwice(s)
  PROVE  Cardinality(Elems(s)) = Len(s)
<1>1. Len(s) \in Nat /\ s \in [1..Len(s) -> Elems(s)]
  BY LenProperties DEF Elems
<1>2. s \in Surjection(1..Len(s), Elems(s)) /\ s \in Injection(1..Len(s), Elems(s))
  BY <1>1 DEF Surjection, Injection, IsInjective, NoTwice, Elems
<1>3. IsFiniteSet(1..Len(s)) /\ Cardinality(1..Len(s)) = Len(s)
  BY <1>1, FS_Interval
<1>4. Cardinality(Elems(s)) = Cardinality(1..Len(s))
  BY <1>2, <1>3, FS_Surjection
<1> QED  BY <1>3, <1>4

\* A new callback for a descriptor replaces its entry and no other.
LEMMA ReplacedElems ==
  ASSUME NEW s \in Seq(Entry), DistinctFds(s), NEW k \in 1..Len(s),
         NEW e \in Entry, e.fd = s[k].fd
  PROVE  /\ [s EXCEPT ![k] = e] \in Seq(Entry)
         /\ DistinctFds([s EXCEPT ![k] = e])
         /\ Elems([s EXCEPT ![k] = e]) = {w \in Elems(s) : w.fd # e.fd} \cup {e}
<1> DEFINE r == [s EXCEPT ![k] = e]
<1>1. r \in Seq(Entry) /\ Len(r) = Len(s) /\ Len(s) \in Nat
  BY ExceptSeq, LenProperties
<1>2. \A j \in 1..Len(s) : r[j] = IF j = k THEN e ELSE s[j]
  BY LenProperties
<1> HIDE DEF r
<1>3. \A j \in 1..Len(s) : r[j].fd = s[j].fd
  BY <1>2
<1>4. DistinctFds(r)
  BY <1>1, <1>3 DEF DistinctFds
<1>5. \A j \in 1..Len(s) : j # k => s[j].fd # e.fd
  BY DEF DistinctFds
<1>6. ASSUME NEW w \in Elems(r)
      PROVE  w = e \/ (w \in Elems(s) /\ w.fd # e.fd)
  <2>1. PICK j \in 1..Len(s) : w = r[j]
    BY <1>1 DEF Elems
  <2>2. CASE j = k
    BY <1>2, <2>1, <2>2
  <2>3. CASE j # k
    BY <1>2, <1>5, <2>1, <2>3 DEF Elems
  <2> QED  BY <2>2, <2>3
<1>7. ASSUME NEW w \in Elems(s), w.fd # e.fd
      PROVE  w \in Elems(r)
  <2>1. PICK j \in 1..Len(s) : w = s[j]
    BY DEF Elems
  <2>2. w = r[j]
    BY <1>2, <1>7, <2>1
  <2> QED  BY <1>1, <2>2 DEF Elems
<1>8. e \in Elems(r)
  <2>1. e = r[k]
    BY <1>2
  <2> QED  BY <1>1, <2>1 DEF Elems
<1>9. Elems(r) = {w \in Elems(s) : w.fd # e.fd} \cup {e}
  BY <1>6, <1>7, <1>8
<1> QED  BY <1>1, <1>4, <1>9 DEF r

\* Nobody is no watcher, no timer and not main().
LEMMA NobodyElse ==
  /\ Main # Nobody
  /\ \A e \in Entry : e # Nobody
  /\ \A t : [id |-> t] # Nobody
<1>1. Main # Nobody
  <2>1. Main.who = "main" /\ Nobody.who = "nobody"
    BY DEF Main, Nobody
  <2> QED  BY <2>1
<1>2. DOMAIN Nobody = {"who"}
  BY DEF Nobody
<1>3. ASSUME NEW e \in Entry PROVE e # Nobody
  <2>1. DOMAIN e = {"fd", "cb"}
    BY DEF Entry
  <2> QED  BY <1>2, <2>1
<1>4. ASSUME NEW t PROVE [id |-> t] # Nobody
  <2>1. DOMAIN [id |-> t] = {"id"}
    OBVIOUS
  <2> QED  BY <1>2, <2>1
<1> QED  BY <1>1, <1>3, <1>4

-----------------------------------------------------------------------------
(* The invariant.                                                          *)

\* A clock tick keeps the ids and brings each timer one closer.
LEMMA TickTimers ==
  ASSUME TimersInv, Tick
  PROVE  /\ TimersInv'
         /\ Elems(timers') = {Registry!OneLess(t) : t \in Elems(timers)}
<1> DEFINE Less(t) == [t EXCEPT !.left = IF @ > 0 THEN @ - 1 ELSE 0]
<1>1. Len(timers) \in Nat /\ \A k \in 1..Len(timers) : timers[k] \in Timer
  BY LenProperties, ElementOfSeq DEF TimersInv
<1>2. ASSUME NEW k \in 1..Len(timers)
      PROVE  Less(timers[k]) \in Timer /\ Less(timers[k]).id = timers[k].id
  <2>1. timers[k] \in [id : Ids, left : Nat]
    BY <1>1 DEF Timer
  <2> QED  BY <2>1 DEF Timer
<1>3. \A k \in 1..Len(timers) : Less(timers[k]) = Registry!OneLess(timers[k])
  BY DEF Registry!OneLess
<1>4. timers' = [k \in 1..Len(timers) |-> Less(timers[k])]
  BY DEF Tick
<1> HIDE DEF Less
<1>5. /\ timers' \in Seq(Timer) /\ Len(timers') = Len(timers)
      /\ \A k \in 1..Len(timers) : timers'[k] = Less(timers[k])
  <2>1. timers' \in [1..Len(timers) -> Timer]
    BY <1>2, <1>4
  <2>2. timers' \in Seq(Timer)
    BY <1>1, <2>1, IsASeq, <1>2, <1>4
  <2>3. Len(timers') = Len(timers)
    BY <1>1, <2>1, <2>2, LenProperties
  <2> QED  BY <1>4, <2>2, <2>3
<1>6. DistinctIds(timers')
  BY <1>2, <1>5 DEF DistinctIds, TimersInv
<1>7. Elems(timers') = {Registry!OneLess(t) : t \in Elems(timers)}
  BY <1>3, <1>5 DEF Elems
<1> QED  BY <1>5, <1>6, <1>7 DEF TimersInv

\* A full array is left alone; else the descriptor has the new callback, in
\* the entry it has or in one appended.
LEMMA RegisterReadSteps ==
  ASSUME WatchersInv, NEW fd \in Fds, NEW cb \in Callbacks, RegisterRead(fd, cb)
  PROVE  /\ WatchersInv'
         /\ WatchersFull => watchers' = watchers
         /\ ~WatchersFull =>
              Elems(watchers') = {w \in Elems(watchers) : w.fd # fd} \cup {Watcher(fd, cb)}
<1> DEFINE e == Watcher(fd, cb)
<1>1. Len(watchers) \in Nat
  BY LenProperties DEF WatchersInv
<1>2. e \in Entry /\ e.fd = fd
  BY DEF Watcher, Entry
<1>3. CASE WatchersFull
  <2>1. watchers' = watchers
    BY <1>3 DEF RegisterRead
  <2> QED  BY <1>3, <2>1 DEF WatchersInv
<1> HIDE DEF e
<1>4. CASE ~WatchersFull /\ At(fd) # {}
  <2>1. PICK k \in 1..Len(watchers) : At(fd) = {k}
    BY <1>4 DEF At, WatchersInv, DistinctFds
  <2>2. watchers[k].fd = fd
    BY <2>1 DEF At
  <2>3. First(At(fd)) = k
    <3>1. k <= k
      BY <1>1
    <3> QED  BY <2>1, <3>1 DEF First
  <2>4. watchers' = [watchers EXCEPT ![k] = e]
    BY <1>4, <2>3 DEF RegisterRead, e
  <2>5. /\ watchers' \in Seq(Entry) /\ DistinctFds(watchers')
        /\ Elems(watchers') = {w \in Elems(watchers) : w.fd # e.fd} \cup {e}
    BY <1>2, <2>2, <2>4, ReplacedElems DEF WatchersInv
  <2> QED  BY <1>2, <1>4, <2>5 DEF WatchersInv, e
<1>5. CASE ~WatchersFull /\ At(fd) = {}
  <2>1. watchers' = Append(watchers, e)
    BY <1>5 DEF RegisterRead, e
  <2>2. /\ watchers' \in Seq(Entry) /\ Len(watchers') = Len(watchers) + 1
        /\ watchers'[Len(watchers) + 1] = e
        /\ \A j \in 1..Len(watchers) : watchers'[j] = watchers[j]
    BY <1>2, <2>1, AppendProperties DEF WatchersInv
  <2>3. \A j \in 1..Len(watchers) : watchers[j].fd # fd
    BY <1>5 DEF At
  <2>4. DistinctFds(watchers')
    BY <1>1, <1>2, <2>2, <2>3 DEF DistinctFds, WatchersInv
  <2>5. Elems(watchers') = Elems(watchers) \cup {e}
    BY <1>2, <2>1, AppendElems DEF WatchersInv
  <2>6. \A w \in Elems(watchers) : w.fd # fd
    BY <2>3 DEF Elems
  <2>7. Elems(watchers') = {w \in Elems(watchers) : w.fd # fd} \cup {e}
    BY <2>5, <2>6
  <2> QED  BY <1>5, <2>2, <2>4, <2>7 DEF WatchersInv, e
<1> QED  BY <1>3, <1>4, <1>5

\* unregister() takes the descriptor out of the set.
LEMMA UnregisterSteps ==
  ASSUME WatchersInv, NEW fd \in Fds, Unregister(fd)
  PROVE  /\ WatchersInv'
         /\ Elems(watchers') = {w \in Elems(watchers) : w.fd # fd}
<1>1. watchers' = RemovedFirst(watchers, At(fd))
  BY DEF Unregister
<1>2. \A a, b \in At(fd) : a = b
  BY DEF DistinctFds, WatchersInv, At
<1>3. Len(watchers) \in Nat /\ At(fd) \in SUBSET (1..Len(watchers))
  BY LenProperties DEF WatchersInv, At
<1>4. \A k \in 1..Len(watchers) : k \in At(fd) <=> watchers[k].fd = fd
  BY DEF At
<1>5. CASE At(fd) = {} /\ watchers' = watchers
  BY <1>4, <1>5 DEF Elems, WatchersInv
<1>6. ASSUME NEW k \in 1..Len(watchers), At(fd) = {k}, watchers' = RemovedAt(watchers, k)
      PROVE  WatchersInv' /\ Elems(watchers') = {w \in Elems(watchers) : w.fd # fd}
  <2>1. \A j \in 1..Len(watchers) : watchers[j].fd = fd <=> j = k
    BY <1>4, <1>6
  <2>2. NoTwice(watchers)
    BY DistinctFdsNoTwice DEF WatchersInv
  <2>3. watchers' \in Seq(Entry)
    BY <1>6, RemovedAtEntries DEF WatchersInv
  <2>4. DistinctFds(watchers')
    BY <1>6, RemovedAtDistinctFds DEF WatchersInv
  <2>5. Elems(watchers') = Elems(watchers) \ {watchers[k]}
    BY <1>6, <2>2, RemovedAtElems DEF WatchersInv
  <2>6. \A w \in Elems(watchers) : w.fd # fd <=> w # watchers[k]
    BY <2>1, <2>2 DEF Elems, NoTwice
  <2> QED  BY <2>3, <2>4, <2>5, <2>6 DEF WatchersInv
<1> QED  BY <1>1, <1>2, <1>3, <1>5, <1>6, RemovedFirstIs

\* set_timer() adds a timer under an id no pending one has, or is refused.
LEMMA SetTimerSteps ==
  ASSUME TimersInv, nextId \in Ids, NEW d \in Delays, SetTimer(d)
  PROVE  /\ TimersInv' /\ nextId' \in Ids
         /\ \/ /\ ~(Len(timers) < MaxTimers)
               /\ timers' = timers
               /\ call' = [op |-> "set", delay |-> d, id |-> 0]
            \/ /\ Len(timers) < MaxTimers
               /\ call' = [op |-> "set", delay |-> d, id |-> nextId]
               /\ \A t \in Elems(timers) : t.id # nextId
               /\ Elems(timers') = Elems(timers) \cup {[id |-> nextId, left |-> d]}
<1>1. Len(timers) \in Nat
  BY LenProperties DEF TimersInv
<1>2. CASE ~(Len(timers) < MaxTimers)
  <2>1. /\ timers' = timers /\ nextId' = nextId
        /\ call' = [op |-> "set", delay |-> d, id |-> 0]
    BY <1>2 DEF SetTimer
  <2> QED  BY <1>2, <2>1 DEF TimersInv
<1>3. CASE Len(timers) < MaxTimers
  <2> DEFINE new == [id |-> nextId, left |-> d]
  <2>1. /\ Len(timers) < MaxTimers
        /\ \A t \in Elems(timers) : t.id # nextId
        /\ timers' = Append(timers, new)
        /\ nextId' = IF nextId = MaxId THEN 1 ELSE nextId + 1
        /\ call' = [op |-> "set", delay |-> d, id |-> nextId]
    BY <1>1, <1>3, LoopAssumption DEF SetTimer
  <2>2. new \in Timer /\ new.id = nextId
    BY LoopAssumption DEF Timer
  <2> HIDE DEF new
  <2>3. nextId' \in Ids
    BY <2>1, LoopAssumption DEF Ids
  <2>4. /\ timers' \in Seq(Timer) /\ Len(timers') = Len(timers) + 1
        /\ timers'[Len(timers) + 1] = new
        /\ \A j \in 1..Len(timers) : timers'[j] = timers[j]
    BY <2>1, <2>2, AppendProperties DEF TimersInv
  <2>5. \A j \in 1..Len(timers) : timers[j].id # nextId
    BY <2>1 DEF Elems
  <2>6. DistinctIds(timers')
    BY <1>1, <2>2, <2>4, <2>5 DEF DistinctIds, TimersInv
  <2>7. Elems(timers') = Elems(timers) \cup {new}
    BY <2>1, <2>2, AppendElems DEF TimersInv
  <2> QED  BY <2>1, <2>3, <2>4, <2>6, <2>7 DEF TimersInv, new
<1> QED  BY <1>2, <1>3

\* cancel_timer() takes the timer of that id, if any, out of the set.
LEMMA CancelTimerSteps ==
  ASSUME TimersInv, NEW id \in Ids, CancelTimer(id)
  PROVE  /\ TimersInv'
         /\ Elems(timers') = {t \in Elems(timers) : t.id # id}
<1> DEFINE found == {k \in 1..Len(timers) : timers[k].id = id}
<1>1. timers' = RemovedFirst(timers, found)
  BY DEF CancelTimer
<1>2. \A a, b \in found : a = b
  BY DEF DistinctIds, TimersInv
<1>3. Len(timers) \in Nat /\ found \in SUBSET (1..Len(timers))
  BY LenProperties DEF TimersInv
<1>4. \A k \in 1..Len(timers) : k \in found <=> timers[k].id = id
  OBVIOUS
<1> HIDE DEF found
<1>5. CASE found = {} /\ timers' = timers
  BY <1>4, <1>5 DEF Elems, TimersInv
<1>6. ASSUME NEW k \in 1..Len(timers), found = {k}, timers' = RemovedAt(timers, k)
      PROVE  TimersInv' /\ Elems(timers') = {t \in Elems(timers) : t.id # id}
  <2>1. \A j \in 1..Len(timers) : timers[j].id = id <=> j = k
    BY <1>4, <1>6
  <2>2. NoTwice(timers)
    BY DistinctIdsNoTwice DEF TimersInv
  <2>3. timers' \in Seq(Timer)
    BY <1>6, RemovedAtEntries DEF TimersInv
  <2>4. DistinctIds(timers')
    BY <1>6, RemovedAtDistinctIds DEF TimersInv
  <2>5. Elems(timers') = Elems(timers) \ {timers[k]}
    BY <1>6, <2>2, RemovedAtElems DEF TimersInv
  <2>6. \A t \in Elems(timers) : t.id # id <=> t # timers[k]
    BY <2>1, <2>2 DEF Elems, NoTwice
  <2> QED  BY <2>3, <2>4, <2>5, <2>6 DEF TimersInv
<1> QED  BY <1>1, <1>2, <1>3, <1>5, <1>6, RemovedFirstIs

\* The timer that fires leaves the set, and no other.
LEMMA FireTimerSteps ==
  ASSUME TimersInv, i \in Nat, FireTimer
  PROVE  /\ TimersInv'
         /\ timers[i + 1] \in Elems(timers)
         /\ Elems(timers') = Elems(timers) \ {timers[i + 1]}
<1>1. Len(timers) \in Nat /\ i < Len(timers) /\ timers' = RemovedAt(timers, i + 1)
  BY LenProperties DEF FireTimer, TimersInv
<1>2. i + 1 \in 1..Len(timers)
  BY <1>1
<1>3. NoTwice(timers)
  BY DistinctIdsNoTwice DEF TimersInv
<1>4. timers' \in Seq(Timer)
  BY <1>1, <1>2, RemovedAtEntries DEF TimersInv
<1>5. DistinctIds(timers')
  BY <1>1, <1>2, RemovedAtDistinctIds DEF TimersInv
<1>6. Elems(timers') = Elems(timers) \ {timers[i + 1]}
  BY <1>1, <1>2, <1>3, RemovedAtElems DEF TimersInv
<1> QED  BY <1>2, <1>4, <1>5, <1>6 DEF TimersInv, Elems

\* A call leaves the caller where it is.
LEMMA CallKeepsCaller ==
  ASSUME UNCHANGED control
  PROVE  /\ i' = i /\ cur' = cur /\ InCallback' = InCallback
         /\ CallerInv => CallerInv'
BY DEF control, InCallback, CallerInv, Nobody

\* Every step keeps the arrays free of repetitions.
LEMMA LoopInvHolds == LoopSpec => []LoopInv
<1>1. Init => LoopInv
  BY LoopAssumption, EmptySeq, NobodyElse
     DEF Init, LoopInv, WatchersInv, TimersInv, IndexInv, CallerInv, InCallback,
         NoTwice, DistinctFds, DistinctIds, Ids
<1>2. ASSUME LoopInv, [Next]_loopVars
      PROVE  LoopInv'
  <2>1. ASSUME NEW fd \in Fds, NEW cb \in Callbacks, RegisterRead(fd, cb)
        PROVE  LoopInv'
    BY <1>2, <2>1, RegisterReadSteps, CallKeepsCaller
       DEF LoopInv, TimersInv, IndexInv, RegisterRead
  <2>2. ASSUME NEW fd \in Fds, Unregister(fd)
        PROVE  LoopInv'
    BY <1>2, <2>2, UnregisterSteps, CallKeepsCaller
       DEF LoopInv, TimersInv, IndexInv, Unregister
  <2>3. ASSUME NEW d \in Delays, SetTimer(d)
        PROVE  LoopInv'
    BY <1>2, <2>3, SetTimerSteps, CallKeepsCaller
       DEF LoopInv, WatchersInv, IndexInv, SetTimer
  <2>4. ASSUME NEW id \in Ids, CancelTimer(id)
        PROVE  LoopInv'
    BY <1>2, <2>4, CancelTimerSteps, CallKeepsCaller
       DEF LoopInv, WatchersInv, IndexInv, CancelTimer
  <2>5. CASE FireTimer
    <3>1. CallerInv'
      BY <2>5, NobodyElse DEF FireTimer, CallerInv, InCallback
    <3> QED  BY <1>2, <2>5, <3>1, FireTimerSteps DEF LoopInv, WatchersInv, IndexInv, FireTimer
  <2>6. CASE Tick
    BY <1>2, <2>6, TickTimers, CallKeepsCaller DEF LoopInv, WatchersInv, IndexInv, Tick
  <2>7. ASSUME UNCHANGED <<watchers, timers, nextId>>, i' \in Nat, CallerInv'
        PROVE  LoopInv'
    BY <1>2, <2>7 DEF LoopInv, WatchersInv, TimersInv, IndexInv
  <2>8. ASSUME Stop \/ Drain \/ RunReturns \/ Select
               \/ PassWatcher \/ EndDispatch
               \/ PassTimer \/ EndStep
               \/ (\E fd \in Fds : Arrive(fd)) \/ UNCHANGED loopVars
        PROVE  LoopInv'
    <3>1. UNCHANGED <<watchers, timers, nextId, cur>> /\ (InCallback' <=> InCallback)
      BY <2>8 DEF Stop, Drain, RunReturns, Select, PassWatcher,
         EndDispatch, PassTimer, EndStep, Arrive, control, loopVars, InCallback
    <3>2. i' \in {i, i + 1, 0}
      BY <2>8 DEF Stop, Drain, RunReturns, Select, PassWatcher,
         EndDispatch, PassTimer, EndStep, Arrive, control, loopVars
    <3>3. CallerInv'
      BY <1>2, <3>1 DEF LoopInv, CallerInv, Nobody
    <3> QED  BY <1>2, <2>7, <3>1, <3>2, <3>3 DEF LoopInv, IndexInv
  <2>9. ASSUME Run \/ CallbackReturns
        PROVE  LoopInv'
    <3>1. UNCHANGED <<watchers, timers, nextId>> /\ i' \in {i, i + 1} /\ CallerInv'
      BY <2>9 DEF Run, CallbackReturns, CallerInv, InCallback, Nobody
    <3> QED  BY <1>2, <2>7, <3>1 DEF LoopInv, IndexInv
  <2>10. ASSUME CallWatcher
         PROVE  LoopInv'
    <3>1. /\ UNCHANGED <<watchers, timers, nextId, i>> /\ pc' = "fdcb"
          /\ cur' = watchers[i + 1] /\ i < Len(watchers)
      BY <2>10 DEF CallWatcher
    <3>2. cur' \in Entry
      BY <1>2, <3>1, LenProperties, ElementOfSeq DEF LoopInv, WatchersInv, IndexInv
    <3>3. CallerInv'
      BY <3>1, <3>2, NobodyElse DEF CallerInv, InCallback, Nobody
    <3> QED  BY <1>2, <2>7, <3>1, <3>3 DEF LoopInv, IndexInv
  <2> QED  BY <1>2, <2>1, <2>2, <2>3, <2>4, <2>5, <2>6, <2>8, <2>9, <2>10
           DEF Next, CallbackCall, LoopStep
<1> QED  BY <1>1, <1>2, PTL DEF LoopSpec

-----------------------------------------------------------------------------
(* The refinement.                                                         *)

\* The registry counts as this module does, and its constants are the same.
LEMMA RegistryCardinality == \A S : Registry!Cardinality(S) = Cardinality(S)
  BY DEF Registry!Cardinality, Cardinality

\* The places taken are as many as there are watchers and timers, so that
\* one is free in the arrays when the registry says so.
LEMMA PlacesCounted ==
  ASSUME WatchersInv, TimersInv
  PROVE  /\ <<Len(watchers), Len(timers)>> =
              <<Registry!Cardinality(Elems(watchers)), Registry!Cardinality(Elems(timers))>>
         /\ Registry!WatcherPlaceFree <=> ~WatchersFull
         /\ Registry!TimerPlaceFree <=> Len(timers) < MaxTimers
<1>1. /\ Registry!Cardinality(Elems(watchers)) = Len(watchers)
      /\ Len(watchers) \in Nat
  BY ElemsCounted, RegistryCardinality, DistinctFdsNoTwice, LenProperties DEF WatchersInv
<1>2. /\ Registry!Cardinality(Elems(timers)) = Len(timers)
      /\ Len(timers) \in Nat
  BY ElemsCounted, RegistryCardinality, DistinctIdsNoTwice, LenProperties DEF TimersInv
<1>3. /\ Registry!WatcherPlaceFree <=> Len(watchers) < MaxWatchers
      /\ Registry!TimerPlaceFree <=> Len(timers) < MaxTimers
  BY <1>1, <1>2 DEF Registry!WatcherPlaceFree, Registry!TimerPlaceFree, Elems
<1>4. WatchersFull <=> ~(Len(watchers) < MaxWatchers)
  BY <1>1, LoopAssumption DEF WatchersFull
<1> QED  BY <1>1, <1>2, <1>3, <1>4

\* A step that leaves the arrays, the caller and its call alone is no step
\* of the registry.
LEMMA RegistryStutters ==
  ASSUME UNCHANGED <<watchers, timers, cur, call>>
  PROVE  UNCHANGED Registry!registryVars
BY DEF Registry!registryVars, Elems

\* Every step of the loop is a step of the registry or none.
LEMMA LoopStepRefines ==
  ASSUME LoopInv, LoopInv', [Next]_loopVars
  PROVE  [Registry!Next]_(Registry!registryVars)
<1> DEFINE Counted == <<Len(watchers), Len(timers)>>' =
             <<Registry!Cardinality(Elems(watchers)'), Registry!Cardinality(Elems(timers)')>>
<1>0. Counted
  <2>1. /\ Registry!Cardinality(Elems(watchers')) = Len(watchers')
        /\ Registry!Cardinality(Elems(timers')) = Len(timers')
    BY ElemsCounted, RegistryCardinality, DistinctFdsNoTwice, DistinctIdsNoTwice
       DEF LoopInv, WatchersInv, TimersInv
  <2> QED  BY <2>1 DEF Elems
<1> HIDE DEF Counted
<1>1. ASSUME NEW fd \in Fds, NEW cb \in Callbacks, RegisterRead(fd, cb)
      PROVE  Registry!UserCall
  <2>1. InCallback /\ cur' = cur /\ timers' = timers /\ call' = RegisterAnswer(fd, cb)
    BY <1>1 DEF RegisterRead, Calls, control
  <2>2. cur # Registry!Nobody
    BY <2>1 DEF LoopInv, CallerInv, Nobody, Registry!Nobody
  <2>3. Registry!WatcherPlaceFree <=> ~WatchersFull
    BY PlacesCounted DEF LoopInv
  <2>4. call' = [op |-> "register", fd |-> fd, cb |-> cb, ok |-> Registry!WatcherPlaceFree]
    BY <2>1, <2>3 DEF RegisterAnswer, WatchersFull, Registry!WatcherPlaceFree
  <2>5. Registry!Called([op |-> "register", fd |-> fd, cb |-> cb,
                         ok |-> Registry!WatcherPlaceFree])
    BY <2>1, <2>2, <2>4 DEF Registry!Called
  <2>6. Elems(watchers)' = IF Registry!WatcherPlaceFree
                           THEN {w \in Elems(watchers) : w.fd # fd} \cup {[fd |-> fd, cb |-> cb]}
                           ELSE Elems(watchers)
    BY <1>1, <2>3, RegisterReadSteps DEF LoopInv, Elems, Watcher
  <2>7. Registry!Register(fd, cb)
    BY <2>1, <2>5, <2>6 DEF Registry!Register, Elems
  <2> QED  BY <2>7 DEF Registry!UserCall
<1>2. ASSUME NEW fd \in Fds, Unregister(fd)
      PROVE  Registry!UserCall
  <2>1. /\ InCallback /\ cur' = cur /\ timers' = timers
        /\ call' = [op |-> "unregister", fd |-> fd]
    BY <1>2 DEF Unregister, Calls, control
  <2>2. cur # Registry!Nobody
    BY <2>1 DEF LoopInv, CallerInv, Nobody, Registry!Nobody
  <2>3. Elems(watchers)' = {w \in Elems(watchers) : w.fd # fd}
    BY <1>2, UnregisterSteps DEF LoopInv, Elems
  <2>4. Registry!Unregister(fd)
    BY <2>1, <2>2, <2>3 DEF Registry!Unregister, Registry!Called, Elems
  <2> QED  BY <2>4 DEF Registry!UserCall
<1>3. ASSUME NEW d \in Delays, SetTimer(d)
      PROVE  Registry!UserCall
  <2>1. InCallback /\ cur' = cur /\ watchers' = watchers
    BY <1>3 DEF SetTimer, Calls, control
  <2>2. cur # Registry!Nobody
    BY <2>1 DEF LoopInv, CallerInv, Nobody, Registry!Nobody
  <2>3. Registry!TimerPlaceFree <=> Len(timers) < MaxTimers
    BY PlacesCounted DEF LoopInv
  <2>4. CASE /\ ~(Len(timers) < MaxTimers)
             /\ timers' = timers
             /\ call' = [op |-> "set", delay |-> d, id |-> 0]
    <3>1. Registry!SetRefused(d)
      BY <2>1, <2>2, <2>3, <2>4 DEF Registry!SetRefused, Registry!Called, Elems
    <3> QED  BY <3>1 DEF Registry!UserCall
  <2>5. CASE /\ Len(timers) < MaxTimers
             /\ call' = [op |-> "set", delay |-> d, id |-> nextId]
             /\ \A t \in Elems(timers) : t.id # nextId
             /\ Elems(timers') = Elems(timers) \cup {[id |-> nextId, left |-> d]}
    <3>1. Registry!Set(nextId, d)
      BY <2>1, <2>2, <2>3, <2>5 DEF Registry!Set, Registry!Called, Elems
    <3> QED  BY <3>1 DEF Registry!UserCall, LoopInv, IndexInv
  <2> QED  BY <1>3, <2>4, <2>5, SetTimerSteps DEF LoopInv, IndexInv
<1>4. ASSUME NEW id \in Ids, CancelTimer(id)
      PROVE  Registry!UserCall
  <2>1. /\ InCallback /\ cur' = cur /\ watchers' = watchers
        /\ call' = [op |-> "cancel", id |-> id]
    BY <1>4 DEF CancelTimer, Calls, control
  <2>2. cur # Registry!Nobody
    BY <2>1 DEF LoopInv, CallerInv, Nobody, Registry!Nobody
  <2>3. Elems(timers') = {t \in Elems(timers) : t.id # id}
    BY <1>4, CancelTimerSteps DEF LoopInv
  <2>4. Registry!Cancel(id)
    BY <2>1, <2>2, <2>3 DEF Registry!Cancel, Registry!Called, Elems
  <2> QED  BY <1>4, <2>4 DEF Registry!UserCall
<1>5. ASSUME Run \/ CallbackReturns
      PROVE  Registry!Return
  <2>1. /\ InCallback /\ cur' = Nobody /\ call' = NoCall
        /\ watchers' = watchers /\ timers' = timers
    BY <1>5 DEF Run, CallbackReturns, InCallback
  <2>2. cur # Nobody
    BY <2>1 DEF LoopInv, CallerInv
  <2> QED  BY <2>1, <2>2 DEF Registry!Return, Registry!Nobody, Registry!NoCall,
              Nobody, NoCall, Elems
<1>6. ASSUME CallWatcher
      PROVE  \E w \in Elems(watchers) : Registry!Serve(w)
  <2>1. /\ ~InCallback /\ cur' = watchers[i + 1]
        /\ watchers' = watchers /\ timers' = timers /\ call' = call
    BY <1>6 DEF CallWatcher, InCallback
  <2>2. cur = Nobody
    BY <2>1 DEF LoopInv, CallerInv
  <2>3. watchers[i + 1] \in Elems(watchers)
    <3>1. Len(watchers) \in Nat /\ i \in Nat /\ i < Len(watchers)
      BY <1>6, LenProperties DEF CallWatcher, LoopInv, WatchersInv, IndexInv
    <3> QED  BY <3>1 DEF Elems
  <2>4. Registry!Serve(watchers[i + 1])
    BY <2>1, <2>2, <2>3 DEF Registry!Serve, Registry!Nobody, Nobody, Elems
  <2> QED  BY <2>3, <2>4
<1>7. ASSUME FireTimer
      PROVE  \E t \in Elems(timers) : Registry!Fire(t)
  <2>1. /\ ~InCallback /\ watchers' = watchers /\ timers[i + 1].left = 0
        /\ cur' = [id |-> timers[i + 1].id] /\ call' = call
    BY <1>7 DEF FireTimer, InCallback
  <2>2. cur = Nobody
    BY <2>1 DEF LoopInv, CallerInv
  <2>3. /\ timers[i + 1] \in Elems(timers)
        /\ Elems(timers') = Elems(timers) \ {timers[i + 1]}
    BY <1>7, FireTimerSteps DEF LoopInv, IndexInv
  <2>4. Registry!Fire(timers[i + 1])
    BY <2>1, <2>2, <2>3 DEF Registry!Fire, Registry!Nobody, Nobody, Elems
  <2> QED  BY <2>3, <2>4
<1>8. ASSUME Tick
      PROVE  Registry!Tick
  <2>1. ~InCallback /\ cur' = cur /\ call' = call /\ watchers' = watchers
    BY <1>8 DEF Tick, InCallback, control
  <2>2. cur = Nobody
    BY <2>1 DEF LoopInv, CallerInv
  <2>3. Elems(timers') = {Registry!OneLess(t) : t \in Elems(timers)}
    BY <1>8, TickTimers DEF LoopInv
  <2> QED  BY <2>1, <2>2, <2>3 DEF Registry!Tick, Registry!Nobody, Nobody, Elems
<1>9. ASSUME Stop \/ Drain \/ RunReturns \/ Select \/ PassWatcher \/ EndDispatch
             \/ PassTimer \/ EndStep \/ (\E fd \in Fds : Arrive(fd))
             \/ UNCHANGED loopVars
      PROVE  UNCHANGED Registry!registryVars
  <2>1. UNCHANGED <<watchers, timers, cur, call>>
    BY <1>9 DEF Stop, Drain, RunReturns, Select, PassWatcher, EndDispatch,
       PassTimer, EndStep, Arrive, control, loopVars
  <2> QED  BY <2>1, RegistryStutters
<1> DEFINE Stepped == \/ Registry!UserCall \/ Registry!Return \/ Registry!Tick
                      \/ \E w \in Elems(watchers) : Registry!Serve(w)
                      \/ \E t \in Elems(timers) : Registry!Fire(t)
<1>10. Stepped \/ UNCHANGED Registry!registryVars
  BY <1>1, <1>2, <1>3, <1>4, <1>5, <1>6, <1>7, <1>8, <1>9
     DEF Next, CallbackCall, LoopStep
<1>11. Stepped /\ Counted => Registry!Next
  BY DEF Registry!Next, Counted
<1> QED  BY <1>0, <1>10, <1>11

\* The loop of event_loop.hpp implements the registry it promises: whatever
\* the callbacks call while the arrays are walked, each call does what its
\* name and answer say, no entry takes two places, what runs is the callback
\* registered last of a watched descriptor or that of a timer which is due
\* and was not cancelled, and the loop drops nothing but the timer it fires.
THEOREM LoopImplementsRegistry == LoopSpec => RegistrySpec
<1>1. Init => Registry!Init
  BY EmptySeq DEF Init, Registry!Init, Elems, Main, NoCall, Registry!Main, Registry!NoCall
<1>2. LoopInv /\ LoopInv' /\ [Next]_loopVars => [Registry!Next]_(Registry!registryVars)
  BY LoopStepRefines
<1> QED  BY <1>1, <1>2, LoopInvHolds, PTL DEF LoopSpec, RegistrySpec, Registry!Spec
=============================================================================
