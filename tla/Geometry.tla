------------------------------ MODULE Geometry ------------------------------
(***************************************************************************)
(* Rectangles of graphics/geometry.hpp, and the two operations             *)
(* graphics/eink_display.hpp makes on them before it stores one: widening  *)
(* to even pixel columns and taking the bounding box of two.               *)
(***************************************************************************)
EXTENDS Integers

Rect(x, y, w, h) == [x |-> x, y |-> y, width |-> w, height |-> h]

Rects == [x : Int, y : Int, width : Int, height : Int]

NoRect == Rect(0, 0, 0, 0)

IsEmpty(a) == a.width <= 0 \/ a.height <= 0

Lesser(m, n)  == IF m < n THEN m ELSE n
Greater(m, n) == IF m > n THEN m ELSE n

Right(a)  == a.x + a.width
Bottom(a) == a.y + a.height

(* Rect::clip.  The code trims the four sides one after the other; what is *)
(* left is bounded by the larger of the near edges and the smaller of the  *)
(* far ones.                                                               *)
Clip(a, bounds) ==
  LET x1 == Greater(a.x, bounds.x)
      y1 == Greater(a.y, bounds.y)
      c  == Rect(x1, y1, Lesser(Right(a), Right(bounds)) - x1,
                         Lesser(Bottom(a), Bottom(bounds)) - y1)
  IN  IF IsEmpty(a) \/ IsEmpty(bounds) \/ IsEmpty(c) THEN NoRect ELSE c

EvenDown(n) == 2 * (n \div 2)          \* n & ~1
EvenUp(n)   == EvenDown(n + 1)         \* (n + 1) & ~1

\* Mutant of AlignEven: the far edge is not rounded up.
AlignTruncated(a) == Rect(EvenDown(a.x), a.y, EvenDown(a.width), a.height)

\* Two pixels share a byte: columns are widened to whole bytes.
AlignEven(a) ==
  Rect(EvenDown(a.x), a.y, EvenUp(Right(a)) - EvenDown(a.x), a.height)

\* Mutant of BoundingBox: the later box replaces the earlier one.
BoundingBoxLast(a, b) == b

BoundingBox(a, b) ==
  LET x1 == Lesser(a.x, b.x)
      y1 == Lesser(a.y, b.y)
  IN  Rect(x1, y1, Greater(Right(a), Right(b)) - x1,
                   Greater(Bottom(a), Bottom(b)) - y1)

\* The pixel <<x, y>> is in the rectangle.
Covers(a, x, y) == a.x <= x /\ x < Right(a) /\ a.y <= y /\ y < Bottom(a)
=============================================================================
