------------------------------ MODULE Geometry ------------------------------
(***************************************************************************)
(* Axis-aligned pixel boxes with exclusive right and bottom edges, as      *)
(* src/domain/geometry.{h,cpp} defines them.  A box is a record; widths    *)
(* and heights are integers and may be zero or negative, which makes the   *)
(* box empty.                                                              *)
(***************************************************************************)
EXTENDS Integers

Box == [x : Int, y : Int, w : Int, h : Int]

\* A default-constructed BoundingBox.
EmptyBox == [x |-> 0, y |-> 0, w |-> 0, h |-> 0]

Right(b)  == b.x + b.w
Bottom(b) == b.y + b.h

IsEmpty(b) == b.w <= 0 \/ b.h <= 0

Intersects(a, b) ==
  /\ ~IsEmpty(a) /\ ~IsEmpty(b)
  /\ Right(a) > b.x /\ Right(b) > a.x
  /\ Bottom(a) > b.y /\ Bottom(b) > a.y

Inset(b, margin) ==
  IF IsEmpty(b) THEN b
  ELSE LET shrunk == [x |-> b.x + margin, y |-> b.y + margin,
                      w |-> b.w - 2 * margin, h |-> b.h - 2 * margin]
       IN  IF IsEmpty(shrunk) THEN EmptyBox ELSE shrunk

Expanded(b, margin) ==
  IF IsEmpty(b) THEN b
  ELSE [x |-> b.x - margin, y |-> b.y - margin,
        w |-> b.w + 2 * margin, h |-> b.h + 2 * margin]

Lesser(m, n)  == IF m <= n THEN m ELSE n
Greater(m, n) == IF m <= n THEN n ELSE m

\* The box from one pair of corners to another.
Span(left, top, right, bottom) ==
  [x |-> left, y |-> top, w |-> right - left, h |-> bottom - top]

\* Mutant: the larger of the widths and of the heights.
MergedWithWidest(a, b) ==
  [x |-> Lesser(a.x, b.x), y |-> Lesser(a.y, b.y),
   w |-> Greater(a.w, b.w), h |-> Greater(a.h, b.h)]

\* The smallest box around both.
MergedWith(a, b) ==
  CASE IsEmpty(a) -> b
    [] IsEmpty(b) -> a
    [] OTHER -> Span(Lesser(a.x, b.x), Lesser(a.y, b.y),
                     Greater(Right(a), Right(b)), Greater(Bottom(a), Bottom(b)))

\* The part of the box within the bounds.
ClampedTo(b, bounds) ==
  LET part == Span(Greater(b.x, bounds.x), Greater(b.y, bounds.y),
                   Lesser(Right(b), Right(bounds)), Lesser(Bottom(b), Bottom(bounds)))
  IN  IF IsEmpty(b) \/ IsEmpty(bounds) \/ IsEmpty(part) THEN EmptyBox ELSE part

-----------------------------------------------------------------------------

\* The pixel <<px, py>> lies in the box: the reference reading of a box.
HasPixel(b, px, py) ==
  /\ b.x <= px /\ px < Right(b)
  /\ b.y <= py /\ py < Bottom(b)

=============================================================================
