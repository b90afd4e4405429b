---------------------------- MODULE Display_proofs ----------------------------
(***************************************************************************)
(* Proofs about Display, for a screen of any size and any bitmaps: that    *)
(* painting marks exactly the pixels it should, nothing that is clipped    *)
(* coming back in another row; that the framebuffer holds the game's       *)
(* picture; and that the picture of a game that is over stands still.      *)
(***************************************************************************)
EXTENDS Display, GameEngine_proofs, Screen_proofs

-----------------------------------------------------------------------------
\* Quotients and remainders of integers.

LEMMA DivModInt ==
  ASSUME NEW a \in Int, NEW d \in Nat \ {0}
  PROVE  /\ a \div d \in Int
         /\ a % d \in 0..(d - 1)
         /\ (a \div d) * d + (a % d) = a
OBVIOUS

\* A remainder is known from any way to write the number.
LEMMA RemainderIs ==
  ASSUME NEW d \in Nat \ {0}, NEW q \in Int, NEW r \in 0..(d - 1)
  PROVE  (q * d + r) % d = r
<1> DEFINE a == q * d + r
           p == a \div d
           s == a % d
<1>1. a \in Int
  OBVIOUS
<1>2. p \in Int /\ s \in 0..(d - 1) /\ p * d + s = a
  BY <1>1, DivModInt
<1>3. p * d + s = q * d + r
  BY <1>2
<1> HIDE DEF a, p, s
<1>4. ASSUME NEW m \in Int, NEW n \in Int, NEW x \in 0..(d - 1), NEW y \in 0..(d - 1),
             m * d + x = n * d + y
      PROVE  ~(m < n)
  <2> SUFFICES ASSUME m < n PROVE FALSE
    OBVIOUS
  <2>1. PICK k \in Nat : n = m + 1 + k
    <3>1. n - m - 1 \in Nat /\ n = m + 1 + (n - m - 1)
      OBVIOUS
    <3> QED
      BY <3>1
  <2>2. n * d = m * d + d + k * d
    BY <2>1
  <2>3. k * d \in Nat /\ m * d \in Int
    OBVIOUS
  <2> QED
    BY <1>4, <2>2, <2>3
<1>5. p = q
  BY <1>2, <1>3, <1>4
<1>6. s = r
  BY <1>2, <1>3, <1>5
<1> QED
  BY <1>6 DEF a, s

\* A number below d * n has fewer than n multiples of d in it.
LEMMA QuotientBelow ==
  ASSUME NEW d \in Nat \ {0}, NEW n \in Nat, NEW a \in Nat, a < d * n
  PROVE  a \div d < n
<1> DEFINE p == a \div d
<1>1. p \in Nat /\ p * d <= a
  BY DivMod
<1> HIDE DEF p
<1> SUFFICES ASSUME p >= n PROVE FALSE
  BY <1>1 DEF p
<1>2. PICK k \in Nat : p = n + k
  <2>1. p - n \in Nat /\ p = n + (p - n)
    BY <1>1
  <2> QED
    BY <2>1
<1>3. p * d = d * n + k * d
  BY <1>2
<1>4. k * d \in Nat /\ d * n \in Nat
  OBVIOUS
<1> QED
  BY <1>1, <1>3, <1>4

-----------------------------------------------------------------------------
\* Painting.

\* No two pixels of the screen share an index of the buffer.
LEMMA IndexIsUnique ==
  ASSUME NEW px \in Pixels, NEW x \in 0..(Width - 1), NEW y \in 0..(Height - 1)
  PROVE  IndexOf(px[1], px[2]) = IndexOf(x, y) <=> px[1] = x /\ px[2] = y
<1>1. /\ px[1] \in 0..(Width - 1) /\ px[2] \in 0..(Height - 1)
      /\ Width \in Nat \ {0} /\ Height \in Nat \ {0}
  BY PixelIs, ScreenAssumption
<1>2. px[2] \in Nat /\ y \in Nat
  BY <1>1
<1>3. /\ (px[2] * Width + px[1]) \div Width = px[2] /\ (px[2] * Width + px[1]) % Width = px[1]
      /\ (y * Width + x) \div Width = y /\ (y * Width + x) % Width = x
  BY <1>1, <1>2, DivUnique
<1> QED
  BY <1>3 DEF IndexOf

\* A pixel is set where it belongs or, off the screen, nowhere.
LEMMA SetPixelMarks ==
  ASSUME NEW px \in Pixels, NEW x \in Int, NEW y \in Int
  PROVE  IndexOf(px[1], px[2]) \in SetPixel(x, y) <=> px[1] = x /\ px[2] = y
<1>1. /\ px[1] \in 0..(Width - 1) /\ px[2] \in 0..(Height - 1)
      /\ Width \in Nat \ {0} /\ Height \in Nat \ {0}
  BY PixelIs, ScreenAssumption
<1>2. CASE IsInside(x, y)
  <2>1. x \in 0..(Width - 1) /\ y \in 0..(Height - 1)
    BY <1>1, <1>2 DEF IsInside
  <2> QED
    BY <1>2, <2>1, IndexIsUnique DEF SetPixel
<1>3. CASE ~IsInside(x, y)
  <2>1. ~(px[1] = x /\ px[2] = y)
    BY <1>1, <1>3 DEF IsInside
  <2> QED
    BY <1>3, <2>1 DEF SetPixel
<1> QED
  BY <1>2, <1>3

\* What is drawn of a bitmap are the bits of its mask that lie on the screen
\* (canvas.cpp:75-90).
Drawable(b) == b.x \in Int /\ b.y \in Int /\ b.mask \in Masks

LEMMA BitmapMarks ==
  ASSUME NEW b, Drawable(b), NEW px \in Pixels
  PROVE  IndexOf(px[1], px[2]) \in DrawBitmap(b) <=> Marks(b, px)
<1> DEFINE w == b.mask.w
           h == b.mask.h
           bits == b.mask.bits
           index == IndexOf(px[1], px[2])
<1>1. /\ b.x \in Int /\ b.y \in Int /\ w \in Nat /\ h \in Nat
      /\ \A bit \in bits : bit \in Nat /\ bit < w * h
  BY DEF Drawable, Masks
<1>2. px[1] \in Int /\ px[2] \in Int
  BY PixelIs, ScreenAssumption
<1>3. index \in DrawBitmap(b) <=>
        \E bit \in bits : index \in SetPixel(b.x + (bit % w), b.y + (bit \div w))
  BY DEF DrawBitmap
<1>4. Marks(b, px) <=> /\ px[1] - b.x \in 0..w - 1 /\ px[2] - b.y \in 0..h - 1
                       /\ (px[2] - b.y) * w + (px[1] - b.x) \in bits
  BY DEF Marks
<1> HIDE DEF w, h, bits, index
<1>5. ASSUME NEW bit \in bits
      PROVE  /\ w \in Nat \ {0} /\ bit \in Nat
             /\ bit % w \in 0..w - 1 /\ bit \div w \in 0..h - 1
             /\ (bit \div w) * w + (bit % w) = bit
  <2>1. bit \in Nat /\ bit < w * h
    BY <1>1
  <2>2. w \in Nat \ {0}
    <3>1. w = 0 => w * h = 0
      BY <1>1
    <3> QED
      BY <1>1, <2>1, <3>1
  <2>3. bit \div w \in Nat /\ bit % w \in 0..(w - 1) /\ (bit \div w) * w + (bit % w) = bit
    BY <2>1, <2>2, DivMod
  <2>4. bit \div w < h
    BY <1>1, <2>1, <2>2, QuotientBelow
  <2> DEFINE q == bit \div w
  <2>5. q \in 0..h - 1
    <3> HIDE DEF q
    <3> QED
      BY <1>1, <2>3, <2>4 DEF q
  <2> QED
    BY <2>1, <2>2, <2>3, <2>5
<1>6. ASSUME NEW bit \in bits, index \in SetPixel(b.x + (bit % w), b.y + (bit \div w))
      PROVE  Marks(b, px)
  <2> DEFINE c == bit % w
             r == bit \div w
  <2>1. c \in 0..w - 1 /\ r \in 0..h - 1 /\ r * w + c = bit /\ w \in Nat
    BY <1>5
  <2>2. b.x + c \in Int /\ b.y + r \in Int /\ c \in Int /\ r \in Int
    BY <1>1, <2>1
  <2>3. px[1] = b.x + c /\ px[2] = b.y + r
    BY <1>6, <2>2, SetPixelMarks DEF index
  <2> HIDE DEF c, r
  <2>4. px[1] - b.x = c /\ px[2] - b.y = r
    BY <1>1, <2>2, <2>3
  <2> QED
    BY <1>4, <2>1, <2>4
<1>7. ASSUME Marks(b, px) PROVE index \in DrawBitmap(b)
  <2> DEFINE c == px[1] - b.x
             r == px[2] - b.y
             bit == r * w + c
  <2>1. c \in 0..(w - 1) /\ r \in 0..h - 1 /\ bit \in bits
    BY <1>4, <1>7
  <2>2. w \in Nat \ {0} /\ r \in Nat
    BY <1>5, <2>1
  <2>3. px[1] = b.x + c /\ px[2] = b.y + r
    BY <1>1, <1>2
  <2>4. b.x + c \in Int /\ b.y + r \in Int
    BY <1>2, <2>3
  <2>5. index \in SetPixel(b.x + c, b.y + r)
    BY <2>3, <2>4, SetPixelMarks DEF index
  <2> HIDE DEF c, r
  <2>6. bit \div w = r /\ bit % w = c
    BY <2>1, <2>2, DivUnique
  <2> QED
    BY <1>3, <2>1, <2>5, <2>6
<1> QED
  BY <1>3, <1>6, <1>7 DEF index

\* An outline is drawn where its box has an edge on the screen
\* (canvas.cpp:57-73).
LEMMA OutlineMarks ==
  ASSUME NEW box \in Box, NEW px \in Pixels
  PROVE  IndexOf(px[1], px[2]) \in RectOutline(box) <=> OnOutline(box, px)
<1> DEFINE index == IndexOf(px[1], px[2])
           right == Right(box)
           bottom == Bottom(box)
<1>1. /\ box.x \in Int /\ box.y \in Int /\ right \in Int /\ bottom \in Int
      /\ px[1] \in Int /\ px[2] \in Int
      /\ ~IsEmpty(box) => box.x < right /\ box.y < bottom
  BY PixelIs, ScreenAssumption DEF Box, Right, Bottom, IsEmpty
<1>2. ASSUME NEW x \in Int, NEW y \in Int
      PROVE  index \in SetPixel(x, y) <=> px[1] = x /\ px[2] = y
  BY SetPixelMarks
<1>3. OnOutline(box, px) <=>
        /\ ~IsEmpty(box)
        /\ box.x <= px[1] /\ px[1] < right /\ box.y <= px[2] /\ px[2] < bottom
        /\ px[1] \in {box.x, right - 1} \/ px[2] \in {box.y, bottom - 1}
  BY DEF OnOutline, HasPixel
<1>4. index \in RectOutline(box) <=>
        /\ ~IsEmpty(box)
        /\ \/ \E x \in box.x..right - 1, y \in {box.y, bottom - 1} : index \in SetPixel(x, y)
           \/ \E x \in {box.x, right - 1}, y \in box.y..bottom - 1 : index \in SetPixel(x, y)
  BY DEF RectOutline
<1> HIDE DEF index, right, bottom
<1>5. (\E x \in box.x..right - 1, y \in {box.y, bottom - 1} : index \in SetPixel(x, y)) <=>
        px[1] \in box.x..right - 1 /\ px[2] \in {box.y, bottom - 1}
  BY <1>1, <1>2
<1>6. (\E x \in {box.x, right - 1}, y \in box.y..bottom - 1 : index \in SetPixel(x, y)) <=>
        px[1] \in {box.x, right - 1} /\ px[2] \in box.y..bottom - 1
  BY <1>1, <1>2
<1>7. ASSUME ~IsEmpty(box)
      PROVE  \/ px[1] \in box.x..right - 1 /\ px[2] \in {box.y, bottom - 1}
             \/ px[1] \in {box.x, right - 1} /\ px[2] \in box.y..bottom - 1
             <=>
             /\ box.x <= px[1] /\ px[1] < right /\ box.y <= px[2] /\ px[2] < bottom
             /\ px[1] \in {box.x, right - 1} \/ px[2] \in {box.y, bottom - 1}
  BY <1>1, <1>7
<1> QED
  BY <1>3, <1>4, <1>5, <1>6, <1>7 DEF index

\* The line of the ground, from edge to edge.
LEMMA GroundLineMarks ==
  ASSUME NEW px \in Pixels
  PROVE  IndexOf(px[1], px[2]) \in FillRect(GroundLine)
           <=> px[2] \in GroundY..GroundY + Layout.LineHeight - 1
<1> DEFINE thick == Layout.LineHeight
           top == Greater(GroundY, 0)
           low == Lesser(GroundY + thick, Height)
           clipped == ClampedTo(GroundLine, WholeScreen)
<1>1. /\ px[1] \in 0..(Width - 1) /\ px[2] \in 0..(Height - 1)
      /\ Width \in Nat \ {0} /\ Height \in Nat \ {0}
      /\ GroundY \in Int /\ thick \in Nat
  BY PixelIs, ScreenAssumption, PlayerAssumption, RendererAssumption DEF Places
<1>2. /\ top \in Int /\ top >= 0 /\ top >= GroundY /\ (top = 0 \/ top = GroundY)
      /\ low \in Int /\ low <= Height /\ low <= GroundY + thick
      /\ (low = Height \/ low = GroundY + thick)
  BY <1>1 DEF Greater, Lesser
<1> HIDE DEF thick
<1>3. /\ GroundLine = [x |-> 0, y |-> GroundY, w |-> Width, h |-> thick]
      /\ Right(GroundLine) = Width /\ Bottom(GroundLine) = GroundY + thick
      /\ IsEmpty(GroundLine) <=> thick = 0
  BY <1>1 DEF GroundLine, Right, Bottom, IsEmpty, thick
<1>4. /\ WholeScreen = [x |-> 0, y |-> 0, w |-> Width, h |-> Height]
      /\ Right(WholeScreen) = Width /\ Bottom(WholeScreen) = Height /\ ~IsEmpty(WholeScreen)
  BY <1>1 DEF WholeScreen, Right, Bottom, IsEmpty
<1>5. Greater(0, 0) = 0 /\ Lesser(Width, Width) = Width
  BY <1>1 DEF Greater, Lesser
<1> DEFINE part == Span(0, top, Width, low)
<1>6. clipped = IF thick = 0 \/ IsEmpty(part) THEN EmptyBox ELSE part
  BY <1>3, <1>4, <1>5 DEF ClampedTo
<1>7. /\ part.x = 0 /\ part.y = top /\ Right(part) = Width /\ Bottom(part) = low
      /\ IsEmpty(part) <=> low <= top
  BY <1>1, <1>2 DEF Span, Right, Bottom, IsEmpty
<1> HIDE DEF top, low, part, clipped
<1>8. ASSUME NEW y \in Int
      PROVE  y \in clipped.y..Bottom(clipped) - 1 <=>
               thick # 0 /\ top <= y /\ y < low
  <2>1. CASE thick = 0 \/ low <= top
    <3>1. clipped.y = 0 /\ Bottom(clipped) = 0
      BY <1>6, <1>7, <2>1 DEF EmptyBox, Bottom
    <3> QED
      BY <1>2, <2>1, <3>1
  <2>2. CASE ~(thick = 0 \/ low <= top)
    <3>1. clipped.y = top /\ Bottom(clipped) = low
      BY <1>6, <1>7, <2>2
    <3> QED
      BY <1>2, <2>2, <3>1
  <2> QED
    BY <2>1, <2>2
<1>9. ASSUME thick # 0, top < low
      PROVE  clipped.x..Right(clipped) - 1 = 0..Width - 1
  BY <1>1, <1>2, <1>6, <1>7, <1>9
<1>10. IndexOf(px[1], px[2]) \in FillRect(GroundLine) <=>
         \E x \in clipped.x..Right(clipped) - 1, y \in clipped.y..Bottom(clipped) - 1 :
           IndexOf(px[1], px[2]) = IndexOf(x, y)
  BY DEF FillRect, clipped
<1>11. clipped.y..Bottom(clipped) - 1 \subseteq Int
  BY <1>1
<1>12. ASSUME IndexOf(px[1], px[2]) \in FillRect(GroundLine)
       PROVE  px[2] \in GroundY..GroundY + thick - 1
  <2>1. PICK x \in clipped.x..Right(clipped) - 1, y \in clipped.y..Bottom(clipped) - 1 :
          IndexOf(px[1], px[2]) = IndexOf(x, y)
    BY <1>10, <1>12
  <2>2. y \in Int /\ thick # 0 /\ top <= y /\ y < low
    BY <1>8, <1>11, <2>1
  <2>3. x \in 0..(Width - 1) /\ y \in 0..(Height - 1)
    <3>1. top < low
      BY <1>2, <2>2
    <3>2. x \in 0..Width - 1
      BY <1>9, <2>1, <2>2, <3>1
    <3>3. y \in 0..(Height - 1)
      BY <1>1, <1>2, <2>2
    <3> QED
      BY <3>2, <3>3
  <2>4. px[2] = y
    BY <2>1, <2>3, IndexIsUnique
  <2> QED
    BY <1>1, <1>2, <2>2, <2>4
<1>13. ASSUME px[2] \in GroundY..GroundY + thick - 1
       PROVE  IndexOf(px[1], px[2]) \in FillRect(GroundLine)
  <2>1. px[2] \in Int /\ thick # 0 /\ top <= px[2] /\ px[2] < low
    BY <1>1, <1>2, <1>13
  <2>2. px[2] \in clipped.y..Bottom(clipped) - 1
    BY <1>8, <2>1
  <2>3. px[1] \in clipped.x..Right(clipped) - 1
    <3>1. top < low
      BY <1>2, <2>1
    <3>2. clipped.x..Right(clipped) - 1 = 0..Width - 1
      BY <1>9, <2>1, <3>1
    <3> QED
      BY <1>1, <3>2
  <2> QED
    BY <1>10, <2>2, <2>3
<1> QED
  BY <1>12, <1>13 DEF thick

\* The pattern of the ground, of which one round is as wide as the screen:
\* a bump drawn from its scrolled place on, column by column around the
\* edge, covers what a pattern that scrolls past would show there
\* (sprite_renderer.cpp:49-73).
LEMMA BumpMarks ==
  ASSUME NEW offset \in Nat, NEW px \in Pixels
  PROVE  IndexOf(px[1], px[2]) \in GroundBumps(offset) <=>
           \E b \in Bumps : /\ px[2] = GroundY + b.dy
                            /\ (px[1] + offset - b.x) % GroundRepeat < b.length
<1> DEFINE index == IndexOf(px[1], px[2])
           Left(b) == (b.x - (offset % GroundRepeat) + GroundRepeat) % GroundRepeat
           Covers(b) == \E dx \in 0..b.length - 1 :
                          index \in SetPixel((Left(b) + dx) % Width, GroundY + b.dy)
<1>1. /\ px[1] \in 0..(Width - 1) /\ px[2] \in 0..(Height - 1)
      /\ Width \in Nat \ {0} /\ GroundRepeat = Width /\ GroundY \in Int
  BY PixelIs, ScreenAssumption, PlayerAssumption, DisplayAssumption
<1>2. index \in GroundBumps(offset) <=> \E b \in Bumps : Covers(b)
  BY DEF GroundBumps
<1>3. ASSUME NEW b \in Bumps
      PROVE  Covers(b) <=> /\ px[2] = GroundY + b.dy
                           /\ (px[1] + offset - b.x) % GroundRepeat < b.length
  <2> DEFINE d == Width
             o == offset % d
             sum == b.x - o + d
             left == sum % d
             gap == px[1] + offset - b.x
             rest == gap % d
  <2>1. b.x \in 0..(d - 1) /\ b.dy \in Nat /\ b.length \in Nat
    BY <1>1, RendererAssumption
  <2>2. /\ o \in 0..(d - 1) /\ offset = (offset \div d) * d + o /\ offset \div d \in Int
    <3>1. offset \in Int /\ d \in Nat \ {0}
      BY <1>1
    <3> HIDE DEF d
    <3> QED
      BY ONLY <3>1, DivModInt
  <2>3. sum \in Int /\ gap \in Int
    <3>1. b.x \in Int /\ d \in Int /\ o \in Int /\ px[1] \in Int /\ offset \in Int
      BY <1>1, <2>1, <2>2
    <3> HIDE DEF d, o
    <3> QED
      BY ONLY <3>1 DEF sum, gap
  <2>4. /\ left \in 0..(d - 1) /\ sum \div d \in Int /\ sum = (sum \div d) * d + left
        /\ rest \in 0..(d - 1) /\ gap \div d \in Int /\ gap = (gap \div d) * d + rest
    <3> HIDE DEF sum, gap
    <3> QED
      BY <1>1, <2>3, DivModInt
  <2>5. ASSUME NEW dx \in Nat
        PROVE  index \in SetPixel((left + dx) % d, GroundY + b.dy) <=>
                 px[1] = (left + dx) % d /\ px[2] = GroundY + b.dy
    <3>1. left + dx \in Nat
      BY <2>4
    <3>2. (left + dx) % d \in Int
      <4> HIDE DEF left
      <4> QED
        BY <1>1, <3>1, DivMod
    <3> QED
      BY <1>1, <2>1, <3>2, SetPixelMarks
  <2>6. Left(b) = left
    BY <1>1
  <2> DEFINE k1 == offset \div d
             k2 == sum \div d
             k3 == gap \div d
  <2>7. /\ d \in Nat \ {0} /\ k1 \in Int /\ k2 \in Int /\ k3 \in Int
        /\ b.x \in Int /\ offset \in Int /\ px[1] \in 0..(d - 1)
        /\ o \in 0..(d - 1) /\ left \in 0..(d - 1) /\ rest \in 0..(d - 1)
        /\ offset = k1 * d + o
        /\ b.x - o + d = k2 * d + left
        /\ px[1] + offset - b.x = k3 * d + rest
    BY <1>1, <2>1, <2>2, <2>4
  <2> HIDE DEF d, o, left, gap, rest, sum, k1, k2, k3
  <2>8. ASSUME NEW dx \in Nat, px[1] = (left + dx) % d
        PROVE  rest = dx % d
    <3> DEFINE m == (left + dx) \div d
               n == dx \div d
               r == dx % d
    <3>1. m \in Int /\ m * d + px[1] = left + dx /\ n \in Int /\ r \in 0..(d - 1)
          /\ n * d + r = dx
      <4>1. left + dx \in Int /\ dx \in Int /\ d \in Nat \ {0}
        BY <2>7
      <4>2. m \in Int /\ m * d + ((left + dx) % d) = left + dx
        BY ONLY <4>1, DivModInt
      <4>3. n \in Int /\ r \in 0..(d - 1) /\ n * d + r = dx
        BY ONLY <4>1, DivModInt
      <4> QED
        BY <2>8, <4>2, <4>3
    <3> HIDE DEF m, n, r
    <3> DEFINE q == n + 1 - k2 - m + k1
    <3>2. k3 * d + rest = q * d + r
      BY <2>7, <3>1
    <3>3. (q * d + r) % d = r /\ (k3 * d + rest) % d = rest
      <4>1. q \in Int
        BY <2>7, <3>1
      <4> HIDE DEF q
      <4> QED
        BY <2>7, <3>1, <4>1, RemainderIs
    <3> QED
      BY <3>2, <3>3 DEF r
  <2>9. px[1] = (left + rest) % d
    <3> DEFINE q == 1 - k2 + k1 - k3
    <3>1. left + rest = q * d + px[1]
      BY <2>7
    <3>2. q \in Int
      BY <2>7
    <3> HIDE DEF q
    <3> QED
      BY <2>7, <3>1, <3>2, RemainderIs
  <2>10. ASSUME Covers(b) PROVE px[2] = GroundY + b.dy /\ rest < b.length
    <3>1. PICK dx \in 0..b.length - 1 :
            index \in SetPixel((left + dx) % d, GroundY + b.dy)
      BY <2>6, <2>10 DEF d
    <3>2. dx \in Nat /\ dx < b.length
      BY <2>1, <3>1
    <3>3. px[1] = (left + dx) % d /\ px[2] = GroundY + b.dy
      BY <2>5, <3>1, <3>2
    <3>4. rest = dx % d
      BY <2>8, <3>2, <3>3
    <3>5. dx % d <= dx
      BY <2>7, <3>2
    <3> QED
      BY <2>1, <2>7, <3>2, <3>3, <3>4, <3>5
  <2>11. ASSUME px[2] = GroundY + b.dy, rest < b.length PROVE Covers(b)
    <3>1. rest \in Nat /\ rest \in 0..b.length - 1
      BY <2>1, <2>7, <2>11
    <3>2. index \in SetPixel((left + rest) % d, GroundY + b.dy)
      BY <2>5, <2>9, <2>11, <3>1
    <3> QED
      BY <2>6, <3>1, <3>2 DEF d
  <2> QED
    BY <1>1, <2>10, <2>11 DEF rest, gap, d
<1> QED
  BY <1>2, <1>3 DEF index

-----------------------------------------------------------------------------
\* The picture of a frame.

LEMMA BlitIsDrawable ==
  ASSUME NEW x \in Int, NEW y \in Int, NEW mask \in Masks
  PROVE  Drawable(Blit(x, y, mask))
BY DEF Drawable, Blit

\* Characters of text, whatever they are (bitmap_font.cpp).
LEMMA TextIsDrawable ==
  ASSUME NEW x \in Int, NEW y \in Int, NEW text \in Seq(STRING), NEW b \in Text(x, y, text)
  PROVE  Drawable(b)
<1>1. PICK i \in DOMAIN text :
        b = Blit(x + (i - 1) * (GlyphWidth + CharSpacing), y, GlyphOf(text[i]))
  BY DEF Text
<1>2. GlyphOf(text[i]) \in Masks
  BY CanvasAssumption DEF GlyphOf
<1>3. x + (i - 1) * (GlyphWidth + CharSpacing) \in Int
  <2> DEFINE pitch == GlyphWidth + CharSpacing
             n == i - 1
  <2>1. pitch \in Int /\ n \in Int
    BY CanvasAssumption, LenProperties
  <2> HIDE DEF pitch, n
  <2>2. n * pitch \in Int
    BY <2>1
  <2>3. x + n * pitch \in Int
    BY <2>2
  <2> QED
    BY <2>3 DEF pitch, n
<1> QED
  BY <1>1, <1>2, <1>3, BlitIsDrawable

LEMMA TextWidthIs ==
  ASSUME NEW text \in Seq(STRING) PROVE TextWidth(text) \in Int
<1> DEFINE pitch == GlyphWidth + CharSpacing
           n == Len(text)
<1>1. pitch \in Int /\ n \in Int /\ CharSpacing \in Int
  BY CanvasAssumption, LenProperties
<1>2. TextWidth(text) = IF text = << >> THEN 0 ELSE n * pitch - CharSpacing
  BY DEF TextWidth
<1> HIDE DEF pitch, n
<1>3. n * pitch - CharSpacing \in Int
  BY <1>1
<1> QED
  BY <1>2, <1>3

LEMMA CentredIs ==
  ASSUME NEW width \in Int PROVE Centred(width) \in Int
BY ScreenAssumption DEF Centred

\* The five digits of any number (scene_renderer.cpp:10-22).
LEMMA DigitsAreDrawable ==
  ASSUME NEW x \in Int, NEW value \in Nat, NEW b \in FiveDigits(x, value)
  PROVE  Drawable(b)
<1>1. PICK i \in 0..4 :
        b = Blit(x + i * Layout.DigitPitch, Layout.HudY,
                 Digit[(value \div Divisor[i + 1]) % 10])
  BY DEF FiveDigits
<1>2. Layout.DigitPitch \in Nat /\ Layout.HudY \in Nat
  BY RendererAssumption DEF Places
<1>3. Divisor[i + 1] \in {10000, 1000, 100, 10, 1}
  BY DEF Divisor
<1>4. (value \div Divisor[i + 1]) % 10 \in 0..9
  <2> DEFINE q == value \div Divisor[i + 1]
  <2>1. q \in Int
    BY <1>3
  <2> HIDE DEF q
  <2>2. q % 10 \in 0..9
    BY <2>1
  <2> QED
    BY <2>2 DEF q
<1>5. Digit[(value \div Divisor[i + 1]) % 10] \in Masks
  BY <1>4, RendererAssumption
<1>6. x + i * Layout.DigitPitch \in Int
  <2> DEFINE pitch == Layout.DigitPitch
  <2>1. pitch \in Int /\ i \in Int
    BY <1>2
  <2> HIDE DEF pitch
  <2>2. i * pitch \in Int
    BY <2>1
  <2>3. x + i * pitch \in Int
    BY <2>2
  <2> QED
    BY <2>3 DEF pitch
<1> QED
  BY <1>1, <1>2, <1>5, <1>6, BlitIsDrawable

\* What moves (sprite_renderer.cpp:16-47, scene_renderer.cpp:24-45).
LEMMA SpritesAreDrawable ==
  ASSUME TypeOK, NEW t, NEW b \in Sprites(player, obstacles, clouds, t)
  PROVE  Drawable(b)
<1> USE DEF SpriteNames
<1>1. CASE \E i \in DOMAIN clouds : b = Blit(clouds[i].x, Sprite["Cloud"].y, SpriteMask["Cloud"])
  <2>1. PICK i \in DOMAIN clouds :
          b = Blit(clouds[i].x, Sprite["Cloud"].y, SpriteMask["Cloud"])
    BY <1>1
  <2>2. clouds[i] \in Cloud
    BY LenProperties, ElementOfSeq DEF TypeOK
  <2>3. clouds[i].x \in Int /\ Sprite["Cloud"].y \in Int /\ SpriteMask["Cloud"] \in Masks
    BY <2>2, CollectionsAssumption, RendererAssumption DEF Cloud, Kinds
  <2> QED
    BY <2>1, <2>3, BlitIsDrawable
<1>2. CASE \E i \in DOMAIN obstacles :
             b = Blit(obstacles[i].x, Sprite[obstacles[i].kind].y,
                      ObstacleMask(obstacles[i].kind, t))
  <2>1. PICK i \in DOMAIN obstacles :
          b = Blit(obstacles[i].x, Sprite[obstacles[i].kind].y,
                   ObstacleMask(obstacles[i].kind, t))
    BY <1>2
  <2>2. obstacles[i] \in Obstacle
    BY LenProperties, ElementOfSeq DEF TypeOK
  <2>3. obstacles[i].x \in Int /\ Sprite[obstacles[i].kind].y \in Int
    BY <2>2, CollectionsAssumption DEF Obstacle, Kinds
  <2>4. ObstacleMask(obstacles[i].kind, t) \in Masks
    BY RendererAssumption DEF ObstacleMask
  <2> QED
    BY <2>1, <2>3, <2>4, BlitIsDrawable
<1>3. CASE b = Blit(PlayerBox(player).x, PlayerBox(player).y, DinoMask(player))
  <2>1. PlayerSize(player) \in Size /\ player.y \in Int
    BY PlayerAssumption DEF PlayerSize, TypeOK, Players
  <2>2. PlayerBox(player).x \in Int /\ PlayerBox(player).y \in Int
    BY <2>1, PlayerAssumption DEF PlayerBox, Size
  <2>3. DinoMask(player) \in Masks
    BY RendererAssumption DEF DinoMask
  <2> QED
    BY <1>3, <2>2, <2>3, BlitIsDrawable
<1> QED
  BY <1>1, <1>2, <1>3 DEF Sprites

\* Every bitmap of a frame (scene_renderer.cpp:24-101).
LEMMA FrameIsDrawable ==
  ASSUME TypeOK, NEW b \in Blits
  PROVE  Drawable(b)
<1>0. /\ Layout.ScoreInset \in Nat /\ Layout.HighInset \in Nat /\ Layout.HighDigits \in Nat
      /\ Layout.HudY \in Nat /\ Layout.DebugX \in Nat /\ Layout.DebugY \in Nat
      /\ Layout.BannerY \in Nat /\ Layout.RestartY \in Nat /\ Layout.HintY \in Nat
      /\ Width \in Nat
  BY RendererAssumption, ScreenAssumption DEF Places
<1>1. ScoreX \in Int /\ HighX \in Int /\ HighX + Layout.HighDigits \in Int
  BY <1>0 DEF ScoreX, HighX
<1>2. CASE b \in Sprites(player, obstacles, clouds, tick)
  BY <1>2, SpritesAreDrawable
<1>3. CASE b \in Hud(score.current, score.high)
  <2>1. score.current \in Nat /\ score.high \in Nat
    BY DEF TypeOK, Scores
  <2>2. SpriteMask["HI"] \in Masks
    BY RendererAssumption DEF SpriteNames
  <2>3. \/ b \in FiveDigits(ScoreX, score.current)
        \/ b = Blit(HighX, Layout.HudY, SpriteMask["HI"])
        \/ b \in FiveDigits(HighX + Layout.HighDigits, score.high)
    BY <1>3 DEF Hud
  <2>4. Drawable(Blit(HighX, Layout.HudY, SpriteMask["HI"]))
    <3>1. HighX \in Int /\ Layout.HudY \in Int
      BY <1>0, <1>1
    <3> QED
      BY <2>2, <3>1, BlitIsDrawable
  <2>5. b \in FiveDigits(ScoreX, score.current) => Drawable(b)
    BY <1>1, <2>1, DigitsAreDrawable
  <2>6. b \in FiveDigits(HighX + Layout.HighDigits, score.high) => Drawable(b)
    BY <1>1, <2>1, DigitsAreDrawable
  <2> QED
    BY <2>3, <2>4, <2>5, <2>6
<1>4. CASE b \in Text(Layout.DebugX, Layout.DebugY, DebugText)
  <2>1. Layout.DebugX \in Int /\ Layout.DebugY \in Int /\ DebugText \in Seq(STRING)
    BY <1>0, RendererAssumption
  <2> QED
    BY <1>4, <2>1, TextIsDrawable
<1>5. CASE b \in GameOverScreen
  <2>1. /\ SpriteMask["GameOver"] \in Masks /\ SpriteMask["RestartButton"] \in Masks
        /\ Hint \in Seq(STRING)
    BY RendererAssumption DEF SpriteNames
  <2>2. SpriteMask["GameOver"].w \in Int /\ SpriteMask["RestartButton"].w \in Int
    BY <2>1 DEF Masks
  <2>3. /\ Centred(SpriteMask["GameOver"].w) \in Int
        /\ Centred(SpriteMask["RestartButton"].w) \in Int
        /\ Centred(TextWidth(Hint)) \in Int
    BY <2>1, <2>2, CentredIs, TextWidthIs
  <2>4. \/ b = Blit(Centred(SpriteMask["GameOver"].w), Layout.BannerY, SpriteMask["GameOver"])
        \/ b = Blit(Centred(SpriteMask["RestartButton"].w), Layout.RestartY,
                    SpriteMask["RestartButton"])
        \/ b \in Text(Centred(TextWidth(Hint)), Layout.HintY, Hint)
    BY <1>5 DEF GameOverScreen
  <2>5. Layout.BannerY \in Int /\ Layout.RestartY \in Int /\ Layout.HintY \in Int
    BY <1>0
  <2> QED
    BY <2>1, <2>3, <2>4, <2>5, BlitIsDrawable, TextIsDrawable
<1> QED
  BY <1>2, <1>3, <1>4, <1>5 DEF Blits

\* Every outline of the debug overlay is one of a box.
LEMMA OutlinesAreBoxes ==
  ASSUME TypeOK, NEW box \in Outlines
  PROVE  box \in Box
<1>1. CASE box = PlayerHitbox(player)
  BY <1>1, PlayerHitboxIsBox DEF TypeOK
<1>2. CASE \E i \in DOMAIN obstacles : box = ObstacleHitbox(obstacles[i], HitboxInset)
  <2>1. PICK i \in DOMAIN obstacles : box = ObstacleHitbox(obstacles[i], HitboxInset)
    BY <1>2
  <2>2. obstacles[i] \in Obstacle
    BY LenProperties, ElementOfSeq DEF TypeOK
  <2> QED
    BY <2>1, <2>2, ObstacleHitboxIsBox
<1> QED
  BY <1>1, <1>2 DEF Outlines, DebugBoxes

\* The ink of a frame is the picture as it should be, pixel by pixel.
LEMMA InkMarks ==
  ASSUME TypeOK, NEW px \in Pixels
  PROVE  IndexOf(px[1], px[2]) \in Ink <=> Marked(px, Blits, Outlines)
<1> DEFINE index == IndexOf(px[1], px[2])
<1>1. index \in Ink <=>
        \/ \E b \in Blits : index \in DrawBitmap(b)
        \/ \E box \in Outlines : index \in RectOutline(box)
        \/ index \in FillRect(GroundLine)
        \/ index \in GroundBumps(ground)
  BY DEF Ink
<1>2. \A b \in Blits : index \in DrawBitmap(b) <=> Marks(b, px)
  BY FrameIsDrawable, BitmapMarks
<1>3. \A box \in Outlines : index \in RectOutline(box) <=> OnOutline(box, px)
  BY OutlinesAreBoxes, OutlineMarks
<1>4. index \in FillRect(GroundLine) <=> px[2] \in GroundY..GroundY + Layout.LineHeight - 1
  BY GroundLineMarks
<1>5. ground \in Nat
  BY DEF TypeOK
<1>6. index \in GroundBumps(ground) <=>
        \E b \in Bumps : /\ px[2] = GroundY + b.dy
                         /\ (px[1] + ground - b.x) % GroundRepeat < b.length
  BY <1>5, BumpMarks
<1> HIDE DEF index
<1>7. Marked(px, Blits, Outlines) <=>
        \/ \E b \in Blits : Marks(b, px)
        \/ \E box \in Outlines : OnOutline(box, px)
        \/ px[2] \in GroundY..GroundY + Layout.LineHeight - 1
        \/ \E b \in Bumps : /\ px[2] = GroundY + b.dy
                            /\ (px[1] + ground - b.x) % GroundRepeat < b.length
  BY DEF Marked
<1>8. index \in Ink <=> Marked(px, Blits, Outlines)
  BY <1>1, <1>2, <1>3, <1>4, <1>6, <1>7
<1> QED
  BY <1>8 DEF index

-----------------------------------------------------------------------------
\* The framebuffer.

\* The engine's invariant holds of the engine in front of its display.
LEMMA EngineInvariance == DisplaySpec => []IInv
<1>1. DisplayInit => Init
  BY DEF DisplayInit
<1>2. [DisplayNext]_<<vars, displayVars>> => [Next]_vars
  BY DEF DisplayNext, ShowFrame, Next
<1> QED
  BY <1>1, <1>2, InitInv, StepInv, PTL DEF DisplaySpec

LEMMA EngineTypes == IInv => TypeOK
BY ScoringAssumption DEF IInv, PlayerInv, WorldInv, ScoreInv, FlagsInv, TypeOK

\* Once the first full refresh is acknowledged, canvas and framebuffer hold
\* the frame just painted.  Until then the framebuffer holds whatever the
\* Kindle left in it, and the waveform makes up for that.
DisplayInv ==
  /\ refresh \in Coordinators /\ canvas \in Picture /\ fb \in Picture
  /\ Shown => fb = canvas /\ canvas = Render(Ink, theme.night)

LEMMA RenderIsPicture ==
  ASSUME NEW ink, NEW night \in BOOLEAN PROVE Render(ink, night) \in Picture
BY DisplayAssumption DEF Render, Picture, Foreground, Background

LEMMA DisplayInitInv == DisplayInit => DisplayInv
<1> SUFFICES ASSUME DisplayInit PROVE DisplayInv
  OBVIOUS
<1>1. refresh \in Coordinators /\ refresh.full = TRUE
  BY RefreshAssumption DEF DisplayInit, NewRefresh, Coordinators
<1>2. canvas \in Picture /\ fb \in Picture
  BY DisplayAssumption DEF DisplayInit, Picture
<1> QED
  BY <1>1, <1>2 DEF DisplayInv, Shown

\* After any frame the framebuffer holds that frame, whatever it held before.
LEMMA FrameIsShown ==
  ASSUME DisplayInv, theme' \in Themes, gameOver' \in BOOLEAN, PresentAndRefresh
  PROVE  DisplayInv' /\ Shown'
<1> DEFINE told == IF gameOver' THEN NotifyGameOver(refresh) ELSE refresh
           box == ComputeDamage(canvas, canvas')
           region == Damage(canvas, canvas', DetermineWaveform(told))
<1>1. /\ canvas' = Render(Ink', theme'.night)
      /\ fb' = PresentRegion(fb, canvas', region)
      /\ refresh' = Acknowledge(told)
  BY DEF PresentAndRefresh
<1>2. refresh \in Coordinators /\ canvas \in Picture /\ fb \in Picture
  BY DEF DisplayInv
<1>3. canvas' \in Picture
  <2>1. theme'.night \in BOOLEAN
    BY DEF Themes
  <2> QED
    BY <1>1, <2>1, RenderIsPicture
<1>4. told \in Coordinators /\ (refresh.full => told.full)
  BY <1>2 DEF NotifyGameOver, Coordinators
<1>5. refresh' \in Coordinators /\ refresh'.full = FALSE
  <2> HIDE DEF told
  <2> QED
    BY <1>1, <1>4 DEF Acknowledge, Coordinators
<1>6. \/ region = WholeScreen
      \/ fb = canvas /\ region = box /\ ~IsEmpty(region)
  <2>1. CASE refresh.full
    <3>1. DetermineWaveform(told) = "FullGrayscaleClear"
      <4> HIDE DEF told
      <4> QED
        BY <1>4, <2>1 DEF DetermineWaveform
    <3> QED
      BY <3>1 DEF Damage
  <2>2. CASE ~refresh.full
    <3>1. fb = canvas
      BY <2>2 DEF DisplayInv, Shown
    <3> HIDE DEF told
    <3> QED
      BY <3>1 DEF Damage
  <2> QED
    BY <2>1, <2>2
<1>7. fb' = canvas'
  <2> HIDE DEF region
  <2> QED
    BY <1>1, <1>2, <1>3, <1>6, PresentCompletes
<1> QED
  BY <1>1, <1>3, <1>5, <1>7 DEF DisplayInv, Shown

LEMMA DisplayStepInv ==
  IInv /\ IInv' /\ DisplayInv /\ [DisplayNext]_<<vars, displayVars>> => DisplayInv'
<1> SUFFICES ASSUME IInv, IInv', DisplayInv, [DisplayNext]_<<vars, displayVars>>
             PROVE  DisplayInv'
  OBVIOUS
<1>1. CASE DisplayNext
  <2>1. PresentAndRefresh
    BY <1>1 DEF DisplayNext, ShowFrame
  <2>2. theme' \in Themes /\ gameOver' \in BOOLEAN
    BY DEF IInv, FlagsInv
  <2> QED
    BY <2>1, <2>2, FrameIsShown
<1>2. CASE UNCHANGED <<vars, displayVars>>
  <2>1. UNCHANGED <<player, obstacles, clouds, ground, score, theme, gameOver,
                    debug, tick, refresh, canvas, fb>>
    BY <1>2 DEF vars, displayVars
  <2>2. Blits' = Blits /\ Outlines' = Outlines
    BY <2>1 DEF Blits, Outlines
  <2>3. Ink' = Ink
    BY <2>1, <2>2 DEF Ink
  <2> QED
    BY <2>1, <2>3 DEF DisplayInv, Shown
<1> QED
  BY <1>1, <1>2

LEMMA DisplayInvariance == DisplaySpec => [](IInv /\ DisplayInv)
BY EngineInvariance, DisplayInitInv, DisplayStepInv, PTL DEF DisplaySpec

\* What the framebuffer shows is the picture of the reference, pixel by
\* pixel.
LEMMA ShowsMarked == IInv /\ DisplayInv => FramebufferShowsGame
<1> SUFFICES ASSUME IInv, DisplayInv, Shown, NEW px \in Pixels
             PROVE  fb[px] = IF Marked(px, Blits, Outlines)
                             THEN Foreground(theme.night) ELSE Background(theme.night)
  BY DEF FramebufferShowsGame
<1>1. fb[px] = IF IndexOf(px[1], px[2]) \in Ink
               THEN Foreground(theme.night) ELSE Background(theme.night)
  BY DEF DisplayInv, Render
<1>2. IndexOf(px[1], px[2]) \in Ink <=> Marked(px, Blits, Outlines)
  BY EngineTypes, InkMarks
<1> QED
  BY <1>1, <1>2

\* Once a frame is shown the framebuffer holds the game's picture to the
\* pixel, for any screen, bitmaps, texts and layout, and whatever the
\* framebuffer held before the game.
THEOREM FramebufferCorrect == DisplaySpec => []FramebufferShowsGame
BY DisplayInvariance, ShowsMarked, PTL

-----------------------------------------------------------------------------
\* A game that is over.

\* Of the sprites only pterodactyls depend on the frame's tick, and their
\* masks are as large as their boxes (sprite_renderer.cpp:34-47).
LEMMA WingsOnly ==
  ASSUME TypeOK, NEW px \in Pixels, NEW s, NEW t,
         NEW b \in Sprites(player, obstacles, clouds, s), Marks(b, px),
         ~ \E c \in Sprites(player, obstacles, clouds, t) : Marks(c, px)
  PROVE  \E i \in DOMAIN obstacles :
           /\ obstacles[i].kind \in FlyingKinds
           /\ HasPixel(ObstacleHitbox(obstacles[i], 0), px[1], px[2])
<1>1. b \notin Sprites(player, obstacles, clouds, t)
  OBVIOUS
<1>2. PICK i \in DOMAIN obstacles :
        /\ b = Blit(obstacles[i].x, Sprite[obstacles[i].kind].y,
                    ObstacleMask(obstacles[i].kind, s))
        /\ b # Blit(obstacles[i].x, Sprite[obstacles[i].kind].y,
                    ObstacleMask(obstacles[i].kind, t))
  BY <1>1 DEF Sprites
<1> DEFINE o == obstacles[i]
           size == Sprite[o.kind]
<1>3. o \in Obstacle
  BY LenProperties, ElementOfSeq DEF TypeOK
<1>4. o.kind \in FlyingKinds
  BY <1>2, <1>3 DEF ObstacleMask, Obstacle, ObstacleKinds, GroundKinds
<1>5. /\ o.x \in Int /\ size.y \in Int /\ size.w \in Nat /\ size.h \in Nat
  BY <1>3, CollectionsAssumption DEF Obstacle, Kinds
<1>6. ObstacleMask(o.kind, s).w = size.w /\ ObstacleMask(o.kind, s).h = size.h
  <2>1. ObstacleMask(o.kind, s) \in {SpriteMask["PteroWingUp"], SpriteMask["PteroWingDown"]}
    BY <1>4 DEF ObstacleMask, FlyingKinds
  <2>2. HasSize(SpriteMask["PteroWingUp"], size) /\ HasSize(SpriteMask["PteroWingDown"], size)
    BY <1>4, RendererAssumption
  <2> QED
    BY <2>1, <2>2 DEF HasSize
<1>7. /\ px[1] - o.x \in 0..size.w - 1 /\ px[2] - size.y \in 0..size.h - 1
      /\ px[1] \in Int /\ px[2] \in Int
  <2>1. b.x = o.x /\ b.y = size.y /\ b.mask = ObstacleMask(o.kind, s)
    BY <1>2 DEF Blit
  <2>2. px[1] \in Int /\ px[2] \in Int
    BY PixelIs, ScreenAssumption
  <2> HIDE DEF o, size
  <2> QED
    BY <1>6, <2>1, <2>2 DEF Marks
<1>8. HasPixel(ObstacleHitbox(o, 0), px[1], px[2])
  <2>1. ObstacleHitbox(o, 0) =
          Inset([x |-> o.x, y |-> size.y, w |-> size.w, h |-> size.h], 0)
    BY DEF ObstacleHitbox
  <2> HIDE DEF o, size
  <2>2. ObstacleHitbox(o, 0) = [x |-> o.x, y |-> size.y, w |-> size.w, h |-> size.h]
    BY <1>5, <2>1 DEF Inset, IsEmpty
  <2> QED
    BY <1>5, <1>7, <2>2 DEF HasPixel, Right, Bottom
<1> QED
  BY <1>4, <1>8

\* A frame of a game that is and stays over changes nothing of the game.
LEMMA OverIsIdle ==
  ASSUME NEW input \in Inputs, Step(input), gameOver, gameOver'
  PROVE  UNCHANGED vars
BY DEF Step, PlayFrame, CrashFrame, Restart, StayOver

LEMMA RestStep ==
  ASSUME IInv, FramebufferShowsGame, FramebufferShowsGame',
         DisplayInv, IInv', DisplayNext, Shown, gameOver, gameOver',
         NEW px \in Pixels, fb'[px] # fb[px]
  PROVE  \E i \in DOMAIN obstacles :
           /\ obstacles[i].kind \in FlyingKinds
           /\ HasPixel(ObstacleHitbox(obstacles[i], 0), px[1], px[2])
<1>1. PICK input \in Inputs : Step(input) /\ PresentAndRefresh
  BY DEF DisplayNext, ShowFrame
<1>2. UNCHANGED <<player, obstacles, clouds, ground, score, theme, gameOver, debug>>
  BY <1>1, OverIsIdle DEF vars, PresentAndRefresh
<1>3. Shown'
  <2>1. theme' \in Themes /\ gameOver' \in BOOLEAN
    BY DEF IInv, FlagsInv
  <2> QED
    BY <1>1, <2>1, FrameIsShown
<1>4. Outlines' = Outlines
  BY <1>2 DEF Outlines
<1> DEFINE others == Hud(score.current, score.high)
             \union (IF debug THEN Text(Layout.DebugX, Layout.DebugY, DebugText) ELSE {})
             \union (IF gameOver THEN GameOverScreen ELSE {})
           before == Sprites(player, obstacles, clouds, tick)
           after == Sprites(player, obstacles, clouds, tick')
<1>5. Blits = before \union others /\ Blits' = after \union others
  BY <1>2 DEF Blits
<1>6. Marked(px, Blits, Outlines) # Marked(px, Blits', Outlines)
  <2>1. fb[px] = IF Marked(px, Blits, Outlines)
                 THEN Foreground(theme.night) ELSE Background(theme.night)
    BY DEF FramebufferShowsGame
  <2>2. fb'[px] = IF Marked(px, Blits, Outlines)'
                  THEN Foreground(theme'.night) ELSE Background(theme'.night)
    BY <1>3 DEF FramebufferShowsGame
  <2>3. Marked(px, Blits, Outlines)' <=> Marked(px, Blits', Outlines)
    BY <1>2, <1>4 DEF Marked
  <2> QED
    BY <1>2, <2>1, <2>2, <2>3
<1>7. (\E b \in Blits : Marks(b, px)) # (\E b \in Blits' : Marks(b, px))
  BY <1>6 DEF Marked
<1> HIDE DEF before, after, others
<1>8. \/ /\ \E b \in before : Marks(b, px)
         /\ ~ \E c \in after : Marks(c, px)
      \/ /\ \E b \in after : Marks(b, px)
         /\ ~ \E c \in before : Marks(c, px)
  BY <1>5, <1>7
<1> QED
  BY <1>8, EngineTypes, WingsOnly DEF before, after

\* After a crash the picture stands still but for the wings of pterodactyls,
\* although it is painted and presented anew in every frame.
THEOREM RestStill == DisplaySpec => RestIsStill
<1> DEFINE Still == Shown /\ gameOver /\ gameOver' =>
             \A px \in Pixels : fb'[px] # fb[px] =>
               \E i \in DOMAIN obstacles :
                 /\ obstacles[i].kind \in FlyingKinds
                 /\ HasPixel(ObstacleHitbox(obstacles[i], 0), px[1], px[2])
<1>1. ASSUME IInv, IInv', DisplayInv, FramebufferShowsGame, FramebufferShowsGame',
             [DisplayNext]_<<vars, displayVars>>
      PROVE  [Still]_<<vars, displayVars>>
  <2>1. DisplayNext => Still
    BY <1>1, RestStep
  <2> QED
    BY <1>1, <2>1
<1>2. DisplaySpec => [][Still]_<<vars, displayVars>>
  <2> HIDE DEF Still
  <2> QED
    BY <1>1, DisplayInvariance, FramebufferCorrect, PTL DEF DisplaySpec
<1> QED
  BY <1>2 DEF RestIsStill

-----------------------------------------------------------------------------
\* The heads-up display.

LEMMA HudNumbers ==
  /\ Layout.HudY \in Nat /\ Layout.DigitPitch \in Nat /\ Layout.ScoreInset \in Nat
  /\ Layout.HighInset \in Nat /\ Layout.HighDigits \in Nat /\ Layout.DebugY \in Nat
  /\ Digit[0].w \in Nat /\ Digit[0].h \in Nat /\ HudBottom \in Int
  /\ Width \in Nat /\ Height \in Nat
<1>1. Digit[0] \in Masks
  BY RendererAssumption
<1>2. Digit[0].w \in Nat /\ Digit[0].h \in Nat
  BY <1>1 DEF Masks
<1>3. /\ Layout.HudY \in Nat /\ Layout.DigitPitch \in Nat /\ Layout.ScoreInset \in Nat
      /\ Layout.HighInset \in Nat /\ Layout.HighDigits \in Nat /\ Layout.DebugY \in Nat
  BY RendererAssumption DEF Places
<1> QED
  BY <1>2, <1>3, ScreenAssumption DEF HudBottom

\* The rows of the score.
InBand(px) == px \in Pixels /\ Layout.HudY <= px[2] /\ px[2] < HudBottom

\* A bitmap that starts below the score leaves it alone.
LEMMA BelowIsClear ==
  ASSUME NEW b, Drawable(b), b.y >= HudBottom, NEW px, InBand(px)
  PROVE  ~Marks(b, px)
<1>1. px[2] \in Int /\ HudBottom \in Int /\ b.y \in Int /\ b.mask.h \in Int
  BY PixelIs, ScreenAssumption, HudNumbers DEF Drawable, Masks, InBand
<1>2. px[2] - b.y \notin 0..b.mask.h - 1
  BY <1>1 DEF InBand
<1> QED
  BY <1>2 DEF Marks

\* A body thrown upwards rises no higher than its speed carries it: with v
\* its speed still, r its rise, j the speed it took off with and g gravity.
LEMMA RiseIsBounded ==
  ASSUME NEW j \in Nat, NEW g \in Nat \ {0}, NEW v \in Int, NEW r \in Int, NEW room \in Int,
         2 * g * r = (v + j) * (j + g - v),
         (2 * j + g) * (2 * j + g) <= 8 * g * room
  PROVE  r <= room
<1> DEFINE s == 2 * v - g
<1>1. 4 * ((v + j) * (j + g - v)) = (2 * j + g) * (2 * j + g) - s * s
  OBVIOUS
<1>2. s * s >= 0
  OBVIOUS
<1>3. 8 * g * r <= 8 * g * room
  <2>1. 8 * g * r = 4 * (2 * g * r)
    OBVIOUS
  <2>2. 8 * g * r \in Int /\ 8 * g * room \in Int /\ s * s \in Int
    OBVIOUS
  <2> HIDE DEF s
  <2> QED
    BY <1>1, <1>2, <2>1, <2>2
<1> SUFFICES ASSUME r > room PROVE FALSE
  OBVIOUS
<1>4. PICK k \in Nat : r = room + 1 + k
  <2>1. r - room - 1 \in Nat /\ r = room + 1 + (r - room - 1)
    OBVIOUS
  <2> QED
    BY <2>1
<1>5. 8 * g * r = 8 * g * room + 8 * g + 8 * g * k
  BY <1>4
<1>6. 8 * g * k >= 0 /\ 8 * g * k \in Int /\ 8 * g > 0 /\ 8 * g * room \in Int /\ 8 * g \in Int
  OBVIOUS
<1> QED
  BY <1>3, <1>5, <1>6

\* The dinosaur keeps below the score, at the top of its jump too
\* (player.cpp:12-27).
LEMMA PlayerKeepsBelow ==
  ASSUME PlayerInv
  PROVE  PlayerBox(player).y >= HudBottom
<1> DEFINE h == PlayerSize(player).h
           room == GroundY - h - HudBottom
           rise == GroundY - player.y
<1>1. /\ PlayerSize(player) \in {StandSize, DuckSize} /\ h \in Nat
      /\ player.y \in Int /\ player.vy \in Int
      /\ GroundY \in Int /\ HudBottom \in Int /\ JumpSpeed \in Nat /\ Gravity \in Nat \ {0}
  BY PlayerAssumption, HudNumbers DEF PlayerSize, PlayerInv, Players, Size
<1>2. (2 * JumpSpeed + Gravity) * (2 * JumpSpeed + Gravity) <= 8 * Gravity * room
  BY <1>1, HudAssumption
<1>3. room \in Int /\ rise \in Int
  BY <1>1
<1>4. rise <= room
  <2>1. CASE Flying(player)
    <3>1. 2 * Gravity * rise = (player.vy + JumpSpeed) * (JumpSpeed + Gravity - player.vy)
      BY <2>1 DEF Flying, OnParabola
    <3> HIDE DEF rise, room
    <3> QED
      BY <1>1, <1>2, <1>3, <3>1, RiseIsBounded
  <2>2. CASE Resting(player)
    <3>1. rise = 0
      BY <1>1, <2>2 DEF Resting
    <3>2. 2 * Gravity * rise = ((JumpSpeed + Gravity) + JumpSpeed)
                                 * (JumpSpeed + Gravity - (JumpSpeed + Gravity))
      <4>1. JumpSpeed + Gravity - (JumpSpeed + Gravity) = 0
        BY <1>1
      <4> QED
        BY <1>1, <3>1, <4>1
    <3>3. JumpSpeed + Gravity \in Int
      BY <1>1
    <3> HIDE DEF rise, room
    <3> QED
      BY <1>1, <1>2, <1>3, <3>2, <3>3, RiseIsBounded
  <2> QED
    BY <2>1, <2>2 DEF PlayerInv
<1>5. PlayerBox(player).y = player.y - h
  BY DEF PlayerBox
<1> QED
  BY <1>1, <1>4, <1>5

\* No sprite reaches up to the score (obstacle.h:98-115, obstacle_spawner.cpp:60).
LEMMA SpritesKeepBelow ==
  ASSUME IInv, NEW t, NEW b \in Sprites(player, obstacles, clouds, t)
  PROVE  b.y >= HudBottom
<1>1. \A k \in Kinds : Sprite[k].y >= HudBottom
  BY HudAssumption
<1>2. PlayerBox(player).y >= HudBottom
  BY PlayerKeepsBelow DEF IInv
<1>3. \A i \in DOMAIN obstacles : obstacles[i].kind \in Kinds
  <2>1. \A i \in DOMAIN obstacles : obstacles[i] \in Obstacle
    BY EngineTypes, LenProperties, ElementOfSeq DEF TypeOK
  <2> QED
    BY <2>1 DEF Obstacle, Kinds
<1>4. \/ b.y = Sprite["Cloud"].y
      \/ \E i \in DOMAIN obstacles : b.y = Sprite[obstacles[i].kind].y
      \/ b.y = PlayerBox(player).y
  BY DEF Sprites, Blit
<1> QED
  BY <1>1, <1>2, <1>3, <1>4 DEF Kinds

\* Banner, button and hint stand below the score (scene_renderer.cpp:61-76).
LEMMA GameOverKeepsBelow ==
  ASSUME NEW b \in GameOverScreen
  PROVE  b.y >= HudBottom
<1>1. \A p \in {"BannerY", "RestartY", "HintY"} : Layout[p] >= HudBottom
  BY HudAssumption
<1>2. b.y \in {Layout.BannerY, Layout.RestartY, Layout.HintY}
  BY DEF GameOverScreen, Text, Blit
<1> QED
  BY <1>1, <1>2

\* The debug text stands above the score or below it (scene_renderer.cpp:86).
LEMMA DebugTextIsClear ==
  ASSUME NEW b \in Text(Layout.DebugX, Layout.DebugY, DebugText), Drawable(b),
         NEW px, InBand(px)
  PROVE  ~Marks(b, px)
<1>1. \E c \in DOMAIN Glyph : b.mask = Glyph[c]
  BY CanvasAssumption DEF Text, Blit, GlyphOf
<1>2. b.y = Layout.DebugY
  BY DEF Text, Blit
<1>3. CASE Layout.DebugY >= HudBottom
  BY <1>2, <1>3, BelowIsClear
<1>4. CASE Layout.DebugY + b.mask.h <= Layout.HudY
  <2>1. px[2] \in Int /\ b.mask.h \in Int /\ Layout.HudY \in Int /\ Layout.DebugY \in Int
    BY PixelIs, ScreenAssumption, HudNumbers DEF Drawable, Masks, InBand
  <2>2. px[2] - b.y \notin 0..b.mask.h - 1
    BY <1>2, <1>4, <2>1 DEF InBand
  <2> QED
    BY <2>2 DEF Marks
<1> QED
  BY <1>1, <1>3, <1>4, HudAssumption

\* An inset box starts no higher than the box itself, or is empty.
LEMMA InsetKeepsBelow ==
  ASSUME NEW b \in Box, NEW margin \in Nat, NEW y \in Int, b.y >= y,
         ~IsEmpty(Inset(b, margin))
  PROVE  Inset(b, margin).y >= y
BY DEF Inset, Box, EmptyBox, IsEmpty

\* So do the outlines of the overlay (scene_renderer.cpp:78-86).
LEMMA OutlinesKeepBelow ==
  ASSUME IInv, NEW box \in Outlines, NEW px, InBand(px)
  PROVE  ~OnOutline(box, px)
<1> SUFFICES ASSUME OnOutline(box, px) PROVE FALSE
  OBVIOUS
<1>1. ~IsEmpty(box) /\ HasPixel(box, px[1], px[2])
  BY DEF OnOutline
<1>2. HudBottom \in Int /\ HitboxInset \in Nat
  BY HudNumbers, PlayerAssumption
<1>3. ASSUME box = PlayerHitbox(player) PROVE box.y >= HudBottom
  <2>1. PlayerSize(player) \in Size /\ player.y \in Int
    BY EngineTypes, PlayerAssumption DEF PlayerSize, TypeOK, Players
  <2>2. PlayerBox(player) \in Box
    BY <2>1, PlayerAssumption DEF PlayerBox, Size, Box
  <2>3. PlayerBox(player).y >= HudBottom
    BY PlayerKeepsBelow DEF IInv
  <2> QED
    BY <1>1, <1>2, <1>3, <2>2, <2>3, InsetKeepsBelow DEF PlayerHitbox
<1>4. ASSUME NEW i \in DOMAIN obstacles, box = ObstacleHitbox(obstacles[i], HitboxInset)
      PROVE  box.y >= HudBottom
  <2> DEFINE o == obstacles[i]
             sprite == [x |-> o.x, y |-> Sprite[o.kind].y,
                        w |-> Sprite[o.kind].w, h |-> Sprite[o.kind].h]
  <2>1. o \in Obstacle
    BY EngineTypes, LenProperties, ElementOfSeq DEF TypeOK
  <2>2. o.x \in Int /\ o.kind \in Kinds /\ Sprite[o.kind] \in [w : Nat, h : Nat, y : Int]
    BY <2>1, CollectionsAssumption DEF Obstacle, Kinds
  <2>3. sprite \in Box /\ sprite.y >= HudBottom
    <3>1. Sprite[o.kind].y >= HudBottom
      BY <2>2, HudAssumption
    <3> QED
      BY <2>2, <3>1 DEF Box
  <2>4. box = Inset(sprite, HitboxInset)
    BY <1>4 DEF ObstacleHitbox
  <2> HIDE DEF sprite
  <2> QED
    BY <1>1, <1>2, <2>3, <2>4, InsetKeepsBelow
<1>5. box.y \in Int /\ px[2] \in Int
  <2>1. box \in Box
    BY EngineTypes, OutlinesAreBoxes
  <2>2. px[2] \in Int
    BY PixelIs, ScreenAssumption DEF InBand
  <2> QED
    BY <2>1, <2>2 DEF Box
<1>6. box.y >= HudBottom
  BY <1>3, <1>4 DEF Outlines, DebugBoxes
<1> QED
  BY <1>1, <1>2, <1>5, <1>6 DEF HasPixel, InBand

\* The dinosaur stands on the ground, which is below the score therefore.
LEMMA GroundIsBelow == GroundY >= HudBottom
<1> DEFINE room == GroundY - StandSize.h - HudBottom
           q == (2 * JumpSpeed + Gravity) * (2 * JumpSpeed + Gravity)
<1>1. /\ GroundY \in Int /\ HudBottom \in Int /\ StandSize.h \in Nat
      /\ JumpSpeed \in Nat /\ Gravity \in Nat \ {0}
  BY PlayerAssumption, HudNumbers DEF Size
<1>2. q <= 8 * Gravity * room
  BY HudAssumption
<1>3. 0 <= q /\ q \in Int /\ room \in Int
  BY <1>1
<1>4. room >= 0
  <2> HIDE DEF q, room
  <2> SUFFICES ASSUME room < 0 PROVE FALSE
    BY <1>3
  <2>1. 8 * Gravity * room < 0 /\ 8 * Gravity * room \in Int
    BY <1>1, <1>3
  <2> QED
    BY <1>2, <1>3, <2>1
<1> QED
  BY <1>1, <1>4

\* In its rows the screen shows the heads-up display and nothing else.
LEMMA HudIsFree ==
  ASSUME IInv, NEW px, InBand(px)
  PROVE  Marked(px, Blits, Outlines) <=> \E b \in Hud(score.current, score.high) : Marks(b, px)
<1>1. /\ px \in Pixels /\ px[2] \in Int /\ px[2] < HudBottom /\ HudBottom \in Int
      /\ GroundY \in Int /\ GroundY >= HudBottom
  BY PixelIs, ScreenAssumption, HudNumbers, PlayerAssumption, GroundIsBelow DEF InBand
<1>2. px[2] \notin GroundY..GroundY + Layout.LineHeight - 1
  <2>1. Layout.LineHeight \in Nat
    BY RendererAssumption DEF Places
  <2> QED
    BY <1>1, <2>1
<1>3. \A b \in Bumps : px[2] # GroundY + b.dy
  <2>1. \A b \in Bumps : b.dy \in Nat
    BY RendererAssumption
  <2> QED
    BY <1>1, <2>1
<1>4. \A box \in Outlines : ~OnOutline(box, px)
  BY OutlinesKeepBelow
<1>5. ASSUME NEW b \in Blits, b \notin Hud(score.current, score.high)
      PROVE  ~Marks(b, px)
  <2>1. Drawable(b)
    BY EngineTypes, FrameIsDrawable
  <2>2. CASE b \in Sprites(player, obstacles, clouds, tick)
    BY <2>1, <2>2, SpritesKeepBelow, BelowIsClear
  <2>3. CASE b \in Text(Layout.DebugX, Layout.DebugY, DebugText)
    BY <2>1, <2>3, DebugTextIsClear
  <2>4. CASE b \in GameOverScreen
    BY <2>1, <2>4, GameOverKeepsBelow, BelowIsClear
  <2> QED
    BY <1>5, <2>2, <2>3, <2>4 DEF Blits
<1>6. Hud(score.current, score.high) \subseteq Blits
  BY DEF Blits
<1> QED
  BY <1>2, <1>3, <1>4, <1>5, <1>6 DEF Marked

\* Places at a pitch do not run into each other.
LEMMA PitchSeparates ==
  ASSUME NEW p \in Nat, NEW w \in Nat, w <= p, NEW i \in 0..4, NEW j \in 0..4
  PROVE  /\ i * p \in Int /\ 0 <= i * p /\ i * p <= 4 * p
         /\ i # j => i * p + w <= j * p \/ j * p + w <= i * p
<1>1. i \in {0, 1, 2, 3, 4} /\ j \in {0, 1, 2, 3, 4}
  OBVIOUS
<1> QED
  BY <1>1

\* The digits of draw_5_digits.
DigitAt(value, i) == (value \div Divisor[i + 1]) % 10

PlacedDigit(x, value, i) == Blit(x + i * Layout.DigitPitch, Layout.HudY, Digit[DigitAt(value, i)])

LEMMA DigitAtIs ==
  ASSUME NEW value \in Nat, NEW i \in 0..4
  PROVE  /\ DigitAt(value, i) \in 0..9
         /\ Digit[DigitAt(value, i)].w = Digit[0].w
<1> DEFINE q == value \div Divisor[i + 1]
<1>1. q \in Int
  <2>1. Divisor[i + 1] \in {10000, 1000, 100, 10, 1}
    BY DEF Divisor
  <2> QED
    BY <2>1
<1> HIDE DEF q
<1>2. q % 10 \in 0..9
  BY <1>1
<1>3. DigitAt(value, i) \in 0..9
  BY <1>2 DEF DigitAt, q
<1> QED
  BY <1>3, HudAssumption DEF HasSize

\* A bitmap that keeps clear of the columns of a digit at x.
Beside(b, x) == b.x >= x + Digit[0].w \/ b.x + b.mask.w <= x

\* The five digits of a number stand side by side.
LEMMA DigitsAreBeside ==
  ASSUME NEW x \in Int, NEW value \in Nat, NEW i \in 0..4,
         NEW b \in FiveDigits(x, value), b # PlacedDigit(x, value, i)
  PROVE  Beside(b, x + i * Layout.DigitPitch)
<1> DEFINE p == Layout.DigitPitch
           w == Digit[0].w
<1>1. PICK j \in 0..4 : b = PlacedDigit(x, value, j)
  BY DEF FiveDigits, PlacedDigit, DigitAt
<1>2. i # j
  BY <1>1
<1>3. b.x = x + j * p /\ b.mask.w = w
  BY <1>1, DigitAtIs DEF PlacedDigit, Blit
<1>4. p \in Nat /\ w \in Nat /\ w <= p
  BY HudNumbers, HudAssumption
<1> HIDE DEF p, w
<1>5. /\ i * p \in Int /\ j * p \in Int
      /\ i * p + w <= j * p \/ j * p + w <= i * p
  BY <1>2, <1>4, PitchSeparates
<1>6. b.x >= (x + i * p) + w \/ b.x + b.mask.w <= x + i * p
  BY <1>3, <1>4, <1>5
<1> QED
  BY <1>6 DEF Beside, p, w

\* And take four pitches and a width.
LEMMA DigitsSpan ==
  ASSUME NEW x \in Int, NEW value \in Nat, NEW b \in FiveDigits(x, value)
  PROVE  /\ b.x \in Int /\ b.mask.w = Digit[0].w
         /\ x <= b.x /\ b.x + b.mask.w <= x + 4 * Layout.DigitPitch + Digit[0].w
<1> DEFINE p == Layout.DigitPitch
           w == Digit[0].w
<1>1. PICK j \in 0..4 : b = PlacedDigit(x, value, j)
  BY DEF FiveDigits, PlacedDigit, DigitAt
<1>2. b.x = x + j * p /\ b.mask.w = w
  BY <1>1, DigitAtIs DEF PlacedDigit, Blit
<1>3. p \in Nat /\ w \in Nat /\ w <= p
  BY HudNumbers, HudAssumption
<1> HIDE DEF p, w
<1>4. j * p \in Int /\ 0 <= j * p /\ j * p <= 4 * p
  BY <1>3, PitchSeparates
<1>5. b.x \in Int /\ x <= b.x /\ b.x + b.mask.w <= x + 4 * p + w
  BY <1>2, <1>3, <1>4
<1> QED
  BY <1>2, <1>5 DEF p, w

\* Where a number of the heads-up display can stand: on the screen, and clear
\* of every bitmap of it but its own digits.
IsNumberPlace(x, value, hud) ==
  /\ x \in Int /\ value \in Nat
  /\ 0 <= x /\ x + 4 * Layout.DigitPitch + Digit[0].w <= Width
  /\ \A i \in 0..4 :
       /\ PlacedDigit(x, value, i) \in hud
       /\ \A b \in hud : b # PlacedDigit(x, value, i) => Beside(b, x + i * Layout.DigitPitch)

\* "HI", the high score and the score keep clear of each other
\* (scene_renderer.cpp:47-59).
LEMMA HudPlaces ==
  ASSUME NEW points \in Nat, NEW high \in Nat
  PROVE  /\ IsNumberPlace(ScoreX, points, Hud(points, high))
         /\ IsNumberPlace(HighX + Layout.HighDigits, high, Hud(points, high))
<1> DEFINE p == Layout.DigitPitch
           w == Digit[0].w
           high_x == HighX + Layout.HighDigits
           hi == Blit(HighX, Layout.HudY, SpriteMask["HI"])
<1>1. /\ p \in Nat /\ w \in Nat /\ w <= p
      /\ Layout.ScoreInset \in Nat /\ Layout.HighInset \in Nat /\ Layout.HighDigits \in Nat
      /\ Width \in Nat
  BY HudNumbers, HudAssumption
<1>2. hi.x = HighX /\ hi.mask.w \in Nat /\ hi.mask.w <= Layout.HighDigits
  <2>1. SpriteMask["HI"] \in Masks
    BY RendererAssumption DEF SpriteNames
  <2> QED
    BY <2>1, HudAssumption DEF Blit, Masks
<1>3. /\ 4 * p + w <= Layout.ScoreInset
      /\ Layout.ScoreInset + Layout.HighInset - Layout.HighDigits <= Width
      /\ Layout.HighDigits + 4 * p + w <= Layout.HighInset
  BY HudAssumption
<1>4. \A b \in Hud(points, high) :
        \/ b \in FiveDigits(ScoreX, points)
        \/ b = hi
        \/ b \in FiveDigits(high_x, high)
  BY DEF Hud
<1>5. \A i \in 0..4 : /\ PlacedDigit(ScoreX, points, i) \in Hud(points, high)
                      /\ PlacedDigit(high_x, high, i) \in Hud(points, high)
  BY DEF Hud, FiveDigits, PlacedDigit, DigitAt
<1>6. /\ ScoreX = Width - Layout.ScoreInset
      /\ HighX = ScoreX - Layout.HighInset
  BY DEF ScoreX, HighX
<1> HIDE DEF p, w, hi
<1>7. /\ ScoreX \in Int /\ HighX \in Int /\ high_x \in Int
      /\ 0 <= high_x /\ high_x + 4 * p + w <= ScoreX /\ ScoreX + 4 * p + w <= Width
      /\ HighX + hi.mask.w <= high_x
  BY <1>1, <1>2, <1>3, <1>6
<1>8. /\ 0 <= ScoreX /\ high_x + 4 * p + w <= Width /\ HighX + hi.mask.w <= ScoreX
  BY <1>1, <1>2, <1>7
<1> HIDE DEF high_x
<1>9. ASSUME NEW i \in 0..4, NEW b \in Hud(points, high), b # PlacedDigit(ScoreX, points, i)
      PROVE  Beside(b, ScoreX + i * p)
  <2>1. i * p \in Int /\ 0 <= i * p
    BY <1>1, PitchSeparates
  <2>2. CASE b \in FiveDigits(ScoreX, points)
    BY <1>7, <1>9, <2>2, DigitsAreBeside DEF p
  <2>3. CASE b = hi
    <3>1. b.x + b.mask.w <= ScoreX + i * p
      BY <1>2, <1>7, <1>8, <2>1, <2>3
    <3> QED
      BY <3>1 DEF Beside
  <2>4. CASE b \in FiveDigits(high_x, high)
    <3>1. b.x \in Int /\ b.mask.w = w /\ b.x + b.mask.w <= high_x + 4 * p + w
      BY <1>7, <2>4, DigitsSpan DEF p, w
    <3>2. b.x + b.mask.w <= ScoreX + i * p
      BY <1>1, <1>7, <2>1, <3>1
    <3> QED
      BY <3>2 DEF Beside
  <2> QED
    BY <1>4, <2>2, <2>3, <2>4 DEF high_x
<1>10. ASSUME NEW i \in 0..4, NEW b \in Hud(points, high), b # PlacedDigit(high_x, high, i)
       PROVE  Beside(b, high_x + i * p)
  <2>1. i * p \in Int /\ 0 <= i * p /\ i * p <= 4 * p
    BY <1>1, PitchSeparates
  <2>2. CASE b \in FiveDigits(high_x, high)
    BY <1>7, <1>10, <2>2, DigitsAreBeside DEF p
  <2>3. CASE b = hi
    <3>1. b.x + b.mask.w <= high_x + i * p
      BY <1>2, <1>7, <2>1, <2>3
    <3> QED
      BY <3>1 DEF Beside
  <2>4. CASE b \in FiveDigits(ScoreX, points)
    <3>1. b.x \in Int /\ ScoreX <= b.x
      BY <1>7, <2>4, DigitsSpan
    <3>2. b.x >= (high_x + i * p) + w
      BY <1>1, <1>7, <2>1, <3>1
    <3> QED
      BY <3>2 DEF Beside, w
  <2> QED
    BY <1>4, <2>2, <2>3, <2>4 DEF high_x
<1> QED
  BY <1>5, <1>7, <1>8, <1>9, <1>10 DEF IsNumberPlace, p, w, high_x

\* The pixels of a place are those of the digit that stands there.
DigitShown(x, d) ==
  \A col \in 0..Digit[d].w - 1, row \in 0..Digit[d].h - 1 :
    row * Digit[d].w + col \in Digit[d].bits <=>
      fb[<<x + col, Layout.HudY + row>>] = Foreground(theme.night)

\* The bits of a mask are known from its rows and columns.
LEMMA BitsAreRead ==
  ASSUME NEW m \in Masks, NEW n \in Masks, m.w = n.w, m.h = n.h,
         \A col \in 0..m.w - 1, row \in 0..m.h - 1 :
           row * m.w + col \in m.bits <=> row * m.w + col \in n.bits
  PROVE  m = n
<1> DEFINE w == m.w
           h == m.h
<1>1. w \in Nat /\ h \in Nat /\ m.bits \subseteq 0..w * h - 1 /\ n.bits \subseteq 0..w * h - 1
  BY DEF Masks
<1>2. \A col \in 0..w - 1, row \in 0..h - 1 :
        row * w + col \in m.bits <=> row * w + col \in n.bits
  OBVIOUS
<1> HIDE DEF w, h
<1>3. ASSUME NEW bit \in 0..w * h - 1 PROVE bit \in m.bits <=> bit \in n.bits
  <2>1. bit \in Nat /\ bit < w * h
    BY <1>1
  <2>2. w \in Nat \ {0}
    <3>1. w = 0 => w * h = 0
      BY <1>1
    <3> QED
      BY <1>1, <2>1, <3>1
  <2>3. bit \div w \in Nat /\ bit % w \in 0..(w - 1) /\ (bit \div w) * w + (bit % w) = bit
    BY <2>1, <2>2, DivMod
  <2>4. bit \div w < h
    BY <1>1, <2>1, <2>2, QuotientBelow
  <2> DEFINE q == bit \div w
             r == bit % w
  <2>5. q \in 0..h - 1 /\ r \in 0..w - 1 /\ q * w + r = bit
    <3>1. q \in Nat /\ q < h /\ r \in 0..w - 1 /\ q * w + r = bit
      BY <2>3, <2>4
    <3> HIDE DEF q, r
    <3> QED
      BY <1>1, <3>1
  <2> HIDE DEF q, r
  <2> QED
    BY <1>2, <2>5
<1>4. m.bits = n.bits
  BY <1>1, <1>3
<1> QED
  BY <1>4 DEF Masks

\* No two digits can be read at one place.
LEMMA DigitIsUnique ==
  ASSUME NEW x, NEW d \in 0..9, NEW e \in 0..9, DigitShown(x, d), DigitShown(x, e)
  PROVE  d = e
<1>1. Digit[d] \in Masks /\ Digit[e] \in Masks
  BY RendererAssumption
<1>2. Digit[d].w = Digit[e].w /\ Digit[d].h = Digit[e].h
  BY HudAssumption DEF HasSize
<1>3. \A col \in 0..Digit[d].w - 1, row \in 0..Digit[d].h - 1 :
        row * Digit[d].w + col \in Digit[d].bits <=> row * Digit[d].w + col \in Digit[e].bits
  BY <1>2 DEF DigitShown
<1>4. Digit[d] = Digit[e]
  BY <1>1, <1>2, <1>3, BitsAreRead
<1> QED
  BY <1>4, HudAssumption

\* Every digit of the heads-up display is shown at its place, and the pixels
\* of the place are no other bitmap's.
LEMMA DigitsAreShown ==
  ASSUME IInv, DisplayInv, Shown, NEW x, NEW value,
         IsNumberPlace(x, value, Hud(score.current, score.high)),
         NEW i \in 0..4
  PROVE  DigitShown(x + i * Layout.DigitPitch, DigitAt(value, i))
<1> DEFINE hud == Hud(score.current, score.high)
           d == DigitAt(value, i)
           w == Digit[0].w
           h == Digit[0].h
           p == Layout.DigitPitch
           at == x + i * p
           digit == PlacedDigit(x, value, i)
<1>1. /\ x \in Int /\ value \in Nat /\ 0 <= x /\ x + 4 * p + w <= Width
      /\ digit \in hud /\ \A b \in hud : b # digit => Beside(b, at)
  BY DEF IsNumberPlace
<1>2. d \in 0..9 /\ Digit[d].w = w /\ Digit[d].h = h
  BY <1>1, DigitAtIs, HudAssumption DEF HasSize
<1>3. /\ w \in Nat /\ h \in Nat /\ p \in Nat /\ w <= p
      /\ Layout.HudY \in Nat /\ Width \in Nat /\ Height \in Nat
      /\ Layout.HudY + h <= Height
  BY HudNumbers, HudAssumption DEF HudBottom
<1>4. digit.x = at /\ digit.y = Layout.HudY /\ digit.mask = Digit[d]
  BY DEF PlacedDigit, Blit
<1> HIDE DEF hud, d, w, h, p, digit
<1>5. at \in Int /\ 0 <= at /\ at + w <= Width
  <2>1. i * p \in Int /\ 0 <= i * p /\ i * p <= 4 * p
    BY <1>3, PitchSeparates
  <2> QED
    BY <1>1, <1>3, <2>1
<1> HIDE DEF at
<1>6. ASSUME NEW col \in 0..w - 1, NEW row \in 0..h - 1
      PROVE  row * w + col \in Digit[d].bits <=>
               fb[<<at + col, Layout.HudY + row>>] = Foreground(theme.night)
  <2> DEFINE px == <<at + col, Layout.HudY + row>>
  <2>1. px \in Pixels /\ InBand(px)
    <3>1. at + col \in 0..Width - 1
      BY <1>3, <1>5
    <3>2. Layout.HudY + row \in 0..Height - 1
      BY <1>3
    <3>3. Layout.HudY <= Layout.HudY + row /\ Layout.HudY + row < Layout.HudY + h
      BY <1>3
    <3> QED
      BY <3>1, <3>2, <3>3 DEF Pixels, InBand, HudBottom, h
  <2>2. Marks(digit, px) <=> row * w + col \in Digit[d].bits
    <3>1. px[1] - digit.x = col /\ px[2] - digit.y = row
      BY <1>3, <1>4, <1>5
    <3> QED
      BY <1>2, <1>4, <3>1 DEF Marks
  <2>3. ASSUME NEW b \in hud, b # digit PROVE ~Marks(b, px)
    <3>1. Beside(b, at)
      BY <1>1, <2>3
    <3>2. Drawable(b)
      BY EngineTypes, FrameIsDrawable DEF Blits, hud
    <3>3. px[1] - b.x \notin 0..b.mask.w - 1
      <4>1. b.x \in Int /\ b.mask.w \in Nat
        BY <3>2 DEF Drawable, Masks
      <4>2. b.x >= at + w \/ b.x + b.mask.w <= at
        BY <3>1 DEF Beside, w
      <4>3. px[1] = at + col
        OBVIOUS
      <4> QED
        BY ONLY <1>3, <1>5, <4>1, <4>2, <4>3, col \in 0..w - 1
    <3> QED
      BY <3>3 DEF Marks
  <2>4. (\E b \in hud : Marks(b, px)) <=> row * w + col \in Digit[d].bits
    BY <1>1, <2>2, <2>3
  <2>5. Marked(px, Blits, Outlines) <=> row * w + col \in Digit[d].bits
    BY <2>1, <2>4, HudIsFree DEF hud
  <2>6. fb[px] = IF Marked(px, Blits, Outlines) THEN Foreground(theme.night)
                                                ELSE Background(theme.night)
    BY <2>1, ShowsMarked DEF FramebufferShowsGame
  <2>7. Foreground(theme.night) # Background(theme.night)
    BY DEF Foreground, Background
  <2> QED
    BY <2>5, <2>6, <2>7
<1> QED
  BY <1>2, <1>6 DEF DigitShown, at, p, d

\* The last digits of a number, one by one.
LEMMA NextDigit ==
  ASSUME NEW value \in Nat, NEW c \in Nat \ {0}
  PROVE  value % (10 * c) = c * ((value \div c) % 10) + (value % c)
<1> DEFINE b == value \div c
           r == value % c
           q == b \div 10
           s == b % 10
<1>1. b \in Int /\ r \in 0..(c - 1) /\ b * c + r = value
  BY DivModInt
<1>2. q \in Int /\ s \in 0..9 /\ q * 10 + s = b
  <2>1. b \in Int
    BY <1>1
  <2> HIDE DEF b
  <2> QED
    BY <2>1
<1>3. SUFFICES value % (10 * c) = c * s + r
  OBVIOUS
<1> HIDE DEF b, r, q, s
<1>4. c * s \in Nat /\ c * s <= 9 * c
  <2>1. s \in {0, 1, 2, 3, 4, 5, 6, 7, 8, 9}
    BY <1>2
  <2> QED
    BY <2>1
<1> DEFINE t == c * s + r
           m == 10 * c
<1>5. t \in 0..(m - 1) /\ m \in Nat \ {0}
  BY <1>1, <1>4
<1>6. value = q * m + t
  BY <1>1, <1>2
<1> HIDE DEF t, m
<1>7. value % m = t
  BY <1>2, <1>5, <1>6, RemainderIs
<1> QED
  BY <1>7 DEF t, m

LEMMA FiveDigitsMake ==
  ASSUME NEW value \in Nat
  PROVE  10000 * DigitAt(value, 0) + 1000 * DigitAt(value, 1) + 100 * DigitAt(value, 2)
           + 10 * DigitAt(value, 3) + DigitAt(value, 4) = value % 100000
<1> DEFINE rest(c) == value % c
<1>1. /\ DigitAt(value, 0) = (value \div 10000) % 10
      /\ DigitAt(value, 1) = (value \div 1000) % 10
      /\ DigitAt(value, 2) = (value \div 100) % 10
      /\ DigitAt(value, 3) = (value \div 10) % 10
      /\ DigitAt(value, 4) = (value \div 1) % 10
  BY DEF DigitAt, Divisor
<1>2. /\ rest(100000) = 10000 * DigitAt(value, 0) + rest(10000)
      /\ rest(10000) = 1000 * DigitAt(value, 1) + rest(1000)
      /\ rest(1000) = 100 * DigitAt(value, 2) + rest(100)
      /\ rest(100) = 10 * DigitAt(value, 3) + rest(10)
      /\ rest(10) = 1 * DigitAt(value, 4) + rest(1)
  <2>1. \A c \in Nat \ {0} : rest(10 * c) = c * ((value \div c) % 10) + rest(c)
    BY NextDigit
  <2> HIDE DEF rest
  <2> QED
    BY <1>1, <2>1
<1>3. rest(1) = 0
  OBVIOUS
<1>4. \A i \in 0..4 : DigitAt(value, i) \in 0..9
  BY DigitAtIs
<1>5. /\ DigitAt(value, 0) \in Int /\ DigitAt(value, 1) \in Int /\ DigitAt(value, 2) \in Int
      /\ DigitAt(value, 3) \in Int /\ DigitAt(value, 4) \in Int
  BY <1>4
<1>6. rest(100000) = value % 100000
  OBVIOUS
<1> HIDE DEF rest
<1> QED
  BY <1>2, <1>3, <1>5, <1>6

\* A number of the heads-up display reads as it should, its last five digits.
LEMMA NumberIsRead ==
  ASSUME IInv, DisplayInv, Shown, NEW x, NEW value,
         IsNumberPlace(x, value, Hud(score.current, score.high))
  PROVE  ReadNumber(x) = value % 100000
<1>1. value \in Nat
  BY DEF IsNumberPlace
<1>2. ASSUME NEW i \in 0..4
      PROVE  ReadDigit(x + i * Layout.DigitPitch) = DigitAt(value, i)
  <2> DEFINE at == x + i * Layout.DigitPitch
  <2>1. DigitAt(value, i) \in 0..9 /\ DigitShown(at, DigitAt(value, i))
    BY <1>1, DigitAtIs, DigitsAreShown
  <2>2. ReadDigit(at) = CHOOSE d \in 0..9 : DigitShown(at, d)
    BY DEF ReadDigit, DigitShown
  <2> HIDE DEF at
  <2>3. \A d \in 0..9 : DigitShown(at, d) => d = DigitAt(value, i)
    BY <2>1, DigitIsUnique
  <2> QED
    BY <2>1, <2>2, <2>3 DEF at
<1>3. ReadNumber(x) = 10000 * DigitAt(value, 0) + 1000 * DigitAt(value, 1)
                        + 100 * DigitAt(value, 2) + 10 * DigitAt(value, 3) + DigitAt(value, 4)
  BY <1>2 DEF ReadNumber
<1> QED
  BY <1>1, <1>3, FiveDigitsMake

\* The score and the high score can be read off the framebuffer in every
\* frame, to their last five digits: the digits come in order, no two places
\* overlap, and nothing else is painted in their rows, not a dinosaur at the
\* top of its jump, not the banner, not the debug overlay; by day and by
\* night; on any screen and with any bitmaps that keep to HudAssumption.
THEOREM HudCorrect == DisplaySpec => []HudShowsScores
<1>1. IInv /\ DisplayInv => HudShowsScores
  <2> SUFFICES ASSUME IInv, DisplayInv, Shown
               PROVE  /\ ReadNumber(ScoreX) = score.current % 100000
                      /\ ReadNumber(HighX + Layout.HighDigits) = score.high % 100000
    BY DEF HudShowsScores
  <2>1. score.current \in Nat /\ score.high \in Nat
    BY EngineTypes DEF TypeOK, Scores
  <2> QED
    BY <2>1, HudPlaces, NumberIsRead
<1> QED
  BY <1>1, DisplayInvariance, PTL

=============================================================================
