---------------------------- MODULE Screen_proofs ----------------------------
(***************************************************************************)
(* Lemmas about module Screen, for a screen of any size: the damage is a   *)
(* box around all that changed, and what is packed for a box contains it.  *)
(* Application_proofs and Display_proofs share them.                       *)
(***************************************************************************)
EXTENDS Screen, WellFoundedInduction, TLAPS

-----------------------------------------------------------------------------
\* Extremes of sets of numbers.

LEMMA LeastCoordinate ==
  ASSUME NEW T \in SUBSET Nat, T # {}
  PROVE  \E m \in T : \A k \in T : m <= k
<1> DEFINE R == OpToRel(<, Nat)
<1>1. PICK m \in T : \A k \in T : ~(<<k, m>> \in R)
  <2>1. IsWellFoundedOn(R, Nat)
    BY NatLessThanWellFounded
  <2> HIDE DEF R
  <2> QED
    BY <2>1, WFMin
<1>2. \A k \in T : ~(k < m)
  BY <1>1 DEF OpToRel
<1> QED
  BY <1>2

\* Min and Max of the coordinates of some pixels.
LEMMA Extremes ==
  ASSUME NEW n \in Nat, NEW T \in SUBSET (0..n), T # {}
  PROVE  /\ Min(T) \in T /\ \A k \in T : Min(T) <= k
         /\ Max(T) \in T /\ \A k \in T : k <= Max(T)
<1>1. \E m \in T : \A k \in T : m <= k
  BY LeastCoordinate
<1>2. \E m \in T : \A k \in T : m >= k
  <2> DEFINE U == {n - k : k \in T}
  <2>1. U \in SUBSET Nat /\ U # {}
    <3>1. \A k \in T : n - k \in Nat
      OBVIOUS
    <3> QED
      BY <3>1
  <2>2. PICK u \in U : \A v \in U : u <= v
    <3> HIDE DEF U
    <3> QED
      BY <2>1, LeastCoordinate
  <2>3. PICK m \in T : u = n - m
    BY <2>2
  <2>4. ASSUME NEW k \in T PROVE m >= k
    <3>1. n - k \in U
      OBVIOUS
    <3>2. n - m <= n - k
      BY <2>2, <2>3, <3>1
    <3> QED
      BY <3>2
  <2> QED
    BY <2>4
<1> QED
  BY <1>1, <1>2 DEF Min, Max

\* Of two numbers.
LEMMA OfTwo ==
  ASSUME NEW a \in Int, NEW b \in Int
  PROVE  Max({a, b}) \in {a, b} /\ Min({a, b}) \in {a, b}
<1>1. (\E m \in {a, b} : \A k \in {a, b} : m >= k) /\ (\E m \in {a, b} : \A k \in {a, b} : m <= k)
  OBVIOUS
<1> QED
  BY <1>1 DEF Min, Max

-----------------------------------------------------------------------------
\* The screen.

LEMMA PixelIs ==
  ASSUME NEW px \in Pixels
  PROVE  px[1] \in 0..(Width - 1) /\ px[2] \in 0..(Height - 1) /\ px = <<px[1], px[2]>>
BY DEF Pixels

\* What is packed for a box contains the box: widening it to whole bytes and
\* clamping it to the screen loses no pixel (packed_gray.cpp:22-45).
LEMMA PackedCovers ==
  ASSUME NEW b \in Box PROVE In(b) \subseteq In(PackedRegion(b))
<1> SUFFICES ASSUME NEW px \in In(b) PROVE HasPixel(PackedRegion(b), px[1], px[2])
  BY DEF In
<1> DEFINE left   == Max({0, b.x - (b.x % 2)})
           right  == Min({Width, Right(b) + (Right(b) % 2)})
           top    == Max({0, b.y})
           bottom == Min({Height, Bottom(b)})
<1>1. /\ b.x \in Int /\ b.y \in Int /\ Right(b) \in Int /\ Bottom(b) \in Int
      /\ Width \in Nat /\ Height \in Nat
  BY ScreenAssumption DEF Box, Right, Bottom
<1>2. /\ px[1] \in 0..(Width - 1) /\ px[2] \in 0..(Height - 1)
      /\ b.x <= px[1] /\ px[1] < Right(b) /\ b.y <= px[2] /\ px[2] < Bottom(b)
  BY PixelIs DEF In, HasPixel
<1>3. b.x % 2 \in 0..1 /\ Right(b) % 2 \in 0..1
  BY <1>1
<1>4. /\ left \in {0, b.x - (b.x % 2)} /\ right \in {Width, Right(b) + (Right(b) % 2)}
      /\ top \in {0, b.y} /\ bottom \in {Height, Bottom(b)}
  <2>1. b.x - (b.x % 2) \in Int /\ Right(b) + (Right(b) % 2) \in Int
        /\ 0 \in Int /\ Width \in Int /\ Height \in Int
    BY <1>1, <1>3
  <2>2. left \in {0, b.x - (b.x % 2)} /\ right \in {Width, Right(b) + (Right(b) % 2)}
    BY ONLY <2>1, OfTwo
  <2>3. top \in {0, b.y} /\ bottom \in {Height, Bottom(b)}
    BY ONLY <1>1, <2>1, OfTwo
  <2> QED
    BY <2>2, <2>3
<1>5. PackedRegion(b) = [x |-> left, y |-> top, w |-> right - left, h |-> bottom - top]
  BY DEF PackedRegion
<1> HIDE DEF left, right, top, bottom
<1>6. /\ left \in Int /\ right \in Int /\ top \in Int /\ bottom \in Int
      /\ left <= px[1] /\ px[1] < right /\ top <= px[2] /\ px[2] < bottom
  BY <1>1, <1>2, <1>3, <1>4
<1> QED
  BY <1>2, <1>5, <1>6 DEF HasPixel, Right, Bottom

\* The whole screen is all of its pixels.
LEMMA WholeScreenIs == WholeScreen \in Box /\ ~IsEmpty(WholeScreen) /\ In(WholeScreen) = Pixels
<1>1. WholeScreen \in Box /\ ~IsEmpty(WholeScreen)
  BY ScreenAssumption DEF WholeScreen, Box, IsEmpty
<1>2. ASSUME NEW px \in Pixels PROVE HasPixel(WholeScreen, px[1], px[2])
  BY PixelIs, ScreenAssumption DEF WholeScreen, HasPixel, Right, Bottom
<1> QED
  BY <1>1, <1>2 DEF In

\* The damage is a box around all that changed (frame_differ.cpp).
LEMMA DamageCovers ==
  ASSUME NEW previous \in Picture, NEW current \in Picture,
         NEW px \in Pixels, previous[px] # current[px]
  PROVE  LET box == ComputeDamage(previous, current)
         IN  box \in Box /\ ~IsEmpty(box) /\ px \in In(box)
<1> DEFINE changed == {p \in Pixels : previous[p] # current[p]}
           xs == {p[1] : p \in changed}
           ys == {p[2] : p \in changed}
<1>1. px \in changed /\ px[1] \in xs /\ px[2] \in ys /\ changed # {}
  OBVIOUS
<1>2. /\ Width - 1 \in Nat /\ Height - 1 \in Nat
      /\ xs \in SUBSET (0..(Width - 1)) /\ ys \in SUBSET (0..(Height - 1))
  BY PixelIs, ScreenAssumption
<1>3. ComputeDamage(previous, current) =
        [x |-> Min(xs), y |-> Min(ys),
         w |-> Max(xs) - Min(xs) + 1, h |-> Max(ys) - Min(ys) + 1]
  BY <1>1 DEF ComputeDamage
<1> HIDE DEF changed, xs, ys
<1>4. /\ Min(xs) \in 0..(Width - 1) /\ Max(xs) \in 0..(Width - 1)
      /\ Min(xs) <= px[1] /\ px[1] <= Max(xs)
      /\ Min(ys) \in 0..(Height - 1) /\ Max(ys) \in 0..(Height - 1)
      /\ Min(ys) <= px[2] /\ px[2] <= Max(ys)
  BY <1>1, <1>2, Extremes
<1> DEFINE l == Min(xs)
           r == Max(xs)
           t == Min(ys)
           b == Max(ys)
<1>5. /\ l \in Int /\ r \in Int /\ t \in Int /\ b \in Int
      /\ l <= px[1] /\ px[1] <= r /\ t <= px[2] /\ px[2] <= b
      /\ px[1] \in Int /\ px[2] \in Int
  BY <1>4, PixelIs
<1>6. ComputeDamage(previous, current) = [x |-> l, y |-> t, w |-> r - l + 1, h |-> b - t + 1]
  BY <1>3
<1> HIDE DEF l, r, t, b
<1> QED
  BY <1>5, <1>6 DEF Box, IsEmpty, In, HasPixel, Right, Bottom

\* Presenting the whole screen, or the damage on a framebuffer that holds the
\* previous picture, leaves the present picture in it (frame_buffer_fb0.cpp).
LEMMA PresentCompletes ==
  ASSUME NEW held \in Picture, NEW previous \in Picture, NEW current \in Picture,
         NEW region,
         \/ region = WholeScreen
         \/ /\ held = previous
            /\ region = ComputeDamage(previous, current) /\ ~IsEmpty(region)
  PROVE  PresentRegion(held, current, region) = current
<1>1. /\ current \in [Pixels -> Shades]
      /\ PresentRegion(held, current, region) =
           IF IsEmpty(region) THEN held
           ELSE [px \in Pixels |->
                   IF px \in In(PackedRegion(region)) THEN current[px] ELSE held[px]]
  BY DEF Picture, PresentRegion, PackRegion
<1>2. region \in Box /\ ~IsEmpty(region)
  <2>1. CASE region = WholeScreen
    BY <2>1, WholeScreenIs
  <2>2. CASE region = ComputeDamage(previous, current) /\ ~IsEmpty(region)
    <3>1. PICK px \in Pixels : previous[px] # current[px]
      BY <2>2 DEF ComputeDamage, EmptyBox, IsEmpty
    <3> QED
      BY <2>2, <3>1, DamageCovers
  <2> QED
    BY <2>1, <2>2
<1>3. In(region) \subseteq In(PackedRegion(region))
  BY <1>2, PackedCovers
<1>4. ASSUME NEW px \in Pixels, px \notin In(PackedRegion(region))
      PROVE  held[px] = current[px]
  <2>1. px \notin In(region)
    BY <1>3, <1>4
  <2>2. held = previous /\ region = ComputeDamage(previous, current)
    BY <2>1, WholeScreenIs
  <2> QED
    BY <2>1, <2>2, DamageCovers
<1>5. PresentRegion(held, current, region) = [px \in Pixels |-> current[px]]
  BY <1>1, <1>2, <1>4
<1> QED
  BY <1>1, <1>5

=============================================================================
