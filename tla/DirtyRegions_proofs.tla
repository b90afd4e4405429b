-------------------------- MODULE DirtyRegions_proofs --------------------------
(***************************************************************************)
(* Proofs about DirtyRegions: through any calls, merges and a full array   *)
(* the regions cover the damage and nothing wider than its merges, for any *)
(* boxes, margin and capacity.  MCDirtyRegions has seven boxes and room    *)
(* for four regions.                                                       *)
(***************************************************************************)
EXTENDS DirtyRegions, SequenceTheorems, WellFoundedInduction, TLAPS

Solid == {b \in Box : ~IsEmpty(b)}

-----------------------------------------------------------------------------
\* Boxes.

LEMMA BoxIs ==
  ASSUME NEW b \in Solid
  PROVE  /\ b \in Box /\ b = [x |-> b.x, y |-> b.y, w |-> b.w, h |-> b.h]
         /\ b.x \in Int /\ b.y \in Int /\ b.w \in Int /\ b.h \in Int
         /\ b.w > 0 /\ b.h > 0
         /\ Right(b) \in Int /\ Bottom(b) \in Int
         /\ b.x < Right(b) /\ b.y < Bottom(b)
BY DEF Solid, Box, IsEmpty, Right, Bottom

\* A margin makes a box no smaller (geometry.cpp, expanded).
LEMMA ExpandedSolid ==
  ASSUME NEW b \in Box, ~IsEmpty(b) PROVE Expanded(b, Margin) \in Solid
<1>1. /\ b.x - Margin \in Int /\ b.y - Margin \in Int
      /\ b.w + 2 * Margin \in Int /\ b.h + 2 * Margin \in Int
      /\ b.w + 2 * Margin > 0 /\ b.h + 2 * Margin > 0
  BY RegionsAssumption DEF Box, IsEmpty
<1> QED
  BY <1>1 DEF Expanded, Solid, Box, IsEmpty

\* The merge of two boxes holds both, and each of its sides is a side of one
\* of them (geometry.cpp, merged_with).
LEMMA MergedIs ==
  ASSUME NEW a \in Solid, NEW b \in Solid
  PROVE  LET m == MergedWith(a, b)
         IN  /\ m \in Solid /\ Encloses(m, a) /\ Encloses(m, b)
             /\ m.x \in {a.x, b.x} /\ m.y \in {a.y, b.y}
             /\ Right(m) \in {Right(a), Right(b)} /\ Bottom(m) \in {Bottom(a), Bottom(b)}
<1> DEFINE l == Lesser(a.x, b.x)
           t == Lesser(a.y, b.y)
           r == Greater(Right(a), Right(b))
           u == Greater(Bottom(a), Bottom(b))
           m == MergedWith(a, b)
<1>1. m = [x |-> l, y |-> t, w |-> r - l, h |-> u - t]
  BY DEF MergedWith, Span, Solid
<1>2. /\ l \in {a.x, b.x} /\ l <= a.x /\ l <= b.x
      /\ t \in {a.y, b.y} /\ t <= a.y /\ t <= b.y
      /\ r \in {Right(a), Right(b)} /\ Right(a) <= r /\ Right(b) <= r
      /\ u \in {Bottom(a), Bottom(b)} /\ Bottom(a) <= u /\ Bottom(b) <= u
  BY BoxIs DEF Lesser, Greater
<1>3. l \in Int /\ t \in Int /\ r \in Int /\ u \in Int
  BY <1>2, BoxIs
<1> HIDE DEF l, t, r, u
<1>4. /\ m \in Box /\ m.x = l /\ m.y = t /\ Right(m) = r /\ Bottom(m) = u
      /\ m.w = r - l /\ m.h = u - t
  BY <1>1, <1>3 DEF Box, Right, Bottom
<1>5. r - l > 0 /\ u - t > 0
  BY <1>2, <1>3, BoxIs
<1>6. m \in Solid
  BY <1>3, <1>4, <1>5 DEF Solid, IsEmpty
<1> HIDE DEF m
<1>7. Encloses(m, a) /\ Encloses(m, b)
  BY <1>2, <1>4 DEF Encloses
<1>8. /\ m.x \in {a.x, b.x} /\ m.y \in {a.y, b.y}
      /\ Right(m) \in {Right(a), Right(b)} /\ Bottom(m) \in {Bottom(a), Bottom(b)}
  BY <1>2, <1>4
<1> QED
  BY <1>6, <1>7, <1>8 DEF m

LEMMA EnclosesIsOrder ==
  ASSUME NEW a \in Solid, NEW b \in Solid, NEW c \in Solid
  PROVE  /\ Encloses(a, a)
         /\ Encloses(a, b) /\ Encloses(b, c) => Encloses(a, c)
BY BoxIs DEF Encloses

-----------------------------------------------------------------------------
\* Regions against damage.

Covers(seq, boxes) == \A b \in boxes : \E i \in DOMAIN seq : Encloses(seq[i], b)

\* Each side of the region is the side of a damaged box inside it.
Tight(region, boxes) ==
  LET inside == {b \in boxes : Encloses(region, b)}
  IN  /\ \E b \in inside : b.x = region.x
      /\ \E b \in inside : b.y = region.y
      /\ \E b \in inside : Right(b) = Right(region)
      /\ \E b \in inside : Bottom(b) = Bottom(region)

\* A sequence of regions that is right for the damage.
Fits(seq, boxes) ==
  /\ seq \in Seq(Solid)
  /\ Covers(seq, boxes)
  /\ \A i \in DOMAIN seq : Tight(seq[i], boxes)

LEMMA TightMore ==
  ASSUME NEW region, NEW boxes, NEW more, boxes \subseteq more, Tight(region, boxes)
  PROVE  Tight(region, more)
BY DEF Tight

LEMMA TightItself ==
  ASSUME NEW b \in Solid, NEW boxes, b \in boxes PROVE Tight(b, boxes)
BY EnclosesIsOrder DEF Tight

LEMMA TightMerged ==
  ASSUME NEW boxes \in SUBSET Solid, NEW a \in Solid, NEW b \in Solid,
         Tight(a, boxes), Tight(b, boxes)
  PROVE  Tight(MergedWith(a, b), boxes)
<1> DEFINE m == MergedWith(a, b)
<1>1. /\ m \in Solid /\ Encloses(m, a) /\ Encloses(m, b)
      /\ m.x \in {a.x, b.x} /\ m.y \in {a.y, b.y}
      /\ Right(m) \in {Right(a), Right(b)} /\ Bottom(m) \in {Bottom(a), Bottom(b)}
  BY MergedIs
<1> HIDE DEF m
<1>2. \A c \in boxes : Encloses(a, c) \/ Encloses(b, c) => Encloses(m, c)
  BY <1>1, EnclosesIsOrder
<1>3. Tight(m, boxes)
  BY <1>1, <1>2 DEF Tight
<1> QED
  BY <1>3 DEF m

-----------------------------------------------------------------------------
\* The pair that is merged.

LEMMA LeastNumber ==
  ASSUME NEW T \in SUBSET Nat, T # {}
  PROVE  \E m \in T : \A k \in T : m <= k
<1> DEFINE R == OpToRel(<, Nat)
<1>1. PICK m \in T : \A k \in T : ~(<<k, m>> \in R)
  <2>1. IsWellFoundedOn(R, Nat)
    BY NatLessThanWellFounded
  <2> HIDE DEF R
  <2> QED
    BY <2>1, WFMin
<1>2. \A k \in T : ~(k < m)
  BY <1>1 DEF OpToRel
<1> QED
  BY <1>2

\* The two loops come to one of the overlapping pairs before the others.
LEMMA FirstPairIs ==
  ASSUME NEW n \in Nat, NEW pairs \in SUBSET ((1..n) \X (1..n)), pairs # {}
  PROVE  FirstPair(pairs) \in pairs
<1> DEFINE firsts == {p[1] : p \in pairs}
<1>1. firsts \in SUBSET Nat /\ firsts # {}
  OBVIOUS
<1>2. PICK i \in firsts : \A k \in firsts : i <= k
  <2> HIDE DEF firsts
  <2> QED
    BY <1>1, LeastNumber
<1> DEFINE seconds == {p[2] : p \in {q \in pairs : q[1] = i}}
<1>3. seconds \in SUBSET Nat /\ seconds # {}
  BY <1>2
<1>4. PICK j \in seconds : \A k \in seconds : j <= k
  <2> HIDE DEF seconds
  <2> QED
    BY <1>3, LeastNumber
<1>5. PICK p \in pairs : p[1] = i /\ p[2] = j
  BY <1>4
<1>6. ASSUME NEW q \in pairs PROVE p[1] < q[1] \/ (p[1] = q[1] /\ p[2] <= q[2])
  <2>1. q[1] \in firsts /\ (q[1] = i => q[2] \in seconds)
    OBVIOUS
  <2>2. i <= q[1] /\ (q[1] = i => j <= q[2])
    BY <1>2, <1>4, <2>1
  <2>3. i \in Int /\ q[1] \in Int
    BY <1>1, <1>2
  <2> QED
    BY <1>5, <2>2, <2>3
<1> QED
  BY <1>5, <1>6 DEF FirstPair

-----------------------------------------------------------------------------
\* The operations on the array.

\* The last element fills the hole.
LEMMA WithoutIs ==
  ASSUME NEW S, NEW seq \in Seq(S), NEW j \in 1..Len(seq)
  PROVE  /\ WithoutRegion(seq, j) \in Seq(S)
         /\ Len(WithoutRegion(seq, j)) = Len(seq) - 1
         /\ \A k \in 1..(Len(seq) - 1) :
              WithoutRegion(seq, j)[k] = IF k = j THEN seq[Len(seq)] ELSE seq[k]
<1> DEFINE n == Len(seq)
           moved == [seq EXCEPT ![j] = seq[n]]
<1>1. n \in Nat /\ n >= 1 /\ n \in 1..n /\ n - 1 \in 0..n
  BY LenProperties
<1>2. moved \in Seq(S) /\ Len(moved) = n
  BY <1>1, ExceptSeq, ElementOfSeq
<1>3. \A k \in 1..n : moved[k] = IF k = j THEN seq[n] ELSE seq[k]
  BY LenProperties
<1>4. WithoutRegion(seq, j) = SubSeq(moved, 1, n - 1)
  BY DEF WithoutRegion
<1> HIDE DEF n, moved
<1>5. /\ SubSeq(moved, 1, n - 1) \in Seq(S)
      /\ Len(SubSeq(moved, 1, n - 1)) = n - 1
      /\ \A k \in 1..(n - 1) : SubSeq(moved, 1, n - 1)[k] = moved[k]
  BY <1>1, <1>2, SubSeqProperties
<1>6. \A k \in 1..(n - 1) : k \in 1..n
  BY <1>1
<1>7. \A k \in 1..(n - 1) : WithoutRegion(seq, j)[k] = IF k = j THEN seq[n] ELSE seq[k]
  BY <1>3, <1>4, <1>5, <1>6
<1> QED
  BY <1>4, <1>5, <1>7 DEF n

\* A pair is merged into the place of its first.
LEMMA PairMerged ==
  ASSUME NEW boxes \in SUBSET Solid, NEW seq, Fits(seq, boxes),
         NEW i \in 1..Len(seq), NEW j \in 1..Len(seq), i < j
  PROVE  LET new == WithoutRegion([seq EXCEPT ![i] = MergedWith(@, seq[j])], j)
         IN  Fits(new, boxes) /\ Len(new) = Len(seq) - 1
<1> DEFINE n == Len(seq)
           m == MergedWith(seq[i], seq[j])
           merged == [seq EXCEPT ![i] = m]
           new == WithoutRegion(merged, j)
<1>0. n \in Nat /\ i \in Nat /\ j \in Nat /\ i < j /\ j <= n /\ 1 <= i /\ DOMAIN seq = 1..n
      /\ seq \in Seq(Solid)
  BY LenProperties DEF Fits
<1>1. \A k \in 1..n : seq[k] \in Solid
  BY <1>0, ElementOfSeq
<1>2. m \in Solid /\ Encloses(m, seq[i]) /\ Encloses(m, seq[j])
  BY <1>1, MergedIs
<1>3. Tight(m, boxes)
  BY <1>0, <1>1, TightMerged DEF Fits
<1> HIDE DEF m
<1>4. merged \in Seq(Solid) /\ Len(merged) = n
  BY <1>0, <1>2, ExceptSeq
<1>5. \A k \in 1..n : merged[k] = IF k = i THEN m ELSE seq[k]
  BY <1>0
<1> HIDE DEF merged
<1>6. /\ new \in Seq(Solid) /\ Len(new) = n - 1
      /\ \A k \in 1..(n - 1) : new[k] = IF k = j THEN merged[n] ELSE merged[k]
  <2>1. j \in 1..Len(merged)
    BY <1>4
  <2>2. /\ new \in Seq(Solid) /\ Len(new) = Len(merged) - 1
        /\ \A k \in 1..(Len(merged) - 1) :
             new[k] = IF k = j THEN merged[Len(merged)] ELSE merged[k]
    BY <1>4, <2>1, WithoutIs
  <2> HIDE DEF n
  <2> QED
    BY <1>4, <2>2
<1> HIDE DEF new, n
<1>7. /\ DOMAIN new = 1..(n - 1)
      /\ \A k \in 1..(n - 1) : new[k] = IF k = i THEN m ELSE IF k = j THEN seq[n] ELSE seq[k]
  <2>1. DOMAIN new = 1..(n - 1)
    BY <1>6, LenProperties
  <2>2. n \in 1..n /\ n # i /\ \A k \in 1..(n - 1) : k \in 1..n
    BY <1>0
  <2>3. i # j
    BY <1>0
  <2> QED
    BY <1>5, <1>6, <2>1, <2>2, <2>3
<1>8. Covers(new, boxes)
  <2> SUFFICES ASSUME NEW b \in boxes PROVE \E k \in DOMAIN new : Encloses(new[k], b)
    BY DEF Covers
  <2>1. PICK k \in 1..n : Encloses(seq[k], b)
    BY <1>0 DEF Fits, Covers
  <2>2. CASE k \in {i, j}
    <3>1. Encloses(m, b)
      BY <1>1, <1>2, <2>1, <2>2, EnclosesIsOrder
    <3>2. i \in 1..(n - 1)
      BY <1>0
    <3> QED
      BY <1>7, <3>1, <3>2
  <2>3. CASE k \notin {i, j} /\ k = n
    <3>1. j \in 1..(n - 1) /\ j # i
      BY <1>0, <2>3
    <3> QED
      BY <1>7, <2>1, <2>3, <3>1
  <2>4. CASE k \notin {i, j} /\ k # n
    <3>1. k \in 1..(n - 1)
      BY <1>0, <2>4
    <3> QED
      BY <1>7, <2>1, <2>4, <3>1
  <2> QED
    BY <2>2, <2>3, <2>4
<1>9. ASSUME NEW k \in DOMAIN new PROVE Tight(new[k], boxes)
  <2>1. n \in DOMAIN seq /\ k \in DOMAIN seq /\ k \in 1..(n - 1)
    BY <1>0, <1>7
  <2> QED
    BY <1>3, <1>7, <2>1 DEF Fits
<1>10. Fits(new, boxes) /\ Len(new) = n - 1
  BY <1>6, <1>8, <1>9 DEF Fits
<1> QED
  BY <1>10 DEF new, merged, m, n

\* merge_overlapping loses no damage and widens nothing needlessly.
LEMMA MergeFits ==
  ASSUME NEW boxes \in SUBSET Solid, NEW seq, Fits(seq, boxes)
  PROVE  Fits(Merged(seq), boxes) /\ Len(Merged(seq)) <= Len(seq)
<1> DEFINE pairs == OverlappingPairs(seq)
           p == FirstPair(pairs)
<1>0. Len(seq) \in Nat
  BY LenProperties DEF Fits
<1>1. CASE pairs = {}
  BY <1>0, <1>1 DEF Merged
<1>2. CASE pairs # {}
  <2>1. pairs \in SUBSET ((1..Len(seq)) \X (1..Len(seq)))
    BY DEF OverlappingPairs
  <2>2. p \in pairs
    <3> HIDE DEF pairs
    <3> QED
      BY <1>0, <1>2, <2>1, FirstPairIs
  <2>3. p[1] \in 1..Len(seq) /\ p[2] \in 1..Len(seq) /\ p[1] < p[2]
    BY <2>2 DEF OverlappingPairs
  <2>4. Merged(seq) = WithoutRegion([seq EXCEPT ![p[1]] = MergedWith(@, seq[p[2]])], p[2])
    BY <1>2 DEF Merged
  <2> HIDE DEF p
  <2>5. Fits(Merged(seq), boxes) /\ Len(Merged(seq)) = Len(seq) - 1
    BY <2>3, <2>4, PairMerged
  <2> QED
    BY <1>0, <2>5
<1> QED
  BY <1>1, <1>2

\* add_region, at capacity or below it.
LEMMA AddFits ==
  ASSUME NEW boxes \in SUBSET Solid, NEW seq, Fits(seq, boxes), Len(seq) <= MaxRegions,
         NEW box \in Solid
  PROVE  Fits(Added(seq, box), boxes \union {box}) /\ Len(Added(seq, box)) <= MaxRegions
<1> DEFINE more == boxes \union {box}
           n == Len(seq)
<1>0. /\ n \in Nat /\ DOMAIN seq = 1..n /\ seq \in Seq(Solid) /\ more \in SUBSET Solid
      /\ MaxRegions \in Nat /\ MaxRegions >= 1
  BY LenProperties, RegionsAssumption DEF Fits
<1>1. \A k \in 1..n : seq[k] \in Solid /\ Tight(seq[k], more)
  BY <1>0, ElementOfSeq, TightMore DEF Fits
<1>2. Tight(box, more)
  BY TightItself
<1>3. CASE n >= MaxRegions
  <2> DEFINE m == MergedWith(seq[1], box)
             new == [seq EXCEPT ![1] = m]
  <2>1. 1 \in 1..n
    BY <1>0, <1>3
  <2>2. m \in Solid /\ Encloses(m, seq[1]) /\ Encloses(m, box)
    BY <1>1, <2>1, MergedIs
  <2>3. Tight(m, more)
    <3> HIDE DEF more
    <3> QED
      BY <1>0, <1>1, <1>2, <2>1, TightMerged
  <2> HIDE DEF m
  <2>4. /\ new \in Seq(Solid) /\ Len(new) = n /\ DOMAIN new = 1..n
        /\ \A k \in 1..n : new[k] = IF k = 1 THEN m ELSE seq[k]
    <3>1. new \in Seq(Solid) /\ Len(new) = n
      BY <1>0, <2>1, <2>2, ExceptSeq
    <3>2. DOMAIN new = 1..n
      BY <1>0
    <3>3. \A k \in 1..n : new[k] = IF k = 1 THEN m ELSE seq[k]
      BY <1>0
    <3> QED
      BY <3>1, <3>2, <3>3
  <2> HIDE DEF new
  <2>5. ASSUME NEW b \in more PROVE \E k \in DOMAIN new : Encloses(new[k], b)
    <3>1. CASE b = box
      BY <2>1, <2>2, <2>4, <3>1
    <3>2. CASE b \in boxes
      <4>1. PICK k \in 1..n : Encloses(seq[k], b)
        BY <1>0, <3>2 DEF Fits, Covers
      <4>2. k = 1 => Encloses(m, b)
        BY <1>1, <2>2, <3>2, <4>1, EnclosesIsOrder
      <4> QED
        BY <2>4, <4>1, <4>2
    <3> QED
      BY <3>1, <3>2
  <2>6. \A k \in DOMAIN new : Tight(new[k], more)
    BY <1>1, <2>3, <2>4
  <2>7. Fits(new, more)
    BY <2>4, <2>5, <2>6 DEF Fits, Covers
  <2>8. Added(seq, box) = new
    BY <1>3 DEF Added, new, m
  <2> QED
    BY <2>4, <2>7, <2>8
<1>4. CASE ~(n >= MaxRegions)
  <2> DEFINE new == Append(seq, box)
  <2>1. /\ new \in Seq(Solid) /\ Len(new) = n + 1
        /\ \A k \in 1..n : new[k] = seq[k]
        /\ new[n + 1] = box
    BY <1>0, AppendProperties
  <2> HIDE DEF new
  <2>2. DOMAIN new = 1..(n + 1)
    BY <2>1, LenProperties
  <2>3. n + 1 \in 1..(n + 1) /\ \A k \in 1..n : k \in 1..(n + 1)
    BY <1>0
  <2>4. ASSUME NEW b \in more PROVE \E k \in DOMAIN new : Encloses(new[k], b)
    <3>1. CASE b = box
      BY <2>1, <2>2, <2>3, <3>1, EnclosesIsOrder
    <3>2. CASE b \in boxes
      BY <1>0, <2>1, <2>2, <2>3, <3>2 DEF Fits, Covers
    <3> QED
      BY <3>1, <3>2
  <2>5. ASSUME NEW k \in DOMAIN new PROVE Tight(new[k], more)
    <3>1. k \in 1..n \/ k = n + 1
      BY <1>0, <2>2
    <3> QED
      BY <1>1, <1>2, <2>1, <3>1
  <2>6. Fits(new, more)
    BY <2>1, <2>4, <2>5 DEF Fits, Covers
  <2>7. Fits(Merged(new), more) /\ Len(Merged(new)) <= n + 1
    <3> HIDE DEF more
    <3> QED
      BY <1>0, <2>1, <2>6, MergeFits
  <2>8. Added(seq, box) = Merged(new)
    BY <1>4 DEF Added, new
  <2>9. Len(Merged(new)) \in Nat
    BY <2>7, LenProperties DEF Fits
  <2>10. n + 1 <= MaxRegions
    BY <1>0, <1>4
  <2>11. Len(Merged(new)) <= MaxRegions
    BY <1>0, <2>7, <2>9, <2>10
  <2> QED
    BY <2>7, <2>8, <2>11
<1> QED
  BY <1>3, <1>4

-----------------------------------------------------------------------------
\* The inductive invariant: what was reported are real boxes, and the array
\* fits them.
IInv ==
  /\ damage \subseteq Solid
  /\ Fits(regions, damage)
  /\ Len(regions) <= MaxRegions

LEMMA OneRegionFits == ASSUME NEW b \in Solid PROVE Fits(<<b>>, {b}) /\ Len(<<b>>) = 1
<1>1. <<b>> \in Seq(Solid) /\ Len(<<b>>) = 1 /\ DOMAIN <<b>> = {1} /\ <<b>>[1] = b
  OBVIOUS
<1>2. Tight(b, {b}) /\ Encloses(b, b)
  BY TightItself, EnclosesIsOrder
<1> QED
  BY <1>1, <1>2 DEF Fits, Covers

LEMMA NoRegionFits == Fits(<<>>, {}) /\ Len(<<>>) = 0
BY DEF Fits, Covers

LEMMA Invariance == Spec => []IInv
<1> USE RegionsAssumption
<1>1. Init => IInv
  BY NoRegionFits DEF Init, IInv
<1>2. IInv /\ [Next]_vars => IInv'
  <2> SUFFICES ASSUME IInv, [Next]_vars PROVE IInv'
    OBVIOUS
  <2>0. /\ damage \in SUBSET Solid /\ Fits(regions, damage)
        /\ Len(regions) <= MaxRegions /\ Len(regions) \in Nat
        /\ MaxRegions \in Nat /\ MaxRegions >= 1
    BY LenProperties DEF IInv, Fits
  <2>1. ASSUME NEW box \in Boxes, AddRegion(box) PROVE IInv'
    <3>1. CASE IsEmpty(box)
      BY <2>0, <2>1, <3>1 DEF AddRegion, vars, IInv
    <3>2. CASE ~IsEmpty(box)
      <4>1. Expanded(box, Margin) \in Solid
        BY <3>2, ExpandedSolid
      <4>2. /\ regions' = Added(regions, Expanded(box, Margin))
            /\ damage' = damage \union {Expanded(box, Margin)}
        BY <2>1, <3>2 DEF AddRegion
      <4>3. Fits(regions', damage') /\ Len(regions') <= MaxRegions
        BY <2>0, <4>1, <4>2, AddFits
      <4> QED
        BY <2>0, <4>1, <4>2, <4>3 DEF IInv
    <3> QED
      BY <3>1, <3>2
  <2>2. CASE AddFullScreen
    <3>1. Canvas \in Solid
      BY DEF Solid
    <3>2. Fits(regions', damage') /\ Len(regions') = 1 /\ damage' = {Canvas}
      BY <2>2, <3>1, OneRegionFits DEF AddFullScreen
    <3> QED
      BY <2>0, <3>1, <3>2 DEF IInv
  <2>3. CASE Clear
    BY <2>0, <2>3, NoRegionFits DEF Clear, IInv
  <2>4. CASE MergeOverlapping
    <3>1. regions' = Merged(regions) /\ damage' = damage
      BY <2>4 DEF MergeOverlapping
    <3>2. Fits(regions', damage') /\ Len(regions') <= Len(regions)
      BY <2>0, <3>1, MergeFits
    <3>3. Len(regions') \in Nat
      BY <3>2, LenProperties DEF Fits
    <3>4. Len(regions') <= MaxRegions
      BY <2>0, <3>2, <3>3
    <3> QED
      BY <2>0, <3>1, <3>2, <3>4 DEF IInv
  <2>5. CASE UNCHANGED vars
    BY <2>0, <2>5 DEF vars, IInv
  <2> QED
    BY <2>1, <2>2, <2>3, <2>4, <2>5 DEF Next
<1> QED
  BY <1>1, <1>2, PTL DEF Spec

-----------------------------------------------------------------------------

\* The array holds real boxes and never more than it has room for
\* (dirty_region_tracker.cpp).
THEOREM TypeCorrect == Spec => []TypeOK
<1>1. IInv => TypeOK
  BY DEF IInv, TypeOK, Fits, Solid
<1> QED
  BY <1>1, Invariance, PTL

\* No damage is lost through merges, swaps and a full array.
THEOREM DamageCovered == Spec => []DamageIsCovered
<1>1. IInv => DamageIsCovered
  BY DEF IInv, DamageIsCovered, Fits, Covers
<1> QED
  BY <1>1, Invariance, PTL

\* Nothing is refreshed that the merges do not call for.
THEOREM RegionsTight == Spec => []RegionsAreTight
<1>1. IInv => RegionsAreTight
  BY DEF IInv, RegionsAreTight, Fits, Tight
<1> QED
  BY <1>1, Invariance, PTL

=============================================================================
