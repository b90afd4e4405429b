---------------------------- MODULE DirtyRegions ----------------------------
(***************************************************************************)
(* DirtyRegionTracker (src/graphics/dirty_region_tracker.cpp): damaged     *)
(* boxes with a margin against ghosting, merged where they overlap and     *)
(* when there is no room for another.  The main loop does not use it yet;  *)
(* any sequence of its public calls is a behavior.                         *)
(***************************************************************************)
EXTENDS Geometry, Sequences

CONSTANTS
  Boxes,      \* what may be reported as damaged
  MaxRegions, \* MAX_REGIONS
  Margin,     \* GHOSTING_MARGIN
  Canvas      \* the whole screen

ASSUME RegionsAssumption ==
  /\ Boxes \subseteq Box
  /\ MaxRegions \in Nat \ {0}
  /\ Margin \in Nat
  /\ Canvas \in Box /\ ~IsEmpty(Canvas)

VARIABLES
  regions, \* the first count_ of regions_
  damage   \* history: what the client has reported since the last clear

vars == <<regions, damage>>

Init == regions = <<>> /\ damage = {}

\* Mutant: the last region is dropped instead of filling the hole.
WithoutLast(seq, j) == SubSeq(seq, 1, Len(seq) - 1)

\* The last region takes the place of the one at j.
WithoutRegion(seq, j) ==
  SubSeq([seq EXCEPT ![j] = seq[Len(seq)]], 1, Len(seq) - 1)

OverlappingPairs(seq) ==
  {p \in (1 .. Len(seq)) \X (1 .. Len(seq)) :
     p[1] < p[2] /\ Intersects(seq[p[1]], seq[p[2]])}

\* The pair the two loops come to first.
FirstPair(pairs) ==
  CHOOSE p \in pairs : \A q \in pairs : p[1] < q[1] \/ (p[1] = q[1] /\ p[2] <= q[2])

\* merge_overlapping returns after the first pair it has merged.
Merged(seq) ==
  LET pairs == OverlappingPairs(seq)
  IN  IF pairs = {} THEN seq
      ELSE LET p == FirstPair(pairs)
           IN  WithoutRegion([seq EXCEPT ![p[1]] = MergedWith(@, seq[p[2]])], p[2])

\* Mutant: the capacity is not looked at.
AddedAnyway(seq, box) == Merged(Append(seq, box))

\* A further box, or at capacity a wider first one.
Added(seq, box) ==
  IF Len(seq) >= MaxRegions THEN [seq EXCEPT ![1] = MergedWith(@, box)]
  ELSE Merged(Append(seq, box))

AddRegion(box) ==
  IF IsEmpty(box) THEN UNCHANGED vars
  ELSE /\ regions' = Added(regions, Expanded(box, Margin))
       /\ damage' = damage \union {Expanded(box, Margin)}

\* Clears, and what was damaged beyond the screen is forgotten.
AddFullScreen == regions' = <<Canvas>> /\ damage' = {Canvas}

Clear == regions' = <<>> /\ damage' = {}

MergeOverlapping == regions' = Merged(regions) /\ UNCHANGED damage

Next ==
  \/ \E box \in Boxes : AddRegion(box)
  \/ AddFullScreen
  \/ Clear
  \/ MergeOverlapping

Spec == Init /\ [][Next]_vars

-----------------------------------------------------------------------------

TypeOK ==
  /\ regions \in Seq({b \in Box : ~IsEmpty(b)})
  /\ Len(regions) <= MaxRegions
  /\ damage \subseteq Box

Encloses(outer, inner) ==
  /\ outer.x <= inner.x /\ Right(inner) <= Right(outer)
  /\ outer.y <= inner.y /\ Bottom(inner) <= Bottom(outer)

\* No damage is lost: every box that was reported, with its margin, lies
\* inside one of the regions, through any merges, swaps and a full array.
DamageIsCovered ==
  \A b \in damage : \E i \in DOMAIN regions : Encloses(regions[i], b)

\* No more is refreshed than the merges call for: each side of a region is
\* the side of a box that was reported and lies inside it.
RegionsAreTight ==
  \A i \in DOMAIN regions :
    LET inside == {b \in damage : Encloses(regions[i], b)}
    IN  /\ \E b \in inside : b.x = regions[i].x
        /\ \E b \in inside : b.y = regions[i].y
        /\ \E b \in inside : Right(b) = Right(regions[i])
        /\ \E b \in inside : Bottom(b) = Bottom(regions[i])

=============================================================================
