---------------------------- MODULE Collections ----------------------------
(***************************************************************************)
(* What scrolls across the screen: obstacles and clouds, and the two       *)
(* fixed-capacity collections that hold them.  ObstacleCollection and      *)
(* CloudCollection have the same operations line for line, so one set of   *)
(* operators models both; the capacity is a parameter.  A collection is    *)
(* the sequence of its items in index order.                               *)
(*                                                                         *)
(* The height at which a cloud is drawn is left out: it is drawn at random *)
(* and nothing but the painting of the cloud depends on it.                *)
(***************************************************************************)
EXTENDS Geometry, Sequences

CONSTANTS
  Sprite,           \* kind -> [w, h, y]: its size and the y of its top edge
  ObstacleCapacity, \* ObstacleCollection::MAX_CAPACITY (16)
  CloudCapacity     \* CloudCollection::MAX_CAPACITY (6)

GroundKinds   == {"SmallCactus", "LargeCactus"}
FlyingKinds   == {"PterodactylLow", "PterodactylHigh"}
ObstacleKinds == GroundKinds \union FlyingKinds
Kinds         == ObstacleKinds \union {"Cloud"}

ASSUME CollectionsAssumption ==
  /\ Sprite \in [Kinds -> [w : Nat, h : Nat, y : Int]]
  /\ ObstacleCapacity \in Nat /\ CloudCapacity \in Nat

Obstacle == [kind : ObstacleKinds, x : Int]
Cloud    == [kind : {"Cloud"}, x : Int]

RightEdge(item) == item.x + Sprite[item.kind].w

IsOffScreen(item) == RightEdge(item) < 0

\* The collision box of an obstacle: its sprite, inset by the same margin
\* as the player's.
ObstacleHitbox(o, margin) ==
  Inset([x |-> o.x, y |-> Sprite[o.kind].y,
         w |-> Sprite[o.kind].w, h |-> Sprite[o.kind].h], margin)

-----------------------------------------------------------------------------
\* The operations of a collection.

IsFull(items, capacity) == Len(items) >= capacity

Add(items, item, capacity) ==
  IF IsFull(items, capacity) THEN items ELSE Append(items, item)

\* Mutant: the items move once by themselves and once with the collection.
UpdateAllTwice(items, speed) ==
  [i \in DOMAIN items |-> [items[i] EXCEPT !.x = @ - 2 * speed]]

UpdateAll(items, speed) ==
  [i \in DOMAIN items |-> [items[i] EXCEPT !.x = @ - speed]]

\* Mutant: nothing ever leaves.
PruneNothing(items) == items

\* The while loop with remove_at: the items still on screen, in order.
PruneOffScreen(items) ==
  LET kept[i \in 0..Len(items)] ==
        IF i = 0 THEN << >>
        ELSE IF IsOffScreen(items[i]) THEN kept[i - 1]
        ELSE Append(kept[i - 1], items[i])
  IN  kept[Len(items)]

=============================================================================
