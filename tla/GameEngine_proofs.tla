-------------------------- MODULE GameEngine_proofs --------------------------
(***************************************************************************)
(* Proofs about GameEngine for all values of its constants: the type       *)
(* invariant, what the pose tells about the motion, the parabola of every  *)
(* jump, the distance between obstacles, the history of the high score;    *)
(* then, from the same invariant, what the engine promises to the          *)
(* application and to the player: it implements the abstract session,      *)
(* points, ground and palette keep in step, the obstacle collection never  *)
(* fills, no obstacle passes through the player, and a frame that is       *)
(* survived ends clear of every obstacle; last, that every run is a course *)
(* of module Course and its player one of the course's survivors, and that *)
(* courses whose gaps meet the criterion of FairGaps can be survived.      *)
(***************************************************************************)
EXTENDS Survival, FairGaps, SequenceTheorems, WellFoundedInduction, TLAPS

-----------------------------------------------------------------------------
\* The collections.  PruneOffScreen is a recursive function over the
\* indices, so what it returns is shown by looking at the least index that
\* would refute the claim.

\* A set of numbers that is not empty has a least member.
LEMMA LeastNumber ==
  ASSUME NEW T \in SUBSET Nat, T # {}
  PROVE  \E m \in T : \A k \in T : m <= k
<1> DEFINE R == OpToRel(<, Nat)
<1>1. IsWellFoundedOn(R, Nat)
  BY NatLessThanWellFounded
<1>2. PICK m \in T : \A k \in T : ~(<<k, m>> \in R)
  <2> HIDE DEF R
  <2> QED
    BY <1>1, WFMin
<1>3. \A k \in T : ~(k < m)
  BY <1>2 DEF OpToRel
<1> QED
  BY <1>3

\* Of any two items the earlier one is at least gap ahead.
Spaced(items, gap) ==
  \A i, j \in DOMAIN items : i < j => items[j].x - items[i].x >= gap

\* f holds what PruneOffScreen keeps of each of the first n items.
Keeps(f, items, n) ==
  f = [i \in 0..n |->
         IF i = 0 THEN << >>
         ELSE IF IsOffScreen(items[i]) THEN f[i - 1]
         ELSE Append(f[i - 1], items[i])]

\* The recursive function of PruneOffScreen exists and obeys its equation.
LEMMA KeepsExists ==
  ASSUME NEW items, NEW n \in Nat
  PROVE  \E f : Keeps(f, items, n)
<1> DEFINE Good(m) == \E f : Keeps(f, items, m)
           Bad     == {m \in Nat : ~Good(m)}
<1> SUFFICES Bad = {}
  OBVIOUS
<1> SUFFICES ASSUME Bad # {} PROVE FALSE
  OBVIOUS
<1>1. PICK m \in Bad : \A k \in Bad : m <= k
  <2> HIDE DEF Bad
  <2>1. Bad \in SUBSET Nat
    BY DEF Bad
  <2> QED
    BY <2>1, LeastNumber
<1>2. m # 0
  <2>1. Keeps([i \in 0..0 |-> << >>], items, 0)
    BY DEF Keeps
  <2> QED
    BY <1>1, <2>1
<1>3. PICK f : Keeps(f, items, m - 1)
  BY <1>1, <1>2
<1> DEFINE g == [i \in 0..m |->
                   IF i < m THEN f[i]
                   ELSE IF IsOffScreen(items[m]) THEN f[m - 1]
                   ELSE Append(f[m - 1], items[m])]
<1>4. Keeps(g, items, m)
  <2>1. m \in Nat /\ m - 1 \in Nat
    BY <1>1, <1>2
  <2> DEFINE h == [i \in 0..m |->
                     IF i = 0 THEN << >>
                     ELSE IF IsOffScreen(items[i]) THEN g[i - 1]
                     ELSE Append(g[i - 1], items[i])]
  <2>2. ASSUME NEW i \in 0..m PROVE g[i] = h[i]
    <3>1. CASE i = 0
      BY <1>2, <1>3, <2>1, <3>1 DEF Keeps
    <3>2. CASE i # 0 /\ i < m
      <4>1. f[i] = IF IsOffScreen(items[i]) THEN f[i - 1]
                   ELSE Append(f[i - 1], items[i])
        <5>1. i \in 0..(m - 1) /\ i # 0
          BY <2>1, <3>2
        <5> HIDE DEF g
        <5> QED
          BY <1>3, <5>1 DEF Keeps
      <4>2. g[i] = f[i] /\ g[i - 1] = f[i - 1]
        BY <2>1, <3>2
      <4> QED
        BY <4>1, <4>2, <3>2
    <3>3. CASE i = m
      BY <1>2, <2>1, <3>3
    <3> QED
      BY <2>1, <3>1, <3>2, <3>3
  <2>3. g = h
    BY <2>2
  <2> QED
    BY <2>3 DEF Keeps
<1> QED
  BY <1>1, <1>4

\* What pruning returns: items of the collection, in order, none of them
\* off the screen, and at least as far apart as they were
\* (obstacle_collection.cpp:22-47).
THEOREM PruneKeepsSpacing ==
  ASSUME NEW S, NEW items \in Seq(S), NEW gap \in Int,
         \A s \in S : s.x \in Int
  PROVE  /\ PruneOffScreen(items) \in Seq(S)
         /\ Len(PruneOffScreen(items)) <= Len(items)
         /\ Spaced(items, gap) => Spaced(PruneOffScreen(items), gap)
         /\ \A e \in DOMAIN PruneOffScreen(items) :
              ~IsOffScreen(PruneOffScreen(items)[e])
<1> DEFINE n == Len(items)
<1>1. n \in Nat /\ items \in [1..n -> S]
  BY LenProperties
<1>2. PICK f : Keeps(f, items, n) /\ PruneOffScreen(items) = f[n]
  <2> DEFINE kept == CHOOSE k : Keeps(k, items, n)
  <2>1. Keeps(kept, items, n)
    BY <1>1, KeepsExists
  <2>2. PruneOffScreen(items) = kept[n]
    BY DEF PruneOffScreen, Keeps
  <2> QED
    BY <2>1, <2>2
<1> DEFINE Good(i) ==
             /\ f[i] \in Seq(S)
             /\ Len(f[i]) <= i
             /\ Spaced(items, gap) => Spaced(f[i], gap)
             /\ \A e \in DOMAIN f[i] :
                  /\ ~IsOffScreen(f[i][e])
                  /\ Spaced(items, gap) =>
                       \A j \in (i + 1)..n : items[j].x - f[i][e].x >= gap
           Bad == {i \in 0..n : ~Good(i)}
<1> SUFFICES Bad = {}
  BY <1>1, <1>2
<1> SUFFICES ASSUME Bad # {} PROVE FALSE
  OBVIOUS
<1>3. PICK m \in Bad : \A k \in Bad : m <= k
  <2> HIDE DEF Bad
  <2>1. Bad \in SUBSET Nat
    BY <1>1 DEF Bad
  <2> QED
    BY <2>1, LeastNumber
<1>4. m # 0
  <2>1. f[0] = << >>
    <3> DEFINE h(i) == IF i = 0 THEN << >>
                       ELSE IF IsOffScreen(items[i]) THEN f[i - 1]
                       ELSE Append(f[i - 1], items[i])
    <3>1. f = [i \in 0..n |-> h(i)]
      BY <1>2 DEF Keeps
    <3>2. h(0) = << >> /\ 0 \in 0..n
      BY <1>1
    <3> HIDE DEF h, n
    <3> QED
      BY ONLY <3>1, <3>2
  <2>2. /\ f[0] \in Seq(S) /\ Len(f[0]) = 0 /\ DOMAIN f[0] = {}
    <3>1. /\ << >> \in Seq(S) /\ Len(<< >>) = 0
      BY ONLY EmptySeq
    <3>2. DOMAIN << >> = {}
      BY ONLY TRUE
    <3> QED
      BY ONLY <2>1, <3>1, <3>2
  <2>3. Spaced(f[0], gap)
    BY <2>2 DEF Spaced
  <2>4. Good(0)
    BY <2>2, <2>3
  <2> QED
    BY <1>3, <2>4
<1>5. Good(m - 1)
  BY <1>1, <1>3, <1>4
<1>6. f[m] = IF IsOffScreen(items[m]) THEN f[m - 1] ELSE Append(f[m - 1], items[m])
  BY <1>1, <1>2, <1>3, <1>4 DEF Keeps
<1>7. m \in 1..n /\ items[m] \in S /\ m - 1 \in Nat
  BY <1>1, <1>3, <1>4
<1>8. Good(m)
  <2>1. CASE IsOffScreen(items[m])
    BY <1>1, <1>5, <1>6, <1>7, <2>1
  <2>2. CASE ~IsOffScreen(items[m])
    <3> DEFINE old == f[m - 1]
    <3>1. f[m] = Append(old, items[m])
      BY <1>6, <2>2
    <3>2. /\ old \in Seq(S) /\ Len(old) <= m - 1
          /\ Spaced(items, gap) => Spaced(old, gap)
      BY <1>5
    <3>3. /\ f[m] \in Seq(S) /\ Len(f[m]) = Len(old) + 1
          /\ \A e \in 1..Len(old) : f[m][e] = old[e]
          /\ f[m][Len(old) + 1] = items[m]
      BY <3>1, <3>2, <1>7, AppendProperties
    <3>4. DOMAIN f[m] = 1..(Len(old) + 1) /\ DOMAIN old = 1..Len(old) /\ Len(old) \in Nat
      BY <3>2, <3>3, LenProperties
    <3>5. ASSUME NEW e \in 1..Len(old)
          PROVE  /\ ~IsOffScreen(old[e]) /\ old[e] \in S
                 /\ Spaced(items, gap) =>
                      /\ items[m].x - old[e].x >= gap
                      /\ \A j \in (m + 1)..n : items[j].x - old[e].x >= gap
      <4>1. Spaced(items, gap) =>
              \A j \in ((m - 1) + 1)..n : items[j].x - old[e].x >= gap
        BY <1>5, <3>4
      <4>2. Spaced(items, gap) => \A j \in m..n : items[j].x - old[e].x >= gap
        BY <4>1, <1>7
      <4>3. e \in DOMAIN old
        BY <3>4
      <4>4. ~IsOffScreen(old[e])
        BY <1>5, <4>3
      <4>5. old[e] \in S
        BY <3>2, <4>3, ElementOfSeq
      <4>6. m \in m..n /\ (m + 1)..n \subseteq m..n
        BY <1>1, <1>7
      <4> HIDE DEF old
      <4> QED
        BY <4>2, <4>4, <4>5, <4>6
    <3>6. ASSUME Spaced(items, gap), NEW j \in (m + 1)..n
          PROVE  items[j].x - items[m].x >= gap
      <4>1. m \in DOMAIN items /\ j \in DOMAIN items /\ m < j
        BY <1>1, <1>7
      <4> QED
        BY <3>6, <4>1 DEF Spaced
    <3>7. Spaced(items, gap) => Spaced(f[m], gap)
      <4> SUFFICES ASSUME Spaced(items, gap), NEW i \in DOMAIN f[m], NEW j \in DOMAIN f[m], i < j
                   PROVE  f[m][j].x - f[m][i].x >= gap
        BY DEF Spaced
      <4>1. i \in 1..Len(old)
        BY <3>4
      <4>2. CASE j \in 1..Len(old)
        BY <3>2, <3>3, <3>4, <4>1, <4>2 DEF Spaced
      <4>3. CASE j = Len(old) + 1
        <5>1. f[m][j] = items[m] /\ f[m][i] = old[i]
          BY <3>3, <4>1, <4>3
        <5>2. items[m].x - old[i].x >= gap
          BY <3>5, <4>1
        <5> QED
          BY <5>1, <5>2
      <4>4. j \in 1..Len(old) \/ j = Len(old) + 1
        <5>1. j \in 1..(Len(old) + 1)
          BY <3>4
        <5> HIDE DEF old
        <5> QED
          BY <3>4, <5>1
      <4> QED
        BY <4>2, <4>3, <4>4
    <3>8. \A e \in DOMAIN f[m] :
            /\ ~IsOffScreen(f[m][e])
            /\ Spaced(items, gap) =>
                 \A j \in (m + 1)..n : items[j].x - f[m][e].x >= gap
      <4> TAKE e \in DOMAIN f[m]
      <4>1. CASE e \in 1..Len(old)
        <5>1. f[m][e] = old[e]
          BY <3>3, <4>1
        <5> HIDE DEF old
        <5> QED
          BY <3>5, <4>1, <5>1
      <4>2. CASE e = Len(old) + 1
        <5>1. f[m][e] = items[m]
          BY <3>3, <4>2
        <5> QED
          BY <3>6, <2>2, <5>1
      <4> QED
        BY <3>4, <4>1, <4>2
    <3>9. Len(f[m]) <= m
      BY <1>7, <3>2, <3>3, <3>4
    <3> QED
      BY <3>3, <3>7, <3>8, <3>9
  <2> QED
    BY <2>1, <2>2
<1> QED
  BY <1>3, <1>8

\* Scrolling moves all items alike.
LEMMA UpdateKeepsSpacing ==
  ASSUME NEW Item \in {Obstacle, Cloud}, NEW items \in Seq(Item),
         NEW speed \in Int, NEW gap \in Int
  PROVE  /\ UpdateAll(items, speed) \in Seq(Item)
         /\ Len(UpdateAll(items, speed)) = Len(items)
         /\ Spaced(items, gap) => Spaced(UpdateAll(items, speed), gap)
<1>1. DOMAIN items = 1..Len(items) /\ Len(items) \in Nat
      /\ \A i \in 1..Len(items) : items[i] \in Item
  BY LenProperties, ElementOfSeq
<1>2. ASSUME NEW i \in 1..Len(items)
      PROVE  /\ UpdateAll(items, speed)[i] \in Item
             /\ UpdateAll(items, speed)[i].x = items[i].x - speed
             /\ items[i].x \in Int
  <2>1. UpdateAll(items, speed)[i] = [items[i] EXCEPT !.x = items[i].x - speed]
    BY <1>1 DEF UpdateAll
  <2>2. CASE Item = Obstacle
    <3>1. items[i] \in [kind : ObstacleKinds, x : Int]
      BY <1>1, <2>2 DEF Obstacle
    <3>2. items[i].x - speed \in Int
      BY <3>1
    <3>3. [items[i] EXCEPT !.x = items[i].x - speed] \in [kind : ObstacleKinds, x : Int]
      BY <3>1, <3>2
    <3> QED
      BY <2>1, <2>2, <3>1, <3>3 DEF Obstacle
  <2>3. CASE Item = Cloud
    <3>1. items[i] \in [kind : {"Cloud"}, x : Int]
      BY <1>1, <2>3 DEF Cloud
    <3>2. items[i].x - speed \in Int
      BY <3>1
    <3>3. [items[i] EXCEPT !.x = items[i].x - speed] \in [kind : {"Cloud"}, x : Int]
      BY <3>1, <3>2
    <3> QED
      BY <2>1, <2>3, <3>1, <3>3 DEF Cloud
  <2> QED
    BY <2>2, <2>3
<1>3. UpdateAll(items, speed) \in [1..Len(items) -> Item]
  BY <1>1, <1>2 DEF UpdateAll
<1>4. /\ UpdateAll(items, speed) \in Seq(Item)
      /\ Len(UpdateAll(items, speed)) = Len(items)
  BY <1>1, <1>3, IsASeq, LenProperties
<1>5. ASSUME Spaced(items, gap) PROVE Spaced(UpdateAll(items, speed), gap)
  <2> DEFINE new == UpdateAll(items, speed)
  <2>1. DOMAIN new = 1..Len(items)
    BY <1>3
  <2>2. ASSUME NEW i \in 1..Len(items), NEW j \in 1..Len(items), i < j
        PROVE  new[j].x - new[i].x >= gap
    <3>1. items[j].x - items[i].x >= gap
      BY <1>1, <1>5, <2>2 DEF Spaced
    <3>2. /\ new[j].x = items[j].x - speed /\ items[j].x \in Int
          /\ new[i].x = items[i].x - speed /\ items[i].x \in Int
      BY <1>2
    <3> HIDE DEF new
    <3> QED
      BY <3>1, <3>2
  <2> HIDE DEF new
  <2>3. Spaced(new, gap)
    BY <2>1, <2>2 DEF Spaced
  <2> QED
    BY <2>3 DEF new
<1> QED
  BY <1>4, <1>5

-----------------------------------------------------------------------------
\* The player.

\* Height and velocity lie on the parabola of a jump from the ground.
OnParabola(p) ==
  2 * Gravity * (GroundY - p.y) = (p.vy + JumpSpeed) * (JumpSpeed + Gravity - p.vy)

\* Between two frames the player rests on the ground or is in flight.
Resting(p) == p.y = GroundY /\ p.vy = 0
Flying(p)  == p.y < GroundY /\ OnParabola(p)

PlayerInv ==
  /\ player \in Players
  /\ \/ Resting(player) /\ player.pose \in {"Running", "Ducking", "Crashed"}
     \/ Flying(player) /\ player.pose \in {"Jumping", "Crashed"}
  /\ player.pose = "Crashed" <=> gameOver

\* Within a frame, after the commands: as between frames, or taking off.
Commanded(p) ==
  /\ p \in Players
  /\ \/ Resting(p) /\ p.pose \in {"Running", "Ducking"}
     \/ Flying(p) /\ p.pose = "Jumping"
     \/ p.y = GroundY /\ p.vy = -JumpSpeed /\ p.pose = "Jumping"

\* The commands of a frame start a jump or change the pose on the ground,
\* and leave a player in flight alone (player.cpp:47-76).
LEMMA ApplyInputCommands ==
  ASSUME NEW p \in Players, p.pose # "Crashed",
         \/ Resting(p) /\ p.pose \in {"Running", "Ducking"}
         \/ Flying(p) /\ p.pose = "Jumping",
         NEW input
  PROVE  Commanded(ApplyInput(p, input))
<1> USE PlayerAssumption DEF Players, Poses, Resting, Flying, IsOnGround, Obeys
<1> DEFINE jumped == IF input.jump THEN Jump(p) ELSE p
<1>1. /\ jumped \in Players
      /\ \/ Resting(jumped) /\ jumped.pose \in {"Running", "Ducking"}
         \/ Flying(jumped) /\ jumped.pose = "Jumping"
         \/ jumped.y = GroundY /\ jumped.vy = -JumpSpeed /\ jumped.pose = "Jumping"
  <2>1. CASE Obeys(p) /\ input.jump
    <3>1. jumped = [p EXCEPT !.vy = -JumpSpeed, !.pose = "Jumping"]
      BY <2>1 DEF Jump
    <3>2. p.y = GroundY
      BY <2>1
    <3>3. -JumpSpeed \in Int
      OBVIOUS
    <3>4. [p EXCEPT !.vy = -JumpSpeed, !.pose = "Jumping"] \in Players
      BY <3>3
    <3> HIDE DEF jumped
    <3> QED
      BY <3>1, <3>2, <3>4
  <2>2. CASE ~(Obeys(p) /\ input.jump)
    <3>1. jumped = p
      BY <2>2 DEF Jump
    <3> HIDE DEF jumped
    <3> QED
      BY <3>1 DEF OnParabola
  <2> QED
    BY <2>1, <2>2
<1> HIDE DEF jumped
<1>2. Commanded(Duck(jumped))
  BY <1>1 DEF Commanded, Duck, OnParabola
<1>3. Commanded(Stand(jumped))
  BY <1>1 DEF Commanded, Stand, OnParabola
<1> QED
  BY <1>2, <1>3 DEF ApplyInput, jumped

\* One frame of physics along the parabola.
LEMMA ParabolaStep ==
  ASSUME NEW y \in Int, NEW vy \in Int,
         2 * Gravity * (GroundY - y) = (vy + JumpSpeed) * (JumpSpeed + Gravity - vy)
  PROVE  2 * Gravity * (GroundY - (y + vy)) =
           ((vy + Gravity) + JumpSpeed) * (JumpSpeed + Gravity - (vy + Gravity))
BY PlayerAssumption

\* Physics keeps a player on the parabola until it is on the ground again,
\* and then lets it run (player.cpp:12-20, 82-91).
LEMMA UpdatePlayerMoves ==
  ASSUME NEW p, Commanded(p)
  PROVE  /\ UpdatePlayer(p) \in Players
         /\ \/ Resting(UpdatePlayer(p)) /\ UpdatePlayer(p).pose \in {"Running", "Ducking"}
            \/ Flying(UpdatePlayer(p)) /\ UpdatePlayer(p).pose = "Jumping"
<1> USE PlayerAssumption DEF Players, Poses
<1>1. p \in Players /\ p.pose # "Crashed"
  BY DEF Commanded
<1> DEFINE moved == [Fallen(p) EXCEPT !.leg = 1 - p.leg]
<1>2. moved \in Players /\ moved.pose = p.pose
  <2>1. Fallen(p) \in Players /\ Fallen(p).pose = p.pose
    <3>1. [p EXCEPT !.y = GroundY, !.vy = 0] \in Players
      <4>1. GroundY \in Int /\ 0 \in Int
        OBVIOUS
      <4> QED
        BY ONLY <1>1, <4>1 DEF Players
    <3>2. p.y + p.vy \in Int /\ p.vy + Gravity \in Int
      BY <1>1
    <3>3. [p EXCEPT !.y = p.y + p.vy, !.vy = p.vy + Gravity] \in Players
      BY <1>1, <3>2
    <3> QED
      BY <1>1, <3>1, <3>3 DEF Fallen
  <2>2. p.leg \in {0, 1}
    BY <1>1
  <2>3. 1 - p.leg \in {0, 1}
    BY <2>2
  <2> QED
    BY <2>1, <2>3
<1>3. UpdatePlayer(p) = IF IsOnGround(moved) /\ moved.pose = "Jumping"
                        THEN [moved EXCEPT !.pose = "Running"] ELSE moved
  BY <1>1 DEF UpdatePlayer
<1>4. CASE Resting(p) /\ p.pose \in {"Running", "Ducking"}
  <2>1. Resting(moved)
    BY <1>1, <1>4 DEF Resting, Fallen
  <2> HIDE DEF moved
  <2> QED
    BY <1>2, <1>3, <1>4, <2>1 DEF Resting
<1>5. CASE p.pose = "Jumping"
  <2>1. OnParabola(p)
    BY <1>1, <1>5 DEF Commanded, OnParabola, Flying, Resting
  <2>2. CASE p.y + p.vy >= GroundY
    <3>1. Resting(moved)
      BY <1>1, <2>2 DEF Resting, Fallen
    <3> HIDE DEF moved
    <3> QED
      BY <1>2, <1>3, <1>5, <3>1 DEF Resting, IsOnGround
  <2>3. CASE ~(p.y + p.vy >= GroundY)
    <3>1. moved.y = p.y + p.vy /\ moved.vy = p.vy + Gravity /\ moved.y < GroundY
      BY <1>1, <2>3 DEF Fallen
    <3>2. OnParabola(moved)
      <4> HIDE DEF moved
      <4> QED
        BY <1>1, <2>1, <3>1, ParabolaStep DEF OnParabola
    <3> HIDE DEF moved
    <3> QED
      BY <1>2, <1>3, <1>5, <3>1, <3>2 DEF Flying, IsOnGround
  <2> QED
    BY <2>2, <2>3
<1> QED
  BY <1>4, <1>5 DEF Commanded

\* A frame leaves the player resting or flying.
LEMMA MovedPlayerRestsOrFlies ==
  ASSUME PlayerInv, ~gameOver, NEW input
  PROVE  /\ MovedPlayer(input) \in Players
         /\ \/ Resting(MovedPlayer(input)) /\ MovedPlayer(input).pose \in {"Running", "Ducking"}
            \/ Flying(MovedPlayer(input)) /\ MovedPlayer(input).pose = "Jumping"
BY ApplyInputCommands, UpdatePlayerMoves DEF PlayerInv, MovedPlayer

-----------------------------------------------------------------------------
\* Scores.

ScoreInv ==
  /\ score \in Scores
  /\ score.high >= score.current
  /\ score.remainder < PixelsPerPoint
  /\ ground \in 0..(GroundRepeat - 1)

\* Quotient and remainder, as points and leftover pixels use them.
LEMMA DivMod ==
  ASSUME NEW a \in Nat, NEW d \in Nat \ {0}
  PROVE  /\ a \div d \in Nat
         /\ a % d \in 0..(d - 1)
         /\ (a \div d) * d + (a % d) = a
OBVIOUS

\* The speed stays between BaseSpeed and MaxSpeed (game_rules.cpp:7-11).
LEMMA SpeedBounds ==
  ASSUME NEW points \in Nat
  PROVE  CalculateSpeed(points) \in BaseSpeed..MaxSpeed
<1>1. points \div SpeedStepScore \in Nat
  BY DivMod, ScoringAssumption
<1> QED
  BY <1>1, ScoringAssumption DEF CalculateSpeed

\* No pixel is lost: points and leftover pixels grow by the pixels of the
\* frame; and the high score follows the points (score.cpp:22-31, 42-48).
LEMMA UpdateScoreAdds ==
  ASSUME NEW s \in Scores, s.high >= s.current, NEW speed \in Nat
  PROVE  LET t == UpdateScore(s, speed)
         IN  /\ t \in Scores
             /\ t.current >= s.current
             /\ t.high >= t.current
             /\ t.high >= s.high
             /\ t.high # s.high => t.high = t.current
             /\ t.current * PixelsPerPoint + t.remainder
                  = s.current * PixelsPerPoint + s.remainder + speed
             /\ t.remainder < PixelsPerPoint
<1> DEFINE gain  == (s.remainder + speed) \div PixelsPerPoint
           rest  == (s.remainder + speed) % PixelsPerPoint
           dist  == Advance(s.accumulated, speed)
           moved == [s EXCEPT !.remainder = rest, !.accumulated = dist]
           t     == AddPoints(moved, gain)
<1>1. /\ s.current \in Nat /\ s.high \in Nat
      /\ s.remainder \in Nat /\ s.accumulated \in Int
  BY DEF Scores
<1>2. gain \in Nat /\ rest \in 0..(PixelsPerPoint - 1)
      /\ gain * PixelsPerPoint + rest = s.remainder + speed
  <2>1. s.remainder + speed \in Nat /\ PixelsPerPoint \in Nat \ {0}
    BY <1>1, ScoringAssumption
  <2> QED
    BY ONLY <2>1, DivMod
<1>3. UpdateScore(s, speed) = t
  BY DEF UpdateScore
<1>4. dist \in Int
  BY <1>1, ScoringAssumption DEF Advance
<1>5. rest \in Nat
  BY <1>2, ScoringAssumption
<1> HIDE DEF gain, rest, dist
<1>6. /\ moved \in Scores
      /\ moved.current = s.current /\ moved.high = s.high
      /\ moved.remainder = rest /\ moved.accumulated = dist
  BY <1>4, <1>5 DEF Scores
<1> HIDE DEF moved
<1> DEFINE points == s.current + gain
           best   == IF points > s.high THEN points ELSE s.high
<1>7. points \in Nat /\ best \in Nat /\ best >= points /\ best >= s.high
      /\ (best # s.high => best = points)
  BY <1>1, <1>2
<1>8. t = [moved EXCEPT !.current = points, !.high = best]
  BY <1>6 DEF AddPoints
<1>9. points * PixelsPerPoint + rest = s.current * PixelsPerPoint + s.remainder + speed
  <2>1. s.current * PixelsPerPoint \in Nat /\ gain * PixelsPerPoint \in Nat
    BY <1>1, <1>2, ScoringAssumption
  <2>2. points * PixelsPerPoint = s.current * PixelsPerPoint + gain * PixelsPerPoint
    BY <1>1, <1>2, ScoringAssumption
  <2> QED
    BY <1>1, <1>2, <2>1, <2>2
<1>10. points >= s.current
  BY <1>1, <1>2
<1> HIDE DEF points, best
<1>11. /\ t \in Scores
       /\ t.current = points /\ t.high = best
       /\ t.remainder = rest /\ t.accumulated = dist
  BY <1>6, <1>7, <1>8 DEF Scores
<1> HIDE DEF t
<1>12. rest < PixelsPerPoint
  BY <1>2, ScoringAssumption
<1> QED
  BY <1>3, <1>7, <1>9, <1>10, <1>11, <1>12

\* The ground's offset stays inside its pattern (ground.cpp:16-22).
LEMMA ScrollGroundWraps ==
  ASSUME NEW offset \in 0..(GroundRepeat - 1), NEW speed \in 0..MaxSpeed
  PROVE  ScrollGround(offset, speed) \in 0..(GroundRepeat - 1)
BY ScoringAssumption DEF ScrollGround

-----------------------------------------------------------------------------
\* Obstacles and clouds.

WorldInv ==
  /\ obstacles \in Seq(Obstacle) /\ Spaced(obstacles, MinGap)
  /\ clouds \in Seq(Cloud)
  /\ nextGap \in MinGap..MaxGap

\* An obstacle enters behind all others (obstacle_spawner.cpp:31-50).
LEMMA AddKeepsSpacing ==
  ASSUME NEW obs \in Seq(Obstacle), Spaced(obs, MinGap),
         NEW gap \in MinGap..MaxGap, RoomForObstacle(obs, gap),
         NEW kind \in ObstacleKinds
  PROVE  LET new == Add(obs, [kind |-> kind, x |-> ScreenWidth], ObstacleCapacity)
         IN  new \in Seq(Obstacle) /\ Spaced(new, MinGap)
<1> DEFINE item == [kind |-> kind, x |-> ScreenWidth]
           new  == Append(obs, item)
           n    == Len(obs)
<1>0. ScreenWidth \in Nat /\ MinGap \in Nat /\ gap \in Nat /\ gap >= MinGap
  BY FrameAssumption
<1>1. Add(obs, item, ObstacleCapacity) = new
  BY DEF Add, RoomForObstacle
<1>2. item \in Obstacle
  BY <1>0 DEF Obstacle
<1>3. n \in Nat /\ DOMAIN obs = 1..n /\ \A i \in 1..n : obs[i] \in Obstacle
  BY LenProperties, ElementOfSeq
<1>4. /\ new \in Seq(Obstacle) /\ Len(new) = n + 1
      /\ \A i \in 1..n : new[i] = obs[i]
      /\ new[n + 1] = item
  BY <1>2, AppendProperties
<1>5. DOMAIN new = 1..(n + 1)
  BY <1>3, <1>4, LenProperties
<1>6. ASSUME NEW i \in 1..n PROVE ScreenWidth - obs[i].x >= MinGap
  <2>1. obs # << >> /\ obs[n].x <= ScreenWidth - gap
    BY <1>3, EmptySeq DEF RoomForObstacle
  <2>2. obs[i].x \in Int /\ obs[n].x \in Int
    <3>1. n \in 1..n
      <4> HIDE DEF n
      <4> QED
        BY <1>3
    <3>2. obs[i] \in Obstacle /\ obs[n] \in Obstacle
      BY <1>3, <3>1
    <3> QED
      BY <3>2 DEF Obstacle
  <2>3. i < n => obs[n].x - obs[i].x >= MinGap
    BY <1>3 DEF Spaced
  <2>4. i < n \/ i = n
    <3> HIDE DEF n
    <3> QED
      BY <1>3
  <2> DEFINE first == obs[i].x
             last  == obs[n].x
  <2>5. first \in Int /\ last \in Int /\ last <= ScreenWidth - gap
        /\ (last - first >= MinGap \/ first = last)
    BY <2>1, <2>2, <2>3, <2>4
  <2> HIDE DEF first, last
  <2>6. ScreenWidth - first >= MinGap
    BY <1>0, <2>5
  <2> QED
    BY <2>6 DEF first
<1>7. Spaced(new, MinGap)
  <2> SUFFICES ASSUME NEW i \in 1..(n + 1), NEW j \in 1..(n + 1), i < j
               PROVE  new[j].x - new[i].x >= MinGap
    BY <1>5 DEF Spaced
  <2>1. i \in 1..n /\ new[i] = obs[i]
    BY <1>3, <1>4
  <2>2. CASE j \in 1..n
    BY <1>3, <1>4, <2>1, <2>2 DEF Spaced
  <2>3. CASE j = n + 1
    BY <1>4, <1>6, <2>1, <2>3
  <2> QED
    BY <1>3, <2>2, <2>3
<1> QED
  BY <1>1, <1>4, <1>7

\* What the movement of a frame leaves (game_engine.cpp:22-32).
LEMMA MovementKeepsSpacing ==
  ASSUME WorldInv, score.current \in Nat
  PROVE  /\ MovedObstacles \in Seq(Obstacle) /\ Spaced(MovedObstacles, MinGap)
         /\ MovedClouds \in Seq(Cloud)
<1>1. Speed \in Int /\ CloudSpeed \in Int /\ MinGap \in Int
  BY SpeedBounds, EngineAssumption, FrameAssumption, ScoringAssumption DEF Speed
<1>2. /\ UpdateAll(obstacles, Speed) \in Seq(Obstacle)
      /\ Spaced(UpdateAll(obstacles, Speed), MinGap)
  BY <1>1, UpdateKeepsSpacing DEF WorldInv
<1>3. \A o \in Obstacle : o.x \in Int
  BY DEF Obstacle
<1>4. MovedObstacles \in Seq(Obstacle) /\ Spaced(MovedObstacles, MinGap)
  BY <1>1, <1>2, <1>3, PruneKeepsSpacing DEF MovedObstacles
<1>5. \A c \in Cloud : c.x \in Int
  BY DEF Cloud
<1>6. UpdateAll(clouds, CloudSpeed) \in Seq(Cloud)
  BY <1>1, UpdateKeepsSpacing DEF WorldInv
<1>7. MovedClouds \in Seq(Cloud)
  BY <1>1, <1>5, <1>6, PruneKeepsSpacing DEF MovedClouds
<1> QED
  BY <1>4, <1>7

-----------------------------------------------------------------------------
\* The inductive invariant.

FlagsInv ==
  /\ theme \in Themes
  /\ gameOver \in BOOLEAN /\ godmode \in BOOLEAN /\ startNight \in BOOLEAN

IInv == PlayerInv /\ WorldInv /\ ScoreInv /\ FlagsInv

\* A player just constructed or reset stands on the ground (player.cpp:93-96).
LEMMA NewPlayerRests ==
  NewPlayer \in Players /\ Resting(NewPlayer) /\ NewPlayer.pose = "Running"
BY PlayerAssumption DEF NewPlayer, Players, Poses, Resting

\* The engine starts inside the invariant.
LEMMA InitInv == Init => IInv
<1> SUFFICES ASSUME Init PROVE IInv
  OBVIOUS
<1>1. PlayerInv
  BY NewPlayerRests DEF Init, PlayerInv
<1>2. WorldInv
  BY EngineAssumption, FrameAssumption, EmptySeq DEF Init, WorldInv, Spaced
<1>3. ScoreInv
  <2>1. PICK high \in StoredHighs : score = SetHigh(NewScore(0), high)
    BY DEF Init
  <2>2. high \in Nat
    BY EngineAssumption, FrameAssumption
  <2>3. /\ score \in Scores /\ score.current = 0 /\ score.remainder = 0
        /\ score.accumulated = 0 /\ score.high = high
    BY <2>1, <2>2 DEF SetHigh, NewScore, Scores
  <2>4. ground \in 0..(GroundRepeat - 1)
    BY ScoringAssumption DEF Init
  <2> QED
    BY <2>2, <2>3, <2>4, ScoringAssumption DEF ScoreInv
<1>4. FlagsInv
  BY DEF Init, FlagsInv, NewTheme, Themes
<1> QED
  BY <1>1, <1>2, <1>3, <1>4 DEF IInv

\* A frame that runs to the end of step keeps it (game_engine.cpp:66-80).
LEMMA PlayFrameInv ==
  ASSUME IInv, NEW input \in Inputs, PlayFrame(input)
  PROVE  IInv'
<1> USE DEF IInv
<1>1. /\ score.current \in Nat /\ Speed \in BaseSpeed..MaxSpeed
      /\ Speed \in Nat /\ Speed \in 0..MaxSpeed
  BY SpeedBounds, ScoringAssumption DEF ScoreInv, Scores, Speed
<1>2. PlayerInv'
  BY MovedPlayerRestsOrFlies DEF PlayFrame, PlayerInv, Players, Resting, Flying, OnParabola
<1>3. MovedObstacles \in Seq(Obstacle) /\ Spaced(MovedObstacles, MinGap)
      /\ MovedClouds \in Seq(Cloud)
  BY <1>1, MovementKeepsSpacing
<1>4. obstacles' \in Seq(Obstacle) /\ Spaced(obstacles', MinGap)
      /\ nextGap' \in MinGap..MaxGap
  <2>1. nextGap \in MinGap..MaxGap
    BY DEF WorldInv
  <2>2. CASE RoomForObstacle(MovedObstacles, nextGap)
    <3>1. PICK kind \in Selectable(score.current), gap \in Gaps :
            /\ obstacles' = Add(MovedObstacles, [kind |-> kind, x |-> ScreenWidth],
                                ObstacleCapacity)
            /\ nextGap' = gap
      BY <2>2 DEF PlayFrame, SpawnObstacle
    <3>2. kind \in ObstacleKinds /\ gap \in MinGap..MaxGap
      BY <3>1, EngineAssumption, FrameAssumption DEF Selectable, ObstacleKinds
    <3> HIDE DEF MovedObstacles
    <3> QED
      BY <1>3, <2>1, <2>2, <3>1, <3>2, AddKeepsSpacing
  <2>3. CASE ~RoomForObstacle(MovedObstacles, nextGap)
    BY <1>3, <2>1, <2>3 DEF PlayFrame, SpawnObstacle
  <2> QED
    BY <2>2, <2>3
<1>5. clouds' \in Seq(Cloud)
  <2>1. [kind |-> "Cloud", x |-> ScreenWidth] \in Cloud
    BY EngineAssumption, FrameAssumption DEF Cloud
  <2>2. Append(MovedClouds, [kind |-> "Cloud", x |-> ScreenWidth]) \in Seq(Cloud)
    BY <1>3, <2>1, AppendProperties
  <2> QED
    BY <1>3, <2>2 DEF PlayFrame, SpawnCloud, Add
<1>6. ScoreInv'
  <2>1. score' = UpdateScore(score, Speed) /\ ground' = ScrollGround(ground, Speed)
    BY DEF PlayFrame
  <2>2. ground' \in 0..(GroundRepeat - 1)
    BY <1>1, <2>1, ScrollGroundWraps DEF ScoreInv
  <2>3. /\ score' \in Scores /\ score'.high >= score'.current
        /\ score'.remainder < PixelsPerPoint
    BY <1>1, <2>1, UpdateScoreAdds DEF ScoreInv
  <2> QED
    BY <2>2, <2>3 DEF ScoreInv
<1>7. FlagsInv'
  BY DEF PlayFrame, FlagsInv, CheckMilestone, Themes
<1> QED
  BY <1>2, <1>4, <1>5, <1>6, <1>7 DEF WorldInv

\* So does the frame of a crash (game_engine.cpp:34-44, 70-73).
LEMMA CrashFrameInv ==
  ASSUME IInv, NEW input \in Inputs, CrashFrame(input)
  PROVE  IInv'
<1> USE DEF IInv
<1>1. score.current \in Nat /\ Speed \in 0..MaxSpeed
  BY SpeedBounds, ScoringAssumption DEF ScoreInv, Scores, Speed
<1>2. PlayerInv'
  <2>1. MovedPlayer(input) \in Players
        /\ (Resting(MovedPlayer(input)) \/ Flying(MovedPlayer(input)))
    BY MovedPlayerRestsOrFlies DEF CrashFrame
  <2> DEFINE p == MovedPlayer(input)
  <2>2. player' = [p EXCEPT !.pose = "Crashed"] /\ gameOver'
    BY DEF CrashFrame, Crash
  <2> HIDE DEF p
  <2>3. player' \in Players /\ player'.pose = "Crashed"
        /\ player'.y = p.y /\ player'.vy = p.vy
    BY <2>1, <2>2 DEF Players, Poses, p
  <2> QED
    BY <2>1, <2>2, <2>3 DEF PlayerInv, Resting, Flying, OnParabola, p
<1>3. WorldInv'
  BY <1>1, MovementKeepsSpacing DEF CrashFrame, WorldInv
<1>4. ScoreInv'
  BY <1>1, ScrollGroundWraps DEF CrashFrame, ScoreInv
<1>5. FlagsInv'
  BY DEF CrashFrame, FlagsInv
<1> QED
  BY <1>2, <1>3, <1>4, <1>5

\* So does a restart (game_engine.cpp:83-86).
LEMMA RestartInv ==
  ASSUME IInv, NEW input \in Inputs, Restart(input)
  PROVE  IInv'
<1> USE DEF IInv
<1>1. PlayerInv'
  BY NewPlayerRests DEF Restart, PlayerInv
<1>2. WorldInv'
  BY EngineAssumption, FrameAssumption, EmptySeq DEF Restart, WorldInv, Spaced
<1>3. ScoreInv'
  <2>1. score.high \in Nat
    BY DEF ScoreInv, Scores
  <2>2. /\ score' \in Scores /\ score'.current = 0 /\ score'.remainder = 0
        /\ score'.accumulated = 0 /\ score'.high = score.high
    BY <2>1 DEF Restart, ResetScore, NewScore, Scores
  <2>3. ground' \in 0..(GroundRepeat - 1)
    BY ScoringAssumption DEF Restart
  <2> QED
    BY <2>1, <2>2, <2>3, ScoringAssumption DEF ScoreInv
<1>4. FlagsInv'
  BY DEF Restart, FlagsInv, Themes
<1> QED
  BY <1>1, <1>2, <1>3, <1>4

\* So does every step.
LEMMA StepInv == IInv /\ [Next]_vars => IInv'
<1> SUFFICES ASSUME IInv, [Next]_vars PROVE IInv'
  OBVIOUS
<1>1. CASE UNCHANGED vars
  BY <1>1 DEF vars, IInv, PlayerInv, WorldInv, ScoreInv, FlagsInv, Resting, Flying,
    OnParabola, Spaced
<1>2. ASSUME NEW input \in Inputs, StayOver(input) PROVE UNCHANGED vars
  BY <1>2 DEF StayOver
<1> QED
  BY <1>1, <1>2, PlayFrameInv, CrashFrameInv, RestartInv DEF Next, Step

\* Hence the invariant holds throughout.
LEMMA Invariance == Spec => []IInv
BY InitInv, StepInv, PTL DEF Spec

-----------------------------------------------------------------------------
\* The theorems.

\* Every variable keeps its type.
THEOREM TypeCorrect == Spec => []TypeOK
<1>1. IInv => TypeOK
  BY ScoringAssumption DEF IInv, PlayerInv, WorldInv, ScoreInv, FlagsInv, TypeOK
<1> QED
  BY <1>1, Invariance, PTL

\* The pose tells whether the player is on the ground, whatever commands
\* came in whatever order, and is "Crashed" exactly when the game is over.
THEOREM PoseCorrect == Spec => []PoseMatchesMotion
<1>1. IInv => PoseMatchesMotion
  BY PlayerAssumption
    DEF IInv, PlayerInv, Players, Resting, Flying, PoseMatchesMotion, IsOnGround
<1> QED
  BY <1>1, Invariance, PTL

\* Every jump is the same parabola, for any speed and gravity.
THEOREM JumpsAreParabolas == Spec => []JumpIsBallistic
<1>1. ASSUME IInv, ~IsOnGround(player) PROVE OnParabola(player)
  <2>1. ~Resting(player)
    BY <1>1, PlayerAssumption DEF Resting, IsOnGround
  <2> QED
    BY <1>1, <2>1 DEF IInv, PlayerInv, Flying
<1>2. IInv => JumpIsBallistic
  BY <1>1 DEF OnParabola, JumpIsBallistic
<1> QED
  BY <1>2, Invariance, PTL

\* Obstacles are never closer than MinGap, for any speed and any gaps drawn.
THEOREM SpacingKept == Spec => []ObstaclesSpaced
<1>1. IInv => ObstaclesSpaced
  BY DEF IInv, WorldInv, Spaced, ObstaclesSpaced
<1> QED
  BY <1>1, Invariance, PTL

\* The high score is the best score seen: it never falls, and moves only to
\* the points just reached.
THEOREM HighScoreCorrect == Spec => HighIsBest
<1> DEFINE Moves == /\ score'.high >= score.high
                    /\ score'.high >= score'.current
                    /\ score'.high # score.high => score'.high = score'.current
<1>1. ASSUME IInv, [Next]_vars PROVE Moves
  <2>1. score.current \in Nat /\ score.high \in Nat /\ score.high >= score.current
    BY <1>1 DEF IInv, ScoreInv, Scores
  <2>2. ASSUME NEW input \in Inputs, PlayFrame(input) PROVE Moves
    <3>1. Speed \in Nat
      BY <2>1, SpeedBounds, ScoringAssumption DEF Speed
    <3> QED
      BY <1>1, <2>2, <3>1, UpdateScoreAdds DEF PlayFrame, IInv, ScoreInv
  <2>3. ASSUME NEW input \in Inputs, CrashFrame(input) PROVE Moves
    BY <2>1, <2>3 DEF CrashFrame
  <2>4. ASSUME NEW input \in Inputs, Restart(input) PROVE Moves
    BY <2>1, <2>4 DEF Restart, ResetScore, NewScore
  <2>5. ASSUME NEW input \in Inputs, StayOver(input) PROVE Moves
    BY <2>1, <2>5 DEF StayOver, vars
  <2>6. CASE UNCHANGED vars
    BY <2>1, <2>6 DEF vars
  <2> QED
    BY <1>1, <2>2, <2>3, <2>4, <2>5, <2>6 DEF Next, Step
<1> HIDE DEF Moves
<1>2. Spec => [][Moves]_vars
  BY <1>1, Invariance, PTL DEF Spec
<1> QED
  BY <1>2 DEF HighIsBest, Moves

-----------------------------------------------------------------------------
\* Quotients and remainders.

\* There is one way to write a number as a multiple and a remainder.
LEMMA DivUnique ==
  ASSUME NEW d \in Nat \ {0}, NEW q \in Nat, NEW r \in 0..(d - 1)
  PROVE  (q * d + r) \div d = q /\ (q * d + r) % d = r
<1> DEFINE a == q * d + r
           p == a \div d
           s == a % d
<1>1. a \in Nat
  OBVIOUS
<1>2. p \in Nat /\ s \in 0..(d - 1) /\ p * d + s = a
  BY <1>1, DivMod
<1>3. p * d + s = q * d + r
  BY <1>2
<1> HIDE DEF a, p, s
<1>4. ASSUME NEW m \in Nat, NEW n \in Nat, NEW x \in 0..(d - 1), NEW y \in 0..(d - 1),
             m * d + x = n * d + y
      PROVE  ~(m < n)
  <2> SUFFICES ASSUME m < n PROVE FALSE
    OBVIOUS
  <2>1. PICK k \in Nat : n = m + 1 + k
    <3>1. n - m - 1 \in Nat /\ n = m + 1 + (n - m - 1)
      OBVIOUS
    <3> QED
      BY <3>1
  <2>2. n * d = m * d + d + k * d
    BY <2>1
  <2>3. k * d \in Nat /\ m * d \in Nat
    OBVIOUS
  <2> QED
    BY <1>4, <2>2, <2>3
<1>5. p = q
  BY <1>2, <1>3, <1>4
<1>6. s = r
  BY <1>2, <1>3, <1>5
<1> QED
  BY <1>5, <1>6 DEF a, p, s

\* Quotients grow with the dividend.
LEMMA DivMonotone ==
  ASSUME NEW d \in Nat \ {0}, NEW a \in Nat, NEW b \in Nat, a <= b
  PROVE  a \div d <= b \div d
<1> DEFINE p == a \div d
           q == b \div d
<1>1. /\ p \in Nat /\ a % d \in 0..(d - 1) /\ p * d + (a % d) = a
      /\ q \in Nat /\ b % d \in 0..(d - 1) /\ q * d + (b % d) = b
  BY DivMod
<1> HIDE DEF p, q
<1> SUFFICES ASSUME q < p PROVE FALSE
  BY <1>1 DEF p, q
<1>2. PICK k \in Nat : p = q + 1 + k
  <2>1. p - q - 1 \in Nat /\ p = q + 1 + (p - q - 1)
    BY <1>1
  <2> QED
    BY <2>1
<1>3. p * d = q * d + d + k * d
  BY <1>1, <1>2
<1>4. k * d \in Nat /\ q * d \in Nat
  BY <1>1
<1> QED
  BY <1>1, <1>3, <1>4

\* An addend of at most d raises the quotient by at most one.
LEMMA DivStep ==
  ASSUME NEW d \in Nat \ {0}, NEW a \in Nat, NEW g \in 0..d
  PROVE  (a + g) \div d \in {a \div d, (a \div d) + 1}
<1> DEFINE p == a \div d
           r == a % d
<1>1. p \in Nat /\ r \in 0..(d - 1) /\ p * d + r = a
  BY DivMod
<1> HIDE DEF p, r
<1>2. CASE r + g < d
  <2>1. a + g = p * d + (r + g) /\ r + g \in 0..(d - 1)
    BY <1>1, <1>2
  <2>2. (a + g) \div d = p
    BY <1>1, <2>1, DivUnique
  <2> QED
    BY <2>2 DEF p
<1>3. CASE r + g >= d
  <2>1. a + g = (p + 1) * d + (r + g - d)
    BY <1>1
  <2>2. r + g - d \in 0..(d - 1) /\ p + 1 \in Nat
    BY <1>1, <1>3
  <2> DEFINE q == p + 1
             s == r + g - d
  <2>3. d \in Nat \ {0} /\ q \in Nat /\ s \in 0..(d - 1)
    BY <2>2
  <2>4. a + g = q * d + s
    BY <2>1
  <2> HIDE DEF q, s
  <2>5. (q * d + s) \div d = q
    BY ONLY <2>3, DivUnique
  <2> QED
    BY <2>4, <2>5 DEF p, q
<1> QED
  BY <1>1, <1>2, <1>3

\* Multiples of d leave the remainder alone.
LEMMA ModSubtract ==
  ASSUME NEW d \in Nat \ {0}, NEW a \in Nat, NEW m \in Nat, m % d = 0, m <= a
  PROVE  (a - m) % d = a % d
<1> DEFINE c == a - m
           k == m \div d
           p == c \div d
           r == c % d
<1>1. c \in Nat /\ a = c + m
  OBVIOUS
<1>2. p \in Nat /\ r \in 0..(d - 1) /\ p * d + r = c
  BY <1>1, DivMod
<1>3. k \in Nat /\ k * d = m
  BY DivMod
<1> HIDE DEF c, k, p, r
<1>4. a = (p + k) * d + r /\ p + k \in Nat
  BY <1>1, <1>2, <1>3
<1>5. a % d = r
  BY <1>2, <1>4, DivUnique
<1> QED
  BY <1>5 DEF c, r

LEMMA DivZero ==
  ASSUME NEW d \in Nat \ {0} PROVE 0 \div d = 0 /\ 0 % d = 0
<1>1. 0 = 0 * d + 0 /\ 0 \in 0..(d - 1)
  OBVIOUS
<1> QED
  BY ONLY <1>1, DivUnique

-----------------------------------------------------------------------------
\* The engine and the session.

MaxGain == (PixelsPerPoint - 1 + MaxSpeed) \div PixelsPerPoint

\* The points of a frame (score.cpp:22-31).
Gain == (score.remainder + Speed) \div PixelsPerPoint

\* A frame brings the session's points, and the high score is the best.
LEMMA FrameGains ==
  ASSUME IInv
  PROVE  /\ Gain \in 0..MaxGain
         /\ score.current \in Nat /\ score.high \in Nat
         /\ UpdateScore(score, Speed).current = score.current + Gain
         /\ UpdateScore(score, Speed).high =
              IF score.current + Gain > score.high THEN score.current + Gain ELSE score.high
<1>1. /\ score \in Scores /\ score.current \in Nat /\ score.high \in Nat
      /\ score.remainder \in Nat /\ score.remainder <= PixelsPerPoint - 1
  BY ScoringAssumption DEF IInv, ScoreInv, Scores
<1>2. Speed \in 0..MaxSpeed
  BY <1>1, SpeedBounds, ScoringAssumption DEF Speed
<1>3. Gain \in 0..MaxGain
  <2> DEFINE a == score.remainder + Speed
             b == PixelsPerPoint - 1 + MaxSpeed
  <2>1. a \in Nat /\ b \in Nat /\ a <= b /\ PixelsPerPoint \in Nat \ {0}
    BY <1>1, <1>2, ScoringAssumption
  <2> HIDE DEF a, b
  <2>2. a \div PixelsPerPoint \in Nat /\ b \div PixelsPerPoint \in Nat
        /\ a \div PixelsPerPoint <= b \div PixelsPerPoint
    BY <2>1, DivMod, DivMonotone
  <2> QED
    BY <2>2 DEF a, b, Gain, MaxGain
<1>4. UpdateScore(score, Speed) =
        AddPoints([score EXCEPT !.remainder = (score.remainder + Speed) % PixelsPerPoint,
                                !.accumulated = Advance(@, Speed)], Gain)
  BY DEF UpdateScore, Gain
<1> QED
  BY <1>1, <1>3, <1>4 DEF AddPoints, Scores

\* A frame flips the palette exactly when its points cross a milestone.
LEMMA FrameFlips ==
  ASSUME IInv, NEW input, PlayFrame(input)
  PROVE  theme'.night = IF (score.current + Gain) \div MilestoneInterval
                             > score.current \div MilestoneInterval
                        THEN ~theme.night ELSE theme.night
<1> DEFINE old == score.current \div MilestoneInterval
           new == (score.current + Gain) \div MilestoneInterval
<1>1. score'.current = score.current + Gain /\ score.current \in Nat /\ Gain \in Nat
  BY FrameGains DEF PlayFrame
<1>2. old \in Nat
  BY <1>1, DivMod, ScoringAssumption
<1>3. score.current + Gain = 0 => new = 0
  BY DivZero, ScoringAssumption
<1>4. new > old => score.current + Gain > 0
  <2> HIDE DEF new, old
  <2> QED
    BY <1>1, <1>2, <1>3
<1>5. theme' = CheckMilestone(theme, score.current, score'.current)
  BY DEF PlayFrame
<1> QED
  BY <1>1, <1>4, <1>5 DEF CheckMilestone

\* The engine starts where a session can start.
LEMMA InitIsSessionInit == Init => Session!SessionInit
<1> SUFFICES ASSUME Init PROVE Session!SessionInit
  OBVIOUS
<1>1. PICK high \in StoredHighs : score = SetHigh(NewScore(0), high)
  BY DEF Init
<1>2. high \in Nat
  BY EngineAssumption
<1>3. score.current = 0 /\ score.high = high
  BY <1>1, <1>2 DEF SetHigh, NewScore
<1> QED
  BY <1>3 DEF Init, NewTheme, Session!SessionInit

\* A step of the engine is a step of the session, or leaves what the
\* session shows alone.
LEMMA StepIsSessionStep ==
  IInv /\ [Next]_vars => [Session!SessionNext]_(Session!sessionVars)
<1> SUFFICES ASSUME IInv, [Next]_vars
             PROVE  Session!SessionNext \/ UNCHANGED Session!sessionVars
  OBVIOUS
<1>1. ASSUME NEW input \in Inputs, PlayFrame(input) PROVE Session!SessionNext
  <2>1. Session!Play(Gain)
    BY <1>1, FrameGains, FrameFlips DEF PlayFrame, Session!Play
  <2>2. Gain \in 0..((PixelsPerPoint - 1 + MaxSpeed) \div PixelsPerPoint)
    BY FrameGains DEF MaxGain
  <2> QED
    BY <2>1, <2>2 DEF Session!SessionNext
<1>2. ASSUME NEW input \in Inputs, CrashFrame(input) PROVE Session!SessionNext
  BY <1>2 DEF CrashFrame, Session!EndRun, Session!SessionNext
<1>3. ASSUME NEW input \in Inputs, Restart(input) PROVE Session!SessionNext
  BY <1>3 DEF Restart, ResetScore, NewScore, Session!StartRun, Session!SessionNext
<1>4. ASSUME NEW input \in Inputs, StayOver(input) PROVE UNCHANGED Session!sessionVars
  BY <1>4 DEF StayOver, vars, Session!sessionVars
<1>5. CASE UNCHANGED vars
  BY <1>5 DEF vars, Session!sessionVars
<1> QED
  BY <1>1, <1>2, <1>3, <1>4, <1>5 DEF Next, Step

\* GameEngine::step, called once a frame with whatever input, implements the
\* session the main loop, the refresh logic and the high-score file rely on
\* (game_engine.cpp:46-86).
THEOREM SessionImplemented == Spec => ImplementsSession
<1>1. Spec => Session!SessionInit /\ [][Session!SessionNext]_(Session!sessionVars)
  BY InitIsSessionInit, StepIsSessionStep, Invariance, PTL DEF Spec
<1> QED
  BY <1>1 DEF ImplementsSession, Session!SessionSpec

-----------------------------------------------------------------------------
\* Palette and ground keep in step with the points.

RunLength == score.current * PixelsPerPoint + score.remainder

\* The tracker's total falls behind the pixels only by whole rounds of its
\* 32 bits; the ground's offset and the leftover pixels agree during a run.
PaceInv ==
  /\ NightFollowsMilestones
  /\ ~gameOver => ground % PixelsPerPoint = score.remainder
  /\ \E rounds \in Nat : RunLength - score.accumulated = rounds * (2 * PixelLimit)

\* The parity of the milestones passed changes with the palette.
LEMMA NightKept ==
  ASSUME IInv, NightFollowsMilestones, NEW input, PlayFrame(input)
  PROVE  NightFollowsMilestones'
<1> DEFINE old == score.current \div MilestoneInterval
           new == (score.current + Gain) \div MilestoneInterval
<1>1. score'.current = score.current + Gain /\ score.current \in Nat
      /\ Gain \in 0..MilestoneInterval
  BY FrameGains, PaceAssumption, ScoringAssumption DEF PlayFrame, MaxGain
<1>2. old \in Nat /\ new \in {old, old + 1}
  BY <1>1, DivMod, DivStep, ScoringAssumption
<1>3. theme'.night = (IF new > old THEN ~theme.night ELSE theme.night)
  BY FrameFlips
<1>4. startNight' = startNight /\ startNight \in BOOLEAN
      /\ theme.night \in BOOLEAN
  BY DEF PlayFrame, IInv, FlagsInv, Themes
<1>5. theme.night <=> (startNight # (old % 2 = 1))
  BY DEF NightFollowsMilestones
<1>6. NightFollowsMilestones' <=> (theme'.night <=> (startNight # (new % 2 = 1)))
  BY <1>1, <1>4 DEF NightFollowsMilestones
<1> HIDE DEF old, new
<1>7. CASE new = old
  BY <1>2, <1>3, <1>4, <1>5, <1>6, <1>7
<1>8. CASE new = old + 1
  <2>1. new > old /\ ((new % 2 = 1) <=> ~(old % 2 = 1))
    BY <1>2, <1>8
  <2>2. theme'.night = ~theme.night
    BY <1>3, <2>1
  <2> HIDE <1>8
  <2> QED
    BY <1>4, <1>5, <1>6, <2>1, <2>2
<1> QED
  BY <1>2, <1>7, <1>8

\* Score and ground move by the same pixels.
LEMMA ScrollKept ==
  ASSUME IInv, PaceInv, NEW input, PlayFrame(input)
  PROVE  /\ ground' % PixelsPerPoint = score'.remainder
         /\ \E rounds \in Nat : (RunLength - score.accumulated)' = rounds * (2 * PixelLimit)
<1> DEFINE d == PixelsPerPoint
           v == Speed
<1>1. /\ score \in Scores /\ score.current \in Nat /\ score.remainder \in Nat
      /\ score.accumulated \in Int /\ score.high >= score.current
      /\ ground \in 0..(GroundRepeat - 1)
      /\ v \in Nat /\ v \in 0..MaxSpeed
      /\ d \in Nat \ {0} /\ PixelLimit \in Nat /\ GroundRepeat \in Nat
  BY SpeedBounds, ScoringAssumption DEF IInv, ScoreInv, Scores, Speed
<1>2. /\ score' = UpdateScore(score, v) /\ ground' = ScrollGround(ground, v)
      /\ ground % d = score.remainder
  BY DEF PlayFrame, PaceInv
<1>3. /\ score'.remainder = (score.remainder + v) % d
      /\ score'.accumulated = Advance(score.accumulated, v)
  BY <1>1, <1>2 DEF UpdateScore, AddPoints, Scores
<1>4. RunLength' = RunLength + v
  BY <1>1, <1>2, UpdateScoreAdds DEF RunLength
<1>5. (ground + v) % d = (score.remainder + v) % d
  <2> DEFINE p == ground \div d
             q == (score.remainder + v) \div d
             r == (score.remainder + v) % d
  <2>1. p \in Nat /\ p * d + score.remainder = ground
    <3>1. ground \in Nat
      BY <1>1
    <3> QED
      BY ONLY <1>1, <1>2, <3>1, DivMod
  <2>2. q \in Nat /\ r \in 0..(d - 1) /\ q * d + r = score.remainder + v
    <3>1. score.remainder + v \in Nat
      BY <1>1
    <3> QED
      BY ONLY <1>1, <3>1, DivMod
  <2> HIDE DEF p, q, r
  <2>3. ground + v = (p + q) * d + r /\ p + q \in Nat
    BY <1>1, <2>1, <2>2
  <2>4. (ground + v) % d = r
    <3> DEFINE k == p + q
    <3>1. k \in Nat /\ ground + v = k * d + r
      BY <2>3
    <3> HIDE DEF k, d
    <3>2. (k * d + r) % d = r
      BY ONLY <1>1, <2>2, <3>1, DivUnique
    <3> QED
      BY <3>1, <3>2
  <2> QED
    BY <2>4 DEF r
<1>6. ground' % d = (ground + v) % d
  <2>1. CASE ground + v >= GroundRepeat
    <3>1. ground' = (ground + v) - GroundRepeat
      BY <1>2, <2>1 DEF ScrollGround
    <3>2. GroundRepeat % d = 0 /\ ground + v \in Nat
      BY <1>1, PaceAssumption
    <3> QED
      BY <1>1, <2>1, <3>1, <3>2, ModSubtract
  <2>2. CASE ~(ground + v >= GroundRepeat)
    BY <1>2, <2>2 DEF ScrollGround
  <2> QED
    BY <2>1, <2>2
<1>7. PICK rounds \in Nat : RunLength - score.accumulated = rounds * (2 * PixelLimit)
  BY DEF PaceInv
<1>8. RunLength \in Int
  BY <1>1 DEF RunLength
<1>9. \/ score'.accumulated = score.accumulated + v
      \/ score'.accumulated = score.accumulated + v - 2 * PixelLimit
  BY <1>1, <1>3 DEF Advance
<1>10. \/ RunLength' - score'.accumulated = rounds * (2 * PixelLimit)
       \/ RunLength' - score'.accumulated = (rounds + 1) * (2 * PixelLimit)
  <2> DEFINE m == 2 * PixelLimit
             was == score.accumulated
             is  == score'.accumulated
  <2>1. /\ m \in Nat /\ was \in Int
        /\ RunLength - was = rounds * m
        /\ is = was + v \/ is = was + v - m
    BY <1>1, <1>7, <1>9
  <2>2. (rounds + 1) * m = rounds * m + m /\ rounds * m \in Nat
    BY <2>1
  <2> SUFFICES RunLength' - is = rounds * m \/ RunLength' - is = (rounds + 1) * m
    OBVIOUS
  <2> HIDE DEF m, was, is
  <2> QED
    BY <1>1, <1>4, <1>8, <2>1, <2>2
<1> QED
  BY <1>2, <1>3, <1>5, <1>6, <1>10

\* The strengthened invariant holds throughout.
LEMMA PaceInvariance == Spec => []PaceInv
<1>1. ASSUME Init PROVE PaceInv
  <2>1. PICK high \in StoredHighs : score = SetHigh(NewScore(0), high)
    BY <1>1 DEF Init
  <2>2. score.current = 0 /\ score.remainder = 0 /\ score.accumulated = 0
    BY <2>1 DEF SetHigh, NewScore
  <2>3. /\ score.current \div MilestoneInterval = 0 /\ ground % PixelsPerPoint = 0
        /\ RunLength - score.accumulated = 0 * (2 * PixelLimit)
    BY <1>1, <2>2, DivZero, ScoringAssumption DEF Init, RunLength
  <2>4. NightFollowsMilestones
    <3>1. theme.night = FALSE /\ startNight = FALSE
      BY <1>1 DEF Init, NewTheme
    <3>2. ((score.current \div MilestoneInterval) % 2 = 1) = FALSE
      BY <2>3
    <3> QED
      BY ONLY <3>1, <3>2, Zenon DEF NightFollowsMilestones
  <2>5. \E rounds \in Nat : RunLength - score.accumulated = rounds * (2 * PixelLimit)
    BY <2>3
  <2> QED
    BY <2>2, <2>3, <2>4, <2>5 DEF PaceInv
<1>2. ASSUME IInv, PaceInv, [Next]_vars PROVE PaceInv'
  <2>1. ASSUME NEW input \in Inputs, PlayFrame(input) PROVE PaceInv'
    BY <1>2, <2>1, NightKept, ScrollKept DEF PaceInv
  <2>2. ASSUME NEW input \in Inputs, CrashFrame(input) PROVE PaceInv'
    BY <1>2, <2>2 DEF CrashFrame, PaceInv, NightFollowsMilestones, RunLength
  <2>3. ASSUME NEW input \in Inputs, Restart(input) PROVE PaceInv'
    <3>1. /\ score'.current = 0 /\ score'.remainder = 0 /\ score'.accumulated = 0
          /\ ground' = 0 /\ theme'.night \in BOOLEAN /\ startNight' = theme'.night
      BY <1>2, <2>3 DEF Restart, ResetScore, NewScore, IInv, FlagsInv, Themes
    <3>2. /\ score'.current \div MilestoneInterval = 0 /\ ground' % PixelsPerPoint = 0
          /\ RunLength' - score'.accumulated = 0 * (2 * PixelLimit)
      BY <3>1, DivZero, ScoringAssumption DEF RunLength
    <3> QED
      BY <3>1, <3>2 DEF PaceInv, NightFollowsMilestones
  <2>4. ASSUME NEW input \in Inputs, StayOver(input) PROVE UNCHANGED vars
    BY <2>4 DEF StayOver
  <2>5. CASE UNCHANGED vars
    BY <1>2, <2>5 DEF vars, PaceInv, NightFollowsMilestones, RunLength
  <2> QED
    BY <1>2, <2>1, <2>2, <2>3, <2>4, <2>5 DEF Next, Step
<1> QED
  BY <1>1, <1>2, Invariance, PTL DEF Spec

\* No milestone is skipped or counted twice, for any speeds and intervals
\* whose frames reach at most one (game_engine.cpp:46-57).
THEOREM NightCorrect == Spec => []NightFollowsMilestones
<1>1. PaceInv => NightFollowsMilestones
  BY DEF PaceInv
<1> QED
  BY <1>1, PaceInvariance, PTL

\* Ground and score never drift apart while a run lasts, and the tracker's
\* total agrees with the points as far as its 32 bits can tell
\* (ground.cpp:16-22, score.cpp:13-31).
THEOREM ScrollCorrect == Spec => []ScrollAgrees
<1>1. ASSUME IInv, PaceInv PROVE ScrollAgrees
  <2>1. PICK rounds \in Nat : RunLength - score.accumulated = rounds * (2 * PixelLimit)
    BY <1>1 DEF PaceInv
  <2>2. 2 * PixelLimit \in Nat \ {0}
    BY ScoringAssumption
  <2>3. (rounds * (2 * PixelLimit) + 0) % (2 * PixelLimit) = 0
    <3> DEFINE m == 2 * PixelLimit
    <3>1. m \in Nat \ {0} /\ 0 \in 0..(m - 1)
      BY <2>2
    <3> HIDE DEF m
    <3>2. (rounds * m + 0) % m = 0
      BY <3>1, DivUnique
    <3> QED
      BY <3>2 DEF m
  <2>4. rounds * (2 * PixelLimit) + 0 = rounds * (2 * PixelLimit)
    BY <2>2
  <2> QED
    BY <1>1, <2>1, <2>3, <2>4, ScoringAssumption
      DEF PaceInv, ScrollAgrees, IInv, ScoreInv, RunLength
<1> QED
  BY <1>1, Invariance, PaceInvariance, PTL

-----------------------------------------------------------------------------
\* The obstacle collection never fills.

\* Obstacles between their place of entry and the left edge.
Entered  == {o \in Obstacle : o.x <= ScreenWidth}
OnScreen == {o \in Entered : ~IsOffScreen(o)}

\* Movement leaves obstacles that have entered and are still on the screen.
LEMMA MovementStaysOnScreen ==
  ASSUME IInv, obstacles \in Seq(OnScreen)
  PROVE  MovedObstacles \in Seq(OnScreen) /\ Spaced(MovedObstacles, MinGap)
<1> DEFINE moved == UpdateAll(obstacles, Speed)
<1>1. /\ Speed \in Nat /\ ScreenWidth \in Nat /\ MinGap \in Int
      /\ obstacles \in Seq(Obstacle) /\ Spaced(obstacles, MinGap)
  <2>1. score.current \in Nat
    BY DEF IInv, ScoreInv, Scores
  <2>2. CalculateSpeed(score.current) \in BaseSpeed..MaxSpeed
    BY <2>1, SpeedBounds
  <2>3. Speed \in Nat
    BY <2>2, ScoringAssumption DEF Speed
  <2>4. ScreenWidth \in Nat /\ MinGap \in Int
    BY FrameAssumption
  <2>5. obstacles \in Seq(Obstacle) /\ Spaced(obstacles, MinGap)
    BY DEF IInv, WorldInv
  <2> QED
    BY <2>3, <2>4, <2>5
<1>2. /\ moved \in Seq(Obstacle) /\ Len(moved) = Len(obstacles)
      /\ Spaced(moved, MinGap)
  BY <1>1, UpdateKeepsSpacing
<1>3. /\ DOMAIN obstacles = 1..Len(obstacles) /\ DOMAIN moved = 1..Len(moved)
      /\ Len(moved) \in Nat
      /\ \A i \in 1..Len(moved) : moved[i] \in Obstacle
  BY <1>1, <1>2, LenProperties, ElementOfSeq
<1>4. ASSUME NEW i \in 1..Len(moved) PROVE moved[i] \in Entered
  <2>1. moved[i] = [obstacles[i] EXCEPT !.x = obstacles[i].x - Speed]
    BY <1>2, <1>3 DEF UpdateAll
  <2>2. obstacles[i] \in OnScreen
    BY <1>2, <1>3, ElementOfSeq
  <2>3. obstacles[i] \in Obstacle /\ obstacles[i].x <= ScreenWidth /\ obstacles[i].x \in Int
    BY <2>2 DEF OnScreen, Entered, Obstacle
  <2>4. moved[i].x = obstacles[i].x - Speed
    BY <2>1, <2>3 DEF Obstacle
  <2> QED
    BY <1>1, <1>3, <2>3, <2>4 DEF Entered
<1>5. moved \in Seq(Entered)
  <2>1. moved \in [1..Len(moved) -> Entered]
    BY <1>2, <1>3, <1>4, LenProperties
  <2> QED
    BY <1>3, <2>1
<1> HIDE DEF moved
<1>6. \A o \in Entered : o.x \in Int
  BY DEF Entered, Obstacle
<1>7. /\ PruneOffScreen(moved) \in Seq(Entered)
      /\ Spaced(PruneOffScreen(moved), MinGap)
      /\ \A e \in DOMAIN PruneOffScreen(moved) : ~IsOffScreen(PruneOffScreen(moved)[e])
  BY <1>1, <1>2, <1>5, <1>6, PruneKeepsSpacing
<1> DEFINE kept == PruneOffScreen(moved)
<1>8. /\ DOMAIN kept = 1..Len(kept) /\ Len(kept) \in Nat
      /\ kept \in [1..Len(kept) -> Entered]
  BY <1>7, LenProperties
<1> HIDE DEF kept
<1>9. kept \in [1..Len(kept) -> OnScreen]
  BY <1>7, <1>8 DEF OnScreen, kept
<1>10. kept \in Seq(OnScreen)
  BY <1>8, <1>9
<1> QED
  BY <1>7, <1>10 DEF MovedObstacles, moved, kept

\* Of n obstacles with gaps between them the last is n - 1 gaps to the right
\* of the first, which is on the screen.
LEMMA GapsAddUp ==
  ASSUME NEW obs \in Seq(OnScreen), Spaced(obs, MinGap), NEW n \in 1..Len(obs)
  PROVE  (n - 1) * MinGap <= obs[n].x - obs[1].x
<1>1. /\ Len(obs) \in Nat /\ DOMAIN obs = 1..Len(obs)
      /\ \A i \in 1..Len(obs) : obs[i].x \in Int
  <2>1. \A i \in 1..Len(obs) : obs[i] \in OnScreen
    BY ElementOfSeq
  <2> QED
    BY <2>1, LenProperties DEF OnScreen, Entered, Obstacle
<1>2. MinGap \in Nat
  BY FrameAssumption
<1> DEFINE Far(i) == (i - 1) * MinGap <= obs[i].x - obs[1].x
           Bad    == {i \in 1..Len(obs) : ~Far(i)}
<1> SUFFICES ASSUME Bad # {} PROVE FALSE
  OBVIOUS
<1>3. PICK m \in Bad : \A k \in Bad : m <= k
  <2>1. Bad \in SUBSET Nat
    BY <1>1
  <2> HIDE DEF Bad
  <2> QED
    BY <2>1, LeastNumber
<1>4. m \in 1..Len(obs) /\ ~Far(m)
  BY <1>3
<1>5. m # 1
  BY <1>1, <1>2, <1>4
<1>6. Far(m - 1)
  BY <1>1, <1>3, <1>4, <1>5
<1>7. obs[m].x - obs[m - 1].x >= MinGap
  <2>1. m - 1 \in DOMAIN obs /\ m \in DOMAIN obs /\ m - 1 < m
    BY <1>1, <1>4, <1>5
  <2> QED
    BY <2>1 DEF Spaced
<1>8. m - 1 \in 1..Len(obs) /\ 1 \in 1..Len(obs) /\ m \in Nat
  BY <1>1, <1>4, <1>5
<1>9. obs[m].x \in Int /\ obs[m - 1].x \in Int /\ obs[1].x \in Int
  BY <1>1, <1>4, <1>8
<1>10. (m - 1) * MinGap = (m - 1 - 1) * MinGap + MinGap
  BY <1>2, <1>8
<1>11. (m - 1 - 1) * MinGap \in Int
  BY <1>2, <1>8
<1> DEFINE here  == obs[m].x
           left  == obs[m - 1].x
           first == obs[1].x
           gaps  == (m - 1 - 1) * MinGap
<1>12. gaps <= left - first /\ here - left >= MinGap /\ ~(gaps + MinGap <= here - first)
  BY <1>4, <1>6, <1>7, <1>10
<1>13. here \in Int /\ left \in Int /\ first \in Int /\ gaps \in Int
  BY <1>9, <1>11
<1> HIDE DEF here, left, first, gaps
<1> QED
  BY ONLY <1>2, <1>12, <1>13

\* So there is always a place left.
LEMMA RoomLeft ==
  ASSUME NEW obs \in Seq(OnScreen), Spaced(obs, MinGap)
  PROVE  Len(obs) < ObstacleCapacity
<1> DEFINE n == Len(obs)
<1>1. n \in Nat /\ MinGap \in Nat /\ ScreenWidth \in Nat /\ ObstacleCapacity \in Nat
  BY FrameAssumption, CollectionsAssumption
<1>2. MinGap # 0 /\ ObstacleCapacity # 0
  <2>1. "SmallCactus" \in ObstacleKinds
    BY DEF ObstacleKinds, GroundKinds
  <2>2. PICK w \in Nat : ScreenWidth + w < (ObstacleCapacity - 1) * MinGap
    BY <2>1, LayoutAssumption, CollectionsAssumption DEF Kinds
  <2>3. MinGap = 0 => (ObstacleCapacity - 1) * MinGap = 0
    BY <1>1
  <2>4. ObstacleCapacity = 0 => (ObstacleCapacity - 1) * MinGap = -MinGap
    BY <1>1
  <2> QED
    BY <1>1, <2>2, <2>3, <2>4
<1>3. CASE n = 0
  BY <1>1, <1>2, <1>3
<1>4. CASE n # 0
  <2>1. obs[1] \in OnScreen /\ obs[n] \in OnScreen /\ n \in 1..n
    BY <1>1, <1>4, ElementOfSeq
  <2> DEFINE w == Sprite[obs[1].kind].w
  <2>2. /\ obs[1].x \in Int /\ obs[n].x \in Int /\ obs[n].x <= ScreenWidth
        /\ obs[1].kind \in ObstacleKinds
        /\ obs[1].x + w >= 0
        /\ w \in Nat
    <3>1. obs[1].kind \in ObstacleKinds /\ obs[1].x \in Int
      BY <2>1 DEF OnScreen, Entered, Obstacle
    <3>2. w \in Nat
      BY <3>1, CollectionsAssumption DEF Kinds
    <3> QED
      BY <2>1, <3>1, <3>2 DEF OnScreen, Entered, Obstacle, IsOffScreen, RightEdge
  <2>3. (n - 1) * MinGap <= obs[n].x - obs[1].x
    BY <2>1, GapsAddUp
  <2>4. ScreenWidth + w < (ObstacleCapacity - 1) * MinGap
    BY <2>2, LayoutAssumption
  <2> DEFINE first == obs[1].x
             last  == obs[n].x
  <2> HIDE DEF n, w, first, last
  <2>5. (n - 1) * MinGap \in Int /\ (ObstacleCapacity - 1) * MinGap \in Int
    BY <1>1
  <2>6. (n - 1) * MinGap < (ObstacleCapacity - 1) * MinGap
    <3>1. /\ first \in Int /\ last \in Int /\ last <= ScreenWidth /\ first + w >= 0
          /\ (n - 1) * MinGap <= last - first
      BY <2>2, <2>3 DEF first, last
    <3> DEFINE a == (n - 1) * MinGap
               b == (ObstacleCapacity - 1) * MinGap
    <3>2. a \in Int /\ b \in Int /\ ScreenWidth \in Int /\ w \in Int
      BY <1>1, <2>2, <2>5
    <3>3. ScreenWidth + w < b /\ a <= last - first
      BY <2>4, <3>1
    <3> HIDE DEF a, b
    <3>4. a < b
      BY ONLY <3>1, <3>2, <3>3
    <3> QED
      BY <3>4 DEF a, b
  <2>7. ASSUME n >= ObstacleCapacity PROVE FALSE
    <3>1. PICK k \in Nat : n = ObstacleCapacity + k
      <4>1. n - ObstacleCapacity \in Nat /\ n = ObstacleCapacity + (n - ObstacleCapacity)
        BY <1>1, <2>7
      <4> QED
        BY <4>1
    <3>2. (n - 1) * MinGap = (ObstacleCapacity - 1) * MinGap + k * MinGap
      BY <1>1, <3>1
    <3>3. k * MinGap \in Nat
      BY <1>1
    <3> QED
      BY <2>5, <2>6, <3>2, <3>3
  <2> QED
    BY <1>1, <2>7 DEF n
<1> QED
  BY <1>3, <1>4

\* What a frame may add enters at the right edge.
LEMMA SpawnStaysOnScreen ==
  ASSUME NEW obs \in Seq(OnScreen), NEW kind \in ObstacleKinds
  PROVE  Add(obs, [kind |-> kind, x |-> ScreenWidth], ObstacleCapacity) \in Seq(OnScreen)
<1> DEFINE item == [kind |-> kind, x |-> ScreenWidth]
<1>1. ScreenWidth \in Nat /\ Sprite[kind].w \in Nat
  BY FrameAssumption, CollectionsAssumption DEF Kinds
<1>2. item \in OnScreen
  BY <1>1 DEF OnScreen, Entered, Obstacle, IsOffScreen, RightEdge
<1>3. Append(obs, item) \in Seq(OnScreen)
  BY <1>2, AppendProperties
<1> QED
  BY <1>3 DEF Add

OnScreenInv == obstacles \in Seq(OnScreen)

LEMMA OnScreenInvariance == Spec => []OnScreenInv
<1>1. Init => OnScreenInv
  BY EmptySeq DEF Init, OnScreenInv
<1>2. ASSUME IInv, OnScreenInv, [Next]_vars PROVE OnScreenInv'
  <2> USE DEF OnScreenInv
  <2>1. MovedObstacles \in Seq(OnScreen)
    BY <1>2, MovementStaysOnScreen
  <2>2. ASSUME NEW input \in Inputs, PlayFrame(input) PROVE OnScreenInv'
    <3>1. \/ obstacles' = MovedObstacles
          \/ \E kind \in ObstacleKinds :
               obstacles' = Add(MovedObstacles, [kind |-> kind, x |-> ScreenWidth],
                                ObstacleCapacity)
      BY <2>2 DEF PlayFrame, SpawnObstacle, Selectable, ObstacleKinds
    <3> QED
      BY <2>1, <3>1, SpawnStaysOnScreen
  <2>3. ASSUME NEW input \in Inputs, CrashFrame(input) PROVE OnScreenInv'
    BY <2>1, <2>3 DEF CrashFrame
  <2>4. ASSUME NEW input \in Inputs, Restart(input) PROVE OnScreenInv'
    BY <2>4, EmptySeq DEF Restart
  <2>5. ASSUME NEW input \in Inputs, StayOver(input) PROVE OnScreenInv'
    BY <1>2, <2>5 DEF StayOver, vars
  <2>6. CASE UNCHANGED vars
    BY <1>2, <2>6 DEF vars
  <2> QED
    BY <1>2, <2>2, <2>3, <2>4, <2>5, <2>6 DEF Next, Step
<1> QED
  BY <1>1, <1>2, Invariance, PTL DEF Spec

\* The spawner's is_full return and add's silent drop are dead code, at any
\* speed and for any gaps: the gaps alone keep the collection from filling
\* (obstacle_spawner.cpp:36-41, obstacle_collection.cpp:14-20).
THEOREM CollectionNeverFull == Spec => []NeverFull
<1>1. IInv /\ OnScreenInv => NeverFull
  BY RoomLeft DEF OnScreenInv, IInv, WorldInv, NeverFull
<1> QED
  BY <1>1, Invariance, OnScreenInvariance, PTL

-----------------------------------------------------------------------------
\* Collisions.

\* Where the hitboxes are, none of them empty (player.cpp:22-45,
\* obstacle.cpp:23-26).
LEMMA PlayerHitboxIs ==
  ASSUME NEW p \in Players
  PROVE  /\ PlayerHitbox(p).x = PlayerX + HitboxInset
         /\ Right(PlayerHitbox(p)) = PlayerX + PlayerSize(p).w - HitboxInset
<1>1. /\ PlayerSize(p) \in {StandSize, DuckSize} /\ PlayerSize(p) \in Size
      /\ p.y \in Int
  BY PlayerAssumption DEF PlayerSize, Players
<1> DEFINE s == PlayerSize(p)
<1>2. /\ s.w \in Nat /\ s.h \in Nat /\ PlayerX \in Nat /\ HitboxInset \in Nat
      /\ s.w > 2 * HitboxInset /\ s.h > 2 * HitboxInset
  BY <1>1, LayoutAssumption, PlayerAssumption DEF Size
<1> HIDE DEF s
<1>3. PlayerBox(p) = [x |-> PlayerX, y |-> p.y - s.h, w |-> s.w, h |-> s.h]
  BY DEF PlayerBox, s
<1>4. PlayerHitbox(p) = [x |-> PlayerX + HitboxInset, y |-> p.y - s.h + HitboxInset,
                         w |-> s.w - 2 * HitboxInset, h |-> s.h - 2 * HitboxInset]
  BY <1>1, <1>2, <1>3 DEF PlayerHitbox, Inset, IsEmpty
<1> QED
  BY <1>1, <1>2, <1>4 DEF Right, s

LEMMA ObstacleHitboxIs ==
  ASSUME NEW o \in Obstacle
  PROVE  /\ ObstacleHitbox(o, HitboxInset).x = o.x + HitboxInset
         /\ Right(ObstacleHitbox(o, HitboxInset)) = o.x + Sprite[o.kind].w - HitboxInset
<1>1. o.kind \in ObstacleKinds /\ o.x \in Int
  BY DEF Obstacle
<1> DEFINE s == Sprite[o.kind]
<1>2. /\ s.w \in Nat /\ s.h \in Nat /\ s.y \in Int /\ HitboxInset \in Nat
      /\ s.w > 2 * HitboxInset /\ s.h > 2 * HitboxInset
  BY <1>1, LayoutAssumption, CollectionsAssumption, PlayerAssumption DEF Kinds
<1>3. ObstacleHitbox(o, HitboxInset) =
        Inset([x |-> o.x, y |-> s.y, w |-> s.w, h |-> s.h], HitboxInset)
  BY DEF ObstacleHitbox
<1> HIDE DEF s
<1>4. ObstacleHitbox(o, HitboxInset) =
        [x |-> o.x + HitboxInset, y |-> s.y + HitboxInset,
         w |-> s.w - 2 * HitboxInset, h |-> s.h - 2 * HitboxInset]
  BY <1>1, <1>2, <1>3 DEF Inset, IsEmpty
<1> QED
  BY <1>1, <1>2, <1>4 DEF Right, s

\* An obstacle that enters touches no player.
LEMMA EntersClear ==
  ASSUME NEW p \in Players, NEW o \in Obstacle, o.x = ScreenWidth
  PROVE  ~Intersects(PlayerHitbox(p), ObstacleHitbox(o, HitboxInset))
<1>1. PlayerSize(p) \in {StandSize, DuckSize} /\ PlayerSize(p) \in Size
  BY PlayerAssumption DEF PlayerSize
<1> DEFINE w == PlayerSize(p).w
<1>2. /\ w \in Nat /\ PlayerX \in Nat /\ HitboxInset \in Nat /\ ScreenWidth \in Nat
      /\ PlayerX + w <= ScreenWidth
  BY <1>1, LayoutAssumption, PlayerAssumption, FrameAssumption DEF Size
<1>3. /\ Right(PlayerHitbox(p)) = PlayerX + w - HitboxInset
      /\ ObstacleHitbox(o, HitboxInset).x = ScreenWidth + HitboxInset
  BY PlayerHitboxIs, ObstacleHitboxIs
<1> HIDE DEF w
<1>4. ~(Right(PlayerHitbox(p)) > ObstacleHitbox(o, HitboxInset).x)
  BY <1>2, <1>3
<1> QED
  BY <1>4 DEF Intersects

\* The frame is checked for collisions before the spawner runs, but what the
\* spawner adds is clear of the player: a run goes on only from a picture
\* without a collision (game_engine.cpp:66-80).
THEOREM SurvivorsClear == Spec => []SurvivorsAreClear
<1>1. Init => SurvivorsAreClear
  BY DEF Init, SurvivorsAreClear, HasCollision
<1>2. ASSUME IInv, SurvivorsAreClear, [Next]_vars PROVE SurvivorsAreClear'
  <2>1. ASSUME NEW input \in Inputs, PlayFrame(input) PROVE SurvivorsAreClear'
    <3> SUFFICES ASSUME ~godmode PROVE ~HasCollision(player', obstacles')
      BY <2>1 DEF PlayFrame, SurvivorsAreClear
    <3>1. /\ player' = MovedPlayer(input) /\ player' \in Players
          /\ ~HasCollision(player', MovedObstacles)
      BY <1>2, <2>1, MovedPlayerRestsOrFlies DEF PlayFrame, Collides, IInv
    <3>2. MovedObstacles \in Seq(Obstacle)
      BY <1>2, MovementKeepsSpacing DEF IInv, ScoreInv, Scores
    <3>3. \/ obstacles' = MovedObstacles
          \/ \E kind \in ObstacleKinds :
               obstacles' = Append(MovedObstacles, [kind |-> kind, x |-> ScreenWidth])
      BY <2>1 DEF PlayFrame, SpawnObstacle, Selectable, ObstacleKinds, Add
    <3>4. ASSUME NEW kind \in ObstacleKinds,
                 obstacles' = Append(MovedObstacles, [kind |-> kind, x |-> ScreenWidth])
          PROVE  ~HasCollision(player', obstacles')
      <4> DEFINE item == [kind |-> kind, x |-> ScreenWidth]
                 obs  == MovedObstacles
                 n    == Len(obs)
      <4>1. item \in Obstacle /\ item.x = ScreenWidth
        BY FrameAssumption DEF Obstacle
      <4> HIDE DEF item, obs
      <4>2. /\ n \in Nat /\ DOMAIN obs = 1..n
            /\ Append(obs, item) \in Seq(Obstacle) /\ Len(Append(obs, item)) = n + 1
            /\ \A i \in 1..n : Append(obs, item)[i] = obs[i]
            /\ Append(obs, item)[n + 1] = item
        BY <3>2, <4>1, AppendProperties, LenProperties DEF obs
      <4>3. DOMAIN obstacles' = 1..(n + 1) /\ obstacles' = Append(obs, item)
        BY <3>4, <4>2, LenProperties DEF obs, item
      <4>4. ASSUME NEW i \in 1..(n + 1)
            PROVE  ~Intersects(PlayerHitbox(player'),
                               ObstacleHitbox(obstacles'[i], HitboxInset))
        <5>1. CASE i = n + 1
          <6>1. obstacles'[i] = item
            BY <4>2, <4>3, <5>1
          <6> QED
            BY <3>1, <4>1, <6>1, EntersClear
        <5>2. CASE i \in 1..n
          <6>1. obstacles'[i] = obs[i] /\ i \in DOMAIN obs
            BY <4>2, <4>3, <5>2
          <6>2. ~HasCollision(player', obs)
            BY <3>1 DEF obs
          <6> QED
            BY <6>1, <6>2 DEF HasCollision
        <5> QED
          BY <4>2, <5>1, <5>2
      <4> QED
        BY <4>3, <4>4 DEF HasCollision
    <3> QED
      BY <3>1, <3>3, <3>4
  <2>2. ASSUME NEW input \in Inputs, CrashFrame(input) PROVE SurvivorsAreClear'
    BY <2>2 DEF CrashFrame, SurvivorsAreClear
  <2>3. ASSUME NEW input \in Inputs, Restart(input) PROVE SurvivorsAreClear'
    BY <2>3 DEF Restart, SurvivorsAreClear, HasCollision
  <2>4. ASSUME NEW input \in Inputs, StayOver(input) PROVE UNCHANGED vars
    BY <2>4 DEF StayOver
  <2>5. CASE UNCHANGED vars
    BY <1>2, <2>5 DEF vars, SurvivorsAreClear
  <2> QED
    BY <1>2, <2>1, <2>2, <2>3, <2>4, <2>5 DEF Next, Step
<1> QED
  BY <1>1, <1>2, Invariance, PTL DEF Spec

\* The comparisons of edges find an overlap exactly when some pixel lies in
\* both boxes: boxes that only touch do not intersect (geometry.cpp).
LEMMA IntersectsIsContact ==
  ASSUME NEW a \in Box, NEW b \in Box
  PROVE  Intersects(a, b) <=> \E x \in Int, y \in Int : HasPixel(a, x, y) /\ HasPixel(b, x, y)
<1> DEFINE x == Greater(a.x, b.x)
           y == Greater(a.y, b.y)
<1>1. ASSUME Intersects(a, b)
      PROVE  x \in Int /\ y \in Int /\ HasPixel(a, x, y) /\ HasPixel(b, x, y)
  BY <1>1 DEF Box, Intersects, IsEmpty, HasPixel, Right, Bottom, Greater
<1>2. ASSUME NEW u \in Int, NEW v \in Int, HasPixel(a, u, v), HasPixel(b, u, v)
      PROVE  Intersects(a, b)
  BY <1>2 DEF Box, Intersects, IsEmpty, HasPixel, Right, Bottom
<1> QED
  BY <1>1, <1>2

LEMMA InsetIsBox ==
  ASSUME NEW b \in Box, NEW margin \in Nat PROVE Inset(b, margin) \in Box
BY DEF Inset, Box, EmptyBox

LEMMA PlayerHitboxIsBox ==
  ASSUME NEW p \in Players PROVE PlayerHitbox(p) \in Box
<1>1. PlayerSize(p) \in Size /\ p.y \in Int
  BY PlayerAssumption DEF PlayerSize, Players
<1>2. PlayerBox(p) \in Box
  BY <1>1, PlayerAssumption DEF PlayerBox, Size, Box
<1> QED
  BY <1>2, PlayerAssumption, InsetIsBox DEF PlayerHitbox

LEMMA ObstacleHitboxIsBox ==
  ASSUME NEW o \in Obstacle PROVE ObstacleHitbox(o, HitboxInset) \in Box
<1>1. o.x \in Int /\ Sprite[o.kind] \in [w : Nat, h : Nat, y : Int]
  BY CollectionsAssumption DEF Obstacle, Kinds
<1>2. [x |-> o.x, y |-> Sprite[o.kind].y, w |-> Sprite[o.kind].w, h |-> Sprite[o.kind].h] \in Box
  BY <1>1 DEF Box
<1> QED
  BY <1>2, PlayerAssumption, InsetIsBox DEF ObstacleHitbox

\* While a run lasts, and without godmode, no pixel lies in the player's
\* hitbox and an obstacle's: what SurvivorsAreClear says by the code's test of
\* edges, said by pixels (collision_detector.cpp, geometry.cpp).
NoContact ==
  ~gameOver /\ ~godmode =>
    \A i \in DOMAIN obstacles, x \in Int, y \in Int :
      ~ (/\ HasPixel(PlayerHitbox(player), x, y)
         /\ HasPixel(ObstacleHitbox(obstacles[i], HitboxInset), x, y))

THEOREM SurvivorsTouchNothing == Spec => []NoContact
<1>1. ASSUME IInv, SurvivorsAreClear PROVE NoContact
  <2> SUFFICES ASSUME ~gameOver, ~godmode, NEW i \in DOMAIN obstacles
               PROVE  \A x \in Int, y \in Int :
                        ~ (/\ HasPixel(PlayerHitbox(player), x, y)
                           /\ HasPixel(ObstacleHitbox(obstacles[i], HitboxInset), x, y))
    BY DEF NoContact
  <2>1. ~Intersects(PlayerHitbox(player), ObstacleHitbox(obstacles[i], HitboxInset))
    BY <1>1 DEF SurvivorsAreClear, HasCollision
  <2>2. player \in Players
    BY <1>1 DEF IInv, PlayerInv
  <2>3. obstacles[i] \in Obstacle
    BY <1>1, LenProperties, ElementOfSeq DEF IInv, WorldInv
  <2> QED
    BY <2>1, <2>2, <2>3, PlayerHitboxIsBox, ObstacleHitboxIsBox, IntersectsIsContact
<1> QED
  BY <1>1, Invariance, SurvivorsClear, PTL

\* From one frame to the next no obstacle jumps over the player, whatever
\* the speed has become and whatever the player does: the two hitboxes
\* share a column in some frame, where the collision test sees them
\* (game_engine.cpp:22-44, game_rules.cpp:7-11).
THEOREM NoneTunnels == Spec => NoTunnelling
<1> DEFINE Seen == ~gameOver =>
             \A i \in DOMAIN obstacles :
               Ahead(obstacles[i], player) =>
                 ~Behind([obstacles[i] EXCEPT !.x = @ - Speed], player')
<1>1. ASSUME IInv, IInv' PROVE Seen
  <2> SUFFICES ASSUME NEW i \in DOMAIN obstacles, Ahead(obstacles[i], player)
               PROVE  ~Behind([obstacles[i] EXCEPT !.x = @ - Speed], player')
    OBVIOUS
  <2> DEFINE o     == obstacles[i]
             moved == [o EXCEPT !.x = o.x - Speed]
             v     == Speed
  <2>1. /\ player \in Players /\ player' \in Players
        /\ o \in Obstacle /\ v \in 0..MaxSpeed /\ MaxSpeed \in Nat
    <3>1. score.current \in Nat
      BY <1>1 DEF IInv, ScoreInv, Scores
    <3>2. v \in 0..MaxSpeed /\ MaxSpeed \in Nat
      BY <3>1, SpeedBounds, ScoringAssumption DEF Speed
    <3>3. o \in Obstacle
      BY <1>1, ElementOfSeq, LenProperties DEF IInv, WorldInv
    <3> QED
      BY <1>1, <3>2, <3>3 DEF IInv, PlayerInv
  <2>2. /\ moved \in Obstacle /\ moved.kind = o.kind /\ moved.x = o.x - v
        /\ o.x \in Int /\ o.kind \in ObstacleKinds
    BY <2>1 DEF Obstacle
  <2> DEFINE w == PlayerSize(player).w
             s == Sprite[o.kind].w
  <2>3. /\ w \in Nat /\ s \in Nat /\ HitboxInset \in Nat /\ PlayerX \in Nat
        /\ MaxSpeed + 4 * HitboxInset < w + s
    <3>1. PlayerSize(player) \in {StandSize, DuckSize} /\ PlayerSize(player) \in Size
      BY PlayerAssumption DEF PlayerSize
    <3> QED
      BY <2>2, <3>1, LayoutAssumption, PlayerAssumption, CollectionsAssumption DEF Size, Kinds
  <2>4. o.x + HitboxInset >= PlayerX + w - HitboxInset
    <3>1. ObstacleHitbox(o, HitboxInset).x >= Right(PlayerHitbox(player))
      BY DEF Ahead
    <3> QED
      BY <2>1, <3>1, PlayerHitboxIs, ObstacleHitboxIs
  <2>5. /\ Right(ObstacleHitbox(moved, HitboxInset)) = o.x - v + s - HitboxInset
        /\ PlayerHitbox(player').x = PlayerX + HitboxInset
    BY <2>1, <2>2, PlayerHitboxIs, ObstacleHitboxIs
  <2> DEFINE x == o.x
  <2>6. x \in Int /\ x + HitboxInset >= PlayerX + w - HitboxInset
    BY <2>2, <2>4
  <2>7. ~(x - v + s - HitboxInset <= PlayerX + HitboxInset)
    <3> HIDE DEF x, w, s, v
    <3> QED
      BY ONLY <2>1, <2>3, <2>6
  <2> QED
    BY <2>5, <2>7 DEF Behind
<1> HIDE DEF Seen
<1>2. Spec => [][Seen]_vars
  BY <1>1, Invariance, PTL DEF Spec
<1> QED
  BY <1>2 DEF NoTunnelling, Seen

-----------------------------------------------------------------------------
\* The engine and the course (module Survival).  The course is an instance
\* of the same operators, so first that they are the same.

\* The stages of a frame, in the course and in the engine.
LEMMA SameMovement ==
  ASSUME NEW items, NEW speed
  PROVE  /\ Run!UpdateAll(items, speed) = UpdateAll(items, speed)
         /\ Run!PruneOffScreen(items) = PruneOffScreen(items)
<1>1. Run!UpdateAll(items, speed) = UpdateAll(items, speed)
  BY DEF Run!UpdateAll, UpdateAll
<1>2. Run!PruneOffScreen(items) = PruneOffScreen(items)
  BY Zenon DEF Run!PruneOffScreen, PruneOffScreen, Run!IsOffScreen, IsOffScreen,
    Run!RightEdge, RightEdge
<1> QED
  BY <1>1, <1>2

LEMMA SameCollisions ==
  ASSUME NEW p, NEW obs
  PROVE  Run!HasCollision(p, obs) = HasCollision(p, obs)
BY Zenon DEF Run!HasCollision, HasCollision, Run!Intersects, Intersects,
  Run!PlayerHitbox, PlayerHitbox, Run!ObstacleHitbox, ObstacleHitbox,
  Run!Inset, Inset, Run!PlayerBox, PlayerBox, Run!PlayerSize, PlayerSize,
  Run!IsEmpty, IsEmpty, Run!Right, Right, Run!Bottom, Bottom, Run!EmptyBox, EmptyBox

LEMMA SamePlacing ==
  ASSUME NEW obs, NEW gap, NEW item, NEW points
  PROVE  /\ Run!RoomForObstacle(obs, gap) = RoomForObstacle(obs, gap)
         /\ Run!Add(obs, item, ObstacleCapacity) = Add(obs, item, ObstacleCapacity)
         /\ Run!Selectable(points) = Selectable(points)
<1>1. Run!RoomForObstacle(obs, gap) = RoomForObstacle(obs, gap)
  BY Zenon DEF Run!RoomForObstacle, RoomForObstacle, Run!IsFull, IsFull
<1>2. Run!Add(obs, item, ObstacleCapacity) = Add(obs, item, ObstacleCapacity)
  BY Zenon DEF Run!Add, Add, Run!IsFull, IsFull
<1>3. Run!Selectable(points) = Selectable(points)
  BY Zenon DEF Run!Selectable, Selectable, Run!GroundKinds, GroundKinds,
    Run!FlyingKinds, FlyingKinds, Run!ObstacleKinds, ObstacleKinds
<1> QED
  BY <1>1, <1>2, <1>3

LEMMA SameMotion ==
  ASSUME NEW p, NEW command
  PROVE  /\ Run!ApplyInput(p, command) = ApplyInput(p, command)
         /\ Run!UpdatePlayer(p) = UpdatePlayer(p)
         /\ Run!NewPlayer = NewPlayer
<1>1. Run!ApplyInput(p, command) = ApplyInput(p, command)
  BY Zenon DEF Run!ApplyInput, ApplyInput, Run!Jump, Jump, Run!Duck, Duck,
    Run!Stand, Stand, Run!Obeys, Obeys, Run!IsOnGround, IsOnGround
<1>2. Run!UpdatePlayer(p) = UpdatePlayer(p)
  BY Zenon DEF Run!UpdatePlayer, UpdatePlayer, Run!Fallen, Fallen,
    Run!IsOnGround, IsOnGround
<1>3. Run!NewPlayer = NewPlayer
  BY Zenon DEF Run!NewPlayer, NewPlayer
<1> QED
  BY <1>1, <1>2, <1>3

LEMMA SamePace ==
  ASSUME NEW points
  PROVE  Run!CalculateSpeed(points) = CalculateSpeed(points)
BY Zenon DEF Run!CalculateSpeed, CalculateSpeed

\* A score and its last full step are of the same quotient.
LEMMA FullStep ==
  ASSUME NEW d \in Nat \ {0}, NEW a \in Nat
  PROVE  /\ d * (a \div d) \in Nat /\ d * (a \div d) <= a
         /\ (d * (a \div d)) \div d = a \div d
         /\ (d * (a \div d)) % d = 0
<1> DEFINE q == a \div d
           r == a % d
<1>1. q \in Nat /\ r \in 0..(d - 1) /\ q * d + r = a
  BY DivMod
<1>2. d * q = q * d + 0 /\ 0 \in 0..(d - 1)
  BY <1>1
<1> HIDE DEF q, r
<1>3. (q * d + 0) \div d = q /\ (q * d + 0) % d = 0
  BY ONLY <1>1, <1>2, DivUnique, d \in Nat \ {0}
<1>4. d * q \in Nat /\ d * q <= a
  BY <1>1
<1> QED
  BY <1>2, <1>3, <1>4 DEF q

\* Between two full steps no multiple of a step is passed.
LEMMA SameSide ==
  ASSUME NEW d \in Nat \ {0}, NEW a \in Nat, NEW m \in Nat, m % d = 0
  PROVE  d * (a \div d) < m <=> a < m
<1> DEFINE q == a \div d
           r == a % d
           k == m \div d
<1>1. q \in Nat /\ r \in 0..(d - 1) /\ q * d + r = a
  BY DivMod
<1>2. k \in Nat /\ k * d = m
  BY DivMod
<1> HIDE DEF q, r, k
<1>3. d * q <= a
  BY <1>1
<1>4. ASSUME d * q < m PROVE a < m
  <2>1. q + 1 <= k
    <3> SUFFICES ASSUME k <= q PROVE FALSE
      BY <1>1, <1>2
    <3>1. k * d <= q * d
      <4>1. PICK j \in Nat : q = k + j
        <5>1. q - k \in Nat /\ q = k + (q - k)
          BY <1>1, <1>2
        <5> QED
          BY <5>1
      <4>2. q * d = k * d + j * d /\ j * d \in Nat
        BY <4>1, <1>2
      <4> QED
        BY <1>2, <4>2
    <3> QED
      BY <1>1, <1>2, <1>4, <3>1
  <2>2. PICK j \in Nat : k = q + 1 + j
    <3>1. k - q - 1 \in Nat /\ k = q + 1 + (k - q - 1)
      BY <1>1, <1>2, <2>1
    <3> QED
      BY <3>1
  <2>3. k * d = q * d + d + j * d /\ j * d \in Nat
    BY <1>1, <2>2
  <2> QED
    BY <1>1, <1>2, <2>3
<1>5. ASSUME a < m PROVE d * q < m
  BY <1>1, <1>3, <1>5
<1> QED
  BY <1>4, <1>5 DEF q

\* At the last full step of the score a frame has the score's speed and the
\* score's kinds (game_rules.cpp:7-11, obstacle_spawner.cpp:52-63).
LEMMA LevelDecides ==
  ASSUME IInv
  PROVE  /\ Level \in AllLevels
         /\ CalculateSpeed(Level) = Speed
         /\ Selectable(Level) = Selectable(score.current)
<1>1. score.current \in Nat /\ SpeedStepScore \in Nat \ {0}
      /\ PteroMinScore \in Nat /\ PteroMinScore % SpeedStepScore = 0
  BY ScoringAssumption, FrameAssumption, LevelAssumption DEF IInv, ScoreInv, Scores
<1>2. /\ Level \in Nat /\ Level \div SpeedStepScore = score.current \div SpeedStepScore
      /\ Level % SpeedStepScore = 0
  BY <1>1, FullStep DEF Level
<1>3. Level < PteroMinScore <=> score.current < PteroMinScore
  BY <1>1, SameSide DEF Level
<1>4. CalculateSpeed(Level) = Speed
  BY <1>2 DEF CalculateSpeed, Speed
<1>5. Selectable(Level) = Selectable(score.current)
  BY <1>3 DEF Selectable
<1> QED
  BY <1>2, <1>4, <1>5 DEF AllLevels

\* A frame reaches the next level or stays at this one.
LEMMA LevelReached ==
  ASSUME IInv, NEW input, PlayFrame(input)
  PROVE  Level' = Level \/ Level' = Level + SpeedStepScore
<1>1. /\ score.current \in Nat /\ SpeedStepScore \in Nat \ {0}
      /\ score'.current = score.current + Gain
  BY FrameGains, ScoringAssumption DEF PlayFrame
<1>2. Gain \in 0..SpeedStepScore
  <2>1. Gain \in 0..MaxGain
    BY FrameGains
  <2>2. MaxGain <= SpeedStepScore
    BY LevelAssumption DEF MaxGain
  <2>3. MaxGain \in Int
    BY ScoringAssumption DEF MaxGain
  <2> QED
    BY <1>1, <2>1, <2>2, <2>3
<1> DEFINE q == score.current \div SpeedStepScore
<1>3. (score.current + Gain) \div SpeedStepScore \in {q, q + 1}
  BY <1>1, <1>2, DivStep
<1>4. q \in Nat
  BY <1>1, DivMod
<1>5. Level = SpeedStepScore * q /\ Level' \in {SpeedStepScore * q, SpeedStepScore * (q + 1)}
  BY <1>1, <1>3 DEF Level
<1> HIDE DEF q
<1>6. SpeedStepScore * (q + 1) = SpeedStepScore * q + SpeedStepScore
  BY <1>1, <1>4
<1> QED
  BY <1>5, <1>6

\* A frame of play is a frame of the course (game_engine.cpp:66-80,
\* obstacle_spawner.cpp:10-50).
LEMMA FrameIsCourse ==
  ASSUME IInv, NEW input, PlayFrame(input), alive' = Run!Survivors(MovedObstacles)
  PROVE  Run!Next
<1> DEFINE moved == Run!PruneOffScreen(Run!UpdateAll(obstacles, Run!CalculateSpeed(Level)))
<1>1. moved = MovedObstacles
  BY LevelDecides, SameMovement, SamePace DEF MovedObstacles
<1>2. IF Run!RoomForObstacle(moved, nextGap)
      THEN \E kind \in Run!Selectable(Level), gap \in Gaps :
             /\ obstacles' = Run!Add(moved, [kind |-> kind, x |-> ScreenWidth],
                                     ObstacleCapacity)
             /\ nextGap' = gap
      ELSE obstacles' = moved /\ UNCHANGED nextGap
  <2>1. SpawnObstacle(MovedObstacles, score.current)
    BY DEF PlayFrame
  <2> HIDE DEF moved
  <2> QED
    BY <1>1, <2>1, LevelDecides, SamePlacing DEF SpawnObstacle
<1>3. Run!ReachLevel
  BY LevelReached, LevelDecides DEF Run!ReachLevel
<1>4. alive' = Run!Survivors(moved)
  BY <1>1
<1> QED
  BY <1>2, <1>3, <1>4 DEF Run!Next, Run!PlayFrame

\* A restart begins a course, and so does the first run.
LEMMA LevelZero == 0 \in AllLevels /\ SpeedStepScore * (0 \div SpeedStepScore) = 0
<1>1. 0 \div SpeedStepScore = 0 /\ 0 % SpeedStepScore = 0
  BY DivZero, ScoringAssumption
<1> QED
  BY <1>1, ScoringAssumption DEF AllLevels

LEMMA InitIsCourseInit == SurvivalInit => Run!Init
<1> SUFFICES ASSUME SurvivalInit PROVE Run!Init
  OBVIOUS
<1>1. score.current = 0
  BY DEF SurvivalInit, Init, SetHigh, NewScore
<1>2. Level \in AllLevels
  BY <1>1, LevelZero DEF Level
<1> QED
  BY <1>2, SameMotion DEF SurvivalInit, Init, Run!Init

LEMMA RestartIsCourseInit ==
  ASSUME NEW input, Restart(input), alive' = {NewPlayer}
  PROVE  Run!Init'
<1>1. score'.current = 0
  BY DEF Restart, ResetScore, NewScore
<1>2. Level' \in AllLevels
  BY <1>1, LevelZero DEF Level
<1> QED
  BY <1>2, SameMotion DEF Restart, Run!Init

-----------------------------------------------------------------------------
\* The player among the survivors.

\* The leg changes nothing: no command, no physics and no collision looks
\* at it.
Legless(p) == [p EXCEPT !.leg = 0]

LEMMA LeglessMoves ==
  ASSUME NEW p \in Players, NEW command
  PROVE  /\ Legless(p) \in Players
         /\ ApplyInput(Legless(p), command) = Legless(ApplyInput(p, command))
         /\ Legless(UpdatePlayer(Legless(p))) = Legless(UpdatePlayer(p))
<1>1. Legless(p) \in Players
  BY DEF Legless, Players
<1>2. /\ Jump(Legless(p)) = Legless(Jump(p))
      /\ Duck(Legless(p)) = Legless(Duck(p))
      /\ Stand(Legless(p)) = Legless(Stand(p))
  BY DEF Legless, Jump, Duck, Stand, Obeys, IsOnGround, Players
<1>3. Jump(p) \in Players
  <2>1. -JumpSpeed \in Int
    BY PlayerAssumption
  <2> QED
    BY <2>1 DEF Jump, Players, Poses
<1>4. /\ Duck(Legless(Jump(p))) = Legless(Duck(Jump(p)))
      /\ Stand(Legless(Jump(p))) = Legless(Stand(Jump(p)))
  BY <1>3 DEF Legless, Duck, Stand, Obeys, IsOnGround, Players
<1>5. ApplyInput(Legless(p), command) = Legless(ApplyInput(p, command))
  BY <1>2, <1>4 DEF ApplyInput
<1>6. Legless(UpdatePlayer(Legless(p))) = Legless(UpdatePlayer(p))
  <2> DEFINE left  == [Fallen(p) EXCEPT !.leg = 1 - p.leg]
             right == [Fallen(Legless(p)) EXCEPT !.leg = 1 - Legless(p).leg]
  <2>1. Fallen(p) \in Players /\ Fallen(p).pose = p.pose
    <3>1. /\ p.y + p.vy \in Int /\ p.vy + Gravity \in Int
          /\ GroundY \in Int /\ 0 \in Int
      BY PlayerAssumption DEF Players
    <3> QED
      BY <3>1 DEF Fallen, Players
  <2>2. Fallen(Legless(p)) = Legless(Fallen(p))
    BY DEF Fallen, Legless, Players
  <2>3. Legless(left) = Legless(right)
    BY <2>1, <2>2 DEF Legless, Players
  <2>4. /\ left.y = right.y /\ left.vy = right.vy /\ left.pose = right.pose
        /\ DOMAIN left = {"y", "vy", "pose", "leg"}
        /\ DOMAIN right = {"y", "vy", "pose", "leg"}
    BY <2>1, <2>2 DEF Legless, Players
  <2> HIDE DEF left, right
  <2>5. Legless([left EXCEPT !.pose = "Running"]) = Legless([right EXCEPT !.pose = "Running"])
    BY <2>3, <2>4 DEF Legless
  <2>6. UpdatePlayer(p) =
          IF p.pose = "Crashed" THEN p
          ELSE IF IsOnGround(left) /\ left.pose = "Jumping"
               THEN [left EXCEPT !.pose = "Running"] ELSE left
    BY DEF UpdatePlayer, left
  <2>7. UpdatePlayer(Legless(p)) =
          IF p.pose = "Crashed" THEN Legless(p)
          ELSE IF IsOnGround(right) /\ right.pose = "Jumping"
               THEN [right EXCEPT !.pose = "Running"] ELSE right
    <3>1. Legless(p).pose = p.pose
      BY DEF Legless, Players
    <3> QED
      BY <3>1 DEF UpdatePlayer, right
  <2>8. IsOnGround(left) <=> IsOnGround(right)
    BY <2>4 DEF IsOnGround
  <2>9. Legless(Legless(p)) = Legless(p)
    BY DEF Legless, Players
  <2> QED
    BY <2>3, <2>4, <2>5, <2>6, <2>7, <2>8, <2>9
<1> QED
  BY <1>1, <1>5, <1>6

LEMMA LeglessCollides ==
  ASSUME NEW p \in Players, NEW obs
  PROVE  HasCollision(Legless(p), obs) <=> HasCollision(p, obs)
<1>1. PlayerHitbox(Legless(p)) = PlayerHitbox(p)
  BY DEF Legless, PlayerHitbox, PlayerBox, PlayerSize, Players
<1> QED
  BY <1>1 DEF HasCollision

\* Whoever is alive, does what a command says and does not collide is a
\* survivor.
LEMMA SurvivorsAre ==
  ASSUME NEW p \in alive, NEW command \in Run!Commands, NEW obs,
         ~HasCollision(Legless(UpdatePlayer(ApplyInput(p, command))), obs)
  PROVE  Legless(UpdatePlayer(ApplyInput(p, command))) \in Run!Survivors(obs)
<1> DEFINE commanded == {Run!ApplyInput(q, c) : q \in alive, c \in Run!Commands}
           moved     == {[Run!UpdatePlayer(q) EXCEPT !.leg = 0] : q \in commanded}
           one       == ApplyInput(p, command)
<1>1. one \in commanded
  BY SameMotion
<1>2. Legless(UpdatePlayer(one)) \in moved
  <2> HIDE DEF commanded, one
  <2> QED
    BY <1>1, SameMotion DEF Legless
<1>3. ~Run!HasCollision(Legless(UpdatePlayer(one)), obs)
  BY SameCollisions
<1>4. Run!Survivors(obs) = {q \in moved : ~Run!HasCollision(q, obs)}
  BY DEF Run!Survivors
<1> HIDE DEF moved, one
<1>5. Legless(UpdatePlayer(one)) \in Run!Survivors(obs)
  BY <1>2, <1>3, <1>4
<1> QED
  BY <1>5 DEF one

\* A frame without a collision keeps the player among the survivors
\* (game_engine.cpp:20-44).
LEMMA FrameSurvives ==
  ASSUME IInv, PlayerIsSurvivor, NEW input \in Inputs, PlayFrame(input),
         alive' = Run!Survivors(MovedObstacles)
  PROVE  PlayerIsSurvivor'
<1> SUFFICES ASSUME ~godmode PROVE Legless(player') \in alive'
  BY DEF PlayFrame, PlayerIsSurvivor, Legless
<1> DEFINE command == [jump |-> input.jump, duck |-> input.duck]
           ordered == ApplyInput(player, input)
<1>1. ~gameOver /\ player' = MovedPlayer(input) /\ ~HasCollision(player', MovedObstacles)
  BY DEF PlayFrame, Collides
<1>2. Legless(player) \in alive
  BY <1>1 DEF PlayerIsSurvivor, Legless
<1>3. command \in Run!Commands
  <2>1. input.jump \in BOOLEAN /\ input.duck \in BOOLEAN
    BY EngineAssumption
  <2> QED
    BY <2>1 DEF Run!Commands
<1>4. player \in Players /\ ordered \in Players
  BY <1>1, ApplyInputCommands DEF IInv, PlayerInv, Commanded
<1>5. ApplyInput(player, command) = ordered
  BY DEF ApplyInput
<1>6. ApplyInput(Legless(player), command) = Legless(ordered)
  <2> HIDE DEF command, ordered
  <2> QED
    BY <1>4, <1>5, LeglessMoves
<1>7. player' = UpdatePlayer(ordered)
  BY <1>1 DEF MovedPlayer
<1>8. player' \in Players
  BY <1>1, MovedPlayerRestsOrFlies DEF IInv
<1> HIDE DEF command, ordered
<1>9. Legless(UpdatePlayer(Legless(ordered))) = Legless(player')
  BY <1>4, <1>7, LeglessMoves
<1>10. ~HasCollision(Legless(player'), MovedObstacles)
  BY <1>1, <1>8, LeglessCollides
<1> QED
  BY <1>2, <1>3, <1>6, <1>9, <1>10, SurvivorsAre

-----------------------------------------------------------------------------

\* A game with the history is a game.
LEMMA SurvivalInvariance == SurvivalSpec => []IInv
<1>1. SurvivalInit => IInv
  BY InitInv DEF SurvivalInit
<1>2. IInv /\ [SurvivalNext]_survivalVars => IInv'
  BY StepInv DEF SurvivalNext, survivalVars, vars
<1> QED
  BY <1>1, <1>2, PTL DEF SurvivalSpec

\* Whatever is true of all courses is true of every run, with and without
\* godmode: each frame of play is a frame of a course, at the level of the
\* score, and each restart begins one.
THEOREM RunsCorrect == SurvivalSpec => RunsAreCourses
<1>1. ASSUME IInv, [SurvivalNext]_survivalVars
      PROVE  [/\ ~gameOver /\ ~gameOver' => Run!Next
              /\ gameOver /\ ~gameOver' => Run!Init']_survivalVars
  <2> SUFFICES ASSUME SurvivalNext
               PROVE  /\ ~gameOver /\ ~gameOver' => Run!Next
                      /\ gameOver /\ ~gameOver' => Run!Init'
    BY <1>1
  <2>1. PICK input \in Inputs : Step(input)
    BY DEF SurvivalNext, Next
  <2>2. ASSUME ~gameOver, ~gameOver' PROVE Run!Next
    <3>1. PlayFrame(input)
      BY <2>1, <2>2 DEF Step, CrashFrame, Restart, StayOver
    <3>2. alive' = Run!Survivors(MovedObstacles)
      BY <2>2 DEF SurvivalNext
    <3> QED
      BY <1>1, <3>1, <3>2, FrameIsCourse
  <2>3. ASSUME gameOver, ~gameOver' PROVE Run!Init'
    <3>1. Restart(input)
      BY <2>1, <2>3 DEF Step, PlayFrame, CrashFrame, StayOver, vars
    <3>2. alive' = {NewPlayer}
      BY <2>3 DEF SurvivalNext
    <3> QED
      BY <3>1, <3>2, RestartIsCourseInit
  <2> QED
    BY <2>2, <2>3
<1> QED
  BY <1>1, InitIsCourseInit, SurvivalInvariance, PTL DEF SurvivalSpec, RunsAreCourses

\* The player of a game without godmode is one of those the course lets
\* live: where a course leaves nobody, no game is still going on.
THEOREM PlayerSurvives == SurvivalSpec => []PlayerIsSurvivor
<1>1. SurvivalInit => PlayerIsSurvivor
  <2>1. Legless(NewPlayer) = NewPlayer
    BY DEF Legless, NewPlayer
  <2> QED
    BY <2>1 DEF SurvivalInit, Init, PlayerIsSurvivor, Legless
<1>2. ASSUME IInv, PlayerIsSurvivor, [SurvivalNext]_survivalVars
      PROVE  PlayerIsSurvivor'
  <2>1. CASE UNCHANGED survivalVars
    BY <1>2, <2>1 DEF survivalVars, vars, PlayerIsSurvivor
  <2>2. CASE SurvivalNext
    <3>1. PICK input \in Inputs : Step(input)
      BY <2>2 DEF SurvivalNext, Next
    <3>2. CASE PlayFrame(input)
      <4>1. alive' = Run!Survivors(MovedObstacles)
        BY <2>2, <3>2 DEF SurvivalNext, PlayFrame
      <4> QED
        BY <1>2, <3>2, <4>1, FrameSurvives
    <3>3. CASE CrashFrame(input) \/ StayOver(input)
      BY <3>3 DEF CrashFrame, StayOver, vars, PlayerIsSurvivor
    <3>4. CASE Restart(input)
      <4>1. player' = NewPlayer /\ alive' = {NewPlayer}
        BY <2>2, <3>4 DEF SurvivalNext, Restart
      <4>2. Legless(NewPlayer) = NewPlayer
        BY DEF Legless, NewPlayer
      <4> QED
        BY <4>1, <4>2 DEF PlayerIsSurvivor, Legless
    <3> QED
      BY <3>1, <3>2, <3>3, <3>4 DEF Step
  <2> QED
    BY <1>2, <2>1, <2>2
<1> QED
  BY <1>1, <1>2, SurvivalInvariance, PTL DEF SurvivalSpec

-----------------------------------------------------------------------------
\* Where the gaps suffice (module FairGaps).

\* Speed and kinds grow with the score (game_rules.cpp:7-11,
\* obstacle_spawner.cpp:52-63).
LEMMA SpeedGrows ==
  ASSUME NEW m \in Nat, NEW n \in Nat, m <= n
  PROVE  /\ CalculateSpeed(m) <= CalculateSpeed(n)
         /\ CalculateSpeed(m) \in Nat /\ CalculateSpeed(n) \in Nat
         /\ Selectable(m) \subseteq Selectable(n)
<1> DEFINE p == m \div SpeedStepScore
           q == n \div SpeedStepScore
<1>1. p \in Nat /\ q \in Nat /\ p <= q
  BY ScoringAssumption, DivMod, DivMonotone
<1>2. /\ CalculateSpeed(m) = IF BaseSpeed + p < MaxSpeed THEN BaseSpeed + p ELSE MaxSpeed
      /\ CalculateSpeed(n) = IF BaseSpeed + q < MaxSpeed THEN BaseSpeed + q ELSE MaxSpeed
  BY DEF CalculateSpeed
<1> HIDE DEF p, q
<1>3. /\ CalculateSpeed(m) <= CalculateSpeed(n)
      /\ CalculateSpeed(m) \in Nat /\ CalculateSpeed(n) \in Nat
  BY <1>1, <1>2, ScoringAssumption
<1>4. Selectable(m) \subseteq Selectable(n)
  BY FrameAssumption DEF Selectable, ObstacleKinds
<1> QED
  BY <1>3, <1>4

\* No obstacle is on the screen in a frame slower than the least for its kind.
LEMMA SlowestIsLeast ==
  ASSUME NEW points \in Nat, NEW kind \in Selectable(points)
  PROVE  /\ kind \in ObstacleKinds
         /\ SlowestFor(kind) \in Nat /\ SlowestFor(kind) <= CalculateSpeed(points)
<1>1. kind \in ObstacleKinds
  BY DEF Selectable, ObstacleKinds
<1>2. CASE kind \in GroundKinds
  BY <1>1, <1>2, SpeedGrows DEF SlowestFor
<1>3. CASE kind \notin GroundKinds
  <2>1. PteroMinScore <= points /\ PteroMinScore \in Nat
    BY <1>3, FrameAssumption DEF Selectable
  <2> QED
    BY <1>1, <1>3, <2>1, SpeedGrows DEF SlowestFor
<1> QED
  BY <1>2, <1>3

\* An obstacle that is not there yet, past the player or under it does not
\* touch it (collision_detector.cpp:5-17).
LEMMA ClearOf ==
  ASSUME NEW p \in Players, p.pose # "Ducking", NEW o \in Obstacle,
         NotYet(o.x) \/ IsPast(o.kind, o.x) \/ p.y <= Sprite[o.kind].y + 2 * HitboxInset
  PROVE  ~Intersects(PlayerHitbox(p), ObstacleHitbox(o, HitboxInset))
<1>1. /\ o.x \in Int /\ o.kind \in ObstacleKinds /\ p.y \in Int
      /\ Sprite[o.kind] \in [w : Nat, h : Nat, y : Int]
  BY CollectionsAssumption DEF Obstacle, Kinds, Players
<1>2. PlayerSize(p) = StandSize
  BY DEF PlayerSize
<1>3. /\ PlayerHitbox(p).x = PlayerX + HitboxInset
      /\ Right(PlayerHitbox(p)) = PlayerX + StandSize.w - HitboxInset
  BY <1>2, PlayerHitboxIs
<1>4. /\ ObstacleHitbox(o, HitboxInset).x = o.x + HitboxInset
      /\ Right(ObstacleHitbox(o, HitboxInset)) = o.x + Sprite[o.kind].w - HitboxInset
  BY ObstacleHitboxIs
<1>5. /\ Bottom(PlayerHitbox(p)) = p.y - HitboxInset
      /\ ObstacleHitbox(o, HitboxInset).y = Sprite[o.kind].y + HitboxInset
  <2>1. /\ StandSize.w \in Nat /\ StandSize.h \in Nat /\ HitboxInset \in Nat
        /\ StandSize.w > 2 * HitboxInset /\ StandSize.h > 2 * HitboxInset
    BY PlayerAssumption, LayoutAssumption DEF Size
  <2>2. /\ Sprite[o.kind].w > 2 * HitboxInset /\ Sprite[o.kind].h > 2 * HitboxInset
    BY <1>1, LayoutAssumption
  <2>3. Bottom(PlayerHitbox(p)) = p.y - HitboxInset
    BY <1>1, <1>2, <2>1 DEF PlayerHitbox, PlayerBox, Inset, IsEmpty, Bottom
  <2>4. ObstacleHitbox(o, HitboxInset).y = Sprite[o.kind].y + HitboxInset
    BY <1>1, <2>1, <2>2 DEF ObstacleHitbox, Inset, IsEmpty
  <2> QED
    BY <2>3, <2>4
<1>6. PlayerX \in Nat /\ HitboxInset \in Nat /\ StandSize.w \in Nat
  BY PlayerAssumption DEF Size
<1> QED
  BY <1>1, <1>3, <1>4, <1>5, <1>6 DEF Intersects, NotYet, IsPast

\* The items after a frame's movement are items of before, moved.
LEMMA MovedFrom ==
  ASSUME NEW obs \in Seq(Obstacle), NEW speed \in Nat, Spaced(obs, MinGap)
  PROVE  LET moved == PruneOffScreen(UpdateAll(obs, speed))
         IN  /\ moved \in Seq(Obstacle) /\ Spaced(moved, MinGap)
             /\ \A i \in DOMAIN moved : \E j \in DOMAIN obs :
                  moved[i] = [kind |-> obs[j].kind, x |-> obs[j].x - speed]
<1> DEFINE shifted == UpdateAll(obs, speed)
           Shift(j) == [kind |-> obs[j].kind, x |-> obs[j].x - speed]
           S == {Shift(j) : j \in DOMAIN obs}
<1>1. MinGap \in Int
  BY FrameAssumption
<1>2. shifted \in Seq(Obstacle) /\ Len(shifted) = Len(obs) /\ Spaced(shifted, MinGap)
  BY <1>1, UpdateKeepsSpacing
<1>3. /\ DOMAIN obs = 1..Len(obs) /\ DOMAIN shifted = 1..Len(obs)
      /\ Len(obs) \in Nat /\ \A i \in 1..Len(obs) : obs[i] \in Obstacle
  BY <1>2, LenProperties, ElementOfSeq
<1>4. \A i \in 1..Len(obs) : shifted[i] = Shift(i)
  BY <1>3 DEF UpdateAll, Obstacle
<1>5. \A s \in S : s.x \in Int /\ s \in Obstacle
  BY <1>3 DEF Obstacle
<1>6. shifted \in Seq(S)
  <2>1. \A i \in 1..Len(obs) : shifted[i] \in S
    BY <1>3, <1>4
  <2>2. shifted = [i \in 1..Len(obs) |-> shifted[i]]
    BY <1>2, <1>3, LenProperties
  <2> HIDE DEF S, shifted
  <2>3. shifted \in [1..Len(obs) -> S]
    BY <2>1, <2>2
  <2> QED
    BY <1>3, <2>3
<1> HIDE DEF shifted
<1> DEFINE moved == PruneOffScreen(shifted)
<1>7. moved \in Seq(S) /\ Spaced(moved, MinGap)
  <2> HIDE DEF S
  <2> QED
    BY <1>1, <1>2, <1>5, <1>6, PruneKeepsSpacing
<1>8. \A i \in DOMAIN moved : moved[i] \in S
  <2> HIDE DEF S, moved
  <2> QED
    BY <1>7, LenProperties, ElementOfSeq
<1>9. moved \in Seq(Obstacle)
  <2>1. S \subseteq Obstacle
    BY <1>5
  <2> HIDE DEF S, moved
  <2>2. moved \in [1..Len(moved) -> S] /\ Len(moved) \in Nat
    BY <1>7, LenProperties
  <2>3. moved \in [1..Len(moved) -> Obstacle]
    BY <2>1, <2>2
  <2> QED
    BY <2>2, <2>3
<1> HIDE DEF moved
<1>10. \A i \in DOMAIN moved : \E j \in DOMAIN obs : moved[i] = Shift(j)
  BY <1>8
<1> QED
  BY <1>7, <1>9, <1>10 DEF moved, shifted


-----------------------------------------------------------------------------
\* A jump, frame by frame.

\* The legless player n frames after a take-off.
InFlight(p, n) ==
  /\ p \in Players /\ p.pose = "Jumping" /\ p.leg = 0
  /\ p.vy = n * Gravity - JumpSpeed
  /\ 2 * (GroundY - p.y) = Rise(n)

NoCommand   == [jump |-> FALSE, duck |-> FALSE]
JumpCommand == [jump |-> TRUE, duck |-> FALSE]

LEMMA CommandsAre == NoCommand \in Run!Commands /\ JumpCommand \in Run!Commands
BY DEF NoCommand, JumpCommand, Run!Commands

\* A frame adds the velocity to the height.
LEMMA RiseGrows ==
  ASSUME NEW n \in Nat
  PROVE  /\ Rise(n) \in Int /\ Rise(n + 1) = Rise(n) - 2 * (n * Gravity - JumpSpeed)
         /\ (n + 1) * Gravity - JumpSpeed = (n * Gravity - JumpSpeed) + Gravity
<1>1. JumpSpeed \in Int /\ Gravity \in Int
  BY PlayerAssumption
<1>2. n * Gravity \in Int /\ (n + 1) * Gravity = n * Gravity + Gravity
  BY <1>1
<1>3. Rise(n) = n * (2 * JumpSpeed - (n - 1) * Gravity)
      /\ Rise(n + 1) = (n + 1) * (2 * JumpSpeed - n * Gravity)
  BY DEF Rise
<1>4. (n - 1) * Gravity = n * Gravity - Gravity
  BY <1>1
<1> DEFINE g == n * Gravity
<1>5. n * (2 * JumpSpeed - (g - Gravity)) = n * (2 * JumpSpeed - g) + g
  BY <1>1, <1>2
<1>6. (n + 1) * (2 * JumpSpeed - g) = n * (2 * JumpSpeed - g) + 2 * JumpSpeed - g
  BY <1>1, <1>2
<1>7. n * (2 * JumpSpeed - g) \in Int
  BY <1>1, <1>2
<1> QED
  BY <1>1, <1>2, <1>3, <1>4, <1>5, <1>6, <1>7

\* The fields of a player, one by one.
LEMMA PlayerFields ==
  ASSUME NEW p \in Players, NEW a, NEW b, NEW c
  PROVE  /\ [p EXCEPT !.y = a, !.vy = b] =
              [y |-> a, vy |-> b, pose |-> p.pose, leg |-> p.leg]
         /\ [p EXCEPT !.vy = b, !.pose = c] =
              [y |-> p.y, vy |-> b, pose |-> c, leg |-> p.leg]
         /\ [p EXCEPT !.leg = a] =
              [y |-> p.y, vy |-> p.vy, pose |-> p.pose, leg |-> a]
         /\ p = [y |-> p.y, vy |-> p.vy, pose |-> p.pose, leg |-> p.leg]
<1>1. p = [y |-> p.y, vy |-> p.vy, pose |-> p.pose, leg |-> p.leg]
  BY DEF Players
<1>2. [p EXCEPT !.y = a, !.vy = b] =
        [y |-> a, vy |-> b, pose |-> p.pose, leg |-> p.leg]
  <2> DEFINE q == [y |-> a, vy |-> p.vy, pose |-> p.pose, leg |-> p.leg]
  <2>1. [p EXCEPT !.y = a] = q
    BY DEF Players
  <2>2. [q EXCEPT !.vy = b] = [y |-> a, vy |-> b, pose |-> p.pose, leg |-> p.leg]
    OBVIOUS
  <2> HIDE DEF q
  <2> QED
    BY <2>1, <2>2, Zenon
<1>3. [p EXCEPT !.vy = b, !.pose = c] =
        [y |-> p.y, vy |-> b, pose |-> c, leg |-> p.leg]
  <2> DEFINE q == [y |-> p.y, vy |-> b, pose |-> p.pose, leg |-> p.leg]
  <2>1. [p EXCEPT !.vy = b] = q
    BY DEF Players
  <2>2. [q EXCEPT !.pose = c] = [y |-> p.y, vy |-> b, pose |-> c, leg |-> p.leg]
    OBVIOUS
  <2> HIDE DEF q
  <2> QED
    BY <2>1, <2>2, Zenon
<1>4. [p EXCEPT !.leg = a] = [y |-> p.y, vy |-> p.vy, pose |-> p.pose, leg |-> a]
  BY DEF Players
<1> QED
  BY <1>1, <1>2, <1>3, <1>4

\* Who rests and does nothing rests.
LEMMA RestGoesOn ==
  Legless(UpdatePlayer(ApplyInput(NewPlayer, NoCommand))) = NewPlayer
<1>1. NewPlayer.pose = "Running" /\ NewPlayer.y = GroundY /\ NewPlayer.vy = 0
  BY DEF NewPlayer
<1>2. ApplyInput(NewPlayer, NoCommand) = NewPlayer
  BY DEF NoCommand, ApplyInput, Stand, NewPlayer
<1>3. Fallen(NewPlayer) = NewPlayer
  <2>1. NewPlayer.y + NewPlayer.vy >= GroundY
    BY <1>1, PlayerAssumption
  <2>2. Fallen(NewPlayer) = [NewPlayer EXCEPT !.y = GroundY, !.vy = 0]
    BY <2>1 DEF Fallen
  <2>3. Fallen(NewPlayer) =
          [y |-> GroundY, vy |-> 0, pose |-> NewPlayer.pose, leg |-> NewPlayer.leg]
    BY <2>2, PlayerFields, NewPlayerRests
  <2> QED
    BY <2>3 DEF NewPlayer
<1>4. UpdatePlayer(NewPlayer) = [NewPlayer EXCEPT !.leg = 1]
  BY <1>1, <1>3 DEF UpdatePlayer, NewPlayer
<1> QED
  BY <1>2, <1>4 DEF Legless, NewPlayer

\* Physics on a player that takes off or flies.
LEMMA FlightStep ==
  ASSUME NEW p, NEW n \in Nat, InFlight(p, n)
  PROVE  /\ Rise(n + 1) > 0 => InFlight(Legless(UpdatePlayer(p)), n + 1)
         /\ Rise(n + 1) <= 0 => Legless(UpdatePlayer(p)) = NewPlayer
<1>1. /\ p \in Players /\ p.y \in Int /\ p.vy \in Int /\ p.pose = "Jumping" /\ p.leg = 0
      /\ GroundY \in Int /\ Gravity \in Int
  BY PlayerAssumption DEF InFlight, Players
<1>2. /\ 2 * (GroundY - (p.y + p.vy)) = Rise(n + 1)
      /\ p.vy + Gravity = (n + 1) * Gravity - JumpSpeed
      /\ Rise(n + 1) \in Int
  <2>1. /\ 2 * (GroundY - p.y) = Rise(n) /\ p.vy = n * Gravity - JumpSpeed
    BY DEF InFlight
  <2>2. /\ Rise(n) \in Int /\ Rise(n + 1) = Rise(n) - 2 * p.vy
        /\ (n + 1) * Gravity - JumpSpeed = p.vy + Gravity
    BY <2>1, RiseGrows
  <2> QED
    BY <1>1, <2>1, <2>2
<1>3. CASE Rise(n + 1) > 0
  <2>1. ~(p.y + p.vy >= GroundY)
    BY <1>1, <1>2, <1>3
  <2>2. Fallen(p) = [p EXCEPT !.y = p.y + p.vy, !.vy = p.vy + Gravity]
    BY <2>1 DEF Fallen
  <2> DEFINE q == [y |-> p.y + p.vy, vy |-> p.vy + Gravity, pose |-> "Jumping", leg |-> 1]
  <2>3. [Fallen(p) EXCEPT !.leg = 1 - p.leg] = q
    <3>1. Fallen(p) = [y |-> p.y + p.vy, vy |-> p.vy + Gravity, pose |-> "Jumping", leg |-> 0]
      BY <1>1, <2>2, PlayerFields
    <3>2. 1 - p.leg = 1
      BY <1>1
    <3> QED
      BY <3>1, <3>2
  <2>4. UpdatePlayer(p) = q
    <3>1. ~IsOnGround(q)
      BY <2>1 DEF IsOnGround
    <3> QED
      BY <1>1, <2>3, <3>1 DEF UpdatePlayer
  <2>5. Legless(q) = [y |-> p.y + p.vy, vy |-> p.vy + Gravity, pose |-> "Jumping", leg |-> 0]
    BY DEF Legless
  <2> HIDE DEF q
  <2>6. Legless(q) \in Players
    BY <1>1, <2>5 DEF Players, Poses
  <2> QED
    BY <1>2, <1>3, <2>4, <2>5, <2>6 DEF InFlight
<1>4. CASE Rise(n + 1) <= 0
  <2>1. p.y + p.vy >= GroundY
    BY <1>1, <1>2, <1>4
  <2>2. Fallen(p) = [p EXCEPT !.y = GroundY, !.vy = 0]
    BY <2>1 DEF Fallen
  <2>3. [Fallen(p) EXCEPT !.leg = 1 - p.leg] =
          [y |-> GroundY, vy |-> 0, pose |-> "Jumping", leg |-> 1]
    <3>1. Fallen(p) = [y |-> GroundY, vy |-> 0, pose |-> "Jumping", leg |-> 0]
      BY <1>1, <2>2, PlayerFields
    <3>2. 1 - p.leg = 1
      BY <1>1
    <3> QED
      BY <3>1, <3>2
  <2>4. UpdatePlayer(p) = [y |-> GroundY, vy |-> 0, pose |-> "Running", leg |-> 1]
    <3> DEFINE q == [y |-> GroundY, vy |-> 0, pose |-> "Jumping", leg |-> 1]
    <3>1. UpdatePlayer(p) = IF IsOnGround(q) /\ q.pose = "Jumping"
                            THEN [q EXCEPT !.pose = "Running"] ELSE q
      BY <1>1, <2>3 DEF UpdatePlayer
    <3>2. IsOnGround(q)
      BY <1>1 DEF IsOnGround
    <3>3. [q EXCEPT !.pose = "Running"] =
            [y |-> GroundY, vy |-> 0, pose |-> "Running", leg |-> 1]
      OBVIOUS
    <3> QED
      BY <3>1, <3>2, <3>3
  <2> QED
    BY <1>2, <1>4, <2>4 DEF Legless, NewPlayer
<1> QED
  BY <1>2, <1>3, <1>4

\* The jump command takes a resting player off, and standing up does not
\* stop it (player.cpp:47-76).
LEMMA TakesOff == InFlight(ApplyInput(NewPlayer, JumpCommand), 0)
<1>1. /\ JumpSpeed \in Nat \ {0} /\ GroundY \in Int /\ -JumpSpeed \in Int
      /\ Gravity \in Int
  BY PlayerAssumption
<1> DEFINE q == [y |-> GroundY, vy |-> -JumpSpeed, pose |-> "Jumping", leg |-> 0]
<1>2. Jump(NewPlayer) = q
  <2>1. Obeys(NewPlayer)
    BY <1>1 DEF Obeys, IsOnGround, NewPlayer
  <2>2. Jump(NewPlayer) = [NewPlayer EXCEPT !.vy = -JumpSpeed, !.pose = "Jumping"]
    BY <2>1 DEF Jump
  <2>3. Jump(NewPlayer) =
          [y |-> NewPlayer.y, vy |-> -JumpSpeed, pose |-> "Jumping", leg |-> NewPlayer.leg]
    BY <2>2, PlayerFields, NewPlayerRests
  <2> QED
    BY <2>3 DEF NewPlayer
<1>3. Stand(q) = q
  BY <1>1 DEF Stand, Obeys, IsOnGround
<1>4. ApplyInput(NewPlayer, JumpCommand) = q
  BY <1>2, <1>3 DEF ApplyInput, JumpCommand
<1>5. q \in Players
  BY <1>1 DEF Players, Poses
<1>6. Rise(0) = 0
  BY <1>1 DEF Rise
<1>7. q.vy = 0 * Gravity - JumpSpeed /\ 2 * (GroundY - q.y) = 0
  BY <1>1
<1> QED
  BY <1>4, <1>5, <1>6, <1>7 DEF InFlight

\* In flight nothing is obeyed.
LEMMA FlightObeysNothing ==
  ASSUME NEW p, NEW n \in Nat, InFlight(p, n), Rise(n) > 0
  PROVE  ApplyInput(p, NoCommand) = p
<1>1. p.y \in Int /\ 2 * (GroundY - p.y) > 0 /\ GroundY \in Int
  BY PlayerAssumption DEF InFlight, Players
<1>2. ~IsOnGround(p)
  BY <1>1 DEF IsOnGround
<1> QED
  BY <1>2 DEF ApplyInput, NoCommand, Stand, Obeys


-----------------------------------------------------------------------------
\* The way through: wait until an obstacle comes close, jump, and wait again.

\* Obstacles that are past or still on their way to the next take-off.
Free(obs, top, takeOff) ==
  \A i \in DOMAIN obs :
    IsPast(obs[i].kind, obs[i].x) \/ obs[i].x > takeOff[obs[i].kind] - top

\* All but o are past or a gap and more behind it.
Alone(obs, o) ==
  \A i \in DOMAIN obs :
    obs[i] = o \/ IsPast(obs[i].kind, obs[i].x) \/ obs[i].x >= o.x + MinGap

\* Obstacle o is where it can be n frames into the jump over it.
Leapt(obs, o, points, top, takeOff, n) ==
  /\ o \in Obstacle /\ o.kind \in Selectable(points)
  /\ o.x \in Reach(o.kind, takeOff[o.kind], top, n)
  /\ Alone(obs, o)

WayThrough(people, obs, points, top, takeOff, flight) ==
  \/ NewPlayer \in people /\ Free(obs, top, takeOff)
  \/ \E n \in 1..(flight - 1), p \in people, o \in Obstacle :
       InFlight(p, n) /\ Leapt(obs, o, points, top, takeOff, n)

\* What is past stays past.
LEMMA StaysPast ==
  ASSUME NEW kind \in ObstacleKinds, NEW x \in Int, NEW speed \in Nat, IsPast(kind, x)
  PROVE  IsPast(kind, x - speed)
<1>1. Sprite[kind].w \in Nat /\ PlayerX \in Nat /\ HitboxInset \in Nat
  BY CollectionsAssumption, PlayerAssumption DEF Kinds
<1> QED
  BY <1>1 DEF IsPast

\* What is further away has not come either.
LEMMA NotYetFurther ==
  ASSUME NEW x \in Int, NEW y \in Int, y >= x, NotYet(x)
  PROVE  NotYet(y)
<1>1. PlayerX \in Nat /\ HitboxInset \in Nat /\ StandSize.w \in Nat
  BY PlayerAssumption DEF Size
<1> DEFINE a == PlayerX + StandSize.w
           b == 2 * HitboxInset
<1>2. a \in Nat /\ b \in Nat
  BY <1>1
<1>3. x + b >= a
  BY DEF NotYet
<1> HIDE DEF a, b
<1>4. y + b >= a
  BY <1>2, <1>3
<1> QED
  BY <1>4 DEF NotYet, a, b

\* A frame takes an obstacle from where it can be to where it can be.
LEMMA ReachMoves ==
  ASSUME NEW kind, NEW t \in Int, NEW top \in Nat, NEW n \in Nat,
         SlowestFor(kind) \in Nat, NEW x \in Reach(kind, t, top, n),
         NEW speed \in SlowestFor(kind)..top
  PROVE  x - speed \in Reach(kind, t, top, n + 1)
<1> DEFINE slow == SlowestFor(kind)
           a == (n + 1) * top
           b == n * slow
<1>1. /\ ((n + 1) + 1) * top = a + top /\ (n + 1) * slow = b + slow
      /\ a \in Nat /\ b \in Nat /\ slow \in Nat
  OBVIOUS
<1>2. x \in (t - a + 1)..(t - b) /\ speed \in slow..top
  BY DEF Reach
<1> HIDE DEF slow, a, b
<1>3. x - speed \in (t - (a + top) + 1)..(t - (b + slow))
  BY <1>1, <1>2
<1> QED
  BY <1>1, <1>3 DEF Reach, slow

\* Who is a gap behind the obstacle leapt over is on its way until the jump
\* has ended.
LEMMA BehindIsOnItsWay ==
  ASSUME NEW top, NEW takeOff, NEW flight, JumpingSuffices(top, takeOff, flight),
         NEW k \in ObstacleKinds, NEW next \in ObstacleKinds,
         NEW n \in 0..flight, SlowestFor(k) \in Nat,
         NEW x \in Reach(k, takeOff[k], top, n), NEW y \in Int, y >= x + MinGap
  PROVE  y > takeOff[next] - top /\ NotYet(y)
<1> DEFINE t == takeOff[k]
           u == takeOff[next]
           a == (n + 1) * top
           b == flight * top
<1>1. /\ top \in Nat \ {0} /\ flight \in Nat \ {0} /\ MinGap \in Nat
      /\ t \in Int /\ u \in Int /\ n \in Nat /\ n <= flight
      /\ u + b <= t + MinGap /\ NotYet(u - top + 1)
  BY FrameAssumption DEF JumpingSuffices
<1>2. a <= b + top /\ a \in Nat /\ b \in Nat
  <2>1. PICK m \in Nat : flight = n + m
    <3>1. flight - n \in Nat /\ flight = n + (flight - n)
      BY <1>1
    <3> QED
      BY <3>1
  <2>2. flight * top = n * top + m * top /\ m * top \in Nat /\ n * top \in Nat
        /\ (n + 1) * top = n * top + top
    BY <1>1, <2>1
  <2> QED
    BY <1>1, <2>2
<1>3. x >= t - a + 1 /\ x \in Int
  <2>1. n * SlowestFor(k) \in Nat
    BY <1>1
  <2> HIDE DEF a, t
  <2>2. x \in (t - a + 1)..(t - n * SlowestFor(k))
    BY DEF Reach, a, t
  <2> QED
    BY <1>1, <1>2, <2>1, <2>2
<1> HIDE DEF t, u, a, b
<1>4. y >= u - top + 1
  BY <1>1, <1>2, <1>3
<1>5. u - top + 1 \in Int
  BY <1>1
<1>6. NotYet(y)
  BY <1>1, <1>4, <1>5, NotYetFurther
<1>7. y > u - top
  BY <1>1, <1>4
<1> QED
  BY <1>6, <1>7 DEF u

\* Nobody collides who is clear of each obstacle.
LEMMA NobodyCollides ==
  ASSUME NEW p \in Players, p.pose # "Ducking", NEW obs \in Seq(Obstacle),
         \A i \in DOMAIN obs :
           \/ NotYet(obs[i].x) \/ IsPast(obs[i].kind, obs[i].x)
           \/ p.y <= Sprite[obs[i].kind].y + 2 * HitboxInset
  PROVE  ~HasCollision(p, obs)
<1>1. \A i \in DOMAIN obs : obs[i] \in Obstacle
  BY LenProperties, ElementOfSeq
<1> QED
  BY <1>1, ClearOf DEF HasCollision

\* Obstacle o among the others, a frame later.
LEMMA AloneMoves ==
  ASSUME NEW obs \in Seq(Obstacle), NEW moved \in Seq(Obstacle), NEW speed \in Nat,
         \A i \in DOMAIN moved : \E j \in DOMAIN obs :
           moved[i] = [kind |-> obs[j].kind, x |-> obs[j].x - speed],
         NEW o \in Obstacle, Alone(obs, o)
  PROVE  Alone(moved, [kind |-> o.kind, x |-> o.x - speed])
<1> SUFFICES ASSUME NEW i \in DOMAIN moved
             PROVE  \/ moved[i] = [kind |-> o.kind, x |-> o.x - speed]
                    \/ IsPast(moved[i].kind, moved[i].x)
                    \/ moved[i].x >= (o.x - speed) + MinGap
  BY DEF Alone
<1>1. PICK j \in DOMAIN obs : moved[i] = [kind |-> obs[j].kind, x |-> obs[j].x - speed]
  OBVIOUS
<1>2. obs[j] \in Obstacle /\ obs[j].x \in Int /\ obs[j].kind \in ObstacleKinds
  <2>1. obs[j] \in Obstacle
    BY LenProperties, ElementOfSeq
  <2> QED
    BY <2>1 DEF Obstacle
<1>3. o.x \in Int /\ MinGap \in Int
  BY FrameAssumption DEF Obstacle
<1>4. moved[i].kind = obs[j].kind /\ moved[i].x = obs[j].x - speed
  BY <1>1
<1>5. CASE obs[j] = o
  BY <1>1, <1>5
<1>6. CASE IsPast(obs[j].kind, obs[j].x)
  BY <1>2, <1>4, <1>6, StaysPast
<1>7. CASE obs[j].x >= o.x + MinGap
  BY <1>2, <1>3, <1>4, <1>7
<1> QED
  BY <1>5, <1>6, <1>7 DEF Alone


\* A frame of the jump: whoever is in it is a survivor, in the air or, the
\* obstacle past, on the ground again.
LEMMA LeapGoesOn ==
  ASSUME NEW top, NEW takeOff, NEW flight, JumpingSuffices(top, takeOff, flight),
         NEW points \in Nat, CalculateSpeed(points) <= top,
         NEW obs \in Seq(Obstacle), NEW moved \in Seq(Obstacle),
         \A i \in DOMAIN moved : \E j \in DOMAIN obs :
           moved[i] = [kind |-> obs[j].kind, x |-> obs[j].x - CalculateSpeed(points)],
         NEW r \in alive, NEW command \in Run!Commands, NEW n \in 0..(flight - 1),
         InFlight(ApplyInput(r, command), n),
         NEW o \in Obstacle, Leapt(obs, o, points, top, takeOff, n)
  PROVE  WayThrough(Run!Survivors(moved), moved, points, top, takeOff, flight)
<1> DEFINE speed == CalculateSpeed(points)
           q == Legless(UpdatePlayer(ApplyInput(r, command)))
           e == [kind |-> o.kind, x |-> o.x - speed]
<1>1. /\ top \in Nat \ {0} /\ flight \in Nat \ {0} /\ n \in Nat /\ n + 1 \in 1..flight
      /\ takeOff \in [ObstacleKinds -> Int]
      /\ (Rise(n + 1) > 0 <=> n + 1 < flight)
  <2>1. top \in Nat \ {0} /\ flight \in Nat \ {0} /\ takeOff \in [ObstacleKinds -> Int]
    BY DEF JumpingSuffices
  <2>2. n \in Nat /\ n + 1 \in 1..flight
    BY <2>1
  <2> QED
    BY <2>1, <2>2 DEF JumpingSuffices
<1>2. /\ o.kind \in ObstacleKinds /\ o.x \in Int /\ o.kind \in Selectable(points)
      /\ o.x \in Reach(o.kind, takeOff[o.kind], top, n) /\ Alone(obs, o)
  BY DEF Leapt, Obstacle
<1>3. /\ SlowestFor(o.kind) \in Nat /\ SlowestFor(o.kind) <= speed /\ speed \in Nat
      /\ takeOff[o.kind] \in Int
  <2>1. points <= points
    OBVIOUS
  <2>2. CalculateSpeed(points) \in Nat
    BY <2>1, SpeedGrows
  <2>3. SlowestFor(o.kind) \in Nat /\ SlowestFor(o.kind) <= CalculateSpeed(points)
    BY <1>2, SlowestIsLeast
  <2>4. takeOff[o.kind] \in Int
    BY <1>1, <1>2
  <2> QED
    BY <2>2, <2>3, <2>4
<1> HIDE DEF speed
<1>4. e \in Obstacle /\ e.kind = o.kind /\ e.x = o.x - speed
  BY <1>2, <1>3 DEF Obstacle
<1>5. Alone(moved, e)
  BY <1>2, <1>3, AloneMoves DEF speed
<1>6. e.x \in Reach(e.kind, takeOff[e.kind], top, n + 1)
  <2>1. speed \in SlowestFor(o.kind)..top
    BY <1>1, <1>3 DEF speed
  <2>2. o.x - speed \in Reach(o.kind, takeOff[o.kind], top, n + 1)
    BY <1>1, <1>2, <1>3, <2>1, ReachMoves
  <2> QED
    BY <1>4, <2>2
<1> HIDE DEF e
<1>7. ASSUME NEW i \in DOMAIN moved
      PROVE  \/ moved[i] = e
             \/ IsPast(moved[i].kind, moved[i].x)
             \/ moved[i].x > takeOff[moved[i].kind] - top /\ NotYet(moved[i].x)
  <2>1. moved[i] \in Obstacle
    BY LenProperties, ElementOfSeq
  <2>2. moved[i].x \in Int /\ moved[i].kind \in ObstacleKinds
    BY <2>1 DEF Obstacle
  <2>3. CASE moved[i].x >= e.x + MinGap
    <3>1. n + 1 \in 0..flight
      BY <1>1
    <3>2. SlowestFor(e.kind) \in Nat /\ e.kind \in ObstacleKinds
      BY <1>2, <1>3, <1>4
    <3> QED
      BY <1>6, <2>2, <2>3, <3>1, <3>2, BehindIsOnItsWay
  <2> QED
    BY <1>5, <2>3 DEF Alone
<1>8. CASE n + 1 < flight
  <2>1. InFlight(q, n + 1)
    BY <1>1, <1>8, FlightStep
  <2>2. q \in Players /\ q.pose = "Jumping" /\ 2 * (GroundY - q.y) = Rise(n + 1)
        /\ q.y \in Int
    BY <2>1 DEF InFlight, Players
  <2>3. NotYet(e.x) \/ IsPast(e.kind, e.x) \/ q.y <= Sprite[e.kind].y + 2 * HitboxInset
    <3>1. n + 1 \in 1..(flight - 1)
      BY <1>1, <1>8
    <3>2. NotYet(e.x) \/ IsPast(e.kind, e.x) \/ IsUnder(e.kind, n + 1)
      BY <1>2, <1>4, <1>6, <3>1 DEF JumpingSuffices
    <3>3. CASE IsUnder(e.kind, n + 1)
      <4>1. Sprite[e.kind].y \in Int /\ HitboxInset \in Nat /\ GroundY \in Int
        BY <1>2, <1>4, CollectionsAssumption, PlayerAssumption DEF Kinds
      <4>2. 2 * (GroundY - q.y) >= 2 * (GroundY - Sprite[e.kind].y - 2 * HitboxInset)
        BY <2>2, <3>3 DEF IsUnder
      <4> DEFINE y == q.y
                 h == Sprite[e.kind].y
      <4>3. y \in Int /\ h \in Int /\ 2 * (GroundY - y) >= 2 * (GroundY - h - 2 * HitboxInset)
        BY <2>2, <4>1, <4>2
      <4> HIDE DEF q, y, h
      <4>4. y <= h + 2 * HitboxInset
        BY <4>1, <4>3
      <4> QED
        BY <4>4 DEF y, h
    <3> QED
      BY <3>2, <3>3
  <2>4. ~HasCollision(q, moved)
    <3>1. \A i \in DOMAIN moved :
            \/ NotYet(moved[i].x) \/ IsPast(moved[i].kind, moved[i].x)
            \/ q.y <= Sprite[moved[i].kind].y + 2 * HitboxInset
      <4> HIDE DEF q
      <4> QED
        BY <1>7, <2>3
    <3> HIDE DEF q
    <3> QED
      BY <2>2, <3>1, NobodyCollides
  <2>5. q \in Run!Survivors(moved)
    BY <2>4, SurvivorsAre
  <2>6. Leapt(moved, e, points, top, takeOff, n + 1)
    BY <1>2, <1>4, <1>5, <1>6 DEF Leapt
  <2>7. n + 1 \in 1..(flight - 1)
    BY <1>1, <1>8
  <2> HIDE DEF q
  <2> QED
    BY <1>4, <2>1, <2>5, <2>6, <2>7 DEF WayThrough
<1>9. CASE n + 1 = flight
  <2>1. q = NewPlayer
    <3>1. Rise(n + 1) \in Int
      BY <1>1, RiseGrows
    <3>2. Rise(n + 1) <= 0
      BY <1>1, <1>9, <3>1
    <3> QED
      BY <1>1, <3>2, FlightStep
  <2>2. IsPast(e.kind, e.x)
    <3> DEFINE t == takeOff[e.kind]
               d == flight * SlowestFor(e.kind)
               w == Sprite[e.kind].w
    <3>1. IsPast(e.kind, t - d)
      BY <1>2, <1>4 DEF JumpingSuffices
    <3>2. d \in Nat /\ t \in Int
      BY <1>1, <1>3, <1>4
    <3>3. w \in Nat /\ PlayerX \in Nat /\ HitboxInset \in Nat
      BY <1>2, <1>4, CollectionsAssumption, PlayerAssumption DEF Kinds
    <3>4. e.x \in Int
      BY <1>4 DEF Obstacle
    <3>5. e.x \in (t - (flight + 1) * top + 1)..(t - d)
      BY <1>6, <1>9 DEF Reach
    <3>6. (t - d) + w <= PlayerX + 2 * HitboxInset
      BY <3>1 DEF IsPast
    <3> HIDE DEF t, d, w
    <3>7. (flight + 1) * top \in Nat
      BY <1>1
    <3>8. e.x <= t - d
      BY <3>2, <3>4, <3>5, <3>7
    <3>9. e.x + w <= PlayerX + 2 * HitboxInset
      BY <3>2, <3>3, <3>4, <3>6, <3>8
    <3> QED
      BY <3>9 DEF IsPast, w
  <2>3. Free(moved, top, takeOff)
    BY <1>7, <2>2 DEF Free
  <2>4. ~HasCollision(NewPlayer, moved)
    <3>1. \A i \in DOMAIN moved : NotYet(moved[i].x) \/ IsPast(moved[i].kind, moved[i].x)
      BY <1>7, <2>2
    <3>2. NewPlayer \in Players /\ NewPlayer.pose # "Ducking"
      BY NewPlayerRests
    <3> QED
      BY <3>1, <3>2, NobodyCollides
  <2>5. NewPlayer \in Run!Survivors(moved)
    BY <2>1, <2>4, SurvivorsAre
  <2> QED
    BY <2>3, <2>5 DEF WayThrough
<1> QED
  BY <1>1, <1>8, <1>9


\* A frame before the jump: nobody moves, or the nearest obstacle is close
\* enough to jump.
LEMMA WaitGoesOn ==
  ASSUME NEW top, NEW takeOff, NEW flight, JumpingSuffices(top, takeOff, flight),
         NEW points \in Nat, CalculateSpeed(points) <= top,
         NEW obs \in Seq(Obstacle), Spaced(obs, MinGap),
         \A i \in DOMAIN obs : obs[i].kind \in Selectable(points),
         NEW moved \in Seq(Obstacle),
         \A i \in DOMAIN moved : \E j \in DOMAIN obs :
           moved[i] = [kind |-> obs[j].kind, x |-> obs[j].x - CalculateSpeed(points)],
         NewPlayer \in alive, Free(obs, top, takeOff)
  PROVE  WayThrough(Run!Survivors(moved), moved, points, top, takeOff, flight)
<1> DEFINE speed == CalculateSpeed(points)
           Near(i) == /\ ~IsPast(obs[i].kind, obs[i].x)
                      /\ obs[i].x <= takeOff[obs[i].kind]
<1>1. /\ top \in Nat \ {0} /\ flight \in Nat \ {0} /\ takeOff \in [ObstacleKinds -> Int]
      /\ Rise(1) > 0 <=> 1 < flight
  BY DEF JumpingSuffices
<1>2. speed \in Nat
  <2>1. points <= points
    OBVIOUS
  <2> QED
    BY <2>1, SpeedGrows
<1>3. /\ \A i \in DOMAIN obs : /\ obs[i] \in Obstacle /\ obs[i].x \in Int
                               /\ obs[i].kind \in ObstacleKinds
                               /\ takeOff[obs[i].kind] \in Int
      /\ DOMAIN obs \subseteq Nat
  <2>1. \A i \in DOMAIN obs : obs[i] \in Obstacle
    BY LenProperties, ElementOfSeq
  <2>2. DOMAIN obs = 1..Len(obs)
    BY LenProperties
  <2> QED
    BY <1>1, <2>1, <2>2 DEF Obstacle
<1>4. CASE \A i \in DOMAIN obs : ~Near(i)
  <2>1. ASSUME NEW i \in DOMAIN moved
        PROVE  /\ moved[i].kind \in ObstacleKinds
               /\ \/ IsPast(moved[i].kind, moved[i].x)
                  \/ moved[i].x > takeOff[moved[i].kind] - top /\ NotYet(moved[i].x)
    <3>1. PICK j \in DOMAIN obs : moved[i] = [kind |-> obs[j].kind, x |-> obs[j].x - speed]
      OBVIOUS
    <3> DEFINE k == obs[j].kind
               x == obs[j].x
    <3>2. /\ k \in ObstacleKinds /\ x \in Int /\ takeOff[k] \in Int
          /\ moved[i].kind = k /\ moved[i].x = x - speed
      BY <1>3, <3>1
    <3>3. IsPast(k, x) \/ x > takeOff[k]
      BY <1>3, <1>4
    <3> HIDE DEF k, x, speed
    <3>4. CASE IsPast(k, x)
      BY <1>2, <3>2, <3>4, StaysPast
    <3>5. CASE x > takeOff[k]
      <4> DEFINE t == takeOff[k]
                 v == x - speed
                 u == t - top + 1
      <4>1. /\ t \in Int /\ x > t /\ x \in Int
            /\ top \in Nat /\ speed \in Nat /\ speed <= top
        BY <1>1, <1>2, <3>2, <3>5 DEF speed
      <4>2. NotYet(u)
        BY <3>2 DEF JumpingSuffices
      <4> HIDE DEF t
      <4>3. v \in Int /\ u \in Int /\ v >= u /\ v > t - top
        BY <4>1
      <4> HIDE DEF v, u
      <4>4. NotYet(v)
        BY <4>2, <4>3, NotYetFurther
      <4> QED
        BY <3>2, <4>3, <4>4 DEF v, t
    <3> QED
      BY <3>2, <3>3, <3>4, <3>5
  <2>2. Free(moved, top, takeOff)
    BY <2>1 DEF Free
  <2>3. ~HasCollision(NewPlayer, moved)
    <3>1. \A i \in DOMAIN moved : NotYet(moved[i].x) \/ IsPast(moved[i].kind, moved[i].x)
      BY <2>1
    <3>2. NewPlayer \in Players /\ NewPlayer.pose # "Ducking"
      BY NewPlayerRests
    <3> QED
      BY <3>1, <3>2, NobodyCollides
  <2>4. NewPlayer \in Run!Survivors(moved)
    BY <2>3, RestGoesOn, CommandsAre, SurvivorsAre
  <2> QED
    BY <2>2, <2>4 DEF WayThrough
<1>5. ASSUME NEW i \in DOMAIN obs, Near(i)
      PROVE  WayThrough(Run!Survivors(moved), moved, points, top, takeOff, flight)
  <2> DEFINE o == obs[i]
             k == o.kind
             t == takeOff[k]
  <2>1. o \in Obstacle /\ k \in ObstacleKinds /\ t \in Int /\ o.x \in Int
    BY <1>3
  <2>2. o.x > t - top /\ o.x <= t
    BY <1>5 DEF Free
  <2>3. o.x \in Reach(k, t, top, 0)
    <3>1. SlowestFor(k) \in Nat
      BY SlowestIsLeast
    <3>2. (0 + 1) * top = top /\ 0 * SlowestFor(k) = 0
      BY <1>1, <3>1
    <3> HIDE DEF o, k, t
    <3>3. o.x \in (t - top + 1)..(t - 0)
      BY <1>1, <2>1, <2>2
    <3> QED
      BY <3>2, <3>3 DEF Reach
  <2>4. Alone(obs, o)
    <3> SUFFICES ASSUME NEW j \in DOMAIN obs, j # i, ~IsPast(obs[j].kind, obs[j].x)
                 PROVE  obs[j].x >= o.x + MinGap
      BY DEF Alone
    <3>1. i \in Nat /\ j \in Nat /\ MinGap \in Nat
      BY <1>3, FrameAssumption
    <3>2. CASE i < j
      <4>1. obs[j].x - obs[i].x >= MinGap
        BY <3>2 DEF Spaced
      <4> QED
        BY <1>3, <3>1, <4>1
    <3>3. CASE j < i
      <4> DEFINE y == obs[j].x
                 u == takeOff[obs[j].kind]
                 x == o.x
      <4>1. x - y >= MinGap
        BY <3>3 DEF Spaced
      <4>2. y > u - top
        BY DEF Free
      <4>3. t + flight * top <= u + MinGap
        BY <1>3, <2>1 DEF JumpingSuffices
      <4>4. flight * top >= top /\ flight * top \in Nat
        <5> HIDE DEF x, y, u, t
        <5>1. PICK m \in Nat : flight = m + 1
          <6>1. flight - 1 \in Nat /\ flight = (flight - 1) + 1
            BY <1>1
          <6> QED
            BY <6>1
        <5>2. m * top \in Nat /\ (m + 1) * top = m * top + top
          BY <1>1
        <5> QED
          BY <1>1, <5>1, <5>2
      <4>5. x \in Int /\ y \in Int /\ u \in Int /\ t \in Int /\ x <= t
        BY <1>3, <2>1, <2>2
      <4> DEFINE d == flight * top
      <4> HIDE DEF x, y, u, t, d
      <4>6. t + d <= u + MinGap /\ d >= top /\ d \in Nat
        BY <4>3, <4>4 DEF d
      <4> QED
        BY <1>1, <3>1, <4>1, <4>2, <4>5, <4>6
    <3> QED
      BY <3>1, <3>2, <3>3
  <2>5. Leapt(obs, o, points, top, takeOff, 0)
    BY <2>1, <2>3, <2>4 DEF Leapt
  <2>6. 0 \in 0..(flight - 1)
    BY <1>1
  <2> HIDE DEF o
  <2> QED
    BY <2>1, <2>5, <2>6, TakesOff, CommandsAre, LeapGoesOn
<1> QED
  BY <1>4, <1>5


\* A frame's movement, with or without a jump in it.
LEMMA MovementHasWay ==
  ASSUME NEW top, NEW takeOff, NEW flight, JumpingSuffices(top, takeOff, flight),
         NEW points \in Nat, CalculateSpeed(points) <= top,
         NEW obs \in Seq(Obstacle), Spaced(obs, MinGap),
         \A i \in DOMAIN obs : obs[i].kind \in Selectable(points),
         NEW moved \in Seq(Obstacle),
         \A i \in DOMAIN moved : \E j \in DOMAIN obs :
           moved[i] = [kind |-> obs[j].kind, x |-> obs[j].x - CalculateSpeed(points)],
         WayThrough(alive, obs, points, top, takeOff, flight)
  PROVE  WayThrough(Run!Survivors(moved), moved, points, top, takeOff, flight)
<1>1. CASE NewPlayer \in alive /\ Free(obs, top, takeOff)
  BY <1>1, WaitGoesOn
<1>2. ASSUME NEW n \in 1..(flight - 1), NEW p \in alive, NEW o \in Obstacle,
             InFlight(p, n), Leapt(obs, o, points, top, takeOff, n)
      PROVE  WayThrough(Run!Survivors(moved), moved, points, top, takeOff, flight)
  <2>1. flight \in Nat \ {0} /\ (\A m \in 1..flight : Rise(m) > 0 <=> m < flight)
    BY DEF JumpingSuffices
  <2>2. n \in Nat /\ n \in 0..(flight - 1) /\ n \in 1..flight /\ n < flight
    BY <2>1
  <2>3. ApplyInput(p, NoCommand) = p
    BY <1>2, <2>1, <2>2, FlightObeysNothing
  <2>4. InFlight(ApplyInput(p, NoCommand), n)
    BY <1>2, <2>3
  <2> QED
    BY <1>2, <2>2, <2>4, CommandsAre, LeapGoesOn
<1> QED
  BY <1>1, <1>2 DEF WayThrough

\* The obstacle that enters is on its way and far behind the others.
LEMMA SpawnKeepsWay ==
  ASSUME NEW top, NEW takeOff, NEW flight, JumpingSuffices(top, takeOff, flight),
         NEW points \in Nat, NEW people,
         NEW obs \in Seq(Obstacle), NEW kind \in ObstacleKinds,
         WayThrough(people, obs, points, top, takeOff, flight)
  PROVE  WayThrough(people, Append(obs, [kind |-> kind, x |-> ScreenWidth]),
                    points, top, takeOff, flight)
<1> DEFINE item == [kind |-> kind, x |-> ScreenWidth]
           new  == Append(obs, item)
<1>1. /\ top \in Nat \ {0} /\ flight \in Nat \ {0} /\ takeOff \in [ObstacleKinds -> Int]
      /\ \A k \in ObstacleKinds : takeOff[k] + MinGap <= ScreenWidth
  BY DEF JumpingSuffices
<1>2. ScreenWidth \in Nat /\ MinGap \in Nat
  BY FrameAssumption
<1>3. \A i \in DOMAIN new : new[i] = item \/ \E j \in DOMAIN obs : new[i] = obs[j]
  <2>1. item \in Obstacle
    BY <1>2 DEF Obstacle
  <2>2. /\ Len(new) = Len(obs) + 1 /\ new \in Seq(Obstacle)
        /\ \A i \in 1..Len(obs) : new[i] = obs[i]
        /\ new[Len(obs) + 1] = item
    BY <2>1, AppendProperties
  <2>3. /\ Len(obs) \in Nat /\ DOMAIN obs = 1..Len(obs)
        /\ DOMAIN new = 1..(Len(obs) + 1)
    BY <2>2, LenProperties
  <2> HIDE DEF new, item
  <2> QED
    BY <2>2, <2>3
<1>4. item.kind = kind /\ item.x = ScreenWidth
  OBVIOUS
<1> HIDE DEF new, item
<1>5. CASE NewPlayer \in people /\ Free(obs, top, takeOff)
  <2>1. ScreenWidth > takeOff[kind] - top
    <3>1. takeOff[kind] \in Int /\ takeOff[kind] + MinGap <= ScreenWidth
      BY <1>1
    <3> QED
      BY <1>1, <1>2, <3>1
  <2>2. Free(new, top, takeOff)
    BY <1>3, <1>4, <1>5, <2>1 DEF Free
  <2> QED
    BY <1>5, <2>2 DEF WayThrough, new, item
<1>6. ASSUME NEW n \in 1..(flight - 1), NEW p \in people, NEW o \in Obstacle,
             InFlight(p, n), Leapt(obs, o, points, top, takeOff, n)
      PROVE  WayThrough(people, new, points, top, takeOff, flight)
  <2> DEFINE t == takeOff[o.kind]
             b == n * SlowestFor(o.kind)
             a == (n + 1) * top
  <2>1. /\ o.kind \in ObstacleKinds /\ o.x \in Int /\ o.kind \in Selectable(points)
        /\ o.x \in Reach(o.kind, t, top, n) /\ Alone(obs, o)
    BY <1>6 DEF Leapt, Obstacle
  <2>2. b \in Nat /\ a \in Nat /\ t \in Int /\ t + MinGap <= ScreenWidth
    <3>1. n \in Nat /\ SlowestFor(o.kind) \in Nat
      BY <1>1, <2>1, SlowestIsLeast
    <3>2. b \in Nat /\ a \in Nat
      BY <1>1, <3>1
    <3> QED
      BY <1>1, <2>1, <3>2
  <2>3. o.x \in (t - a + 1)..(t - b)
    BY <2>1 DEF Reach
  <2> HIDE DEF t, a, b
  <2>4. ScreenWidth >= o.x + MinGap
    BY <1>2, <2>1, <2>2, <2>3
  <2>5. Alone(new, o)
    BY <1>3, <1>4, <2>1, <2>4 DEF Alone
  <2>6. Leapt(new, o, points, top, takeOff, n)
    BY <1>6, <2>5 DEF Leapt
  <2> QED
    BY <1>6, <2>6 DEF WayThrough
<1> QED
  BY <1>5, <1>6 DEF WayThrough, new, item

\* A higher score only adds kinds.
LEMMA LevelKeepsWay ==
  ASSUME NEW top, NEW takeOff, NEW flight, NEW people, NEW obs,
         NEW points \in Nat, NEW more \in Nat, points <= more,
         WayThrough(people, obs, points, top, takeOff, flight)
  PROVE  WayThrough(people, obs, more, top, takeOff, flight)
<1>1. Selectable(points) \subseteq Selectable(more)
  BY SpeedGrows
<1> QED
  BY <1>1 DEF WayThrough, Leapt

-----------------------------------------------------------------------------
\* The way through a course.

CourseInv ==
  /\ Level \in Nat
  /\ obstacles \in Seq(Obstacle) /\ Spaced(obstacles, MinGap)
  /\ nextGap \in MinGap..MaxGap
  /\ \A i \in DOMAIN obstacles : obstacles[i].kind \in Selectable(Level)

\* Somebody is alive and knows a way.
HasWay(top, takeOff, flight) ==
  CalculateSpeed(Level) <= top =>
    WayThrough(alive, obstacles, Level, top, takeOff, flight)

\* What a frame leaves of the obstacles, and who survives it.
LEMMA MovedCourse ==
  ASSUME NEW top, NEW takeOff, NEW flight, JumpingSuffices(top, takeOff, flight),
         CourseInv
  PROVE  LET moved == PruneOffScreen(UpdateAll(obstacles, CalculateSpeed(Level)))
         IN  /\ moved \in Seq(Obstacle) /\ Spaced(moved, MinGap)
             /\ \A i \in DOMAIN moved : moved[i].kind \in Selectable(Level)
             /\ HasWay(top, takeOff, flight) /\ CalculateSpeed(Level) <= top =>
                  WayThrough(Run!Survivors(moved), moved, Level, top, takeOff, flight)
<1> DEFINE speed == CalculateSpeed(Level)
           moved == PruneOffScreen(UpdateAll(obstacles, speed))
<1>1. speed \in Nat /\ Level \in Nat
  <2>1. Level \in Nat /\ Level <= Level
    BY DEF CourseInv
  <2> QED
    BY <2>1, SpeedGrows
<1> HIDE DEF speed
<1>2. /\ moved \in Seq(Obstacle) /\ Spaced(moved, MinGap)
      /\ \A i \in DOMAIN moved : \E j \in DOMAIN obstacles :
           moved[i] = [kind |-> obstacles[j].kind, x |-> obstacles[j].x - speed]
  BY <1>1, MovedFrom DEF CourseInv
<1> HIDE DEF moved
<1>3. \A i \in DOMAIN moved : moved[i].kind \in Selectable(Level)
  BY <1>2 DEF CourseInv
<1>4. ASSUME HasWay(top, takeOff, flight), speed <= top
      PROVE  WayThrough(Run!Survivors(moved), moved, Level, top, takeOff, flight)
  BY <1>1, <1>2, <1>4, MovementHasWay DEF CourseInv, HasWay, speed
<1> QED
  BY <1>2, <1>3, <1>4 DEF moved, speed

LEMMA CourseFrame ==
  ASSUME NEW top, NEW takeOff, NEW flight, JumpingSuffices(top, takeOff, flight),
         CourseInv, HasWay(top, takeOff, flight), Run!Next
  PROVE  CourseInv' /\ HasWay(top, takeOff, flight)'
<1> DEFINE moved == PruneOffScreen(UpdateAll(obstacles, CalculateSpeed(Level)))
           new(kind) == [kind |-> kind, x |-> ScreenWidth]
<1>1. /\ alive' = Run!Survivors(moved)
      /\ \/ /\ RoomForObstacle(moved, nextGap)
            /\ \E kind \in Selectable(Level), gap \in Gaps :
                 /\ obstacles' = Add(moved, new(kind), ObstacleCapacity)
                 /\ nextGap' = gap
         \/ obstacles' = moved /\ nextGap' = nextGap
      /\ Level' = Level \/ Level' = Level + SpeedStepScore
  <2> DEFINE there == Run!PruneOffScreen(Run!UpdateAll(obstacles, Run!CalculateSpeed(Level)))
  <2>1. there = moved
    BY SameMovement, SamePace
  <2> HIDE DEF moved
  <2>2. /\ alive' = Run!Survivors(there)
        /\ IF Run!RoomForObstacle(there, nextGap)
           THEN \E kind \in Run!Selectable(Level), gap \in Gaps :
                  /\ obstacles' = Run!Add(there, new(kind), ObstacleCapacity)
                  /\ nextGap' = gap
           ELSE obstacles' = there /\ UNCHANGED nextGap
        /\ Run!ReachLevel
    BY DEF Run!Next, Run!PlayFrame
  <2>3. Level' = Level \/ Level' = Level + SpeedStepScore
    BY <2>2 DEF Run!ReachLevel
  <2> HIDE DEF there
  <2> QED
    BY <2>1, <2>2, <2>3, SamePlacing
<1>2. Level \in Nat /\ Level' \in Nat /\ Level <= Level'
  <2>1. Level \in Nat /\ SpeedStepScore \in Nat
    BY ScoringAssumption DEF CourseInv
  <2> QED
    BY <1>1, <2>1
<1>3. /\ CalculateSpeed(Level) \in Nat /\ CalculateSpeed(Level') \in Nat
      /\ CalculateSpeed(Level) <= CalculateSpeed(Level')
      /\ Selectable(Level) \subseteq Selectable(Level')
  BY <1>2, SpeedGrows
<1>4. /\ moved \in Seq(Obstacle) /\ Spaced(moved, MinGap)
      /\ \A i \in DOMAIN moved : moved[i].kind \in Selectable(Level)
      /\ CalculateSpeed(Level) <= top =>
           WayThrough(Run!Survivors(moved), moved, Level, top, takeOff, flight)
  BY MovedCourse
<1> HIDE DEF moved
<1>5. CalculateSpeed(Level') <= top =>
        /\ CalculateSpeed(Level) <= top
        /\ WayThrough(alive', moved, Level, top, takeOff, flight)
  <2>1. top \in Nat
    BY DEF JumpingSuffices
  <2> QED
    BY <1>1, <1>3, <1>4, <2>1
<1>6. ASSUME RoomForObstacle(moved, nextGap),
             NEW kind \in Selectable(Level), NEW gap \in Gaps,
             obstacles' = Add(moved, new(kind), ObstacleCapacity), nextGap' = gap
      PROVE  CourseInv' /\ HasWay(top, takeOff, flight)'
  <2>1. kind \in ObstacleKinds
    BY DEF Selectable, ObstacleKinds
  <2>2. obstacles' \in Seq(Obstacle) /\ Spaced(obstacles', MinGap)
    BY <1>4, <1>6, <2>1, AddKeepsSpacing DEF CourseInv
  <2>3. obstacles' = Append(moved, new(kind))
    BY <1>6 DEF Add, RoomForObstacle
  <2>4. \A i \in DOMAIN obstacles' : obstacles'[i].kind \in Selectable(Level')
    <3>1. new(kind) \in Obstacle
      BY <2>1, FrameAssumption DEF Obstacle
    <3>2. new(kind).kind = kind
      OBVIOUS
    <3> HIDE DEF new
    <3>3. /\ Len(obstacles') = Len(moved) + 1
          /\ \A i \in 1..Len(moved) : obstacles'[i] = moved[i]
          /\ obstacles'[Len(moved) + 1] = new(kind)
      BY <1>4, <2>3, <3>1, AppendProperties
    <3>4. /\ Len(moved) \in Nat /\ DOMAIN moved = 1..Len(moved)
          /\ DOMAIN obstacles' = 1..(Len(moved) + 1)
      BY <1>4, <2>2, <3>3, LenProperties
    <3>5. \A i \in 1..(Len(moved) + 1) : obstacles'[i].kind \in Selectable(Level')
      BY <1>3, <1>4, <3>2, <3>3, <3>4
    <3> QED
      BY <3>4, <3>5
  <2>5. nextGap' \in MinGap..MaxGap
    BY <1>6, FrameAssumption
  <2>6. ASSUME CalculateSpeed(Level') <= top
        PROVE  WayThrough(alive', obstacles', Level', top, takeOff, flight)
    <3>1. WayThrough(alive', obstacles', Level, top, takeOff, flight)
      BY <1>2, <1>4, <1>5, <2>1, <2>3, <2>6, SpawnKeepsWay
    <3> QED
      BY <1>2, <3>1, LevelKeepsWay
  <2> QED
    BY <1>2, <2>2, <2>4, <2>5, <2>6 DEF CourseInv, HasWay
<1>7. ASSUME obstacles' = moved, nextGap' = nextGap
      PROVE  CourseInv' /\ HasWay(top, takeOff, flight)'
  <2>1. /\ obstacles' \in Seq(Obstacle) /\ Spaced(obstacles', MinGap)
        /\ nextGap' \in MinGap..MaxGap
        /\ \A i \in DOMAIN obstacles' : obstacles'[i].kind \in Selectable(Level')
    BY <1>3, <1>4, <1>7 DEF CourseInv
  <2>2. ASSUME CalculateSpeed(Level') <= top
        PROVE  WayThrough(alive', obstacles', Level', top, takeOff, flight)
    BY <1>2, <1>5, <1>7, <2>2, LevelKeepsWay
  <2> QED
    BY <1>2, <2>1, <2>2 DEF CourseInv, HasWay
<1> QED
  BY <1>1, <1>6, <1>7

\* Before the first obstacle there is nothing to jump over.
LEMMA CourseStart ==
  ASSUME Run!Init
  PROVE  /\ CourseInv
         /\ \A top, takeOff, flight : HasWay(top, takeOff, flight)
<1>1. /\ Level \in AllLevels /\ obstacles = << >> /\ nextGap = MinGap
      /\ alive = {NewPlayer}
  BY SameMotion DEF Run!Init
<1>2. DOMAIN obstacles = {} /\ obstacles \in Seq(Obstacle)
  BY <1>1
<1>3. nextGap \in MinGap..MaxGap
  BY <1>1, FrameAssumption
<1> QED
  BY <1>1, <1>2, <1>3 DEF CourseInv, HasWay, WayThrough, Free, Spaced, AllLevels

\* A way is somebody alive.
LEMMA WayIsLife ==
  ASSUME NEW top, NEW takeOff, NEW flight, NEW people, NEW obs, NEW points,
         WayThrough(people, obs, points, top, takeOff, flight)
  PROVE  people # {}
BY DEF WayThrough

\* Every course can be survived while the speed is one at which jumping
\* suffices, whatever kinds and gaps the spawner draws and whenever the score
\* passes to the next level (obstacle_spawner.cpp:31-63).
THEOREM CoursesSurvivable ==
  ASSUME NEW top, NEW takeOff, NEW flight, JumpingSuffices(top, takeOff, flight)
  PROVE  Run!Spec => [](CalculateSpeed(Level) <= top => Run!Survivable)
<1> DEFINE Inv == CourseInv /\ HasWay(top, takeOff, flight)
<1>1. Run!Init => Inv
  BY CourseStart
<1>2. Inv /\ [Run!Next]_(Run!vars) => Inv'
  <2> SUFFICES ASSUME Inv, [Run!Next]_(Run!vars) PROVE Inv'
    OBVIOUS
  <2>1. CASE Run!Next
    BY <2>1, CourseFrame
  <2>2. CASE UNCHANGED Run!vars
    BY <2>2 DEF Run!vars, CourseInv, HasWay
  <2> QED
    BY <2>1, <2>2
<1>3. Inv => (CalculateSpeed(Level) <= top => Run!Survivable)
  BY WayIsLife DEF HasWay, Run!Survivable
<1> QED
  BY <1>1, <1>2, <1>3, PTL DEF Run!Spec


\* The engine's courses: after a crash somebody else would still be alive.
Fair(top, takeOff, flight) ==
  CalculateSpeed(Level) <= top =>
    /\ alive # {}
    /\ ~gameOver => WayThrough(alive, obstacles, Level, top, takeOff, flight)

\* A frame that ends in a crash (game_engine.cpp:20-37).
LEMMA CrashIsFair ==
  ASSUME NEW top, NEW takeOff, NEW flight, JumpingSuffices(top, takeOff, flight),
         IInv, CourseInv, Fair(top, takeOff, flight),
         NEW input, CrashFrame(input), alive' = Run!Survivors(MovedObstacles)
  PROVE  CourseInv' /\ Fair(top, takeOff, flight)'
<1>1. /\ ~gameOver /\ gameOver' /\ obstacles' = MovedObstacles
      /\ nextGap' = nextGap /\ score' = score
  BY DEF CrashFrame
<1>2. Level' = Level
  BY <1>1 DEF Level
<1>3. MovedObstacles = PruneOffScreen(UpdateAll(obstacles, CalculateSpeed(Level)))
  BY LevelDecides DEF MovedObstacles
<1>4. /\ MovedObstacles \in Seq(Obstacle) /\ Spaced(MovedObstacles, MinGap)
      /\ \A i \in DOMAIN MovedObstacles : MovedObstacles[i].kind \in Selectable(Level)
      /\ HasWay(top, takeOff, flight) /\ CalculateSpeed(Level) <= top =>
           WayThrough(Run!Survivors(MovedObstacles), MovedObstacles, Level,
                      top, takeOff, flight)
  BY <1>3, MovedCourse
<1>5. CourseInv'
  BY <1>1, <1>2, <1>4 DEF CourseInv
<1>6. CalculateSpeed(Level) <= top => alive' # {}
  BY <1>1, <1>4, WayIsLife DEF Fair, HasWay
<1> QED
  BY <1>1, <1>2, <1>5, <1>6 DEF Fair

\* So is every run of the engine, godmode or not: while the speed is one at
\* which jumping suffices, there are commands that would have brought a
\* player here alive, at the frame of a crash included.
THEOREM GamesAreFair ==
  ASSUME NEW top, NEW takeOff, NEW flight, JumpingSuffices(top, takeOff, flight)
  PROVE  SurvivalSpec => [](Speed <= top => alive # {})
<1> DEFINE Inv == CourseInv /\ Fair(top, takeOff, flight)
<1>1. Run!Init => Inv
  BY CourseStart, SameMotion DEF Fair, HasWay, Run!Init
<1>2. ASSUME IInv, Inv, [SurvivalNext]_survivalVars
      PROVE  Inv'
  <2>1. CASE UNCHANGED survivalVars
    BY <1>2, <2>1 DEF survivalVars, vars, CourseInv, Fair, Level
  <2>2. ASSUME SurvivalNext, NEW input \in Inputs, PlayFrame(input)
        PROVE  Inv'
    <3>1. ~gameOver /\ ~gameOver' /\ alive' = Run!Survivors(MovedObstacles)
      BY <2>2 DEF SurvivalNext, PlayFrame
    <3>2. Run!Next
      BY <1>2, <2>2, <3>1, FrameIsCourse
    <3>3. HasWay(top, takeOff, flight)
      BY <1>2, <3>1 DEF Fair, HasWay
    <3>4. CourseInv' /\ HasWay(top, takeOff, flight)'
      BY <1>2, <3>2, <3>3, CourseFrame
    <3> QED
      BY <3>4, WayIsLife DEF Fair, HasWay
  <2>3. ASSUME SurvivalNext, NEW input \in Inputs, CrashFrame(input)
        PROVE  Inv'
    <3>1. alive' = Run!Survivors(MovedObstacles)
      BY <2>3 DEF SurvivalNext, CrashFrame
    <3> QED
      BY <1>2, <2>3, <3>1, CrashIsFair
  <2>4. ASSUME SurvivalNext, NEW input \in Inputs, Restart(input)
        PROVE  Inv'
    <3>1. alive' = {NewPlayer}
      BY <2>4 DEF SurvivalNext, Restart
    <3>2. Run!Init'
      BY <2>4, <3>1, RestartIsCourseInit
    <3> QED
      BY <1>1, <3>2, PTL
  <2>5. ASSUME SurvivalNext, NEW input \in Inputs, StayOver(input)
        PROVE  Inv'
    <3>1. alive' = alive /\ UNCHANGED vars
      BY <2>5 DEF SurvivalNext, StayOver, vars
    <3> QED
      BY <1>2, <3>1 DEF vars, CourseInv, Fair, Level
  <2>6. CASE SurvivalNext
    <3>1. PICK input \in Inputs : Step(input)
      BY <2>6 DEF SurvivalNext, Next
    <3> QED
      BY <2>6, <3>1, <2>2, <2>3, <2>4, <2>5 DEF Step
  <2> QED
    BY <1>2, <2>1, <2>6
<1>3. IInv /\ Inv => (Speed <= top => alive # {})
  BY LevelDecides DEF Fair
<1> HIDE DEF Inv
<1> QED
  BY <1>1, <1>2, <1>3, InitIsCourseInit, SurvivalInvariance, PTL DEF SurvivalSpec

=============================================================================
