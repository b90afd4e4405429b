------------------------------ MODULE FairGaps ------------------------------
(***************************************************************************)
(* When are the gaps wide enough?  A criterion on the numbers of the game  *)
(* under which jumping over everything is a way through any course: the    *)
(* numbers of src/game/game_rules.h, obstacle_spawner.h and the sprites'   *)
(* sizes, weighed against each other.  Nothing in the code computes it;    *)
(* the spawner's gap is a constant that has to meet it.                    *)
(***************************************************************************)
EXTENDS Frame, Scoring

\* Twice the height of the feet n frames after a take-off.
Rise(n) == n * (2 * JumpSpeed - (n - 1) * Gravity)

\* The least speed of a frame in which the kind is on the screen.
SlowestFor(kind) ==
  CalculateSpeed(IF kind \in GroundKinds THEN 0 ELSE PteroMinScore)

\* Where an obstacle does not touch a player that is not ducking: it has not
\* come to the columns of its hitbox yet, has left them, or is below it.
NotYet(x)        == x + 2 * HitboxInset >= PlayerX + StandSize.w
IsPast(kind, x)  == x + Sprite[kind].w <= PlayerX + 2 * HitboxInset
IsUnder(kind, n) == Rise(n) >= 2 * (GroundY - Sprite[kind].y - 2 * HitboxInset)

\* Where an obstacle can be n frames after a take-off: the player took off in
\* the first frame that found it at takeOff or closer, and frames move it by
\* the least speed at least and by top at most.
Reach(kind, takeOff, top, n) ==
  (takeOff - (n + 1) * top + 1)..(takeOff - n * SlowestFor(kind))

\* A jump lasts for flight frames.  The obstacle it is for is not there yet,
\* under the player or past it in every one of them and past it in the last,
\* whatever the speeds; and the next one is then still on its way to where
\* the next jump begins.
JumpingSuffices(top, takeOff, flight) ==
  /\ top \in Nat \ {0} /\ flight \in Nat \ {0}
  /\ takeOff \in [ObstacleKinds -> Int]
  /\ \A n \in 1..flight : Rise(n) > 0 <=> n < flight
  /\ \A kind \in ObstacleKinds :
       /\ takeOff[kind] + MinGap <= ScreenWidth
       /\ NotYet(takeOff[kind] - top + 1)
       /\ IsPast(kind, takeOff[kind] - flight * SlowestFor(kind))
       /\ \A n \in 1..(flight - 1) : \A x \in Reach(kind, takeOff[kind], top, n) :
            NotYet(x) \/ IsPast(kind, x) \/ IsUnder(kind, n)
       /\ \A next \in ObstacleKinds :
            takeOff[next] + flight * top <= takeOff[kind] + MinGap

=============================================================================
