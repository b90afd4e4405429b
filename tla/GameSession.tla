---------------------------- MODULE GameSession ----------------------------
(***************************************************************************)
(* What the game promises to the application around it: a session of runs, *)
(* each of which gains points until it ends in a crash and is started      *)
(* again on request.  This is all that the main loop, the refresh logic    *)
(* and the high-score file rely on; GameEngine implements it.              *)
(***************************************************************************)
EXTENDS Integers

CONSTANTS
  MaxGain,  \* the most points one frame can bring
  Interval, \* points between two day/night flips
  Highs     \* the high scores a session can start from

ASSUME SessionAssumption ==
  MaxGain \in Nat /\ Interval \in Nat \ {0} /\ Highs \subseteq Nat

VARIABLES
  points, \* of the run under way, or of the run that ended
  high,   \* the best points of any run
  night,  \* the palette
  over    \* the run has ended

sessionVars == <<points, high, night, over>>

SessionInit ==
  /\ points = 0 /\ high \in Highs
  /\ night = FALSE /\ over = FALSE

\* A frame of play brings some points; the palette flips if it crosses a
\* milestone, once however many points it brings.
Play(gain) ==
  /\ ~over
  /\ points' = points + gain
  /\ high' = IF points + gain > high THEN points + gain ELSE high
  /\ night' = IF (points + gain) \div Interval > points \div Interval
              THEN ~night ELSE night
  /\ UNCHANGED over

\* A crash ends the run and changes nothing that is shown as a score.
EndRun ==
  /\ ~over /\ over' = TRUE
  /\ UNCHANGED <<points, high, night>>

\* A new run starts at zero; the best score and the palette are kept.
StartRun ==
  /\ over /\ over' = FALSE
  /\ points' = 0
  /\ UNCHANGED <<high, night>>

SessionNext ==
  \/ \E gain \in 0..MaxGain : Play(gain)
  \/ EndRun
  \/ StartRun

SessionSpec == SessionInit /\ [][SessionNext]_sessionVars

=============================================================================
