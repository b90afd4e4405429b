------------------------- MODULE RefreshCoordinator -------------------------
(***************************************************************************)
(* src/graphics/refresh_coordinator.{h,cpp}: which waveform the next       *)
(* refresh of the electronic paper uses, and for how many frames the game  *)
(* stays frozen after a milestone.  The coordinator is a record; each      *)
(* method is an operator.  The main loop (module Application) calls        *)
(* NotifyGameOver, Acknowledge and DecrementFreeze only.                   *)
(***************************************************************************)
EXTENDS Integers

CONSTANT
  FreezeFrames \* MILESTONE_FREEZE_FRAMES (6)

ASSUME RefreshAssumption == FreezeFrames \in Nat \ {0}

Coordinators == [full : BOOLEAN, freeze : 0..FreezeFrames]

\* Mutant: the first refresh is a partial one.
NewRefreshPartial == [full |-> FALSE, freeze |-> 0]

\* The first frame of a process is shown with a full refresh.
NewRefresh == [full |-> TRUE, freeze |-> 0]

IsFrozen(r) == r.freeze > 0

DetermineWaveform(r) ==
  IF r.full THEN "FullGrayscaleClear" ELSE "PartialDirectUpdate"

\* Mutant: a crash freezes the game as a milestone would.
NotifyGameOverFreezing(r) == [full |-> TRUE, freeze |-> FreezeFrames]

NotifyMilestone(r)    == [full |-> TRUE, freeze |-> FreezeFrames]
NotifyGameOver(r)     == [r EXCEPT !.full = TRUE]
NotifyRestart(r)      == [full |-> TRUE, freeze |-> 0]
RequestFullRefresh(r) == [r EXCEPT !.full = TRUE]
Acknowledge(r)        == [r EXCEPT !.full = FALSE]

DecrementFreeze(r) ==
  IF r.freeze > 0 THEN [r EXCEPT !.freeze = @ - 1] ELSE r

=============================================================================
