---------------------------- MODULE Application ----------------------------
(***************************************************************************)
(* The process around the game: src/application/application.{h,cpp}, with  *)
(* the parts of src/game/input_state.{h,cpp}, src/util/signal_guard.cpp    *)
(* and src/main.cpp it relies on.  The engine is the abstract session of   *)
(* module GameSession, which GameEngine implements; the high-score file is *)
(* a register, which HighScoreStore implements as long as no disk write    *)
(* fails; the display is that of module Screen, whose controller may fail  *)
(* to carry out an update, because the result of its ioctl is not looked   *)
(* at.  Signals come at any time, and the process may be killed at any     *)
(* time and started again.                                                 *)
(***************************************************************************)
EXTENDS GameSession, RefreshCoordinator, Screen

CONSTANTS
  Limits,    \* values of --frames: -1 is no limit
  Scenes,    \* the pictures the renderer can paint
  Leftovers, \* what the Kindle's own software can have left on the panel
  Blank,     \* the white canvas the buffers start with
  MaxPoints  \* bound: a frame of play that would pass it is not taken

ASSUME ApplicationAssumption ==
  /\ Limits \subseteq Int
  /\ Scenes \subseteq Picture /\ Leftovers \subseteq Picture
  /\ Blank \in Picture /\ MaxPoints \in Nat

VARIABLES
  pc,          \* where the main thread is; "down" when there is no process
  interrupted, \* SignalGuard::interrupted_flag_
  quit,        \* SessionFlags: quit was requested
  limit,       \* FrameLimiter::max_frames_
  frames,      \* FrameLimiter::frame_count_, counted when there is a limit
  pending,     \* MomentaryTriggers: the set of triggers held
  refresh,     \* the RefreshCoordinator
  front, back, \* the two canvases
  fb,          \* the mapped framebuffer
  panel,       \* what the electronic paper shows
  stored,      \* the number in the high-score file; 0 when there is none
  polled,      \* history: the triggers pressed in this frame
  lost,        \* history: pixels whose last update the controller dropped
  late         \* history: frames shown since the loop was told to stop, up to 2

loopVars    == <<interrupted, quit, limit, frames, pending>>
screenVars  == <<front, back, fb, panel>>
historyVars == <<polled, lost, late>>
vars == <<sessionVars, loopVars, screenVars, historyVars, pc, refresh, stored>>

Triggers == {"jump", "restart"}

\* The state of a process that has just been constructed around a stored
\* high score: SignalGuard, ApplicationOptions, Application.
Init ==
  /\ pc = "check"
  /\ points = 0 /\ high \in Highs /\ night = FALSE /\ over = FALSE
  /\ stored = high
  /\ interrupted = FALSE /\ quit = FALSE
  /\ limit \in Limits /\ frames = 0
  /\ pending = {} /\ polled = {} /\ late = 0
  /\ refresh = NewRefresh
  /\ front = Blank /\ back = Blank
  /\ fb \in Leftovers /\ panel = fb /\ lost = {}

Running == pc # "down"

ToldToStop == interrupted \/ quit

IsLimitReached == limit >= 0 /\ frames >= limit

-----------------------------------------------------------------------------
\* Application::run, one iteration of the loop.

\* Mutant: the quit key is not looked at.
CheckIgnoringQuit ==
  /\ pc = "check"
  /\ pc' = IF interrupted \/ IsLimitReached THEN "down" ELSE "poll"
  /\ UNCHANGED <<sessionVars, loopVars, screenVars, historyVars, refresh, stored>>

\* The condition of the loop.
Check ==
  /\ pc = "check"
  /\ pc' = IF ToldToStop \/ IsLimitReached THEN "down" ELSE "poll"
  /\ UNCHANGED <<sessionVars, loopVars, screenVars, historyVars, refresh, stored>>

\* poll_events: the keys pressed since the last frame, any of them.
Poll ==
  /\ pc = "poll" /\ pc' = "step"
  /\ \E pressed \in SUBSET Triggers : pending' = pending \union pressed /\ polled' = pressed
  /\ quit' \in {quit, TRUE}
  /\ UNCHANGED <<sessionVars, screenVars, refresh, stored, interrupted,
                 limit, frames, lost, late>>

\* GameEngine::step as the session sees it.
EngineStep ==
  \/ \E gain \in 0..MaxGain : points + gain <= MaxPoints /\ Play(gain)
  \/ EndRun
  \/ "restart" \in pending /\ StartRun
  \/ over /\ "restart" \notin pending /\ UNCHANGED sessionVars

\* Mutant: the triggers are not consumed by a frame of play.
StepFrameKeepingTriggers ==
  /\ pc = "step"
  /\ EngineStep
  /\ pending' = IF over THEN {} ELSE pending
  /\ IF over' THEN refresh' = NotifyGameOver(refresh) /\ pc' = "save"
              ELSE pc' = "present" /\ UNCHANGED refresh
  /\ UNCHANGED <<screenVars, historyVars, stored, interrupted, quit, limit, frames>>

\* step_frame after the poll, up to the save.  A frozen frame does not
\* reach the engine.
StepFrame ==
  /\ pc = "step"
  /\ pending' = {}
  /\ IF IsFrozen(refresh)
     THEN /\ refresh' = DecrementFreeze(refresh) /\ pc' = "present"
          /\ UNCHANGED sessionVars
     ELSE /\ EngineStep
          /\ IF over' THEN refresh' = NotifyGameOver(refresh) /\ pc' = "save"
                      ELSE pc' = "present" /\ UNCHANGED refresh
  /\ UNCHANGED <<screenVars, historyVars, stored, interrupted, quit, limit, frames>>

\* Mutant: the score of the run is saved, not the best one.
SavePoints ==
  /\ pc = "save" /\ pc' = "present"
  /\ stored' = points
  /\ UNCHANGED <<sessionVars, loopVars, screenVars, historyVars, refresh>>

\* The end of step_frame in every frame that leaves the game over.
Save ==
  /\ pc = "save" /\ pc' = "present"
  /\ stored' = high
  /\ UNCHANGED <<sessionVars, loopVars, screenVars, historyVars, refresh>>

\* The region present_and_refresh shows: all of the screen for a full
\* refresh, and also when nothing changed.
Damage(canvas) ==
  LET box == ComputeDamage(back, canvas)
  IN  IF DetermineWaveform(refresh) = "FullGrayscaleClear" \/ IsEmpty(box)
      THEN WholeScreen ELSE box

\* present_and_refresh up to framebuffer().present.  What the renderer
\* paints may differ from the last frame whatever the engine did, frozen or
\* over: the animation goes on in every frame.
Present ==
  /\ pc = "present" /\ pc' = "refresh"
  /\ \E picture \in Scenes :
       front' = picture /\ fb' = PresentRegion(fb, picture, Damage(picture))
  /\ UNCHANGED <<sessionVars, loopVars, historyVars, refresh, stored, back, panel>>

\* The rest of present_and_refresh.  The controller carries the update out
\* or drops it; the application cannot tell.  Then the limiter advances; the
\* count that nobody reads, when there is no limit, is left at zero.
Refresh ==
  /\ pc = "refresh" /\ pc' = "sleep"
  /\ \/ /\ panel' = UpdatePanel(panel, fb, Damage(front))
        /\ lost' = lost \ In(Damage(front))
     \/ /\ UNCHANGED panel
        /\ lost' = lost \union In(Damage(front))
  /\ refresh' = Acknowledge(refresh)
  /\ back' = front
  /\ frames' = IF limit >= 0 THEN frames + 1 ELSE frames
  /\ late' = IF ToldToStop /\ late < 2 THEN late + 1 ELSE late
  /\ UNCHANGED <<sessionVars, stored, interrupted, quit, limit, pending,
                 polled, front, fb>>

\* sync_frame_rate: what is left of the 80 ms.
Sleep ==
  /\ pc = "sleep" /\ pc' = "check"
  /\ polled' = {}
  /\ UNCHANGED <<sessionVars, loopVars, screenVars, refresh, stored, lost, late>>

-----------------------------------------------------------------------------
\* The environment.

\* SIGINT or SIGTERM: the handler sets the flag.
Signal ==
  /\ Running /\ ~interrupted /\ interrupted' = TRUE
  /\ UNCHANGED <<sessionVars, screenVars, historyVars, pc, quit, limit, frames,
                 pending, refresh, stored>>

\* The process is killed: the memory is gone, the file and the panel stay.
Kill ==
  /\ Running /\ pc' = "down"
  /\ UNCHANGED <<sessionVars, loopVars, screenVars, historyVars, refresh, stored>>

\* Mutant: the stored high score is not loaded.
LoadNothing == 0

\* Mutant: the value for "there is no file" is taken for a score.
LoadSentinel == IF stored = 0 THEN -1 ELSE stored

\* Application's constructor: set_high_score(store.load()).
LoadHigh == stored

\* The game is started again: everything but the file and the screen is new.
Launch ==
  /\ pc = "down" /\ pc' = "check"
  /\ points' = 0 /\ high' = LoadHigh /\ night' = FALSE /\ over' = FALSE
  /\ interrupted' = FALSE /\ quit' = FALSE
  /\ limit' \in Limits /\ frames' = 0
  /\ pending' = {} /\ polled' = {} /\ late' = 0
  /\ refresh' = NewRefresh
  /\ front' = Blank /\ back' = Blank
  /\ UNCHANGED <<fb, panel, lost, stored>>

Loop ==
  \/ Check
  \/ Poll
  \/ StepFrame
  \/ Save
  \/ Present
  \/ Refresh
  \/ Sleep

Next ==
  \/ Loop
  \/ Signal
  \/ Kill
  \/ Launch

Spec == Init /\ [][Next]_vars

\* The process gets its share of the processor; nothing else is assumed:
\* no signal, no quit and no launch has to come.
FairSpec == Spec /\ WF_vars(Loop)

-----------------------------------------------------------------------------
\* Properties.

TypeOK ==
  /\ pc \in {"check", "poll", "step", "save", "present", "refresh", "sleep", "down"}
  /\ points \in 0..MaxPoints /\ high \in Nat /\ stored \in Nat
  /\ night \in BOOLEAN /\ over \in BOOLEAN
  /\ interrupted \in BOOLEAN /\ quit \in BOOLEAN
  /\ limit \in Limits /\ frames \in Nat
  /\ pending \subseteq Triggers /\ polled \subseteq Triggers
  /\ refresh \in Coordinators
  /\ {front, back, fb, panel} \subseteq Picture
  /\ lost \subseteq Pixels /\ late \in 0..2

\* Whenever a frame has been shown, the framebuffer holds exactly the frame
\* and the panel differs from it at most where the controller dropped the
\* last update: the damage, computed against the previous frame and not
\* against the panel, never leaves anything behind, neither of the frame
\* before nor of the screen the game was started on, whatever the renderer
\* paints from frame to frame
\* (application.cpp:48-67, frame_differ.cpp, packed_gray.cpp:22-45).
PanelShowsFrame ==
  pc = "sleep" =>
    /\ fb = front /\ back = front
    /\ \A px \in Pixels \ lost : panel[px] = front[px]

\* The best score is in the file before the game-over frame that shows it
\* reaches the framebuffer, and stays there while that frame is up.  From
\* then on nothing that happens to the process can lose it
\* (application.cpp:42-45).
SavedBeforeShown ==
  Running /\ over /\ pc # "save" => stored = high

\* The file never goes back to a lower score, whatever runs, kills and
\* launches follow each other: the engine starts from the stored score and
\* saves the best one (application.cpp:24-25, 42-45).
RecordNeverFalls == [][stored' >= stored]_vars

\* A run starts again only in a frame in which restart was pressed: the
\* trigger of an earlier frame, pressed during play or during the crash,
\* is never held over (input_state.cpp:25-27, application.cpp:34-41).
NoGhostRestart ==
  [][Running /\ over /\ Running' /\ ~over' => "restart" \in polled]_vars

\* Every frame that shows the game over is shown with a full refresh, which
\* leaves no ghost of the run on the paper, however long the game stays over
\* and although each of those refreshes is acknowledged: the request comes
\* again in every frame.  It would be lost in a frozen frame, of which there
\* is none (application.cpp:32-46, docs/hardware-and-eink.md:124-126).
CrashesAreCleared ==
  over /\ pc \in {"save", "present", "refresh"} => refresh.full

\* Once told to stop, by a signal or by the quit key, the loop shows at
\* most the frame it is in (application.cpp:79-81).
StopsWithinFrame == late <= 1

\* A process that is told to stop, or has a frame limit, comes to its end.
ComesToEnd == (Running /\ (ToldToStop \/ limit >= 0)) ~> ~Running

=============================================================================
