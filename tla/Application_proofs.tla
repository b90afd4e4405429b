-------------------------- MODULE Application_proofs --------------------------
(***************************************************************************)
(* Proofs about Application: what the screen shows, when the record is     *)
(* saved and what the triggers do, for a screen of any size, any pictures, *)
(* any number of frames, runs, kills and launches.  MCApplication has a    *)
(* screen of four pixels and two pictures.                                 *)
(***************************************************************************)
EXTENDS Application, Screen_proofs

-----------------------------------------------------------------------------
\* The inductive invariant.

\* Before the first refresh of a process everything is still to be shown;
\* after it the framebuffer is the canvas behind, and the panel shows it but
\* for dropped updates.
Faithful ==
  /\ fb = back
  /\ \A px \in Pixels \ lost : panel[px] = fb[px]

ScreenInv ==
  /\ pc \notin {"refresh", "down"} => refresh.full \/ Faithful
  /\ pc = "refresh" =>
       /\ fb = front
       /\ \A px \in Pixels \ (lost \union In(Damage(front))) : panel[px] = front[px]
  /\ PanelShowsFrame

\* The file is never ahead of the engine, nor behind once a crash is shown.
RecordInv ==
  /\ high >= stored
  /\ SavedBeforeShown

\* Triggers live from a poll to the step after it.
TriggerInv ==
  /\ pc \notin {"step", "down"} => pending = {}
  /\ pc = "step" => pending \subseteq polled

\* A frame shown after the order to stop is the last one.
StopInv ==
  late = 0 \/ (late = 1 /\ ToldToStop /\ pc \in {"sleep", "check", "down"})

\* Nothing the loop calls freezes the game, so every frame of a game over
\* asks for a full refresh before it is shown.
WaveformInv == ~IsFrozen(refresh) /\ CrashesAreCleared

IInv == TypeOK /\ ScreenInv /\ RecordInv /\ TriggerInv /\ StopInv /\ WaveformInv

LEMMA InitInv == Init => IInv
<1> SUFFICES ASSUME Init PROVE IInv
  OBVIOUS
<1>1. TypeOK
  <2> USE ApplicationAssumption, SessionAssumption, RefreshAssumption
  <2>1. points \in 0..MaxPoints /\ high \in Nat /\ stored \in Nat /\ frames \in Nat
    BY DEF Init
  <2>2. refresh \in Coordinators
    BY DEF Init, Coordinators, NewRefresh
  <2>3. {front, back, fb, panel} \subseteq Picture
    BY DEF Init
  <2>4. /\ pending = {} /\ polled = {} /\ lost = {} /\ late = 0
        /\ limit \in Limits
        /\ pc \in {"check", "poll", "step", "save", "present", "refresh", "sleep", "down"}
    BY DEF Init
  <2>5. /\ night \in BOOLEAN /\ over \in BOOLEAN
        /\ interrupted \in BOOLEAN /\ quit \in BOOLEAN
    BY Zenon DEF Init
  <2>6. /\ pending \subseteq Triggers /\ polled \subseteq Triggers
        /\ lost \subseteq Pixels /\ late \in 0..2
    BY <2>4
  <2> QED
    BY <2>1, <2>2, <2>3, <2>4, <2>5, <2>6, Zenon DEF TypeOK
<1>2. ScreenInv
  BY DEF Init, ScreenInv, NewRefresh, PanelShowsFrame
<1>3. RecordInv
  BY SessionAssumption DEF Init, RecordInv, SavedBeforeShown
<1>4. TriggerInv /\ StopInv
  BY DEF Init, TriggerInv, StopInv
<1>5. WaveformInv
  BY DEF Init, WaveformInv, IsFrozen, NewRefresh, CrashesAreCleared
<1> QED
  BY <1>1, <1>2, <1>3, <1>4, <1>5 DEF IInv

-----------------------------------------------------------------------------
\* Type correctness.

\* What a frame of the engine can change.
LEMMA EngineStepTypes ==
  ASSUME TypeOK, EngineStep
  PROVE  /\ points' \in 0..MaxPoints /\ high' \in Nat /\ high' >= high
         /\ night' \in BOOLEAN /\ over' \in BOOLEAN
<1> DEFINE Typed == /\ points' \in 0..MaxPoints /\ high' \in Nat /\ high' >= high
                    /\ night' \in BOOLEAN /\ over' \in BOOLEAN
<1>0. /\ points \in Nat /\ points <= MaxPoints /\ MaxPoints \in Nat /\ high \in Nat
      /\ night \in BOOLEAN /\ over \in BOOLEAN
  BY ApplicationAssumption DEF TypeOK
<1>1. ASSUME NEW gain \in 0..MaxGain, points + gain <= MaxPoints, Play(gain)
      PROVE  Typed
  <2>1. gain \in Nat
    BY SessionAssumption
  <2>2. points + gain \in 0..MaxPoints /\ points + gain \in Nat
    BY <1>0, <1>1, <2>1
  <2>3. points' = points + gain /\ over' = over
    BY <1>1 DEF Play
  <2>4. (high' = points + gain /\ points + gain > high) \/ high' = high
    BY <1>1 DEF Play
  <2>5. high' \in Nat /\ high' >= high
    BY <1>0, <2>2, <2>4
  <2>6. night' \in BOOLEAN
    BY <1>0, <1>1 DEF Play
  <2> QED
    BY <1>0, <1>1, <2>2, <2>3, <2>5, <2>6
<1>2. ASSUME EndRun PROVE Typed
  <2>1. over' \in BOOLEAN
    BY <1>2, Zenon DEF EndRun
  <2> QED
    BY <1>0, <1>2, <2>1 DEF EndRun
<1>3. ASSUME StartRun PROVE Typed
  <2>1. over' \in BOOLEAN
    BY <1>3, Zenon DEF StartRun
  <2> QED
    BY <1>0, <1>3, <2>1 DEF StartRun
<1>4. ASSUME UNCHANGED sessionVars PROVE Typed
  BY <1>0, <1>4 DEF sessionVars
<1>5. \/ \E gain \in 0..MaxGain :
           points + gain <= MaxPoints /\ Play(gain)
      \/ EndRun
      \/ StartRun
      \/ UNCHANGED sessionVars
  BY DEF EngineStep
<1> QED
  <2> HIDE DEF Typed
  <2>1. Typed
    BY <1>1, <1>2, <1>3, <1>4, <1>5
  <2> QED
    BY <2>1 DEF Typed

LEMMA PresentTypes ==
  ASSUME NEW f \in Picture, NEW canvas \in Picture, NEW region
  PROVE  PresentRegion(f, canvas, region) \in Picture
BY DEF PresentRegion, PackRegion, Picture

LEMMA UpdateTypes ==
  ASSUME NEW p \in Picture, NEW f \in Picture, NEW region
  PROVE  UpdatePanel(p, f, region) \in Picture
BY DEF UpdatePanel, Picture

LEMMA TypeKept == TypeOK /\ [Next]_vars => TypeOK'
<1> SUFFICES ASSUME TypeOK, [Next]_vars PROVE TypeOK'
  OBVIOUS
<1> USE DEF TypeOK
<1>1. CASE Check
  BY <1>1 DEF Check, sessionVars, loopVars, screenVars, historyVars
<1>2. CASE Poll
  BY <1>2 DEF Poll, sessionVars, screenVars
<1>3. CASE StepFrame
  <2>1. refresh' \in Coordinators
    <3>1. \/ refresh' = refresh
          \/ refresh' = [refresh EXCEPT !.full = TRUE]
          \/ refresh.freeze > 0 /\ refresh' = [refresh EXCEPT !.freeze = @ - 1]
      BY <1>3 DEF StepFrame, NotifyGameOver, DecrementFreeze, IsFrozen
    <3>2. refresh.freeze \in 0..FreezeFrames /\ refresh.full \in BOOLEAN
      BY DEF Coordinators
    <3>3. CASE refresh.freeze > 0 /\ refresh' = [refresh EXCEPT !.freeze = @ - 1]
      <4>1. refresh.freeze - 1 \in 0..FreezeFrames
        BY <3>2, <3>3, RefreshAssumption
      <4> QED
        BY <3>3, <4>1 DEF Coordinators
    <3> QED
      BY <3>1, <3>3 DEF Coordinators
  <2>2. /\ points' \in 0..MaxPoints /\ high' \in Nat
        /\ night' \in BOOLEAN /\ over' \in BOOLEAN
    BY <1>3, EngineStepTypes DEF StepFrame, sessionVars
  <2>3. pc' \in {"save", "present"}
    BY <1>3 DEF StepFrame
  <2>4. UNCHANGED <<screenVars, historyVars, stored, interrupted, quit, limit, frames>>
        /\ pending' = {}
    BY <1>3 DEF StepFrame
  <2> QED
    BY <2>1, <2>2, <2>3, <2>4 DEF screenVars, historyVars
<1>4. CASE Save
  BY <1>4 DEF Save, sessionVars, loopVars, screenVars, historyVars
<1>5. CASE Present
  <2>1. PICK picture \in Scenes :
          front' = picture /\ fb' = PresentRegion(fb, picture, Damage(picture))
    BY <1>5 DEF Present
  <2>2. front' \in Picture /\ fb' \in Picture
    BY <2>1, PresentTypes, ApplicationAssumption
  <2> QED
    BY <1>5, <2>2 DEF Present, sessionVars, loopVars, historyVars
<1>6. CASE Refresh
  <2>1. panel' \in Picture
    BY <1>6, UpdateTypes DEF Refresh
  <2>2. lost' \subseteq Pixels
    BY <1>6 DEF Refresh, In
  <2>3. refresh' \in Coordinators
    BY <1>6 DEF Refresh, Acknowledge, Coordinators
  <2>4. frames' \in Nat /\ late' \in 0..2
    BY <1>6 DEF Refresh
  <2> QED
    BY <1>6, <2>1, <2>2, <2>3, <2>4 DEF Refresh, sessionVars
<1>7. CASE Sleep
  BY <1>7 DEF Sleep, sessionVars, loopVars, screenVars
<1>8. CASE Signal
  BY <1>8 DEF Signal, sessionVars, screenVars, historyVars
<1>9. CASE Kill
  BY <1>9 DEF Kill, sessionVars, loopVars, screenVars, historyVars
<1>10. CASE Launch
  <2>1. points' \in 0..MaxPoints /\ high' \in Nat /\ frames' \in Nat
    BY <1>10, ApplicationAssumption DEF Launch, LoadHigh
  <2>2. refresh' \in Coordinators
    BY <1>10, RefreshAssumption DEF Launch, NewRefresh, Coordinators
  <2>3. front' \in Picture /\ back' \in Picture
    BY <1>10, ApplicationAssumption DEF Launch
  <2>4. /\ pc' = "check" /\ pending' = {} /\ polled' = {} /\ late' = 0
        /\ limit' \in Limits /\ UNCHANGED <<fb, panel, lost, stored>>
    BY <1>10 DEF Launch
  <2>5. /\ night' \in BOOLEAN /\ over' \in BOOLEAN
        /\ interrupted' \in BOOLEAN /\ quit' \in BOOLEAN
    BY <1>10, Zenon DEF Launch
  <2> QED
    BY <2>1, <2>2, <2>3, <2>4, <2>5
<1>11. CASE UNCHANGED vars
  BY <1>11 DEF vars, sessionVars, loopVars, screenVars, historyVars
<1> QED
  BY <1>1, <1>2, <1>3, <1>4, <1>5, <1>6, <1>7, <1>8, <1>9, <1>10, <1>11 DEF Next, Loop

-----------------------------------------------------------------------------
\* The screen.

\* What present_and_refresh packs makes the framebuffer the new frame, and
\* what it leaves out is on the panel already, whatever is painted.
LEMMA PresentShows ==
  ASSUME TypeOK, refresh.full \/ Faithful, NEW picture \in Picture
  PROVE  /\ PresentRegion(fb, picture, Damage(picture)) = picture
         /\ \A px \in Pixels \ (lost \union In(Damage(picture))) :
              panel[px] = picture[px]
<1> DEFINE box == ComputeDamage(back, picture)
           region == Damage(picture)
<1>1. fb \in Picture /\ back \in Picture
  BY DEF TypeOK
<1>2. region = WholeScreen \/ (Faithful /\ region = box /\ ~IsEmpty(region))
  BY DEF Damage, DetermineWaveform
<1>3. PresentRegion(fb, picture, region) = picture
  <2>1. \/ region = WholeScreen
        \/ fb = back /\ region = box /\ ~IsEmpty(region)
    BY <1>2 DEF Faithful
  <2> HIDE DEF region
  <2> QED
    BY <1>1, <2>1, PresentCompletes
<1>4. ASSUME NEW px \in Pixels \ (lost \union In(region)) PROVE panel[px] = picture[px]
  <2>1. region # WholeScreen
    BY <1>4, WholeScreenIs
  <2>2. Faithful /\ region = box
    BY <1>2, <2>1
  <2>3. back[px] = picture[px]
    BY <1>1, <1>4, <2>2, DamageCovers
  <2> QED
    BY <1>4, <2>2, <2>3 DEF Faithful
<1> QED
  BY <1>3, <1>4

LEMMA ScreenKept == IInv /\ [Next]_vars => ScreenInv'
<1> SUFFICES ASSUME IInv, [Next]_vars PROVE ScreenInv'
  OBVIOUS
<1>0. TypeOK /\ ScreenInv
  BY DEF IInv
<1>1. CASE Check
  BY <1>0, <1>1 DEF Check, ScreenInv, Faithful, PanelShowsFrame, screenVars, historyVars
<1>2. CASE Poll
  BY <1>0, <1>2 DEF Poll, ScreenInv, Faithful, PanelShowsFrame, screenVars
<1>3. CASE StepFrame
  <2>1. refresh.full \/ Faithful
    BY <1>0, <1>3 DEF StepFrame, ScreenInv
  <2>2. refresh.full => refresh'.full
    BY <1>0, <1>3 DEF StepFrame, NotifyGameOver, DecrementFreeze, TypeOK, Coordinators
  <2>3. Faithful => Faithful'
    BY <1>3 DEF StepFrame, Faithful, screenVars, historyVars
  <2>4. pc' \in {"save", "present"}
    BY <1>3 DEF StepFrame
  <2> QED
    BY <2>1, <2>2, <2>3, <2>4 DEF ScreenInv, PanelShowsFrame
<1>4. CASE Save
  BY <1>0, <1>4 DEF Save, ScreenInv, Faithful, PanelShowsFrame, screenVars, historyVars
<1>5. CASE Present
  <2>1. refresh.full \/ Faithful
    BY <1>0, <1>5 DEF Present, ScreenInv
  <2>2. PICK picture \in Scenes :
          front' = picture /\ fb' = PresentRegion(fb, picture, Damage(picture))
    BY <1>5 DEF Present
  <2>3. pc' = "refresh" /\ UNCHANGED <<lost, panel, back, refresh>>
    BY <1>5 DEF Present, historyVars
  <2>4. Damage(front)' = Damage(picture)
    BY <2>2, <2>3 DEF Damage
  <2>5. picture \in Picture
    BY ApplicationAssumption
  <2>6. /\ fb' = picture
        /\ \A px \in Pixels \ (lost \union In(Damage(picture))) :
             panel[px] = picture[px]
    BY <1>0, <2>1, <2>2, <2>5, PresentShows
  <2> QED
    BY <2>2, <2>3, <2>4, <2>6 DEF ScreenInv, PanelShowsFrame
<1>6. CASE Refresh
  <2> DEFINE shown == In(Damage(front))
  <2>1. /\ fb = front
        /\ \A px \in Pixels \ (lost \union shown) : panel[px] = front[px]
    BY <1>0, <1>6 DEF Refresh, ScreenInv
  <2>2. /\ pc' = "sleep" /\ back' = front
        /\ UNCHANGED <<front, fb>>
    BY <1>6 DEF Refresh
  <2>3. \/ panel' = UpdatePanel(panel, fb, Damage(front)) /\ lost' = lost \ shown
        \/ panel' = panel /\ lost' = lost \union shown
    BY <1>6 DEF Refresh
  <2>4. ASSUME NEW px \in Pixels \ lost' PROVE panel'[px] = fb[px]
    <3>1. CASE panel' = UpdatePanel(panel, fb, Damage(front)) /\ lost' = lost \ shown
      <4>1. panel'[px] = IF px \in shown THEN fb[px] ELSE panel[px]
        BY <3>1 DEF UpdatePanel
      <4> HIDE DEF shown
      <4> QED
        BY <2>1, <3>1, <4>1
    <3>2. CASE panel' = panel /\ lost' = lost \union shown
      <4> HIDE DEF shown
      <4> QED
        BY <2>1, <3>2
    <3> QED
      BY <2>3, <3>1, <3>2
  <2> QED
    BY <2>1, <2>2, <2>4 DEF ScreenInv, Faithful, PanelShowsFrame
<1>7. CASE Sleep
  BY <1>0, <1>7 DEF Sleep, ScreenInv, Faithful, PanelShowsFrame, screenVars
<1>8. CASE Signal
  <2>1. UNCHANGED <<pc, refresh, front, back, fb, panel, lost>>
    BY <1>8 DEF Signal, screenVars, historyVars
  <2> QED
    BY <1>0, <2>1 DEF ScreenInv, Faithful, PanelShowsFrame, Damage
<1>9. CASE Kill
  BY <1>9 DEF Kill, ScreenInv, PanelShowsFrame
<1>10. CASE Launch
  BY <1>10 DEF Launch, ScreenInv, PanelShowsFrame, NewRefresh
<1>11. CASE UNCHANGED vars
  <2>1. UNCHANGED <<pc, refresh, front, back, fb, panel, lost>>
    BY <1>11 DEF vars, screenVars, historyVars
  <2> QED
    BY <1>0, <2>1 DEF ScreenInv, Faithful, PanelShowsFrame, Damage
<1> QED
  BY <1>1, <1>2, <1>3, <1>4, <1>5, <1>6, <1>7, <1>8, <1>9, <1>10, <1>11 DEF Next, Loop

-----------------------------------------------------------------------------
\* The record, the triggers and the order to stop.

LEMMA RecordKept == IInv /\ [Next]_vars => RecordInv' /\ stored' >= stored
<1> SUFFICES ASSUME IInv, [Next]_vars PROVE RecordInv' /\ stored' >= stored
  OBVIOUS
<1>0. TypeOK /\ RecordInv /\ high \in Nat /\ stored \in Nat
  BY DEF IInv, TypeOK
<1>1. CASE Check \/ Poll \/ Present \/ Refresh \/ Sleep
  <2>1. UNCHANGED <<high, over, stored>> /\ Running /\ pc # "save"
    BY <1>1 DEF Check, Poll, Present, Refresh, Sleep, Running, sessionVars
  <2> QED
    BY <1>0, <2>1 DEF RecordInv, SavedBeforeShown
<1>2. CASE StepFrame
  <2>1. /\ stored' = stored /\ pc = "step"
        /\ over' /\ pc' # "save" => over /\ high' = high
    BY <1>2 DEF StepFrame, EngineStep, Play, EndRun, StartRun, sessionVars
  <2>2. high' \in Nat /\ high' >= high
    BY <1>0, <1>2, EngineStepTypes DEF StepFrame, sessionVars
  <2> QED
    BY <1>0, <2>1, <2>2 DEF RecordInv, SavedBeforeShown, Running
<1>3. CASE Save
  BY <1>0, <1>3 DEF Save, RecordInv, SavedBeforeShown, sessionVars
<1>4. CASE Signal \/ Kill \/ UNCHANGED vars
  <2>1. UNCHANGED <<high, over, stored>> /\ pc' \in {pc, "down"}
    BY <1>4 DEF Signal, Kill, vars, sessionVars
  <2> QED
    BY <1>0, <2>1 DEF RecordInv, SavedBeforeShown, Running
<1>5. CASE Launch
  BY <1>0, <1>5 DEF Launch, LoadHigh, RecordInv, SavedBeforeShown
<1> QED
  BY <1>1, <1>2, <1>3, <1>4, <1>5 DEF Next, Loop

LEMMA TriggersKept ==
  IInv /\ [Next]_vars =>
    /\ TriggerInv'
    /\ Running /\ over /\ Running' /\ ~over' => "restart" \in polled
<1> SUFFICES ASSUME IInv, [Next]_vars
             PROVE  /\ TriggerInv'
                    /\ Running /\ over /\ Running' /\ ~over' => "restart" \in polled
  OBVIOUS
<1>0. TypeOK /\ TriggerInv
  BY DEF IInv
<1>1. CASE Check \/ Save \/ Present \/ Sleep
  <2>1. /\ UNCHANGED <<pending, over>> /\ pc \notin {"step", "down"} /\ pc' # "step"
    BY <1>1 DEF Check, Save, Present, Sleep, sessionVars, loopVars
  <2> QED
    BY <1>0, <2>1 DEF TriggerInv
<1>2. CASE Refresh
  <2>1. /\ UNCHANGED <<pending, over>> /\ pc \notin {"step", "down"} /\ pc' # "step"
    BY <1>2 DEF Refresh, sessionVars
  <2> QED
    BY <1>0, <2>1 DEF TriggerInv
<1>3. CASE Poll
  <2>1. pending = {} /\ UNCHANGED over /\ pc' = "step" /\ pending' = pending \union polled'
    BY <1>0, <1>3 DEF Poll, TriggerInv, sessionVars
  <2> QED
    BY <2>1 DEF TriggerInv
<1>4. CASE StepFrame
  <2>1. pending' = {}
    BY <1>4 DEF StepFrame
  <2>2. pending \subseteq polled
    BY <1>0, <1>4 DEF StepFrame, TriggerInv
  <2>3. over /\ ~over' => "restart" \in pending
    BY <1>4 DEF StepFrame, EngineStep, Play, EndRun, sessionVars
  <2> QED
    BY <2>1, <2>2, <2>3 DEF TriggerInv
<1>5. CASE Signal \/ UNCHANGED vars
  BY <1>0, <1>5 DEF Signal, TriggerInv, vars, sessionVars, loopVars, historyVars
<1>6. CASE Kill
  BY <1>6 DEF Kill, TriggerInv, Running
<1>7. CASE Launch
  BY <1>7 DEF Launch, TriggerInv, Running
<1> QED
  BY <1>1, <1>2, <1>3, <1>4, <1>5, <1>6, <1>7 DEF Next, Loop

LEMMA StopKept == IInv /\ [Next]_vars => StopInv'
<1> SUFFICES ASSUME IInv, [Next]_vars PROVE StopInv'
  OBVIOUS
<1>0. StopInv
  BY DEF IInv
<1>1. CASE Check
  BY <1>0, <1>1 DEF Check, StopInv, ToldToStop, loopVars, historyVars
<1>2. CASE Poll
  BY <1>0, <1>2 DEF Poll, StopInv
<1>3. CASE StepFrame \/ Save \/ Present
  BY <1>0, <1>3 DEF StepFrame, Save, Present, StopInv, historyVars
<1>4. CASE Refresh
  BY <1>0, <1>4 DEF Refresh, StopInv, ToldToStop
<1>5. CASE Sleep
  BY <1>0, <1>5 DEF Sleep, StopInv, ToldToStop, loopVars
<1>6. CASE Signal \/ Kill \/ UNCHANGED vars
  BY <1>0, <1>6 DEF Signal, Kill, vars, StopInv, ToldToStop, loopVars, historyVars
<1>7. CASE Launch
  BY <1>7 DEF Launch, StopInv
<1> QED
  BY <1>1, <1>2, <1>3, <1>4, <1>5, <1>6, <1>7 DEF Next, Loop

LEMMA WaveformKept == IInv /\ [Next]_vars => WaveformInv'
<1> SUFFICES ASSUME IInv, [Next]_vars PROVE WaveformInv'
  OBVIOUS
<1>0. /\ WaveformInv /\ refresh \in Coordinators
      /\ pc \in {"check", "poll", "step", "save", "present", "refresh", "sleep", "down"}
  BY DEF IInv, TypeOK
<1>1. CASE Check \/ Poll \/ Sleep \/ Kill
  <2>1. UNCHANGED refresh /\ pc' \notin {"save", "present", "refresh"}
    BY <1>1 DEF Check, Poll, Sleep, Kill
  <2> QED
    BY <1>0, <2>1 DEF WaveformInv, IsFrozen, CrashesAreCleared
<1>2. CASE StepFrame
  <2>1. ~IsFrozen(refresh)
    BY <1>0 DEF WaveformInv
  <2>2. IF over' THEN refresh' = NotifyGameOver(refresh) /\ pc' = "save"
                 ELSE pc' = "present" /\ UNCHANGED refresh
    BY <1>2, <2>1 DEF StepFrame
  <2>3. CASE over'
    <3>1. refresh' = [refresh EXCEPT !.full = TRUE]
      BY <2>2, <2>3 DEF NotifyGameOver
    <3>2. refresh'.full = TRUE /\ refresh'.freeze = refresh.freeze
      BY <1>0, <3>1 DEF Coordinators
    <3> QED
      BY <2>1, <3>2 DEF WaveformInv, IsFrozen, CrashesAreCleared
  <2>4. CASE ~over'
    BY <2>1, <2>2, <2>4 DEF WaveformInv, IsFrozen, CrashesAreCleared
  <2> QED
    BY <2>3, <2>4
<1>3. CASE Save \/ Present
  <2>1. UNCHANGED <<refresh, over>> /\ pc \in {"save", "present"}
    BY <1>3 DEF Save, Present, sessionVars
  <2> QED
    BY <1>0, <2>1 DEF WaveformInv, IsFrozen, CrashesAreCleared
<1>4. CASE Refresh
  <2>1. refresh' = [refresh EXCEPT !.full = FALSE] /\ pc' = "sleep"
    BY <1>4 DEF Refresh, Acknowledge
  <2>2. refresh'.freeze = refresh.freeze
    BY <1>0, <2>1 DEF Coordinators
  <2> QED
    BY <1>0, <2>1, <2>2 DEF WaveformInv, IsFrozen, CrashesAreCleared
<1>5. CASE Signal \/ UNCHANGED vars
  <2>1. UNCHANGED <<refresh, over, pc>>
    BY <1>5 DEF Signal, vars, sessionVars
  <2> QED
    BY <1>0, <2>1 DEF WaveformInv, IsFrozen, CrashesAreCleared
<1>6. CASE Launch
  <2>1. refresh'.freeze = 0 /\ pc' = "check"
    BY <1>6 DEF Launch, NewRefresh
  <2> QED
    BY <2>1 DEF WaveformInv, IsFrozen, CrashesAreCleared
<1> QED
  BY <1>1, <1>2, <1>3, <1>4, <1>5, <1>6 DEF Next, Loop

LEMMA Invariance == Spec => []IInv
<1>1. IInv /\ [Next]_vars => IInv'
  BY TypeKept, ScreenKept, RecordKept, TriggersKept, StopKept, WaveformKept DEF IInv
<1> QED
  BY InitInv, <1>1, PTL DEF Spec

-----------------------------------------------------------------------------

\* The process, the screen and the file stay within their types.
THEOREM TypeCorrect == Spec => []TypeOK
<1>1. IInv => TypeOK
  BY DEF IInv
<1> QED
  BY <1>1, Invariance, PTL

\* The framebuffer holds each frame that was shown, and the panel too but
\* for updates the controller dropped (application.cpp:48-67): the damage is
\* computed from the frame before, which the framebuffer holds except before
\* the first refresh of a process, and that one is full.
THEOREM ScreenCorrect == Spec => []PanelShowsFrame
<1>1. IInv => PanelShowsFrame
  BY DEF IInv, ScreenInv
<1> QED
  BY <1>1, Invariance, PTL

\* The record is in the file before the crash is on the screen
\* (application.cpp:42-45).
THEOREM RecordSaved == Spec => []SavedBeforeShown
<1>1. IInv => SavedBeforeShown
  BY DEF IInv, RecordInv
<1> QED
  BY <1>1, Invariance, PTL

\* No run, kill or launch makes the file go back (application.cpp:24-25).
THEOREM RecordMonotone == Spec => RecordNeverFalls
<1>1. IInv /\ [Next]_vars => [stored' >= stored]_vars
  BY RecordKept
<1> QED
  BY <1>1, Invariance, PTL DEF Spec, RecordNeverFalls

\* A trigger does not outlive its frame (input_state.cpp:25-27).
THEOREM RestartsAsked == Spec => NoGhostRestart
<1>1. IInv /\ [Next]_vars =>
        [Running /\ over /\ Running' /\ ~over' => "restart" \in polled]_vars
  BY TriggersKept
<1> QED
  BY <1>1, Invariance, PTL DEF Spec, NoGhostRestart

\* The loop looks at the order to stop before each frame
\* (application.cpp:79-81).
THEOREM StopsPromptly == Spec => []StopsWithinFrame
<1>1. IInv => StopsWithinFrame
  BY DEF IInv, StopInv, StopsWithinFrame
<1> QED
  BY <1>1, Invariance, PTL

\* Every game-over frame is a full refresh (application.cpp:40-46).
THEOREM CrashesCleared == Spec => []CrashesAreCleared
<1>1. IInv => CrashesAreCleared
  BY DEF IInv, WaveformInv
<1> QED
  BY <1>1, Invariance, PTL

\* And no frame is frozen, although the coordinator can freeze the game and
\* the loop allows for it: the branch of step_frame that skips the engine is
\* dead code as long as nothing calls notify_milestone
\* (application.cpp:34-37, refresh_coordinator.cpp:16-19).
THEOREM NeverFrozen == Spec => []~IsFrozen(refresh)
<1>1. IInv => ~IsFrozen(refresh)
  BY DEF IInv, WaveformInv
<1> QED
  BY <1>1, Invariance, PTL

=============================================================================
