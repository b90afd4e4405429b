------------------------------ MODULE Display -------------------------------
(***************************************************************************)
(* From the engine's state to the framebuffer, frame by frame: the engine  *)
(* steps, SceneRenderer::render (src/graphics/scene_renderer.cpp) paints   *)
(* the new state, and Application::present_and_refresh (src/application/   *)
(* application.cpp) copies to the framebuffer what changed.  The loop      *)
(* around it, its signals and its controller are module Application.       *)
(***************************************************************************)
EXTENDS GameEngine, Renderer, RefreshCoordinator

CONSTANT Leftovers \* what the Kindle's own software can have left behind

ASSUME DisplayAssumption ==
  /\ {"White", "Black"} \subseteq Shades
  /\ Leftovers \subseteq Picture
  /\ GroundRepeat = Width \* the pattern closes at the edge (600 both)

\* The first row below the score.
HudBottom == Layout.HudY + Digit[0].h

\* Where the parts of the picture stand to each other.  The ten digits have
\* one size and ten bitmaps.  From left to right, and on the screen: "HI",
\* the high score, the score.  Everything else stands below them, a
\* dinosaur at the top of its jump included, whose rise is at most
\* (2 * JumpSpeed + Gravity)^2 / (8 * Gravity); the debug text may stand above.
ASSUME HudAssumption ==
  /\ \A d \in 0..9 : HasSize(Digit[d], Digit[0])
  /\ \A d, e \in 0..9 : d # e => Digit[d] # Digit[e]
  /\ Digit[0].w <= Layout.DigitPitch
  /\ 4 * Layout.DigitPitch + Digit[0].w <= Layout.ScoreInset
  /\ Layout.ScoreInset + Layout.HighInset - Layout.HighDigits <= Width
  /\ SpriteMask["HI"].w <= Layout.HighDigits
  /\ Layout.HighDigits + 4 * Layout.DigitPitch + Digit[0].w <= Layout.HighInset
  /\ HudBottom <= Height
  /\ \A k \in Kinds : Sprite[k].y >= HudBottom
  /\ \A size \in {StandSize, DuckSize} :
       (2 * JumpSpeed + Gravity) * (2 * JumpSpeed + Gravity)
         <= 8 * Gravity * (GroundY - size.h - HudBottom)
  /\ \A p \in {"BannerY", "RestartY", "HintY"} : Layout[p] >= HudBottom
  /\ \A c \in DOMAIN Glyph :
       Layout.DebugY + Glyph[c].h <= Layout.HudY \/ Layout.DebugY >= HudBottom

VARIABLES
  debug,   \* SceneRenderer::debug_overlay_, set once at start-up
  tick,    \* SceneRenderer::animation_tick_
  refresh, \* the RefreshCoordinator
  canvas,  \* front and back canvas, alike between two frames
  fb       \* the framebuffer

displayVars == <<debug, tick, refresh, canvas, fb>>

DisplayInit ==
  /\ Init
  /\ debug \in BOOLEAN /\ tick = 0 /\ refresh = NewRefresh
  /\ canvas = [px \in Pixels |-> "White"]
  /\ fb \in Leftovers

Background(night) == IF night THEN "Black" ELSE "White"
Foreground(night) == IF night THEN "White" ELSE "Black"

-----------------------------------------------------------------------------

\* The bitmaps of the frame for the present state.
Blits ==
  Sprites(player, obstacles, clouds, tick)
    \union Hud(score.current, score.high)
    \union (IF debug THEN Text(Layout.DebugX, Layout.DebugY, DebugText) ELSE {})
    \union (IF gameOver THEN GameOverScreen ELSE {})

Outlines == IF debug THEN DebugBoxes(player, obstacles) ELSE {}

\* The indices SceneRenderer::render paints.
Ink ==
  (UNION {DrawBitmap(b) : b \in Blits}) \union (UNION {RectOutline(box) : box \in Outlines})
    \union FillRect(GroundLine) \union GroundBumps(ground)

\* The canvas after SceneRenderer::render: cleared, then painted.
Render(ink, night) ==
  [px \in Pixels |-> IF IndexOf(px[1], px[2]) \in ink THEN Foreground(night)
                                                     ELSE Background(night)]

\* The region that is presented.
Damage(previous, current, waveform) ==
  LET box == ComputeDamage(previous, current)
  IN  IF waveform = "FullGrayscaleClear" \/ IsEmpty(box) THEN WholeScreen ELSE box

\* Present and refresh the state the engine has reached.
PresentAndRefresh ==
  LET told == IF gameOver' THEN NotifyGameOver(refresh) ELSE refresh
  IN  /\ UNCHANGED debug
      /\ tick' = 1 - tick
      /\ \E ink \in {Ink'} : canvas' = Render(ink, theme'.night) \* the ink of the new state
      /\ fb' = PresentRegion(fb, canvas', Damage(canvas, canvas', DetermineWaveform(told)))
      /\ refresh' = Acknowledge(told)

\* One frame of the loop.
ShowFrame(input) == Step(input) /\ PresentAndRefresh

DisplayNext == \E input \in Inputs : ShowFrame(input)

DisplaySpec == DisplayInit /\ [][DisplayNext]_<<vars, displayVars>>

-----------------------------------------------------------------------------
\* Properties.

\* The first full refresh has been acknowledged.
Shown == ~refresh.full

\* The picture as it should be, pixel by pixel: a pattern of ground that
\* scrolls past, and bitmaps and outlines in front of it.
Marked(px, blits, outlines) ==
  \/ \E b \in blits : Marks(b, px)
  \/ \E box \in outlines : OnOutline(box, px)
  \/ px[2] \in GroundY..GroundY + Layout.LineHeight - 1
  \/ \E b \in Bumps : /\ px[2] = GroundY + b.dy
                      /\ (px[1] + ground - b.x) % GroundRepeat < b.length

\* Once a frame is shown the framebuffer holds the game's picture to the
\* pixel: what is partly off the screen is cut and never wraps into another
\* row, the ground pattern closes at the edge, and what left a place is
\* wiped there, on the screen the game was started on as in every later
\* frame (canvas.cpp:26-90, sprite_renderer.cpp:49-73, application.cpp:48-67).
FramebufferShowsGame ==
  LET blits    == Blits
      outlines == Outlines
  IN  Shown => \A px \in Pixels :
                 fb[px] = IF Marked(px, blits, outlines) THEN Foreground(theme.night)
                                                         ELSE Background(theme.night)

\* A digit that can be read at the place, and the number of five of them.
ReadDigit(x) ==
  CHOOSE d \in 0..9 :
    \A col \in 0..Digit[d].w - 1, row \in 0..Digit[d].h - 1 :
      row * Digit[d].w + col \in Digit[d].bits <=>
        fb[<<x + col, Layout.HudY + row>>] = Foreground(theme.night)

ReadNumber(x) ==
  LET digit(i) == ReadDigit(x + i * Layout.DigitPitch)
  IN  10000 * digit(0) + 1000 * digit(1) + 100 * digit(2) + 10 * digit(3) + digit(4)

\* The score and the high score can be read off the framebuffer: their
\* digits are in order, and no sprite, banner or overlay runs into them,
\* by day and by night (scene_renderer.cpp:10-22, 47-59).
HudShowsScores ==
  Shown => /\ ReadNumber(ScoreX) = score.current % 100000
           /\ ReadNumber(HighX + Layout.HighDigits) = score.high % 100000

\* After a crash the picture stands still, although every frame is painted
\* and fully refreshed: nothing but the wings of pterodactyls moves
\* (scene_renderer.cpp:96, sprite_renderer.cpp:16-47).
RestIsStill ==
  [][Shown /\ gameOver /\ gameOver' =>
       \A px \in Pixels : fb'[px] # fb[px] =>
         \E i \in DOMAIN obstacles :
           /\ obstacles[i].kind \in FlyingKinds
           /\ HasPixel(ObstacleHitbox(obstacles[i], 0), px[1], px[2])]_<<vars, displayVars>>

=============================================================================
