------------------------------ MODULE Renderer ------------------------------
(***************************************************************************)
(* What a frame of the game looks like: SceneRenderer (src/graphics/       *)
(* scene_renderer.cpp) and SpriteRenderer (sprite_renderer.cpp).  The      *)
(* bitmaps of sprite_data.cpp and ui_sprites.cpp are constants, of which   *)
(* only the sizes matter to the game.                                      *)
(***************************************************************************)
EXTENDS Canvas, Player, Collections, Scoring

CONSTANTS
  SpriteMask,   \* name -> mask: every pose, obstacle, cloud and banner
  Digit,        \* 0..9 -> mask
  Bumps,        \* the ground pattern: a set of [x, dy, length]
  Layout,       \* where the fixed parts stand
  Hint,         \* the text below the restart button
  DebugText     \* the text of the debug overlay

SpriteNames ==
  {"DinoStanding", "DinoRunLeft", "DinoRunRight", "DinoDuckLeft", "DinoDuckRight",
   "DinoCrashed", "SmallCactus", "LargeCactus", "PteroWingUp", "PteroWingDown",
   "Cloud", "HI", "GameOver", "RestartButton"}

Places == {"HudY", "DigitPitch", "ScoreInset", "HighInset", "HighDigits",
           "BannerY", "RestartY", "HintY", "DebugX", "DebugY", "LineHeight"}

\* A mask has the size the game's boxes are computed with.
HasSize(mask, box) == mask.w = box.w /\ mask.h = box.h

ASSUME RendererAssumption ==
  /\ SpriteMask \in [SpriteNames -> Masks] /\ Digit \in [0..9 -> Masks]
  /\ Bumps \subseteq [x : 0..GroundRepeat - 1, dy : Nat, length : Nat]
  /\ Layout \in [Places -> Nat]
  /\ Hint \in Seq(STRING) /\ DebugText \in Seq(STRING)
  /\ \A n \in {"DinoStanding", "DinoRunLeft", "DinoRunRight", "DinoCrashed"} :
       HasSize(SpriteMask[n], StandSize)
  /\ \A n \in {"DinoDuckLeft", "DinoDuckRight"} : HasSize(SpriteMask[n], DuckSize)
  /\ \A k \in GroundKinds \union {"Cloud"} : HasSize(SpriteMask[k], Sprite[k])
  /\ \A n \in {"PteroWingUp", "PteroWingDown"}, k \in FlyingKinds :
       HasSize(SpriteMask[n], Sprite[k])

-----------------------------------------------------------------------------
\* SpriteRenderer.

\* pick_dino_mask, with pick_duck_mask and pick_run_mask.
DinoMask(p) ==
  SpriteMask[CASE p.pose = "Crashed" -> "DinoCrashed"
               [] p.pose = "Ducking" -> IF p.leg = 0 THEN "DinoDuckLeft" ELSE "DinoDuckRight"
               [] p.pose = "Jumping" -> "DinoStanding"
               [] OTHER -> IF p.leg = 0 THEN "DinoRunLeft" ELSE "DinoRunRight"]

\* Mutant: a large cactus is taken for a pterodactyl.
ObstacleMaskFlapping(kind, tick) ==
  SpriteMask[CASE kind = "SmallCactus" -> "SmallCactus"
               [] OTHER -> IF tick = 0 THEN "PteroWingUp" ELSE "PteroWingDown"]

\* pick_obstacle_mask.
ObstacleMask(kind, tick) ==
  SpriteMask[CASE kind = "SmallCactus" -> "SmallCactus"
               [] kind = "LargeCactus" -> "LargeCactus"
               [] OTHER -> IF tick = 0 THEN "PteroWingUp" ELSE "PteroWingDown"]

\* draw_single_bump for every bump, at the ground's scroll offset.
GroundBumps(offset) ==
  UNION {LET left == (b.x - (offset % GroundRepeat) + GroundRepeat) % GroundRepeat
         IN  UNION {SetPixel((left + dx) % Width, GroundY + b.dy) : dx \in 0..b.length - 1}
           : b \in Bumps}

GroundLine == [x |-> 0, y |-> GroundY, w |-> Width, h |-> Layout.LineHeight]

-----------------------------------------------------------------------------
\* SceneRenderer.

\* Mutant: the digits come out in reverse.
FiveDigitsReversed(x, value) ==
  {Blit(x + i * Layout.DigitPitch, Layout.HudY, Digit[(value \div 10^i) % 10]) : i \in 0..4}

\* The divisors array of draw_5_digits.
Divisor == <<10000, 1000, 100, 10, 1>>

\* draw_5_digits: what is above 99999 is cut off.
FiveDigits(x, value) ==
  {Blit(x + i * Layout.DigitPitch, Layout.HudY, Digit[(value \div Divisor[i + 1]) % 10])
     : i \in 0..4}

ScoreX == Width - Layout.ScoreInset
HighX  == ScoreX - Layout.HighInset

\* render_hud.
Hud(points, high) ==
  FiveDigits(ScoreX, points)
    \union {Blit(HighX, Layout.HudY, SpriteMask["HI"])}
    \union FiveDigits(HighX + Layout.HighDigits, high)

Centred(width) == (Width - width) \div 2

\* render_game_over.
GameOverScreen ==
  {Blit(Centred(SpriteMask["GameOver"].w), Layout.BannerY, SpriteMask["GameOver"]),
   Blit(Centred(SpriteMask["RestartButton"].w), Layout.RestartY, SpriteMask["RestartButton"])}
    \union Text(Centred(TextWidth(Hint)), Layout.HintY, Hint)

\* render_environment and render_actors.
Sprites(p, obs, cs, tick) ==
  {Blit(c.x, Sprite["Cloud"].y, SpriteMask["Cloud"]) : c \in {cs[i] : i \in DOMAIN cs}}
    \union
  {Blit(o.x, Sprite[o.kind].y, ObstacleMask(o.kind, tick)) : o \in {obs[i] : i \in DOMAIN obs}}
    \union
  {Blit(PlayerBox(p).x, PlayerBox(p).y, DinoMask(p))}

\* The boxes render_debug_overlay outlines.
DebugBoxes(p, obs) ==
  {PlayerHitbox(p)} \union {ObstacleHitbox(obs[i], HitboxInset) : i \in DOMAIN obs}

=============================================================================
