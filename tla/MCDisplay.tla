----------------------------- MODULE MCDisplay ------------------------------
(***************************************************************************)
(* A screen of 12 x 19 pixels for module Display.  The parts stand to each *)
(* other as on the real one: the heads-up display above everything that    *)
(* moves, the ground pattern as wide as the screen, a bump at its seam,    *)
(* sprites that enter and leave over either edge.                          *)
(***************************************************************************)
EXTENDS Display

Dims(width, height) == [w |-> width, h |-> height]

TinyStand == Dims(4, 4)
TinyDuck  == Dims(5, 3)

TinySprite ==
  [k \in Kinds |->
     CASE k = "SmallCactus"     -> [w |-> 3, h |-> 3, y |-> 12]
       [] k = "LargeCactus"     -> [w |-> 4, h |-> 4, y |-> 11]
       [] k = "PterodactylLow"  -> [w |-> 4, h |-> 3, y |-> 11]
       [] k = "PterodactylHigh" -> [w |-> 4, h |-> 3, y |-> 8]
       [] k = "Cloud"           -> [w |-> 3, h |-> 2, y |-> 5]]

\* A mask whose set bits are those with an index of the given residue.
Every(step, residue, size) ==
  [w |-> size.w, h |-> size.h,
   bits |-> {bit \in 0..size.w * size.h - 1 : bit % step = residue}]

TinyMasks ==
  [n \in SpriteNames |->
     CASE n = "DinoStanding"  -> Every(2, 0, TinyStand)
       [] n = "DinoRunLeft"   -> Every(3, 0, TinyStand)
       [] n = "DinoRunRight"  -> Every(3, 1, TinyStand)
       [] n = "DinoCrashed"   -> Every(3, 2, TinyStand)
       [] n = "DinoDuckLeft"  -> Every(4, 0, TinyDuck)
       [] n = "DinoDuckRight" -> Every(4, 1, TinyDuck)
       [] n = "SmallCactus"   -> Every(2, 0, Dims(3, 3))
       [] n = "LargeCactus"   -> Every(2, 1, Dims(4, 4))
       [] n = "PteroWingUp"   -> Every(3, 0, Dims(4, 3))
       [] n = "PteroWingDown" -> Every(3, 1, Dims(4, 3))
       [] n = "Cloud"         -> Every(1, 0, Dims(3, 2))
       [] n = "HI"            -> Every(1, 0, Dims(1, 2))
       [] n = "GameOver"      -> Every(2, 1, Dims(5, 1))
       [] n = "RestartButton" -> Every(1, 0, Dims(2, 1))]

\* A digit is a column of four bits.
TinyDigits ==
  [d \in 0..9 |->
     [w |-> 1, h |-> 4, bits |-> {bit \in 0..3 : ((d + 1) \div 2^bit) % 2 = 1}]]

TinyGlyphs ==
  [c \in {" ", "-", "A"} |->
     CASE c = " " -> [w |-> 1, h |-> 1, bits |-> {}]
       [] c = "-" -> [w |-> 1, h |-> 1, bits |-> {0}]
       [] c = "A" -> [w |-> 1, h |-> 1, bits |-> {0}]]

TinyBumps == {[x |-> 0, dy |-> 1, length |-> 1], [x |-> 10, dy |-> 2, length |-> 3]}

TinyLayout ==
  [p \in Places |->
     CASE p = "HudY"       -> 1
       [] p = "DigitPitch" -> 1
       [] p = "ScoreInset" -> 5
       [] p = "HighInset"  -> 7
       [] p = "HighDigits" -> 1
       [] p = "BannerY"    -> 6
       [] p = "RestartY"   -> 8
       [] p = "HintY"      -> 10
       [] p = "DebugX"     -> 0
       [] p = "DebugY"     -> 0
       [] p = "LineHeight" -> 2]

\* "[SPACE / UP]" and "DBG: HITBOX ON", in short.
TinyHint  == <<"[", " ", "U">>
TinyDebug == <<"D", " ", "O">>

TinyInputs ==
  {[jump |-> pressed = "jump", duck |-> pressed = "duck", restart |-> pressed = "restart"]
     : pressed \in {"jump", "duck", "restart", "nothing"}}

PlainScreens == {[px \in Pixels |-> s] : s \in Shades}

=============================================================================
