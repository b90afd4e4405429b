------------------------------- MODULE Screen -------------------------------
(***************************************************************************)
(* From a painted canvas to the electronic paper: FrameDiffer              *)
(* (src/graphics/frame_differ.cpp), PackedGray::pack_region and            *)
(* FrameBufferFb0::present (src/hal/packed_gray.cpp, frame_buffer_fb0.cpp) *)
(* and EinkControllerMxc::update.  A picture is a function from pixels to  *)
(* shades.  The framebuffer packs two shades of four bits into a byte,     *)
(* which loses nothing of a 16-shade pixel, so it is a picture as well;    *)
(* that two neighbours share a byte shows in the region that is packed.    *)
(***************************************************************************)
EXTENDS Geometry, FiniteSetsExt

CONSTANTS
  Width, Height, \* of canvas and panel (600 x 800)
  Shades         \* of a pixel

ASSUME ScreenAssumption ==
  /\ Width \in Nat \ {0} /\ Width % 2 = 0
  /\ Height \in Nat \ {0}

Pixels   == (0..Width - 1) \X (0..Height - 1)
Picture  == [Pixels -> Shades]

WholeScreen == [x |-> 0, y |-> 0, w |-> Width, h |-> Height]

\* The pixels of a region.
In(region) == {px \in Pixels : HasPixel(region, px[1], px[2])}

\* FrameDiffer::compute_damage: the smallest box around the changed pixels.
ComputeDamage(previous, current) ==
  LET changed == {px \in Pixels : previous[px] # current[px]}
      xs == {px[1] : px \in changed}
      ys == {px[2] : px \in changed}
  IN  IF changed = {} THEN EmptyBox
      ELSE [x |-> Min(xs), y |-> Min(ys),
            w |-> Max(xs) - Min(xs) + 1, h |-> Max(ys) - Min(ys) + 1]

\* The region that is packed for a box: widened to whole bytes, that is to
\* even columns, and clamped to the screen.
PackedRegion(region) ==
  LET left   == Max({0, region.x - (region.x % 2)})
      right  == Min({Width, Right(region) + (Right(region) % 2)})
      top    == Max({0, region.y})
      bottom == Min({Height, Bottom(region)})
  IN  [x |-> left, y |-> top, w |-> right - left, h |-> bottom - top]

\* PackedGray::pack_region: what the framebuffer holds afterwards.
PackRegion(fb, canvas, region) ==
  LET packed == In(PackedRegion(region))
  IN  [px \in Pixels |-> IF px \in packed THEN canvas[px] ELSE fb[px]]

\* FrameBufferFb0::present.
PresentRegion(fb, canvas, region) ==
  IF IsEmpty(region) THEN fb ELSE PackRegion(fb, canvas, region)

\* What the panel shows after the controller has carried out an update of
\* the region: the framebuffer there, what it showed before elsewhere.
UpdatePanel(panel, fb, region) ==
  [px \in Pixels |-> IF px \in In(region) THEN fb[px] ELSE panel[px]]

=============================================================================
