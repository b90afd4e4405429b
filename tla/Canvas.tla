------------------------------- MODULE Canvas -------------------------------
(***************************************************************************)
(* Painting into a row-major buffer (src/graphics/canvas.cpp) and the text *)
(* font (bitmap_font.cpp).  A frame is painted in one colour on a cleared  *)
(* canvas, so a painting operation is the set of the buffer's indices it   *)
(* writes, its ink, and the order of painting does not matter.  A bitmap   *)
(* mask is its width, its height and the indices of the bits that are set; *)
(* the bytes they are packed into are left out.                            *)
(***************************************************************************)
EXTENDS Screen, Sequences

CONSTANTS
  Glyph,       \* character -> mask; a character outside is drawn as "A"
  GlyphWidth,  \* BitmapFont::GLYPH_WIDTH (5)
  CharSpacing  \* BitmapFont::CHAR_SPACING (2)

Masks ==
  {m \in [w : Nat, h : Nat, bits : SUBSET Nat] : m.bits \subseteq 0..m.w * m.h - 1}

ASSUME CanvasAssumption ==
  /\ "A" \in DOMAIN Glyph
  /\ \A c \in DOMAIN Glyph : Glyph[c] \in Masks /\ Glyph[c].w = GlyphWidth
  /\ GlyphWidth \in Nat /\ CharSpacing \in Nat

\* Mutant: the left edge is not looked at.
IsInsideRight(x, y) == x < Width /\ 0 <= y /\ y < Height

IsInside(x, y) == 0 <= x /\ x < Width /\ 0 <= y /\ y < Height

IndexOf(x, y) == y * Width + x

\* Canvas::set_pixel.
SetPixel(x, y) == IF IsInside(x, y) THEN {IndexOf(x, y)} ELSE {}

\* Canvas::fill_rect.
FillRect(box) ==
  LET clipped == ClampedTo(box, WholeScreen)
  IN  {IndexOf(x, y) : x \in clipped.x..Right(clipped) - 1,
                       y \in clipped.y..Bottom(clipped) - 1}

\* Canvas::draw_rect_outline.
RectOutline(box) ==
  IF IsEmpty(box) THEN {}
  ELSE UNION ({SetPixel(x, y) : x \in box.x..Right(box) - 1, y \in {box.y, Bottom(box) - 1}}
                \union
              {SetPixel(x, y) : x \in {box.x, Right(box) - 1}, y \in box.y..Bottom(box) - 1})

\* A mask to be drawn with its top left corner at x, y.
Blit(x, y, mask) == [x |-> x, y |-> y, mask |-> mask]

\* Canvas::draw_bitmap.
DrawBitmap(blit) ==
  UNION {SetPixel(blit.x + (bit % blit.mask.w), blit.y + (bit \div blit.mask.w))
           : bit \in blit.mask.bits}

\* get_glyph_rows.
GlyphOf(c) == IF c \in DOMAIN Glyph THEN Glyph[c] ELSE Glyph["A"]

\* BitmapFont::draw_text.
Text(x, y, text) ==
  {Blit(x + (i - 1) * (GlyphWidth + CharSpacing), y, GlyphOf(text[i])) : i \in DOMAIN text}

\* BitmapFont::measure_width.
TextWidth(text) ==
  IF text = << >> THEN 0
  ELSE Len(text) * (GlyphWidth + CharSpacing) - CharSpacing

-----------------------------------------------------------------------------
\* The reference reading of a mask and an outline, pixel by pixel.

Marks(blit, px) ==
  LET col == px[1] - blit.x
      row == px[2] - blit.y
  IN  /\ col \in 0..blit.mask.w - 1 /\ row \in 0..blit.mask.h - 1
      /\ row * blit.mask.w + col \in blit.mask.bits

OnOutline(box, px) ==
  /\ ~IsEmpty(box) /\ HasPixel(box, px[1], px[2])
  /\ \/ px[1] \in {box.x, Right(box) - 1}
     \/ px[2] \in {box.y, Bottom(box) - 1}

=============================================================================
