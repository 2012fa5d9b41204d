----------------------------- MODULE Framebuffer -----------------------------
(***************************************************************************)
(* The picture (ui/framebuffer.c, ui/epaper_drv.c): where a pixel is in    *)
(* the buffer and on the panel, and the box that a text or an image blacks *)
(* out.  A box is <<left, top, right, bottom>>, all inclusive.             *)
(***************************************************************************)
EXTENDS Integers, Sequences

W == 200
H == 200
RowBytes == W \div 8

Pixels == (0 .. W - 1) \X (0 .. H - 1)

\* The byte and the bit of a pixel, the leftmost pixel in the highest bit
\* (epaper_drv_set_pixel, build_tx_from_logical).
Address(x, y) == <<(y * RowBytes) + (x \div 8), 7 - (x % 8)>>

Bits == (0 .. RowBytes * H - 1) \X (0 .. 7)

\* fb_pixel drops what is outside; a black pixel clears its bit.  A buffer is
\* the set of its cleared bits.
Put(buf, x, y, black) ==
  IF <<x, y>> \notin Pixels THEN buf
  ELSE IF black THEN buf \cup {Address(x, y)} ELSE buf \ {Address(x, y)}

IsBlack(buf, x, y) == Address(x, y) \in buf

\* epaper_cfg.h: the three knobs of the orientation.
Knobs == [mirrorX : BOOLEAN, mirrorY : BOOLEAN, swap : BOOLEAN]

ToPanel(k, x, y) ==
  LET px == IF k.swap THEN y ELSE x
      py == IF k.swap THEN x ELSE y
  IN  <<IF k.mirrorX THEN W - 1 - px ELSE px, IF k.mirrorY THEN H - 1 - py ELSE py>>

\* build_tx_from_logical
Flush(k, buf) ==
  {Address(ToPanel(k, p[1], p[2])[1], ToPanel(k, p[1], p[2])[2]) :
     p \in {p \in Pixels : IsBlack(buf, p[1], p[2])}}

-----------------------------------------------------------------------------
(* Texts and images.  first and last are the rows of a font that any glyph *)
(* uses, ink the smallest box that holds what is not white in an image.    *)

Font(advance, height, first, last) ==
  [advance |-> advance, height |-> height, first |-> first, last |-> last]
g_font_sm == Font(8, 20, 3, 17)
g_font_md == Font(10, 24, 4, 20)
g_font_hd == Font(11, 28, 6, 24)
g_font_tt == Font(16, 40, 8, 34)
g_font_xl == Font(24, 60, 9, 52)

Image(size, ink) == [size |-> size, ink |-> ink]
g_img_mascot_default  == Image(104, <<17, 1, 86, 102>>)
g_img_mascot_happy    == Image(104, <<17, 1, 86, 102>>)
g_img_mascot_sleeping == Image(104, <<14, 1, 90, 102>>)
g_img_mascot_angry    == Image(104, <<18, 1, 86, 102>>)
g_img_cloud_lg        == Image(64, <<5, 11, 58, 52>>)
g_img_cloud_sm        == Image(16, <<1, 3, 14, 12>>)
g_img_mic_sm          == Image(22, <<4, 1, 17, 20>>)
g_img_check_sm        == Image(20, <<3, 5, 16, 14>>)
g_img_wifi            == Image(16, <<1, 2, 14, 13>>)   \* up, down or in error
g_img_batt            == Image(16, <<1, 3, 14, 12>>)   \* full, mid, low, empty

\* fb_text_width of n characters
TextWidth(font, n) == n * font.advance

\* fb_text
Text(font, x, y, n) ==
  <<x, y + font.first, x + TextWidth(font, n) - 1, y + font.last>>

\* fb_text_center
TextCenter(font, y, n) ==
  LET x == (W - TextWidth(font, n)) \div 2 IN Text(font, IF x < 0 THEN 0 ELSE x, y, n)

\* fb_text_right
TextRight(font, right, y, n) == Text(font, right - TextWidth(font, n), y, n)

\* fb_image
Picture(image, x, y) ==
  <<x + image.ink[1], y + image.ink[2], x + image.ink[3], y + image.ink[4]>>

\* fb_image_center
PictureCenter(image, y) == Picture(image, (W - image.size) \div 2, y)

Inside(box) == 0 <= box[1] /\ 0 <= box[2] /\ box[3] < W /\ box[4] < H
Apart(a, b) == a[3] < b[1] \/ b[3] < a[1] \/ a[4] < b[2] \/ b[4] < a[2]
=============================================================================
