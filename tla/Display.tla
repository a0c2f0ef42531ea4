------------------------------- MODULE Display --------------------------------
(***************************************************************************)
(* The desktop the server draws, kept twice: in the backing store of       *)
(* bsops.c and, as far as the window shows it, on the screen (win32.c).    *)
(* The drawing calls of uimain.c change both; the window is scrolled,      *)
(* resized and uncovered meanwhile, and WM_PAINT restores from the backing *)
(* store whatever the window manager has put in the update region.  The    *)
(* server, the window manager and GDI are external.                        *)
(*                                                                         *)
(* A pixel is one bit, which is what a raster operation works on.  The     *)
(* server is taken to stay within the desktop it was given.                *)
(***************************************************************************)
EXTENDS Integers

CONSTANTS
  Width, Height,  \* g_width, a multiple of 4, and g_height
  Sizes,          \* the client areas the window may have
  Rects,          \* the rectangles the server draws in
  Bounds,         \* the bounds it gives an order, the whole desktop for none
  Lines,          \* the lines it draws, as pairs of points
  Bitmaps,        \* the bitmaps it paints, as records [cx, cy, data]
  Glyphs,         \* the glyphs of its texts, as sets of points
  Opcodes,        \* the raster operations it uses
  Blue,           \* what WM_PAINT puts outside the desktop
  Other,          \* whatever else is on the screen
  MaxOrders,      \* BOUND: drawing orders
  MaxEvents       \* BOUND: scrolls, new sizes and uncoverings

Rect(x, y, cx, cy) == [x |-> x, y |-> y, cx |-> cx, cy |-> cy]
Boxes == [x : Int, y : Int, cx : Nat, cy : Nat]
Pixels(r) == (r.x .. r.x + r.cx - 1) \X (r.y .. r.y + r.cy - 1)
Full == Rect(0, 0, Width, Height)
Desktop == Pixels(Full)

ASSUME DisplayAssumption ==
  /\ Width \in Nat \ {0} /\ Height \in Nat \ {0} /\ Width % 4 = 0
  /\ Sizes \subseteq (Nat \ {0}) \X (Nat \ {0}) /\ Sizes # {}
  /\ Rects \cup Bounds \subseteq Boxes
  /\ \A r \in Rects \cup Bounds : Pixels(r) \subseteq Desktop
  /\ Full \in Bounds
  /\ Lines \subseteq (Int \X Int) \X (Int \X Int)
  /\ \A m \in Bitmaps :
       /\ m.cx \in Nat /\ m.cy \in Nat
       /\ m.data \in [(0 .. m.cx - 1) \X (0 .. m.cy - 1) -> {0, 1}]
  /\ Opcodes \subseteq 0 .. 15 /\ MaxOrders \in Nat /\ MaxEvents \in Nat

VARIABLES
  bs,       \* g_bs: the backing store
  clip,     \* the clip rectangle, which bsops.c and win32.c both keep
  size,     \* g_wnd_cwidth and g_wnd_cheight
  scroll,   \* g_xscroll and g_yscroll
  range,    \* the ranges of the two scroll bars, 0 when it is hidden
  screen,   \* the pixels of the client area
  invalid,  \* the window's update region
  meant,    \* the desktop as the server means it
  orders,   \* drawing orders so far
  events    \* window events so far

vars == <<bs, clip, size, scroll, range, screen, invalid, meant, orders, events>>

Black == 0

Client(s) == (0 .. s[1] - 1) \X (0 .. s[2] - 1)
Lesser(a, b) == IF a < b THEN a ELSE b
Greater(a, b) == IF a > b THEN a ELSE b

\* The desktop pixel that a pixel of the client area shows.
Shown(p) == <<p[1] + scroll[1], p[2] + scroll[2]>>

-----------------------------------------------------------------------------
(* bsops.c *)

RopMasked(opcode, src, dst) == opcode \div 2^(2 * src + dst)   \* mutant: not a bit

\* bs_do_rop, whose opcode is the truth table of the operation.
Rop(opcode, src, dst) == (opcode \div 2^(2 * src + dst)) % 2

\* bs_warp_coords: what is left of r within c, and how far its corner moved.
Warp(r, c) ==
  LET dx == Greater(c.x - r.x, 0)
      dy == Greater(c.y - r.y, 0)
      right == Greater(r.x + r.cx - (c.x + c.cx), 0)
      below == Greater(r.y + r.cy - (c.y + c.cy), 0)
  IN [box |-> Rect(r.x + dx, r.y + dy, r.cx - right - dx, r.cy - below - dy),
      dx |-> dx, dy |-> dy]
Drawable(r) == r.cx > 0 /\ r.cy > 0

\* bs_rect and bs_set_pixel
BsRect(b, r, c, colour, opcode) ==
  LET w == Warp(r, c).box
  IN IF Drawable(w)
     THEN [p \in Desktop |-> IF p \in Pixels(w) THEN Rop(opcode, colour, b[p]) ELSE b[p]]
     ELSE b

\* bs_memblt: the source moves with the corner.
BsMemblt(b, r, c, bitmap, srcx, srcy, opcode) ==
  LET w == Warp(r, c)
      Source(p) == <<p[1] - w.box.x + srcx + w.dx, p[2] - w.box.y + srcy + w.dy>>
  IN IF Drawable(w.box)
     THEN [p \in Desktop |-> IF p \in Pixels(w.box)
                             THEN Rop(opcode, bitmap.data[Source(p)], b[p]) ELSE b[p]]
     ELSE b

ColumnForward(n, cx, right) == n - 1   \* mutant: always left to right

\* The n-th row that bs_screenblt copies, and the n-th pixel of a row: rows
\* bottom up when copying down, columns right to left when straight right.
Row(n, cy, down) == IF down THEN cy - n ELSE n - 1
Column(n, cx, right) == IF right THEN cx - n ELSE n - 1

\* bs_copy_mem, bs_copy_memb and the loops over j: the cx pixels from the one
\* at from on are copied to the one at to and on, one at a time.
CopyPixel(d, to, from, opcode) == [d EXCEPT ![to] = Rop(opcode, d[from], @)]
CopyRow(b, to, from, cx, right, opcode) ==
  LET copied[n \in 0 .. cx] ==
        IF n = 0 THEN b
        ELSE CopyPixel(copied[n - 1], <<to[1] + Column(n, cx, right), to[2]>>,
                       <<from[1] + Column(n, cx, right), from[2]>>, opcode)
  IN copied[cx]

\* The loops over i.
CopyRows(b, to, from, cx, cy, down, right, opcode) ==
  LET copied[n \in 0 .. cy] ==
        IF n = 0 THEN b
        ELSE CopyRow(copied[n - 1], <<to[1], to[2] + Row(n, cy, down)>>,
                     <<from[1], from[2] + Row(n, cy, down)>>, cx, right, opcode)
  IN copied[cy]

\* bs_screenblt
BsScreenblt(b, r, c, srcx, srcy, opcode) ==
  LET w == Warp(r, c)
      sx == srcx + w.dx
      sy == srcy + w.dy
      down == sy < w.box.y
      right == ~down /\ ~(sy > w.box.y \/ sx > w.box.x)
  IN IF Drawable(w.box)
     THEN CopyRows(b, <<w.box.x, w.box.y>>, <<sx, sy>>, w.box.cx, w.box.cy, down, right, opcode)
     ELSE b

\* bs_line: Bresenham's algorithm along the longer side (of i steps), the
\* shorter one (of k steps) following; the end point is left out.
Steps(i, k) ==
  LET walk[n \in 0 .. i] ==
        IF n = 0 THEN [k |-> 0, p |-> 2 * k - i]
        ELSE LET last == walk[n - 1]
             IN IF last.p > 0 THEN [k |-> last.k + 1, p |-> last.p + 2 * k - 2 * i]
                ELSE [k |-> last.k, p |-> last.p + 2 * k]
  IN [n \in 0 .. i |-> walk[n].k]

Sign(a) == IF a < 0 THEN -1 ELSE 1
LinePixels(from, to) ==
  LET dx == Greater(to[1] - from[1], from[1] - to[1])
      dy == Greater(to[2] - from[2], from[2] - to[2])
      incx == Sign(to[1] - from[1])
      incy == Sign(to[2] - from[2])
  IN (IF dx >= dy
      THEN {<<from[1] + n * incx, from[2] + Steps(dx, dy)[n] * incy>> : n \in 0 .. dx}
      ELSE {<<from[1] + Steps(dy, dx)[n] * incx, from[2] + n * incy>> : n \in 0 .. dy}) \ {to}

BsLine(b, from, to, c, colour, opcode) ==
  [p \in Desktop |-> IF p \in LinePixels(from, to) \cap Pixels(c)
                     THEN Rop(opcode, colour, b[p]) ELSE b[p]]

\* bs_draw_glyph
BsGlyph(b, lit, c, colour) == [p \in Desktop |-> IF p \in lit \cap Pixels(c) THEN colour ELSE b[p]]

\* bs_copy_box: zeros where the box leaves the desktop.
CopyBox(b, p) == IF p \in Desktop THEN b[p] ELSE Black

-----------------------------------------------------------------------------
(* win32.c: drawing on the window, through the clip.  GDI draws what it is   *)
(* told to; its lines are taken to be bs_line's.                             *)

Put(scr, pixels, c, new) ==
  [p \in DOMAIN scr |-> IF Shown(p) \in pixels \cap Pixels(c) THEN new[p] ELSE scr[p]]

\* mi_fill_rect and mi_line
MiFill(scr, pixels, c, colour) == Put(scr, pixels, c, [p \in DOMAIN scr |-> colour])

\* ui_invalidate: paint a box of the backing store, as wide as a multiple of 4.
UiInvalidate(scr, b, r, c) ==
  LET w == Warp(r, c).box
      wide == [w EXCEPT !.cx = ((w.cx + 3) \div 4) * 4]
  IN IF r.cx < 1 \/ r.cy < 1 \/ ~Drawable(w) THEN scr
     ELSE Put(scr, Pixels(wide), c, [p \in DOMAIN scr |-> CopyBox(b, Shown(p))])

MiScreenCopyUnscrolled(r) == Client(size) \cap Pixels(r)   \* mutant: forgets the scroll position

\* mi_screen_copy: the copied box, in client coordinates, joins the update
\* region, since Windows CE does not scroll in two directions.
MiScreenCopy(r) == {p \in Client(size) : Shown(p) \in Pixels(r)}

-----------------------------------------------------------------------------
(* The drawing calls of uimain.c, inside the bounds of their order: those    *)
(* are set before the call and reset after it.                               *)

Init ==
  /\ bs = [p \in Desktop |-> Black] /\ meant = bs
  /\ clip = Full
  /\ size \in Sizes
  /\ scroll = <<0, 0>>
  /\ range = <<Greater(Width - size[1], 0), Greater(Height - size[2], 0)>>
  /\ screen = [p \in Client(size) |-> Other]
  /\ invalid = Client(size)
  /\ orders = 0 /\ events = 0

ResetClip(bounds) == IF bounds = Full THEN clip ELSE Full      \* ui_reset_clip
SetClip(bounds) == IF bounds = Full THEN clip ELSE bounds      \* ui_set_clip

Drawing(bounds) ==
  /\ orders < MaxOrders /\ orders' = orders + 1
  /\ bounds \in Bounds
  /\ clip' = ResetClip(bounds)
  /\ UNCHANGED <<size, scroll, range, events>>

\* What the server means by drawing on some pixels.
Means(pixels, bounds, opcode, colours) ==
  meant' = [p \in Desktop |-> IF p \in pixels \cap Pixels(bounds)
                              THEN Rop(opcode, colours[p], meant[p]) ELSE meant[p]]

\* A line as the server means it: at each step along the longer side the
\* nearest pixel, the lower one of two at the same distance.
IdealLine(from, to) ==
  LET dx == Greater(to[1] - from[1], from[1] - to[1])
      dy == Greater(to[2] - from[2], from[2] - to[2])
      Near(n, k, i) == IF i = 0 THEN 0 ELSE (2 * n * k + i - 1) \div (2 * i)
      Toward(a, b, n) == IF a > b THEN a - n ELSE a + n
  IN (IF dx >= dy
      THEN {<<Toward(from[1], to[1], n), Toward(from[2], to[2], Near(n, dy, dx))>> : n \in 0 .. dx}
      ELSE {<<Toward(from[1], to[1], Near(n, dx, dy)), Toward(from[2], to[2], n)>> : n \in 0 .. dy})
     \ {to}

\* ui_rect
UiRect(r, bounds, colour) ==
  /\ Drawing(bounds)
  /\ bs' = BsRect(bs, r, SetClip(bounds), colour, 12)
  /\ screen' = MiFill(screen, Pixels(r), SetClip(bounds), colour)
  /\ Means(Pixels(r), bounds, 12, [p \in Desktop |-> colour])
  /\ UNCHANGED invalid

\* ui_destblt, and ui_patblt with a solid brush
UiDestblt(r, bounds, opcode, colour) ==
  /\ Drawing(bounds)
  /\ bs' = BsRect(bs, r, SetClip(bounds), colour, opcode)
  /\ screen' = UiInvalidate(screen, bs', r, SetClip(bounds))
  /\ Means(Pixels(r), bounds, opcode, [p \in Desktop |-> colour])
  /\ UNCHANGED invalid

\* ui_memblt and ui_paint_bitmap
UiMemblt(r, bounds, bitmap, srcx, srcy, opcode) ==
  /\ Drawing(bounds)
  /\ srcx + r.cx <= bitmap.cx /\ srcy + r.cy <= bitmap.cy
  /\ bs' = BsMemblt(bs, r, SetClip(bounds), bitmap, srcx, srcy, opcode)
  /\ screen' = UiInvalidate(screen, bs', r, SetClip(bounds))
  /\ Means(Pixels(r), bounds, opcode,
           [p \in Desktop |-> bitmap.data[<<p[1] - r.x + srcx, p[2] - r.y + srcy>>]])
  /\ UNCHANGED invalid

\* ui_screenblt: the server means all pixels to be copied at once.
UiScreenblt(r, bounds, srcx, srcy, opcode) ==
  /\ Drawing(bounds)
  /\ Pixels(Rect(srcx, srcy, r.cx, r.cy)) \subseteq Desktop
  /\ bs' = BsScreenblt(bs, r, SetClip(bounds), srcx, srcy, opcode)
  /\ IF opcode = 12
     THEN invalid' = invalid \cup MiScreenCopy(r) /\ UNCHANGED screen
     ELSE screen' = UiInvalidate(screen, bs', r, SetClip(bounds)) /\ UNCHANGED invalid
  /\ Means(Pixels(r), bounds, opcode,
           [p \in Desktop |-> meant[<<p[1] - r.x + srcx, p[2] - r.y + srcy>>]])

\* ui_line: thin solid lines are drawn twice, others painted from the store.
UiLine(from, to, bounds, thin, opcode, colour) ==
  /\ Drawing(bounds)
  /\ bs' = BsLine(bs, from, to, SetClip(bounds), colour, opcode)
  /\ LET x == Lesser(from[1], to[1])
         y == Lesser(from[2], to[2])
     IN screen' = IF thin /\ opcode = 12
                  THEN MiFill(screen, LinePixels(from, to), SetClip(bounds), colour)
                  ELSE UiInvalidate(screen, bs', Rect(x, y, Greater(from[1], to[1]) + 1 - x,
                                                           Greater(from[2], to[2]) + 1 - y),
                                    SetClip(bounds))
  /\ Means(IdealLine(from, to), bounds, opcode, [p \in Desktop |-> colour])
  /\ UNCHANGED invalid

\* ui_draw_text on an opaque box: glyphs, within the box, on its background.
UiText(r, bounds, lit, colour) ==
  /\ Drawing(bounds)
  /\ lit \subseteq Pixels(r)
  /\ bs' = BsGlyph(BsRect(bs, r, SetClip(bounds), 1 - colour, 12), lit, SetClip(bounds), colour)
  /\ screen' = UiInvalidate(screen, bs', r, SetClip(bounds))
  /\ Means(Pixels(r), bounds, 12, [p \in Desktop |-> IF p \in lit THEN colour ELSE 1 - colour])
  /\ UNCHANGED invalid

-----------------------------------------------------------------------------
(* The window.  ScrollWindowEx moves the pixels and the update region with   *)
(* them, and returns what it uncovers.                                       *)
MiScroll(dx, dy) ==
  LET From(p) == <<p[1] - dx, p[2] - dy>>
      Moved(p) == From(p) \in Client(size)
  IN /\ screen' = [p \in Client(size) |-> IF Moved(p) THEN screen[From(p)] ELSE screen[p]]
     /\ invalid' = {p \in Client(size) : ~Moved(p) \/ From(p) \in invalid}

Event ==
  /\ events < MaxEvents /\ events' = events + 1
  /\ UNCHANGED <<bs, clip, meant, orders>>

\* The position a scroll bar message asks for, on a desktop of n pixels of
\* which w are in the window.
Scrolled(code, at, n, w, thumb) ==
  CASE code = "SB_LINELEFT" -> Greater(at - 1, 0)
    [] code = "SB_LINERIGHT" -> Lesser(at + 1, n - w)
    [] code = "SB_PAGELEFT" -> Greater(at - w \div 2, 0)
    [] code = "SB_PAGERIGHT" -> Lesser(at + w \div 2, n - w)
    [] code = "SB_BOTTOM" -> n - w
    [] code = "SB_TOP" -> 0
    [] code = "SB_THUMBPOSITION" -> thumb
Codes == {"SB_LINELEFT", "SB_LINERIGHT", "SB_PAGELEFT", "SB_PAGERIGHT", "SB_BOTTOM", "SB_TOP",
          "SB_THUMBPOSITION"}

\* handle_WM_HSCROLL and handle_WM_VSCROLL: a visible bar is moved.
WmHScroll(code, thumb) ==
  /\ Event /\ range[1] > 0
  /\ scroll' = [scroll EXCEPT ![1] = Scrolled(code, @, Width, size[1], thumb)]
  /\ MiScroll(scroll[1] - scroll'[1], 0)
  /\ UNCHANGED <<size, range>>
WmVScroll(code, thumb) ==
  /\ Event /\ range[2] > 0
  /\ scroll' = [scroll EXCEPT ![2] = Scrolled(code, @, Height, size[2], thumb)]
  /\ MiScroll(0, scroll[2] - scroll'[2])
  /\ UNCHANGED <<size, range>>

ClampedNever(at, n, w) == at   \* mutant: the scroll position is kept

\* handle_WM_SIZE: the class redraws the whole client area on a new size, so
\* what mi_scroll moves is invalid anyway.  With scroll bars shown the window
\* does not outgrow the desktop: it grows by less than a bar is wide.
Clamped(at, n, w) == IF w >= n THEN 0 ELSE Lesser(at, n - w)
WmSize(s) ==
  /\ Event /\ s \in Sizes \ {size}
  /\ range # <<0, 0>> => s[1] < Width \/ s[2] < Height
  /\ size' = s
  /\ range' = IF s[1] < Width \/ s[2] < Height
              THEN <<Greater(Width - s[1], 0), Greater(Height - s[2], 0)>> ELSE range
  /\ scroll' = <<Clamped(scroll[1], Width, s[1]), Clamped(scroll[2], Height, s[2])>>
  /\ screen' = [p \in Client(s) |-> Other]
  /\ invalid' = Client(s)

\* A window over ours has gone.
Uncovered(r) ==
  /\ Event /\ r \in Rects
  /\ Pixels(r) \cap Client(size) # {}
  /\ screen' = [p \in Client(size) |-> IF p \in Pixels(r) THEN Other ELSE screen[p]]
  /\ invalid' = invalid \cup (Pixels(r) \cap Client(size))
  /\ UNCHANGED <<size, scroll, range>>

\* handle_WM_PAINT: blue outside the desktop, within the update region, which
\* EndPaint empties; then the rectangle around it from the backing store.
Around(region) ==
  LET least(i) == CHOOSE n \in {p[i] : p \in region} : \A p \in region : n <= p[i]
      most(i) == CHOOSE n \in {p[i] : p \in region} : \A p \in region : p[i] <= n
  IN Rect(least(1), least(2), most(1) + 1 - least(1), most(2) + 1 - least(2))
WmPaint ==
  /\ invalid # {}
  /\ LET r == Around(invalid)
         blue == [p \in Client(size) |->
                    IF p \notin invalid THEN screen[p]
                    ELSE IF p[1] >= Width \/ p[2] >= Height THEN Blue ELSE Other]
     IN screen' = UiInvalidate(blue, bs, Rect(r.x + scroll[1], r.y + scroll[2], r.cx + 1, r.cy + 1), clip)
  /\ invalid' = {}
  /\ UNCHANGED <<bs, clip, size, scroll, range, meant, orders, events>>

-----------------------------------------------------------------------------
Next ==
  \/ \E r \in Rects, b \in Bounds, colour \in {0, 1} : UiRect(r, b, colour)
  \/ \E r \in Rects, b \in Bounds, colour \in {0, 1}, o \in Opcodes : UiDestblt(r, b, o, colour)
  \/ \E r \in Rects, b \in Bounds, m \in Bitmaps, o \in Opcodes :
       \E srcx \in 0 .. m.cx - r.cx, srcy \in 0 .. m.cy - r.cy : UiMemblt(r, b, m, srcx, srcy, o)
  \/ \E r \in Rects, b \in Bounds, o \in Opcodes :
       \E srcx \in 0 .. Width - r.cx, srcy \in 0 .. Height - r.cy : UiScreenblt(r, b, srcx, srcy, o)
  \/ \E l \in Lines, b \in Bounds, thin \in BOOLEAN, o \in Opcodes : UiLine(l[1], l[2], b, thin, o, 1)
  \/ \E r \in Rects, b \in Bounds, g \in Glyphs, x \in 0 .. Width, y \in 0 .. Height, colour \in {0, 1} :
       UiText(r, b, {<<q[1] + x, q[2] + y>> : q \in g}, colour)
  \/ \E code \in Codes, thumb \in 0 .. range[1] : WmHScroll(code, thumb)
  \/ \E code \in Codes, thumb \in 0 .. range[2] : WmVScroll(code, thumb)
  \/ \E s \in Sizes : WmSize(s)
  \/ \E r \in Rects : Uncovered(r)
  \/ WmPaint

Spec == Init /\ [][Next]_vars

-----------------------------------------------------------------------------
\* Every variable has its type.
TypeOK ==
  /\ bs \in [Desktop -> {0, 1}] /\ meant \in [Desktop -> {0, 1}]
  /\ clip \in Bounds /\ size \in Sizes
  /\ scroll \in Nat \X Nat /\ range \in Nat \X Nat
  /\ screen \in [Client(size) -> {0, 1, Blue, Other}]
  /\ invalid \subseteq Client(size)
  /\ orders \in 0 .. MaxOrders /\ events \in 0 .. MaxEvents

\* bsops.c draws what the server means: overlapping copies read every source
\* pixel before it is overwritten, clipped bitmaps keep their alignment,
\* lines take the nearest pixels, and nothing is drawn outside the bounds.
DrawsAsMeant == bs = meant

\* What is on the screen and not about to be repainted is the backing store,
\* scrolled, or blue outside the desktop, whatever was drawn, scrolled,
\* resized or uncovered in between (uimain.c and win32.c).
ScreenCurrent ==
  \A p \in Client(size) \ invalid :
    screen[p] = IF Shown(p) \in Desktop THEN bs[Shown(p)] ELSE Blue

\* The scroll position never leaves the desktop (handle_WM_HSCROLL,
\* handle_WM_VSCROLL and handle_WM_SIZE each keep their own clamps).
ScrollInRange ==
  /\ scroll[1] \in 0 .. Greater(Width - size[1], 0)
  /\ scroll[2] \in 0 .. Greater(Height - size[2], 0)
=============================================================================
