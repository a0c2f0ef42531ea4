--------------------------------- MODULE Rle ---------------------------------
(***************************************************************************)
(* The run-length coded bitmaps of 1, 2 and 3 bytes a pixel (bitmap.c:     *)
(* bitmap_decompress1, 2 and 3, the same code three times).  The server,   *)
(* which is external, says one order after the other; the decoder's loop   *)
(* over the orders is taken one order a step, as it keeps no more between  *)
(* two orders than the variables below.                                    *)
(*                                                                         *)
(* A pixel is one bit, every bit of a pixel being treated alike: White is  *)
(* the pixel of all ones.  An order is a sequence of header bytes, count   *)
(* bytes, mask bytes and pixels; a pixel takes one place of it, whatever   *)
(* its size.                                                               *)
(***************************************************************************)
EXTENDS Integers, Sequences

CONSTANTS
  Dims,      \* the bitmaps' sizes, as pairs of width and height
  Counts,    \* the run lengths the server uses, next to what is left
  Masks,     \* the mask bytes it uses, over and over in an order
  Patterns,  \* the pixels it uses, likewise
  MaxRuns    \* BOUND: orders of a bitmap

Black == 0
White == 1
Pixel == {Black, White}

ASSUME RleAssumption ==
  /\ Dims \subseteq (Nat \ {0}) \X (Nat \ {0}) /\ Dims # {}
  /\ Counts \subseteq Nat \ {0} /\ MaxRuns \in Nat
  /\ Masks \subseteq Seq(0 .. 255) \ {<<>>} /\ Patterns \subseteq Seq(Pixel) \ {<<>>}

VARIABLES
  dims,        \* width and height
  out,         \* the decoder's output, by row, the top one first, and column
  x,           \* the next column, width at the end of a line
  height,      \* the lines it has not started
  lastopcode,  \* its order before this one, None at first
  mix,         \* its foreground pixel
  ok,          \* it has not returned False
  unread,      \* the bytes of the orders so far less those it has read
  flat,        \* the pixels the server has said, the bottom line first
  fgpixel,     \* the server's foreground pixel
  filled,      \* the server's last order was a background run
  runs         \* orders so far

rleVars == <<dims, out, x, height, lastopcode, mix, ok, unread, flat, fgpixel, filled, runs>>

XorCarries(a, b) == a + b   \* mutant: not bit by bit
Xor(a, b) == (a + b) % 2

None == -1
Fill == 0            Mix == 1             FillOrMix == 2
Colour == 3          Copy == 4            SetMix == 6
SetFillOrMix == 7    Bicolour == 8        FillOrMix1 == 9
FillOrMix2 == 10     AllWhite == 13       AllBlack == 14
Opcodes == {Fill, Mix, FillOrMix, Colour, Copy, SetMix, SetFillOrMix, Bicolour, FillOrMix1,
            FillOrMix2, AllWhite, AllBlack}

width == dims[1]

-----------------------------------------------------------------------------
(* The decoder *)

\* The forms of an opcode: four or three bits and a count, or a byte and what
\* the opcode calls for.
Form(input) ==
  LET code == input[1]
      high == code \div 16
      low == code % 16
  IN CASE high \in 12 .. 14 -> [opcode |-> high - 6, count |-> low, offset |-> 16, at |-> 2]
       [] high = 15 /\ low < 9 ->
            [opcode |-> low, count |-> input[2] + 256 * input[3], offset |-> 0, at |-> 4]
       [] high = 15 /\ low >= 9 ->
            [opcode |-> low, count |-> IF low < 11 THEN 8 ELSE 1, offset |-> 0, at |-> 2]
       [] OTHER -> [opcode |-> high \div 2, count |-> code % 32, offset |-> 32, at |-> 2]

\* An order's count, in the next byte when it is zero; mask runs count in
\* eights, or from one.
Header(input) ==
  LET f == Form(input)
      masked == f.opcode \in {FillOrMix, SetFillOrMix}
  IN CASE f.offset # 0 /\ f.count = 0 ->
            [f EXCEPT !.count = input[2] + (IF masked THEN 1 ELSE f.offset), !.at = 3]
       [] f.offset # 0 /\ f.count # 0 /\ masked -> [f EXCEPT !.count = 8 * @]
       [] OTHER -> f

\* The order it is carried out as, once its parameters are read.
Order(opcode) ==
  CASE opcode \in {SetMix, SetFillOrMix} -> opcode - 5
    [] opcode \in {FillOrMix1, FillOrMix2} -> FillOrMix
    [] OTHER -> opcode
Parameters(opcode) ==
  CASE opcode = Bicolour -> 2
    [] opcode \in {Colour, SetMix, SetFillOrMix} -> 1
    [] OTHER -> 0

InsertMixAlways(op) == op = Fill /\ lastopcode = Fill   \* mutant: at the first line's end too

\* A second Fill in a row starts with a Mix, but not on a new second line.
InsertMix(op) == op = Fill /\ lastopcode = Fill /\ ~(x = width /\ height >= dims[2] - 1)

\* What one round of the loop reads before its pixels: the order it carries out,
\* their number, the foreground pixel, a mask for all of them, and where the
\* parameters and what follows them are.
Read(input) ==
  LET h == Header(input)
      op == Order(h.opcode)
  IN [input |-> input, op |-> op,
      pixels |-> IF op = Bicolour THEN 2 * h.count ELSE h.count,
      fg |-> IF h.opcode \in {SetMix, SetFillOrMix} THEN input[h.at] ELSE mix,
      insert |-> InsertMix(op),
      mask |-> CASE h.opcode = FillOrMix1 -> 3 [] h.opcode = FillOrMix2 -> 5 [] OTHER -> 0,
      from |-> h.at, at |-> h.at + Parameters(h.opcode)]

MaskKept(order, k) ==   \* mutant: the first mask for all pixels
  order.op = Copy \/ (order.op = FillOrMix /\ order.mask = 0 /\ k = 0)

\* Pixel k has a byte of its own, or MASK_UPDATE reads a mask for it and the
\* next seven.
Reads(order, k) == order.op = Copy \/ (order.op = FillOrMix /\ order.mask = 0 /\ k % 8 = 0)
Fetch(d, order, k) ==
  IF Reads(order, k) THEN [at |-> d.at + 1, byte |-> order.input[d.at]] ELSE d

\* Pixel k of an order, from the pixel above it and the byte read last.
Value(order, k, above, byte) ==
  LET op == order.op
  IN CASE op = Fill -> IF order.insert /\ k = 0 THEN Xor(above, order.fg) ELSE above
       [] op = Mix -> Xor(above, order.fg)
       [] op = FillOrMix -> IF (byte \div 2^(k % 8)) % 2 = 1 THEN Xor(above, order.fg) ELSE above
       [] op = Colour -> order.input[order.from]
       [] op = Copy -> byte
       [] op = Bicolour -> order.input[order.from + (k % 2)]
       [] op = AllWhite -> White
       [] op = AllBlack -> Black

\* Pixel k is put in the next column, or the first of the next line if there is one.
Put(d, order, k, byte) ==
  LET new == d.x >= width
      line == IF new THEN d.height - 1 ELSE d.height
      column == IF new THEN 0 ELSE d.x
      above == IF line + 1 >= dims[2] THEN Black ELSE d.out[<<line + 1, column>>]
  IN IF ~d.ok \/ (new /\ d.height <= 0) THEN [d EXCEPT !.ok = FALSE]
     ELSE [out |-> [d.out EXCEPT ![<<line, column>>] = Value(order, k, above, byte)],
           x |-> column + 1, height |-> line, ok |-> TRUE]

\* One order of the loop: pixel after pixel, from line to line.
Start(order) ==
  [read |-> [at |-> order.at, byte |-> order.mask],
   put |-> [out |-> out, x |-> x, height |-> height, ok |-> order.op \in Opcodes]]
Round(d, order, k) ==
  LET read == Fetch(d.read, order, k)
  IN [read |-> read, put |-> Put(d.put, order, k, read.byte)]

Decode(input) ==
  LET order == Read(input)
      body[k \in 0 .. order.pixels] ==
        IF k = 0 THEN Start(order) ELSE Round(body[k - 1], order, k - 1)
      done == body[order.pixels]
  IN /\ out' = done.put.out /\ x' = done.put.x /\ height' = done.put.height /\ ok' = done.put.ok
     /\ unread' = unread + Len(input) - (done.read.at - 1)
     /\ lastopcode' = order.op
     /\ mix' = order.fg

-----------------------------------------------------------------------------
(* The server *)

\* The headers of an order of n pixels, or n pairs of them.
Headers(opcode, n) ==
  LET long == <<240 + opcode, n % 256, n \div 256>>
      bits == IF opcode < 5 THEN 32 ELSE 16
      first == IF opcode < 5 THEN 32 * opcode ELSE 16 * (opcode + 6)
      unit == IF opcode \in {FillOrMix, SetFillOrMix} THEN 8 ELSE 1
      extra == IF unit = 8 THEN n - 1 ELSE n - bits
  IN IF opcode > Bicolour THEN {<<240 + opcode>>}
     ELSE (IF n < 65536 THEN {long} ELSE {})
                 \cup (IF n % unit = 0 /\ n \div unit < bits THEN {<<first + (n \div unit)>>} ELSE {})
                 \cup (IF extra \in 0 .. 255 THEN {<<first, extra>>} ELSE {})

\* What it says with a header: a pattern's pixels and masks.
Nth(s, k) == s[(k % Len(s)) + 1]
Data(opcode, n, pattern, m) ==
  LET masks == [k \in 1 .. (n + 7) \div 8 |-> Nth(m, k - 1)]
  IN CASE opcode = FillOrMix -> masks
       [] opcode \in {Colour, SetMix} -> <<pattern[1]>>
       [] opcode = SetFillOrMix -> <<pattern[1]>> \o masks
       [] opcode = Copy -> [k \in 1 .. n |-> Nth(pattern, k - 1)]
       [] opcode = Bicolour -> <<pattern[1], Nth(pattern, 1)>>
       [] OTHER -> <<>>

Length(opcode, n) == IF opcode = Bicolour THEN 2 * n ELSE n

\* What it means by pixel k, next to the one above it.
Meant(opcode, pattern, m, k, above) ==
  LET fg == IF opcode \in {SetMix, SetFillOrMix} THEN pattern[1] ELSE fgpixel
      mask == CASE opcode = FillOrMix1 -> 3 [] opcode = FillOrMix2 -> 5 [] OTHER -> Nth(m, k \div 8)
  IN CASE opcode = Fill /\ k = 0 /\ filled /\ Len(flat) # width -> Xor(above, fg)
       [] opcode = Fill /\ ~(k = 0 /\ filled /\ Len(flat) # width) -> above
       [] opcode \in {Mix, SetMix} -> Xor(above, fg)
       [] opcode \in {FillOrMix, SetFillOrMix, FillOrMix1, FillOrMix2} ->
            IF (mask \div 2^(k % 8)) % 2 = 1 THEN Xor(above, fg) ELSE above
       [] opcode = Colour -> pattern[1]
       [] opcode = Copy -> Nth(pattern, k)
       [] opcode = Bicolour -> Nth(pattern, k % 2)
       [] opcode = AllWhite -> White
       [] opcode = AllBlack -> Black

\* The pixels it has said then.
Meaning(opcode, n, pattern, m) ==
  LET said[k \in 0 .. Length(opcode, n)] ==
        IF k = 0 THEN flat
        ELSE LET f == said[k - 1]
                 above == IF Len(f) < width THEN Black ELSE f[Len(f) + 1 - width]
             IN Append(f, Meant(opcode, pattern, m, k - 1, above))
  IN said[Length(opcode, n)]

Left == dims[1] * dims[2] - Len(flat)

SendOrder(opcode, n, pattern, m) ==
  /\ runs < MaxRuns /\ runs' = runs + 1
  /\ Length(opcode, n) <= Left
  /\ opcode \in {FillOrMix1, FillOrMix2} => n = 8
  /\ opcode \in {AllWhite, AllBlack} => n = 1
  /\ opcode \notin {FillOrMix, SetFillOrMix} => m = CHOOSE l \in Masks : TRUE
  /\ opcode \notin {Colour, Copy, SetMix, SetFillOrMix, Bicolour} => pattern = CHOOSE p \in Patterns : TRUE
  /\ flat' = Meaning(opcode, n, pattern, m)
  /\ fgpixel' = IF opcode \in {SetMix, SetFillOrMix} THEN pattern[1] ELSE fgpixel
  /\ filled' = (opcode = Fill)
  /\ \E header \in Headers(opcode, n) : Decode(header \o Data(opcode, n, pattern, m))
  /\ UNCHANGED dims

-----------------------------------------------------------------------------
RleInit ==
  /\ dims \in Dims
  /\ out = [p \in (0 .. dims[2] - 1) \X (0 .. dims[1] - 1) |-> Black]
  /\ x = dims[1] /\ height = dims[2]
  /\ lastopcode = None /\ mix = White /\ ok = TRUE /\ unread = 0
  /\ flat = <<>> /\ fgpixel = White /\ filled = FALSE /\ runs = 0

RleNext ==
  \E opcode \in Opcodes, n \in (Counts \cup {Left}) \ {0}, pattern \in Patterns, m \in Masks :
    SendOrder(opcode, n, pattern, m)

\* Every variable has its type.
RleTypeOK ==
  /\ dims \in Dims
  /\ out \in [(0 .. dims[2] - 1) \X (0 .. dims[1] - 1) -> Pixel]
  /\ x \in 0 .. dims[1] /\ height \in 0 .. dims[2]
  /\ lastopcode \in Opcodes \cup {None} /\ mix \in Pixel /\ ok \in BOOLEAN /\ unread \in Int
  /\ flat \in Seq(Pixel) /\ fgpixel \in Pixel /\ filled \in BOOLEAN /\ runs \in 0 .. MaxRuns

\* bitmap_decompress1, 2 and 3 put every pixel the server says where it
\* belongs, from the bottom line up, read of every order neither more nor less
\* than its bytes, and give up on none.
RleAsMeant ==
  /\ ok /\ unread = 0
  /\ \A n \in 1 .. Len(flat) :
       out[<<dims[2] - 1 - (n - 1) \div dims[1], (n - 1) % dims[1]>>] = flat[n]
=============================================================================
