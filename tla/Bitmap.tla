-------------------------------- MODULE Bitmap --------------------------------
(***************************************************************************)
(* What becomes of a bitmap the server sends, raw or compressed, in a      *)
(* bitmap update (rdp.c: process_bitmap_updates) or in a bitmap cache      *)
(* order (orders.c: process_raw_bmpcache, process_bmpcache and             *)
(* process_bmpcache2): it is decoded (bitmap.c) and then painted or        *)
(* cached, or dropped when the decoder gives up.  A compressed bitmap is   *)
(* run-length coded (Rle) or, at 4 bytes a pixel, in planes (Planes).      *)
(***************************************************************************)
EXTENDS Rle, Planes

VARIABLES
  coding,   \* how the bitmap is sent
  raw,      \* the lines of a raw bitmap, the bottom one first
  shown     \* where it went, and what was painted or cached

vars == <<rleVars, planesVars, coding, raw, shown>>

-----------------------------------------------------------------------------
\* A raw bitmap's pixels, as the server sends its lines: one pixel is set.
RawLines == {[l \in 1 .. dims[2] |-> [c \in 1 .. dims[1] |-> IF <<l, c>> = q THEN White ELSE Black]] :
               q \in (1 .. dims[2]) \X (1 .. dims[1])}

Unflipped(lines) == [p \in DOMAIN out |-> lines[p[1] + 1][p[2] + 1]]   \* mutant: top line first

\* Line y of a raw bitmap goes to line height - y - 1.
Flipped(lines) == [p \in DOMAIN out |-> lines[dims[2] - p[1]][p[2] + 1]]

\* The server has sent the whole bitmap.
Sent ==
  CASE coding = "raw" -> TRUE
    [] coding = "rle" -> Left = 0
    [] coding = "planes" -> plane = NumPlanes

\* bitmap_decompress returns True.
Decompressed ==
  CASE coding = "rle" -> ok
    [] coding = "planes" -> Accepted

\* The picture that is left in bmpdata.
Bmpdata ==
  CASE coding = "raw" -> Flipped(raw')
    [] coding = "rle" -> out
    [] coding = "planes" -> pixels

\* The rest of process_bitmap_updates, which paints, and of the bitmap cache
\* orders, which keep the bitmap.
Deliver(to) ==
  /\ shown.to = "nowhere" /\ Sent
  /\ IF coding = "raw" THEN raw' \in RawLines ELSE UNCHANGED raw
  /\ shown' = IF coding = "raw" \/ Decompressed THEN [to |-> to, bitmap |-> Bmpdata]
              ELSE [to |-> "dropped", bitmap |-> <<>>]
  /\ UNCHANGED <<rleVars, planesVars, coding>>

Init ==
  /\ RleInit /\ PlanesInit
  /\ coding \in {"raw", "rle", "planes"} /\ raw = <<>>
  /\ shown = [to |-> "nowhere", bitmap |-> <<>>]
  /\ coding = "planes" => dims = CHOOSE d \in Dims : TRUE

Next ==
  \/ /\ shown.to = "nowhere" /\ coding = "rle"
     /\ RleNext /\ UNCHANGED <<planesVars, coding, raw, shown>>
  \/ /\ shown.to = "nowhere" /\ coding = "planes"
     /\ PlanesNext /\ UNCHANGED <<rleVars, coding, raw, shown>>
  \/ \E to \in {"window", "cache"} : Deliver(to)

Spec == Init /\ [][Next]_vars

-----------------------------------------------------------------------------
\* Every variable has its type.
TypeOK ==
  /\ RleTypeOK /\ PlanesTypeOK
  /\ coding \in {"raw", "rle", "planes"} /\ raw \in Seq(Seq(Pixel))
  /\ shown.to \in {"nowhere", "dropped", "window", "cache"}

\* No bitmap is dropped, and what is painted or cached has every pixel the
\* server sent, the right way up, however it was sent.
ShownAsMeant ==
  /\ shown.to # "dropped"
  /\ shown.to \in {"window", "cache"} =>
       CASE coding = "raw" ->
              \A l \in 1 .. dims[2], c \in 1 .. dims[1] :
                shown.bitmap[<<dims[2] - l, c - 1>>] = raw[l][c]
         [] coding = "rle" ->
              \A n \in 1 .. dims[1] * dims[2] :
                shown.bitmap[<<dims[2] - 1 - (n - 1) \div dims[1], (n - 1) % dims[1]>>] = flat[n]
         [] coding = "planes" ->
              \A p \in 1 .. NumPlanes, l \in 1 .. PlaneHeight, c \in 1 .. PlaneWidth :
                shown.bitmap[<<p - 1, PlaneHeight - l, c - 1>>] = said[p][l][c]
=============================================================================
