-------------------------------- MODULE Planes --------------------------------
(***************************************************************************)
(* The bitmaps of 4 bytes a pixel (bitmap.c: process_plane and             *)
(* bitmap_decompress4): one plane of bytes after the other, each line of a *)
(* plane in segments of some values and a run, the values of every line    *)
(* but the first as differences from the line before.  The decoder's loop  *)
(* over the segments is taken one segment a step; the server is external.  *)
(***************************************************************************)
EXTENDS Integers, Sequences

CONSTANTS
  PlaneWidth, PlaneHeight,  \* the bitmap's size
  NumPlanes,                \* 4
  Values,                   \* the bytes the server's planes are made of
  RawCounts,                \* the numbers of values in a segment
  MaxBytes                  \* BOUND: bytes of a bitmap

ASSUME PlanesAssumption ==
  /\ PlaneWidth \in Nat \ {0} /\ PlaneHeight \in Nat \ {0} /\ NumPlanes \in Nat \ {0}
  /\ Values \subseteq 0 .. 255 /\ RawCounts \subseteq 0 .. 15 /\ MaxBytes \in Nat

VARIABLES
  plane,    \* the planes that are done, and NumPlanes at the end
  indexh,   \* the lines of this plane that are done
  indexw,   \* the columns of this line that are done
  color,    \* the value, or difference, that a run repeats
  pixels,   \* the decoder's output, by plane, line (the top one first) and column
  pro,      \* total_pro: the bytes the decoder has read
  size,     \* the bytes the server has sent
  said      \* the lines the server has said, by plane, the bottom one first

planesVars == <<plane, indexh, indexw, color, pixels, pro, size, said>>

-----------------------------------------------------------------------------
(* The decoder *)

\* A segment's numbers of values and of repetitions; a long run has no values.
Lengths(code) ==
  LET revcode == (code % 16) * 16 + (code \div 16)
  IN IF revcode \in 16 .. 47 THEN [collen |-> 0, replen |-> revcode]
     ELSE [collen |-> code \div 16, replen |-> code % 16]

DifferenceShort(byte) == IF byte % 2 = 1 THEN -(byte \div 2) ELSE byte \div 2   \* mutant: one short

\* The difference a byte stands for: the odd ones are negative.
Difference(byte) == IF byte % 2 = 1 THEN -((byte \div 2) + 1) ELSE byte \div 2

\* One round of process_plane's loop over a line.
Segment(input) ==
  LET n == Lengths(input[1])
      first == indexh = 0
      line == PlaneHeight - 1 - indexh
      colour(i) == LET byte == input[1 + i]
                   IN IF first THEN byte ELSE Difference(byte)
      run == IF n.collen > 0 THEN colour(n.collen) ELSE color
      end == indexw + n.collen + n.replen
      Value(column) ==
        LET c == IF column - indexw < n.collen THEN colour(column - indexw + 1) ELSE run
        IN IF first THEN c ELSE (pixels[<<plane, line + 1, column>>] + c) % 256
      over == end >= PlaneWidth
      last == over /\ indexh + 1 = PlaneHeight
  IN /\ pixels' = [p \in DOMAIN pixels |->
                     IF p[1] = plane /\ p[2] = line /\ p[3] \in indexw .. end - 1
                     THEN Value(p[3]) ELSE pixels[p]]
     /\ pro' = pro + 1 + n.collen
     /\ indexw' = IF over THEN 0 ELSE end
     /\ color' = IF over THEN 0 ELSE run
     /\ indexh' = IF last THEN 0 ELSE IF over THEN indexh + 1 ELSE indexh
     /\ plane' = IF last THEN plane + 1 ELSE plane

\* bitmap_decompress4 returns True: every byte was read.
Accepted == plane = NumPlanes /\ size = pro

-----------------------------------------------------------------------------
(* The server *)

\* The byte that stands for a difference of two values.
Encoded(a, b) ==
  LET d == ((b - a + 128) % 256) - 128
  IN IF d >= 0 THEN 2 * d ELSE -2 * d - 1

\* The control byte of c values and a run of r more, where there is one: runs
\* of 1 and 2 stand for long runs.
Code(c, r) ==
  CASE r \in {0} \cup 3 .. 15 -> 16 * c + r
    [] c = 0 /\ r \in 16 .. 47 -> 16 * (r % 16) + (r \div 16)
    [] OTHER -> -1

SaidLines == said[plane + 1]
SaidLine == SaidLines[Len(SaidLines)]
Below(column) == SaidLines[Len(SaidLines) - 1][column]

\* The line with some values and a run of what the last of them is: the value
\* itself in the first line, its difference from the value below it in the others.
Continued(values, r) ==
  LET upto == SaidLine \o values
      n == Len(upto)
      first == Len(SaidLines) = 1
  IN upto \o [i \in 1 .. r |->
                CASE n = 0 /\ first -> 0
                  [] n = 0 /\ ~first -> Below(i)
                  [] n > 0 /\ first -> upto[n]
                  [] n > 0 /\ ~first -> (Below(n + i) + upto[n] - Below(n)) % 256]

\* The bytes of a segment.
Bytes(values, r) ==
  <<Code(Len(values), r)>> \o
    [i \in 1 .. Len(values) |->
       IF Len(SaidLines) = 1 THEN values[i] ELSE Encoded(Below(Len(SaidLine) + i), values[i])]

SaySegment(values, r) ==
  LET c == Len(values)
      line == Continued(values, r)
      lines == [SaidLines EXCEPT ![Len(SaidLines)] = line]
      last == Len(line) = PlaneWidth /\ Len(lines) = PlaneHeight
  IN /\ plane < NumPlanes /\ size + 1 + c <= MaxBytes
     /\ c + r > 0 /\ Len(SaidLine) + c + r <= PlaneWidth
     /\ Code(c, r) # -1
     /\ said' = [p \in 1 .. NumPlanes |->
                   CASE p = plane + 1 ->
                          IF Len(line) < PlaneWidth \/ last THEN lines ELSE Append(lines, <<>>)
                     [] p = plane + 2 /\ last -> <<<<>>>>
                     [] OTHER -> said[p]]
     /\ size' = size + 1 + c
     /\ Segment(Bytes(values, r))

-----------------------------------------------------------------------------
PlanesInit ==
  /\ plane = 0 /\ indexh = 0 /\ indexw = 0 /\ color = 0
  /\ pixels = [p \in (0 .. NumPlanes - 1) \X (0 .. PlaneHeight - 1) \X (0 .. PlaneWidth - 1) |-> 0]
  /\ pro = 1 /\ size = 1
  /\ said = [p \in 1 .. NumPlanes |-> IF p = 1 THEN <<<<>>>> ELSE <<>>]

PlanesNext ==
  \E c \in RawCounts, r \in 0 .. 47 : \E values \in [1 .. c -> Values] : SaySegment(values, r)

\* Every variable has its type.
PlanesTypeOK ==
  /\ plane \in 0 .. NumPlanes /\ indexh \in 0 .. PlaneHeight - 1 /\ indexw \in 0 .. PlaneWidth - 1
  /\ color \in -128 .. 255
  /\ \A p \in DOMAIN pixels : pixels[p] \in 0 .. 255
  /\ pro \in Nat /\ size \in Nat
  /\ said \in Seq(Seq(Seq(0 .. 255)))

\* process_plane reads what the server has sent, and puts every value where it
\* belongs, and bitmap_decompress4 accepts the whole (it returns
\* size == total_pro).
PlanesAsMeant ==
  /\ pro = size
  /\ \A p \in 1 .. NumPlanes : \A l \in 1 .. Len(said[p]) : \A i \in 1 .. Len(said[p][l]) :
       pixels[<<p - 1, PlaneHeight - l, i - 1>>] = said[p][l][i]
=============================================================================
