---------------------------- MODULE Bitmap_proofs ----------------------------
(***************************************************************************)
(* For bitmaps of any size, any pixels, run lengths, masks and planes and  *)
(* any number of orders or segments: both decoders put every pixel where   *)
(* the server means it and give up on none, and what is painted or cached  *)
(* is the bitmap the right way up.                                         *)
(***************************************************************************)
EXTENDS Bitmap, SequenceTheorems, WellFoundedInduction, TLAPS

-----------------------------------------------------------------------------
(* Induction and recursion along the indices of a loop.                    *)

\* Induction up to N, on a set.
LEMMA Induction ==
  ASSUME NEW T, NEW N \in Nat, 0 \in T, \A n \in 1 .. N : n - 1 \in T => n \in T
  PROVE  \A n \in 0 .. N : n \in T
<1> DEFINE Rest == {n \in 0 .. N : n \notin T}
           R == OpToRel(<, Nat)
<1> SUFFICES ASSUME Rest # {} PROVE FALSE
  OBVIOUS
<1>1. IsWellFoundedOn(R, Nat)
  BY NatLessThanWellFounded
<1>2. \A a, b \in Nat : a < b => <<a, b>> \in R
  BY DEF OpToRel
<1> HIDE DEF R
<1>3. Rest \subseteq Nat
  OBVIOUS
<1>4. PICK least \in Rest : \A y \in Rest : ~(<<y, least>> \in R)
  BY <1>1, <1>3, WFMin
<1>5. least \in 1 .. N /\ least \notin T
  BY <1>4
<1>6. least - 1 \in Rest /\ least - 1 \in Nat /\ least \in Nat /\ least - 1 < least
  BY <1>5
<1> QED
  BY <1>2, <1>4, <1>6

\* What is defined from step to step exists.
Stepping(N, S) == [(1 .. N) \X S -> S]
LEMMA Recursion ==
  ASSUME NEW S, NEW N \in Nat, NEW a \in S, NEW step \in Stepping(N, S)
  PROVE  \E f \in [0 .. N -> S] :
           f[0] = a /\ \A n \in 1 .. N : f[n] = step[<<n, f[n - 1]>>]
<1> DEFINE Upto(m) == \E f \in [0 .. m -> S] :
                        f[0] = a /\ \A n \in 1 .. m : f[n] = step[<<n, f[n - 1]>>]
           T == {m \in 0 .. N : Upto(m)}
<1>1. Upto(0)
  <2> DEFINE e == [n \in 0 .. 0 |-> a]
  <2>1. e \in [0 .. 0 -> S] /\ e[0] = a
    OBVIOUS
  <2>2. \A n \in 1 .. 0 : e[n] = step[<<n, e[n - 1]>>]
    OBVIOUS
  <2> HIDE DEF e
  <2> QED
    BY <2>1, <2>2
<1>2. ASSUME NEW m \in 1 .. N, m - 1 \in T PROVE Upto(m)
  <2>1. PICK f \in [0 .. m - 1 -> S] :
          f[0] = a /\ \A n \in 1 .. m - 1 : f[n] = step[<<n, f[n - 1]>>]
    BY <1>2
  <2> DEFINE g == [n \in 0 .. m |-> IF n = m THEN step[<<m, f[m - 1]>>] ELSE f[n]]
  <2>2. step[<<m, f[m - 1]>>] \in S
    BY <2>1 DEF Stepping
  <2>3. g \in [0 .. m -> S] /\ g[0] = a
    BY <2>1, <2>2
  <2>4. ASSUME NEW n \in 1 .. m PROVE g[n] = step[<<n, g[n - 1]>>]
    <3>1. n - 1 \in 0 .. m /\ n - 1 # m /\ n \in 0 .. m
      BY <1>2
    <3>2. g[n - 1] = f[n - 1] /\ g[n] = IF n = m THEN step[<<m, f[m - 1]>>] ELSE f[n]
      BY <3>1
    <3>3. CASE n = m
      BY <3>2, <3>3
    <3>4. CASE n # m
      <4>1. n \in 1 .. m - 1
        BY <1>2, <3>4
      <4> QED
        BY <2>1, <3>2, <3>4, <4>1
    <3> QED
      BY <3>3, <3>4
  <2> QED
    BY <2>3, <2>4
<1> HIDE DEF Upto
<1>3. \A n \in 0 .. N : n \in T
  <2>1. 0 \in T
    BY <1>1
  <2>2. \A n \in 1 .. N : n - 1 \in T => n \in T
    BY <1>2
  <2> HIDE DEF T
  <2> QED
    BY <2>1, <2>2, Induction
<1> QED
  BY <1>3 DEF Upto

\* A tuple of values is a sequence.
LEMMA TupleIsSeq ==
  ASSUME NEW S, NEW n \in Nat, NEW t \in [1 .. n -> S]
  PROVE  t \in Seq(S) /\ Len(t) = n
<1>1. t \in Seq(S)
  BY SeqDef
<1>2. DOMAIN t = 1 .. n /\ Len(t) \in Nat /\ DOMAIN t = 1 .. Len(t)
  BY <1>1, LenProperties
<1> QED
  BY <1>1, <1>2


-----------------------------------------------------------------------------
(* Planes: types and positions.                                            *)

Byte == 0 .. 255
Colors == -128 .. 255   \* values and differences
PlanesDomain == (0 .. NumPlanes - 1) \X (0 .. PlaneHeight - 1) \X (0 .. PlaneWidth - 1)

PlanesTypes ==
  /\ plane \in 0 .. NumPlanes /\ indexh \in 0 .. PlaneHeight - 1 /\ indexw \in 0 .. PlaneWidth - 1
  /\ color \in Colors
  /\ pixels \in [PlanesDomain -> Byte]
  /\ pro \in Nat /\ size \in Nat
  /\ said \in [1 .. NumPlanes -> Seq(Seq(Byte))]

\* The server is where the decoder is: the lines of the planes that are done are
\* complete, and so are those of this plane but the last.
Positions ==
  \A p \in 1 .. NumPlanes :
    /\ p <= plane => Len(said[p]) = PlaneHeight
    /\ p = plane + 1 => Len(said[p]) = indexh + 1 /\ Len(said[p][indexh + 1]) = indexw
    /\ p > plane + 1 => said[p] = <<>>
    /\ \A l \in 1 .. Len(said[p]) :
         p <= plane \/ l <= indexh => Len(said[p][l]) = PlaneWidth

\* What a run repeats is what made the last pixel of the line.
RunColor ==
  /\ indexw = 0 => color = 0
  /\ plane < NumPlanes /\ indexw > 0 =>
       LET lines == said[plane + 1]
       IN IF indexh = 0 THEN color = lines[1][indexw]
          ELSE (lines[indexh][indexw] + color) % 256 = lines[indexh + 1][indexw]

PlanesInv == PlanesTypes /\ Positions /\ RunColor /\ PlanesAsMeant

-----------------------------------------------------------------------------
(* Planes: bytes.                                                          *)

LEMMA Numbers == Byte \subseteq Int /\ Colors \subseteq Int /\ Byte \subseteq Colors /\ 0 \in Colors
BY DEF Byte, Colors

LEMMA ByteModulo == ASSUME NEW b \in Byte PROVE (b + 0) % 256 = b
BY DEF Byte

LEMMA WrapsToByte == ASSUME NEW a \in Byte, NEW b \in Byte, NEW e \in Byte PROVE (a + b - e) % 256 \in Byte
BY DEF Byte

\* A difference survives its byte, modulo 256.
LEMMA DifferenceEncoded ==
  ASSUME NEW a \in Byte, NEW b \in Byte
  PROVE  /\ Encoded(a, b) \in Byte
         /\ Difference(Encoded(a, b)) \in Colors
         /\ (a + Difference(Encoded(a, b))) % 256 = b
<1> DEFINE d == ((b - a + 128) % 256) - 128
<1>1. d \in -128 .. 127 /\ (a + d) % 256 = b
  BY DEF Byte
<1>2. Encoded(a, b) = IF d >= 0 THEN 2 * d ELSE -2 * d - 1
  BY DEF Encoded
<1> HIDE DEF d
<1>3. CASE d >= 0
  <2>1. (2 * d) % 2 = 0 /\ (2 * d) \div 2 = d
    BY <1>1, <1>3
  <2>2. Difference(2 * d) = d
    BY <2>1 DEF Difference
  <2> QED
    BY <1>1, <1>2, <1>3, <2>2 DEF Byte, Colors
<1>4. CASE d < 0
  <2>1. (-2 * d - 1) % 2 = 1 /\ (-2 * d - 1) \div 2 = -d - 1
    BY <1>1, <1>4
  <2>2. Difference(-2 * d - 1) = d
    BY <1>1, <2>1 DEF Difference
  <2> QED
    BY <1>1, <1>2, <1>4, <2>2 DEF Byte, Colors
<1> QED
  BY <1>1, <1>3, <1>4

\* A control byte says the two lengths it was made of.
LEMMA LengthsOfCode ==
  ASSUME NEW c \in 0 .. 15, NEW r \in 0 .. 47, Code(c, r) # -1
  PROVE  Lengths(Code(c, r)) = [collen |-> c, replen |-> r] /\ Code(c, r) \in Int
<1>1. CASE r \in {0} \cup 3 .. 15
  <2> DEFINE code == 16 * c + r
  <2>1. Code(c, r) = code
    BY <1>1 DEF Code
  <2>2. code % 16 = r /\ code \div 16 = c
    BY <1>1
  <2> HIDE DEF code
  <2>3. ~(r * 16 + c \in 16 .. 47)
    BY <1>1
  <2>4. Lengths(code) = [collen |-> c, replen |-> r]
    BY <2>2, <2>3 DEF Lengths
  <2>5. code \in Int
    BY DEF code
  <2> QED
    BY ONLY <2>1, <2>4, <2>5
<1>2. CASE r \notin {0} \cup 3 .. 15
  <2> DEFINE code == 16 * (r % 16) + (r \div 16)
  <2>1. Code(c, r) = code /\ c = 0 /\ r \in 16 .. 47
    BY <1>2 DEF Code
  <2>2. code % 16 = r \div 16 /\ code \div 16 = r % 16 /\ (r \div 16) * 16 + (r % 16) = r
    BY <2>1
  <2> HIDE DEF code
  <2>3. Lengths(code) = [collen |-> c, replen |-> r]
    BY <2>1, <2>2 DEF Lengths
  <2>4. code \in Int
    BY DEF code
  <2> QED
    BY ONLY <2>1, <2>3, <2>4
<1> QED
  BY <1>1, <1>2

-----------------------------------------------------------------------------
(* Planes: one segment.                                                    *)

\* Where the decoder and the server are when a segment is said.
LEMMA Here ==
  ASSUME PlanesInv, plane < NumPlanes
  PROVE  /\ plane + 1 \in 1 .. NumPlanes
         /\ SaidLines \in Seq(Seq(Byte)) /\ Len(SaidLines) = indexh + 1
         /\ SaidLine = SaidLines[indexh + 1]
         /\ SaidLine \in Seq(Byte) /\ Len(SaidLine) = indexw
         /\ indexh > 0 => /\ SaidLines[indexh] \in Seq(Byte) /\ Len(SaidLines[indexh]) = PlaneWidth
                          /\ \A i \in 1 .. PlaneWidth : Below(i) = SaidLines[indexh][i] /\ Below(i) \in Byte
<1>1. plane + 1 \in 1 .. NumPlanes /\ indexh \in Nat
  BY PlanesAssumption DEF PlanesInv, PlanesTypes
<1>2. SaidLines \in Seq(Seq(Byte)) /\ Len(SaidLines) = indexh + 1 /\ Len(SaidLines[indexh + 1]) = indexw
  BY <1>1 DEF PlanesInv, PlanesTypes, Positions, SaidLines
<1>3. SaidLine = SaidLines[indexh + 1] /\ SaidLine \in Seq(Byte) /\ Len(SaidLine) = indexw
  BY <1>1, <1>2, ElementOfSeq DEF SaidLine
<1>4. ASSUME indexh > 0
      PROVE  /\ SaidLines[indexh] \in Seq(Byte) /\ Len(SaidLines[indexh]) = PlaneWidth
             /\ \A i \in 1 .. PlaneWidth : Below(i) = SaidLines[indexh][i] /\ Below(i) \in Byte
  <2>1. indexh \in 1 .. Len(SaidLines) /\ indexh <= indexh
    BY <1>1, <1>2, <1>4
  <2>2. SaidLines[indexh] \in Seq(Byte)
    BY <1>2, <2>1, ElementOfSeq
  <2>3. Len(SaidLines[indexh]) = PlaneWidth
    BY <1>1, <2>1 DEF PlanesInv, Positions, SaidLines
  <2>4. \A i \in 1 .. PlaneWidth : Below(i) = SaidLines[indexh][i]
    BY <1>1, <1>2 DEF Below
  <2> QED
    BY <2>2, <2>3, <2>4, ElementOfSeq
<1> QED
  BY <1>1, <1>2, <1>3, <1>4

\* A line that continues the server's with some values and a run.
Continues(line, values, c, r) ==
  LET n == indexw + c
  IN /\ \A i \in 1 .. indexw : line[i] = SaidLine[i]
     /\ \A i \in 1 .. c : line[indexw + i] = values[i]
     /\ \A i \in 1 .. r :
          line[n + i] = CASE n = 0 /\ indexh = 0 -> 0
                          [] n = 0 /\ indexh # 0 -> Below(i)
                          [] n > 0 /\ indexh = 0 -> line[n]
                          [] n > 0 /\ indexh # 0 -> (Below(n + i) + line[n] - Below(n)) % 256

LEMMA LineSaid ==
  ASSUME PlanesInv, plane < NumPlanes, NEW c \in Nat, NEW values \in [1 .. c -> Byte], NEW r \in Nat,
         indexw + c + r <= PlaneWidth
  PROVE  /\ Continued(values, r) \in Seq(Byte) /\ Len(Continued(values, r)) = indexw + c + r
         /\ Continues(Continued(values, r), values, c, r)
<1> DEFINE upto == SaidLine \o values
           n == indexw + c
           Run1(i) == CASE n = 0 /\ indexh = 0 -> 0
                        [] n = 0 /\ indexh # 0 -> Below(i)
                        [] n > 0 /\ indexh = 0 -> upto[n]
                        [] n > 0 /\ indexh # 0 -> (Below(n + i) + upto[n] - Below(n)) % 256
           run == [i \in 1 .. r |-> Run1(i)]
           line == upto \o run
<1>1. values \in Seq(Byte) /\ Len(values) = c
  BY TupleIsSeq
<1>2. SaidLine \in Seq(Byte) /\ Len(SaidLine) = indexw /\ indexw \in Nat /\ indexh \in Nat
  BY Here DEF PlanesInv, PlanesTypes
<1>3. /\ upto \in Seq(Byte) /\ Len(upto) = n
      /\ \A i \in 1 .. indexw : upto[i] = SaidLine[i]
      /\ \A i \in 1 .. c : upto[indexw + i] = values[i]
  <2>1. /\ upto \in Seq(Byte) /\ Len(upto) = n
        /\ \A i \in 1 .. n : upto[i] = IF i <= indexw THEN SaidLine[i] ELSE values[i - indexw]
    BY <1>1, <1>2, ConcatProperties
  <2> HIDE DEF upto
  <2>2. \A i \in 1 .. indexw : i \in 1 .. n /\ i <= indexw
    BY <1>2
  <2>3. \A i \in 1 .. c : indexw + i \in 1 .. n /\ ~(indexw + i <= indexw) /\ indexw + i - indexw = i
    BY <1>2
  <2> HIDE DEF n
  <2>4. \A i \in 1 .. indexw : upto[i] = SaidLine[i]
    BY <2>1, <2>2
  <2>5. ASSUME NEW i \in 1 .. c PROVE upto[indexw + i] = values[i]
    <3> DEFINE j == indexw + i
    <3>1. j \in 1 .. n /\ ~(j <= indexw) /\ j - indexw = i
      BY <1>2, <2>3
    <3> HIDE DEF j
    <3>2. upto[j] = values[j - indexw]
      BY <2>1, <3>1
    <3> QED
      BY <3>1, <3>2 DEF j
  <2> QED
    BY <2>1, <2>4, <2>5
<1>4. n \in Nat /\ n + r <= PlaneWidth /\ (n > 0 => upto[n] \in Byte)
  <2> HIDE DEF upto
  <2> QED
    BY <1>2, <1>3, ElementOfSeq
<1>5. ASSUME NEW i \in 1 .. r PROVE Run1(i) \in Byte
  <2> HIDE DEF upto, n
  <2>1. CASE indexh = 0
    <3>1. 0 \in Byte
      BY DEF Byte
    <3>2. CASE n = 0
      <4>1. Run1(i) = 0
        BY ONLY <2>1, <3>2
      <4> QED
        BY ONLY <3>1, <4>1
    <3>3. CASE n > 0
      <4>1. Run1(i) = upto[n] /\ upto[n] \in Byte
        BY ONLY <1>4, <2>1, <3>3
      <4> QED
        BY ONLY <4>1
    <3> QED
      BY ONLY <1>4, <3>2, <3>3
  <2>2. CASE indexh # 0 /\ n = 0
    <3>1. Below(i) \in Byte
      BY <1>2, <1>4, <2>2, Here, PlanesAssumption DEF PlanesInv, PlanesTypes
    <3> QED
      BY <2>2, <3>1
  <2>3. CASE indexh # 0 /\ n # 0
    <3>1. Below(n + i) \in Byte /\ Below(n) \in Byte /\ upto[n] \in Byte
      BY <1>2, <1>4, <2>3, Here, PlanesAssumption DEF PlanesInv, PlanesTypes
    <3>2. (Below(n + i) + upto[n] - Below(n)) % 256 \in Byte
      BY <3>1, WrapsToByte
    <3> QED
      BY <1>4, <2>3, <3>2
  <2> QED
    BY <2>1, <2>2, <2>3
<1>6. run \in Seq(Byte) /\ Len(run) = r /\ \A i \in 1 .. r : run[i] = Run1(i)
  <2>1. run \in [1 .. r -> Byte]
    BY <1>5
  <2> HIDE DEF Run1
  <2> QED
    BY <2>1, TupleIsSeq
<1>7. Continued(values, r) = line
  <2>1. Len(SaidLines) = 1 <=> indexh = 0
    <3>1. Len(SaidLines) = indexh + 1
      BY Here
    <3> QED
      BY ONLY <1>2, <3>1
  <2>2. Len(upto) = n
    BY <1>3
  <2>3. Continued(values, r) =
          upto \o [i \in 1 .. r |->
                     CASE Len(upto) = 0 /\ Len(SaidLines) = 1 -> 0
                       [] Len(upto) = 0 /\ ~(Len(SaidLines) = 1) -> Below(i)
                       [] Len(upto) > 0 /\ Len(SaidLines) = 1 -> upto[Len(upto)]
                       [] Len(upto) > 0 /\ ~(Len(SaidLines) = 1) ->
                            (Below(Len(upto) + i) + upto[Len(upto)] - Below(Len(upto))) % 256]
    BY DEF Continued
  <2> DEFINE Next1(i) ==
               CASE Len(upto) = 0 /\ Len(SaidLines) = 1 -> 0
                 [] Len(upto) = 0 /\ ~(Len(SaidLines) = 1) -> Below(i)
                 [] Len(upto) > 0 /\ Len(SaidLines) = 1 -> upto[Len(upto)]
                 [] Len(upto) > 0 /\ ~(Len(SaidLines) = 1) ->
                      (Below(Len(upto) + i) + upto[Len(upto)] - Below(Len(upto))) % 256
  <2> HIDE DEF upto, n
  <2>4. \A i \in 1 .. r : Next1(i) = Run1(i)
    BY ONLY <2>1, <2>2 DEF Next1, Run1
  <2>5. [i \in 1 .. r |-> Next1(i)] = [i \in 1 .. r |-> Run1(i)]
    <3> HIDE DEF Next1, Run1
    <3> QED
      BY <2>4
  <2> QED
    BY ONLY <2>3, <2>5 DEF Next1, run, line
<1> HIDE DEF upto, run, Run1
<1>8. /\ line \in Seq(Byte) /\ Len(line) = n + r
      /\ \A i \in 1 .. n + r : line[i] = IF i <= n THEN upto[i] ELSE run[i - n]
  <2>1. upto \in Seq(Byte) /\ Len(upto) = n
    BY <1>3
  <2>2. run \in Seq(Byte) /\ Len(run) = r
    BY <1>6
  <2> HIDE DEF n
  <2> QED
    BY <2>1, <2>2, ConcatProperties
<1> HIDE DEF line
<1>9. \A i \in 1 .. n : line[i] = upto[i]
  BY <1>4, <1>8
<1>10. \A i \in 1 .. r : line[n + i] = Run1(i)
  <2> HIDE DEF n
  <2>1. ASSUME NEW i \in 1 .. r PROVE line[n + i] = Run1(i)
    <3> DEFINE j == n + i
    <3>1. j \in 1 .. n + r /\ ~(j <= n) /\ j - n = i
      BY <1>4
    <3>2. line[j] = run[j - n]
      <4> HIDE DEF j
      <4> QED
        BY <1>8, <3>1
    <3>3. run[i] = Run1(i)
      BY <1>6
    <3> QED
      BY <3>1, <3>2, <3>3
  <2> QED
    BY <2>1
<1>11. n > 0 => line[n] = upto[n]
  BY <1>4, <1>9
<1>12. \A i \in 1 .. indexw : line[i] = SaidLine[i]
  BY <1>2, <1>3, <1>9
<1>13. \A i \in 1 .. c : line[indexw + i] = values[i]
  BY <1>2, <1>3, <1>9
<1>14. \A i \in 1 .. r :
         line[n + i] = CASE n = 0 /\ indexh = 0 -> 0
                         [] n = 0 /\ indexh # 0 -> Below(i)
                         [] n > 0 /\ indexh = 0 -> line[n]
                         [] n > 0 /\ indexh # 0 -> (Below(n + i) + line[n] - Below(n)) % 256
  <2> HIDE DEF n
  <2>1. CASE n = 0
    BY <1>10, <2>1 DEF Run1
  <2>2. CASE n > 0
    BY <1>10, <1>11, <2>2 DEF Run1
  <2> QED
    BY <1>4, <2>1, <2>2
<1> QED
  BY ONLY <1>7, <1>8, <1>12, <1>13, <1>14 DEF Continues

\* What the decoder makes of a value, and what it repeats after some.
Coloured(v, i) == IF indexh = 0 THEN v ELSE Difference(Encoded(Below(indexw + i), v))
Run(values) == LET c == Len(values) IN IF c > 0 THEN Coloured(values[c], c) ELSE color

\* What it makes the pixel of a column of, and the pixel.
Source(values, column) ==
  LET i == column - indexw
  IN IF i < Len(values) THEN Coloured(values[i + 1], i + 1) ELSE Run(values)
Shade(column, v) ==
  IF indexh = 0 THEN v ELSE (pixels[<<plane, PlaneHeight - indexh, column>>] + v) % 256

\* What a segment of c values and a run of r puts, and where it leads.
Puts(values, c, r) ==
  pixels' = [p \in PlanesDomain |->
              IF p[1] = plane /\ p[2] = PlaneHeight - 1 - indexh /\ p[3] \in indexw .. indexw + c + r - 1
              THEN Shade(p[3], Source(values, p[3]))
              ELSE pixels[p]]
LineEnds(c, r) == indexw + c + r >= PlaneWidth
PlaneEnds(c, r) == LineEnds(c, r) /\ indexh + 1 = PlaneHeight
Advances(values, c, r) ==
  /\ pro' = pro + 1 + c
  /\ indexw' = IF LineEnds(c, r) THEN 0 ELSE indexw + c + r
  /\ color' = IF LineEnds(c, r) THEN 0 ELSE Run(values)
  /\ indexh' = IF PlaneEnds(c, r) THEN 0 ELSE IF LineEnds(c, r) THEN indexh + 1 ELSE indexh
  /\ plane' = IF PlaneEnds(c, r) THEN plane + 1 ELSE plane

\* The bytes of a segment, and what the decoder makes of them.
LEMMA BytesSaid ==
  ASSUME PlanesInv, plane < NumPlanes, NEW c \in 0 .. 15, NEW r \in 0 .. 47,
         NEW values \in [1 .. c -> Byte], Code(c, r) # -1, indexw + c + r <= PlaneWidth
  PROVE  /\ Lengths(Bytes(values, r)[1]) = [collen |-> c, replen |-> r]
         /\ \A i \in 1 .. c : LET byte == Bytes(values, r)[1 + i]
                              IN (IF indexh = 0 THEN byte ELSE Difference(byte)) = Coloured(values[i], i)
<1> DEFINE B(i) == IF indexh = 0 THEN values[i] ELSE Encoded(Below(indexw + i), values[i])
           bytes == [i \in 1 .. c |-> B(i)]
           code == Code(c, r)
           input == <<code>> \o bytes
<1>1. values \in Seq(Byte) /\ Len(values) = c /\ c \in Nat
  BY TupleIsSeq
<1>2. indexw \in Nat /\ indexh \in Nat /\ (Len(SaidLines) = 1 <=> indexh = 0) /\ Len(SaidLine) = indexw
  <2>1. indexw \in Nat /\ indexh \in Nat /\ Len(SaidLines) = indexh + 1 /\ Len(SaidLine) = indexw
    BY Here DEF PlanesInv, PlanesTypes
  <2> QED
    BY ONLY <2>1
<1>3. Bytes(values, r) = input
  <2>1. Bytes(values, r) =
          <<code>> \o [i \in 1 .. c |->
                         IF Len(SaidLines) = 1 THEN values[i] ELSE Encoded(Below(indexw + i), values[i])]
    BY <1>1, <1>2 DEF Bytes
  <2> QED
    BY ONLY <1>2, <2>1 DEF B, bytes, input
<1>4. \A i \in 1 .. c : B(i) \in Byte
  <2>1. ASSUME NEW i \in 1 .. c, indexh # 0 PROVE Encoded(Below(indexw + i), values[i]) \in Byte
    <3>1. indexh > 0 /\ indexw + i \in 1 .. PlaneWidth
      BY <1>1, <1>2, <2>1, PlanesAssumption
    <3>2. Below(indexw + i) \in Byte
      BY <3>1, Here
    <3> QED
      BY <3>2, DifferenceEncoded
  <2> QED
    BY <2>1
<1>5. bytes \in Seq(Byte) /\ Len(bytes) = c /\ \A i \in 1 .. c : bytes[i] = B(i)
  <2>1. bytes \in [1 .. c -> Byte]
    BY <1>4
  <2> HIDE DEF B
  <2> QED
    BY <1>1, <2>1, TupleIsSeq
<1> HIDE DEF bytes, code
<1>6. input[1] = code /\ \A i \in 1 .. c : input[1 + i] = bytes[i]
  <2>1. code \in Int /\ bytes \in Seq(Int)
    <3>1. code \in Int
      BY LengthsOfCode DEF code
    <3>2. bytes \in [1 .. c -> Int]
      BY <1>5, Numbers, ElementOfSeq, LenProperties
    <3> QED
      BY <1>1, <3>1, <3>2, TupleIsSeq
  <2>2. <<code>> \in Seq(Int) /\ Len(<<code>>) = 1 /\ <<code>>[1] = code
    BY <2>1
  <2>3. \A j \in 1 .. 1 + c : input[j] = IF j <= 1 THEN <<code>>[j] ELSE bytes[j - 1]
    BY <1>5, <2>1, <2>2, ConcatProperties
  <2> HIDE DEF input
  <2>4. input[1] = code
    BY <1>1, <2>2, <2>3
  <2>5. ASSUME NEW i \in 1 .. c PROVE input[1 + i] = bytes[i]
    <3> DEFINE j == 1 + i
    <3>1. j \in 1 .. 1 + c /\ ~(j <= 1) /\ j - 1 = i
      BY <1>1
    <3> HIDE DEF j
    <3>2. input[j] = bytes[j - 1]
      BY <2>3, <3>1
    <3> QED
      BY <3>1, <3>2 DEF j
  <2> QED
    BY <2>4, <2>5
<1> HIDE DEF input
<1>7. Lengths(input[1]) = [collen |-> c, replen |-> r]
  BY <1>6, LengthsOfCode DEF code
<1>8. ASSUME NEW i \in 1 .. c
      PROVE  (IF indexh = 0 THEN input[1 + i] ELSE Difference(input[1 + i])) = Coloured(values[i], i)
  BY <1>5, <1>6 DEF Coloured
<1> QED
  BY <1>3, <1>7, <1>8

\* The decoder reads the lengths and the values that were said.
LEMMA SegmentReads ==
  ASSUME PlanesInv, plane < NumPlanes, NEW c \in 0 .. 15, NEW r \in 0 .. 47,
         NEW values \in [1 .. c -> Byte], Code(c, r) # -1, indexw + c + r <= PlaneWidth,
         Segment(Bytes(values, r))
  PROVE  Puts(values, c, r) /\ Advances(values, c, r)
<1> DEFINE input == Bytes(values, r)
           n == Lengths(input[1])
           line == PlaneHeight - 1 - indexh
           Col(i) == IF indexh = 0 THEN input[1 + i] ELSE Difference(input[1 + i])
           run == IF n.collen > 0 THEN Col(n.collen) ELSE color
           end == indexw + n.collen + n.replen
           Made(column) == IF column - indexw < n.collen THEN Col(column - indexw + 1) ELSE run
           Value1(column) == IF indexh = 0 THEN Made(column)
                             ELSE (pixels[<<plane, line + 1, column>>] + Made(column)) % 256
           A(p) == IF p[1] = plane /\ p[2] = line /\ p[3] \in indexw .. end - 1 THEN Value1(p[3]) ELSE pixels[p]
           B(p) == IF p[1] = plane /\ p[2] = line /\ p[3] \in indexw .. indexw + c + r - 1
                   THEN Shade(p[3], Source(values, p[3])) ELSE pixels[p]
<1>1. n = [collen |-> c, replen |-> r] /\ \A i \in 1 .. c : Col(i) = Coloured(values[i], i)
  BY BytesSaid
<1>2. Len(values) = c /\ DOMAIN pixels = PlanesDomain /\ indexw \in Nat /\ indexh \in Nat /\ PlaneHeight \in Nat
  BY TupleIsSeq, PlanesAssumption DEF PlanesInv, PlanesTypes
<1>3. /\ pixels' = [p \in DOMAIN pixels |-> A(p)]
      /\ pro' = pro + 1 + n.collen
      /\ indexw' = IF end >= PlaneWidth THEN 0 ELSE end
      /\ color' = IF end >= PlaneWidth THEN 0 ELSE run
      /\ indexh' = IF end >= PlaneWidth /\ indexh + 1 = PlaneHeight THEN 0
                   ELSE IF end >= PlaneWidth THEN indexh + 1 ELSE indexh
      /\ plane' = IF end >= PlaneWidth /\ indexh + 1 = PlaneHeight THEN plane + 1 ELSE plane
  <2> HIDE DEF input
  <2> QED
    BY DEF Segment, input
<1> HIDE DEF n, Col
<1>4. n.collen = c /\ n.replen = r /\ end = indexw + c + r
  BY <1>1
<1>5. run = Run(values)
  BY <1>1, <1>2, <1>4 DEF Run
<1>6. ASSUME NEW column \in indexw .. indexw + c + r - 1 PROVE Value1(column) = Shade(column, Source(values, column))
  <2>1. Made(column) = Source(values, column)
    <3> DEFINE i == column - indexw
    <3>1. i \in Nat /\ (i < c => i + 1 \in 1 .. c)
      BY <1>2
    <3>2. CASE i < c
      <4>1. Made(column) = Col(i + 1) /\ Source(values, column) = Coloured(values[i + 1], i + 1)
        BY <1>2, <1>4, <3>2 DEF Source
      <4> QED
        BY <1>1, <3>1, <3>2, <4>1
    <3>3. CASE ~(i < c)
      <4>1. Made(column) = run /\ Source(values, column) = Run(values)
        BY <1>2, <1>4, <3>3 DEF Source
      <4> QED
        BY <1>5, <4>1
    <3> QED
      BY <3>2, <3>3
  <2>2. line + 1 = PlaneHeight - indexh
    BY <1>2
  <2> HIDE DEF Made, line
  <2> QED
    BY <2>1, <2>2 DEF Shade
<1> HIDE DEF Value1, run, line, end
<1>7. [p \in DOMAIN pixels |-> A(p)] = [p \in PlanesDomain |-> B(p)]
  <2>1. ASSUME NEW p \in PlanesDomain PROVE A(p) = B(p)
    <3>1. indexw .. end - 1 = indexw .. indexw + c + r - 1
      <4>1. end = indexw + c + r
        BY <1>4
      <4> HIDE DEF A, B, Made
      <4> QED
        BY <1>2, <4>1
    <3>2. line = PlaneHeight - 1 - indexh
      BY DEF line
    <3>3. CASE p[3] \in indexw .. indexw + c + r - 1
      <4>1. Value1(p[3]) = Shade(p[3], Source(values, p[3]))
        BY <1>6, <3>3
      <4> QED
        BY ONLY <3>1, <3>2, <3>3, <4>1
    <3>4. CASE p[3] \notin indexw .. indexw + c + r - 1
      BY ONLY <3>1, <3>2, <3>4
    <3> QED
      BY <3>3, <3>4
  <2> HIDE DEF A, B
  <2> QED
    BY <1>2, <2>1
<1>8. Puts(values, c, r)
  BY <1>3, <1>7 DEF Puts, line
<1>9. Advances(values, c, r)
  BY <1>3, <1>4, <1>5 DEF Advances, LineEnds, PlaneEnds
<1> QED
  BY <1>8, <1>9

\* What the decoder puts is what the server's line says.
LEMMA ShadeMeant ==
  ASSUME PlanesInv, plane < NumPlanes, NEW c \in Nat, NEW r \in Nat,
         NEW values \in [1 .. c -> Byte], indexw + c + r <= PlaneWidth,
         NEW column \in indexw .. indexw + c + r - 1
  PROVE  /\ Shade(column, Source(values, column)) = Continued(values, r)[column + 1]
         /\ Source(values, column) \in Colors
<1> DEFINE line == Continued(values, r)
           n == indexw + c
           i == column - indexw + 1
           k == column + 1 - n
<1>1. /\ \A j \in 1 .. indexw : line[j] = SaidLine[j]
      /\ \A j \in 1 .. c : line[indexw + j] = values[j]
      /\ \A j \in 1 .. r :
           line[n + j] = CASE n = 0 /\ indexh = 0 -> 0
                           [] n = 0 /\ indexh # 0 -> Below(j)
                           [] n > 0 /\ indexh = 0 -> line[n]
                           [] n > 0 /\ indexh # 0 -> (Below(n + j) + line[n] - Below(n)) % 256
  <2>1. Continues(line, values, c, r)
    BY LineSaid
  <2> HIDE DEF line
  <2> QED
    BY ONLY <2>1 DEF Continues
<1>2. line \in Seq(Byte) /\ Len(line) = n + r /\ \A j \in 1 .. n + r : line[j] \in Byte
  <2>1. line \in Seq(Byte) /\ Len(line) = n + r
    BY LineSaid
  <2> QED
    BY <2>1, ElementOfSeq
<1> HIDE DEF line
<1>3. /\ indexw \in Nat /\ indexh \in 0 .. PlaneHeight - 1 /\ PlaneHeight \in Nat /\ PlaneWidth \in Nat
      /\ plane \in 0 .. NumPlanes - 1 /\ NumPlanes \in Nat /\ color \in Colors /\ n \in Nat /\ column \in Nat
  BY PlanesAssumption DEF PlanesInv, PlanesTypes
<1>4. column + 1 \in 1 .. PlaneWidth /\ n + r <= PlaneWidth /\ column + 1 <= n + r
  BY <1>3
<1>5. Len(values) = c /\ SaidLine = SaidLines[indexh + 1] /\ SaidLines = said[plane + 1]
  BY Here, TupleIsSeq DEF SaidLines
<1>6. ASSUME indexh > 0, NEW j \in 1 .. PlaneWidth
      PROVE  /\ Below(j) \in Byte /\ Below(j) = SaidLines[indexh][j]
             /\ pixels[<<plane, PlaneHeight - indexh, j - 1>>] = Below(j)
  <2> DEFINE P == plane + 1
  <2>1. /\ P \in 1 .. NumPlanes /\ indexh \in 1 .. Len(said[P]) /\ Len(said[P][indexh]) = PlaneWidth
        /\ Below(j) \in Byte /\ Below(j) = said[P][indexh][j]
    BY <1>3, <1>5, <1>6, Here
  <2>2. P - 1 = plane
    BY <1>3
  <2>3. pixels[<<P - 1, PlaneHeight - indexh, j - 1>>] = said[P][indexh][j]
    <3> HIDE DEF P
    <3> QED
      BY <2>1 DEF PlanesInv, PlanesAsMeant
  <2> QED
    BY <1>5, <2>1, <2>2, <2>3
<1>7. indexh > 0 => /\ Below(column + 1) \in Byte
                    /\ pixels[<<plane, PlaneHeight - indexh, column>>] = Below(column + 1)
  <2>1. column + 1 - 1 = column
    BY <1>3
  <2> QED
    BY <1>4, <1>6, <2>1
<1>8. Run(values) \in Colors /\ (n = 0 => Run(values) = 0)
      /\ (n > 0 /\ indexh = 0 => Run(values) = line[n])
      /\ (n > 0 /\ indexh > 0 => Below(n) \in Byte /\ (Below(n) + Run(values)) % 256 = line[n])
  <2>1. CASE c = 0
    <3>1. Run(values) = color /\ n = indexw
      BY <1>3, <1>5, <2>1 DEF Run
    <3>2. n > 0 => line[n] = SaidLine[n] /\ n \in 1 .. PlaneWidth
      <4>1. n > 0 => n \in 1 .. indexw /\ n \in 1 .. PlaneWidth
        BY <1>3, <1>4, <3>1
      <4> HIDE DEF n
      <4> QED
        BY <1>1, <4>1
    <3>3. n > 0 /\ indexh = 0 => color = line[n]
      BY <1>3, <1>5, <3>1, <3>2 DEF PlanesInv, RunColor
    <3>4. n > 0 /\ indexh > 0 => Below(n) \in Byte /\ (Below(n) + color) % 256 = line[n]
      <4>1. ASSUME n > 0, indexh > 0 PROVE (SaidLines[indexh][indexw] + color) % 256 = SaidLines[indexh + 1][indexw]
        BY <1>3, <1>5, <3>1, <4>1 DEF PlanesInv, RunColor
      <4>2. ASSUME n > 0, indexh > 0 PROVE Below(n) \in Byte /\ Below(n) = SaidLines[indexh][indexw]
        <5>1. n \in 1 .. PlaneWidth
          BY ONLY <3>2, <4>2
        <5>2. Below(n) \in Byte /\ Below(n) = SaidLines[indexh][n]
          BY <1>6, <4>2, <5>1
        <5> QED
          BY ONLY <3>1, <5>2
      <4>3. n > 0 => line[n] = SaidLines[indexh + 1][indexw]
        BY ONLY <1>5, <3>1, <3>2
      <4> QED
        BY ONLY <4>1, <4>2, <4>3
    <3>5. n = 0 => color = 0
      BY <3>1 DEF PlanesInv, RunColor
    <3> QED
      BY <1>3, <3>1, <3>3, <3>4, <3>5
  <2>2. CASE c > 0
    <3>1. /\ Run(values) = Coloured(values[c], c) /\ c \in 1 .. c /\ line[n] = values[c] /\ values[c] \in Byte
          /\ n \in 1 .. PlaneWidth
      <4>1. Run(values) = Coloured(values[c], c) /\ c \in 1 .. c /\ values[c] \in Byte
        BY <1>5, <2>2 DEF Run
      <4>2. line[indexw + c] = values[c]
        BY <1>1, <4>1
      <4>3. n \in 1 .. PlaneWidth
        BY <1>3, <1>4, <2>2
      <4> QED
        BY <4>1, <4>2, <4>3
    <3>2. CASE indexh = 0
      <4>1. Run(values) = values[c] /\ n > 0 /\ ~(indexh > 0)
        BY <1>3, <2>2, <3>1, <3>2 DEF Coloured
      <4>2. values[c] \in Colors
        BY <3>1, Numbers
      <4> HIDE DEF n
      <4> QED
        BY <3>1, <4>1, <4>2
    <3>3. CASE indexh # 0
      <4>1. Run(values) = Difference(Encoded(Below(n), values[c])) /\ indexh > 0 /\ n > 0
        BY <1>3, <3>1, <3>3 DEF Coloured
      <4>2. Below(n) \in Byte
        BY <1>6, <3>1, <4>1
      <4>3. Run(values) \in Colors /\ (Below(n) + Run(values)) % 256 = values[c]
        BY <3>1, <4>1, <4>2, DifferenceEncoded
      <4> HIDE DEF n
      <4> QED
        BY <3>1, <3>3, <4>1, <4>2, <4>3
    <3> QED
      BY <3>2, <3>3
  <2> QED
    BY <2>1, <2>2
<1>9. CASE i - 1 < c
  <2>1. i \in 1 .. c /\ indexw + i = column + 1 /\ column - indexw + 1 = i /\ column - indexw < c
    BY <1>3, <1>9
  <2>2. Source(values, column) = Coloured(values[i], i) /\ line[column + 1] = values[i] /\ values[i] \in Byte
    <3>1. Source(values, column) = Coloured(values[i], i)
      BY <1>5, <2>1 DEF Source
    <3>2. line[indexw + i] = values[i] /\ values[i] \in Byte
      <4> HIDE DEF i
      <4> QED
        BY <1>1, <2>1
    <3> HIDE DEF i
    <3> QED
      BY <2>1, <3>1, <3>2
  <2> HIDE DEF i
  <2>3. CASE indexh = 0
    BY <2>2, <2>3, Numbers DEF Shade, Coloured, line
  <2>4. CASE indexh # 0
    <3>1. indexh > 0 /\ Coloured(values[i], i) = Difference(Encoded(Below(column + 1), values[i]))
      BY <1>3, <2>1, <2>4 DEF Coloured
    <3>2. /\ Difference(Encoded(Below(column + 1), values[i])) \in Colors
          /\ (Below(column + 1) + Difference(Encoded(Below(column + 1), values[i]))) % 256 = values[i]
      BY <1>7, <2>2, <3>1, DifferenceEncoded
    <3> QED
      BY <1>7, <2>2, <2>4, <3>1, <3>2 DEF Shade, line
  <2> QED
    BY <2>3, <2>4
<1>10. CASE ~(i - 1 < c)
  <2>1. k \in 1 .. r /\ n + k = column + 1 /\ ~(column - indexw < c)
    BY <1>3, <1>4, <1>10
  <2>2. Source(values, column) = Run(values)
    BY <1>5, <2>1 DEF Source
  <2>3. line[column + 1] = CASE n = 0 /\ indexh = 0 -> 0
                             [] n = 0 /\ indexh # 0 -> Below(k)
                             [] n > 0 /\ indexh = 0 -> line[n]
                             [] n > 0 /\ indexh # 0 -> (Below(column + 1) + line[n] - Below(n)) % 256
    <3> HIDE DEF n, k
    <3> QED
      BY <1>1, <2>1
  <2> HIDE DEF i
  <2>4. CASE indexh = 0
    <3>1. Shade(column, Source(values, column)) = Run(values)
      BY <2>2, <2>4 DEF Shade
    <3> DEFINE v == Run(values)
    <3>2. v \in Colors /\ Source(values, column) = v /\ Shade(column, Source(values, column)) = v
      BY <1>8, <2>2, <3>1
    <3>3. (n = 0 => v = 0 /\ line[column + 1] = 0) /\ (n > 0 => v = line[n] /\ line[column + 1] = line[n])
      <4> HIDE DEF n, k, v
      <4> QED
        BY <1>3, <1>8, <2>3, <2>4 DEF v
    <3>4. n = 0 \/ n > 0
      BY <1>3
    <3> HIDE DEF n, k, v
    <3> QED
      BY <3>2, <3>3, <3>4 DEF line
  <2>5. CASE indexh # 0
    <3>1. indexh > 0
      BY <1>3, <2>5
    <3>2. Shade(column, Source(values, column)) = (Below(column + 1) + Run(values)) % 256
      BY <1>7, <2>2, <2>5, <3>1 DEF Shade
    <3>3. CASE n = 0
      <4>1. k = column + 1 /\ line[column + 1] = Below(column + 1)
        BY <1>3, <2>1, <2>3, <2>5, <3>3
      <4>2. (Below(column + 1) + 0) % 256 = Below(column + 1)
        BY <1>7, <3>1, ByteModulo
      <4> HIDE DEF n, k
      <4> QED
        BY <1>8, <2>2, <3>2, <3>3, <4>1, <4>2 DEF line
    <3>4. CASE n # 0
      <4> DEFINE e == Below(n)
                 v == Run(values)
                 here == Below(column + 1)
                 u == line[n]
                 q == (e + v) \div 256
      <4>1. n > 0 /\ n \in 1 .. n + r
        BY <1>3, <3>4
      <4>2. e \in Int /\ v \in Int /\ here \in Int /\ u \in Int /\ u = (e + v) % 256
        BY <1>2, <1>7, <1>8, <3>1, <4>1, Numbers
      <4>3. line[column + 1] = (here + u - e) % 256
        <5> HIDE DEF n, k
        <5> QED
          BY <2>3, <2>5, <4>1
      <4> HIDE DEF e, v, here, u
      <4>4. q \in Int /\ e + v = 256 * q + u
        BY <4>2
      <4> HIDE DEF q
      <4>5. here + v = (here + u - e) + 256 * q
        BY <4>2, <4>4
      <4>6. (here + v) % 256 = (here + u - e) % 256
        BY <4>2, <4>4, <4>5
      <4> HIDE DEF n, k
      <4> QED
        BY <1>8, <2>2, <3>2, <4>3, <4>6 DEF here, v, line
    <3> QED
      BY <3>3, <3>4
  <2> QED
    BY <2>4, <2>5
<1> QED
  BY <1>9, <1>10

\* A sequence with its last element replaced.
LEMMA ExceptLast ==
  ASSUME NEW S, NEW n \in Nat, NEW s \in Seq(S), Len(s) = n + 1, NEW e \in S
  PROVE  LET t == [s EXCEPT ![n + 1] = e]
         IN t \in Seq(S) /\ Len(t) = n + 1 /\ t[n + 1] = e /\ \A i \in 1 .. n : t[i] = s[i] /\ t[i] \in S
<1> DEFINE t == [s EXCEPT ![n + 1] = e]
<1>1. DOMAIN s = 1 .. n + 1 /\ \A i \in 1 .. n + 1 : s[i] \in S
  BY LenProperties, ElementOfSeq
<1>2. t \in [1 .. n + 1 -> S]
  BY <1>1
<1>3. t \in Seq(S) /\ Len(t) = n + 1
  <2>1. n + 1 \in Nat
    OBVIOUS
  <2> QED
    BY <1>2, <2>1, TupleIsSeq
<1>4. t[n + 1] = e /\ \A i \in 1 .. n : t[i] = s[i] /\ t[i] \in S
  BY <1>1
<1> QED
  BY <1>3, <1>4

\* The pixels after a segment are the lines the server has said by then.
LEMMA PixelsSaid ==
  ASSUME PlanesInv, plane < NumPlanes, NEW c \in Nat, NEW r \in Nat, NEW values \in [1 .. c -> Byte],
         indexw + c + r <= PlaneWidth, Puts(values, c, r)
  PROVE  LET lines == [SaidLines EXCEPT ![indexh + 1] = Continued(values, r)]
         IN /\ pixels' \in [PlanesDomain -> Byte]
            /\ \A l \in 1 .. indexh + 1 : \A i \in 1 .. Len(lines[l]) :
                 pixels'[<<plane, PlaneHeight - l, i - 1>>] = lines[l][i]
            /\ \A p \in 1 .. NumPlanes : p # plane + 1 =>
                 \A l \in 1 .. PlaneHeight, i \in 1 .. PlaneWidth :
                   pixels'[<<p - 1, PlaneHeight - l, i - 1>>] = pixels[<<p - 1, PlaneHeight - l, i - 1>>]
<1> DEFINE line == Continued(values, r)
           lines == [SaidLines EXCEPT ![indexh + 1] = line]
           end == indexw + c + r
           In(p) == p[1] = plane /\ p[2] = PlaneHeight - 1 - indexh /\ p[3] \in indexw .. indexw + c + r - 1
           New(p) == IF In(p) THEN Shade(p[3], Source(values, p[3])) ELSE pixels[p]
<1>1. /\ indexw \in Nat /\ indexh \in 0 .. PlaneHeight - 1 /\ PlaneHeight \in Nat /\ PlaneWidth \in Nat
      /\ plane \in 0 .. NumPlanes - 1 /\ NumPlanes \in Nat /\ plane + 1 \in 1 .. NumPlanes
      /\ pixels \in [PlanesDomain -> Byte] /\ end \in Nat /\ end <= PlaneWidth
  BY PlanesAssumption DEF PlanesInv, PlanesTypes
<1>2. /\ line \in Seq(Byte) /\ Len(line) = end /\ (\A i \in 1 .. indexw : line[i] = SaidLine[i])
      /\ \A i \in 1 .. end : line[i] \in Byte
  <2>1. line \in Seq(Byte) /\ Len(line) = end /\ Continues(line, values, c, r)
    BY LineSaid
  <2> HIDE DEF line
  <2> QED
    BY <2>1, ElementOfSeq DEF Continues
<1>3. \A column \in indexw .. indexw + c + r - 1 : Shade(column, Source(values, column)) = line[column + 1]
  <2>1. ASSUME NEW column \in indexw .. indexw + c + r - 1
        PROVE  Shade(column, Source(values, column)) = line[column + 1]
    BY ShadeMeant
  <2> QED
    BY <2>1
<1> HIDE DEF line
<1>4. /\ SaidLines \in Seq(Seq(Byte)) /\ Len(SaidLines) = indexh + 1 /\ Len(SaidLine) = indexw
      /\ SaidLine = SaidLines[indexh + 1] /\ SaidLines = said[plane + 1]
  BY Here DEF SaidLines
<1>5. lines[indexh + 1] = line /\ \A l \in 1 .. indexh : lines[l] = SaidLines[l]
  BY <1>1, <1>2, <1>4, ExceptLast
<1>6. pixels' = [p \in PlanesDomain |-> New(p)]
  BY DEF Puts
<1>7. \A p \in PlanesDomain : In(p) => New(p) = line[p[3] + 1] /\ p[3] + 1 \in 1 .. end
  BY <1>1, <1>3
<1>8. pixels' \in [PlanesDomain -> Byte]
  <2>1. \A p \in PlanesDomain : New(p) \in Byte
    <3>1. \A p \in PlanesDomain : ~In(p) => New(p) = pixels[p]
      OBVIOUS
    <3> HIDE DEF New, In
    <3> QED
      BY <1>1, <1>2, <1>7, <3>1
  <2> HIDE DEF New
  <2> QED
    BY <1>6, <2>1
<1>9. ASSUME NEW p \in 1 .. NumPlanes, NEW l \in 1 .. PlaneHeight, NEW i \in 1 .. PlaneWidth
      PROVE  LET q == <<p - 1, PlaneHeight - l, i - 1>>
             IN /\ q \in PlanesDomain /\ pixels'[q] = IF In(q) THEN line[i] ELSE pixels[q]
                /\ In(q) <=> p = plane + 1 /\ l = indexh + 1 /\ i \in indexw + 1 .. end
  <2> DEFINE q == <<p - 1, PlaneHeight - l, i - 1>>
  <2>1. q \in PlanesDomain /\ q[1] = p - 1 /\ q[2] = PlaneHeight - l /\ q[3] = i - 1 /\ i - 1 + 1 = i
    BY <1>1 DEF PlanesDomain
  <2>2. In(q) <=> p = plane + 1 /\ l = indexh + 1 /\ i \in indexw + 1 .. end
    <3> HIDE DEF q
    <3> QED
      BY <1>1, <2>1
  <2>3. pixels'[q] = New(q)
    <3> HIDE DEF New, q
    <3> QED
      BY <1>6, <2>1
  <2>4. ~In(q) => New(q) = pixels[q]
    OBVIOUS
  <2>5. In(q) => New(q) = line[i]
    <3> HIDE DEF New, In, q
    <3> QED
      BY <1>7, <2>1
  <2> HIDE DEF New, In, q
  <2> QED
    BY <2>1, <2>2, <2>3, <2>4, <2>5 DEF q
<1> HIDE DEF In, New
<1>10. ASSUME NEW l \in 1 .. indexh + 1, NEW i \in 1 .. Len(lines[l])
       PROVE  pixels'[<<plane, PlaneHeight - l, i - 1>>] = lines[l][i]
  <2> DEFINE P == plane + 1
             q == <<P - 1, PlaneHeight - l, i - 1>>
  <2>1. P \in 1 .. NumPlanes /\ P - 1 = plane /\ l \in 1 .. PlaneHeight /\ l \in Nat
    BY <1>1
  <2>2. i \in 1 .. PlaneWidth /\ (l = indexh + 1 => i \in 1 .. end) /\ (l <= indexh => lines[l] = said[P][l])
        /\ (l <= indexh => Len(said[P][l]) = PlaneWidth)
    <3>1. CASE l = indexh + 1
      <4>1. lines[l] = line /\ ~(l <= indexh)
        BY <1>1, <1>5, <3>1
      <4> HIDE DEF lines, end
      <4>2. i \in 1 .. end
        BY <1>2, <4>1
      <4>3. i \in 1 .. PlaneWidth
        BY <1>1, <4>2
      <4> QED
        BY <4>1, <4>2, <4>3
    <3>2. CASE l # indexh + 1
      <4>1. l \in 1 .. indexh
        BY <1>1, <3>2
      <4>2. lines[l] = said[P][l]
        BY <1>4, <1>5, <4>1
      <4>3. Len(said[P][l]) = PlaneWidth
        <5>1. l \in 1 .. Len(said[P]) /\ l <= indexh
          BY <1>1, <1>4, <4>1
        <5> HIDE DEF P
        <5> QED
          BY <2>1, <5>1 DEF PlanesInv, Positions
      <4> HIDE DEF lines, P
      <4> QED
        BY <3>2, <4>2, <4>3
    <3> QED
      BY <3>1, <3>2
  <2>3. pixels'[q] = IF In(q) THEN line[i] ELSE pixels[q]
    <3> HIDE DEF P, lines
    <3> QED
      BY <1>9, <2>1, <2>2
  <2>4. In(q) <=> l = indexh + 1 /\ i \in indexw + 1 .. end
    <3>1. In(q) <=> P = plane + 1 /\ l = indexh + 1 /\ i \in indexw + 1 .. end
      <4>1. P \in 1 .. NumPlanes /\ l \in 1 .. PlaneHeight /\ i \in 1 .. PlaneWidth
        BY <2>1, <2>2
      <4> HIDE DEF P, lines, end
      <4> QED
        BY ONLY <1>9, <4>1
    <3> QED
      BY <3>1
  <2>5. CASE In(q)
    <3>1. lines[l] = line
      BY <1>5, <2>4, <2>5
    <3> HIDE DEF lines, P
    <3> QED
      BY <2>1, <2>3, <2>5, <3>1
  <2>6. CASE ~In(q)
    <3>1. pixels[q] = said[P][l][i] /\ said[P][l][i] = lines[l][i]
      <4>1. CASE l = indexh + 1
        <5>1. i \in 1 .. indexw
          BY <1>1, <2>2, <2>4, <2>6, <4>1
        <5>2. lines[l] = line /\ line[i] = said[P][l][i] /\ Len(said[P][l]) = indexw /\ l \in 1 .. Len(said[P])
          BY <1>2, <1>4, <1>5, <2>1, <4>1, <5>1
        <5> HIDE DEF lines, P
        <5> QED
          BY <2>1, <5>1, <5>2 DEF PlanesInv, PlanesAsMeant
      <4>2. CASE l # indexh + 1
        <5>1. l <= indexh /\ l \in 1 .. Len(said[P])
          BY <1>1, <1>4, <4>2
        <5> HIDE DEF lines, P
        <5> QED
          BY <2>1, <2>2, <5>1 DEF PlanesInv, PlanesAsMeant
      <4> QED
        BY <4>1, <4>2
    <3> HIDE DEF lines, P
    <3> QED
      BY <2>1, <2>3, <2>6, <3>1
  <2> QED
    BY <2>5, <2>6
<1>11. ASSUME NEW p \in 1 .. NumPlanes, p # plane + 1, NEW l \in 1 .. PlaneHeight, NEW i \in 1 .. PlaneWidth
       PROVE  pixels'[<<p - 1, PlaneHeight - l, i - 1>>] = pixels[<<p - 1, PlaneHeight - l, i - 1>>]
  BY <1>9, <1>11
<1> HIDE DEF lines
<1> QED
  BY <1>8, <1>10, <1>11 DEF lines, line

LEMMA PlanesStep ==
  ASSUME PlanesInv, NEW c \in RawCounts, NEW r \in 0 .. 47, NEW values \in [1 .. c -> Values], SaySegment(values, r)
  PROVE  PlanesInv'
<1> DEFINE P == plane + 1
           line == Continued(values, r)
           lines == [SaidLines EXCEPT ![Len(SaidLines)] = line]
           over == LineEnds(c, r)
           last == PlaneEnds(c, r)
           end == indexw + c + r
           new == IF over /\ ~last THEN Append(lines, <<>>) ELSE lines
           fresh == <<<<>>>>
<1>1. c \in 0 .. 15 /\ c \in Nat /\ r \in Nat /\ values \in [1 .. c -> Byte] /\ Len(values) = c
  <2>1. c \in 0 .. 15 /\ values \in [1 .. c -> Byte]
    <3>1. RawCounts \subseteq 0 .. 15 /\ Values \subseteq Byte
      BY PlanesAssumption DEF Byte
    <3>2. \A i \in 1 .. c : values[i] \in Byte
      BY <3>1
    <3> QED
      BY <3>1, <3>2
  <2> QED
    BY <2>1, TupleIsSeq
<1>2. /\ plane < NumPlanes /\ P \in 1 .. NumPlanes /\ P - 1 = plane
      /\ SaidLines \in Seq(Seq(Byte)) /\ Len(SaidLines) = indexh + 1 /\ Len(SaidLine) = indexw
      /\ SaidLine = SaidLines[indexh + 1] /\ SaidLines = said[P]
  <2>1. plane < NumPlanes
    BY DEF SaySegment
  <2> QED
    BY <2>1, Here, PlanesAssumption DEF SaidLines, PlanesInv, PlanesTypes
<1>3. /\ plane \in Nat /\ NumPlanes \in Nat /\ PlaneHeight \in Nat /\ PlaneWidth \in Nat /\ PlaneWidth > 0
      /\ indexh \in 0 .. PlaneHeight - 1 /\ indexw \in 0 .. PlaneWidth - 1 /\ end \in Nat
      /\ pro \in Nat /\ size \in Nat /\ pro = size
  BY <1>1, PlanesAssumption DEF PlanesInv, PlanesTypes, PlanesAsMeant
<1>4. /\ c + r > 0 /\ end <= PlaneWidth /\ Code(c, r) # -1 /\ size' = size + 1 + c
      /\ Segment(Bytes(values, r))
  BY <1>1, <1>2 DEF SaySegment
<1>5. Puts(values, c, r) /\ Advances(values, c, r)
  BY <1>1, <1>2, <1>4, SegmentReads
<1>6. line \in Seq(Byte) /\ Len(line) = end /\ \A i \in 1 .. end : line[i] \in Byte
  <2>1. line \in Seq(Byte) /\ Len(line) = end
    BY <1>1, <1>2, <1>4, LineSaid
  <2> QED
    BY <2>1, ElementOfSeq
<1>7. /\ pixels' \in [PlanesDomain -> Byte]
      /\ \A l \in 1 .. indexh + 1 : \A i \in 1 .. Len(lines[l]) :
           pixels'[<<plane, PlaneHeight - l, i - 1>>] = lines[l][i]
      /\ \A p \in 1 .. NumPlanes : p # P =>
           \A l \in 1 .. PlaneHeight, i \in 1 .. PlaneWidth :
             pixels'[<<p - 1, PlaneHeight - l, i - 1>>] = pixels[<<p - 1, PlaneHeight - l, i - 1>>]
  <2> DEFINE lines1 == [SaidLines EXCEPT ![indexh + 1] = line]
  <2>1. lines = lines1
    BY <1>2
  <2>2. indexw + c + r <= PlaneWidth
    BY <1>4
  <2>3. /\ pixels' \in [PlanesDomain -> Byte]
        /\ \A l \in 1 .. indexh + 1 : \A i \in 1 .. Len(lines1[l]) :
             pixels'[<<plane, PlaneHeight - l, i - 1>>] = lines1[l][i]
        /\ \A p \in 1 .. NumPlanes : p # plane + 1 =>
             \A l \in 1 .. PlaneHeight, i \in 1 .. PlaneWidth :
               pixels'[<<p - 1, PlaneHeight - l, i - 1>>] = pixels[<<p - 1, PlaneHeight - l, i - 1>>]
    BY ONLY PlanesInv, <1>1, <1>2, <1>5, <2>2, PixelsSaid, Zenon
  <2> HIDE DEF lines, lines1
  <2> QED
    BY ONLY <2>1, <2>3 DEF P
<1>8. /\ over <=> end = PlaneWidth
      /\ last <=> over /\ indexh + 1 = PlaneHeight
      /\ pro' = pro + 1 + c
      /\ indexw' = IF over THEN 0 ELSE end
      /\ color' = IF over THEN 0 ELSE Run(values)
      /\ indexh' = IF last THEN 0 ELSE IF over THEN indexh + 1 ELSE indexh
      /\ plane' = IF last THEN P ELSE plane
  BY <1>3, <1>4, <1>5 DEF Advances, LineEnds, PlaneEnds
<1>9. said' = [p \in 1 .. NumPlanes |->
                 CASE p = P -> IF Len(line) < PlaneWidth \/ (Len(line) = PlaneWidth /\ Len(lines) = PlaneHeight)
                               THEN lines ELSE Append(lines, <<>>)
                   [] p = plane + 2 /\ Len(line) = PlaneWidth /\ Len(lines) = PlaneHeight -> fresh
                   [] OTHER -> said[p]]
  BY <1>1 DEF SaySegment
<1> HIDE DEF line
<1>10. /\ lines \in Seq(Seq(Byte)) /\ Len(lines) = indexh + 1 /\ lines[indexh + 1] = line
       /\ \A l \in 1 .. indexh : lines[l] = SaidLines[l] /\ lines[l] \in Seq(Byte)
  <2>1. lines = [SaidLines EXCEPT ![indexh + 1] = line]
    BY <1>2
  <2>2. indexh \in Nat /\ SaidLines \in Seq(Seq(Byte)) /\ Len(SaidLines) = indexh + 1 /\ line \in Seq(Byte)
    BY <1>2, <1>3, <1>6
  <2> HIDE DEF lines
  <2> QED
    BY ONLY <2>1, <2>2, ExceptLast
<1> HIDE DEF lines, over, last, end
<1>11. /\ said'[P] = new
       /\ last /\ P + 1 <= NumPlanes => said'[P + 1] = fresh
       /\ \A p \in 1 .. NumPlanes : p # P /\ ~(last /\ p = P + 1) => said'[p] = said[p]
  <2>1. Len(line) < PlaneWidth <=> ~over
    BY <1>3, <1>4, <1>6, <1>8
  <2>2. Len(line) = PlaneWidth /\ Len(lines) = PlaneHeight <=> last
    BY <1>6, <1>8, <1>10
  <2>3. said'[P] = new
    <3>1. said'[P] = IF Len(line) < PlaneWidth \/ (Len(line) = PlaneWidth /\ Len(lines) = PlaneHeight)
                     THEN lines ELSE Append(lines, <<>>)
      BY <1>2, <1>9
    <3> QED
      BY <2>1, <2>2, <3>1
  <2>4. ASSUME NEW p \in 1 .. NumPlanes, p # P PROVE said'[p] = IF last /\ p = P + 1 THEN fresh ELSE said[p]
    <3>1. said'[p] = IF p = plane + 2 /\ Len(line) = PlaneWidth /\ Len(lines) = PlaneHeight THEN fresh ELSE said[p]
      BY <1>9, <2>4
    <3>2. p = plane + 2 <=> p = P + 1
      BY <1>3
    <3> QED
      BY <2>2, <3>1, <3>2
  <2>5. P + 1 <= NumPlanes => P + 1 \in 1 .. NumPlanes /\ P + 1 # P
    BY <1>2
  <2> HIDE DEF P, new, fresh
  <2> QED
    BY <2>3, <2>4, <2>5
<1>12. /\ fresh \in Seq(Seq(Byte)) /\ Len(fresh) = 1 /\ fresh[1] = <<>>
       /\ <<>> \in Seq(Byte) /\ Len(<<>>) = 0
  OBVIOUS
<1>13. /\ new \in Seq(Seq(Byte)) /\ Len(new) = (IF over /\ ~last THEN indexh + 2 ELSE indexh + 1)
       /\ \A l \in 1 .. indexh + 1 : new[l] = lines[l]
       /\ over /\ ~last => new[indexh + 2] = <<>>
  <2>1. CASE over /\ ~last
    <3>1. new = Append(lines, <<>>)
      BY <2>1
    <3> HIDE DEF new
    <3> QED
      BY <1>3, <1>10, <1>12, <2>1, <3>1
  <2>2. CASE ~(over /\ ~last)
    BY <1>10, <2>2
  <2> QED
    BY <2>1, <2>2
<1> HIDE DEF P, new, fresh
<1>14. \A l \in 1 .. indexh : Len(lines[l]) = PlaneWidth
  <2>1. ASSUME NEW l \in 1 .. indexh PROVE Len(lines[l]) = PlaneWidth
    <3>1. l \in 1 .. Len(said[P]) /\ l <= indexh /\ lines[l] = said[P][l]
      BY <1>2, <1>3, <1>10
    <3> QED
      BY <1>2, <3>1 DEF PlanesInv, Positions
  <2> QED
    BY <2>1
<1>15. said' \in [1 .. NumPlanes -> Seq(Seq(Byte))]
  <2>1. \A p \in 1 .. NumPlanes : said'[p] \in Seq(Seq(Byte))
    <3>1. \A p \in 1 .. NumPlanes : said[p] \in Seq(Seq(Byte))
      BY DEF PlanesInv, PlanesTypes
    <3> QED
      BY <1>11, <1>12, <1>13, <3>1
  <2>2. said' = [p \in 1 .. NumPlanes |-> said'[p]]
    BY <1>9
  <2> QED
    BY <2>1, <2>2
<1>16. PlanesTypes'
  <2>1. Run(values) \in Colors \/ over
    <3>1. ASSUME ~over PROVE Run(values) \in Colors
      <4> DEFINE column == indexw + c + r - 1
      <4>1. CASE c = 0
        BY <1>1, <4>1 DEF Run, PlanesInv, PlanesTypes
      <4>2. CASE c # 0
        <5>1. Run(values) = Coloured(values[c], c) /\ c \in 1 .. c /\ values[c] \in Byte
          BY <1>1, <4>2 DEF Run
        <5>2. CASE indexh = 0
          BY <5>1, <5>2, Numbers DEF Coloured
        <5>3. CASE indexh # 0
          <6>1. indexh > 0 /\ indexw + c \in 1 .. PlaneWidth
            BY <1>1, <1>3, <1>4, <4>2, <5>3 DEF end
          <6>2. Below(indexw + c) \in Byte
            BY <1>2, <6>1, Here
          <6> QED
            BY <5>1, <5>3, <6>2, DifferenceEncoded DEF Coloured
        <5> QED
          BY <5>2, <5>3
      <4> QED
        BY <4>1, <4>2
    <3> QED
      BY <3>1
  <2>2. color' \in Colors
    BY <1>8, <2>1, Numbers
  <2>3. plane' \in 0 .. NumPlanes
    BY <1>2, <1>3, <1>8 DEF P
  <2>4. indexh' \in 0 .. PlaneHeight - 1 /\ indexw' \in 0 .. PlaneWidth - 1
    BY <1>3, <1>4, <1>8
  <2>5. pro' \in Nat /\ size' \in Nat
    BY <1>1, <1>3, <1>4, <1>8
  <2> QED
    BY <1>7, <1>15, <2>2, <2>3, <2>4, <2>5 DEF PlanesTypes
<1>17. Positions'
  <2> SUFFICES ASSUME NEW p \in 1 .. NumPlanes
               PROVE  /\ p <= plane' => Len(said'[p]) = PlaneHeight
                      /\ p = plane' + 1 => Len(said'[p]) = indexh' + 1 /\ Len(said'[p][indexh' + 1]) = indexw'
                      /\ p > plane' + 1 => said'[p] = <<>>
                      /\ \A l \in 1 .. Len(said'[p]) :
                           p <= plane' \/ l <= indexh' => Len(said'[p][l]) = PlaneWidth
    BY DEF Positions
  <2>1. /\ p <= plane => Len(said[p]) = PlaneHeight
        /\ p > P => said[p] = <<>>
        /\ \A l \in 1 .. Len(said[p]) : p <= plane => Len(said[p][l]) = PlaneWidth
    BY DEF PlanesInv, Positions, P
  <2>2. P = plane + 1 /\ p \in Nat /\ P \in Nat
    BY <1>3 DEF P
  <2>3. CASE p < P
    <3>1. p <= plane /\ p <= plane' /\ p # plane' + 1 /\ ~(p > plane' + 1) /\ said'[p] = said[p]
      BY <1>3, <1>8, <1>11, <2>2, <2>3
    <3> QED
      BY <2>1, <3>1
  <2>4. CASE p = P /\ ~over
    <3>1. plane' = plane /\ indexh' = indexh /\ indexw' = end /\ ~last
      BY <1>8, <2>4
    <3>2. said'[p] = new /\ Len(new) = indexh + 1 /\ Len(new[indexh + 1]) = end
      <4>1. indexh + 1 \in 1 .. indexh + 1
        BY <1>3
      <4> QED
        BY <1>6, <1>10, <1>11, <1>13, <2>4, <4>1
    <3>3. \A l \in 1 .. Len(new) : l <= indexh => Len(new[l]) = PlaneWidth
      <4>1. \A l \in 1 .. indexh + 1 : l <= indexh => l \in 1 .. indexh
        BY <1>3
      <4> QED
        BY <1>13, <1>14, <3>2, <4>1
    <3>4. ~(p <= plane) /\ ~(p > plane + 1) /\ p = plane + 1
      BY <1>3, <2>2, <2>4
    <3> QED
      BY <3>1, <3>2, <3>3, <3>4
  <2>5. CASE p = P /\ over
    <3>1. \A l \in 1 .. indexh + 1 : Len(new[l]) = PlaneWidth
      <4>1. ASSUME NEW l \in 1 .. indexh + 1 PROVE Len(lines[l]) = PlaneWidth
        <5>1. l = indexh + 1 \/ l \in 1 .. indexh
          BY <1>3
        <5> QED
          BY <1>6, <1>8, <1>10, <1>14, <2>5, <5>1
      <4> QED
        BY <1>13, <4>1
    <3>2. said'[p] = new
      BY <1>11, <2>5
    <3>3. CASE last
      <4>1. plane' = P /\ p <= plane' /\ p # plane' + 1 /\ ~(p > plane' + 1) /\ Len(new) = PlaneHeight
            /\ Len(new) = indexh + 1
        BY <1>3, <1>8, <1>13, <2>2, <2>5, <3>3
      <4> QED
        BY <3>1, <3>2, <4>1
    <3>4. CASE ~last
      <4>1. plane' = plane /\ indexh' = indexh + 1 /\ indexw' = 0 /\ p = plane' + 1 /\ ~(p <= plane')
            /\ ~(p > plane' + 1)
        BY <1>3, <1>8, <2>2, <2>5, <3>4
      <4>2. Len(new) = indexh + 2 /\ Len(new[indexh + 2]) = 0 /\ indexh + 1 + 1 = indexh + 2
        BY <1>3, <1>12, <1>13, <2>5, <3>4
      <4>3. \A l \in 1 .. indexh + 2 : l <= indexh + 1 => l \in 1 .. indexh + 1
        BY <1>3
      <4> QED
        BY <3>1, <3>2, <4>1, <4>2, <4>3
    <3> QED
      BY <3>3, <3>4
  <2>6. CASE p > P /\ last /\ p = P + 1
    <3>1. plane' = P /\ indexh' = 0 /\ indexw' = 0 /\ said'[p] = fresh
      BY <1>8, <1>11, <2>6
    <3>2. ~(p <= P) /\ ~(p > P + 1) /\ 0 + 1 = 1 /\ \A l \in 1 .. 1 : ~(l <= 0)
      BY <2>2, <2>6
    <3> QED
      BY <1>12, <2>6, <3>1, <3>2
  <2>7. CASE p > P /\ ~(last /\ p = P + 1)
    <3>1. said'[p] = <<>> /\ Len(<<>>) = 0 /\ p # plane' + 1 /\ ~(p <= plane')
      <4>1. said'[p] = said[p]
        BY <1>11, <2>2, <2>7
      <4> QED
        BY <1>3, <1>8, <2>1, <2>2, <2>7, <4>1
    <3> QED
      BY <3>1
  <2>8. p < P \/ p = P \/ p > P
    BY <2>2
  <2> QED
    BY <2>3, <2>4, <2>5, <2>6, <2>7, <2>8
<1>18. RunColor'
  <2>1. CASE over
    BY <1>8, <2>1 DEF RunColor
  <2>2. CASE ~over
    <3> DEFINE column == end - 1
               v == Run(values)
    <3>1. plane' = plane /\ indexh' = indexh /\ indexw' = end /\ color' = v /\ said'[P] = lines /\ end > 0
      <4>1. said'[P] = lines
        BY <1>8, <1>11, <2>2 DEF new
      <4> QED
        BY <1>1, <1>3, <1>4, <1>8, <2>2, <4>1 DEF end
    <3>2. Continues(line, values, c, r) /\ line[end] \in Byte
      <4>1. Continues(line, values, c, r)
        BY <1>1, <1>2, <1>4, LineSaid DEF line, end
      <4>2. end \in 1 .. end
        BY <1>3, <3>1
      <4> QED
        BY <1>6, <4>1, <4>2
    <3>3. column \in indexw .. indexw + c + r - 1 /\ column + 1 = end
      BY <1>1, <1>3, <1>4 DEF end
    <3>4. Source(values, column) = v
      <4>1. CASE r = 0
        <5>1. column - indexw < c /\ column - indexw + 1 = c /\ c > 0
          BY <1>1, <1>3, <1>4, <4>1 DEF end
        <5> QED
          BY <1>1, <5>1 DEF Source, Run
      <4>2. CASE r # 0
        <5>1. ~(column - indexw < c)
          BY <1>1, <1>3, <4>2 DEF end
        <5> QED
          BY <1>1, <5>1 DEF Source
      <4> QED
        BY <4>1, <4>2
    <3>5. Shade(column, v) = line[end]
      <4>1. Shade(column, Source(values, column)) = line[column + 1]
        <5> HIDE DEF column
        <5> QED
          BY <1>1, <1>2, <1>4, <3>3, ShadeMeant DEF line, end
      <4> HIDE DEF v
      <4> QED
        BY <3>3, <3>4, <4>1
    <3> HIDE DEF v
    <3>6. CASE indexh = 0
      <4>1. v = lines[1][end]
        BY <1>10, <3>5, <3>6 DEF Shade
      <4> QED
        BY <3>1, <3>6, <4>1 DEF RunColor, P
    <3>7. CASE indexh # 0
      <4>1. indexh \in 1 .. indexh /\ indexh \in 1 .. indexh + 1 /\ end \in 1 .. PlaneWidth
        BY <1>3, <1>4, <3>1, <3>7
      <4>2. (pixels[<<plane, PlaneHeight - indexh, column>>] + v) % 256 = line[end]
        BY <3>5, <3>7 DEF Shade
      <4>3. pixels[<<plane, PlaneHeight - indexh, column>>] = lines[indexh][end]
        <5>1. /\ P \in 1 .. NumPlanes /\ indexh \in 1 .. Len(said[P]) /\ end \in 1 .. Len(said[P][indexh])
              /\ lines[indexh] = said[P][indexh]
          BY <1>2, <1>3, <1>10, <1>14, <4>1
        <5>2. pixels[<<P - 1, PlaneHeight - indexh, end - 1>>] = said[P][indexh][end]
          BY <5>1 DEF PlanesInv, PlanesAsMeant
        <5> QED
          BY <1>2, <5>1, <5>2
      <4>4. (lines[indexh][end] + v) % 256 = lines[indexh + 1][end]
        BY <1>10, <4>2, <4>3
      <4> QED
        BY <3>1, <3>7, <4>4 DEF RunColor, P
    <3> QED
      BY <3>6, <3>7
  <2> QED
    BY <2>1, <2>2
<1>19. PlanesAsMeant'
  <2>1. pro' = size'
    BY <1>3, <1>4, <1>8
  <2>2. ASSUME NEW p \in 1 .. NumPlanes, NEW l \in 1 .. Len(said'[p]), NEW i \in 1 .. Len(said'[p][l])
        PROVE  pixels'[<<p - 1, PlaneHeight - l, i - 1>>] = said'[p][l][i]
    <3>1. CASE p = P
      <4>1. l \in 1 .. indexh + 1 /\ new[l] = lines[l]
        <5>1. said'[p] = new /\ l \in 1 .. Len(new) /\ i \in 1 .. Len(new[l])
          BY <1>11, <2>2, <3>1
        <5>2. ASSUME over, ~last, l = indexh + 2 PROVE FALSE
          <6>1. Len(new[l]) = 0
            BY <1>12, <1>13, <5>2
          <6> QED
            BY <5>1, <6>1
        <5>3. l \in 1 .. indexh + 1
          BY <1>3, <1>13, <5>1, <5>2
        <5> QED
          BY <1>13, <5>3
      <4>2. said'[p][l] = lines[l]
        BY <1>11, <3>1, <4>1
      <4>3. i \in 1 .. Len(lines[l])
        BY <4>2
      <4> QED
        BY <1>2, <1>7, <3>1, <4>1, <4>2, <4>3
    <3>2. CASE p # P /\ last /\ p = P + 1
      <4>1. said'[p] = fresh
        BY <1>11, <3>2
      <4>2. l = 1 /\ Len(said'[p][l]) = 0
        <5>1. l \in 1 .. Len(fresh)
          BY <4>1
        <5>2. l = 1
          BY <1>12, <5>1
        <5> QED
          BY <1>12, <4>1, <5>2
      <4> QED
        BY <4>2
    <3>3. CASE p # P /\ ~(last /\ p = P + 1)
      <4>1. said'[p] = said[p]
        BY <1>11, <3>3
      <4>2. l \in 1 .. Len(said[p]) /\ i \in 1 .. Len(said[p][l])
        BY <4>1
      <4>3. pixels[<<p - 1, PlaneHeight - l, i - 1>>] = said[p][l][i]
        BY <4>2 DEF PlanesInv, PlanesAsMeant
      <4>4. l \in 1 .. PlaneHeight /\ i \in 1 .. PlaneWidth
        <5>1. p <= plane \/ p > plane + 1
          BY <1>3, <3>3 DEF P
        <5>2. CASE p <= plane
          BY <4>2, <5>2 DEF PlanesInv, Positions
        <5>3. CASE p > plane + 1
          <6>1. said[p] = <<>>
            BY <5>3 DEF PlanesInv, Positions
          <6> QED
            BY <4>2, <6>1
        <5> QED
          BY <5>1, <5>2, <5>3
      <4> QED
        BY <1>7, <3>3, <4>1, <4>3, <4>4
    <3> QED
      BY <3>1, <3>2, <3>3
  <2> QED
    BY <2>1, <2>2 DEF PlanesAsMeant
<1> QED
  BY <1>16, <1>17, <1>18, <1>19 DEF PlanesInv
-----------------------------------------------------------------------------
(* Runs: types and positions.                                              *)

Grid == (0 .. dims[2] - 1) \X (0 .. dims[1] - 1)

\* The position of pixel n + 1 in the bitmap's order, and the number of pixels up to p.
Line(n) == dims[2] - 1 - n \div dims[1]
Column(n) == n % dims[1]
At(p) == (dims[2] - 1 - p[1]) * dims[1] + p[2] + 1

\* The bitmap with the first n pixels of f, and what the decoder keeps then.
Drawing(f, n) == [p \in Grid |-> IF At(p) <= n THEN f[At(p)] ELSE Black]
Keeps(f, n) == [out |-> Drawing(f, n), x |-> Column(n - 1) + 1, height |-> Line(n - 1), ok |-> TRUE]

\* The pixel above pixel n + 1 of f.
AboveIn(f, n) == IF n < dims[1] THEN Black ELSE f[n + 1 - dims[1]]

RleTypes ==
  /\ dims \in Dims /\ lastopcode \in Opcodes \cup {None} /\ runs \in 0 .. MaxRuns
  /\ flat \in Seq(Pixel) /\ Len(flat) <= dims[1] * dims[2]
  /\ fgpixel \in Pixel /\ filled \in BOOLEAN

\* The decoder is where the server is, with the pixels said so far.
RleInv ==
  /\ RleTypes
  /\ [out |-> out, x |-> x, height |-> height, ok |-> ok] = Keeps(flat, Len(flat))
  /\ mix = fgpixel /\ unread = 0
  /\ (filled <=> lastopcode = Fill) /\ (filled => Len(flat) > 0)

\* A bitmap has a line and a column.
LEMMA Sizes ==
  ASSUME RleTypes
  PROVE  /\ dims = <<dims[1], dims[2]>> /\ dims[1] \in Nat /\ dims[1] > 0 /\ dims[2] \in Nat /\ dims[2] > 0
         /\ Len(flat) \in Nat
BY RleAssumption, LenProperties DEF RleTypes

\* A position is a number from 1.
LEMMA AtType ==
  ASSUME RleTypes, NEW p \in Grid
  PROVE  At(p) \in Nat /\ At(p) >= 1
<1> DEFINE b == dims[2] - 1 - p[1]
           w == dims[1]
<1>1. b \in Nat /\ p[2] \in Nat /\ w \in Nat
  BY Sizes DEF Grid
<1>2. At(p) = b * w + p[2] + 1
  BY DEF At
<1> HIDE DEF b, w
<1>3. b * w \in Nat
  BY <1>1
<1> QED
  BY <1>1, <1>2, <1>3

\* A line and a column are known by the number of the pixel.
LEMMA DivisionUnique ==
  ASSUME NEW w \in Nat, w > 0, NEW a \in Int, NEW b \in Int, NEW i \in 0 .. w - 1, NEW j \in 0 .. w - 1,
         a * w + i = b * w + j
  PROVE  a = b /\ i = j
<1>1. CASE a < b
  <2>1. (a + 1) * w <= b * w /\ (a + 1) * w = a * w + w
    BY <1>1
  <2> QED
    BY <2>1
<1>2. CASE b < a
  <2>1. (b + 1) * w <= a * w /\ (b + 1) * w = b * w + w
    BY <1>2
  <2> QED
    BY <2>1
<1>3. CASE a = b
  BY <1>3
<1> QED
  BY <1>1, <1>2, <1>3

LEMMA Division ==
  ASSUME NEW w \in Nat, w > 0, NEW n \in Int
  PROVE  n \div w \in Int /\ n % w \in 0 .. w - 1 /\ n = (n \div w) * w + (n % w)
OBVIOUS

\* The next pixel is in the next column, or the first of the next line.
LEMMA NextColumn ==
  ASSUME NEW w \in Nat, w > 0, NEW n \in Int
  PROVE  IF (n - 1) % w = w - 1 THEN n \div w = (n - 1) \div w + 1 /\ n % w = 0
         ELSE n \div w = (n - 1) \div w /\ n % w = ((n - 1) % w) + 1
<1> DEFINE q == (n - 1) \div w
           c == (n - 1) % w
           q1 == n \div w
           c1 == n % w
<1>1. q \in Int /\ c \in 0 .. w - 1 /\ n - 1 = q * w + c
  BY Division
<1>2. q1 \in Int /\ c1 \in 0 .. w - 1 /\ n = q1 * w + c1
  BY Division
<1> HIDE DEF q, c, q1, c1
<1>3. CASE c = w - 1
  <2> DEFINE next == q + 1
  <2>1. next * w = q * w + w /\ next \in Int
    BY <1>1
  <2> HIDE DEF next
  <2>2. q1 * w + c1 = next * w + 0
    BY <1>1, <1>2, <1>3, <2>1
  <2>3. q1 = next /\ c1 = 0
    <3>1. 0 \in 0 .. w - 1
      OBVIOUS
    <3> QED
      BY <1>2, <2>1, <2>2, <3>1, DivisionUnique
  <2> QED
    BY <1>3, <2>3 DEF next, q, c, q1, c1
<1>4. CASE c # w - 1
  <2>1. c + 1 \in 0 .. w - 1 /\ q1 * w + c1 = q * w + (c + 1)
    BY <1>1, <1>2, <1>4
  <2>2. q1 = q /\ c1 = c + 1
    BY <1>1, <1>2, <2>1, DivisionUnique
  <2> QED
    BY <1>4, <2>2 DEF q, c, q1, c1
<1> QED
  BY <1>3, <1>4

\* Where pixel n + 1 is.
LEMMA Place ==
  ASSUME RleTypes, NEW n \in Nat, n < dims[1] * dims[2]
  PROVE  LET p == <<Line(n), Column(n)>>
         IN /\ p \in Grid /\ At(p) = n + 1
            /\ \A q \in Grid : At(q) = n + 1 => q = p
            /\ Line(n) + 1 >= dims[2] <=> n < dims[1]
            /\ n >= dims[1] => /\ <<Line(n) + 1, Column(n)>> \in Grid
                              /\ At(<<Line(n) + 1, Column(n)>>) = n + 1 - dims[1]
<1> DEFINE w == dims[1]
           h == dims[2]
           a == n \div w
           c == n % w
<1>1. w \in Nat /\ w > 0 /\ h \in Nat /\ h > 0 /\ n < w * h
  BY Sizes
<1>2. a \in Int /\ c \in 0 .. w - 1 /\ n = a * w + c
  <2> HIDE DEF w
  <2> QED
    BY <1>1, Division
<1>3. Line(n) = h - 1 - a /\ Column(n) = c
  BY DEF Line, Column
<1>4. Grid = (0 .. h - 1) \X (0 .. w - 1) /\ \A p : At(p) = (h - 1 - p[1]) * w + p[2] + 1
  BY DEF Grid, At
<1> HIDE DEF w, h, a, c
<1>5. a >= 0 /\ a < h
  <2>1. CASE a < 0
    <3>1. (a + 1) * w <= 0 /\ (a + 1) * w = a * w + w
      BY <1>1, <1>2, <2>1
    <3> QED
      BY <1>1, <1>2, <3>1
  <2>2. CASE a >= h
    <3>1. a * w >= h * w /\ h * w = w * h
      BY <1>1, <1>2, <2>2
    <3> QED
      BY <1>1, <1>2, <3>1
  <2> QED
    BY <1>1, <1>2, <2>1, <2>2
<1>6. a = 0 <=> n < w
  <2>1. CASE a = 0
    BY <1>1, <1>2, <2>1
  <2>2. CASE a # 0
    <3>1. a - 1 >= 0 /\ (a - 1) * w >= 0 /\ (a - 1) * w = a * w - w
      BY <1>1, <1>2, <1>5, <2>2
    <3> QED
      BY <1>1, <1>2, <2>2, <3>1
  <2> QED
    BY <2>1, <2>2
<1>7. <<h - 1 - a, c>> \in Grid /\ At(<<h - 1 - a, c>>) = n + 1
  <2>1. h - 1 - (h - 1 - a) = a
    BY <1>1, <1>2
  <2>2. At(<<h - 1 - a, c>>) = a * w + c + 1
    BY <1>4, <2>1
  <2>3. <<h - 1 - a, c>> \in Grid
    BY <1>1, <1>2, <1>4, <1>5
  <2> QED
    BY <1>1, <1>2, <2>2, <2>3
<1>8. ASSUME NEW q \in Grid, At(q) = n + 1 PROVE q = <<h - 1 - a, c>>
  <2> DEFINE b == h - 1 - q[1]
  <2>1. q = <<q[1], q[2]>> /\ q[1] \in 0 .. h - 1 /\ q[2] \in 0 .. w - 1 /\ b \in Int
    BY <1>1, <1>4
  <2>2. At(q) = b * w + q[2] + 1
    BY <1>4
  <2> HIDE DEF b
  <2>3. b * w + q[2] = a * w + c
    <3>1. b * w \in Int /\ a * w \in Int
      BY <1>1, <1>2, <2>1
    <3> DEFINE s == b * w
               t == a * w
    <3> HIDE DEF s, t
    <3>2. s \in Int /\ t \in Int /\ s + q[2] + 1 = t + c + 1
      BY <1>2, <1>8, <2>2, <3>1 DEF s, t
    <3>3. s + q[2] = t + c
      BY <1>2, <2>1, <3>2
    <3> QED
      BY <3>3 DEF s, t
  <2>4. b = a /\ q[2] = c
    BY <1>1, <1>2, <2>1, <2>3, DivisionUnique
  <2>5. q[1] = h - 1 - a
    BY <1>1, <1>2, <2>1, <2>4 DEF b
  <2> QED
    BY <2>1, <2>4, <2>5
<1>9. ASSUME n >= w
      PROVE  <<h - 1 - a + 1, c>> \in Grid /\ At(<<h - 1 - a + 1, c>>) = n + 1 - w
  <2> DEFINE b == a - 1
  <2>1. h - 1 - (h - 1 - a + 1) = b /\ b \in Int /\ a # 0
    BY <1>1, <1>2, <1>6, <1>9
  <2>2. At(<<h - 1 - a + 1, c>>) = b * w + c + 1
    BY <1>4, <2>1
  <2>3. b * w = a * w - w
    BY <1>1, <1>2
  <2>4. <<h - 1 - a + 1, c>> \in Grid
    BY <1>1, <1>2, <1>4, <1>5, <2>1
  <2> HIDE DEF b
  <2> QED
    BY <1>1, <1>2, <2>2, <2>3, <2>4
<1>10. h - 1 - a + 1 >= h <=> n < w
  BY <1>1, <1>2, <1>5, <1>6
<1> QED
  BY <1>3, <1>7, <1>8, <1>9, <1>10 DEF w, h

\* One round of the decoder's body: if pixel n + 1 is what order o makes of the
\* one above it, the bitmap has n + 1 pixels.
LEMMA PutNext ==
  ASSUME RleTypes, NEW f \in Seq(Pixel), NEW n \in Nat, n < Len(f), Len(f) <= dims[1] * dims[2],
         NEW o, NEW k, NEW byte, Value(o, k, AboveIn(f, n), byte) = f[n + 1]
  PROVE  Put(Keeps(f, n), o, k, byte) = Keeps(f, n + 1)
<1> DEFINE w == dims[1]
           h == dims[2]
           d == Keeps(f, n)
           line == Line(n)
           column == Column(n)
           p == <<line, column>>
           above == IF line + 1 >= h THEN Black ELSE d.out[<<line + 1, column>>]
<1>1. w \in Nat /\ w > 0 /\ h \in Nat /\ h > 0 /\ n < w * h
  BY Sizes, LenProperties
<1>2. /\ p \in Grid /\ At(p) = n + 1
      /\ \A q \in Grid : At(q) = n + 1 => q = p
      /\ line + 1 >= h <=> n < w
      /\ n >= w => /\ <<line + 1, column>> \in Grid
                   /\ At(<<line + 1, column>>) = n + 1 - w
  BY <1>1, Place
<1>3. d.ok = TRUE /\ d.x = Column(n - 1) + 1 /\ d.height = Line(n - 1) /\ d.out = Drawing(f, n)
  BY DEF Keeps
<1>4. /\ line \in Int /\ column \in Int /\ d.height \in Int
      /\ (d.x >= w <=> Column(n - 1) = w - 1)
      /\ IF Column(n - 1) = w - 1 THEN line = d.height - 1 /\ column = 0 /\ d.height > 0
         ELSE line = d.height /\ column = d.x
  <2> DEFINE a == n \div w
             c == n % w
             a0 == (n - 1) \div w
             c0 == (n - 1) % w
  <2>1. /\ line = h - 1 - a /\ column = c
        /\ d.x = c0 + 1 /\ d.height = h - 1 - a0 /\ Column(n - 1) = c0
    BY <1>3 DEF Line, Column
  <2>2. a \in Int /\ c \in 0 .. w - 1 /\ a0 \in Int /\ c0 \in 0 .. w - 1
    <3> HIDE DEF w
    <3> QED
      BY <1>1, Division
  <2>3. IF c0 = w - 1 THEN a = a0 + 1 /\ c = 0 ELSE a = a0 /\ c = c0 + 1
    <3> HIDE DEF w
    <3>1. n \in Int
      OBVIOUS
    <3> QED
      BY <1>1, <3>1, NextColumn
  <2>4. line \in 0 .. h - 1
    BY <1>2 DEF Grid
  <2> HIDE DEF a, c, a0, c0, line, column, d, w, h
  <2>5. CASE c0 = w - 1
    BY <1>1, <2>1, <2>2, <2>3, <2>4, <2>5
  <2>6. CASE c0 # w - 1
    BY <1>1, <2>1, <2>2, <2>3, <2>4, <2>6
  <2> QED
    BY <2>5, <2>6
<1>5. above = AboveIn(f, n)
  <2>1. CASE n < w
    BY <1>2, <2>1 DEF AboveIn
  <2>2. CASE ~(n < w)
    <3>1. n >= w /\ n + 1 - w <= n
      BY <1>1, <2>2
    <3>2. d.out[<<line + 1, column>>] = f[n + 1 - w]
      BY <1>2, <1>3, <3>1 DEF Drawing
    <3> QED
      BY <1>2, <2>2, <3>2 DEF AboveIn
  <2> QED
    BY <2>1, <2>2
<1>6. [Drawing(f, n) EXCEPT ![p] = f[n + 1]] = Drawing(f, n + 1)
  <2>1. ASSUME NEW q \in Grid
        PROVE  (IF q = p THEN f[n + 1] ELSE Drawing(f, n)[q]) = IF At(q) <= n + 1 THEN f[At(q)] ELSE Black
    <3>1. CASE q = p
      BY <1>2, <3>1
    <3>2. CASE q # p
      <4>1. At(q) # n + 1 /\ At(q) \in Int
        <5>1. At(q) \in Int
          BY AtType
        <5> QED
          BY <1>2, <3>2, <5>1
      <4>2. Drawing(f, n)[q] = IF At(q) <= n THEN f[At(q)] ELSE Black
        BY DEF Drawing
      <4> QED
        BY <3>2, <4>1, <4>2
    <3> QED
      BY <3>1, <3>2
  <2> DEFINE New(q) == IF At(q) <= n + 1 THEN f[At(q)] ELSE Black
  <2>2. DOMAIN Drawing(f, n) = Grid /\ Drawing(f, n + 1) = [q \in Grid |-> New(q)]
    BY DEF Drawing
  <2>3. [Drawing(f, n) EXCEPT ![p] = f[n + 1]] = [q \in Grid |-> IF q = p THEN f[n + 1] ELSE Drawing(f, n)[q]]
    BY <2>2
  <2> HIDE DEF New
  <2>4. [q \in Grid |-> IF q = p THEN f[n + 1] ELSE Drawing(f, n)[q]] = [q \in Grid |-> New(q)]
    BY <2>1 DEF New
  <2> QED
    BY <2>2, <2>3, <2>4
<1>7. Put(d, o, k, byte) = [out |-> [d.out EXCEPT ![p] = Value(o, k, above, byte)],
                      x |-> column + 1, height |-> line, ok |-> TRUE]
  <2> DEFINE new == d.x >= w
             line1 == IF new THEN d.height - 1 ELSE d.height
             column1 == IF new THEN 0 ELSE d.x
             above1 == IF line1 + 1 >= h THEN Black ELSE d.out[<<line1 + 1, column1>>]
  <2>1. Put(d, o, k, byte) = IF ~d.ok \/ (new /\ d.height <= 0) THEN [d EXCEPT !.ok = FALSE]
                       ELSE [out |-> [d.out EXCEPT ![<<line1, column1>>] = Value(o, k, above1, byte)],
                             x |-> column1 + 1, height |-> line1, ok |-> TRUE]
    BY DEF Put, width
  <2>2. line1 = line /\ column1 = column /\ ~(new /\ d.height <= 0)
    <3> HIDE DEF d, line, column, w
    <3> QED
      BY <1>4
  <2> HIDE DEF d, line, column, new, line1, column1, h
  <2> QED
    BY <1>3, <2>1, <2>2
<1>8. Put(d, o, k, byte) = [out |-> Drawing(f, n + 1), x |-> column + 1, height |-> line, ok |-> TRUE]
  BY <1>3, <1>5, <1>6, <1>7
<1>9. n + 1 - 1 = n
  OBVIOUS
<1> QED
  BY <1>8, <1>9 DEF Keeps

-----------------------------------------------------------------------------
(* Runs: what the server says.                                             *)

LEMMA Bits ==
  /\ \A a, b \in Pixel : Xor(a, b) \in Pixel
  /\ Black \in Pixel /\ White \in Pixel
BY DEF Xor, Pixel, Black, White

\* What is used over and over is one of what there is.
LEMMA NthType ==
  ASSUME NEW S, NEW s \in Seq(S) \ {<<>>}, NEW k \in Nat
  PROVE  Nth(s, k) \in S /\ s[1] \in S /\ Nth(s, 0) = s[1]
<1>1. Len(s) \in Nat /\ Len(s) > 0
  BY EmptySeq, LenProperties
<1>2. (k % Len(s)) + 1 \in 1 .. Len(s) /\ 1 \in 1 .. Len(s) /\ (0 % Len(s)) + 1 = 1
  <2> DEFINE l == Len(s)
  <2> HIDE DEF l
  <2>1. l \in Nat /\ l > 0
    BY <1>1 DEF l
  <2>2. k % l \in 0 .. l - 1 /\ 0 % l = 0
    BY <2>1
  <2> QED
    BY <2>1, <2>2 DEF l
<1> QED
  BY <1>2, ElementOfSeq DEF Nth

\* A pixel of a masked order.
Masked(mask, k, above, fg) == IF (mask \div 2^(k % 8)) % 2 = 1 THEN Xor(above, fg) ELSE above

\* What it means, order by order.
LEMMA MeantBy ==
  ASSUME NEW pattern, NEW m, NEW k, NEW above
  PROVE  LET Means(opcode, v) == Meant(opcode, pattern, m, k, above) = v
         IN /\ Means(Fill, IF k = 0 /\ filled /\ Len(flat) # dims[1] THEN Xor(above, fgpixel) ELSE above)
            /\ Means(Mix, Xor(above, fgpixel))
            /\ Means(SetMix, Xor(above, pattern[1]))
            /\ Means(FillOrMix, Masked(Nth(m, k \div 8), k, above, fgpixel))
            /\ Means(SetFillOrMix, Masked(Nth(m, k \div 8), k, above, pattern[1]))
            /\ Means(FillOrMix1, Masked(3, k, above, fgpixel))
            /\ Means(FillOrMix2, Masked(5, k, above, fgpixel))
            /\ Means(Colour, pattern[1])
            /\ Means(Copy, Nth(pattern, k))
            /\ Means(Bicolour, Nth(pattern, k % 2))
            /\ Means(AllWhite, White)
            /\ Means(AllBlack, Black)
<1> USE DEF Meant, Masked, width, Fill, Mix, FillOrMix, Colour, Copy, SetMix, SetFillOrMix, Bicolour, FillOrMix1,
            FillOrMix2, AllWhite, AllBlack
<1> DEFINE V(opcode) == Meant(opcode, pattern, m, k, above)
<1>1. V(Fill) = IF k = 0 /\ filled /\ Len(flat) # dims[1] THEN Xor(above, fgpixel) ELSE above
  OBVIOUS
<1>2. V(Mix) = Xor(above, fgpixel)
  OBVIOUS
<1>3. V(SetMix) = Xor(above, pattern[1])
  OBVIOUS
<1>4. V(FillOrMix) = Masked(Nth(m, k \div 8), k, above, fgpixel)
  OBVIOUS
<1>5. V(SetFillOrMix) = Masked(Nth(m, k \div 8), k, above, pattern[1])
  OBVIOUS
<1>6. V(FillOrMix1) = Masked(3, k, above, fgpixel)
  OBVIOUS
<1>7. V(FillOrMix2) = Masked(5, k, above, fgpixel)
  OBVIOUS
<1>8. V(Colour) = pattern[1]
  OBVIOUS
<1>9. V(Copy) = Nth(pattern, k)
  OBVIOUS
<1>10. V(Bicolour) = Nth(pattern, k % 2)
  OBVIOUS
<1>11. V(AllWhite) = White
  OBVIOUS
<1>12. V(AllBlack) = Black
  OBVIOUS
<1> HIDE DEF Meant, Masked, width, Fill, Mix, FillOrMix, Colour, Copy, SetMix, SetFillOrMix, Bicolour, FillOrMix1,
             FillOrMix2, AllWhite, AllBlack
<1> QED
  BY ONLY <1>1, <1>2, <1>3, <1>4, <1>5, <1>6, <1>7, <1>8, <1>9, <1>10, <1>11, <1>12

\* The server means pixels.
LEMMA MeantType ==
  ASSUME RleTypes, NEW opcode \in Opcodes, NEW pattern \in Patterns, NEW m, NEW k \in Nat, NEW above \in Pixel
  PROVE  Meant(opcode, pattern, m, k, above) \in Pixel
<1>1. pattern[1] \in Pixel /\ Nth(pattern, k) \in Pixel /\ Nth(pattern, k % 2) \in Pixel
  <2>1. pattern \in Seq(Pixel) \ {<<>>} /\ k % 2 \in Nat
    BY RleAssumption
  <2> QED
    BY <2>1, NthType
<1>2. fgpixel \in Pixel /\ Xor(above, fgpixel) \in Pixel /\ Xor(above, pattern[1]) \in Pixel
  BY <1>1, Bits DEF RleTypes
<1>3. \A mask : /\ Masked(mask, k, above, fgpixel) \in Pixel
               /\ Masked(mask, k, above, pattern[1]) \in Pixel
  BY <1>2 DEF Masked
<1>4. CASE opcode \in {Fill, Mix, SetMix}
  BY <1>2, <1>4, MeantBy
<1>5. CASE opcode \in {FillOrMix, SetFillOrMix, FillOrMix1, FillOrMix2}
  BY <1>3, <1>5, MeantBy
<1>6. CASE opcode \in {Colour, Copy, Bicolour}
  BY <1>1, <1>6, MeantBy
<1>7. CASE opcode \in {AllWhite, AllBlack}
  BY <1>7, MeantBy, Bits
<1> QED
  BY <1>4, <1>5, <1>6, <1>7 DEF Opcodes

\* What is above a pixel is a pixel, and stays the same when more are said.
LEMMA AboveType ==
  ASSUME RleTypes, NEW f \in Seq(Pixel), NEW n \in 0 .. Len(f)
  PROVE  AboveIn(f, n) \in Pixel
<1>1. CASE n < dims[1]
  BY <1>1, Bits DEF AboveIn
<1>2. CASE ~(n < dims[1])
  <2>1. n + 1 - dims[1] \in 1 .. Len(f)
    BY <1>2, Sizes, LenProperties
  <2> QED
    BY <1>2, <2>1, ElementOfSeq DEF AboveIn
<1> QED
  BY <1>1, <1>2

\* f is what was said before, followed by the first k pixels of an order.
Says(f, k, opcode, pattern, m) ==
  /\ f \in Seq(Pixel) /\ Len(f) = Len(flat) + k
  /\ \A i \in 1 .. Len(flat) : f[i] = flat[i]
  /\ \A j \in 0 .. k - 1 :
       f[Len(flat) + j + 1] = Meant(opcode, pattern, m, j, AboveIn(f, Len(flat) + j))

LEMMA SaysNext ==
  ASSUME RleTypes, NEW opcode \in Opcodes, NEW pattern \in Patterns, NEW m, NEW k \in Nat \ {0}, NEW f,
         Says(f, k - 1, opcode, pattern, m)
  PROVE  /\ Says(Append(f, Meant(opcode, pattern, m, k - 1, AboveIn(f, Len(f)))), k, opcode, pattern, m)
         /\ Meant(opcode, pattern, m, k - 1, AboveIn(f, Len(f))) \in Pixel
<1> DEFINE v == Meant(opcode, pattern, m, k - 1, AboveIn(f, Len(f)))
           g == Append(f, v)
           n == Len(flat)
           w == dims[1]
<1>1. f \in Seq(Pixel) /\ n \in Nat /\ Len(f) = n + k - 1 /\ w \in Nat /\ w > 0
  BY Sizes DEF Says
<1>2. v \in Pixel
  <2>1. k - 1 \in Nat
    OBVIOUS
  <2> QED
    BY <1>1, <2>1, AboveType, MeantType
<1> HIDE DEF v, w
<1>3. g \in Seq(Pixel) /\ Len(g) = n + k /\ (\A i \in 1 .. n + k - 1 : g[i] = f[i]) /\ g[n + k] = v
  <2> HIDE DEF n
  <2> QED
    BY <1>1, <1>2
<1> HIDE DEF g, n
<1>4. ASSUME NEW j \in 0 .. k - 1 PROVE AboveIn(g, n + j) = AboveIn(f, n + j)
  <2>1. CASE n + j < w
    BY <2>1 DEF AboveIn, w
  <2>2. CASE ~(n + j < w)
    <3>1. n + j + 1 - w \in 1 .. n + k - 1
      BY <1>1, <2>2
    <3>2. g[n + j + 1 - w] = f[n + j + 1 - w]
      BY <1>3, <3>1
    <3> QED
      BY <2>2, <3>2 DEF AboveIn, w
  <2> QED
    BY <2>1, <2>2
<1>5. \A i \in 1 .. n : g[i] = flat[i]
  BY <1>1, <1>3 DEF Says, n
<1>6. ASSUME NEW j \in 0 .. k - 1
      PROVE  g[n + j + 1] = Meant(opcode, pattern, m, j, AboveIn(g, n + j))
  <2>1. CASE j = k - 1
    <3>1. n + j + 1 = n + k /\ n + j = Len(f)
      BY <1>1, <2>1
    <3> QED
      BY <1>3, <1>4, <2>1, <3>1 DEF v
  <2>2. CASE j # k - 1
    <3>1. n + j + 1 \in 1 .. n + k - 1 /\ j \in 0 .. k - 1 - 1
      BY <1>1, <2>2
    <3>2. f[n + j + 1] = Meant(opcode, pattern, m, j, AboveIn(f, n + j))
      BY <3>1 DEF Says, n
    <3> QED
      BY <1>3, <1>4, <3>1, <3>2
  <2> QED
    BY <2>1, <2>2
<1>7. Says(g, k, opcode, pattern, m)
  BY <1>3, <1>5, <1>6 DEF Says, n
<1> QED
  BY <1>2, <1>7 DEF g, v

\* An order says its pixels after those said before.
LEMMA MeaningSays ==
  ASSUME RleTypes, NEW opcode \in Opcodes, NEW n \in Nat, NEW pattern \in Patterns, NEW m
  PROVE  Says(Meaning(opcode, n, pattern, m), Length(opcode, n), opcode, pattern, m)
<1> DEFINE N == Length(opcode, n)
           S == Seq(Pixel)
           Next1(k, f) == Append(f, Meant(opcode, pattern, m, k - 1, AboveIn(f, Len(f))))
           Body(g) == [k \in 0 .. N |-> IF k = 0 THEN flat ELSE Next1(k, g[k - 1])]
<1>1. N \in Nat /\ flat \in S
  BY DEF Length, RleTypes
<1>2. \A k \in 1 .. N : \A f \in S : Next1(k, f) \in S
  <2>1. \A k \in 1 .. N : k - 1 \in Nat
    BY <1>1
  <2> QED
    BY <2>1, AboveType, MeantType
<1> HIDE DEF N
<1>3. \E g : g = Body(g) /\ g \in [0 .. N -> S]
  <2> DEFINE step == [q \in (1 .. N) \X S |-> Next1(q[1], q[2])]
  <2> HIDE DEF Next1, S
  <2>1. step \in Stepping(N, S)
    BY <1>2 DEF Stepping
  <2>2. PICK f \in [0 .. N -> S] :
          f[0] = flat /\ \A k \in 1 .. N : f[k] = step[<<k, f[k - 1]>>]
    <3> HIDE DEF step
    <3> QED
      BY <1>1, <2>1, Recursion
  <2>3. \A k \in 1 .. N : f[k] = Next1(k, f[k - 1])
    <3>1. \A k \in 1 .. N : k - 1 \in 0 .. N
      BY <1>1
    <3> QED
      BY <2>2, <3>1
  <2>4. f = Body(f)
    BY <1>1, <2>2, <2>3
  <2> QED
    BY <2>2, <2>4
<1>4. PICK g : g = Body(g) /\ Meaning(opcode, n, pattern, m) = g[N]
  <2> DEFINE g == CHOOSE f : f = Body(f)
  <2>1. g = Body(g)
    BY <1>3
  <2>2. Meaning(opcode, n, pattern, m) = g[N]
    BY SMTT(30) DEF Meaning, N, AboveIn, width
  <2> QED
    BY <2>1, <2>2
<1>5. g[0] = flat /\ \A k \in 1 .. N : g[k] = Next1(k, g[k - 1])
  <2> HIDE DEF Next1
  <2> QED
    BY <1>1, <1>4
<1> HIDE DEF Body
<1> DEFINE T == {k \in 0 .. N : Says(g[k], k, opcode, pattern, m)}
<1>6. 0 \in T
  BY <1>1, <1>5 DEF Says
<1>7. ASSUME NEW k \in 1 .. N, k - 1 \in T PROVE k \in T
  <2>1. Says(g[k - 1], k - 1, opcode, pattern, m)
    BY <1>7
  <2>2. k \in Nat \ {0}
    BY <1>1
  <2>3. Says(g[k], k, opcode, pattern, m)
    BY <1>5, <2>1, <2>2, SaysNext
  <2> QED
    BY <1>1, <2>3
<1>8. \A k \in 0 .. N : k \in T
  <2> HIDE DEF T
  <2> QED
    BY <1>1, <1>6, <1>7, Induction
<1>9. N \in 0 .. N
  BY <1>1
<1> QED
  BY <1>4, <1>8, <1>9 DEF N

-----------------------------------------------------------------------------
(* Runs: one order.                                                        *)

\* What is said later leaves what the decoder keeps as it is.
LEMMA KeepsPrefix ==
  ASSUME RleTypes, NEW f, \A i \in 1 .. Len(flat) : f[i] = flat[i]
  PROVE  Keeps(f, Len(flat)) = Keeps(flat, Len(flat))
<1> DEFINE n == Len(flat)
           New(p, g) == IF At(p) <= n THEN g[At(p)] ELSE Black
<1>1. dims[1] \in Nat /\ dims[1] > 0 /\ dims[2] \in Nat /\ n \in Nat
  BY Sizes
<1>2. ASSUME NEW p \in Grid PROVE New(p, f) = New(p, flat)
  BY <1>1, AtType
<1>3. [p \in Grid |-> New(p, f)] = [p \in Grid |-> New(p, flat)]
  <2> HIDE DEF New
  <2> QED
    BY <1>2
<1>4. Drawing(f, n) = Drawing(flat, n)
  BY <1>3 DEF Drawing
<1> QED
  BY <1>4 DEF Keeps

\* How many masks and pixels the first k pixels of an order read, and what the
\* decoder reads from then, with the byte read last.
ReadBy(o, k) ==
  IF o.op = Copy THEN k ELSE IF o.op = FillOrMix /\ o.mask = 0 THEN (k + 7) \div 8 ELSE 0
Cursor(o, k) ==
  [at |-> o.at + ReadBy(o, k), byte |-> IF ReadBy(o, k) = 0 THEN o.mask ELSE o.input[o.at + ReadBy(o, k) - 1]]

LEMMA FetchNext ==
  ASSUME NEW o, o.at \in Nat, NEW k \in Nat
  PROVE  ReadBy(o, k) \in Nat /\ Fetch(Cursor(o, k), o, k) = Cursor(o, k + 1)
<1> DEFINE r == ReadBy(o, k)
           q == ReadBy(o, k + 1)
<1>1. r \in Nat /\ q = IF Reads(o, k) THEN r + 1 ELSE r
  <2>1. (k + 7) \div 8 \in Nat /\ (k + 1 + 7) \div 8 = IF k % 8 = 0 THEN (k + 7) \div 8 + 1 ELSE (k + 7) \div 8
    OBVIOUS
  <2>2. CASE o.op = Copy
    BY <2>2 DEF Reads, ReadBy
  <2>3. CASE o.op # Copy /\ o.op = FillOrMix /\ o.mask = 0
    BY <2>1, <2>3 DEF Reads, ReadBy
  <2>4. CASE o.op # Copy /\ ~(o.op = FillOrMix /\ o.mask = 0)
    BY <2>4 DEF Reads, ReadBy
  <2> QED
    BY <2>2, <2>3, <2>4
<1> HIDE DEF r, q
<1>2. Cursor(o, k) = [at |-> o.at + r, byte |-> IF r = 0 THEN o.mask ELSE o.input[o.at + r - 1]]
      /\ Cursor(o, k + 1) = [at |-> o.at + q, byte |-> IF q = 0 THEN o.mask ELSE o.input[o.at + q - 1]]
  BY DEF Cursor, r, q
<1>3. CASE Reads(o, k)
  <2>1. q = r + 1 /\ q # 0 /\ o.at + q = o.at + r + 1 /\ o.at + q - 1 = o.at + r
    BY <1>1, <1>3
  <2>2. Fetch(Cursor(o, k), o, k) = [at |-> o.at + r + 1, byte |-> o.input[o.at + r]]
    BY <1>2, <1>3 DEF Fetch
  <2>3. Cursor(o, k + 1) = [at |-> o.at + r + 1, byte |-> o.input[o.at + r]]
    BY ONLY <1>2, <2>1
  <2> QED
    BY <1>1, <2>2, <2>3 DEF r
<1>4. CASE ~Reads(o, k)
  BY <1>1, <1>2, <1>4 DEF Fetch, r
<1> QED
  BY <1>3, <1>4

\* The decoder puts the pixels of an order after those before, when it makes of
\* each what the server means.
LEMMA DecodePuts ==
  ASSUME RleInv, NEW input, Decode(input), Read(input).op \in Opcodes, Read(input).pixels \in Nat,
         Read(input).at \in Nat,
         NEW f \in Seq(Pixel), Len(f) = Len(flat) + Read(input).pixels, Len(f) <= dims[1] * dims[2],
         \A i \in 1 .. Len(flat) : f[i] = flat[i],
         \A k \in 0 .. Read(input).pixels - 1 :
           Value(Read(input), k, AboveIn(f, Len(flat) + k), Cursor(Read(input), k + 1).byte) = f[Len(flat) + k + 1]
  PROVE  /\ [out |-> out', x |-> x', height |-> height', ok |-> ok'] = Keeps(f, Len(f))
         /\ lastopcode' = Read(input).op /\ mix' = Read(input).fg
         /\ unread' = unread + Len(input) - ((Read(input).at + ReadBy(Read(input), Read(input).pixels)) - 1)
<1> DEFINE o == Read(input)
           N == o.pixels
           n == Len(flat)
           start == Start(o)
           Body(g) == [k \in 0 .. N |-> IF k = 0 THEN start ELSE Round(g[k - 1], o, k - 1)]
           There(k) == [read |-> Cursor(o, k), put |-> Keeps(f, n + k)]
           kept == [k \in 0 .. N |-> There(k)]
<1>1. N \in Nat /\ n \in Nat /\ RleTypes /\ o.at \in Nat
  BY DEF RleInv, RleTypes
<1>2. start = There(0)
  <2>1. [out |-> out, x |-> x, height |-> height, ok |-> ok] = Keeps(flat, n)
    BY DEF RleInv
  <2>2. ok = TRUE
    BY <2>1 DEF Keeps
  <2>3. Keeps(f, n) = Keeps(flat, n) /\ n + 0 = n
    BY <1>1, KeepsPrefix
  <2>4. ReadBy(o, 0) = 0 /\ o.at + 0 = o.at
    <3>1. (0 + 7) \div 8 = 0
      OBVIOUS
    <3> QED
      BY <1>1, <3>1 DEF ReadBy
  <2>5. Cursor(o, 0) = [at |-> o.at, byte |-> o.mask]
    BY <2>4 DEF Cursor
  <2>6. (o.op \in Opcodes) = TRUE
    OBVIOUS
  <2> HIDE DEF o, n
  <2>7. Start(o) = [read |-> [at |-> o.at, byte |-> o.mask],
                    put |-> [out |-> out, x |-> x, height |-> height, ok |-> ok]]
    BY <2>2, <2>6 DEF Start
  <2> QED
    BY <2>1, <2>3, <2>5, <2>7
<1>3. \A k \in 1 .. N : Round(There(k - 1), o, k - 1) = There(k)
  <2>1. ASSUME NEW k \in 1 .. N PROVE Round(There(k - 1), o, k - 1) = There(k)
    <3> DEFINE i == n + (k - 1)
               byte == Cursor(o, k).byte
    <3>1. i \in Nat /\ i < Len(f) /\ i + 1 = n + k /\ k - 1 \in 0 .. N - 1 /\ k - 1 + 1 = k /\ k - 1 \in Nat
      BY <1>1
    <3>2. Value(o, k - 1, AboveIn(f, i), byte) = f[i + 1]
      BY <3>1
    <3>3. Fetch(Cursor(o, k - 1), o, k - 1) = Cursor(o, k)
      BY <1>1, <3>1, FetchNext
    <3> HIDE DEF i, o, n, byte
    <3>4. Put(Keeps(f, i), o, k - 1, byte) = Keeps(f, i + 1)
      <4>1. RleTypes /\ i \in Nat /\ i < Len(f)
        BY <1>1, <3>1
      <4> QED
        BY ONLY f \in Seq(Pixel), Len(f) <= dims[1] * dims[2], <3>2, <4>1, PutNext, Zenon
    <3>5. Round([read |-> Cursor(o, k - 1), put |-> Keeps(f, i)], o, k - 1)
            = [read |-> Cursor(o, k), put |-> Put(Keeps(f, i), o, k - 1, byte)]
      BY <3>3 DEF Round, byte
    <3> QED
      BY <3>1, <3>4, <3>5 DEF i
  <2> QED
    BY <2>1
<1>4. \A k \in 0 .. N : kept[k] = IF k = 0 THEN start ELSE Round(kept[k - 1], o, k - 1)
  <2>1. ASSUME NEW k \in 0 .. N PROVE kept[k] = IF k = 0 THEN start ELSE Round(kept[k - 1], o, k - 1)
    <3>1. CASE k = 0
      <4>1. kept[k] = There(k)
        OBVIOUS
      <4> HIDE DEF start, There
      <4> QED
        BY <1>2, <3>1, <4>1
    <3>2. CASE k # 0
      <4>1. k \in 1 .. N /\ k - 1 \in 0 .. N
        BY <1>1, <3>2
      <4>2. kept[k - 1] = There(k - 1) /\ kept[k] = There(k)
        BY <4>1
      <4> HIDE DEF start, There, kept
      <4> QED
        BY <1>3, <3>2, <4>1, <4>2
    <3> QED
      BY <3>1, <3>2
  <2> QED
    BY <2>1
<1> HIDE DEF start
<1>5. kept = Body(kept)
  <2> DEFINE Here1(k) == IF k = 0 THEN start ELSE Round(kept[k - 1], o, k - 1)
  <2>1. \A k \in 0 .. N : There(k) = Here1(k)
    BY <1>4
  <2>2. kept = [k \in 0 .. N |-> There(k)] /\ Body(kept) = [k \in 0 .. N |-> Here1(k)]
    OBVIOUS
  <2> HIDE DEF There, Here1, kept, Body
  <2> QED
    BY <2>1, <2>2
<1>6. PICK g : /\ g = Body(g)
               /\ out' = g[N].put.out /\ x' = g[N].put.x /\ height' = g[N].put.height /\ ok' = g[N].put.ok
               /\ unread' = unread + Len(input) - (g[N].read.at - 1)
               /\ lastopcode' = o.op /\ mix' = o.fg
  <2> DEFINE g == CHOOSE e : e = Body(e)
  <2>1. g = Body(g)
    BY <1>5
  <2>2. /\ out' = g[N].put.out /\ x' = g[N].put.x /\ height' = g[N].put.height /\ ok' = g[N].put.ok
        /\ unread' = unread + Len(input) - (g[N].read.at - 1)
        /\ lastopcode' = o.op /\ mix' = o.fg
    BY ONLY Decode(input), ZenonT(30) DEF Decode, start
  <2> QED
    BY <2>1, <2>2
<1>7. g[0] = start /\ \A k \in 1 .. N : g[k] = Round(g[k - 1], o, k - 1)
  <2>1. N \in Nat
    BY <1>1
  <2>2. g = Body(g)
    BY <1>6
  <2> HIDE DEF N, o
  <2> QED
    BY ONLY <2>1, <2>2
<1> HIDE DEF Body, kept
<1> DEFINE T == {k \in 0 .. N : g[k] = There(k)}
<1>8. 0 \in T
  BY <1>1, <1>2, <1>7
<1> HIDE DEF There
<1>9. ASSUME NEW k \in 1 .. N, k - 1 \in T PROVE k \in T
  <2>1. g[k - 1] = There(k - 1) /\ k \in 0 .. N
    BY <1>1, <1>9
  <2> QED
    BY <1>3, <1>7, <2>1
<1>10. \A k \in 0 .. N : k \in T
  <2> HIDE DEF T
  <2> QED
    BY <1>1, <1>8, <1>9, Induction
<1>11. g[N].put = Keeps(f, Len(f)) /\ g[N].read.at = o.at + ReadBy(o, N)
  <2>1. g[N] = There(N) /\ n + N = Len(f)
    BY <1>1, <1>10
  <2> QED
    BY <2>1 DEF There, Cursor
<1>12. [out |-> out', x |-> x', height |-> height', ok |-> ok'] = Keeps(f, Len(f))
  <2>1. Keeps(f, Len(f)) = [out |-> Keeps(f, Len(f)).out, x |-> Keeps(f, Len(f)).x,
                            height |-> Keeps(f, Len(f)).height, ok |-> Keeps(f, Len(f)).ok]
    BY DEF Keeps
  <2> HIDE DEF N
  <2> QED
    BY <1>6, <1>11, <2>1
<1>13. unread' = unread + Len(input) - ((o.at + ReadBy(o, N)) - 1)
  <2> DEFINE a == o.at + ReadBy(o, N)
             Unread(at) == unread + Len(input) - (at - 1)
  <2>1. g[N].read.at = a
    BY <1>11
  <2>2. unread' = Unread(g[N].read.at)
    BY <1>6
  <2>3. unread' = Unread(a)
    <3> HIDE DEF Unread, a, o, N
    <3> QED
      BY <2>1, <2>2
  <2> QED
    BY <2>3
<1> QED
  BY <1>6, <1>12, <1>13

\* The forms of a header: an opcode and a count, short or long, or an opcode alone.
LEMMA ShortForm ==
  ASSUME NEW opcode \in Opcodes, opcode <= Bicolour, NEW input, NEW j \in Nat,
         j < (IF opcode < 5 THEN 32 ELSE 16),
         input[1] = (IF opcode < 5 THEN 32 * opcode ELSE 16 * (opcode + 6)) + j
  PROVE  Form(input) = [opcode |-> opcode, count |-> j, offset |-> IF opcode < 5 THEN 32 ELSE 16, at |-> 2]
<1> DEFINE code == input[1]
<1>1. opcode \in 0 .. 4 \cup 6 .. 8
  BY DEF Opcodes, Fill, Mix, FillOrMix, Colour, Copy, SetMix, SetFillOrMix, Bicolour, FillOrMix1, FillOrMix2,
         AllWhite, AllBlack
<1>2. CASE opcode < 5
  <2>1. code = 32 * opcode + j /\ j \in 0 .. 31
    BY <1>2
  <2> HIDE DEF code
  <2>2. code \div 16 \in 0 .. 9 /\ (code \div 16) \div 2 = opcode /\ code % 32 = j
    BY <1>1, <1>2, <2>1
  <2>3. ~(code \div 16 \in 12 .. 14) /\ code \div 16 # 15
    BY <2>2
  <2>4. Form(input) = [opcode |-> (code \div 16) \div 2, count |-> code % 32, offset |-> 32, at |-> 2]
    BY <2>3 DEF Form, code
  <2> QED
    BY <1>2, <2>2, <2>4
<1>3. CASE opcode >= 5
  <2>1. code = 16 * (opcode + 6) + j /\ j \in 0 .. 15 /\ opcode \in 6 .. 8
    BY <1>1, <1>3
  <2> HIDE DEF code
  <2>2. code \div 16 = opcode + 6 /\ code % 16 = j
    BY <2>1
  <2>3. code \div 16 \in 12 .. 14 /\ code \div 16 - 6 = opcode
    BY <2>1, <2>2
  <2>4. Form(input) = [opcode |-> code \div 16 - 6, count |-> code % 16, offset |-> 16, at |-> 2]
    <3>1. ~(code \div 16 = 15)
      BY <2>3
    <3> QED
      BY <2>3, <3>1 DEF Form, code
  <2>5. ~(opcode < 5)
    BY <2>1
  <2> QED
    BY <2>2, <2>3, <2>4, <2>5
<1> QED
  BY <1>1, <1>2, <1>3

LEMMA LongForm ==
  ASSUME NEW opcode \in Opcodes, opcode <= Bicolour, NEW input, input[1] = 240 + opcode
  PROVE  Form(input) = [opcode |-> opcode, count |-> input[2] + 256 * input[3], offset |-> 0, at |-> 4]
<1> DEFINE code == input[1]
<1>1. opcode \in 0 .. 8
  BY DEF Opcodes, Fill, Mix, FillOrMix, Colour, Copy, SetMix, SetFillOrMix, Bicolour, FillOrMix1, FillOrMix2,
         AllWhite, AllBlack
<1>2. code \div 16 = 15 /\ code % 16 = opcode /\ opcode < 9 /\ ~(opcode >= 9) /\ ~(15 \in 12 .. 14)
  BY <1>1
<1>3. Form(input) = [opcode |-> code % 16, count |-> input[2] + 256 * input[3], offset |-> 0, at |-> 4]
  <2> HIDE DEF code
  <2> QED
    BY <1>2 DEF Form, code
<1> QED
  BY <1>2, <1>3

LEMMA ByteForm ==
  ASSUME NEW opcode \in Opcodes, ~(opcode <= Bicolour), NEW input, input[1] = 240 + opcode
  PROVE  Form(input) = [opcode |-> opcode, count |-> IF opcode < 11 THEN 8 ELSE 1, offset |-> 0, at |-> 2]
<1> DEFINE code == input[1]
<1>1. opcode \in 9 .. 14
  BY DEF Opcodes, Fill, Mix, FillOrMix, Colour, Copy, SetMix, SetFillOrMix, Bicolour, FillOrMix1, FillOrMix2,
         AllWhite, AllBlack
<1>2. code \div 16 = 15 /\ code % 16 = opcode /\ ~(opcode < 9) /\ opcode >= 9 /\ ~(15 \in 12 .. 14)
  BY <1>1
<1>3. Form(input) = [opcode |-> code % 16, count |-> IF code % 16 < 11 THEN 8 ELSE 1, offset |-> 0, at |-> 2]
  <2> HIDE DEF code
  <2> QED
    BY <1>2 DEF Form, code
<1> QED
  BY <1>2, <1>3

\* The numbers of pixels, or pairs of them, an order can have.
Proper(opcode, n) ==
  /\ n \in Nat \ {0}
  /\ opcode \in {FillOrMix1, FillOrMix2} => n = 8
  /\ opcode \in {AllWhite, AllBlack} => n = 1

\* A header says the opcode and the number it was made of.
HeaderSays(h, opcode, n, at) == h.opcode = opcode /\ h.count = n /\ h.at = at

LEMMA HeaderReads ==
  ASSUME NEW opcode \in Opcodes, NEW n, Proper(opcode, n), NEW header \in Headers(opcode, n),
         NEW data \in Seq(Int)
  PROVE  header \in Seq(Int) /\ HeaderSays(Header(header \o data), opcode, n, Len(header) + 1)
<1> DEFINE input == header \o data
           long == <<240 + opcode, n % 256, n \div 256>>
           bits == IF opcode < 5 THEN 32 ELSE 16
           first == IF opcode < 5 THEN 32 * opcode ELSE 16 * (opcode + 6)
           unit == IF opcode \in {FillOrMix, SetFillOrMix} THEN 8 ELSE 1
           extra == IF unit = 8 THEN n - 1 ELSE n - bits
           masked == opcode \in {FillOrMix, SetFillOrMix}
           f == Form(input)
<1> USE DEF FillOrMix, SetFillOrMix
<1>1. n \in Nat /\ n > 0 /\ opcode \in Nat
  BY DEF Proper, Opcodes, Fill, Mix, FillOrMix, Colour, Copy, SetMix, SetFillOrMix, Bicolour, FillOrMix1, FillOrMix2,
         AllWhite, AllBlack
<1>2. CASE ~(opcode <= Bicolour)
  <2>1. header = <<240 + opcode>>
    BY <1>1, <1>2 DEF Headers, Bicolour
  <2>2. header \in Seq(Int) /\ Len(header) = 1 /\ input[1] = 240 + opcode
    BY <1>1, <2>1
  <2> HIDE DEF input
  <2>3. f = [opcode |-> opcode, count |-> IF opcode < 11 THEN 8 ELSE 1, offset |-> 0, at |-> 2]
    BY <1>2, <2>2, ByteForm
  <2>4. Header(input) = f
    BY <2>3 DEF Header
  <2>5. n = IF opcode < 11 THEN 8 ELSE 1
    BY <1>2 DEF Proper, Opcodes, Fill, Mix, FillOrMix, Colour, Copy, SetMix, SetFillOrMix,
         Bicolour, FillOrMix1, FillOrMix2, AllWhite, AllBlack
  <2> HIDE DEF f
  <2> QED
    BY <2>2, <2>3, <2>4, <2>5 DEF HeaderSays, input
<1>3. ASSUME opcode <= Bicolour, header = long
      PROVE  header \in Seq(Int) /\ HeaderSays(Header(input), opcode, n, Len(header) + 1)
  <2>1. header \in Seq(Int) /\ Len(header) = 3
    BY <1>1, <1>3
  <2>2. input[1] = 240 + opcode /\ input[2] = n % 256 /\ input[3] = n \div 256
    BY <1>1, <1>3
  <2>3. input[2] + 256 * input[3] = n
    BY <1>1, <2>2
  <2> HIDE DEF input
  <2>4. f = [opcode |-> opcode, count |-> n, offset |-> 0, at |-> 4]
    BY <1>3, <2>2, <2>3, LongForm
  <2>5. Header(input) = f
    BY <2>4 DEF Header
  <2> HIDE DEF f
  <2> QED
    BY <2>1, <2>4, <2>5 DEF HeaderSays
<1>4. ASSUME opcode <= Bicolour, n % unit = 0, n \div unit < bits, header = <<first + (n \div unit)>>
      PROVE  header \in Seq(Int) /\ HeaderSays(Header(input), opcode, n, Len(header) + 1)
  <2> DEFINE j == n \div unit
  <2>1. j \in Nat /\ j # 0 /\ j < bits /\ n = j * unit
    BY <1>1, <1>4
  <2> HIDE DEF j
  <2>2. header \in Seq(Int) /\ Len(header) = 1 /\ input[1] = first + j
    BY <1>1, <1>4, <2>1 DEF j
  <2> HIDE DEF input
  <2>3. f = [opcode |-> opcode, count |-> j, offset |-> bits, at |-> 2]
    BY <1>4, <2>1, <2>2, ShortForm
  <2>4. Header(input) = IF masked THEN [f EXCEPT !.count = 8 * @] ELSE f
    BY <2>1, <2>3 DEF Header
  <2> HIDE DEF f
  <2>5. CASE masked
    BY <2>1, <2>2, <2>3, <2>4, <2>5 DEF HeaderSays
  <2>6. CASE ~masked
    BY <2>1, <2>2, <2>3, <2>4, <2>6 DEF HeaderSays
  <2> QED
    BY <2>5, <2>6
<1>5. ASSUME opcode <= Bicolour, extra \in 0 .. 255, header = <<first, extra>>
      PROVE  header \in Seq(Int) /\ HeaderSays(Header(input), opcode, n, Len(header) + 1)
  <2>1. extra + (IF masked THEN 1 ELSE bits) = n
    BY <1>1
  <2>2. header \in Seq(Int) /\ Len(header) = 2 /\ input[1] = first + 0 /\ input[2] = extra
    BY <1>1, <1>5
  <2> HIDE DEF input, extra
  <2>3. f = [opcode |-> opcode, count |-> 0, offset |-> bits, at |-> 2]
    <3>1. 0 \in Nat /\ 0 < bits
      OBVIOUS
    <3> QED
      BY <1>5, <2>2, <3>1, ShortForm
  <2>4. Header(input) = [f EXCEPT !.count = input[2] + (IF masked THEN 1 ELSE f.offset), !.at = 3]
    BY <2>3 DEF Header
  <2> HIDE DEF f, bits
  <2> QED
    BY <2>1, <2>2, <2>3, <2>4 DEF HeaderSays
<1>6. ASSUME opcode <= Bicolour
      PROVE  \/ header = long
             \/ n % unit = 0 /\ n \div unit < bits /\ header = <<first + (n \div unit)>>
             \/ extra \in 0 .. 255 /\ header = <<first, extra>>
  <2>1. ~(opcode > Bicolour)
    BY <1>1, <1>6 DEF Bicolour
  <2>2. Headers(opcode, n) =
          (IF n < 65536 THEN {long} ELSE {})
            \cup (IF n % unit = 0 /\ n \div unit < bits THEN {<<first + (n \div unit)>>} ELSE {})
            \cup (IF extra \in 0 .. 255 THEN {<<first, extra>>} ELSE {})
    BY <2>1 DEF Headers
  <2> HIDE DEF long, unit, bits, first, extra
  <2> QED
    BY <2>2
<1> QED
  BY <1>2, <1>3, <1>4, <1>5, <1>6

\* The data that follow a header.
LEMMA DataReads ==
  ASSUME NEW header \in Seq(Int), NEW data \in Seq(Int)
  PROVE  /\ Len(header \o data) = Len(header) + Len(data)
         /\ \A i \in 1 .. Len(data) : (header \o data)[Len(header) + i] = data[i]
<1> DEFINE input == header \o data
           a == Len(header)
<1>1. a \in Nat /\ Len(data) \in Nat
  OBVIOUS
<1>2. /\ Len(input) = a + Len(data)
      /\ \A i \in 1 .. a + Len(data) : input[i] = IF i <= a THEN header[i] ELSE data[i - a]
  BY ConcatProperties
<1> HIDE DEF input, a
<1>3. ASSUME NEW i \in 1 .. Len(data) PROVE input[a + i] = data[i]
  <2> DEFINE j == a + i
  <2>1. j \in 1 .. a + Len(data) /\ ~(j <= a) /\ j - a = i
    BY <1>1
  <2> HIDE DEF j
  <2>2. input[j] = data[i]
    BY <1>2, <2>1
  <2> QED
    BY <2>2 DEF j
<1> QED
  BY <1>2, <1>3 DEF input, a

\* The decoder knows where a second background run starts with a foreground pixel.
LEMMA Restarted ==
  ASSUME RleInv
  PROVE  InsertMix(Fill) <=> filled /\ Len(flat) # dims[1]
<1> DEFINE w == dims[1]
           n == Len(flat)
           a == (n - 1) \div w
           c == (n - 1) % w
<1>1. RleTypes /\ w \in Nat /\ w > 0 /\ dims[2] \in Nat /\ n \in Nat
  BY Sizes DEF RleInv
<1>2. a \in Int /\ c \in 0 .. w - 1 /\ n - 1 = a * w + c
  <2> HIDE DEF w, n
  <2> QED
    BY <1>1, Division
<1>3. x = c + 1 /\ height = dims[2] - 1 - a
  <2> DEFINE r == [out |-> out, x |-> x, height |-> height, ok |-> ok]
  <2>1. r = Keeps(flat, n)
    BY DEF RleInv
  <2>2. r.x = c + 1 /\ r.height = dims[2] - 1 - a
    BY <2>1 DEF Keeps, Line, Column
  <2> QED
    BY <2>2
<1> HIDE DEF a, c, w
<1>4. ASSUME filled PROVE x = w /\ height >= dims[2] - 1 <=> n = w
  <2>1. n >= 1
    BY <1>1, <1>4 DEF RleInv
  <2>2. ASSUME n = w PROVE a = 0 /\ c = w - 1
    <3>1. a * w + c = 0 * w + (w - 1) /\ w - 1 \in 0 .. w - 1 /\ 0 \in Int
      BY <1>1, <1>2, <2>2
    <3> QED
      BY <1>1, <1>2, <3>1, DivisionUnique
  <2>3. ASSUME a <= 0, c = w - 1 PROVE n = w
    <3>1. CASE a < 0
      <4>1. (a + 1) * w <= 0 /\ (a + 1) * w = a * w + w
        BY <1>1, <1>2, <3>1
      <4> QED
        BY <1>1, <1>2, <2>1, <2>3, <4>1
    <3>2. CASE a = 0
      BY <1>1, <1>2, <2>3, <3>2
    <3> QED
      BY <1>2, <2>3, <3>1, <3>2
  <2> HIDE DEF n
  <2> QED
    BY <1>1, <1>2, <1>3, <2>2, <2>3
<1>5. filled <=> lastopcode = Fill
  BY DEF RleInv
<1> QED
  BY <1>4, <1>5 DEF InsertMix, width, w, n

\* What the decoder makes of a pixel, order by order.
LEMMA ValueBy ==
  ASSUME NEW o, NEW k, NEW above, NEW byte
  PROVE  LET Makes(op, v) == o.op = op => Value(o, k, above, byte) = v
         IN /\ Makes(Fill, IF o.insert /\ k = 0 THEN Xor(above, o.fg) ELSE above)
            /\ Makes(Mix, Xor(above, o.fg))
            /\ Makes(FillOrMix, Masked(byte, k, above, o.fg))
            /\ Makes(Colour, o.input[o.from])
            /\ Makes(Copy, byte)
            /\ Makes(Bicolour, o.input[o.from + (k % 2)])
            /\ Makes(AllWhite, White)
            /\ Makes(AllBlack, Black)
<1> USE DEF Value, Masked, Fill, Mix, FillOrMix, Colour, Copy, Bicolour, AllWhite, AllBlack
<1> DEFINE Makes(op, v) == o.op = op => Value(o, k, above, byte) = v
<1>1. Makes(Fill, IF o.insert /\ k = 0 THEN Xor(above, o.fg) ELSE above)
  OBVIOUS
<1>2. Makes(Mix, Xor(above, o.fg))
  OBVIOUS
<1>3. Makes(FillOrMix, Masked(byte, k, above, o.fg))
  OBVIOUS
<1>4. Makes(Colour, o.input[o.from])
  OBVIOUS
<1>5. Makes(Copy, byte)
  OBVIOUS
<1>6. Makes(Bicolour, o.input[o.from + (k % 2)])
  OBVIOUS
<1>7. Makes(AllWhite, White)
  OBVIOUS
<1>8. Makes(AllBlack, Black)
  OBVIOUS
<1> HIDE DEF Value, Masked, Fill, Mix, FillOrMix, Colour, Copy, Bicolour, AllWhite, AllBlack
<1> QED
  BY ONLY <1>1, <1>2, <1>3, <1>4, <1>5, <1>6, <1>7, <1>8

\* The order an opcode is carried out as, and the parameters before what follows.
LEMMA OrderTable ==
  /\ Order(Fill) = Fill /\ Order(Mix) = Mix /\ Order(Colour) = Colour /\ Order(Copy) = Copy
  /\ Order(Bicolour) = Bicolour /\ Order(AllWhite) = AllWhite /\ Order(AllBlack) = AllBlack
  /\ Order(SetMix) = Mix /\ \A o \in {FillOrMix, SetFillOrMix, FillOrMix1, FillOrMix2} : Order(o) = FillOrMix
  /\ \A o \in Opcodes : /\ Order(o) \in Opcodes /\ Parameters(o) \in Nat
                        /\ (Order(o) = Fill <=> o = Fill) /\ (Order(o) = Bicolour <=> o = Bicolour)
                        /\ (Order(o) = Copy <=> o = Copy)
                        /\ (Order(o) = FillOrMix <=> o \in {FillOrMix, SetFillOrMix, FillOrMix1, FillOrMix2})
BY DEF Order, Parameters, Opcodes, Fill, Mix, FillOrMix, Colour, Copy, SetMix, SetFillOrMix,
       Bicolour, FillOrMix1, FillOrMix2, AllWhite, AllBlack

\* The masks and pixels that follow the parameters of an opcode.
Following(opcode, n) ==
  IF opcode = Copy THEN n ELSE IF opcode \in {FillOrMix, SetFillOrMix} THEN (n + 7) \div 8 ELSE 0

\* What is said with a header, opcode by opcode.
LEMMA DataSaid ==
  ASSUME NEW opcode \in Opcodes, NEW n \in Nat, NEW pattern \in Patterns, NEW m \in Masks
  PROVE  LET data == Data(opcode, n, pattern, m)
         IN /\ data \in Seq(Int) /\ Len(data) = Parameters(opcode) + Following(opcode, n)
            /\ opcode \in {Colour, SetMix, SetFillOrMix, Bicolour} => data[1] = pattern[1]
            /\ opcode = Bicolour => data[2] = Nth(pattern, 1)
            /\ opcode \in {FillOrMix, SetFillOrMix} =>
                 \A i \in 1 .. (n + 7) \div 8 : data[Parameters(opcode) + i] = Nth(m, i - 1)
            /\ opcode = Copy => \A i \in 1 .. n : data[i] = Nth(pattern, i - 1)
<1> DEFINE data == Data(opcode, n, pattern, m)
           e == (n + 7) \div 8
           masks == [k \in 1 .. e |-> Nth(m, k - 1)]
           copied == [k \in 1 .. n |-> Nth(pattern, k - 1)]
           Is(p, q) == Parameters(opcode) = p /\ Following(opcode, n) = q
<1> USE DEF Fill, Mix, FillOrMix, Colour, Copy, SetMix, SetFillOrMix, Bicolour, FillOrMix1, FillOrMix2,
            AllWhite, AllBlack
<1>1. /\ pattern[1] \in Int /\ \A k \in Nat : Nth(pattern, k) \in Int
      /\ \A k \in Nat : Nth(m, k) \in Int
  <2>1. pattern \in Seq(Pixel) \ {<<>>} /\ m \in Seq(Byte) \ {<<>>} /\ 0 \in Nat
    BY RleAssumption DEF Byte
  <2>2. \A k \in Nat : Nth(pattern, k) \in Pixel /\ pattern[1] \in Pixel
    BY <2>1, NthType
  <2>3. \A k \in Nat : Nth(m, k) \in Byte
    BY <2>1, NthType
  <2>4. Pixel \subseteq Int /\ Byte \subseteq Int
    BY DEF Pixel, Black, White, Byte
  <2> QED
    BY <2>1, <2>2, <2>3, <2>4
<1>2. masks \in Seq(Int) /\ Len(masks) = e /\ e \in Nat /\ \A i \in 1 .. e : masks[i] = Nth(m, i - 1)
  <2>1. e \in Nat
    OBVIOUS
  <2> HIDE DEF e
  <2>2. masks \in [1 .. e -> Int]
    <3>1. \A k \in 1 .. e : k - 1 \in Nat
      BY <2>1
    <3> QED
      BY <1>1, <3>1
  <2> QED
    BY <2>1, <2>2, TupleIsSeq
<1>3. copied \in Seq(Int) /\ Len(copied) = n /\ \A i \in 1 .. n : copied[i] = Nth(pattern, i - 1)
  <2>1. copied \in [1 .. n -> Int]
    <3>1. \A k \in 1 .. n : k - 1 \in Nat
      OBVIOUS
    <3> QED
      BY <1>1, <3>1
  <2> QED
    BY <2>1, TupleIsSeq
<1> HIDE DEF masks, copied, e
<1>4. CASE opcode = FillOrMix
  <2>1. data = masks
    BY <1>4 DEF Data, masks, e
  <2>2. Is(0, e)
    BY <1>4 DEF Parameters, Following, e
  <2>3. \A i \in 1 .. e : 0 + i = i
    BY <1>2
  <2> HIDE DEF data
  <2> QED
    BY <1>2, <1>4, <2>1, <2>2, <2>3 DEF e, data
<1>5. CASE opcode \in {Colour, SetMix}
  <2>1. data = <<pattern[1]>>
    BY <1>5 DEF Data
  <2>2. Is(1, 0)
    BY <1>5 DEF Parameters, Following
  <2> HIDE DEF data
  <2>3. data \in Seq(Int) /\ Len(data) = 1 /\ data[1] = pattern[1]
    BY <1>1, <2>1
  <2> QED
    BY <1>5, <2>2, <2>3 DEF data
<1>6. CASE opcode = SetFillOrMix
  <2>1. data = <<pattern[1]>> \o masks
    BY <1>6 DEF Data, masks, e
  <2>2. Is(1, e)
    BY <1>6 DEF Parameters, Following, e
  <2>3. /\ data \in Seq(Int) /\ Len(data) = 1 + e
        /\ \A i \in 1 .. 1 + e : data[i] = IF i <= 1 THEN pattern[1] ELSE masks[i - 1]
    <3>1. <<pattern[1]>> \in Seq(Int) /\ Len(<<pattern[1]>>) = 1 /\ <<pattern[1]>>[1] = pattern[1]
      BY <1>1
    <3> HIDE DEF data
    <3> QED
      BY <1>2, <2>1, <3>1, ConcatProperties
  <2> HIDE DEF data
  <2>4. data[1] = pattern[1]
    BY <1>2, <2>3
  <2>5. ASSUME NEW i \in 1 .. e PROVE data[1 + i] = Nth(m, i - 1)
    <3>1. 1 + i \in 1 .. 1 + e /\ ~(1 + i <= 1) /\ 1 + i - 1 = i
      BY <1>2
    <3> QED
      BY <1>2, <2>3, <3>1
  <2>6. opcode \notin {Bicolour, Copy} /\ Len(data) = Parameters(opcode) + Following(opcode, n)
    BY <1>6, <2>2, <2>3
  <2>7. ASSUME NEW i \in 1 .. e PROVE data[Parameters(opcode) + i] = Nth(m, i - 1)
    BY ONLY <2>2, <2>5
  <2>8. data \in Seq(Int)
    BY <2>3
  <2> HIDE DEF Is
  <2> QED
    BY ONLY <2>4, <2>6, <2>7, <2>8 DEF e, data
<1>7. CASE opcode = Copy
  <2>1. data = copied
    BY <1>7 DEF Data, copied
  <2>2. Is(0, n)
    BY <1>7 DEF Parameters, Following
  <2> HIDE DEF data
  <2> QED
    BY <1>3, <1>7, <2>1, <2>2 DEF data
<1>8. CASE opcode = Bicolour
  <2>1. data = <<pattern[1], Nth(pattern, 1)>>
    BY <1>8 DEF Data
  <2>2. Is(2, 0)
    BY <1>8 DEF Parameters, Following
  <2> HIDE DEF data
  <2>3. data \in Seq(Int) /\ Len(data) = 2 /\ data[1] = pattern[1] /\ data[2] = Nth(pattern, 1)
    BY <1>1, <2>1
  <2>4. opcode \notin {FillOrMix, SetFillOrMix, Copy}
    BY <1>8
  <2>5. Len(data) = Parameters(opcode) + Following(opcode, n)
    BY <2>2, <2>3
  <2> QED
    BY ONLY <2>3, <2>4, <2>5 DEF data
<1>9. CASE opcode \in {Fill, Mix, FillOrMix1, FillOrMix2, AllWhite, AllBlack}
  <2>1. data = <<>>
    BY <1>9 DEF Data
  <2>2. Is(0, 0)
    BY <1>9 DEF Parameters, Following
  <2> HIDE DEF data
  <2>3. data \in Seq(Int) /\ Len(data) = 0
    BY <2>1
  <2> QED
    BY <1>9, <2>2, <2>3 DEF data
<1> QED
  BY <1>4, <1>5, <1>6, <1>7, <1>8, <1>9 DEF Opcodes

\* The decoder reads the order the server means, all of its bytes, and makes of
\* each pixel what the server means by it.
LEMMA OrderReads ==
  ASSUME RleInv, NEW opcode \in Opcodes, NEW n, Proper(opcode, n), NEW pattern \in Patterns, NEW m \in Masks,
         NEW header \in Headers(opcode, n)
  PROVE  LET input == header \o Data(opcode, n, pattern, m)
             o == Read(input)
         IN /\ o.op = Order(opcode) /\ o.pixels = Length(opcode, n) /\ o.at \in Nat
            /\ o.fg = (IF opcode \in {SetMix, SetFillOrMix} THEN pattern[1] ELSE fgpixel)
            /\ Len(input) = (o.at + ReadBy(o, o.pixels)) - 1
            /\ \A k \in 0 .. Length(opcode, n) - 1 : \A above \in Pixel :
                 Value(o, k, above, Cursor(o, k + 1).byte) = Meant(opcode, pattern, m, k, above)
<1> DEFINE data == Data(opcode, n, pattern, m)
           input == header \o data
           h == Header(input)
           o == Read(input)
           e == (n + 7) \div 8
           P == Parameters(opcode)
           F == Following(opcode, n)
           L == Len(header)
<1>1. n \in Nat /\ n > 0 /\ e \in Nat /\ P \in Nat /\ F \in Nat
  <2>1. n \in Nat /\ n > 0 /\ e \in Nat
    BY DEF Proper
  <2> QED
    BY <2>1, OrderTable DEF Following
<1>2. /\ data \in Seq(Int) /\ Len(data) = P + F
      /\ opcode \in {Colour, SetMix, SetFillOrMix, Bicolour} => data[1] = pattern[1]
      /\ opcode = Bicolour => data[2] = Nth(pattern, 1)
      /\ opcode \in {FillOrMix, SetFillOrMix} => \A i \in 1 .. e : data[P + i] = Nth(m, i - 1)
      /\ opcode = Copy => \A i \in 1 .. n : data[i] = Nth(pattern, i - 1)
  BY <1>1, DataSaid
<1> HIDE DEF data
<1>3. header \in Seq(Int) /\ h.opcode = opcode /\ h.count = n /\ h.at = L + 1 /\ L \in Nat
  BY <1>2, HeaderReads DEF HeaderSays
<1>4. Len(input) = L + Len(data) /\ \A i \in 1 .. Len(data) : input[L + i] = data[i]
  BY <1>2, <1>3, DataReads
<1>5. /\ o.op = Order(opcode) /\ o.insert = InsertMix(Order(opcode)) /\ o.input = input
      /\ o.pixels = (IF Order(opcode) = Bicolour THEN 2 * n ELSE n)
      /\ o.fg = (IF opcode \in {SetMix, SetFillOrMix} THEN input[h.at] ELSE mix)
      /\ o.mask = (IF opcode = FillOrMix1 THEN 3 ELSE IF opcode = FillOrMix2 THEN 5 ELSE 0)
      /\ o.from = L + 1 /\ o.at = L + 1 + P
  <2>1. FillOrMix1 # FillOrMix2
    BY DEF FillOrMix1, FillOrMix2
  <2> HIDE DEF h, input, L, P
  <2> QED
    BY <1>3, <2>1 DEF Read, h, P
<1>6. 0 \in Int /\ 3 # 0 /\ 5 # 0
  OBVIOUS
<1> HIDE DEF h, input, o, e, P, F, L
<1>7. o.pixels = Length(opcode, n) /\ Length(opcode, n) \in Nat
  BY <1>1, <1>5, OrderTable DEF Length
<1>8. opcode \in {Colour, SetMix, SetFillOrMix, Bicolour} =>
        P >= 1 /\ 1 \in 1 .. Len(data) /\ input[L + 1] = pattern[1]
  <2>1. ASSUME opcode \in {Colour, SetMix, SetFillOrMix, Bicolour} PROVE P >= 1
    BY <2>1 DEF P, Parameters, Colour, SetMix, SetFillOrMix, Bicolour
  <2> QED
    BY <1>1, <1>2, <1>4, <2>1
<1>9. o.fg = IF opcode \in {SetMix, SetFillOrMix} THEN pattern[1] ELSE fgpixel
  <2>1. mix = fgpixel
    BY DEF RleInv
  <2> QED
    BY <1>3, <1>5, <1>8, <2>1
<1>10. \A k \in Nat : ReadBy(o, k) = IF opcode = Copy THEN k
                                    ELSE IF opcode \in {FillOrMix, SetFillOrMix} THEN (k + 7) \div 8 ELSE 0
  <2>1. (o.op = Copy <=> opcode = Copy) /\ (o.op = FillOrMix <=> opcode \in {FillOrMix, SetFillOrMix, FillOrMix1, FillOrMix2})
    BY <1>5, OrderTable
  <2>2. opcode \in {FillOrMix, SetFillOrMix} => opcode \notin {FillOrMix1, FillOrMix2, Copy}
    BY DEF FillOrMix, SetFillOrMix, FillOrMix1, FillOrMix2, Copy
  <2>3. opcode \in {FillOrMix1, FillOrMix2} => opcode # Copy /\ o.mask # 0
    BY <1>5, <1>6 DEF FillOrMix1, FillOrMix2, Copy
  <2>4. opcode \notin {FillOrMix1, FillOrMix2} => o.mask = 0
    BY <1>5
  <2> QED
    BY <2>1, <2>2, <2>3, <2>4 DEF ReadBy
<1>11. Len(input) = (o.at + ReadBy(o, o.pixels)) - 1
  <2>1. ReadBy(o, o.pixels) = F
    <3>1. opcode # Bicolour => o.pixels = n
      BY <1>7 DEF Length
    <3>2. opcode \in {FillOrMix, SetFillOrMix, Copy} => opcode # Bicolour
      BY DEF FillOrMix, SetFillOrMix, Copy, Bicolour
    <3> QED
      BY <1>7, <1>10, <3>1, <3>2 DEF F, Following
  <2> QED
    BY <1>1, <1>2, <1>3, <1>4, <1>5, <2>1
<1>12. ASSUME NEW k \in 0 .. Length(opcode, n) - 1, NEW above \in Pixel
       PROVE  Value(o, k, above, Cursor(o, k + 1).byte) = Meant(opcode, pattern, m, k, above)
  <2> DEFINE byte == Cursor(o, k + 1).byte
             V == Value(o, k, above, byte)
             M == Meant(opcode, pattern, m, k, above)
             r == ReadBy(o, k + 1)
  <2>1. k \in Nat /\ (opcode # Bicolour => k \in 0 .. n - 1)
    BY <1>1, <1>7 DEF Length
  <2>2. byte = IF r = 0 THEN o.mask ELSE input[o.at + r - 1]
    BY <1>5 DEF Cursor
  <2>3. k + 1 \in Nat
    BY <2>1
  <2> HIDE DEF byte
  <2>4. CASE opcode = Fill
    <3>1. V = IF o.insert /\ k = 0 THEN Xor(above, o.fg) ELSE above
      BY <1>5, <2>4, ValueBy, OrderTable
    <3>2. M = IF k = 0 /\ filled /\ Len(flat) # dims[1] THEN Xor(above, fgpixel) ELSE above
      BY <2>4, MeantBy
    <3>3. o.insert <=> filled /\ Len(flat) # dims[1]
      BY <1>5, <2>4, OrderTable, Restarted
    <3>4. o.fg = fgpixel
      BY <1>9, <2>4 DEF Fill, SetMix, SetFillOrMix
    <3> HIDE DEF V, M
    <3> QED
      BY <3>1, <3>2, <3>3, <3>4 DEF V, M, byte
  <2>5. CASE opcode = Mix
    <3>1. o.op = Mix /\ o.fg = fgpixel
      <4>1. opcode \notin {SetMix, SetFillOrMix}
        BY <2>5 DEF Mix, SetMix, SetFillOrMix
      <4> QED
        BY <1>5, <1>9, <2>5, <4>1, OrderTable
    <3> QED
      BY <2>5, <3>1, ValueBy, MeantBy DEF byte
  <2>6. CASE opcode = SetMix
    <3>1. o.op = Mix /\ o.fg = pattern[1]
      BY <1>5, <1>9, <2>6, OrderTable
    <3> QED
      BY <2>6, <3>1, ValueBy, MeantBy DEF byte
  <2>7. CASE opcode \in {FillOrMix, SetFillOrMix, FillOrMix1, FillOrMix2}
    <3> DEFINE mask == IF opcode = FillOrMix1 THEN 3 ELSE IF opcode = FillOrMix2 THEN 5 ELSE Nth(m, k \div 8)
    <3>1. V = Masked(byte, k, above, o.fg)
      BY <1>5, <2>7, ValueBy, OrderTable
    <3>2. M = Masked(mask, k, above, IF opcode = SetFillOrMix THEN pattern[1] ELSE fgpixel)
      <4>1. FillOrMix # SetFillOrMix /\ FillOrMix1 # SetFillOrMix /\ FillOrMix2 # SetFillOrMix
            /\ FillOrMix # FillOrMix1 /\ FillOrMix # FillOrMix2 /\ FillOrMix1 # FillOrMix2
            /\ SetFillOrMix # FillOrMix1 /\ SetFillOrMix # FillOrMix2
        BY DEF FillOrMix, SetFillOrMix, FillOrMix1, FillOrMix2
      <4> HIDE DEF M
      <4>2. CASE opcode = FillOrMix
        <5>1. M = Masked(Nth(m, k \div 8), k, above, fgpixel)
          BY <4>2, MeantBy DEF M
        <5> QED
          BY <4>1, <4>2, <5>1
      <4>3. CASE opcode = SetFillOrMix
        <5>1. M = Masked(Nth(m, k \div 8), k, above, pattern[1])
          BY <4>3, MeantBy DEF M
        <5> QED
          BY <4>1, <4>3, <5>1
      <4>4. CASE opcode = FillOrMix1
        <5>1. M = Masked(3, k, above, fgpixel)
          BY ONLY <4>4, MeantBy DEF M
        <5> QED
          BY <4>1, <4>4, <5>1
      <4>5. CASE opcode = FillOrMix2
        <5>1. M = Masked(5, k, above, fgpixel)
          BY ONLY <4>5, MeantBy DEF M
        <5> QED
          BY <4>1, <4>5, <5>1
      <4> QED
        BY <2>7, <4>2, <4>3, <4>4, <4>5
    <3>3. o.fg = IF opcode = SetFillOrMix THEN pattern[1] ELSE fgpixel
      <4>1. opcode # SetMix
        BY <2>7 DEF SetMix, FillOrMix, SetFillOrMix, FillOrMix1, FillOrMix2
      <4> QED
        BY <1>9, <4>1
    <3>4. byte = mask
      <4>1. k \in 0 .. n - 1
        BY <2>1, <2>7 DEF Bicolour, FillOrMix, SetFillOrMix, FillOrMix1, FillOrMix2
      <4>2. CASE opcode \in {FillOrMix, SetFillOrMix}
        <5> DEFINE i == (k \div 8) + 1
        <5>1. mask = Nth(m, k \div 8)
          BY <4>2 DEF FillOrMix, SetFillOrMix, FillOrMix1, FillOrMix2
        <5>2. r = (k + 1 + 7) \div 8
          <6>1. opcode # Copy
            BY <4>2 DEF FillOrMix, SetFillOrMix, Copy
          <6> QED
            BY <1>10, <2>3, <4>2, <6>1
        <5>3. i \in 1 .. e /\ (k + 1 + 7) \div 8 = i /\ i - 1 = k \div 8 /\ F = e /\ i # 0
          <6>1. i \in 1 .. e /\ (k + 1 + 7) \div 8 = i /\ i - 1 = k \div 8 /\ i # 0
            BY ONLY <1>1, <4>1 DEF e
          <6>2. F = e
            BY <4>2 DEF F, Following, e, FillOrMix, SetFillOrMix, Copy
          <6> QED
            BY <6>1, <6>2
        <5> HIDE DEF i, mask, r
        <5>4. P + i \in 1 .. Len(data) /\ o.at + r - 1 = L + (P + i)
          BY <1>1, <1>2, <1>3, <1>5, <5>2, <5>3
        <5>5. input[L + (P + i)] = Nth(m, i - 1)
          BY <1>2, <1>4, <4>2, <5>3, <5>4
        <5> QED
          BY <2>2, <5>1, <5>2, <5>3, <5>4, <5>5
      <4>3. CASE opcode \in {FillOrMix1, FillOrMix2}
        <5>1. opcode \notin {FillOrMix, SetFillOrMix, Copy}
          BY <4>3 DEF FillOrMix, SetFillOrMix, FillOrMix1, FillOrMix2, Copy
        <5>2. r = 0
          BY <1>10, <2>3, <5>1
        <5> QED
          BY <1>5, <2>2, <4>3, <5>2
      <4> QED
        BY <2>7, <4>2, <4>3
    <3> HIDE DEF V, M, mask
    <3> QED
      BY <3>1, <3>2, <3>3, <3>4 DEF V, M, byte
  <2>8. CASE opcode = Colour
    <3>1. V = o.input[o.from]
      <4>1. o.op = Colour
        BY <1>5, <2>8, OrderTable
      <4> QED
        BY ONLY <4>1, ValueBy DEF V
    <3>2. M = pattern[1]
      BY <2>8, MeantBy
    <3> HIDE DEF V, M
    <3> QED
      BY <1>5, <1>8, <2>8, <3>1, <3>2 DEF V, M, byte
  <2>9. CASE opcode = Copy
    <3>1. V = byte
      <4>1. o.op = Copy
        BY <1>5, <2>9, OrderTable
      <4> QED
        BY ONLY <4>1, ValueBy DEF V
    <3>2. k + 1 \in 1 .. n /\ k + 1 - 1 = k /\ k + 1 # 0
      <4>1. k \in 0 .. n - 1
        BY <2>1, <2>9 DEF Bicolour, Copy
      <4> QED
        BY <1>1, <4>1
    <3>3. r = k + 1 /\ P = 0 /\ F = n
      <4>1. P = 0
        BY <2>9 DEF P, Parameters, Copy, Colour, SetMix, SetFillOrMix, Bicolour
      <4> QED
        BY <1>10, <2>3, <2>9, <4>1 DEF F, Following
    <3> HIDE DEF r
    <3>4. k + 1 \in 1 .. Len(data) /\ o.at + r - 1 = L + (k + 1)
      BY <1>1, <1>2, <1>3, <1>5, <3>2, <3>3
    <3>5. byte = Nth(pattern, k)
      <4>1. data[k + 1] = Nth(pattern, k)
        BY <1>2, <2>9, <3>2
      <4> QED
        BY <1>4, <2>2, <3>2, <3>3, <3>4, <4>1
    <3>6. M = Nth(pattern, k)
      BY <2>9, MeantBy
    <3> HIDE DEF V, M
    <3> QED
      BY <3>1, <3>5, <3>6 DEF V, M, byte
  <2>10. CASE opcode = Bicolour
    <3>1. V = o.input[o.from + (k % 2)]
      <4>1. o.op = Bicolour
        BY <1>5, <2>10, OrderTable
      <4> QED
        BY ONLY <4>1, ValueBy DEF V
    <3>2. input[L + 1] = Nth(pattern, 0) /\ input[L + 2] = Nth(pattern, 1)
      <4>1. P = 2
        BY <2>10 DEF P, Parameters, Bicolour, Colour, SetMix, SetFillOrMix
      <4>2. 2 \in 1 .. Len(data)
        BY <1>1, <1>2, <4>1
      <4>3. pattern[1] = Nth(pattern, 0)
        <5>1. pattern \in Seq(Pixel) \ {<<>>} /\ 0 \in Nat
          BY RleAssumption
        <5> QED
          BY <5>1, NthType
      <4> QED
        BY <1>2, <1>4, <1>8, <2>10, <4>2, <4>3
    <3>3. M = Nth(pattern, k % 2)
      BY <2>10, MeantBy
    <3>4. (k % 2 = 0 /\ o.from + (k % 2) = L + 1) \/ (k % 2 = 1 /\ o.from + (k % 2) = L + 2)
      BY <1>3, <1>5, <2>1
    <3> HIDE DEF V, M
    <3> QED
      BY <1>5, <3>1, <3>2, <3>3, <3>4 DEF V, M, byte
  <2>11. CASE opcode \in {AllWhite, AllBlack}
    <3>1. o.op = opcode
      BY <1>5, <2>11, OrderTable
    <3> QED
      BY <2>11, <3>1, ValueBy, MeantBy DEF byte
  <2> QED
    BY <2>4, <2>5, <2>6, <2>7, <2>8, <2>9, <2>10, <2>11 DEF Opcodes, byte
<1>13. o.at \in Nat
  BY <1>1, <1>3, <1>5
<1> QED
  BY <1>5, <1>7, <1>9, <1>11, <1>12, <1>13 DEF o, input, data

-----------------------------------------------------------------------------
(* Runs: the invariant.                                                    *)

\* What the decoder keeps, apart from its output, is in its variables' ranges.
LEMMA KeepsTypes ==
  ASSUME RleInv
  PROVE  /\ out = Drawing(flat, Len(flat)) /\ ok = TRUE
         /\ out \in [Grid -> Pixel] /\ x \in 0 .. dims[1] /\ height \in 0 .. dims[2]
<1> DEFINE w == dims[1]
           h == dims[2]
           n == Len(flat)
           a == (n - 1) \div w
           c == (n - 1) % w
           r == [out |-> out, x |-> x, height |-> height, ok |-> ok]
<1>1. RleTypes /\ w \in Nat /\ w > 0 /\ h \in Nat /\ h > 0 /\ n \in Nat /\ n <= w * h /\ flat \in Seq(Pixel)
  BY Sizes DEF RleInv, RleTypes
<1>2. a \in Int /\ c \in 0 .. w - 1 /\ n - 1 = a * w + c
  <2> HIDE DEF w, n
  <2> QED
    BY <1>1, Division
<1>3. out = Drawing(flat, n) /\ x = c + 1 /\ height = h - 1 - a /\ ok = TRUE
  <2>1. r = Keeps(flat, n)
    BY DEF RleInv
  <2>2. r.out = Drawing(flat, n) /\ r.x = c + 1 /\ r.height = h - 1 - a /\ r.ok = TRUE
    BY <2>1 DEF Keeps, Line, Column
  <2> QED
    BY <2>2
<1> HIDE DEF a, c, r
<1>4. Drawing(flat, n) \in [Grid -> Pixel]
  <2>1. ASSUME NEW p \in Grid, At(p) <= n PROVE flat[At(p)] \in Pixel
    <3>1. At(p) \in Nat /\ At(p) >= 1
      BY <1>1, AtType
    <3>2. At(p) \in 1 .. n
      BY <1>1, <2>1, <3>1
    <3> QED
      BY <1>1, <3>2, ElementOfSeq
  <2> QED
    BY <2>1, Bits DEF Drawing
<1> HIDE DEF w, h, n
<1>5. a >= -1 /\ a < h
  <2>1. CASE a < -1
    <3>1. (a + 2) * w <= 0 /\ (a + 2) * w = a * w + 2 * w
      BY <1>1, <1>2, <2>1
    <3> QED
      BY <1>1, <1>2, <3>1
  <2>2. CASE a >= h
    <3>1. a * w >= h * w /\ h * w = w * h
      BY <1>1, <1>2, <2>2
    <3> QED
      BY <1>1, <1>2, <3>1
  <2> QED
    BY <1>1, <1>2, <2>1, <2>2
<1>6. x \in 0 .. w /\ height \in 0 .. h
  BY <1>1, <1>2, <1>3, <1>5
<1> QED
  BY <1>3, <1>4, <1>6 DEF w, h, n

\* The invariant is about the variables of the decoder and its server alone.
LEMMA RleUnchanged == ASSUME RleInv, UNCHANGED rleVars PROVE RleInv'
BY DEF RleInv, RleTypes, rleVars, Keeps, Drawing, Grid, At, Line, Column

LEMMA RleStarts == ASSUME RleInit PROVE RleInv
<1> DEFINE w == dims[1]
           h == dims[2]
<1>1. dims \in Dims /\ w \in Nat /\ w > 0 /\ h \in Nat /\ h > 0
  BY RleAssumption DEF RleInit
<1>2. flat \in Seq(Pixel) /\ Len(flat) = 0 /\ 0 <= w * h
  BY <1>1 DEF RleInit
<1>3. RleTypes
  <2>1. lastopcode \in Opcodes \cup {None} /\ runs \in 0 .. MaxRuns
    BY RleAssumption DEF RleInit
  <2>2. fgpixel \in Pixel /\ filled \in BOOLEAN
    BY DEF RleInit, Pixel
  <2> QED
    BY <1>1, <1>2, <2>1, <2>2 DEF RleTypes
<1>4. (0 - 1) \div w = -1 /\ (0 - 1) % w = w - 1
  <2> DEFINE a == (0 - 1) \div w
             c == (0 - 1) % w
  <2>1. a \in Int /\ c \in 0 .. w - 1 /\ 0 - 1 = a * w + c
    <3> HIDE DEF w
    <3>1. 0 - 1 \in Int
      OBVIOUS
    <3> QED
      BY <1>1, <3>1, Division
  <2> HIDE DEF a, c, w
  <2>2. a * w + c = (-1) * w + (w - 1) /\ w - 1 \in 0 .. w - 1 /\ -1 \in Int
    BY <1>1, <2>1
  <2>3. a = -1 /\ c = w - 1
    BY <1>1, <2>1, <2>2, DivisionUnique
  <2> QED
    BY <2>3 DEF a, c
<1>5. Column(0 - 1) + 1 = w /\ Line(0 - 1) = h
  BY <1>1, <1>4 DEF Column, Line
<1>6. Drawing(flat, 0) = [p \in Grid |-> Black]
  <2>1. ASSUME NEW p \in Grid PROVE ~(At(p) <= 0)
    BY <1>3, AtType
  <2> QED
    BY <2>1 DEF Drawing
<1>7. [out |-> out, x |-> x, height |-> height, ok |-> ok] = Keeps(flat, Len(flat))
  <2>1. out = [p \in Grid |-> Black] /\ x = w /\ height = h /\ ok = TRUE
    BY DEF RleInit, Grid
  <2> QED
    BY <1>2, <1>5, <1>6, <2>1 DEF Keeps
<1> QED
  <2>1. mix = fgpixel /\ unread = 0 /\ filled = FALSE /\ lastopcode # Fill
    BY DEF RleInit, None, Fill
  <2> HIDE DEF w, h
  <2> QED
    BY <1>3, <1>7, <2>1 DEF RleInv

LEMMA RleStep ==
  ASSUME RleInv, NEW opcode \in Opcodes, NEW n \in (Counts \cup {Left}) \ {0}, NEW pattern \in Patterns,
         NEW m \in Masks, SendOrder(opcode, n, pattern, m)
  PROVE  RleInv'
<1> DEFINE f == Meaning(opcode, n, pattern, m)
           N == Length(opcode, n)
<1>1. RleTypes /\ Len(flat) \in Nat /\ dims[1] * dims[2] \in Nat /\ Len(flat) <= dims[1] * dims[2]
  <2>1. RleTypes
    BY DEF RleInv
  <2> QED
    BY <2>1, Sizes DEF RleTypes
<1>2. n \in Nat \ {0} /\ Proper(opcode, n)
  <2>1. Left \in Nat
    BY <1>1 DEF Left
  <2> QED
    BY <2>1, RleAssumption DEF SendOrder, Proper
<1>3. N \in Nat /\ N > 0 /\ N <= Left
  BY <1>2 DEF SendOrder, Length
<1>4. Says(f, N, opcode, pattern, m)
  BY <1>1, <1>2, MeaningSays
<1> HIDE DEF f, N
<1>5. f \in Seq(Pixel) /\ Len(f) = Len(flat) + N /\ Len(f) <= dims[1] * dims[2]
  BY <1>1, <1>3, <1>4 DEF Says, Left
<1>6. PICK header \in Headers(opcode, n) : Decode(header \o Data(opcode, n, pattern, m))
  BY DEF SendOrder
<1> DEFINE input == header \o Data(opcode, n, pattern, m)
           o == Read(input)
<1>7. /\ o.op = Order(opcode) /\ o.pixels = N /\ o.at \in Nat
      /\ Len(input) = (o.at + ReadBy(o, o.pixels)) - 1
      /\ o.fg = (IF opcode \in {SetMix, SetFillOrMix} THEN pattern[1] ELSE fgpixel)
      /\ \A k \in 0 .. N - 1 : \A above \in Pixel :
           Value(o, k, above, Cursor(o, k + 1).byte) = Meant(opcode, pattern, m, k, above)
  BY <1>2, OrderReads DEF N
<1>8. o.op \in Opcodes /\ (o.op = Fill <=> opcode = Fill)
  BY <1>7, OrderTable
<1> HIDE DEF o
<1>9. ASSUME NEW k \in 0 .. N - 1
      PROVE  Value(o, k, AboveIn(f, Len(flat) + k), Cursor(o, k + 1).byte) = f[Len(flat) + k + 1]
  <2>1. Len(flat) + k \in 0 .. Len(f)
    BY <1>1, <1>3, <1>5
  <2>2. AboveIn(f, Len(flat) + k) \in Pixel
    BY <1>1, <1>5, <2>1, AboveType
  <2> QED
    BY <1>4, <1>7, <2>2 DEF Says
<1>10. /\ [out |-> out', x |-> x', height |-> height', ok |-> ok'] = Keeps(f, Len(f))
       /\ lastopcode' = o.op /\ mix' = o.fg
       /\ unread' = unread + Len(input) - ((o.at + ReadBy(o, o.pixels)) - 1)
  <2>1. \A i \in 1 .. Len(flat) : f[i] = flat[i]
    BY <1>4 DEF Says
  <2>2. Decode(input)
    BY <1>6
  <2>3. o = Read(input)
    BY DEF o
  <2> HIDE DEF input
  <2> QED
    BY <1>3, <1>5, <1>7, <1>8, <1>9, <2>1, <2>2, <2>3, DecodePuts
<1>11. /\ dims' = dims /\ flat' = f /\ runs' = runs + 1 /\ runs < MaxRuns
       /\ fgpixel' = (IF opcode \in {SetMix, SetFillOrMix} THEN pattern[1] ELSE fgpixel)
       /\ filled' = (opcode = Fill)
  BY DEF SendOrder, f
<1>12. RleTypes'
  <2>1. runs' \in 0 .. MaxRuns
    <3>1. MaxRuns \in Nat
      BY RleAssumption
    <3> QED
      BY <1>1, <1>11, <3>1 DEF RleTypes
  <2>2. fgpixel' \in Pixel /\ filled' \in BOOLEAN
    <3>1. pattern[1] \in Pixel
      BY RleAssumption, NthType
    <3> QED
      BY <1>1, <1>11, <3>1 DEF RleTypes
  <2> QED
    BY <1>1, <1>5, <1>8, <1>10, <1>11, <2>1, <2>2 DEF RleTypes
<1>13. [out |-> out, x |-> x, height |-> height, ok |-> ok]' = Keeps(flat, Len(flat))'
  <2>1. Keeps(flat, Len(flat))' = Keeps(f, Len(f))
    BY <1>11 DEF Keeps, Drawing, Grid, At, Line, Column
  <2> QED
    BY <1>10, <2>1
<1>14. mix' = fgpixel' /\ (filled' <=> lastopcode' = Fill) /\ Len(flat') > 0
  <2>1. mix' = fgpixel'
    BY <1>7, <1>10, <1>11
  <2>2. filled' <=> lastopcode' = Fill
    BY <1>8, <1>10, <1>11
  <2>3. Len(flat') > 0
    BY <1>1, <1>3, <1>5, <1>11
  <2> QED
    BY <2>1, <2>2, <2>3
<1>15. unread' = 0
  <2>1. unread = 0
    BY DEF RleInv
  <2>2. Len(input) - ((o.at + ReadBy(o, o.pixels)) - 1) = 0 /\ Len(input) \in Int
    <3>1. ReadBy(o, o.pixels) \in Nat
      BY <1>3, <1>7, FetchNext
    <3> HIDE DEF input
    <3> QED
      BY <1>7, <3>1
  <2> HIDE DEF input
  <2> QED
    BY <1>7, <1>10, <2>1, <2>2
<1> QED
  BY <1>12, <1>13, <1>14, <1>15 DEF RleInv

\* What has been said is in the decoder's output, where it belongs.
LEMMA RleMeant == ASSUME RleInv PROVE RleAsMeant
<1> DEFINE w == dims[1]
           h == dims[2]
<1>1. RleTypes /\ w \in Nat /\ w > 0 /\ h \in Nat /\ h > 0 /\ Len(flat) \in Nat /\ Len(flat) <= w * h
  BY Sizes DEF RleInv, RleTypes
<1>2. ASSUME NEW n \in 1 .. Len(flat)
      PROVE  out[<<h - 1 - (n - 1) \div w, (n - 1) % w>>] = flat[n]
  <2> DEFINE i == n - 1
             p == <<Line(i), Column(i)>>
  <2>1. i \in Nat /\ i < w * h /\ i + 1 = n
    BY <1>1
  <2>2. p \in Grid /\ At(p) = i + 1
    <3> HIDE DEF i
    <3> QED
      BY <1>1, <2>1, Place
  <2>3. p = <<h - 1 - (n - 1) \div w, (n - 1) % w>>
    BY DEF Line, Column
  <2>4. out = Drawing(flat, Len(flat))
    BY KeepsTypes
  <2>5. out[p] = flat[n]
    <3> HIDE DEF p, i
    <3> QED
      BY <2>1, <2>2, <2>4 DEF Drawing
  <2> HIDE DEF w, h
  <2> QED
    BY <2>3, <2>5
<1>3. ok /\ unread = 0
  BY KeepsTypes DEF RleInv
<1> QED
  BY <1>2, <1>3 DEF RleAsMeant

LEMMA RleTyped == ASSUME RleInv PROVE RleTypeOK
<1>1. out \in [(0 .. dims[2] - 1) \X (0 .. dims[1] - 1) -> Pixel]
  BY KeepsTypes DEF Grid
<1>2. x \in 0 .. dims[1] /\ height \in 0 .. dims[2] /\ ok \in BOOLEAN
  BY KeepsTypes
<1>3. mix \in Pixel /\ unread \in Int
  BY DEF RleInv, RleTypes
<1> QED
  BY <1>1, <1>2, <1>3 DEF RleInv, RleTypes, RleTypeOK

-----------------------------------------------------------------------------
(* Planes: the invariant.                                                  *)

LEMMA PlanesUnchanged == ASSUME PlanesInv, UNCHANGED planesVars PROVE PlanesInv'
BY DEF PlanesInv, PlanesTypes, Positions, RunColor, PlanesAsMeant, planesVars

LEMMA PlanesStarts == ASSUME PlanesInit PROVE PlanesInv
<1>1. /\ plane = 0 /\ indexh = 0 /\ indexw = 0 /\ color = 0 /\ pro = 1 /\ size = 1
      /\ pixels = [p \in PlanesDomain |-> 0]
      /\ said = [p \in 1 .. NumPlanes |-> IF p = 1 THEN <<<<>>>> ELSE <<>>]
  BY DEF PlanesInit, PlanesDomain
<1>2. /\ NumPlanes \in Nat /\ NumPlanes > 0 /\ PlaneHeight \in Nat /\ PlaneHeight > 0
      /\ PlaneWidth \in Nat /\ PlaneWidth > 0
  BY PlanesAssumption
<1>3. /\ <<<<>>>> \in Seq(Seq(Byte)) /\ <<>> \in Seq(Seq(Byte)) /\ Len(<<<<>>>>) = 1 /\ <<<<>>>>[1] = <<>>
  OBVIOUS
<1>4. PlanesTypes
  <2>1. pixels \in [PlanesDomain -> Byte] /\ said \in [1 .. NumPlanes -> Seq(Seq(Byte))]
    <3>1. 0 \in Byte
      BY DEF Byte
    <3> QED
      BY <1>1, <1>3, <3>1
  <2> QED
    BY <1>1, <1>2, <2>1, Numbers DEF PlanesTypes
<1>5. Positions
  BY <1>1, <1>2, <1>3 DEF Positions
<1>6. RunColor
  BY <1>1 DEF RunColor
<1>7. PlanesAsMeant
  BY <1>1, <1>2, <1>3 DEF PlanesAsMeant
<1> QED
  BY <1>4, <1>5, <1>6, <1>7 DEF PlanesInv

LEMMA PlanesTyped == ASSUME PlanesInv PROVE PlanesTypeOK
<1>1. \A p \in DOMAIN pixels : pixels[p] \in 0 .. 255
  BY DEF PlanesInv, PlanesTypes, Byte
<1>2. said \in Seq(Seq(Seq(0 .. 255)))
  BY TupleIsSeq, PlanesAssumption DEF PlanesInv, PlanesTypes, Byte
<1> QED
  BY <1>1, <1>2 DEF PlanesInv, PlanesTypes, PlanesTypeOK, Colors

-----------------------------------------------------------------------------
(* The whole.                                                              *)

\* Both decoders are where their servers are, and what was delivered was whole.
IInv ==
  /\ RleInv /\ PlanesInv
  /\ coding \in {"raw", "rle", "planes"} /\ raw \in Seq(Seq(Pixel))
  /\ shown.to \in {"nowhere", "dropped", "window", "cache"}
  /\ ShownAsMeant

\* A raw bitmap is turned the right way up.
LEMMA RawTurned ==
  ASSUME RleInv, NEW lines \in RawLines
  PROVE  /\ lines \in Seq(Seq(Pixel))
         /\ \A l \in 1 .. dims[2], c \in 1 .. dims[1] : Flipped(lines)[<<dims[2] - l, c - 1>>] = lines[l][c]
<1>1. dims[1] \in Nat /\ dims[2] \in Nat /\ DOMAIN out = Grid
  BY Sizes, KeepsTypes DEF RleInv
<1>2. PICK q \in (1 .. dims[2]) \X (1 .. dims[1]) :
        lines = [l \in 1 .. dims[2] |-> [c \in 1 .. dims[1] |-> IF <<l, c>> = q THEN White ELSE Black]]
  BY DEF RawLines
<1>3. \A l \in 1 .. dims[2] : lines[l] \in Seq(Pixel)
  <2>1. ASSUME NEW l \in 1 .. dims[2] PROVE lines[l] \in Seq(Pixel)
    <3>1. lines[l] \in [1 .. dims[1] -> Pixel]
      BY <1>2, Bits
    <3> QED
      BY <1>1, <3>1, TupleIsSeq
  <2> QED
    BY <2>1
<1>4. lines \in Seq(Seq(Pixel))
  <2>1. lines \in [1 .. dims[2] -> Seq(Pixel)]
    BY <1>2, <1>3
  <2> QED
    BY <1>1, <2>1, TupleIsSeq
<1>5. ASSUME NEW l \in 1 .. dims[2], NEW c \in 1 .. dims[1]
      PROVE  Flipped(lines)[<<dims[2] - l, c - 1>>] = lines[l][c]
  <2>1. <<dims[2] - l, c - 1>> \in Grid /\ dims[2] - (dims[2] - l) = l /\ c - 1 + 1 = c
    BY <1>1 DEF Grid
  <2> QED
    BY <1>1, <2>1 DEF Flipped
<1> QED
  BY <1>4, <1>5

LEMMA DeliverStep ==
  ASSUME IInv, NEW to \in {"window", "cache"}, Deliver(to)
  PROVE  IInv'
<1>1. RleInv' /\ PlanesInv'
  BY RleUnchanged, PlanesUnchanged DEF IInv, Deliver
<1>2. /\ dims' = dims /\ flat' = flat /\ said' = said /\ coding' = coding
  BY DEF Deliver, rleVars, planesVars
<1>3. CASE coding = "raw"
  <2>1. raw' \in RawLines /\ shown' = [to |-> to, bitmap |-> Flipped(raw')]
    BY <1>3 DEF Deliver, Bmpdata
  <2>2. raw' \in Seq(Seq(Pixel))
        /\ \A l \in 1 .. dims[2], c \in 1 .. dims[1] : Flipped(raw')[<<dims[2] - l, c - 1>>] = raw'[l][c]
    BY <2>1, RawTurned DEF IInv
  <2>3. shown'.to = to /\ shown'.bitmap = Flipped(raw')
    BY <2>1
  <2> QED
    BY <1>1, <1>2, <1>3, <2>2, <2>3 DEF IInv, ShownAsMeant
<1>4. CASE coding = "rle"
  <2>1. RleAsMeant /\ Left = 0
    BY <1>4, RleMeant DEF IInv, Deliver, Sent
  <2>2. Len(flat) = dims[1] * dims[2]
    <3>1. RleTypes
      BY DEF IInv, RleInv
    <3>2. dims[1] * dims[2] \in Int /\ Len(flat) \in Int
      BY <3>1, Sizes
    <3> QED
      BY <2>1, <3>2 DEF Left
  <2>3. shown' = [to |-> to, bitmap |-> out] /\ raw' = raw
    BY <1>4, <2>1 DEF Deliver, Bmpdata, Decompressed, RleAsMeant
  <2>4. shown'.to = to /\ shown'.bitmap = out
    BY <2>3
  <2> QED
    BY <1>1, <1>2, <1>4, <2>1, <2>2, <2>3, <2>4 DEF IInv, ShownAsMeant, RleAsMeant
<1>5. CASE coding = "planes"
  <2>1. plane = NumPlanes /\ PlanesAsMeant /\ Positions
    BY <1>5 DEF IInv, PlanesInv, Deliver, Sent
  <2>2. shown' = [to |-> to, bitmap |-> pixels] /\ raw' = raw
    BY <1>5, <2>1 DEF Deliver, Bmpdata, Decompressed, Accepted, PlanesAsMeant
  <2>3. shown'.to = to /\ shown'.bitmap = pixels
    BY <2>2
  <2>4. ASSUME NEW p \in 1 .. NumPlanes, NEW l \in 1 .. PlaneHeight, NEW c \in 1 .. PlaneWidth
        PROVE  pixels[<<p - 1, PlaneHeight - l, c - 1>>] = said[p][l][c]
    <3>1. NumPlanes \in Nat /\ Len(said[p]) = PlaneHeight
      BY <2>1, PlanesAssumption DEF Positions
    <3>2. l \in 1 .. Len(said[p]) /\ Len(said[p][l]) = PlaneWidth
      BY <2>1, <3>1, PlanesAssumption DEF Positions
    <3> QED
      BY <2>1, <3>2 DEF PlanesAsMeant
  <2> QED
    BY <1>1, <1>2, <1>5, <2>2, <2>3, <2>4 DEF IInv, ShownAsMeant
<1> QED
  BY <1>3, <1>4, <1>5 DEF IInv

LEMMA InitInv == ASSUME Init PROVE IInv
<1>1. RleInv /\ PlanesInv
  BY RleStarts, PlanesStarts DEF Init
<1>2. shown.to = "nowhere" /\ raw \in Seq(Seq(Pixel)) /\ coding \in {"raw", "rle", "planes"}
  BY DEF Init
<1> QED
  BY <1>1, <1>2 DEF IInv, ShownAsMeant

LEMMA NextInv == ASSUME IInv, [Next]_vars PROVE IInv'
<1>1. ASSUME shown.to = "nowhere", RleNext, UNCHANGED <<planesVars, coding, raw, shown>> PROVE IInv'
  <2>1. RleInv'
    BY <1>1, RleStep DEF IInv, RleNext
  <2>2. PlanesInv'
    BY <1>1, PlanesUnchanged DEF IInv
  <2> QED
    BY <1>1, <2>1, <2>2 DEF IInv, ShownAsMeant
<1>2. ASSUME shown.to = "nowhere", PlanesNext, UNCHANGED <<rleVars, coding, raw, shown>> PROVE IInv'
  <2>1. PlanesInv'
    BY <1>2, PlanesStep DEF IInv, PlanesNext
  <2>2. RleInv'
    BY <1>2, RleUnchanged DEF IInv
  <2> QED
    BY <1>2, <2>1, <2>2 DEF IInv, ShownAsMeant
<1>3. CASE UNCHANGED vars
  <2>1. RleInv' /\ PlanesInv'
    BY <1>3, RleUnchanged, PlanesUnchanged DEF IInv, vars
  <2>2. ShownAsMeant'
    <3>1. /\ dims' = dims /\ flat' = flat /\ said' = said
          /\ coding' = coding /\ raw' = raw /\ shown' = shown
      BY <1>3 DEF vars, rleVars, planesVars
    <3>2. ShownAsMeant
      BY DEF IInv
    <3> QED
      BY ONLY <3>1, <3>2 DEF ShownAsMeant
  <2> QED
    BY <1>3, <2>1, <2>2 DEF IInv, vars
<1> QED
  BY <1>1, <1>2, <1>3, DeliverStep DEF Next

\* What is true in every reachable state.
THEOREM Inductive == Spec => []IInv
<1> QED BY InitInv, NextInv, PTL DEF Spec

\* Every variable keeps its type: neither decoder leaves its bitmap.
THEOREM TypeCorrect == Spec => []TypeOK
<1>1. IInv => TypeOK
  BY RleTyped, PlanesTyped DEF IInv, TypeOK
<1> QED BY <1>1, Inductive, PTL

\* The decoders of 1, 2 and 3 bytes a pixel put every pixel of every order
\* where the server means it, and give up on none (bitmap.c:67).
THEOREM RunsAsMeant == Spec => []RleAsMeant
<1>1. IInv => RleAsMeant
  BY RleMeant DEF IInv
<1> QED BY <1>1, Inductive, PTL

\* The decoder of planes does so with every value, and reads no byte more or
\* less than was sent (bitmap.c:750).
THEOREM PlanesMeant == Spec => []PlanesAsMeant
<1>1. IInv => PlanesAsMeant
  BY DEF IInv, PlanesInv
<1> QED BY <1>1, Inductive, PTL

\* No bitmap is dropped, and each is painted or cached whole and the right way
\* up, however it was sent (rdp.c:1232, orders.c:951).
THEOREM DeliveredAsMeant == Spec => []ShownAsMeant
<1>1. IInv => ShownAsMeant
  BY DEF IInv
<1> QED BY <1>1, Inductive, PTL
=============================================================================
