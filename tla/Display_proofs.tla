--------------------------- MODULE Display_proofs ----------------------------
(***************************************************************************)
(* For a desktop, windows, thumb positions, rectangles, lines and bitmaps  *)
(* of any size: the scroll position stays on the desktop, the backing      *)
(* store is what the server means, and the screen shows it wherever no     *)
(* repaint is due.                                                         *)
(*                                                                         *)
(* The range of a scroll bar is always what the window leaves of the       *)
(* desktop, so that a message that only a visible bar can send finds a     *)
(* window smaller than the desktop.  Each drawing call of bsops.c is one   *)
(* raster operation on the part of its pixels within the clip, whatever    *)
(* the order in which its loops visit them; what the server means is the   *)
(* same operation, and what is repainted covers those pixels.              *)
(***************************************************************************)
EXTENDS Display, WellFoundedInduction, TLAPS

-----------------------------------------------------------------------------
(* The scroll position *)

\* The ranges the scroll bars have, and the positions they allow.
RangeOfSize == range = <<Greater(Width - size[1], 0), Greater(Height - size[2], 0)>>
Integral == size \in Sizes /\ scroll \in Int \X Int

IInv == Integral /\ RangeOfSize /\ ScrollInRange

-----------------------------------------------------------------------------
\* The initial state satisfies the invariant.
LEMMA InitInv == Init => IInv
  BY DisplayAssumption DEF Init, IInv, Integral, RangeOfSize, ScrollInRange, Greater,
     DisplayAssumption

\* Nothing moves unless the window does.
LEMMA StillStep == IInv /\ UNCHANGED <<size, scroll, range>> => IInv'
  BY DEF IInv, Integral, RangeOfSize, ScrollInRange

\* The scroll bar messages keep within a visible bar's range.
LEMMA ScrolledInRange ==
  ASSUME NEW n \in Nat \ {0}, NEW w \in Nat \ {0}, n > w,
         NEW at \in 0 .. n - w, NEW code \in Codes, NEW thumb \in 0 .. n - w
  PROVE  Scrolled(code, at, n, w, thumb) \in 0 .. n - w
<1>1. w \div 2 \in Nat
  OBVIOUS
<1> QED
  BY <1>1 DEF Scrolled, Codes, Greater, Lesser

\* A new size clamps the position kept.
LEMMA ClampedInRange ==
  ASSUME NEW n \in Nat \ {0}, NEW w \in Nat \ {0}, NEW at \in Nat
  PROVE  Clamped(at, n, w) \in 0 .. Greater(n - w, 0)
  BY DEF Clamped, Greater, Lesser

\* The horizontal scroll bar.
LEMMA HScrollStep ==
  ASSUME IInv, NEW code \in Codes, NEW thumb \in 0 .. range[1], WmHScroll(code, thumb)
  PROVE  IInv'
<1>1. /\ range[1] > 0 /\ UNCHANGED <<size, range>>
      /\ scroll' = [scroll EXCEPT ![1] = Scrolled(code, @, Width, size[1], thumb)]
  BY DEF WmHScroll
<1>2. size[1] \in Nat \ {0} /\ size[2] \in Nat \ {0} /\ Width \in Nat \ {0} /\ scroll \in Int \X Int
  BY DisplayAssumption DEF DisplayAssumption, IInv, Integral
<1>3. Width > size[1] /\ range[1] = Width - size[1] /\ scroll[1] \in 0 .. Width - size[1]
  BY <1>1, <1>2 DEF IInv, RangeOfSize, ScrollInRange, Greater
<1>4. Scrolled(code, scroll[1], Width, size[1], thumb) \in 0 .. Width - size[1]
  BY <1>2, <1>3, ScrolledInRange
<1>5. scroll' \in Int \X Int /\ scroll'[2] = scroll[2] /\ scroll'[1] \in 0 .. Width - size[1]
  BY <1>1, <1>2, <1>4
<1> QED
  BY <1>1, <1>2, <1>3, <1>5 DEF IInv, Integral, RangeOfSize, ScrollInRange, Greater

\* The vertical scroll bar.
LEMMA VScrollStep ==
  ASSUME IInv, NEW code \in Codes, NEW thumb \in 0 .. range[2], WmVScroll(code, thumb)
  PROVE  IInv'
<1>1. /\ range[2] > 0 /\ UNCHANGED <<size, range>>
      /\ scroll' = [scroll EXCEPT ![2] = Scrolled(code, @, Height, size[2], thumb)]
  BY DEF WmVScroll
<1>2. size[1] \in Nat \ {0} /\ size[2] \in Nat \ {0} /\ Height \in Nat \ {0} /\ scroll \in Int \X Int
  BY DisplayAssumption DEF DisplayAssumption, IInv, Integral
<1>3. Height > size[2] /\ range[2] = Height - size[2] /\ scroll[2] \in 0 .. Height - size[2]
  BY <1>1, <1>2 DEF IInv, RangeOfSize, ScrollInRange, Greater
<1>4. Scrolled(code, scroll[2], Height, size[2], thumb) \in 0 .. Height - size[2]
  BY <1>2, <1>3, ScrolledInRange
<1>5. scroll' \in Int \X Int /\ scroll'[1] = scroll[1] /\ scroll'[2] \in 0 .. Height - size[2]
  BY <1>1, <1>2, <1>4
<1> QED
  BY <1>1, <1>2, <1>3, <1>5 DEF IInv, Integral, RangeOfSize, ScrollInRange, Greater

\* A window that covers the desktop had no bars, so its ranges stay zero.
LEMMA SizeStep ==
  ASSUME IInv, NEW s \in Sizes, WmSize(s)
  PROVE  IInv'
<1>1. /\ size' = s
      /\ range # <<0, 0>> => s[1] < Width \/ s[2] < Height
      /\ range' = IF s[1] < Width \/ s[2] < Height
                  THEN <<Greater(Width - s[1], 0), Greater(Height - s[2], 0)>> ELSE range
      /\ scroll' = <<Clamped(scroll[1], Width, s[1]), Clamped(scroll[2], Height, s[2])>>
  BY DEF WmSize
<1>2. /\ s[1] \in Nat \ {0} /\ s[2] \in Nat \ {0} /\ Width \in Nat \ {0} /\ Height \in Nat \ {0}
  BY DisplayAssumption DEF DisplayAssumption
<1>3. scroll[1] \in Nat /\ scroll[2] \in Nat
  BY DEF IInv, ScrollInRange
<1>4. /\ Clamped(scroll[1], Width, s[1]) \in 0 .. Greater(Width - s[1], 0)
      /\ Clamped(scroll[2], Height, s[2]) \in 0 .. Greater(Height - s[2], 0)
  BY <1>2, <1>3, ClampedInRange
<1>5. Greater(Width - s[1], 0) \in Int /\ Greater(Height - s[2], 0) \in Int
  BY <1>2 DEF Greater
<1>6. RangeOfSize'
  BY <1>1, <1>2 DEF IInv, RangeOfSize, Greater
<1>7. Integral' /\ ScrollInRange'
  BY <1>1, <1>4, <1>5 DEF Integral, ScrollInRange
<1> QED
  BY <1>6, <1>7 DEF IInv

\* Every step keeps the invariant.
LEMMA NextInv == IInv /\ [Next]_vars => IInv'
<1> SUFFICES ASSUME IInv, [Next]_vars PROVE IInv'
  OBVIOUS
<1>1. ASSUME NEW bounds, Drawing(bounds) PROVE IInv'
  BY <1>1, StillStep DEF Drawing
<1>2. CASE UNCHANGED vars
  BY <1>2, StillStep DEF vars
<1>3. CASE WmPaint
  BY <1>3, StillStep DEF WmPaint
<1>4. ASSUME NEW r \in Rects, Uncovered(r) PROVE IInv'
  BY <1>4, StillStep DEF Uncovered
<1>5. ASSUME NEW r, NEW b, NEW colour, UiRect(r, b, colour) PROVE IInv'
  BY <1>1, <1>5 DEF UiRect
<1>6. ASSUME NEW r, NEW b, NEW o, NEW colour, UiDestblt(r, b, o, colour) PROVE IInv'
  BY <1>1, <1>6 DEF UiDestblt
<1>7. ASSUME NEW r, NEW b, NEW m, NEW x, NEW y, NEW o, UiMemblt(r, b, m, x, y, o) PROVE IInv'
  BY <1>1, <1>7 DEF UiMemblt
<1>8. ASSUME NEW r, NEW b, NEW x, NEW y, NEW o, UiScreenblt(r, b, x, y, o) PROVE IInv'
  BY <1>1, <1>8 DEF UiScreenblt
<1>9. ASSUME NEW from, NEW to, NEW b, NEW thin, NEW o, NEW colour,
             UiLine(from, to, b, thin, o, colour)
      PROVE  IInv'
  BY <1>1, <1>9 DEF UiLine
<1>10. ASSUME NEW r, NEW b, NEW lit, NEW colour, UiText(r, b, lit, colour) PROVE IInv'
  BY <1>1, <1>10 DEF UiText
<1>11. CASE Next
  BY <1>3, <1>4, <1>5, <1>6, <1>7, <1>8, <1>9, <1>10, <1>11, HScrollStep, VScrollStep, SizeStep
     DEF Next
<1> QED
  BY <1>2, <1>11

-----------------------------------------------------------------------------
\* The scroll position never leaves the desktop, whatever the scroll bars
\* and the window's sizes do (handle_WM_HSCROLL, handle_WM_VSCROLL,
\* handle_WM_SIZE).
THEOREM ScrollStaysInRange == Spec => []ScrollInRange
<1>1. IInv => ScrollInRange
  BY DEF IInv
<1> QED
  BY <1>1, InitInv, NextInv, PTL DEF Spec

-----------------------------------------------------------------------------
(* Loops: induction, and functions defined from step to step *)

\* Induction up to N, on a set.
LEMMA Induction ==
  ASSUME NEW T, NEW N \in Nat, 0 \in T, \A n \in 1 .. N : n - 1 \in T => n \in T
  PROVE  \A n \in 0 .. N : n \in T
<1> DEFINE Left == {n \in 0 .. N : n \notin T}
           R == OpToRel(<, Nat)
<1> SUFFICES ASSUME Left # {} PROVE FALSE
  OBVIOUS
<1>1. IsWellFoundedOn(R, Nat)
  BY NatLessThanWellFounded
<1>2. \A a, b \in Nat : a < b => <<a, b>> \in R
  BY DEF OpToRel
<1> HIDE DEF R
<1>3. Left \subseteq Nat
  OBVIOUS
<1>4. PICK x \in Left : \A y \in Left : ~(<<y, x>> \in R)
  BY <1>1, <1>3, WFMin
<1>5. x \in 1 .. N /\ x \notin T
  BY <1>4
<1>6. x - 1 \in Left /\ x - 1 \in Nat /\ x \in Nat /\ x - 1 < x
  BY <1>5
<1> QED
  BY <1>2, <1>4, <1>6

\* What is defined from step to step exists.
Stepping(N, S) == [(1 .. N) \X S -> S]
LEMMA Recursion ==
  ASSUME NEW S, NEW N \in Nat, NEW a \in S, NEW step \in Stepping(N, S)
  PROVE  \E f \in [0 .. N -> S] :
           f[0] = a /\ \A n \in 1 .. N : f[n] = step[<<n, f[n - 1]>>]
<1> DEFINE Upto(m) == \E f \in [0 .. m -> S] :
                        f[0] = a /\ \A n \in 1 .. m : f[n] = step[<<n, f[n - 1]>>]
           T == {m \in 0 .. N : Upto(m)}
<1>1. Upto(0)
  <2> DEFINE e == [n \in 0 .. 0 |-> a]
  <2>1. e \in [0 .. 0 -> S] /\ e[0] = a
    OBVIOUS
  <2>2. \A n \in 1 .. 0 : e[n] = step[<<n, e[n - 1]>>]
    OBVIOUS
  <2> HIDE DEF e
  <2> QED
    BY <2>1, <2>2
<1>2. ASSUME NEW m \in 1 .. N, m - 1 \in T PROVE Upto(m)
  <2>1. PICK f \in [0 .. m - 1 -> S] :
          f[0] = a /\ \A n \in 1 .. m - 1 : f[n] = step[<<n, f[n - 1]>>]
    BY <1>2
  <2> DEFINE g == [n \in 0 .. m |-> IF n = m THEN step[<<m, f[m - 1]>>] ELSE f[n]]
  <2>2. step[<<m, f[m - 1]>>] \in S
    BY <2>1 DEF Stepping
  <2>3. g \in [0 .. m -> S] /\ g[0] = a
    BY <2>1, <2>2
  <2>4. ASSUME NEW n \in 1 .. m PROVE g[n] = step[<<n, g[n - 1]>>]
    <3>1. n - 1 \in 0 .. m /\ n - 1 # m /\ n \in 0 .. m
      BY <1>2
    <3>2. g[n - 1] = f[n - 1] /\ g[n] = IF n = m THEN step[<<m, f[m - 1]>>] ELSE f[n]
      BY <3>1
    <3>3. CASE n = m
      BY <3>2, <3>3
    <3>4. CASE n # m
      <4>1. n \in 1 .. m - 1
        BY <1>2, <3>4
      <4> QED
        BY <2>1, <3>2, <3>4, <4>1
    <3> QED
      BY <3>3, <3>4
  <2> QED
    BY <2>3, <2>4
<1> HIDE DEF Upto
<1>3. \A n \in 0 .. N : n \in T
  <2>1. 0 \in T
    BY <1>1
  <2>2. \A n \in 1 .. N : n - 1 \in T => n \in T
    BY <1>2
  <2> HIDE DEF T
  <2> QED
    BY <2>1, <2>2, Induction
<1> QED
  BY <1>3 DEF Upto

Pictures == [Desktop -> {0, 1}]

\* A raster operation on bits gives a bit.
LEMMA RopType ==
  ASSUME NEW opcode \in 0 .. 15, NEW src \in {0, 1}, NEW dst \in {0, 1}
  PROVE  Rop(opcode, src, dst) \in {0, 1}
<1>1. 2^0 = 1 /\ 2^1 = 2 /\ 2^2 = 4 /\ 2^3 = 8
  OBVIOUS
<1>2. 2 * src + dst = 0 \/ 2 * src + dst = 1 \/ 2 * src + dst = 2 \/ 2 * src + dst = 3
  OBVIOUS
<1>3. 2^(2 * src + dst) \in {1, 2, 4, 8}
  BY <1>1, <1>2
<1>4. \A k \in {1, 2, 4, 8} : (opcode \div k) % 2 \in {0, 1}
  OBVIOUS
<1> QED
  BY <1>3, <1>4 DEF Rop

\* Operation 12 copies.
LEMMA RopCopies ==
  ASSUME NEW src \in {0, 1}, NEW dst \in {0, 1}
  PROVE  Rop(12, src, dst) = src
<1>1. 2^0 = 1 /\ 2^1 = 2 /\ 2^2 = 4 /\ 2^3 = 8
  OBVIOUS
<1>2. CASE src = 0 /\ dst = 0
  BY <1>1, <1>2 DEF Rop
<1>3. CASE src = 0 /\ dst = 1
  BY <1>1, <1>3 DEF Rop
<1>4. CASE src = 1 /\ dst = 0
  BY <1>1, <1>4 DEF Rop
<1>5. CASE src = 1 /\ dst = 1
  BY <1>1, <1>5 DEF Rop
<1> QED
  BY <1>2, <1>3, <1>4, <1>5

\* One pixel copied.
LEMMA CopyPixelType ==
  ASSUME NEW d \in Pictures, NEW to, NEW from \in Desktop, NEW opcode \in 0 .. 15
  PROVE  /\ CopyPixel(d, to, from, opcode) \in Pictures
         /\ \A p \in Desktop : CopyPixel(d, to, from, opcode)[p]
                                 = IF p = to THEN Rop(opcode, d[from], d[p]) ELSE d[p]
<1>1. \A p \in Desktop : d[p] \in {0, 1} /\ Rop(opcode, d[from], d[p]) \in {0, 1}
  BY RopType DEF Pictures
<1> QED
  BY <1>1 DEF CopyPixel, Pictures

Points == Int \X Int
\* The pixels of a row that are read are there, and none is read after it
\* has been overwritten.
Readable(from, cx) == \A j \in 0 .. cx - 1 : <<from[1] + j, from[2]>> \in Desktop
InTime(to, from, right) ==
  from[2] = to[2] => IF right THEN from[1] <= to[1] ELSE from[1] >= to[1]

\* The pixels at to are the cx by cy pixels that were at from.
Copied(b, c, to, from, cx, cy, opcode) ==
  /\ c \in Pictures
  /\ \A p \in Desktop :
       c[p] = IF to[1] <= p[1] /\ p[1] < to[1] + cx /\ to[2] <= p[2] /\ p[2] < to[2] + cy
              THEN Rop(opcode, b[<<p[1] - to[1] + from[1], p[2] - to[2] + from[2]>>], b[p])
              ELSE b[p]

\* A row is copied as a whole, whether left to right or right to left.
LEMMA CopyRowAtOnce ==
  ASSUME NEW b \in Pictures, NEW to \in Points, NEW from \in Points, NEW cx \in Nat,
         NEW right \in BOOLEAN, NEW opcode \in 0 .. 15,
         Readable(from, cx), InTime(to, from, right)
  PROVE  Copied(b, CopyRow(b, to, from, cx, right, opcode), to, from, cx, 1, opcode)
<1> DEFINE To(n) == <<to[1] + Column(n, cx, right), to[2]>>
           From(n) == <<from[1] + Column(n, cx, right), from[2]>>
           Body(f) == [n \in 0 .. cx |-> IF n = 0 THEN b ELSE CopyPixel(f[n - 1], To(n), From(n), opcode)]
           Done(n, p) == IF right THEN p[1] >= to[1] + cx - n ELSE p[1] < to[1] + n
           InRow(p) == p[2] = to[2] /\ to[1] <= p[1] /\ p[1] < to[1] + cx
           New(p) == Rop(opcode, b[<<p[1] - to[1] + from[1], from[2]>>], b[p])
           Partly(n) == [p \in Desktop |-> IF InRow(p) /\ Done(n, p) THEN New(p) ELSE b[p]]
<1> USE DEF Points
<1>1. \A n \in 1 .. cx : Column(n, cx, right) \in 0 .. cx - 1
  BY DEF Column
<1>2. \A n \in 1 .. cx : From(n) \in Desktop
  BY <1>1 DEF Readable
<1>3. \E f : f = Body(f)
  <2> DEFINE step == [q \in (1 .. cx) \X Pictures |-> CopyPixel(q[2], To(q[1]), From(q[1]), opcode)]
  <2>1. step \in Stepping(cx, Pictures)
    BY <1>2, CopyPixelType DEF Stepping
  <2>2. PICK f \in [0 .. cx -> Pictures] :
          f[0] = b /\ \A n \in 1 .. cx : f[n] = step[<<n, f[n - 1]>>]
    <3> HIDE DEF step, To, From, Body, Partly, InRow, Done, New
    <3> QED
      BY ONLY <2>1, Recursion, b \in Pictures, cx \in Nat
  <2>3. \A n \in 1 .. cx : f[n] = CopyPixel(f[n - 1], To(n), From(n), opcode)
    <3> HIDE DEF To, From, Body, Partly, InRow, Done, New
    <3>1. \A n \in 1 .. cx : n - 1 \in 0 .. cx
      OBVIOUS
    <3> QED
      BY <2>2, <3>1
  <2>4. f = Body(f)
    BY <2>2, <2>3
  <2> QED
    BY <2>4
<1>4. PICK g : g = Body(g) /\ CopyRow(b, to, from, cx, right, opcode) = g[cx]
  <2> DEFINE g == CHOOSE f : f = Body(f)
  <2>1. g = Body(g)
    BY <1>3
  <2>2. CopyRow(b, to, from, cx, right, opcode) = g[cx]
    BY DEF CopyRow
  <2> QED
    BY <2>1, <2>2
<1>5. g[0] = b /\ \A n \in 1 .. cx : g[n] = CopyPixel(g[n - 1], To(n), From(n), opcode)
  BY <1>4
<1> HIDE DEF Body
<1> DEFINE T == {n \in 0 .. cx : g[n] = Partly(n)}
<1>6. 0 \in T
  <2>1. \A p \in Desktop : ~(InRow(p) /\ Done(0, p))
    BY DEF Desktop, Pixels, Full, Rect
  <2>2. Partly(0) = b
    BY <2>1 DEF Pictures
  <2> HIDE DEF Partly
  <2> QED
    BY <1>5, <2>2
<1>t. \A n \in 0 .. cx : Partly(n) \in Pictures
  <2>1. ASSUME NEW p \in Desktop, InRow(p) PROVE New(p) \in {0, 1}
    <3>1. <<p[1] - to[1] + from[1], from[2]>> \in Desktop
      <4>1. p[1] - to[1] \in 0 .. cx - 1
        BY <2>1 DEF Desktop, Pixels, Full, Rect
      <4>2. p[1] - to[1] + from[1] = from[1] + (p[1] - to[1])
        BY <2>1 DEF Desktop, Pixels, Full, Rect
      <4> QED
        BY <4>1, <4>2 DEF Readable
    <3> QED
      BY <3>1, RopType DEF Pictures
  <2> QED
    BY <2>1 DEF Pictures
<1>7. ASSUME NEW n \in 1 .. cx, n - 1 \in T PROVE n \in T
  <2>1. g[n - 1] = Partly(n - 1)
    BY <1>7
  <2>2. Partly(n - 1) \in Pictures
    BY <1>t
  <2>3. g[n] \in Pictures
        /\ \A p \in Desktop : g[n][p] = IF p = To(n) THEN Rop(opcode, g[n - 1][From(n)], g[n - 1][p])
                                        ELSE g[n - 1][p]
    <3>1. From(n) \in Desktop /\ g[n - 1] \in Pictures
          /\ g[n] = CopyPixel(g[n - 1], To(n), From(n), opcode)
      BY <1>2, <1>5, <2>1, <2>2
    <3> HIDE DEF To, From
    <3> QED
      BY <3>1, CopyPixelType
  <2>4. \A p \in Desktop : p = To(n) => /\ InRow(p) /\ Done(n, p) /\ ~Done(n - 1, p)
                                        /\ From(n) = <<p[1] - to[1] + from[1], from[2]>>
    BY <1>1 DEF Column
  <2>5. \A p \in Desktop : InRow(p) /\ p # To(n) => (Done(n, p) <=> Done(n - 1, p))
    <3>1. \A p \in Desktop : p = <<p[1], p[2]>> /\ p[1] \in Int /\ p[2] \in Int
      BY DEF Desktop, Pixels, Full, Rect
    <3> QED
      BY <3>1 DEF Column
  <2>6. ~(InRow(From(n)) /\ Done(n - 1, From(n)))
    BY DEF Column, InTime
  <2>7. g[n - 1][From(n)] = b[From(n)]
    BY <1>2, <2>1, <2>6
  <2>8. \A p \in Desktop : g[n - 1][p] = IF InRow(p) /\ Done(n - 1, p) THEN New(p) ELSE b[p]
    BY <2>1
  <2>9. \A p \in Desktop : g[n][p] = IF InRow(p) /\ Done(n, p) THEN New(p) ELSE b[p]
    <3> SUFFICES ASSUME NEW p \in Desktop
                 PROVE  g[n][p] = IF InRow(p) /\ Done(n, p) THEN New(p) ELSE b[p]
      OBVIOUS
    <3> HIDE DEF To, From, InRow, Done
    <3>1. CASE p = To(n)
      <4>1. g[n - 1][p] = b[p] /\ From(n) = <<p[1] - to[1] + from[1], from[2]>>
            /\ InRow(p) /\ Done(n, p)
        BY <2>4, <2>8, <3>1
      <4> QED
        BY <2>3, <2>7, <3>1, <4>1
    <3>2. CASE p # To(n)
      BY <2>3, <2>5, <2>8, <3>2
    <3> QED
      BY <3>1, <3>2
  <2>10. g[n] = Partly(n)
    BY <2>3, <2>9 DEF Pictures
  <2> QED
    BY <2>10
<1>8. g[cx] = Partly(cx)
  <2> HIDE DEF Partly
  <2>1. \A n \in 1 .. cx : n - 1 \in T => n \in T
    BY <1>7
  <2>2. \A n \in 0 .. cx : n \in T
    <3> HIDE DEF T
    <3> QED
      BY <1>6, <2>1, Induction
  <2> QED
    BY <2>2
<1>9. \A p \in Desktop : InRow(p) /\ Done(cx, p) <=> InRow(p)
  BY DEF Desktop, Pixels, Full, Rect
<1>10. Partly(cx) \in Pictures /\ \A p \in Desktop : Partly(cx)[p] = IF InRow(p) THEN New(p) ELSE b[p]
  <2> HIDE DEF InRow, Done, New
  <2> QED
    BY <1>9, <1>t
<1>11. \A p \in Desktop :
          /\ InRow(p) <=> to[1] <= p[1] /\ p[1] < to[1] + cx /\ to[2] <= p[2] /\ p[2] < to[2] + 1
          /\ InRow(p) => from[2] = p[2] - to[2] + from[2]
  BY DEF Desktop, Pixels, Full, Rect
<1> HIDE DEF Partly, InRow
<1> QED
  BY <1>4, <1>8, <1>10, <1>11 DEF Copied

\* A box, copied bottom up when it moves down and top down when it does not,
\* is copied as a whole.
LEMMA CopyRowsAtOnce ==
  ASSUME NEW b \in Pictures, NEW to \in Points, NEW from \in Points,
         NEW cx \in Nat, NEW cy \in Nat,
         NEW down \in BOOLEAN, NEW right \in BOOLEAN, NEW opcode \in 0 .. 15,
         \A j \in 0 .. cx - 1, i \in 0 .. cy - 1 : <<from[1] + j, from[2] + i>> \in Desktop,
         IF down THEN from[2] < to[2] ELSE from[2] >= to[2],
         InTime(to, from, right)
  PROVE  Copied(b, CopyRows(b, to, from, cx, cy, down, right, opcode), to, from, cx, cy, opcode)
<1> DEFINE To(n) == <<to[1], to[2] + Row(n, cy, down)>>
           From(n) == <<from[1], from[2] + Row(n, cy, down)>>
           Body(f) == [n \in 0 .. cy |-> IF n = 0 THEN b
                                         ELSE CopyRow(f[n - 1], To(n), From(n), cx, right, opcode)]
           InRow(n, p) == p[2] = To(n)[2] /\ To(n)[1] <= p[1] /\ p[1] < To(n)[1] + cx
           Source(n, p) == <<p[1] - To(n)[1] + From(n)[1], From(n)[2]>>
           Done(n, p) == IF down THEN p[2] >= to[2] + cy - n ELSE p[2] < to[2] + n
           InBox(p) == /\ to[1] <= p[1] /\ p[1] < to[1] + cx
                       /\ to[2] <= p[2] /\ p[2] < to[2] + cy
           Across(p) == <<p[1] - to[1] + from[1], p[2] - to[2] + from[2]>>
           New(p) == Rop(opcode, b[Across(p)], b[p])
           Partly(n) == [p \in Desktop |-> IF InBox(p) /\ Done(n, p) THEN New(p) ELSE b[p]]
<1>1. \A n \in 1 .. cy : Row(n, cy, down) \in 0 .. cy - 1
  BY DEF Row
<1>2. ASSUME NEW n \in 1 .. cy, NEW d \in Pictures
      PROVE  /\ CopyRow(d, To(n), From(n), cx, right, opcode) \in Pictures
             /\ \A p \in Desktop :
                  CopyRow(d, To(n), From(n), cx, right, opcode)[p]
                    = IF InRow(n, p) THEN Rop(opcode, d[Source(n, p)], d[p]) ELSE d[p]
  <2>1. To(n) \in Points /\ From(n) \in Points
    BY <1>1 DEF Points
  <2>2. Readable(From(n), cx)
    BY <1>1 DEF Readable
  <2>3. InTime(To(n), From(n), right)
    BY <1>1 DEF InTime, Points
  <2> HIDE DEF To, From
  <2> QED
    <3>1. Copied(d, CopyRow(d, To(n), From(n), cx, right, opcode), To(n), From(n), cx, 1, opcode)
      BY <2>1, <2>2, <2>3, CopyRowAtOnce, Zenon
    <3>2. To(n)[1] \in Int /\ To(n)[2] \in Int /\ From(n)[1] \in Int /\ From(n)[2] \in Int
      BY <2>1 DEF Points
    <3>3. \A p \in Desktop :
            /\ InRow(n, p) <=> /\ To(n)[1] <= p[1] /\ p[1] < To(n)[1] + cx
                              /\ To(n)[2] <= p[2] /\ p[2] < To(n)[2] + 1
            /\ InRow(n, p) => From(n)[2] = p[2] - To(n)[2] + From(n)[2]
      BY <3>2 DEF Desktop, Pixels, Full, Rect
    <3> HIDE DEF InRow
    <3> QED
      BY <3>1, <3>3 DEF Copied
<1>3. \E f : f = Body(f)
  <2> DEFINE step == [q \in (1 .. cy) \X Pictures |->
                        CopyRow(q[2], To(q[1]), From(q[1]), cx, right, opcode)]
  <2> HIDE DEF To, From, InRow, Source, Body, Partly, Done, InBox, New
  <2>1. step \in Stepping(cy, Pictures)
    BY <1>2 DEF Stepping
  <2>2. PICK f \in [0 .. cy -> Pictures] :
          f[0] = b /\ \A n \in 1 .. cy : f[n] = step[<<n, f[n - 1]>>]
    <3> HIDE DEF step
    <3> QED
      BY ONLY <2>1, Recursion, b \in Pictures, cy \in Nat
  <2>3. \A n \in 1 .. cy : f[n] = CopyRow(f[n - 1], To(n), From(n), cx, right, opcode)
    <3>1. \A n \in 1 .. cy : n - 1 \in 0 .. cy
      OBVIOUS
    <3> QED
      BY <2>2, <3>1
  <2>4. f = Body(f)
    BY <2>2, <2>3 DEF Body
  <2> QED
    BY <2>4
<1>4. PICK g : g = Body(g) /\ CopyRows(b, to, from, cx, cy, down, right, opcode) = g[cy]
  <2> DEFINE g == CHOOSE f : f = Body(f)
  <2>1. g = Body(g)
    BY <1>3
  <2>2. CopyRows(b, to, from, cx, cy, down, right, opcode) = g[cy]
    BY DEF CopyRows
  <2> QED
    BY <2>1, <2>2
<1>5. g[0] = b /\ \A n \in 1 .. cy : g[n] = CopyRow(g[n - 1], To(n), From(n), cx, right, opcode)
  BY <1>4
<1> HIDE DEF Body
<1> DEFINE T == {n \in 0 .. cy : g[n] = Partly(n)}
<1> USE DEF Points
<1>p. \A p \in Desktop : p = <<p[1], p[2]>> /\ p[1] \in Int /\ p[2] \in Int
  BY DEF Desktop, Pixels, Full, Rect
<1>6. 0 \in T
  <2>1. \A p \in Desktop : ~(InBox(p) /\ Done(0, p))
    BY <1>p
  <2>2. Partly(0) = b
    BY <2>1 DEF Pictures
  <2> HIDE DEF Partly
  <2> QED
    BY <1>5, <2>2
<1>7. ASSUME NEW p \in Desktop, InBox(p) PROVE Across(p) \in Desktop /\ New(p) \in {0, 1}
  <2>1. p[1] - to[1] \in 0 .. cx - 1 /\ p[2] - to[2] \in 0 .. cy - 1
    BY <1>7, <1>p
  <2>2. Across(p) = <<from[1] + (p[1] - to[1]), from[2] + (p[2] - to[2])>>
    BY <1>p
  <2>3. Across(p) \in Desktop
    BY <2>1, <2>2
  <2> HIDE DEF Across
  <2> QED
    BY <2>3, RopType DEF Pictures
<1>8. \A n \in 0 .. cy : Partly(n) \in Pictures
  <2> HIDE DEF InBox, Done, New
  <2> QED
    BY <1>7 DEF Pictures
<1>9. ASSUME NEW n \in 1 .. cy, n - 1 \in T PROVE n \in T
  <2>1. g[n - 1] = Partly(n - 1) /\ n - 1 \in 0 .. cy
    BY <1>9
  <2>2. /\ g[n] \in Pictures
        /\ \A p \in Desktop : g[n][p] = IF InRow(n, p) THEN Rop(opcode, g[n - 1][Source(n, p)], g[n - 1][p])
                                        ELSE g[n - 1][p]
    <3> HIDE DEF To, From, InRow, Source, Partly
    <3> QED
      BY <1>2, <1>5, <1>8, <2>1
  <2>3. ASSUME NEW p \in Desktop, InRow(n, p)
        PROVE  /\ InBox(p) /\ Done(n, p) /\ ~Done(n - 1, p)
               /\ Source(n, p) = Across(p)
               /\ ~(InBox(Across(p)) /\ Done(n - 1, Across(p)))
    <3>1. InBox(p) /\ Done(n, p) /\ ~Done(n - 1, p) /\ Source(n, p) = Across(p)
      BY <1>p, <2>3 DEF Row
    <3>2. ~(InBox(Across(p)) /\ Done(n - 1, Across(p)))
      BY <1>p, <2>3 DEF Row
    <3> QED
      BY <3>1, <3>2
  <2>4. \A p \in Desktop : InBox(p) /\ ~InRow(n, p) => (Done(n, p) <=> Done(n - 1, p))
    BY <1>p DEF Row
  <2>5. \A p \in Desktop : g[n - 1][p] = IF InBox(p) /\ Done(n - 1, p) THEN New(p) ELSE b[p]
    <3> HIDE DEF InBox, Done, New
    <3> QED
      BY <2>1
  <2>6. ASSUME NEW p \in Desktop
        PROVE  g[n][p] = IF InBox(p) /\ Done(n, p) THEN New(p) ELSE b[p]
    <3>1. CASE InRow(n, p)
      <4>1. Across(p) \in Desktop
        BY <1>7, <2>3, <3>1
      <4> HIDE DEF To, From, InRow, Source, InBox, Done, Across
      <4>2. g[n - 1][Across(p)] = b[Across(p)] /\ g[n - 1][p] = b[p]
        BY <2>3, <2>5, <3>1, <4>1
      <4>3. g[n][p] = Rop(opcode, b[Across(p)], b[p])
        BY <2>2, <2>3, <3>1, <4>2
      <4> QED
        BY <2>3, <3>1, <4>3
    <3>2. CASE ~InRow(n, p)
      <4> HIDE DEF To, From, InRow, Source, InBox, Done, Across, New
      <4> QED
        BY <2>2, <2>4, <2>5, <3>2
    <3> QED
      BY <3>1, <3>2
  <2> HIDE DEF InBox, Done, New
  <2>7. g[n] = Partly(n)
    BY <2>2, <2>6 DEF Pictures
  <2> QED
    BY <2>7
<1>10. g[cy] = Partly(cy)
  <2> HIDE DEF Partly
  <2>1. \A n \in 1 .. cy : n - 1 \in T => n \in T
    BY <1>9
  <2>2. \A n \in 0 .. cy : n \in T
    <3> HIDE DEF T
    <3> QED
      BY <1>6, <2>1, Induction
  <2> QED
    BY <2>2
<1>11. \A p \in Desktop : InBox(p) /\ Done(cy, p) <=> InBox(p)
  BY <1>p
<1>12. Partly(cy) \in Pictures /\ \A p \in Desktop : Partly(cy)[p] = IF InBox(p) THEN New(p) ELSE b[p]
  <2> HIDE DEF InBox, Done, New
  <2> QED
    BY <1>8, <1>11
<1> HIDE DEF Partly
<1> QED
  BY <1>4, <1>10, <1>12 DEF Copied

\* What bs_warp_coords leaves of a box is its part within the clip.
LEMMA WarpMeets ==
  ASSUME NEW r \in Boxes, NEW c \in Boxes
  PROVE  /\ Drawable(Warp(r, c).box) => Pixels(Warp(r, c).box) = Pixels(r) \cap Pixels(c)
         /\ ~Drawable(Warp(r, c).box) => Pixels(r) \cap Pixels(c) = {}
         /\ Warp(r, c).box = Rect(Warp(r, c).box.x, Warp(r, c).box.y, Warp(r, c).box.cx, Warp(r, c).box.cy)
         /\ Warp(r, c).dx \in Nat /\ Warp(r, c).dy \in Nat
         /\ Warp(r, c).box.x = r.x + Warp(r, c).dx /\ Warp(r, c).box.y = r.y + Warp(r, c).dy
         /\ Warp(r, c).box.cx \in Int /\ Warp(r, c).box.cy \in Int
<1>1. /\ r.x \in Int /\ r.y \in Int /\ r.cx \in Nat /\ r.cy \in Nat
      /\ c.x \in Int /\ c.y \in Int /\ c.cx \in Nat /\ c.cy \in Nat
  BY DEF Boxes
<1> DEFINE w == Warp(r, c).box
<1>2. /\ w = Rect(w.x, w.y, w.cx, w.cy)
      /\ w.x = Greater(r.x, c.x) /\ w.y = Greater(r.y, c.y)
      /\ w.x + w.cx = Lesser(r.x + r.cx, c.x + c.cx)
      /\ w.y + w.cy = Lesser(r.y + r.cy, c.y + c.cy)
      /\ w.cx \in Int /\ w.cy \in Int /\ w.x \in Int /\ w.y \in Int
      /\ Warp(r, c).dx \in Nat /\ Warp(r, c).dy \in Nat
      /\ w.x = r.x + Warp(r, c).dx /\ w.y = r.y + Warp(r, c).dy
  BY <1>1 DEF Warp, Rect, Greater, Lesser
<1> HIDE DEF w
<1>3. Pixels(w) = Pixels(r) \cap Pixels(c)
  <2>1. \A n \in Int : /\ n \in w.x .. w.x + w.cx - 1 <=> n \in r.x .. r.x + r.cx - 1 /\ n \in c.x .. c.x + c.cx - 1
                       /\ n \in w.y .. w.y + w.cy - 1 <=> n \in r.y .. r.y + r.cy - 1 /\ n \in c.y .. c.y + c.cy - 1
    BY <1>1, <1>2 DEF Greater, Lesser
  <2>2. /\ w.x .. w.x + w.cx - 1 = (r.x .. r.x + r.cx - 1) \cap (c.x .. c.x + c.cx - 1)
        /\ w.y .. w.y + w.cy - 1 = (r.y .. r.y + r.cy - 1) \cap (c.y .. c.y + c.cy - 1)
    BY <1>1, <1>2, <2>1
  <2> QED
    BY <2>2 DEF Pixels
<1>4. ~Drawable(w) => Pixels(w) = {}
  BY <1>2 DEF Drawable, Pixels
<1> QED
  BY <1>2, <1>3, <1>4 DEF w

\* A raster operation on some pixels.
Painted(b, pixels, opcode, colours) ==
  [p \in Desktop |-> IF p \in pixels THEN Rop(opcode, colours[p], b[p]) ELSE b[p]]

\* Painting with bits keeps to bits and to the pixels.
LEMMA PaintedType ==
  ASSUME NEW b \in Pictures, NEW pixels, NEW opcode \in 0 .. 15, NEW colours,
         \A p \in pixels \cap Desktop : colours[p] \in {0, 1}
  PROVE  /\ Painted(b, pixels, opcode, colours) \in Pictures
         /\ \A p \in Desktop \ pixels : Painted(b, pixels, opcode, colours)[p] = b[p]
<1>1. \A p \in pixels \cap Desktop : Rop(opcode, colours[p], b[p]) \in {0, 1}
  BY RopType DEF Pictures
<1> QED
  BY <1>1 DEF Painted, Pictures

\* What moves a box by the distance from r to the source.
Moved(b, r, srcx, srcy) == [p \in Desktop |-> b[<<p[1] - r.x + srcx, p[2] - r.y + srcy>>]]

SourceOn(r, srcx, srcy) == Pixels(Rect(srcx, srcy, r.cx, r.cy)) \subseteq Desktop

\* Overlapping or not, clipped or not, a box is copied as a whole.
LEMMA ScreenbltAtOnce ==
  ASSUME NEW b \in Pictures, NEW r \in Boxes, NEW c \in Boxes, NEW srcx \in Int, NEW srcy \in Int,
         NEW opcode \in 0 .. 15, SourceOn(r, srcx, srcy)
  PROVE  BsScreenblt(b, r, c, srcx, srcy, opcode)
           = Painted(b, Pixels(r) \cap Pixels(c), opcode, Moved(b, r, srcx, srcy))
<1> DEFINE w == Warp(r, c)
           sx == srcx + w.dx
           sy == srcy + w.dy
           down == sy < w.box.y
           right == ~down /\ ~(sy > w.box.y \/ sx > w.box.x)
           to == <<w.box.x, w.box.y>>
           from == <<sx, sy>>
           cx == w.box.cx
           cy == w.box.cy
           copy == CopyRows(b, to, from, cx, cy, down, right, opcode)
<1>1. BsScreenblt(b, r, c, srcx, srcy, opcode) = IF Drawable(w.box) THEN copy ELSE b
  BY DEF BsScreenblt
<1>2. /\ r.x \in Int /\ r.y \in Int /\ r.cx \in Nat /\ r.cy \in Nat
      /\ c.x \in Int /\ c.y \in Int /\ c.cx \in Nat /\ c.cy \in Nat
  BY DEF Boxes
<1>3. CASE Drawable(w.box)
  <2>1. /\ w.dx \in Nat /\ w.dy \in Nat /\ w.box.x = r.x + w.dx /\ w.box.y = r.y + w.dy
        /\ cx \in Nat /\ cy \in Nat
        /\ Pixels(w.box) = Pixels(r) \cap Pixels(c)
    BY <1>3, WarpMeets DEF Drawable
  <2>2. cx <= r.cx - w.dx /\ cy <= r.cy - w.dy
    BY <1>2 DEF Warp, Rect, Greater
  <2>3. to \in Points /\ from \in Points
    BY <1>2, <2>1 DEF Points
  <2>4. \A j \in 0 .. cx - 1, i \in 0 .. cy - 1 : <<from[1] + j, from[2] + i>> \in Desktop
    <3>1. ASSUME NEW j \in 0 .. cx - 1, NEW i \in 0 .. cy - 1
          PROVE  <<sx + j, sy + i>> \in Pixels(Rect(srcx, srcy, r.cx, r.cy))
      BY <1>2, <2>1, <2>2 DEF Pixels, Rect
    <3> QED
      BY <3>1 DEF SourceOn
  <2>5. IF down THEN from[2] < to[2] ELSE from[2] >= to[2]
    BY <1>2, <2>1
  <2>6. InTime(to, from, right)
    BY <1>2, <2>1 DEF InTime
  <2>7. down \in BOOLEAN /\ right \in BOOLEAN
    OBVIOUS
  <2>8. Copied(b, copy, to, from, cx, cy, opcode)
    <3> HIDE DEF to, from, cx, cy, down, right
    <3> QED
      BY <2>1, <2>3, <2>4, <2>5, <2>6, <2>7, CopyRowsAtOnce
  <2>9. ASSUME NEW p \in Desktop
        PROVE  /\ p[1] - to[1] + from[1] = p[1] - r.x + srcx
               /\ p[2] - to[2] + from[2] = p[2] - r.y + srcy
               /\ p \in Pixels(r) \cap Pixels(c)
                    <=> /\ to[1] <= p[1] /\ p[1] < to[1] + cx
                        /\ to[2] <= p[2] /\ p[2] < to[2] + cy
    <3>1. p = <<p[1], p[2]>> /\ p[1] \in Int /\ p[2] \in Int
      BY DEF Desktop, Pixels, Full, Rect
    <3>2. p \in Pixels(w.box) <=> /\ to[1] <= p[1] /\ p[1] < to[1] + cx
                                  /\ to[2] <= p[2] /\ p[2] < to[2] + cy
      BY <1>2, <2>1, <3>1 DEF Pixels
    <3> QED
      BY <1>2, <2>1, <3>1, <3>2
  <2>10. copy \in Pictures
         /\ \A p \in Desktop :
              copy[p] = IF p \in Pixels(r) \cap Pixels(c) THEN Rop(opcode, Moved(b, r, srcx, srcy)[p], b[p])
                        ELSE b[p]
    <3> HIDE DEF to, from, cx, cy, copy
    <3> QED
      BY <2>8, <2>9 DEF Copied, Moved
  <2> HIDE DEF copy
  <2> QED
    BY <1>1, <1>3, <2>10 DEF Painted, Pictures
<1>4. CASE ~Drawable(w.box)
  BY <1>1, <1>4, WarpMeets DEF Painted, Pictures
<1> QED
  BY <1>3, <1>4

-----------------------------------------------------------------------------
(* Lines *)

\* Bresenham's walk: what is left over after n steps, and how far the shorter
\* side has come, are n times its slope, rounded.
LEMMA WalkRounds ==
  ASSUME NEW i \in Nat, NEW k \in 0 .. i
  PROVE  /\ Steps(i, k)[0] = 0
         /\ \A n \in 0 .. i : /\ Steps(i, k)[n] \in Int
                              /\ 2 * (n * k) - i <= 2 * (i * Steps(i, k)[n])
                              /\ 2 * (i * Steps(i, k)[n]) < 2 * (n * k) + i \/ i = 0
<1> DEFINE S == [k : Int, p : Int]
           Next1(last) == IF last.p > 0 THEN [k |-> last.k + 1, p |-> last.p + 2 * k - 2 * i]
                          ELSE [k |-> last.k, p |-> last.p + 2 * k]
           First == [k |-> 0, p |-> 2 * k - i]
           Body(f) == [n \in 0 .. i |-> IF n = 0 THEN First ELSE Next1(f[n - 1])]
<1>1. First \in S /\ \A last \in S : Next1(last) \in S
  OBVIOUS
<1>2. \E f : f = Body(f) /\ f \in [0 .. i -> S]
  <2> DEFINE step == [q \in (1 .. i) \X S |-> Next1(q[2])]
  <2> HIDE DEF First, Next1, S
  <2>1. step \in Stepping(i, S)
    BY <1>1 DEF Stepping
  <2>2. PICK f \in [0 .. i -> S] :
          f[0] = First /\ \A n \in 1 .. i : f[n] = step[<<n, f[n - 1]>>]
    <3> HIDE DEF step
    <3> QED
      BY <1>1, <2>1, Recursion
  <2>3. \A n \in 1 .. i : f[n] = Next1(f[n - 1])
    <3>1. \A n \in 1 .. i : n - 1 \in 0 .. i
      OBVIOUS
    <3> QED
      BY <2>2, <3>1
  <2>4. f = Body(f)
    BY <2>2, <2>3
  <2> QED
    BY <2>2, <2>4
<1>3. PICK g : g = Body(g) /\ Steps(i, k) = [n \in 0 .. i |-> g[n].k]
  <2> DEFINE g == CHOOSE f : f = Body(f)
  <2>1. g = Body(g)
    BY <1>2
  <2>2. Steps(i, k) = [n \in 0 .. i |-> g[n].k]
    BY SMTT(30) DEF Steps
  <2> QED
    BY <2>1, <2>2
<1>4. g[0] = First /\ \A n \in 1 .. i : g[n] = Next1(g[n - 1])
  BY <1>3
<1> HIDE DEF Body
<1> DEFINE Rounded(n) == /\ g[n].k \in Int
                         /\ g[n].p = 2 * (n * k) + 2 * k - i - 2 * (i * g[n].k)
                         /\ 2 * (n * k) - i <= 2 * (i * g[n].k)
                         /\ 2 * (i * g[n].k) < 2 * (n * k) + i \/ i = 0
           T == {n \in 0 .. i : Rounded(n)}
<1>5. 0 \in T
  BY <1>4
<1>6. ASSUME NEW n \in 1 .. i, n - 1 \in T PROVE Rounded(n)
  <2> DEFINE m == g[n - 1].k
             a == (n - 1) * k
             c == i * m
  <2>1. /\ m \in Int /\ g[n - 1].p = 2 * a + 2 * k - i - 2 * c
        /\ 2 * a - i <= 2 * c /\ 2 * c < 2 * a + i
    BY <1>6
  <2>2. n * k = a + k /\ i * (m + 1) = c + i /\ a \in Int /\ c \in Int
    BY <2>1
  <2>3. g[n] = Next1(g[n - 1])
    BY <1>4
  <2> HIDE DEF m, a, c
  <2>4. CASE g[n - 1].p > 0
    <3>1. g[n].k = m + 1 /\ g[n].p = g[n - 1].p + 2 * k - 2 * i
      BY <2>3, <2>4 DEF m
    <3> QED
      BY <2>1, <2>2, <2>4, <3>1
  <2>5. CASE ~(g[n - 1].p > 0)
    <3>1. g[n].k = m /\ g[n].p = g[n - 1].p + 2 * k
      BY <2>3, <2>5 DEF m
    <3>2. i * m = c
      BY DEF c
    <3> QED
      BY <2>1, <2>2, <2>5, <3>1, <3>2
  <2> QED
    BY <2>4, <2>5
<1>7. \A n \in 0 .. i : n \in T
  <2>1. \A n \in 1 .. i : n - 1 \in T => n \in T
    BY <1>6
  <2> HIDE DEF T
  <2> QED
    BY <1>5, <2>1, Induction
<1>8. Steps(i, k)[0] = 0
  BY <1>3, <1>4
<1>9. \A n \in 0 .. i : Rounded(n) /\ Steps(i, k)[n] = g[n].k
  BY <1>3, <1>7
<1> QED
  BY <1>8, <1>9

\* A quotient is known by what it leaves.
LEMMA QuotientUnique ==
  ASSUME NEW x \in Int, NEW y \in Nat \ {0}, NEW q \in Int, y * q <= x, x < y * q + y
  PROVE  x \div y = q
<1>1. x \div y \in Int /\ y * (x \div y) <= x /\ x < y * (x \div y) + y
  OBVIOUS
<1> DEFINE d == x \div y
<1> HIDE DEF d
<1>2. d \in Int /\ y * d <= x /\ x < y * d + y
  BY <1>1 DEF d
<1>3. CASE d < q
  <2>1. y * (d + 1) <= y * q /\ y * (d + 1) = y * d + y
    BY <1>2, <1>3
  <2> QED
    BY <1>2, <2>1
<1>4. CASE q < d
  <2>1. y * (q + 1) <= y * d /\ y * (q + 1) = y * q + y
    BY <1>2, <1>4
  <2> QED
    BY <1>2, <2>1
<1> QED
  BY <1>2, <1>3, <1>4 DEF d

\* The walk takes the nearest pixel at each step and stays within the box.
LEMMA WalkNearest ==
  ASSUME NEW i \in Nat, NEW k \in 0 .. i, NEW n \in 0 .. i
  PROVE  /\ Steps(i, k)[n] \in 0 .. k
         /\ Steps(i, k)[n] = IF i = 0 THEN 0 ELSE (2 * n * k + i - 1) \div (2 * i)
<1>1. CASE i = 0
  BY <1>1, WalkRounds
<1>2. CASE i # 0
  <2> DEFINE s == Steps(i, k)[n]
             a == n * k
             c == i * s
  <2>1. s \in Int /\ 2 * a - i <= 2 * c /\ 2 * c < 2 * a + i
    BY <1>2, WalkRounds
  <2> HIDE DEF s
  <2>2. a \in Int /\ c \in Int /\ 0 <= a /\ a <= i * k
    BY <2>1
  <2>3. 0 <= s
    <3>1. CASE s < 0
      <4>1. c <= -i
        BY <2>1, <3>1
      <4> HIDE DEF a, c
      <4> QED
        BY <1>2, <2>1, <2>2, <4>1
    <3> QED
      BY <2>1, <3>1
  <2>4. s <= k
    <3>1. CASE s > k
      <4>1. i * s >= i * (k + 1) /\ i * (k + 1) = i * k + i /\ i * k \in Int
        BY <2>1, <3>1
      <4>2. c >= i * k + i
        BY <4>1
      <4> HIDE DEF a, c
      <4> QED
        BY <1>2, <2>1, <2>2, <4>1, <4>2
    <3> QED
      BY <2>1, <3>1
  <2>5. 2 * n * k = 2 * a /\ (2 * i) * s = 2 * c
    BY <2>1
  <2>6. (2 * n * k + i - 1) \div (2 * i) = s
    <3> DEFINE x == 2 * a + i - 1
    <3>1. x \in Int /\ 2 * i \in Nat \ {0}
      BY <1>2, <2>2
    <3>2. (2 * i) * s <= x /\ x < (2 * i) * s + 2 * i
      <4> HIDE DEF a, c
      <4> QED
        BY <2>1, <2>2, <2>5
    <3>3. x \div (2 * i) = s
      <4> HIDE DEF x
      <4> QED
        BY <2>1, <3>1, <3>2, QuotientUnique
    <3> QED
      BY <2>5, <3>3
  <2> QED
    BY <1>2, <2>1, <2>3, <2>4, <2>6 DEF s
<1> QED
  BY <1>1, <1>2

\* A line is drawn where the server means it, and within its box.
LineBox(from, to) ==
  LET x == Lesser(from[1], to[1])
      y == Lesser(from[2], to[2])
  IN Rect(x, y, Greater(from[1], to[1]) + 1 - x, Greater(from[2], to[2]) + 1 - y)

LEMMA LineIdeal ==
  ASSUME NEW from \in Int \X Int, NEW to \in Int \X Int
  PROVE  /\ LinePixels(from, to) = IdealLine(from, to)
         /\ LinePixels(from, to) \subseteq Pixels(LineBox(from, to))
<1> DEFINE dx == Greater(to[1] - from[1], from[1] - to[1])
           dy == Greater(to[2] - from[2], from[2] - to[2])
           incx == Sign(to[1] - from[1])
           incy == Sign(to[2] - from[2])
           Near(n, k, i) == IF i = 0 THEN 0 ELSE (2 * n * k + i - 1) \div (2 * i)
           Toward(a, b, n) == IF a > b THEN a - n ELSE a + n
           Within(a, b, n) == n \in Lesser(a, b) .. Lesser(a, b) + (Greater(a, b) + 1 - Lesser(a, b)) - 1
           Wide == {<<from[1] + n * incx, from[2] + Steps(dx, dy)[n] * incy>> : n \in 0 .. dx}
           High == {<<from[1] + Steps(dy, dx)[n] * incx, from[2] + n * incy>> : n \in 0 .. dy}
           WideIdeal == {<<Toward(from[1], to[1], n), Toward(from[2], to[2], Near(n, dy, dx))>> : n \in 0 .. dx}
           HighIdeal == {<<Toward(from[1], to[1], Near(n, dx, dy)), Toward(from[2], to[2], n)>> : n \in 0 .. dy}
<1>1. /\ LinePixels(from, to) = (IF dx >= dy THEN Wide ELSE High) \ {to}
      /\ IdealLine(from, to) = (IF dx >= dy THEN WideIdeal ELSE HighIdeal) \ {to}
  BY DEF LinePixels, IdealLine
<1>2. dx \in Nat /\ dy \in Nat
  BY DEF Greater
<1>3. ASSUME NEW n \in 0 .. dx
      PROVE  /\ from[1] + n * incx = Toward(from[1], to[1], n)
             /\ Toward(from[1], to[1], n) \in Int /\ Within(from[1], to[1], Toward(from[1], to[1], n))
  BY DEF Sign, Greater, Lesser
<1>4. ASSUME NEW n \in 0 .. dy
      PROVE  /\ from[2] + n * incy = Toward(from[2], to[2], n)
             /\ Toward(from[2], to[2], n) \in Int /\ Within(from[2], to[2], Toward(from[2], to[2], n))
  BY DEF Sign, Greater, Lesser
<1>5. Pixels(LineBox(from, to)) = {n \in Int : Within(from[1], to[1], n)} \X {n \in Int : Within(from[2], to[2], n)}
  BY DEF Pixels, LineBox, Rect, Greater, Lesser
<1> HIDE DEF dx, dy, incx, incy, Toward, Within, Near
<1>6. CASE dx >= dy
  <2>1. ASSUME NEW n \in 0 .. dx
        PROVE  Steps(dx, dy)[n] \in 0 .. dy /\ Steps(dx, dy)[n] = Near(n, dy, dx)
    BY <1>2, <1>6, WalkNearest DEF Near
  <2>2. ASSUME NEW n \in 0 .. dx
        PROVE  /\ <<from[1] + n * incx, from[2] + Steps(dx, dy)[n] * incy>>
                    = <<Toward(from[1], to[1], n), Toward(from[2], to[2], Near(n, dy, dx))>>
               /\ <<from[1] + n * incx, from[2] + Steps(dx, dy)[n] * incy>> \in Pixels(LineBox(from, to))
    BY <1>3, <1>4, <1>5, <2>1
  <2>3. Wide = WideIdeal /\ Wide \subseteq Pixels(LineBox(from, to))
    BY <2>2
  <2> HIDE DEF Wide, WideIdeal
  <2> QED
    BY <1>1, <1>6, <2>3
<1>7. CASE ~(dx >= dy)
  <2>1. ASSUME NEW n \in 0 .. dy
        PROVE  Steps(dy, dx)[n] \in 0 .. dx /\ Steps(dy, dx)[n] = Near(n, dx, dy)
    BY <1>2, <1>7, WalkNearest DEF Near
  <2>2. ASSUME NEW n \in 0 .. dy
        PROVE  /\ <<from[1] + Steps(dy, dx)[n] * incx, from[2] + n * incy>>
                    = <<Toward(from[1], to[1], Near(n, dx, dy)), Toward(from[2], to[2], n)>>
               /\ <<from[1] + Steps(dy, dx)[n] * incx, from[2] + n * incy>> \in Pixels(LineBox(from, to))
    BY <1>3, <1>4, <1>5, <2>1
  <2>3. High = HighIdeal /\ High \subseteq Pixels(LineBox(from, to))
    BY <2>2
  <2> HIDE DEF High, HighIdeal
  <2> QED
    BY <1>1, <1>7, <2>3
<1> QED
  BY <1>6, <1>7

-----------------------------------------------------------------------------
(* Drawing calls as raster operations *)

One(colour) == [p \in Desktop |-> colour]

\* A filled box is one raster operation on its pixels within the clip.
LEMMA RectPaints ==
  ASSUME NEW b \in Pictures, NEW r \in Boxes, NEW c \in Boxes, NEW colour, NEW opcode
  PROVE  BsRect(b, r, c, colour, opcode) = Painted(b, Pixels(r) \cap Pixels(c), opcode, One(colour))
<1>1. CASE Drawable(Warp(r, c).box)
  BY <1>1, WarpMeets DEF BsRect, Painted, One
<1>2. CASE ~Drawable(Warp(r, c).box)
  <2>1. BsRect(b, r, c, colour, opcode) = b /\ Pixels(r) \cap Pixels(c) = {}
    BY <1>2, WarpMeets DEF BsRect
  <2> QED
    BY <2>1 DEF Painted, Pictures
<1> QED
  BY <1>1, <1>2

\* A bitmap is one, with its own colours.
Source(m, r, srcx, srcy) == [p \in Desktop |-> m.data[<<p[1] - r.x + srcx, p[2] - r.y + srcy>>]]

LEMMA MembltPaints ==
  ASSUME NEW b \in Pictures, NEW r \in Boxes, NEW c \in Boxes, NEW m,
         NEW srcx \in Int, NEW srcy \in Int, NEW opcode
  PROVE  BsMemblt(b, r, c, m, srcx, srcy, opcode)
           = Painted(b, Pixels(r) \cap Pixels(c), opcode, Source(m, r, srcx, srcy))
<1> DEFINE w == Warp(r, c)
<1>1. /\ r.x \in Int /\ r.y \in Int /\ w.dx \in Nat /\ w.dy \in Nat
      /\ w.box.x = r.x + w.dx /\ w.box.y = r.y + w.dy
  BY WarpMeets DEF Boxes
<1>2. \A p \in Desktop : /\ p[1] - w.box.x + srcx + w.dx = p[1] - r.x + srcx
                         /\ p[2] - w.box.y + srcy + w.dy = p[2] - r.y + srcy
  <2>1. \A p \in Desktop : p[1] \in Int /\ p[2] \in Int
    BY DEF Desktop, Pixels, Full, Rect
  <2> HIDE DEF w
  <2> QED
    BY <1>1, <2>1
<1>3. CASE Drawable(w.box)
  <2>1. BsMemblt(b, r, c, m, srcx, srcy, opcode)
          = [p \in Desktop |->
               IF p \in Pixels(w.box)
               THEN Rop(opcode, m.data[<<p[1] - w.box.x + srcx + w.dx, p[2] - w.box.y + srcy + w.dy>>], b[p])
               ELSE b[p]]
    BY <1>3 DEF BsMemblt
  <2>2. Pixels(w.box) = Pixels(r) \cap Pixels(c)
    BY <1>3, WarpMeets
  <2> HIDE DEF w
  <2> QED
    BY <1>2, <2>1, <2>2 DEF Painted, Source
<1>4. CASE ~Drawable(w.box)
  <2>1. BsMemblt(b, r, c, m, srcx, srcy, opcode) = b /\ Pixels(r) \cap Pixels(c) = {}
    BY <1>4, WarpMeets DEF BsMemblt
  <2> QED
    BY <2>1 DEF Painted, Pictures
<1> QED
  BY <1>3, <1>4

\* So is a line.
LEMMA LinePaints ==
  ASSUME NEW b, NEW from, NEW to, NEW c, NEW colour, NEW opcode
  PROVE  BsLine(b, from, to, c, colour, opcode)
           = Painted(b, LinePixels(from, to) \cap Pixels(c), opcode, One(colour))
  BY DEF BsLine, Painted, One

\* So are the glyphs of a text and the box they are drawn on.
Lit(lit, colour) == [p \in Desktop |-> IF p \in lit THEN colour ELSE 1 - colour]

LEMMA TextPaints ==
  ASSUME NEW b \in Pictures, NEW r \in Boxes, NEW c \in Boxes, NEW lit \in SUBSET Pixels(r),
         NEW colour \in {0, 1}
  PROVE  BsGlyph(BsRect(b, r, c, 1 - colour, 12), lit, c, colour)
           = Painted(b, Pixels(r) \cap Pixels(c), 12, Lit(lit, colour))
<1>1. 1 - colour \in {0, 1}
  OBVIOUS
<1>2. \A p \in Desktop : Rop(12, colour, b[p]) = colour /\ Rop(12, 1 - colour, b[p]) = 1 - colour
  BY <1>1, RopCopies DEF Pictures
<1> DEFINE back == BsRect(b, r, c, 1 - colour, 12)
<1>3. \A p \in Desktop : back[p] = IF p \in Pixels(r) \cap Pixels(c) THEN 1 - colour ELSE b[p]
  BY <1>2, RectPaints DEF Painted, One
<1> HIDE DEF back
<1>4. \A p \in Desktop : (IF p \in lit \cap Pixels(c) THEN colour ELSE back[p])
                           = IF p \in Pixels(r) \cap Pixels(c) THEN Rop(12, Lit(lit, colour)[p], b[p]) ELSE b[p]
  <2> SUFFICES ASSUME NEW p \in Desktop
               PROVE  (IF p \in lit \cap Pixels(c) THEN colour ELSE back[p])
                        = IF p \in Pixels(r) \cap Pixels(c) THEN Rop(12, Lit(lit, colour)[p], b[p]) ELSE b[p]
    OBVIOUS
  <2>1. Rop(12, Lit(lit, colour)[p], b[p]) = IF p \in lit THEN colour ELSE 1 - colour
    BY <1>2 DEF Lit
  <2> QED
    BY <1>3, <2>1
<1> QED
  BY <1>4 DEF BsGlyph, Painted, back

-----------------------------------------------------------------------------
(* The screen *)

Shades == {0, 1, Blue, Other}

\* What the screen shows of a picture where no repaint is due.
Shows(scr, b, due) ==
  \A p \in Client(size) \ due : scr[p] = IF Shown(p) \in Desktop THEN b[Shown(p)] ELSE Blue

\* Painting a box of the backing store, clipped or not and however much wider
\* it is than asked for, brings the screen up to date with a change in it.
LEMMA InvalidateShows ==
  ASSUME NEW scr \in [Client(size) -> Shades], NEW b, NEW b2 \in Pictures, NEW due,
         NEW r \in Boxes, NEW c \in Boxes, Pixels(c) \subseteq Desktop,
         \A p \in Desktop \ (Pixels(r) \cap Pixels(c)) : b2[p] = b[p],
         Shows(scr, b, due)
  PROVE  /\ UiInvalidate(scr, b2, r, c) \in [Client(size) -> Shades]
         /\ Shows(UiInvalidate(scr, b2, r, c), b2, due)
         /\ \A p \in Client(size) : Shown(p) \in Pixels(r) \cap Pixels(c)
                                     => UiInvalidate(scr, b2, r, c)[p] = b2[Shown(p)]
<1> DEFINE w == Warp(r, c).box
           wide == [w EXCEPT !.cx = ((w.cx + 3) \div 4) * 4]
           out == UiInvalidate(scr, b2, r, c)
<1>1. w = Rect(w.x, w.y, w.cx, w.cy) /\ w.x \in Int /\ w.y \in Int /\ w.cx \in Int /\ w.cy \in Int
  BY WarpMeets DEF Boxes
<1>2. CASE r.cx < 1 \/ r.cy < 1 \/ ~Drawable(w)
  <2>1. out = scr
    BY <1>2 DEF UiInvalidate
  <2>2. Pixels(r) \cap Pixels(c) = {}
    <3>1. CASE ~Drawable(w)
      BY <3>1, WarpMeets
    <3>2. CASE r.cx < 1 \/ r.cy < 1
      BY <3>2 DEF Pixels, Boxes
    <3> QED
      BY <1>2, <3>1, <3>2
  <2>3. \A p \in Desktop : b2[p] = b[p]
    BY <2>2
  <2> HIDE DEF out
  <2>4. out \in [Client(size) -> Shades] /\ Shows(out, b2, due)
    BY <2>1, <2>3 DEF Shows
  <2> QED
    BY <2>2, <2>4 DEF out
<1>3. CASE ~(r.cx < 1 \/ r.cy < 1 \/ ~Drawable(w))
  <2>1. out = Put(scr, Pixels(wide), c, [p \in DOMAIN scr |-> CopyBox(b2, Shown(p))])
    BY <1>3 DEF UiInvalidate
  <2>2. Pixels(r) \cap Pixels(c) \subseteq Pixels(wide) \cap Pixels(c)
    <3>1. Pixels(w) = Pixels(r) \cap Pixels(c)
      BY <1>3, WarpMeets
    <3>2. w.cx <= ((w.cx + 3) \div 4) * 4
      BY <1>1
    <3>3. wide = Rect(w.x, w.y, ((w.cx + 3) \div 4) * 4, w.cy)
      BY <1>1 DEF Rect
    <3>4. Pixels(w) \subseteq Pixels(wide)
      <4> HIDE DEF w, wide
      <4> QED
        BY <1>1, <3>2, <3>3 DEF Pixels, Rect
    <3> HIDE DEF w, wide
    <3> QED
      BY <3>1, <3>4
  <2> DEFINE on == Pixels(wide) \cap Pixels(c)
  <2> HIDE DEF out, wide
  <2>3. \A p \in Client(size) :
          out[p] = IF Shown(p) \in on THEN b2[Shown(p)] ELSE scr[p]
    BY <2>1 DEF Put, CopyBox
  <2>4. out \in [Client(size) -> Shades]
    <3>1. \A p \in Client(size) : Shown(p) \in on => b2[Shown(p)] \in {0, 1}
      BY DEF Pictures
    <3>2. out = [p \in Client(size) |->
                   IF Shown(p) \in on THEN [q \in DOMAIN scr |-> CopyBox(b2, Shown(q))][p] ELSE scr[p]]
      BY <2>1 DEF Put
    <3>3. DOMAIN out = Client(size) /\ out = [p \in Client(size) |-> out[p]]
      BY <3>2
    <3>4. \A p \in Client(size) : out[p] \in Shades
      <4> HIDE DEF on
      <4> QED
        BY <2>3, <3>1 DEF Shades
    <3> QED
      BY <3>3, <3>4
  <2>5. Shows(out, b2, due)
    <3>1. \A p \in Client(size) : Shown(p) \in Desktop /\ Shown(p) \notin on => b2[Shown(p)] = b[Shown(p)]
      BY <2>2
    <3>2. on \subseteq Desktop
      OBVIOUS
    <3> HIDE DEF on
    <3> QED
      BY <2>3, <3>1, <3>2 DEF Shows
  <2>6. \A p \in Client(size) : Shown(p) \in Pixels(r) \cap Pixels(c) => out[p] = b2[Shown(p)]
    BY <2>2, <2>3
  <2> QED
    BY <2>4, <2>5, <2>6 DEF out
<1> QED
  BY <1>2, <1>3

\* Drawing twice, in the backing store and on the screen, keeps them the same.
LEMMA FillShows ==
  ASSUME NEW scr \in [Client(size) -> Shades], NEW b \in Pictures, NEW due, NEW pixels,
         NEW c, NEW colour \in {0, 1}, Pixels(c) \subseteq Desktop, Shows(scr, b, due)
  PROVE  /\ MiFill(scr, pixels, c, colour) \in [Client(size) -> Shades]
         /\ Shows(MiFill(scr, pixels, c, colour),
                  Painted(b, pixels \cap Pixels(c), 12, One(colour)), due)
<1> DEFINE on == pixels \cap Pixels(c)
           out == MiFill(scr, pixels, c, colour)
           b2 == Painted(b, on, 12, One(colour))
<1>1. out = [p \in Client(size) |-> IF Shown(p) \in on THEN colour ELSE scr[p]]
  BY DEF MiFill, Put
<1>2. \A p \in Desktop : b2[p] = IF p \in on THEN colour ELSE b[p]
  BY RopCopies DEF Painted, One, Pictures
<1>3. on \subseteq Desktop
  OBVIOUS
<1> HIDE DEF on, out, b2
<1>4. out \in [Client(size) -> Shades]
  BY <1>1 DEF Shades
<1>5. Shows(out, b2, due)
  BY <1>1, <1>2, <1>3 DEF Shows
<1> QED
  BY <1>4, <1>5 DEF on, out, b2

\* A nonempty set of numbers has a least and, below a bound, a greatest one.
LEMMA Extremes ==
  ASSUME NEW T, NEW N \in Nat, T \subseteq 0 .. N, T # {}
  PROVE  /\ \E n \in T : \A m \in T : n <= m
         /\ \E n \in T : \A m \in T : m <= n
<1> DEFINE Above == {n \in 0 .. N : \A m \in T : n <= m}
           Below == {n \in 0 .. N : \A m \in T : m <= N - n}
<1>1. \E n \in T : \A m \in T : n <= m
  <2>1. SUFFICES ASSUME \A n \in T : \E m \in T : ~(n <= m) PROVE FALSE
    OBVIOUS
  <2>2. 0 \in Above
    OBVIOUS
  <2>3. ASSUME NEW n \in 1 .. N, n - 1 \in Above PROVE n \in Above
    <3>1. \A m \in T : n - 1 <= m /\ m \in Int
      BY <2>3
    <3>2. n - 1 \notin T
      BY <2>1, <3>1
    <3>3. \A m \in T : n <= m
      BY <3>1, <3>2
    <3> QED
      BY <3>3
  <2>4. \A n \in 1 .. N : n - 1 \in Above => n \in Above
    BY <2>3
  <2>5. \A n \in 0 .. N : n \in Above
    <3> HIDE DEF Above
    <3> QED
      BY <2>2, <2>4, Induction
  <2>6. \A m \in T : m = N
    BY <2>5
  <2>7. PICK n \in T : TRUE
    OBVIOUS
  <2>8. PICK m \in T : ~(n <= m)
    BY <2>1
  <2> QED
    BY <2>6, <2>7, <2>8
<1>2. \E n \in T : \A m \in T : m <= n
  <2>1. SUFFICES ASSUME \A n \in T : \E m \in T : ~(m <= n) PROVE FALSE
    OBVIOUS
  <2>2. 0 \in Below
    OBVIOUS
  <2>3. ASSUME NEW n \in 1 .. N, n - 1 \in Below PROVE n \in Below
    <3>1. \A m \in T : m <= N - (n - 1) /\ m \in Int
      BY <2>3
    <3>2. N - (n - 1) \notin T
      BY <2>1, <3>1
    <3>3. \A m \in T : m <= N - n
      BY <3>1, <3>2
    <3> QED
      BY <3>3
  <2>4. \A n \in 1 .. N : n - 1 \in Below => n \in Below
    BY <2>3
  <2>5. \A n \in 0 .. N : n \in Below
    <3> HIDE DEF Below
    <3> QED
      BY <2>2, <2>4, Induction
  <2>6. \A m \in T : m = 0
    BY <2>5
  <2>7. PICK n \in T : TRUE
    OBVIOUS
  <2>8. PICK m \in T : ~(m <= n)
    BY <2>1
  <2> QED
    BY <2>6, <2>7, <2>8
<1> QED
  BY <1>1, <1>2

\* The update rectangle holds the update region.
LEMMA AroundHolds ==
  ASSUME NEW s \in Sizes, NEW region, region \subseteq Client(s), region # {}
  PROVE  Around(region) \in Boxes /\ region \subseteq Pixels(Around(region))
<1> DEFINE Across(i) == {p[i] : p \in region}
           least(i) == CHOOSE n \in Across(i) : \A p \in region : n <= p[i]
           most(i) == CHOOSE n \in Across(i) : \A p \in region : p[i] <= n
<1>1. s[1] \in Nat \ {0} /\ s[2] \in Nat \ {0}
  BY DisplayAssumption DEF DisplayAssumption
<1>2. ASSUME NEW i \in {1, 2}
      PROVE  /\ least(i) \in Nat /\ \A p \in region : least(i) <= p[i]
             /\ most(i) \in Nat /\ \A p \in region : p[i] <= most(i)
  <2>1. Across(i) \subseteq 0 .. s[i] - 1 /\ Across(i) # {} /\ s[i] - 1 \in Nat
    BY <1>1 DEF Client
  <2>2. /\ \E n \in Across(i) : \A m \in Across(i) : n <= m
        /\ \E n \in Across(i) : \A m \in Across(i) : m <= n
    <3> HIDE DEF Across
    <3> QED
      BY <2>1, Extremes
  <2>3. /\ \E n \in Across(i) : \A p \in region : n <= p[i]
        /\ \E n \in Across(i) : \A p \in region : p[i] <= n
    BY <2>2
  <2> HIDE DEF Across
  <2>4. /\ least(i) \in Across(i) /\ \A p \in region : least(i) <= p[i]
        /\ most(i) \in Across(i) /\ \A p \in region : p[i] <= most(i)
    BY <2>3
  <2>5. Across(i) \subseteq Nat
    BY <2>1
  <2> QED
    BY <2>4, <2>5
<1>3. Around(region) = Rect(least(1), least(2), most(1) + 1 - least(1), most(2) + 1 - least(2))
  BY DEF Around
<1> HIDE DEF least, most
<1>4. \A p \in region : p = <<p[1], p[2]>> /\ p[1] \in Int /\ p[2] \in Int
  BY DEF Client
<1>5. least(1) <= most(1) /\ least(2) <= most(2)
  <2>1. PICK p \in region : TRUE
    OBVIOUS
  <2> QED
    BY <1>2, <1>4, <2>1
<1>6. /\ least(1) \in Nat /\ least(2) \in Nat /\ most(1) \in Nat /\ most(2) \in Nat
      /\ \A p \in region : /\ least(1) <= p[1] /\ p[1] <= most(1)
                           /\ least(2) <= p[2] /\ p[2] <= most(2)
  BY <1>2
<1> QED
  BY <1>3, <1>4, <1>5, <1>6 DEF Boxes, Pixels, Rect

-----------------------------------------------------------------------------
(* The picture *)

\* Outside the drawing calls nothing is clipped.
Unclipped == clip = Full
PInv == IInv /\ TypeOK /\ Unclipped /\ DrawsAsMeant /\ ScreenCurrent

\* The initial state satisfies the invariant.
LEMMA InitPicture == Init => PInv
<1> SUFFICES ASSUME Init PROVE PInv
  OBVIOUS
<1>1. IInv
  BY InitInv
<1>2. TypeOK
  <2>1. Width \in Nat /\ Height \in Nat /\ size \in Sizes /\ size[1] \in Nat /\ size[2] \in Nat
    BY DisplayAssumption DEF Init, DisplayAssumption
  <2>2. range \in Nat \X Nat /\ scroll \in Nat \X Nat
    BY <2>1 DEF Init, Greater
  <2> QED
    BY <2>1, <2>2, DisplayAssumption DEF Init, TypeOK, DisplayAssumption, Black
<1>3. Unclipped /\ DrawsAsMeant /\ ScreenCurrent
  BY DEF Init, Unclipped, DrawsAsMeant, ScreenCurrent
<1> QED
  BY <1>1, <1>2, <1>3 DEF PInv

\* The bounds of an order are on the desktop and become the clip.
LEMMA BoundsClip ==
  ASSUME Unclipped, NEW bounds \in Bounds
  PROVE  /\ bounds \in Boxes /\ Pixels(bounds) \subseteq Desktop
         /\ SetClip(bounds) = bounds /\ ResetClip(bounds) = Full
  BY DisplayAssumption DEF DisplayAssumption, Unclipped, SetClip, ResetClip

\* So are the boxes.
LEMMA RectsBoxes ==
  ASSUME NEW r \in Rects
  PROVE  r \in Boxes /\ Pixels(r) \subseteq Desktop
  BY DisplayAssumption DEF DisplayAssumption

\* What the server means, and the backing store, paint the same.
LEMMA MeansPaints ==
  ASSUME NEW pixels, NEW bounds, NEW opcode, NEW colours, Means(pixels, bounds, opcode, colours)
  PROVE  meant' = Painted(meant, pixels \cap Pixels(bounds), opcode, colours)
  BY DEF Means, Painted

\* A drawing call that does both, and keeps the screen up to date, keeps the
\* invariant.
LEMMA DrawingStep ==
  ASSUME PInv, NEW bounds, Drawing(bounds),
         NEW pixels, NEW opcode \in 0 .. 15, NEW colours,
         \A p \in pixels \cap Desktop : colours[p] \in {0, 1},
         bs' = Painted(bs, pixels \cap Pixels(bounds), opcode, colours),
         Means(pixels, bounds, opcode, colours),
         screen' \in [Client(size) -> Shades], invalid' \subseteq Client(size),
         Shows(screen', bs', invalid')
  PROVE  PInv'
<1>1. IInv'
  BY StillStep DEF Drawing, PInv
<1>2. Unclipped'
  BY BoundsClip DEF Drawing, PInv, Unclipped
<1>3. bs' \in Pictures
  <2>1. bs \in Pictures /\ \A p \in (pixels \cap Pixels(bounds)) \cap Desktop : colours[p] \in {0, 1}
    BY DEF PInv, TypeOK, Pictures
  <2> QED
    BY <2>1, PaintedType
<1>4. bs' = meant'
  BY MeansPaints DEF PInv, DrawsAsMeant
<1>5. Full \in Bounds /\ orders' \in 0 .. MaxOrders
  BY DisplayAssumption DEF Drawing, PInv, TypeOK, DisplayAssumption
<1>6. TypeOK'
  BY <1>2, <1>3, <1>4, <1>5 DEF PInv, TypeOK, Drawing, Unclipped, Pictures, Shades
<1>7. ScreenCurrent'
  BY DEF Drawing, ScreenCurrent, Shows, Shown
<1> QED
  BY <1>1, <1>2, <1>4, <1>6, <1>7 DEF PInv, DrawsAsMeant

\* What the invariant gives a drawing call.
LEMMA PInvFacts ==
  ASSUME PInv
  PROVE  /\ bs \in Pictures /\ meant = bs /\ screen \in [Client(size) -> Shades]
         /\ invalid \subseteq Client(size) /\ Shows(screen, bs, invalid) /\ Unclipped
  BY DEF PInv, TypeOK, DrawsAsMeant, ScreenCurrent, Shows, Pictures, Shades

\* Painting from the backing store after a change within r and the bounds.
LEMMA InvalidateStep ==
  ASSUME PInv, NEW bounds \in Bounds, NEW r \in Boxes, NEW b2 \in Pictures,
         NEW pixels, NEW opcode \in 0 .. 15, NEW colours,
         pixels \subseteq Pixels(r),
         b2 = Painted(bs, pixels \cap Pixels(bounds), opcode, colours)
  PROVE  /\ UiInvalidate(screen, b2, r, bounds) \in [Client(size) -> Shades]
         /\ Shows(UiInvalidate(screen, b2, r, bounds), b2, invalid)
<1>1. /\ bounds \in Boxes /\ Pixels(bounds) \subseteq Desktop
  BY PInvFacts, BoundsClip
<1>2. \A p \in Desktop \ (Pixels(r) \cap Pixels(bounds)) : b2[p] = bs[p]
  BY DEF Painted
<1> QED
  BY <1>1, <1>2, PInvFacts, InvalidateShows

\* ui_rect draws twice.
LEMMA RectStep ==
  ASSUME PInv, NEW r \in Rects, NEW bounds \in Bounds, NEW colour \in {0, 1}, UiRect(r, bounds, colour)
  PROVE  PInv'
<1>1. /\ bounds \in Boxes /\ Pixels(bounds) \subseteq Desktop /\ SetClip(bounds) = bounds
      /\ r \in Boxes /\ bs \in Pictures
  BY PInvFacts, BoundsClip, RectsBoxes
<1>2. /\ Drawing(bounds) /\ invalid' = invalid
      /\ bs' = BsRect(bs, r, bounds, colour, 12)
      /\ screen' = MiFill(screen, Pixels(r), bounds, colour)
      /\ Means(Pixels(r), bounds, 12, One(colour))
  BY <1>1 DEF UiRect, One
<1>3. bs' = Painted(bs, Pixels(r) \cap Pixels(bounds), 12, One(colour))
  BY <1>1, <1>2, RectPaints
<1>4. screen' \in [Client(size) -> Shades] /\ Shows(screen', bs', invalid')
  <2>1. screen \in [Client(size) -> Shades] /\ Shows(screen, bs, invalid)
    BY PInvFacts
  <2> QED
    <3>1. /\ screen \in [Client(size) -> Shades] /\ bs \in Pictures /\ colour \in {0, 1}
          /\ Pixels(bounds) \subseteq Desktop /\ Shows(screen, bs, invalid)
      BY <1>1, <2>1
    <3>2. /\ MiFill(screen, Pixels(r), bounds, colour) \in [Client(size) -> Shades]
          /\ Shows(MiFill(screen, Pixels(r), bounds, colour),
                   Painted(bs, Pixels(r) \cap Pixels(bounds), 12, One(colour)), invalid)
      BY ONLY <3>1, FillShows, Zenon
    <3> QED
      BY <1>2, <1>3, <3>2
<1>5. \A p \in Pixels(r) \cap Desktop : One(colour)[p] \in {0, 1}
  BY DEF One
<1>6. invalid' \subseteq Client(size) /\ 12 \in 0 .. 15
  BY <1>2, PInvFacts
<1> QED
  BY <1>2, <1>3, <1>4, <1>5, <1>6, DrawingStep

\* ui_destblt and ui_patblt.
LEMMA DestbltStep ==
  ASSUME PInv, NEW r \in Rects, NEW bounds \in Bounds, NEW opcode \in Opcodes, NEW colour \in {0, 1},
         UiDestblt(r, bounds, opcode, colour)
  PROVE  PInv'
<1>1. /\ bounds \in Boxes /\ Pixels(bounds) \subseteq Desktop /\ SetClip(bounds) = bounds
      /\ r \in Boxes /\ bs \in Pictures
  BY PInvFacts, BoundsClip, RectsBoxes
<1>2. /\ Drawing(bounds) /\ invalid' = invalid
      /\ bs' = BsRect(bs, r, bounds, colour, opcode)
      /\ screen' = UiInvalidate(screen, bs', r, bounds)
      /\ Means(Pixels(r), bounds, opcode, One(colour))
  BY <1>1 DEF UiDestblt, One
<1>3. bs' = Painted(bs, Pixels(r) \cap Pixels(bounds), opcode, One(colour))
  BY <1>1, <1>2, RectPaints
<1>4. opcode \in 0 .. 15
  BY DisplayAssumption DEF DisplayAssumption
<1>5. \A p \in Pixels(r) \cap Desktop : One(colour)[p] \in {0, 1}
  BY DEF One
<1>6. bs' \in Pictures
  BY <1>1, <1>3, <1>4, <1>5, PaintedType
<1>7. screen' \in [Client(size) -> Shades] /\ Shows(screen', bs', invalid')
  BY <1>1, <1>2, <1>3, <1>4, <1>6, InvalidateStep
<1>8. invalid' \subseteq Client(size)
  BY <1>2, PInvFacts
<1> QED
  BY <1>2, <1>3, <1>4, <1>5, <1>7, <1>8, DrawingStep

\* ui_memblt.
LEMMA MembltStep ==
  ASSUME PInv, NEW r \in Rects, NEW bounds \in Bounds, NEW m \in Bitmaps, NEW opcode \in Opcodes,
         NEW srcx \in 0 .. m.cx - r.cx, NEW srcy \in 0 .. m.cy - r.cy,
         UiMemblt(r, bounds, m, srcx, srcy, opcode)
  PROVE  PInv'
<1>1. /\ bounds \in Boxes /\ Pixels(bounds) \subseteq Desktop /\ SetClip(bounds) = bounds
      /\ r \in Boxes /\ bs \in Pictures
  BY PInvFacts, BoundsClip, RectsBoxes
<1>2. /\ Drawing(bounds) /\ invalid' = invalid
      /\ bs' = BsMemblt(bs, r, bounds, m, srcx, srcy, opcode)
      /\ screen' = UiInvalidate(screen, bs', r, bounds)
      /\ Means(Pixels(r), bounds, opcode, Source(m, r, srcx, srcy))
  BY <1>1 DEF UiMemblt, Source
<1>3. /\ r.x \in Int /\ r.y \in Int /\ r.cx \in Nat /\ r.cy \in Nat
      /\ m.cx \in Nat /\ m.cy \in Nat /\ m.data \in [(0 .. m.cx - 1) \X (0 .. m.cy - 1) -> {0, 1}]
      /\ opcode \in 0 .. 15
  BY <1>1, DisplayAssumption DEF DisplayAssumption, Boxes
<1>4. bs' = Painted(bs, Pixels(r) \cap Pixels(bounds), opcode, Source(m, r, srcx, srcy))
  BY <1>1, <1>2, <1>3, MembltPaints
<1>5. ASSUME NEW p \in Pixels(r) \cap Desktop PROVE Source(m, r, srcx, srcy)[p] \in {0, 1}
  <2>1. <<p[1] - r.x + srcx, p[2] - r.y + srcy>> \in (0 .. m.cx - 1) \X (0 .. m.cy - 1)
    BY <1>3 DEF Pixels
  <2> QED
    BY <1>3, <2>1 DEF Source
<1>6. bs' \in Pictures
  BY <1>1, <1>3, <1>4, <1>5, PaintedType
<1>7. screen' \in [Client(size) -> Shades] /\ Shows(screen', bs', invalid')
  BY <1>1, <1>2, <1>3, <1>4, <1>6, InvalidateStep
<1>8. invalid' \subseteq Client(size)
  BY <1>2, PInvFacts
<1> QED
  BY <1>2, <1>3, <1>4, <1>5, <1>7, <1>8, DrawingStep

\* ui_screenblt leaves a copy to WM_PAINT.
LEMMA ScreenbltStep ==
  ASSUME PInv, NEW r \in Rects, NEW bounds \in Bounds, NEW opcode \in Opcodes,
         NEW srcx \in 0 .. Width - r.cx, NEW srcy \in 0 .. Height - r.cy,
         UiScreenblt(r, bounds, srcx, srcy, opcode)
  PROVE  PInv'
<1>1. /\ bounds \in Boxes /\ Pixels(bounds) \subseteq Desktop /\ SetClip(bounds) = bounds
      /\ r \in Boxes /\ bs \in Pictures /\ meant = bs
  BY PInvFacts, BoundsClip, RectsBoxes
<1>2. /\ Drawing(bounds) /\ SourceOn(r, srcx, srcy)
      /\ bs' = BsScreenblt(bs, r, bounds, srcx, srcy, opcode)
      /\ IF opcode = 12
         THEN invalid' = invalid \cup MiScreenCopy(r) /\ screen' = screen
         ELSE screen' = UiInvalidate(screen, bs', r, bounds) /\ invalid' = invalid
      /\ Means(Pixels(r), bounds, opcode, Moved(bs, r, srcx, srcy))
  BY <1>1 DEF UiScreenblt, Moved, SourceOn
<1>3. /\ r.x \in Int /\ r.y \in Int /\ r.cx \in Nat /\ r.cy \in Nat
      /\ opcode \in 0 .. 15 /\ srcx \in Int /\ srcy \in Int
  BY <1>1, DisplayAssumption DEF DisplayAssumption, Boxes
<1>4. bs' = Painted(bs, Pixels(r) \cap Pixels(bounds), opcode, Moved(bs, r, srcx, srcy))
  <2>1. BsScreenblt(bs, r, bounds, srcx, srcy, opcode)
          = Painted(bs, Pixels(r) \cap Pixels(bounds), opcode, Moved(bs, r, srcx, srcy))
    <3>1. /\ bs \in Pictures /\ r \in Boxes /\ bounds \in Boxes /\ srcx \in Int /\ srcy \in Int
          /\ opcode \in 0 .. 15 /\ SourceOn(r, srcx, srcy)
      BY <1>1, <1>2, <1>3
    <3> QED
      BY ONLY <3>1, ScreenbltAtOnce, Zenon
  <2> QED
    BY <1>2, <2>1
<1>5. ASSUME NEW p \in Pixels(r) \cap Desktop PROVE Moved(bs, r, srcx, srcy)[p] \in {0, 1}
  <2>1. <<p[1] - r.x + srcx, p[2] - r.y + srcy>> \in Pixels(Rect(srcx, srcy, r.cx, r.cy))
    BY <1>3 DEF Pixels, Rect
  <2> QED
    BY <1>1, <1>2, <2>1 DEF Moved, Pictures, SourceOn
<1>6. bs' \in Pictures
  BY <1>1, <1>3, <1>4, <1>5, PaintedType
<1>7. CASE opcode = 12
  <2>1. MiScreenCopy(r) \subseteq Client(size)
    BY DEF MiScreenCopy
  <2>2. screen' \in [Client(size) -> Shades] /\ invalid' \subseteq Client(size)
    BY <1>2, <1>7, <2>1, PInvFacts
  <2>3. \A p \in Client(size) \ invalid' : Shown(p) \in Desktop => bs'[Shown(p)] = bs[Shown(p)]
    BY <1>2, <1>4, <1>7 DEF MiScreenCopy, Painted
  <2>4. Shows(screen', bs', invalid')
    BY <1>2, <1>7, <2>3, PInvFacts DEF Shows
  <2> QED
    BY <1>2, <1>3, <1>4, <1>5, <2>2, <2>4, DrawingStep
<1>8. CASE opcode # 12
  <2>1. screen' \in [Client(size) -> Shades] /\ Shows(screen', bs', invalid')
    <3>1. screen' = UiInvalidate(screen, bs', r, bounds) /\ invalid' = invalid
      BY <1>2, <1>8
    <3>2. bounds \in Bounds /\ Pixels(r) \subseteq Pixels(r)
      OBVIOUS
    <3> QED
      BY ONLY PInv, <1>1, <1>3, <1>4, <1>6, <3>1, <3>2, InvalidateStep
  <2>2. invalid' \subseteq Client(size)
    BY <1>2, <1>8, PInvFacts
  <2> QED
    BY <1>2, <1>3, <1>4, <1>5, <2>1, <2>2, DrawingStep
<1> QED
  BY <1>7, <1>8

\* ui_line.
LEMMA LineStep ==
  ASSUME PInv, NEW l \in Lines, NEW bounds \in Bounds, NEW thin \in BOOLEAN, NEW opcode \in Opcodes,
         UiLine(l[1], l[2], bounds, thin, opcode, 1)
  PROVE  PInv'
<1> DEFINE pixels == LinePixels(l[1], l[2])
           box == LineBox(l[1], l[2])
<1>1. /\ bounds \in Boxes /\ Pixels(bounds) \subseteq Desktop /\ SetClip(bounds) = bounds
      /\ bs \in Pictures
  BY PInvFacts, BoundsClip DEF UiLine, Drawing
<1>2. l[1] \in Int \X Int /\ l[2] \in Int \X Int /\ opcode \in 0 .. 15
  BY DisplayAssumption DEF DisplayAssumption
<1>3. pixels = IdealLine(l[1], l[2]) /\ pixels \subseteq Pixels(box)
  BY <1>2, LineIdeal
<1>4. box \in Boxes
  BY <1>2 DEF Boxes, LineBox, Rect, Greater, Lesser
<1>5. /\ Drawing(bounds) /\ invalid' = invalid
      /\ bs' = BsLine(bs, l[1], l[2], bounds, 1, opcode)
      /\ screen' = IF thin /\ opcode = 12 THEN MiFill(screen, pixels, bounds, 1)
                   ELSE UiInvalidate(screen, bs', box, bounds)
      /\ Means(pixels, bounds, opcode, One(1))
  BY <1>1, <1>3 DEF UiLine, One, LineBox
<1> HIDE DEF pixels, box
<1>6. bs' = Painted(bs, pixels \cap Pixels(bounds), opcode, One(1))
  BY <1>5, LinePaints DEF pixels
<1>7. \A p \in pixels \cap Desktop : One(1)[p] \in {0, 1}
  BY DEF One
<1>8. bs' \in Pictures
  BY <1>1, <1>2, <1>6, <1>7, PaintedType
<1>9. CASE thin /\ opcode = 12
  <2>1. screen' \in [Client(size) -> Shades] /\ Shows(screen', bs', invalid')
    BY <1>1, <1>5, <1>6, <1>9, PInvFacts, FillShows
  <2>2. invalid' \subseteq Client(size)
    BY <1>5, PInvFacts
  <2> QED
    BY <1>2, <1>5, <1>6, <1>7, <2>1, <2>2, DrawingStep
<1>10. CASE ~(thin /\ opcode = 12)
  <2>1. screen' \in [Client(size) -> Shades] /\ Shows(screen', bs', invalid')
    BY <1>1, <1>2, <1>3, <1>4, <1>5, <1>6, <1>8, <1>10, InvalidateStep DEF Drawing
  <2>2. invalid' \subseteq Client(size)
    BY <1>5, PInvFacts
  <2> QED
    BY <1>2, <1>5, <1>6, <1>7, <2>1, <2>2, DrawingStep
<1> QED
  BY <1>9, <1>10

\* ui_draw_text.
LEMMA TextStep ==
  ASSUME PInv, NEW r \in Rects, NEW bounds \in Bounds, NEW lit, NEW colour \in {0, 1},
         UiText(r, bounds, lit, colour)
  PROVE  PInv'
<1>1. /\ bounds \in Boxes /\ Pixels(bounds) \subseteq Desktop /\ SetClip(bounds) = bounds
      /\ r \in Boxes /\ bs \in Pictures
  BY PInvFacts, BoundsClip, RectsBoxes
<1>2. /\ Drawing(bounds) /\ invalid' = invalid /\ lit \subseteq Pixels(r)
      /\ bs' = BsGlyph(BsRect(bs, r, bounds, 1 - colour, 12), lit, bounds, colour)
      /\ screen' = UiInvalidate(screen, bs', r, bounds)
      /\ Means(Pixels(r), bounds, 12, Lit(lit, colour))
  BY <1>1 DEF UiText, Lit
<1>3. bs' = Painted(bs, Pixels(r) \cap Pixels(bounds), 12, Lit(lit, colour))
  <2>1. lit \in SUBSET Pixels(r)
    BY <1>2
  <2> QED
    BY <1>1, <1>2, <2>1, TextPaints
<1>4. 12 \in 0 .. 15
  OBVIOUS
<1>5. \A p \in Pixels(r) \cap Desktop : Lit(lit, colour)[p] \in {0, 1}
  BY DEF Lit
<1>6. bs' \in Pictures
  BY <1>1, <1>3, <1>4, <1>5, PaintedType
<1>7. screen' \in [Client(size) -> Shades] /\ Shows(screen', bs', invalid')
  BY <1>1, <1>2, <1>3, <1>4, <1>6, InvalidateStep
<1>8. invalid' \subseteq Client(size)
  BY <1>2, PInvFacts
<1> QED
  BY <1>2, <1>3, <1>4, <1>5, <1>7, <1>8, DrawingStep

\* Where the window shows no desktop it is outside the desktop unscrolled.
LEMMA OutsideUnscrolled ==
  ASSUME IInv, NEW p \in Client(size)
  PROVE  Shown(p) \notin Desktop <=> p[1] >= Width \/ p[2] >= Height
<1>1. /\ size[1] \in Nat \ {0} /\ size[2] \in Nat \ {0} /\ Width \in Nat \ {0} /\ Height \in Nat \ {0}
      /\ scroll[1] \in 0 .. Greater(Width - size[1], 0) /\ scroll[2] \in 0 .. Greater(Height - size[2], 0)
      /\ scroll[1] \in Nat /\ scroll[2] \in Nat
  BY DisplayAssumption DEF DisplayAssumption, IInv, Integral, ScrollInRange
<1>2. p[1] \in 0 .. size[1] - 1 /\ p[2] \in 0 .. size[2] - 1
  BY DEF Client
<1>3. Shown(p) \in Desktop <=> p[1] + scroll[1] < Width /\ p[2] + scroll[2] < Height
  BY <1>1, <1>2 DEF Shown, Desktop, Pixels, Full, Rect
<1>4. /\ p[1] + scroll[1] < Width <=> p[1] < Width
      /\ p[2] + scroll[2] < Height <=> p[2] < Height
  BY <1>1, <1>2 DEF Greater
<1> QED
  BY <1>1, <1>2, <1>3, <1>4

\* WM_PAINT restores the update region.
LEMMA PaintStep ==
  ASSUME PInv, WmPaint
  PROVE  PInv'
<1> DEFINE r == Around(invalid)
           blue == [p \in Client(size) |->
                      IF p \notin invalid THEN screen[p]
                      ELSE IF p[1] >= Width \/ p[2] >= Height THEN Blue ELSE Other]
           box == Rect(r.x + scroll[1], r.y + scroll[2], r.cx + 1, r.cy + 1)
           stale == {p \in invalid : Shown(p) \in Desktop}
<1>1. /\ screen' = UiInvalidate(blue, bs, box, clip) /\ invalid' = {} /\ invalid # {}
      /\ UNCHANGED <<bs, clip, size, scroll, range, meant, orders, events>>
  BY DEF WmPaint
<1>2. IInv /\ IInv' /\ TypeOK
  BY StillStep, <1>1 DEF PInv
<1>3. scroll[1] \in Nat /\ scroll[2] \in Nat /\ size \in Sizes
  BY <1>2 DEF TypeOK
<1>4. r \in Boxes /\ invalid \subseteq Pixels(r)
  BY <1>1, <1>3, PInvFacts, AroundHolds
<1> HIDE DEF r
<1>5. box \in Boxes /\ \A p \in invalid : Shown(p) \in Pixels(box)
  BY <1>3, <1>4 DEF Boxes, Rect, Pixels, Shown
<1>6. blue \in [Client(size) -> Shades]
  <2>1. screen \in [Client(size) -> Shades]
    BY PInvFacts
  <2> QED
    BY <2>1 DEF Shades
<1>7. Shows(blue, bs, stale)
  <2>1. \A p \in Client(size) \ invalid : blue[p] = IF Shown(p) \in Desktop THEN bs[Shown(p)] ELSE Blue
    BY PInvFacts DEF Shows
  <2>2. \A p \in Client(size) : p \in invalid /\ p \notin stale => blue[p] = Blue /\ Shown(p) \notin Desktop
    BY <1>2, OutsideUnscrolled
  <2> HIDE DEF blue, stale
  <2> QED
    BY <2>1, <2>2 DEF Shows
<1> HIDE DEF blue, box
<1>8. clip = Full /\ Full \in Boxes /\ Pixels(Full) \subseteq Desktop /\ bs \in Pictures
  BY PInvFacts, DisplayAssumption DEF Unclipped, DisplayAssumption, Desktop
<1>9. /\ screen' \in [Client(size) -> Shades]
      /\ Shows(screen', bs, stale)
      /\ \A p \in Client(size) : Shown(p) \in Pixels(box) \cap Pixels(Full) => screen'[p] = bs[Shown(p)]
  <2> HIDE DEF stale
  <2> QED
    BY <1>1, <1>5, <1>6, <1>7, <1>8, InvalidateShows
<1>10. Shows(screen', bs, {})
  BY <1>5, <1>9, PInvFacts DEF Shows, Desktop
<1>11. TypeOK'
  BY <1>1, <1>2, <1>9 DEF TypeOK, Shades
<1>12. ScreenCurrent' /\ Unclipped' /\ DrawsAsMeant'
  BY <1>1, <1>8, <1>10, PInvFacts DEF ScreenCurrent, Shows, Shown, Unclipped, DrawsAsMeant
<1> QED
  BY <1>2, <1>11, <1>12 DEF PInv

\* Scrolling moves what is shown, and what is due, with the window.
LEMMA ScrollStep ==
  ASSUME PInv, IInv', NEW dx, NEW dy, MiScroll(dx, dy),
         scroll' \in Int \X Int, dx = scroll[1] - scroll'[1], dy = scroll[2] - scroll'[2],
         UNCHANGED <<bs, clip, meant, orders, size, range>>, events' \in 0 .. MaxEvents
  PROVE  PInv'
<1> DEFINE From(p) == <<p[1] - dx, p[2] - dy>>
           Moves(p) == From(p) \in Client(size)
<1>1. /\ screen' = [p \in Client(size) |-> IF Moves(p) THEN screen[From(p)] ELSE screen[p]]
      /\ invalid' = {p \in Client(size) : ~Moves(p) \/ From(p) \in invalid}
  BY DEF MiScroll
<1>2. \A p \in Client(size) : <<From(p)[1] + scroll[1], From(p)[2] + scroll[2]>>
                                = <<p[1] + scroll'[1], p[2] + scroll'[2]>>
  <2>1. scroll \in Int \X Int /\ \A p \in Client(size) : p[1] \in Int /\ p[2] \in Int
    BY DEF PInv, TypeOK, Client
  <2> QED
    BY <2>1
<1> HIDE DEF From, Moves
<1>3. screen' \in [Client(size) -> Shades] /\ invalid' \subseteq Client(size)
  BY <1>1, PInvFacts DEF Moves
<1>4. ScreenCurrent'
  <2> SUFFICES ASSUME NEW p \in Client(size) \ invalid'
               PROVE  screen'[p] = IF <<p[1] + scroll'[1], p[2] + scroll'[2]>> \in Desktop
                                   THEN bs[<<p[1] + scroll'[1], p[2] + scroll'[2]>>] ELSE Blue
    BY DEF ScreenCurrent, Shown
  <2>1. From(p) \in Client(size) \ invalid /\ screen'[p] = screen[From(p)]
    BY <1>1 DEF Moves
  <2>2. screen[From(p)] = IF Shown(From(p)) \in Desktop THEN bs[Shown(From(p))] ELSE Blue
    BY <2>1, PInvFacts DEF Shows
  <2>3. Shown(From(p)) = <<p[1] + scroll'[1], p[2] + scroll'[2]>>
    BY <1>2 DEF Shown
  <2> QED
    BY <2>1, <2>2, <2>3
<1>5. scroll' \in Nat \X Nat
  BY DEF IInv, Integral, ScrollInRange
<1>6. TypeOK'
  BY <1>3, <1>5 DEF PInv, TypeOK, Shades
<1> QED
  BY <1>4, <1>6 DEF PInv, Unclipped, DrawsAsMeant

\* The scroll bars.
LEMMA HScrollShows ==
  ASSUME PInv, NEW code \in Codes, NEW thumb \in 0 .. range[1], WmHScroll(code, thumb)
  PROVE  PInv'
<1>1. IInv /\ IInv' /\ scroll \in Int \X Int /\ scroll' \in Int \X Int
  BY HScrollStep DEF PInv, IInv, Integral
<1>2. /\ UNCHANGED <<bs, clip, meant, orders, size, range>> /\ events' \in 0 .. MaxEvents
      /\ MiScroll(scroll[1] - scroll'[1], 0) /\ scroll'[2] = scroll[2]
  BY <1>1, DisplayAssumption DEF WmHScroll, Event, PInv, TypeOK, DisplayAssumption
<1>3. MiScroll(scroll[1] - scroll'[1], scroll[2] - scroll'[2])
  BY <1>1, <1>2
<1> QED
  BY <1>1, <1>2, <1>3, ScrollStep

\* The vertical one.
LEMMA VScrollShows ==
  ASSUME PInv, NEW code \in Codes, NEW thumb \in 0 .. range[2], WmVScroll(code, thumb)
  PROVE  PInv'
<1>1. IInv /\ IInv' /\ scroll \in Int \X Int /\ scroll' \in Int \X Int
  BY VScrollStep DEF PInv, IInv, Integral
<1>2. /\ UNCHANGED <<bs, clip, meant, orders, size, range>> /\ events' \in 0 .. MaxEvents
      /\ MiScroll(0, scroll[2] - scroll'[2]) /\ scroll'[1] = scroll[1]
  BY <1>1, DisplayAssumption DEF WmVScroll, Event, PInv, TypeOK, DisplayAssumption
<1>3. MiScroll(scroll[1] - scroll'[1], scroll[2] - scroll'[2])
  BY <1>1, <1>2
<1> QED
  BY <1>1, <1>2, <1>3, ScrollStep

\* A new size leaves everything to WM_PAINT.
LEMMA SizeShows ==
  ASSUME PInv, NEW s \in Sizes, WmSize(s)
  PROVE  PInv'
<1>1. IInv'
  BY SizeStep DEF PInv
<1>2. /\ UNCHANGED <<bs, clip, meant, orders>> /\ events' \in 0 .. MaxEvents
      /\ size' = s /\ screen' = [p \in Client(s) |-> Other] /\ invalid' = Client(s)
  BY DisplayAssumption DEF WmSize, Event, PInv, TypeOK, DisplayAssumption
<1>3. scroll' \in Nat \X Nat /\ range' \in Nat \X Nat
  <2>1. s[1] \in Nat /\ s[2] \in Nat /\ Width \in Nat /\ Height \in Nat
    BY DisplayAssumption DEF DisplayAssumption
  <2> QED
    BY <1>1, <1>2, <2>1 DEF IInv, Integral, ScrollInRange, RangeOfSize, Greater
<1>4. TypeOK'
  BY <1>2, <1>3 DEF PInv, TypeOK
<1>5. ScreenCurrent' /\ Unclipped' /\ DrawsAsMeant'
  BY <1>2 DEF PInv, ScreenCurrent, Unclipped, DrawsAsMeant
<1> QED
  BY <1>1, <1>4, <1>5 DEF PInv

\* A window that has gone.
LEMMA UncoveredShows ==
  ASSUME PInv, NEW r \in Rects, Uncovered(r)
  PROVE  PInv'
<1>1. /\ UNCHANGED <<bs, clip, meant, orders, size, scroll, range>> /\ events' \in 0 .. MaxEvents
      /\ screen' = [p \in Client(size) |-> IF p \in Pixels(r) THEN Other ELSE screen[p]]
      /\ invalid' = invalid \cup (Pixels(r) \cap Client(size))
  BY DisplayAssumption DEF Uncovered, Event, PInv, TypeOK, DisplayAssumption
<1>2. IInv'
  BY <1>1, StillStep DEF PInv
<1>3. screen' \in [Client(size) -> Shades] /\ invalid' \subseteq Client(size)
  BY <1>1, PInvFacts DEF Shades
<1>4. TypeOK'
  BY <1>1, <1>3 DEF PInv, TypeOK, Shades
<1>5. ScreenCurrent'
  BY <1>1, PInvFacts DEF ScreenCurrent, Shows, Shown
<1> QED
  BY <1>1, <1>2, <1>4, <1>5 DEF PInv, Unclipped, DrawsAsMeant

\* Every step keeps the picture.
LEMMA NextPicture == PInv /\ [Next]_vars => PInv'
<1> SUFFICES ASSUME PInv, [Next]_vars PROVE PInv'
  OBVIOUS
<1>1. CASE UNCHANGED vars
  <2>1. IInv'
    BY <1>1, StillStep DEF PInv, vars
  <2> QED
    BY <1>1, <2>1 DEF PInv, vars, TypeOK, Unclipped, DrawsAsMeant, ScreenCurrent, Shown
<1>2. ASSUME NEW r \in Rects, NEW b \in Bounds, NEW colour \in {0, 1}, UiRect(r, b, colour) PROVE PInv'
  BY <1>2, RectStep
<1>3. ASSUME NEW r \in Rects, NEW b \in Bounds, NEW colour \in {0, 1}, NEW o \in Opcodes,
             UiDestblt(r, b, o, colour)
      PROVE  PInv'
  BY <1>3, DestbltStep
<1>4. ASSUME NEW r \in Rects, NEW b \in Bounds, NEW m \in Bitmaps, NEW o \in Opcodes,
             NEW srcx \in 0 .. m.cx - r.cx, NEW srcy \in 0 .. m.cy - r.cy,
             UiMemblt(r, b, m, srcx, srcy, o)
      PROVE  PInv'
  BY <1>4, MembltStep
<1>5. ASSUME NEW r \in Rects, NEW b \in Bounds, NEW o \in Opcodes,
             NEW srcx \in 0 .. Width - r.cx, NEW srcy \in 0 .. Height - r.cy,
             UiScreenblt(r, b, srcx, srcy, o)
      PROVE  PInv'
  BY <1>5, ScreenbltStep
<1>6. ASSUME NEW l \in Lines, NEW b \in Bounds, NEW thin \in BOOLEAN, NEW o \in Opcodes,
             UiLine(l[1], l[2], b, thin, o, 1)
      PROVE  PInv'
  BY <1>6, LineStep
<1>7. ASSUME NEW r \in Rects, NEW b \in Bounds, NEW lit, NEW colour \in {0, 1}, UiText(r, b, lit, colour)
      PROVE  PInv'
  BY <1>7, TextStep
<1>8. ASSUME NEW code \in Codes, NEW thumb \in 0 .. range[1], WmHScroll(code, thumb) PROVE PInv'
  BY <1>8, HScrollShows
<1>9. ASSUME NEW code \in Codes, NEW thumb \in 0 .. range[2], WmVScroll(code, thumb) PROVE PInv'
  BY <1>9, VScrollShows
<1>10. CASE WmPaint
  BY <1>10, PaintStep
<1>11. ASSUME NEW s \in Sizes, WmSize(s) PROVE PInv'
  BY <1>11, SizeShows
<1>12. ASSUME NEW r \in Rects, Uncovered(r) PROVE PInv'
  BY <1>12, UncoveredShows
<1>13. CASE Next
  BY <1>2, <1>3, <1>4, <1>5, <1>6, <1>7, <1>8, <1>9, <1>10, <1>11, <1>12, <1>13 DEF Next
<1> QED
  BY <1>1, <1>13

\* The invariant holds of every behaviour of the drawing calls and the window.
THEOREM Inductive == Spec => []PInv
  BY InitPicture, NextPicture, PTL DEF Spec

\* Every variable keeps its type: pixels are bits, the update region is within
\* the client area (bsops.c, win32.c).
THEOREM TypeCorrect == Spec => []TypeOK
<1>1. PInv => TypeOK
  BY DEF PInv
<1> QED
  BY <1>1, Inductive, PTL

\* bsops.c draws what the server means, for boxes, overlapping copies, lines and
\* bitmaps of any size, clipped anywhere and with any raster operation.
THEOREM BackingStoreAsMeant == Spec => []DrawsAsMeant
<1>1. PInv => DrawsAsMeant
  BY DEF PInv
<1> QED
  BY <1>1, Inductive, PTL

\* The screen shows the backing store wherever no repaint is due, whatever is
\* drawn, scrolled, resized and uncovered (uimain.c, win32.c).
THEOREM ScreenStaysCurrent == Spec => []ScreenCurrent
<1>1. PInv => ScreenCurrent
  BY DEF PInv
<1> QED
  BY <1>1, Inductive, PTL
=============================================================================
