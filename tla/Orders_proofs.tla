--------------------------- MODULE Orders_proofs ---------------------------
(***************************************************************************)
(* For every selection of order types and fields, every cache, every       *)
(* width of coordinates and differences and every bound: an order is       *)
(* decoded to what it was encoded from, so that the order states at both   *)
(* ends agree and the client draws what the server means.  The argument:   *)
(* the orders on their way form a chain.  The first was encoded against a  *)
(* state that agrees with the client's, every other against what the one   *)
(* before it leads to, and the last leads to the server's state.  Decoding *)
(* the first moves the client along the chain by one.                      *)
(***************************************************************************)
EXTENDS Orders, SequenceTheorems, TLAPS

-----------------------------------------------------------------------------
(* What the encoding loses and the decoding finds again.                   *)

\* A coordinate is a number of an even number of values around zero.
LEMMA Halves ==
  /\ Modulus \in Nat /\ Modulus \div 2 \in Nat /\ Modulus \div 2 > 0
  /\ Modulus = 2 * (Modulus \div 2)
<1> DEFINE M == Modulus
<1>1. M \in Nat /\ M > 0 /\ M % 2 = 0
  BY OrdersAssumption
<1> HIDE DEF M
<1>2. M \div 2 \in Nat /\ M = 2 * (M \div 2)
  BY <1>1
<1> QED BY <1>1, <1>2 DEF M

\* Coordinates are integers, and a zeroed one is among them.
LEMMA CoordInt == Coord \subseteq Int /\ 0 \in Coord
<1> DEFINE H == Modulus \div 2
<1>1. H \in Nat /\ H > 0 /\ Coord = -H .. (H - 1)
  BY Halves DEF Coord
<1> HIDE DEF H
<1> QED BY <1>1

\* rdp_in_coord adds in 16 bits: what is in range stays as it is.
LEMMA WrapInCoord == ASSUME NEW x \in Coord PROVE Wrap(x) = x
<1> DEFINE M == Modulus
           H == Modulus \div 2
<1>1. M \in Nat /\ M > 0 /\ H \in Nat /\ M = 2 * H
  BY Halves
<1>2. Wrap(x) = ((x + H) % M) - H /\ Coord = -H .. (H - 1)
  BY DEF Wrap, Coord
<1> HIDE DEF M, H
<1>3. x \in Int /\ 0 <= x + H /\ x + H < M
  BY <1>1, <1>2
<1>4. (x + H) % M = x + H
  BY <1>1, <1>3
<1> QED BY <1>2, <1>3, <1>4, <1>1

\* The fields an order carries, as values or as differences, added to those of
\* the last order give the fields it was encoded from.
LEMMA ParseEncoded ==
  ASSUME NEW D, NEW V, NEW old \in [D -> V], NEW new \in [D -> V], NEW coords,
         NEW delta \in BOOLEAN,
         \A x \in D \cap coords : old[x] \in Coord /\ new[x] \in Coord
  PROVE  Parse(old, Encoded(old, new, IF delta THEN coords ELSE {}), coords, delta) = new
<1> DEFINE values == Encoded(old, new, IF delta THEN coords ELSE {})
           P == Parse(old, values, coords, delta)
<1>1. DOMAIN values = {x \in D : old[x] # new[x]}
  BY DEF Encoded, Changed
<1>2. \A x \in D : P[x] = new[x]
  <2> SUFFICES ASSUME NEW x \in D PROVE P[x] = new[x]
    OBVIOUS
  <2>1. CASE old[x] = new[x]
    BY <1>1, <2>1 DEF Parse
  <2>2. CASE old[x] # new[x] /\ x \in coords
    <3>1. CASE delta
      <4>1. values[x] = new[x] - old[x]
        BY <1>1, <2>2, <3>1 DEF Encoded, Changed
      <4>2. old[x] \in Int /\ new[x] \in Int /\ new[x] \in Coord
        BY <2>2, CoordInt
      <4>3. old[x] + (new[x] - old[x]) = new[x]
        BY <4>2
      <4>4. P[x] = Wrap(old[x] + values[x])
        BY <1>1, <2>2, <3>1 DEF Parse, InCoord
      <4> QED BY <4>1, <4>2, <4>3, <4>4, WrapInCoord
    <3>2. CASE ~delta
      <4>1. values[x] = new[x]
        BY <1>1, <2>2, <3>2 DEF Encoded, Changed
      <4> QED BY <1>1, <2>2, <3>2, <4>1 DEF Parse, InCoord
    <3> QED BY <3>1, <3>2
  <2>3. CASE old[x] # new[x] /\ x \notin coords
    <3>1. values[x] = new[x]
      BY <1>1, <2>3 DEF Encoded, Changed
    <3> QED BY <1>1, <2>3, <3>1 DEF Parse
  <2> QED BY <2>1, <2>2, <2>3
<1>3. P = [x \in D |-> P[x]]
  BY DEF Parse
<1> QED BY <1>2, <1>3

\* process_orders reads as many flag bytes as the protocol has for each of the
\* fourteen types, enough for a bit of every field.
LEMMA SizeIsServerBytes ==
  \A t \in OrderTypes : /\ Size(t) = ServerBytes(t) /\ ServerBytes(t) \in 1 .. 3
                        /\ NumFields[t] \in Nat /\ NumFields[t] <= 8 * ServerBytes(t)
BY DEF OrderTypes, Layout, Size, ServerBytes, NumFields

\* rdp_in_present takes away as many flag bytes as the server left out.
LEMMA FlagsUnderstood ==
  ASSUME NEW t \in OrderTypes, NEW z \in 0 .. ServerBytes(t)
  PROVE  PresentBytes(Size(t), z) = ServerBytes(t) - z
<1>1. Size(t) = ServerBytes(t) /\ ServerBytes(t) \in 1 .. 3
  BY SizeIsServerBytes
<1>2. z = 0 \/ z = 1 \/ z = 2 \/ z = 3
  BY <1>1
<1> QED BY <1>1, <1>2 DEF PresentBytes

\* Some number of zero bytes, counted from the end, is that of every set of
\* fields, so that the server can always say which are present.
LEMMA ZeroBytesCounted ==
  ASSUME NEW t \in OrderTypes, NEW present, present \subseteq 0 .. NumFields[t] - 1
  PROVE  ZeroBytes(t, present) \in 0 .. ServerBytes(t)
<1> DEFINE n == ServerBytes(t)
           Counts(z) == /\ \A b \in present : b < 8 * (n - z)
                        /\ z < n => \E b \in present : b >= 8 * (n - z - 1)
<1>1. n \in 1 .. 3 /\ NumFields[t] \in Nat /\ NumFields[t] <= 8 * n
  BY SizeIsServerBytes
<1>2. \A b \in present : b \in Nat /\ b < 8 * n
  BY <1>1
<1>3. \E z \in 0 .. n : Counts(z)
  <2>1. CASE present = {}
    <3>1. n \in 0 .. n /\ Counts(n)
      BY <1>1, <2>1
    <3> QED BY <3>1
  <2>2. CASE \E b \in present : b >= 8 * (n - 1)
    <3>1. 0 \in 0 .. n /\ Counts(0)
      BY <1>1, <1>2, <2>2
    <3> QED BY <3>1
  <2>3. CASE /\ present # {} /\ \A b \in present : b < 8 * (n - 1)
             /\ \E b \in present : b >= 8 * (n - 2)
    <3>1. 1 \in 0 .. n /\ Counts(1)
      BY <1>1, <1>2, <2>3
    <3> QED BY <3>1
  <2>4. CASE /\ present # {} /\ \A b \in present : b < 8 * (n - 2)
    <3>1. n = 3
      <4>1. PICK b \in present : b < 8 * (n - 2)
        BY <2>4
      <4> QED BY <1>1, <1>2, <4>1
    <3>2. \A b \in present : b < 8 * (3 - 2)
      BY <2>4, <3>1
    <3>3. \E b \in present : b >= 0
      <4>1. PICK b \in present : TRUE
        BY <2>4
      <4> QED BY <1>2, <4>1
    <3>4. 2 \in 0 .. n /\ Counts(2)
      BY <3>1, <3>2, <3>3
    <3> QED BY <3>4
  <2>5. \A b \in present : b < 8 * (n - 1) \/ b >= 8 * (n - 1)
    BY <1>1, <1>2
  <2>6. \A b \in present : b < 8 * (n - 2) \/ b >= 8 * (n - 2)
    BY <1>1, <1>2
  <2> QED BY <2>1, <2>2, <2>3, <2>4, <2>5, <2>6
<1>4. ZeroBytes(t, present) = CHOOSE z \in 0 .. n : Counts(z)
  BY DEF ZeroBytes
<1> HIDE DEF Counts
<1> QED BY <1>3, <1>4

\* The signed length field gives the size back, of short orders too.
LEMMA LengthRestored ==
  ASSUME NEW n \in Int, 6 <= n, n <= 32767
  PROVE  6 + SignedLength((n - 13) % 65536) + 7 = n
<1>1. CASE n >= 13
  <2>1. (n - 13) % 65536 = n - 13
    BY <1>1
  <2> QED BY <1>1, <2>1 DEF SignedLength
<1>2. CASE n < 13
  <2>1. (n - 13) % 65536 = n - 13 + 65536
    BY <1>2
  <2> QED BY <1>2, <2>1 DEF SignedLength
<1> QED BY <1>1, <1>2

\* The same for every order the server sends.
LEMMA SizesRestored ==
  \A n \in OrderSizes : 6 + SignedLength((n - 13) % 65536) + 7 = n
<1> SUFFICES ASSUME NEW n \in OrderSizes PROVE 6 + SignedLength((n - 13) % 65536) + 7 = n
  OBVIOUS
<1>1. n \in Int /\ 6 <= n /\ n <= 32767
  BY OrdersAssumption
<1> QED BY <1>1, LengthRestored

-----------------------------------------------------------------------------
(* The order state, its types and the orders sent against it.              *)

\* A well formed order state.
Good(s) ==
  /\ s \in States
  /\ \A t \in Types : s.fields[t] \in FieldValues(t)

\* No cache index is read as a coordinate.
LEMMA CacheIdxPlain ==
  \A t \in DOMAIN CacheIdx : CacheIdx[t] \notin Layout[t].coords
<1> SUFFICES ASSUME NEW t \in DOMAIN CacheIdx PROVE CacheIdx[t] \notin Layout[t].coords
  OBVIOUS
<1>1. t \in {"memblt", "triblt"}
  BY DEF CacheIdx
<1>2. CASE t = "memblt"
  BY <1>2 DEF CacheIdx, Layout, MembltLayout
<1>3. CASE t = "triblt"
  BY <1>3 DEF CacheIdx, Layout, TribltLayout
<1> QED BY <1>1, <1>2, <1>3

\* The types of an order's fields by the way they are read.
LEMMA FieldsTyped ==
  ASSUME NEW t \in Types, NEW f \in FieldValues(t)
  PROVE  /\ f \in [Used[t] -> Coord \cup Cells \cup {0, 1}]
         /\ \A x \in Used[t] \cap Layout[t].coords : f[x] \in Coord
         /\ t \in DOMAIN CacheIdx /\ CacheIdx[t] \in Used[t] => f[CacheIdx[t]] \in Cells
<1>1. /\ f \in [Used[t] -> Coord \cup Cells \cup {0, 1}]
      /\ \A x \in Used[t] : f[x] \in FieldType(t, x)
  BY DEF FieldValues
<1>2. \A x \in Layout[t].coords : FieldType(t, x) = Coord
  BY DEF FieldType
<1>3. t \in DOMAIN CacheIdx => FieldType(t, CacheIdx[t]) = Cells
  BY CacheIdxPlain DEF FieldType
<1> QED BY <1>1, <1>2, <1>3

\* The state after reset_order_state is well formed.
LEMMA ZeroedGood == Good(Zeroed)
<1> DEFINE F == [t \in Types |-> [b \in Used[t] |-> 0]]
<1>1. \A t \in Types : \A b \in Used[t] : 0 \in FieldType(t, b)
  BY CoordInt, OrdersAssumption DEF FieldType
<1>2. \A t \in Types : F[t] \in FieldValues(t)
  BY <1>1, CoordInt, OrdersAssumption DEF FieldValues
<1>3. F \in [Types -> UNION {FieldValues(t) : t \in Types}]
  BY <1>2
<1>4. "patblt" \in OrderTypes
  BY DEF OrderTypes, Layout
<1>5. [side \in Sides |-> 0] \in Bounds /\ NoCells \in [Cells -> Bitmaps \cup {NoBitmap}]
  BY CoordInt DEF Bounds, NoCells
<1>6. /\ Zeroed = [order_type |-> "patblt", fields |-> F,
                   bounds |-> [side \in Sides |-> 0], cells |-> NoCells]
  BY DEF Zeroed
<1> HIDE DEF F
<1>7. Zeroed \in States
  BY <1>3, <1>4, <1>5, <1>6 DEF States
<1>8. Zeroed.fields = F
  BY <1>6
<1> QED BY <1>2, <1>7, <1>8 DEF Good

\* A drawing order replaces type, fields and bounds, and keeps the rest.
LEMMA GoodDrawn ==
  ASSUME NEW s, Good(s), NEW t \in Types, NEW f \in FieldValues(t), NEW rect \in Bounds
  PROVE  /\ Good([s EXCEPT !.order_type = t, !.fields[t] = f, !.bounds = rect])
         /\ [s EXCEPT !.order_type = t, !.fields[t] = f, !.bounds = rect] =
              [order_type |-> t, fields |-> [s.fields EXCEPT ![t] = f], bounds |-> rect,
               cells |-> s.cells]
<1> DEFINE r == [s EXCEPT !.order_type = t, !.fields[t] = f, !.bounds = rect]
           F == [s.fields EXCEPT ![t] = f]
<1>1. /\ s \in States /\ \A u \in Types : s.fields[u] \in FieldValues(u)
      /\ s.fields \in [Types -> UNION {FieldValues(u) : u \in Types}]
      /\ s.cells \in [Cells -> Bitmaps \cup {NoBitmap}]
  BY DEF Good, States
<1>2. r = [order_type |-> t, fields |-> F, bounds |-> rect, cells |-> s.cells]
  <2>1. s = [order_type |-> s.order_type, fields |-> s.fields, bounds |-> s.bounds,
             cells |-> s.cells]
    BY <1>1 DEF States
  <2>2. r = [[[s EXCEPT !.order_type = t] EXCEPT !.fields = F] EXCEPT !.bounds = rect]
    BY <2>1
  <2> HIDE DEF F, r
  <2> QED BY <2>1, <2>2
<1>3. \A u \in Types : F[u] \in FieldValues(u)
  BY <1>1
<1>4. F \in [Types -> UNION {FieldValues(u) : u \in Types}]
  BY <1>1, <1>3
<1>5. t \in OrderTypes
  BY OrdersAssumption
<1> HIDE DEF r, F
<1>6. r \in States /\ r.fields = F
  BY <1>1, <1>2, <1>4, <1>5 DEF States
<1>7. Good(r)
  BY <1>3, <1>6 DEF Good
<1> QED BY <1>2, <1>7 DEF r, F

\* A bitmap cache order fills one cell, and keeps the rest.
LEMMA GoodCached ==
  ASSUME NEW s, Good(s), NEW c \in Cells, NEW b \in Bitmaps
  PROVE  /\ Good([s EXCEPT !.cells[c] = b])
         /\ [s EXCEPT !.cells[c] = b] =
              [order_type |-> s.order_type, fields |-> s.fields, bounds |-> s.bounds,
               cells |-> [s.cells EXCEPT ![c] = b]]
<1> DEFINE r == [s EXCEPT !.cells[c] = b]
           C == [s.cells EXCEPT ![c] = b]
<1>1. /\ s \in States /\ \A u \in Types : s.fields[u] \in FieldValues(u)
      /\ s.cells \in [Cells -> Bitmaps \cup {NoBitmap}]
  BY DEF Good, States
<1>2. r = [order_type |-> s.order_type, fields |-> s.fields, bounds |-> s.bounds, cells |-> C]
  BY <1>1 DEF States
<1>3. C \in [Cells -> Bitmaps \cup {NoBitmap}]
  BY <1>1
<1> HIDE DEF r, C
<1>4. r \in States /\ r.fields = s.fields
  BY <1>1, <1>2, <1>3 DEF States
<1>5. Good(r)
  BY <1>1, <1>4 DEF Good
<1> QED BY <1>2, <1>5 DEF r, C

\* m is an order that the server may send in the state s.
Against(m, s) ==
  \/ \E t \in Types, delta \in BOOLEAN, bounded \in {"no", "last", "new"}, bdelta \in BOOLEAN :
       \E f \in FieldValues(t), rect \in Bounds :
         /\ MayDraw(s, t, f, rect, delta, bounded, bdelta)
         /\ m = Drawing(s, t, f, rect, delta, bounded, bdelta)
  \/ \E c \in Cells, b \in Bitmaps, n \in OrderSizes : m = Caching(s, c, b, n)
  \/ m = Reactivating

\* What an order leads to is well formed.
LEMMA AgainstGood ==
  ASSUME NEW s, Good(s), NEW m, Against(m, s)
  PROVE  Good(m.after)
<1>1. CASE \E t \in Types, delta \in BOOLEAN, bounded \in {"no", "last", "new"},
              bdelta \in BOOLEAN : \E f \in FieldValues(t), rect \in Bounds :
             m = Drawing(s, t, f, rect, delta, bounded, bdelta)
  <2>1. PICK t \in Types, delta \in BOOLEAN, bounded \in {"no", "last", "new"},
             bdelta \in BOOLEAN : \E f \in FieldValues(t), rect \in Bounds :
             m = Drawing(s, t, f, rect, delta, bounded, bdelta)
    BY <1>1
  <2>2. PICK f \in FieldValues(t), rect \in Bounds :
             m = Drawing(s, t, f, rect, delta, bounded, bdelta)
    BY <2>1
  <2>3. m.after = [s EXCEPT !.order_type = t, !.fields[t] = f, !.bounds = rect]
    BY <2>2 DEF Drawing
  <2>4. Good([s EXCEPT !.order_type = t, !.fields[t] = f, !.bounds = rect])
    BY GoodDrawn
  <2> QED BY <2>3, <2>4
<1>2. CASE \E c \in Cells, b \in Bitmaps, n \in OrderSizes : m = Caching(s, c, b, n)
  <2>1. PICK c \in Cells, b \in Bitmaps, n \in OrderSizes : m = Caching(s, c, b, n)
    BY <1>2
  <2>2. m.after = [s EXCEPT !.cells[c] = b]
    BY <2>1 DEF Caching
  <2>3. Good([s EXCEPT !.cells[c] = b])
    BY GoodCached
  <2> QED BY <2>2, <2>3
<1>3. CASE m = Reactivating
  <2>1. m.after = Zeroed
    BY <1>3 DEF Reactivating
  <2> QED BY <2>1, ZeroedGood
<1> QED BY <1>1, <1>2, <1>3 DEF Against

\* A drawing order decoded against a state that agrees with the one it was
\* encoded against.
LEMMA DrawingDecoded ==
  ASSUME Good(client), NEW s, Good(s), Agree(client, s), clip = NoClip,
         NEW t \in Types, NEW delta \in BOOLEAN, NEW bounded \in {"no", "last", "new"},
         NEW bdelta \in BOOLEAN, NEW f \in FieldValues(t), NEW rect \in Bounds,
         MayDraw(s, t, f, rect, delta, bounded, bdelta),
         NEW m, m = Drawing(s, t, f, rect, delta, bounded, bdelta),
         PrimaryOrder(m)
  PROVE  Good(client') /\ Agree(client', m.after) /\ clip' = NoClip /\ drawn' = m.means
<1> DEFINE old == s.fields[t]
           present == Changed(old, f)
           bounds == ParseBounds(client.bounds, m)
           fields == Parse(client.fields[t], m.values, Layout[t].coords, m.delta)
           next == [client EXCEPT !.order_type = t, !.fields[t] = f, !.bounds = rect]
<1>1. /\ m.type = t /\ m.change = (t # s.order_type) /\ m.zero = ZeroBytes(t, present)
      /\ m.delta = delta /\ m.bounded = bounded /\ m.bdelta = bdelta
      /\ m.values = Encoded(old, f, IF delta THEN Layout[t].coords ELSE {})
      /\ m.sides = Encoded(s.bounds, rect, IF bdelta THEN Sides ELSE {})
      /\ m.after = [s EXCEPT !.order_type = t, !.fields[t] = f, !.bounds = rect]
      /\ m.means = Effect(t, f, s.cells, IF bounded = "no" THEN NoClip ELSE rect)
  BY DEF Drawing
<1>2. client.order_type = s.order_type /\ client.fields = s.fields /\ client.bounds = s.bounds
  BY DEF Agree
<1>3. old \in FieldValues(t) /\ s.bounds \in Bounds /\ t \in OrderTypes
  BY OrdersAssumption DEF Good, States
<1>4. Understood(m)
  <2>1. present \subseteq 0 .. NumFields[t] - 1
    BY <1>3, FieldsTyped, OrdersAssumption DEF Changed
  <2>2. m.zero \in 0 .. ServerBytes(t)
    BY <1>1, <1>3, <2>1, ZeroBytesCounted
  <2>3. PresentBytes(Size(t), m.zero) = ServerBytes(t) - m.zero
    BY <1>3, <2>2, FlagsUnderstood
  <2> QED BY <1>1, <1>2, <2>3 DEF Understood
<1>5. fields = f
  <2>1. client.fields[t] = old
    BY <1>2
  <2> DEFINE V == Coord \cup Cells \cup {0, 1}
  <2>2. old \in [Used[t] -> V] /\ f \in [Used[t] -> V]
    BY <1>3, FieldsTyped
  <2>3. \A x \in Used[t] \cap Layout[t].coords : old[x] \in Coord /\ f[x] \in Coord
    BY <1>3, FieldsTyped
  <2> DEFINE C == Layout[t].coords
  <2>4. \A x \in Used[t] \cap C : old[x] \in Coord /\ f[x] \in Coord
    BY <2>3
  <2> HIDE DEF V, C, old
  <2>5. Parse(old, Encoded(old, f, IF delta THEN C ELSE {}), C, delta) = f
    BY <2>2, <2>4, ParseEncoded
  <2> QED BY <1>1, <2>1, <2>5 DEF C
<1>6. bounds = rect
  <2>1. CASE bounded = "new"
    <3>1. bounds = Parse(s.bounds, m.sides, Sides, bdelta)
      BY <1>1, <1>2, <2>1 DEF ParseBounds
    <3>2. /\ s.bounds \in [Sides -> Coord] /\ rect \in [Sides -> Coord]
          /\ \A x \in Sides \cap Sides : s.bounds[x] \in Coord /\ rect[x] \in Coord
      BY <1>3 DEF Bounds
    <3> DEFINE B == s.bounds
    <3>3. /\ B \in [Sides -> Coord] /\ rect \in [Sides -> Coord]
          /\ \A x \in Sides \cap Sides : B[x] \in Coord /\ rect[x] \in Coord
      BY <3>2
    <3> HIDE DEF B
    <3>4. Parse(B, Encoded(B, rect, IF bdelta THEN Sides ELSE {}), Sides, bdelta) = rect
      BY <3>3, ParseEncoded
    <3> QED BY <1>1, <3>1, <3>4 DEF B
  <2>2. CASE bounded # "new"
    BY <1>1, <1>2, <2>2 DEF ParseBounds, MayDraw
  <2> QED BY <2>1, <2>2
<1> HIDE DEF fields, bounds
<1>7. /\ client' = next /\ clip' = NoClip
      /\ drawn' = Effect(t, f, client.cells, IF bounded = "no" THEN NoClip ELSE rect)
  BY <1>1, <1>4, <1>5, <1>6 DEF PrimaryOrder, fields, bounds
<1>8. Good(client')
  BY <1>7, GoodDrawn
<1>9. Agree(client', m.after)
  <2>1. client' = [order_type |-> t, fields |-> [client.fields EXCEPT ![t] = f],
                   bounds |-> rect, cells |-> client.cells]
    BY <1>7, GoodDrawn
  <2>2. m.after = [order_type |-> t, fields |-> [s.fields EXCEPT ![t] = f],
                   bounds |-> rect, cells |-> s.cells]
    BY <1>1, GoodDrawn
  <2> QED BY <1>2, <2>1, <2>2 DEF Agree
<1>10. drawn' = m.means
  <2>1. CASE t \in DOMAIN CacheIdx /\ CacheIdx[t] \in Used[t]
    <3>1. f[CacheIdx[t]] \in Cells /\ s.cells[f[CacheIdx[t]]] # NoBitmap
      BY <2>1, FieldsTyped DEF MayDraw
    <3>2. client.cells[f[CacheIdx[t]]] = s.cells[f[CacheIdx[t]]]
      BY <3>1 DEF Agree
    <3> QED BY <1>1, <1>7, <3>2 DEF Effect
  <2>2. CASE ~(t \in DOMAIN CacheIdx /\ CacheIdx[t] \in Used[t])
    <3>1. DOMAIN f = Used[t]
      BY FieldsTyped
    <3> QED BY <1>1, <1>7, <2>2, <3>1 DEF Effect
  <2> QED BY <2>1, <2>2
<1> QED BY <1>7, <1>8, <1>9, <1>10

\* A bitmap cache order, whose fields do not depend on the last order's.
LEMMA CachingDecoded ==
  ASSUME Good(client), NEW s, Good(s), Agree(client, s), clip = NoClip,
         NEW c \in Cells, NEW b \in Bitmaps, NEW n \in OrderSizes,
         NEW m, m = Caching(s, c, b, n), SecondaryOrder(m)
  PROVE  Good(client') /\ Agree(client', m.after) /\ clip' = NoClip /\ drawn' = m.means
<1>1. /\ m.cell = c /\ m.bitmap = b /\ m.size = n /\ m.length = (n - 13) % 65536
      /\ m.after = [s EXCEPT !.cells[c] = b] /\ m.means = Nothing
  BY DEF Caching
<1>2. client' = [client EXCEPT !.cells[c] = b] /\ clip' = NoClip
  BY <1>1 DEF SecondaryOrder
<1>3. drawn' = Nothing
  BY <1>1, SizesRestored DEF SecondaryOrder
<1>4. Good([client EXCEPT !.cells[c] = b])
  BY GoodCached
<1>5. Agree(client', m.after)
  <2>1. client' = [order_type |-> client.order_type, fields |-> client.fields,
                   bounds |-> client.bounds, cells |-> [client.cells EXCEPT ![c] = b]]
    BY <1>2, GoodCached
  <2>2. m.after = [order_type |-> s.order_type, fields |-> s.fields,
                   bounds |-> s.bounds, cells |-> [s.cells EXCEPT ![c] = b]]
    BY <1>1, GoodCached
  <2>3. DOMAIN client.cells = Cells /\ DOMAIN s.cells = Cells
    BY DEF Good, States
  <2> QED BY <2>1, <2>2, <2>3 DEF Agree
<1> QED BY <1>1, <1>2, <1>3, <1>4, <1>5

\* A reactivation: the fields start over at both ends, and the client's cells
\* are more than the server counts on.
LEMMA ReactivationDecoded ==
  ASSUME Good(client), clip = NoClip, NEW m, m = Reactivating, Reactivated(m)
  PROVE  Good(client') /\ Agree(client', m.after) /\ clip' = NoClip /\ drawn' = m.means
<1>1. m.after = Zeroed /\ m.means = Nothing
  BY DEF Reactivating
<1>2. client' = [Zeroed EXCEPT !.cells = client.cells] /\ clip' = NoClip /\ drawn' = Nothing
  BY DEF Reactivated, ResetOrderState
<1>3. client' = [order_type |-> Zeroed.order_type, fields |-> Zeroed.fields,
                 bounds |-> Zeroed.bounds, cells |-> client.cells]
  BY <1>2 DEF Zeroed
<1>4. client.cells \in [Cells -> Bitmaps \cup {NoBitmap}]
  BY DEF Good, States
<1>5. Good(client')
  <2>1. Good(Zeroed)
    BY ZeroedGood
  <2>2. client' \in States
    BY <1>3, <1>4, <2>1 DEF Good, States
  <2> QED BY <1>3, <2>1, <2>2 DEF Good
<1>6. \A x \in Cells : Zeroed.cells[x] = NoBitmap
  BY DEF Zeroed, NoCells
<1>7. Agree(client', Zeroed)
  BY <1>3, <1>6 DEF Agree
<1> QED BY <1>1, <1>2, <1>5, <1>7

\* Whatever the server sends is decoded to what it meant.
LEMMA Decoded ==
  ASSUME Good(client), NEW s, Good(s), Agree(client, s), clip = NoClip,
         NEW m, Against(m, s), PrimaryOrder(m) \/ SecondaryOrder(m) \/ Reactivated(m)
  PROVE  Good(client') /\ Agree(client', m.after) /\ clip' = NoClip /\ drawn' = m.means
<1>1. CASE \E t \in Types, delta \in BOOLEAN, bounded \in {"no", "last", "new"},
              bdelta \in BOOLEAN : \E f \in FieldValues(t), rect \in Bounds :
             /\ MayDraw(s, t, f, rect, delta, bounded, bdelta)
             /\ m = Drawing(s, t, f, rect, delta, bounded, bdelta)
  <2>1. PICK t \in Types, delta \in BOOLEAN, bounded \in {"no", "last", "new"},
             bdelta \in BOOLEAN : \E f \in FieldValues(t), rect \in Bounds :
             /\ MayDraw(s, t, f, rect, delta, bounded, bdelta)
             /\ m = Drawing(s, t, f, rect, delta, bounded, bdelta)
    BY <1>1
  <2>2. PICK f \in FieldValues(t), rect \in Bounds :
             /\ MayDraw(s, t, f, rect, delta, bounded, bdelta)
             /\ m = Drawing(s, t, f, rect, delta, bounded, bdelta)
    BY <2>1
  <2>3. m.kind = "primary"
    BY <2>2 DEF Drawing
  <2>4. PrimaryOrder(m)
    BY <2>3 DEF SecondaryOrder, Reactivated
  <2> QED BY <2>2, <2>4, DrawingDecoded
<1>2. CASE \E c \in Cells, b \in Bitmaps, n \in OrderSizes : m = Caching(s, c, b, n)
  <2>1. PICK c \in Cells, b \in Bitmaps, n \in OrderSizes : m = Caching(s, c, b, n)
    BY <1>2
  <2>2. m.kind = "bmpcache"
    BY <2>1 DEF Caching
  <2>3. SecondaryOrder(m)
    BY <2>2 DEF PrimaryOrder, Reactivated
  <2> QED BY <2>1, <2>3, CachingDecoded
<1>3. CASE m = Reactivating
  <2>1. m.kind = "reset"
    BY <1>3 DEF Reactivating
  <2>2. Reactivated(m)
    BY <2>1 DEF PrimaryOrder, SecondaryOrder
  <2> QED BY <1>3, <2>2, ReactivationDecoded
<1> QED BY <1>1, <1>2, <1>3 DEF Against

-----------------------------------------------------------------------------
(* The invariant.                                                          *)

\* The first order on its way was encoded against a state that agrees with the
\* client's, every other against what the one before it leads to, and the last
\* leads to the server's state.
Chained ==
  \E base :
    /\ Good(base) /\ Agree(client, base)
    /\ wire = <<>> => server = base
    /\ wire # <<>> => Against(wire[1], base) /\ server = wire[Len(wire)].after
    /\ \A i \in 1 .. Len(wire) - 1 : Against(wire[i + 1], wire[i].after)

IInv ==
  /\ Good(client) /\ Good(server) /\ clip = NoClip
  /\ sent \in 0 .. MaxOrders
  /\ (\E S : wire \in Seq(S)) /\ Len(wire) <= MaxInFlight
  /\ Chained

\* The initial state satisfies the invariant.
LEMMA InitInv == Init => IInv
<1> SUFFICES ASSUME Init PROVE IInv
  OBVIOUS
<1>1. /\ client = Zeroed /\ server = Zeroed /\ clip = NoClip /\ wire = <<>> /\ sent = 0
  BY DEF Init
<1>2. Good(client) /\ Good(server)
  BY <1>1, ZeroedGood
<1>3. wire \in Seq({}) /\ Len(wire) = 0
  BY <1>1
<1>4. sent \in 0 .. MaxOrders /\ Len(wire) <= MaxInFlight
  BY <1>1, <1>3, OrdersAssumption
<1>5. Agree(client, server)
  BY <1>1 DEF Agree
<1>6. Chained
  BY <1>1, <1>2, <1>3, <1>5 DEF Chained
<1> QED BY <1>1, <1>2, <1>3, <1>4, <1>6 DEF IInv

\* The invariant implies both properties.
LEMMA Consequences == IInv => TypeOK /\ OrderStatesAgree
<1> SUFFICES ASSUME IInv PROVE TypeOK /\ OrderStatesAgree
  OBVIOUS
<1>1. TypeOK
  BY DEF IInv, Good, TypeOK
<1>2. OrderStatesAgree
  BY DEF IInv, Chained, OrderStatesAgree
<1> QED BY <1>1, <1>2

\* The server's step.
LEMMA SendStep ==
  ASSUME IInv, NEW m, Against(m, server), Send(m)
  PROVE  IInv'
<1>1. /\ sent < MaxOrders /\ sent' = sent + 1 /\ Len(wire) < MaxInFlight
      /\ wire' = Append(wire, m) /\ server' = m.after /\ client' = client /\ clip' = clip
  BY DEF Send
<1>2. PICK S : wire \in Seq(S)
  BY DEF IInv
<1> DEFINE T == S \cup {m}
           n == Len(wire)
<1>3. wire \in Seq(T) /\ m \in T /\ n \in Nat
  BY <1>2, SeqMonotonic, LenProperties
<1>4. /\ wire' \in Seq(T) /\ wire' # <<>> /\ Len(wire') = n + 1
      /\ \A i \in 1 .. n : wire'[i] = wire[i]
      /\ wire'[n + 1] = m
  BY <1>1, <1>3, AppendProperties
<1> HIDE DEF T
<1>5. Good(client)' /\ Good(server)' /\ (clip = NoClip)'
  BY <1>1, AgainstGood DEF IInv, Good
<1>6. sent' \in 0 .. MaxOrders /\ Len(wire') <= MaxInFlight
  BY <1>1, <1>3, <1>4, OrdersAssumption DEF IInv
<1>7. Chained'
  <2>1. PICK base :
          /\ Good(base) /\ Agree(client, base)
          /\ wire = <<>> => server = base
          /\ wire # <<>> => Against(wire[1], base) /\ server = wire[n].after
          /\ \A i \in 1 .. n - 1 : Against(wire[i + 1], wire[i].after)
    BY DEF IInv, Chained
  <2>2. Against(wire'[1], base)
    <3>1. CASE wire = <<>>
      <4>1. n = 0
        BY <3>1
      <4> QED BY <1>4, <2>1, <3>1, <4>1
    <3>2. CASE wire # <<>>
      <4>1. 1 \in 1 .. n
        BY <1>2, <1>3, <3>2, EmptySeq
      <4> QED BY <1>4, <2>1, <3>2, <4>1
    <3> QED BY <3>1, <3>2
  <2>3. server' = wire'[Len(wire')].after
    BY <1>1, <1>4
  <2>4. ASSUME NEW i \in 1 .. Len(wire') - 1
        PROVE  Against(wire'[i + 1], wire'[i].after)
    <3>1. i \in 1 .. n
      BY <1>3, <1>4
    <3>2. CASE i = n
      <4>1. wire # <<>>
        BY <3>1, <3>2
      <4> QED BY <1>4, <2>1, <3>1, <3>2, <4>1
    <3>3. CASE i # n
      <4>1. i \in 1 .. n - 1 /\ i + 1 \in 1 .. n
        BY <1>3, <3>1, <3>3
      <4> QED BY <1>4, <2>1, <3>1, <4>1
    <3> QED BY <3>2, <3>3
  <2>5. Agree(client', base) /\ wire' # <<>>
    BY <1>1, <1>4, <2>1
  <2> QED BY <2>1, <2>2, <2>3, <2>4, <2>5 DEF Chained
<1> QED BY <1>4, <1>5, <1>6, <1>7 DEF IInv

\* The client's step.
LEMMA ProcessStep ==
  ASSUME IInv, ProcessOrder
  PROVE  IInv' /\ drawn' = wire[1].means
<1> DEFINE n == Len(wire)
           m == wire[1]
<1>1. /\ wire # <<>> /\ wire' = Tail(wire) /\ server' = server /\ sent' = sent
      /\ PrimaryOrder(m) \/ SecondaryOrder(m) \/ Reactivated(m)
  BY DEF ProcessOrder
<1>2. PICK S : wire \in Seq(S)
  BY DEF IInv
<1>3. n \in Nat /\ n > 0
  BY <1>1, <1>2, EmptySeq
<1>4. wire' \in Seq(S) /\ Len(wire') = n - 1 /\ \A i \in 1 .. n - 1 : wire'[i] = wire[i + 1]
  BY <1>1, <1>2, <1>3, HeadTailProperties
<1>5. PICK base :
        /\ Good(base) /\ Agree(client, base)
        /\ Against(m, base) /\ server = wire[n].after
        /\ \A i \in 1 .. n - 1 : Against(wire[i + 1], wire[i].after)
  BY <1>1 DEF IInv, Chained
<1>6. Good(client') /\ Agree(client', m.after) /\ clip' = NoClip /\ drawn' = m.means
  BY <1>1, <1>5, Decoded DEF IInv
<1>7. Good(m.after)
  BY <1>5, AgainstGood
<1>8. Chained'
  <2>1. wire' = <<>> => server' = m.after
    <3> SUFFICES ASSUME wire' = <<>> PROVE server' = m.after
      OBVIOUS
    <3>1. n = 1
      BY <1>3, <1>4
    <3> QED BY <1>1, <1>5, <3>1
  <2>2. wire' # <<>> => Against(wire'[1], m.after) /\ server' = wire'[Len(wire')].after
    <3> SUFFICES ASSUME wire' # <<>>
                 PROVE  Against(wire'[1], m.after) /\ server' = wire'[Len(wire')].after
      OBVIOUS
    <3>1. Len(wire') > 0
      BY <1>4, EmptySeq
    <3>2. 1 \in 1 .. n - 1 /\ n - 1 \in 1 .. n - 1
      BY <1>3, <1>4, <3>1
    <3>3. wire'[1] = wire[2] /\ wire'[n - 1] = wire[n]
      BY <1>3, <1>4, <3>2
    <3>4. Against(wire[2], m.after)
      BY <1>5, <3>2
    <3> QED BY <1>1, <1>4, <1>5, <3>3, <3>4
  <2>3. ASSUME NEW i \in 1 .. Len(wire') - 1
        PROVE  Against(wire'[i + 1], wire'[i].after)
    <3>1. i \in 1 .. n - 1 /\ i + 1 \in 1 .. n - 1
      BY <1>3, <1>4
    <3>2. wire'[i] = wire[i + 1] /\ wire'[i + 1] = wire[i + 1 + 1]
      BY <1>4, <3>1
    <3> QED BY <1>5, <3>1, <3>2
  <2> QED BY <1>6, <1>7, <2>1, <2>2, <2>3 DEF Chained
<1>9. Good(server') /\ sent' \in 0 .. MaxOrders /\ Len(wire') <= MaxInFlight
  BY <1>1, <1>3, <1>4, OrdersAssumption DEF IInv
<1> QED BY <1>4, <1>6, <1>8, <1>9 DEF IInv

\* Every step of the server sends an order that it may send.
LEMMA ServerSends ==
  ASSUME ServerDraws \/ ServerCaches \/ ServerReactivates
  PROVE  \E m : Against(m, server) /\ Send(m)
<1>1. CASE ServerDraws
  <2>1. PICK t \in Types, delta \in BOOLEAN, bounded \in {"no", "last", "new"},
             bdelta \in BOOLEAN : \E f \in FieldValues(t), rect \in Bounds :
             /\ MayDraw(server, t, f, rect, delta, bounded, bdelta)
             /\ Send(Drawing(server, t, f, rect, delta, bounded, bdelta))
    BY <1>1 DEF ServerDraws
  <2>2. PICK f \in FieldValues(t), rect \in Bounds :
             /\ MayDraw(server, t, f, rect, delta, bounded, bdelta)
             /\ Send(Drawing(server, t, f, rect, delta, bounded, bdelta))
    BY <2>1
  <2>3. Against(Drawing(server, t, f, rect, delta, bounded, bdelta), server)
    BY <2>2 DEF Against
  <2> QED BY <2>2, <2>3
<1>2. CASE ServerCaches
  BY <1>2 DEF ServerCaches, Against
<1>3. CASE ServerReactivates
  BY <1>3 DEF ServerReactivates, Against
<1> QED BY <1>1, <1>2, <1>3

\* Every step keeps the invariant.
LEMMA NextInv == IInv /\ [Next]_vars => IInv'
<1> SUFFICES ASSUME IInv, [Next]_vars PROVE IInv'
  OBVIOUS
<1>1. CASE ServerDraws \/ ServerCaches \/ ServerReactivates
  BY <1>1, ServerSends, SendStep
<1>2. CASE ProcessOrder
  BY <1>2, ProcessStep
<1>3. CASE UNCHANGED vars
  BY <1>3 DEF vars, IInv, Good, Chained, Agree
<1> QED BY <1>1, <1>2, <1>3 DEF Next

\* What is true in every reachable state.
THEOREM Inductive == Spec => []IInv
<1> QED BY InitInv, NextInv, PTL DEF Spec

\* Every variable of the order stream keeps its type.
THEOREM TypeCorrect == Spec => []TypeOK
<1> QED BY Inductive, Consequences, PTL

\* When every order has been processed, the client's order state and bitmap
\* cache (g_order_state, orders.c) are what the server takes them to be.
THEOREM StatesAgree == Spec => []OrderStatesAgree
<1> QED BY Inductive, Consequences, PTL

-----------------------------------------------------------------------------
(* The drawn stream is the intended one.                                   *)

\* The effects meant and not yet shown.
Pending == [i \in DOMAIN wire |-> wire[i].means]

\* The effects meant by a sequence of orders, as a sequence.
LEMMA MeansOf ==
  ASSUME NEW S, NEW q \in Seq(S)
  PROVE  /\ [i \in DOMAIN q |-> q[i].means] \in Seq({x.means : x \in S})
         /\ Len([i \in DOMAIN q |-> q[i].means]) = Len(q)
         /\ \A i \in 1 .. Len(q) : [j \in DOMAIN q |-> q[j].means][i] = q[i].means
<1> DEFINE T == {x.means : x \in S}
           p == [i \in DOMAIN q |-> q[i].means]
<1>1. Len(q) \in Nat /\ DOMAIN q = 1 .. Len(q)
  BY LenProperties
<1>2. \A i \in 1 .. Len(q) : q[i] \in S /\ q[i].means \in T
  BY ElementOfSeq
<1>3. p \in [1 .. Len(q) -> T]
  BY <1>1, <1>2
<1>4. p \in Seq(T)
  BY <1>1, <1>3, SeqDef
<1>5. DOMAIN p = 1 .. Len(p) /\ Len(p) \in Nat
  BY <1>4, LenProperties
<1>6. Len(p) = Len(q)
  BY <1>1, <1>3, <1>5
<1> QED BY <1>1, <1>4, <1>6

\* An order sent is one more effect meant.
LEMMA SendMeans ==
  ASSUME IInv, NEW m, Send(m)
  PROVE  Meant!Mean
<1>1. PICK S : wire \in Seq(S)
  BY DEF IInv
<1> DEFINE T == S \cup {m}
           p == [i \in DOMAIN wire |-> wire[i].means]
           q == [i \in DOMAIN wire' |-> wire'[i].means]
           n == Len(wire)
<1>2. wire \in Seq(T) /\ m \in T /\ n \in Nat
  BY <1>1, SeqMonotonic, LenProperties
<1>3. /\ wire' = Append(wire, m) /\ drawn' = drawn
      /\ wire' \in Seq(T) /\ Len(wire') = n + 1
      /\ \A i \in 1 .. n : wire'[i] = wire[i]
  BY <1>2, AppendProperties DEF Send
<1> DEFINE V == {x.means : x \in T}
<1>4. /\ p \in Seq(V) /\ Len(p) = n /\ \A i \in 1 .. n : p[i] = wire[i].means
  BY <1>2, MeansOf
<1>5. /\ q \in Seq(V) /\ Len(q) = n + 1 /\ \A i \in 1 .. n + 1 : q[i] = wire'[i].means
  BY <1>3, MeansOf
<1> HIDE DEF p, q, V, T
<1>6. /\ SubSeq(q, 1, n) \in Seq(V) /\ Len(SubSeq(q, 1, n)) = n
      /\ \A i \in 1 .. n : SubSeq(q, 1, n)[i] = q[i]
  BY <1>2, <1>5, SubSeqProperties, ElementOfSeq
<1>7. ASSUME NEW i \in 1 .. n PROVE SubSeq(q, 1, n)[i] = p[i]
  <2>1. i \in 1 .. n + 1
    BY <1>2
  <2>2. SubSeq(q, 1, n)[i] = q[i] /\ q[i] = wire'[i].means
    BY <1>5, <1>6, <2>1
  <2> QED BY <1>3, <1>4, <2>2
<1>8. SubSeq(q, 1, n) = p
  BY <1>4, <1>6, <1>7, SeqEqual
<1> QED BY <1>3, <1>4, <1>5, <1>8 DEF Meant!Mean, p, q

\* An order processed shows the oldest effect meant.
LEMMA ProcessShows ==
  ASSUME IInv, ProcessOrder
  PROVE  Meant!Show
<1>1. wire # <<>> /\ wire' = Tail(wire)
  BY DEF ProcessOrder
<1>2. PICK S : wire \in Seq(S)
  BY DEF IInv
<1> DEFINE p == [i \in DOMAIN wire |-> wire[i].means]
           q == [i \in DOMAIN wire' |-> wire'[i].means]
           V == {x.means : x \in S}
           n == Len(wire)
<1>3. n \in Nat /\ n > 0
  BY <1>1, <1>2, EmptySeq
<1>4. wire' \in Seq(S) /\ Len(wire') = n - 1 /\ \A i \in 1 .. n - 1 : wire'[i] = wire[i + 1]
  BY <1>1, <1>2, <1>3, HeadTailProperties
<1>5. /\ p \in Seq(V) /\ Len(p) = n /\ \A i \in 1 .. n : p[i] = wire[i].means
  BY <1>2, MeansOf
<1>6. /\ q \in Seq(V) /\ Len(q) = n - 1 /\ \A i \in 1 .. n - 1 : q[i] = wire'[i].means
  BY <1>4, MeansOf
<1>7. drawn' = wire[1].means
  BY ProcessStep
<1> HIDE DEF p, q, V
<1>8. p # <<>> /\ Head(p) = p[1]
  BY <1>3, <1>5
<1>9. /\ Tail(p) \in Seq(V) /\ Len(Tail(p)) = n - 1
      /\ \A i \in 1 .. n - 1 : Tail(p)[i] = p[i + 1]
  BY <1>5, <1>8, HeadTailProperties
<1>10. ASSUME NEW i \in 1 .. n - 1 PROVE q[i] = Tail(p)[i]
  <2>1. i \in 1 .. n - 1 /\ i + 1 \in 1 .. n
    BY <1>3
  <2>2. q[i] = wire'[i].means /\ wire'[i] = wire[i + 1]
    BY <1>4, <1>6, <2>1
  <2>3. Tail(p)[i] = p[i + 1] /\ p[i + 1] = wire[i + 1].means
    BY <1>5, <1>9, <2>1
  <2> QED BY <2>2, <2>3
<1>11. q = Tail(p)
  BY <1>6, <1>9, <1>10, SeqEqual
<1>12. drawn' = Head(p)
  BY <1>3, <1>5, <1>7, <1>8
<1> QED BY <1>8, <1>11, <1>12 DEF Meant!Show, p, q

\* Every behaviour of the two order coders is one of the canvas: each order
\* sent adds its intended effect, each order processed shows the oldest.
THEOREM ShowsWhatIsMeant == Spec => DrawsAsMeant
<1>1. Init => Meant!Init
  <2> SUFFICES ASSUME Init PROVE Meant!Init
    OBVIOUS
  <2>1. wire = <<>> /\ drawn = Nothing
    BY DEF Init
  <2>2. wire \in Seq({}) /\ Len(wire) = 0
    BY <2>1
  <2>3. Pending \in Seq({x.means : x \in {}}) /\ Len(Pending) = 0
    BY <2>2, MeansOf DEF Pending
  <2>4. Pending = <<>>
    BY <2>3, EmptySeq
  <2> QED BY <2>1, <2>4 DEF Meant!Init, Pending
<1>2. IInv /\ [Next]_vars => [Meant!Next]_Meant!vars
  <2> SUFFICES ASSUME IInv, [Next]_vars PROVE [Meant!Next]_Meant!vars
    OBVIOUS
  <2>1. CASE ServerDraws \/ ServerCaches \/ ServerReactivates
    BY <2>1, ServerSends, SendMeans DEF Meant!Next
  <2>2. CASE ProcessOrder
    BY <2>2, ProcessShows DEF Meant!Next
  <2>3. CASE UNCHANGED vars
    BY <2>3 DEF vars, Meant!vars
  <2> QED BY <2>1, <2>2, <2>3 DEF Next
<1> QED BY <1>1, <1>2, Inductive, PTL DEF Spec, DrawsAsMeant, Meant!Spec
=============================================================================
