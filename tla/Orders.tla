------------------------------- MODULE Orders -------------------------------
(***************************************************************************)
(* Drawing orders (orders.c).  An order carries only the fields that have  *)
(* changed since the last order of its type, coordinates often as one byte *)
(* differences, its type only if that has changed, and its bounds likewise *)
(* as differences.  So the client keeps, for every type, all the fields of *)
(* the last order (g_order_state), the server keeps the same, and every    *)
(* order decoded wrongly spoils all that follow.                           *)
(*                                                                         *)
(* The server is external: it encodes as the protocol says, draws only     *)
(* from bitmap cells it has filled since the activation, and uses no order *)
(* type the client has not advertised.  A field is known by its bit in the *)
(* field flags; values are small integers.                                 *)
(***************************************************************************)
EXTENDS Integers, Sequences

CONSTANTS
  Used,        \* Used[t]: the fields of order type t that ever change
  Modulus,     \* 65536: coordinates are sint16
  Reach,       \* 128: differences are sint8
  Sides,       \* the sides of the bounds that ever change
  Cells,       \* bitmap cache cells: values of the cache_idx field
  Bitmaps, NoBitmap,
  OrderSizes,  \* sizes of secondary orders, in bytes
  MaxOrders,   \* BOUND: orders the server sends
  MaxInFlight, \* BOUND: orders on their way
  Nothing, Garbage, NoClip

-----------------------------------------------------------------------------
(* The fields of each primary order: the bits read with rdp_in_coord, and  *)
(* those read otherwise.                                                   *)

DestbltLayout   == [coords |-> 0 .. 3, plain |-> {4}]
PatbltLayout    == [coords |-> 0 .. 3, plain |-> 4 .. 11]
ScreenbltLayout == [coords |-> (0 .. 3) \cup {5, 6}, plain |-> {4}]
LineLayout      == [coords |-> 1 .. 4, plain |-> {0} \cup 5 .. 9]
RectLayout      == [coords |-> 0 .. 3, plain |-> 4 .. 6]
DesksaveLayout  == [coords |-> 1 .. 4, plain |-> {0, 5}]
MembltLayout    == [coords |-> (1 .. 4) \cup {6, 7}, plain |-> {0, 5, 8}]
TribltLayout    == [coords |-> (1 .. 4) \cup {6, 7}, plain |-> {0, 5} \cup 8 .. 16]
PolygonLayout   == [coords |-> 0 .. 1, plain |-> 2 .. 6]
Polygon2Layout  == [coords |-> 0 .. 1, plain |-> 2 .. 12]
PolylineLayout  == [coords |-> 0 .. 1, plain |-> {2, 4, 5, 6}]
EllipseLayout   == [coords |-> 0 .. 3, plain |-> 4 .. 6]
Ellipse2Layout  == [coords |-> 0 .. 3, plain |-> 4 .. 12]
Text2Layout     == [coords |-> {}, plain |-> 0 .. 21]

Layout ==
  [destblt |-> DestbltLayout, patblt |-> PatbltLayout, screenblt |-> ScreenbltLayout,
   line |-> LineLayout, rect |-> RectLayout, desksave |-> DesksaveLayout,
   memblt |-> MembltLayout, triblt |-> TribltLayout, polygon |-> PolygonLayout,
   polygon2 |-> Polygon2Layout, polyline |-> PolylineLayout, ellipse |-> EllipseLayout,
   ellipse2 |-> Ellipse2Layout, text2 |-> Text2Layout]

OrderTypes == DOMAIN Layout
Types == DOMAIN Used
Fields(t) == Layout[t].coords \cup Layout[t].plain

\* The bit of cache_idx, in the orders that draw from the bitmap cache.
CacheIdx == [memblt |-> 8, triblt |-> 15]

SizeForgetsTriblt(t) ==                 \* mutant: one case label is missing
  CASE t = "text2" -> 3
    [] t \in {"patblt", "memblt", "line", "polygon2", "ellipse2"} -> 2
    [] OTHER -> 1

\* Bytes of field flags.
Size(t) ==
  CASE t \in {"triblt", "text2"} -> 3
    [] t \in {"patblt", "memblt", "line", "polygon2", "ellipse2"} -> 2
    [] OTHER -> 1

\* rdp_in_present: RDP_ORDER_SMALL and RDP_ORDER_TINY, bits 0 and 1 of zero,
\* take away one and two bytes, down to none.
PresentBytes(size, zero) ==
  LET small == IF zero % 2 = 1 THEN size - 1 ELSE size
  IN  IF zero < 2 THEN small ELSE IF small < 2 THEN 0 ELSE small - 2

\* The protocol's number of fields of each order.
NumFields ==
  [destblt |-> 5, patblt |-> 12, screenblt |-> 7, line |-> 10, rect |-> 7, desksave |-> 6,
   memblt |-> 9, triblt |-> 16, polygon |-> 7, polygon2 |-> 13, polyline |-> 7,
   ellipse |-> 7, ellipse2 |-> 13, text2 |-> 22]

\* The protocol's number of field flag bytes, and how many of them, counted
\* from the end, are zero.
ServerBytes(t) == (NumFields[t] + 8) \div 8
ZeroBytes(t, present) ==
  CHOOSE z \in 0 .. ServerBytes(t) :
    /\ \A b \in present : b < 8 * (ServerBytes(t) - z)
    /\ z < ServerBytes(t) => \E b \in present : b >= 8 * (ServerBytes(t) - z - 1)

Coord == -(Modulus \div 2) .. (Modulus \div 2 - 1)
Wrap(x) == ((x + Modulus \div 2) % Modulus) - Modulus \div 2
Deltas == -Reach .. Reach - 1
Bounds == [Sides -> Coord]

FieldType(t, b) ==
  IF b \in Layout[t].coords THEN Coord
  ELSE IF t \in DOMAIN CacheIdx /\ b = CacheIdx[t] THEN Cells ELSE {0, 1}

FieldValues(t) ==
  {f \in [Used[t] -> Coord \cup Cells \cup {0, 1}] : \A b \in Used[t] : f[b] \in FieldType(t, b)}

ASSUME OrdersAssumption ==
  /\ Types \subseteq OrderTypes
  /\ \A t \in Types : Used[t] \subseteq 0 .. NumFields[t] - 1 /\ Used[t] \subseteq Fields(t)
  /\ Modulus \in Nat /\ Modulus % 2 = 0 /\ Reach \in Nat /\ 2 * Reach <= Modulus /\ Modulus > 0
  /\ Cells \subseteq Nat /\ 0 \in Cells /\ NoBitmap \notin Bitmaps
  /\ OrderSizes \subseteq Nat /\ \A n \in OrderSizes : 6 <= n /\ n <= 32767
  /\ MaxOrders \in Nat /\ MaxInFlight \in Nat

-----------------------------------------------------------------------------
VARIABLES
  client,   \* g_order_state and the bitmap cache
  clip,     \* the clipping rectangle
  drawn,    \* what the last order processed has drawn
  server,   \* the server's copy of the client's state
  wire,     \* orders in flight
  sent      \* orders sent

vars == <<client, clip, drawn, server, wire, sent>>

States ==
  [order_type : OrderTypes, fields : [Types -> UNION {FieldValues(t) : t \in Types}],
   bounds : Bounds, cells : [Cells -> Bitmaps \cup {NoBitmap}]]

NoCells == [c \in Cells |-> NoBitmap]

\* The order state of a program that has not decoded an order yet.
Zeroed ==
  [order_type |-> "patblt", fields |-> [t \in Types |-> [b \in Used[t] |-> 0]],
   bounds |-> [side \in Sides |-> 0], cells |-> NoCells]

ResetKeepsFields(s, cells) ==           \* mutant: the type alone is reset
  [order_type |-> "patblt", fields |-> s.fields, bounds |-> s.bounds, cells |-> cells]

\* reset_order_state: all fields of all types zero; the bitmap cache is none
\* of its business.
ResetOrderState(s, cells) ==
  [Zeroed EXCEPT !.cells = cells]

\* process_demand_active has run for the first time.
Init ==
  /\ client = Zeroed /\ server = Zeroed
  /\ clip = NoClip /\ drawn = Nothing /\ wire = <<>> /\ sent = 0

-----------------------------------------------------------------------------
\* What an order of type t with the fields f draws: process_memblt and
\* process_triblt draw nothing when the bitmap is missing.
Effect(t, f, cells, rect) ==
  LET bitmap == IF t \in DOMAIN CacheIdx /\ CacheIdx[t] \in DOMAIN f
                THEN cells[f[CacheIdx[t]]] ELSE NoBitmap
  IN  IF t \in DOMAIN CacheIdx /\ bitmap = NoBitmap THEN Nothing
      ELSE [type |-> t, fields |-> f, bitmap |-> bitmap, clip |-> rect]

Changed(f, g) == {x \in DOMAIN f : f[x] # g[x]}

-----------------------------------------------------------------------------
(* The server.                                                             *)

Send(m) ==
  /\ sent < MaxOrders /\ sent' = sent + 1
  /\ Len(wire) < MaxInFlight /\ wire' = Append(wire, m)
  /\ server' = m.after
  /\ UNCHANGED <<client, clip, drawn>>

\* Fields and bounds may be sent as differences if these are small enough.
MayDelta(old, new, coords) == \A x \in Changed(old, new) \cap coords : new[x] - old[x] \in Deltas

Encoded(old, new, coords) ==
  [x \in Changed(old, new) |-> IF x \in coords THEN new[x] - old[x] ELSE new[x]]

\* What the server may send in a state s: a primary order of type t with the
\* fields f and the bounds rect; bounded is "no", "last" or "new".
MayDraw(s, t, f, rect, delta, bounded, bdelta) ==
  /\ delta => MayDelta(s.fields[t], f, Layout[t].coords)
  /\ bdelta => bounded = "new" /\ MayDelta(s.bounds, rect, Sides)
  /\ bounded # "new" => rect = s.bounds
  /\ t \in DOMAIN CacheIdx /\ CacheIdx[t] \in Used[t] => s.cells[f[CacheIdx[t]]] # NoBitmap

Drawing(s, t, f, rect, delta, bounded, bdelta) ==
  [kind    |-> "primary",
   change  |-> t # s.order_type,
   type    |-> t,
   zero    |-> ZeroBytes(t, Changed(s.fields[t], f)),
   delta   |-> delta,
   values  |-> Encoded(s.fields[t], f, IF delta THEN Layout[t].coords ELSE {}),
   bounded |-> bounded,
   bdelta  |-> bdelta,
   sides   |-> Encoded(s.bounds, rect, IF bdelta THEN Sides ELSE {}),
   after   |-> [s EXCEPT !.order_type = t, !.fields[t] = f, !.bounds = rect],
   means   |-> Effect(t, f, s.cells, IF bounded = "no" THEN NoClip ELSE rect)]

ServerDraws ==
  \E t \in Types, delta \in BOOLEAN, bounded \in {"no", "last", "new"}, bdelta \in BOOLEAN :
    \E f \in FieldValues(t), rect \in Bounds :
      /\ MayDraw(server, t, f, rect, delta, bounded, bdelta)
      /\ Send(Drawing(server, t, f, rect, delta, bounded, bdelta))

\* A bitmap cache order.  The length field is 13 less than the order's size,
\* in 16 bits.
Caching(s, c, b, n) ==
  [kind |-> "bmpcache", cell |-> c, bitmap |-> b, size |-> n, length |-> (n - 13) % 65536,
   after |-> [s EXCEPT !.cells[c] = b], means |-> Nothing]

ServerCaches ==
  \E c \in Cells, b \in Bitmaps, n \in OrderSizes : Send(Caching(server, c, b, n))

\* Deactivation and reactivation: the server starts over.
Reactivating == [kind |-> "reset", after |-> Zeroed, means |-> Nothing]

ServerReactivates == Send(Reactivating)

-----------------------------------------------------------------------------
(* The client.                                                             *)

InCoordAlwaysAdds(old, v, delta) == old + v  \* mutant: no else branch

\* rdp_in_coord: a 16-bit value, or a difference added in 16 bits.
InCoord(old, v, delta) == IF delta THEN Wrap(old + v) ELSE v

\* The fields that follow the flags; the others keep their values.
Parse(old, values, coords, delta) ==
  [x \in DOMAIN old |->
     IF x \notin DOMAIN values THEN old[x]
     ELSE IF x \in coords THEN InCoord(old[x], values[x], delta) ELSE values[x]]

\* rdp_parse_bounds, not called for RDP_ORDER_LASTBOUNDS.
ParseBounds(old, m) ==
  IF m.bounded = "new" THEN Parse(old, m.sides, Sides, m.bdelta) ELSE old

\* The order type and the field flags are read as the server wrote them.
Understood(m) ==
  /\ (IF m.change THEN m.type ELSE client.order_type) = m.type
  /\ PresentBytes(Size(m.type), m.zero) = ServerBytes(m.type) - m.zero

\* One primary order of process_orders.
PrimaryOrder(m) ==
  LET t == m.type
      bounds == ParseBounds(client.bounds, m)
      fields == Parse(client.fields[t], m.values, Layout[t].coords, m.delta)
      inForce == IF m.bounded = "no" THEN clip ELSE bounds  \* ui_set_clip
  IN  /\ m.kind = "primary"
      /\ IF Understood(m)
         THEN /\ client' = [client EXCEPT !.order_type = t, !.fields[t] = fields, !.bounds = bounds]
              /\ drawn' = Effect(t, fields, client.cells, inForce)
         ELSE drawn' = Garbage /\ UNCHANGED client
      /\ clip' = IF m.bounded = "no" THEN clip ELSE NoClip    \* ui_reset_clip

UnsignedLength(v) == v                  \* mutant: the cast is dropped

\* (sint16) length
SignedLength(v) == IF v < 32768 THEN v ELSE v - 65536

\* process_secondary_order with process_bmpcache or one of its variants: the
\* next order starts 7 + length bytes after the 6 bytes read so far.
SecondaryOrder(m) ==
  /\ m.kind = "bmpcache"
  /\ client' = [client EXCEPT !.cells[m.cell] = m.bitmap]
  /\ drawn' = IF 6 + SignedLength(m.length) + 7 = m.size THEN Nothing ELSE Garbage
  /\ UNCHANGED clip

\* The end of process_demand_active.
Reactivated(m) ==
  /\ m.kind = "reset"
  /\ client' = ResetOrderState(client, client.cells)
  /\ drawn' = Nothing
  /\ UNCHANGED clip

ProcessOrder ==
  /\ wire # <<>> /\ wire' = Tail(wire)
  /\ \/ PrimaryOrder(Head(wire))
     \/ SecondaryOrder(Head(wire))
     \/ Reactivated(Head(wire))
  /\ UNCHANGED <<server, sent>>

Next == ServerDraws \/ ServerCaches \/ ServerReactivates \/ ProcessOrder

Spec == Init /\ [][Next]_vars

-----------------------------------------------------------------------------
\* Every variable has its type.
TypeOK ==
  /\ client \in States /\ server \in States
  /\ \A t \in Types : client.fields[t] \in FieldValues(t) /\ server.fields[t] \in FieldValues(t)
  /\ clip \in Bounds \cup {NoClip}
  /\ sent \in 0 .. MaxOrders /\ Len(wire) <= MaxInFlight

\* Two copies of the order state agree, and on every cell the server, s, may
\* draw from.
Agree(c, s) ==
  /\ c.order_type = s.order_type /\ c.fields = s.fields /\ c.bounds = s.bounds
  /\ \A x \in Cells : s.cells[x] # NoBitmap => c.cells[x] = s.cells[x]

\* When every order has been processed, g_order_state and the bitmap cache
\* are what the server takes them to be, so that the next order is decoded
\* against the fields it was encoded against; and no clipping is left over.
OrderStatesAgree == wire = <<>> => Agree(client, server) /\ clip = NoClip

\* process_orders draws what the server means: each order with all its
\* fields, with the bitmap the server has cached, clipped to its own bounds
\* and to no others, in the order sent and none twice.
Meant == INSTANCE Canvas
           WITH pending <- [i \in DOMAIN wire |-> wire[i].means], shown <- drawn
DrawsAsMeant == Meant!Spec
=============================================================================
