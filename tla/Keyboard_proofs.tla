-------------------------- MODULE Keyboard_proofs --------------------------
(***************************************************************************)
(* For any keys, any barcodes and any number of key presses, losses of the *)
(* focus and activations: no key sticks in the session, its Caps Lock is   *)
(* the device's, and letters are typed as here.                            *)
(*                                                                         *)
(* The argument replays what is on its way.  Replaying the messages that   *)
(* wait for the window from some keyboard mid leads to one that has no key *)
(* down that is up on the device; replaying the input on its way to the    *)
(* server leads from the session's keyboard to mid; and on the way every   *)
(* letter meets the Caps Lock and the shift it was typed with.  While the  *)
(* focus is elsewhere the first says nothing of the device, and while the  *)
(* session is being activated the second says nothing of the server: the   *)
(* SYNCHRONIZE that ends either restores it.                               *)
(***************************************************************************)
EXTENDS Keyboard, SequenceTheorems, TLAPS

-----------------------------------------------------------------------------
(* Types.                                                                  *)

SessionKeys == Letters \cup {Shift}
Keyboards == [keys : SUBSET SessionKeys, caps : BOOLEAN]
Here == [shift : BOOLEAN, caps : BOOLEAN]

Syncs == [type : {"sync"}, caps : BOOLEAN]
ScanCodes == [type : {"key"}, key : SessionKeys, down : BOOLEAN, here : Here]
Controls == [type : {"confirm", "fonts"}]
Input == Syncs \cup ScanCodes

Messages == [type : {"key"}, key : Keys, down : BOOLEAN, here : Here]
              \cup [type : {"focus"}, here : Here]

KeyEventSet == [key : SessionKeys, down : BOOLEAN]

Types ==
  /\ held \subseteq Keys /\ locked \in BOOLEAN /\ focused \in BOOLEAN
  /\ messages \in Seq(Messages) /\ seen \in BOOLEAN
  /\ gui \in {"loop", "granting", "fonts"}
  /\ typing \in Seq(Seq(KeyEventSet) \ {<<>>})
  /\ scanned \in Seq([key : Letters, shift : BOOLEAN])
  /\ toServer \in Seq(Input \cup Controls)
  /\ toClient \in {<<>>, <<"demand">>, <<"granted">>, <<"fonts">>}
  /\ server \in Keyboards /\ listening \in BOOLEAN

-----------------------------------------------------------------------------
(* Replaying keys.                                                         *)

\* What a message, or the input made of it, does to a keyboard in the session.
IsKey(x) == x.type = "key" /\ x.key # Caps
LockOf(x) == IF x.type = "sync" THEN x.caps ELSE x.here.caps
After(s, x) ==
  IF IsKey(x)
  THEN [keys |-> IF x.down THEN s.keys \cup {x.key} ELSE s.keys \ {x.key}, caps |-> s.caps]
  ELSE [keys |-> {}, caps |-> LockOf(x)]

\* A key meets the lock of its moment, and a letter no shift but its own.
MeetsItsOwn(s, x) ==
  IsKey(x) => /\ s.caps = x.here.caps
              /\ x.key \in Letters /\ x.down /\ Shift \in s.keys => x.here.shift

\* The same lock, and no key down that is up in t.
Below(s, t) == s.keys \subseteq t.keys /\ s.caps = t.caps

\* Replaying the sequence q from s leads to t or to what is below it.
Replay(s, q, t) ==
  \E d \in [0 .. Len(q) -> Keyboards] :
    /\ Below(s, d[0]) /\ Below(d[Len(q)], t)
    /\ \A i \in 1 .. Len(q) : MeetsItsOwn(d[i - 1], q[i]) /\ Below(After(d[i - 1], q[i]), d[i])

-----------------------------------------------------------------------------
(* The invariant.                                                          *)

Granted == [keys |-> {}, caps |-> seen]
Fonts == [type |-> "fonts"]
Confirm == [type |-> "confirm"]

\* Where the activation stands.
Handshake ==
  /\ gui = "loop" =>
       /\ toServer \in Seq(Input)
       /\ \/ toClient = <<>>
          \/ toClient = <<"demand">> /\ ~listening
  /\ gui = "granting" =>
       \/ /\ toClient = <<>> /\ ~listening
          /\ \E q \in Seq(Input) : toServer = Append(q, Confirm)
       \/ toClient = <<"granted">> /\ listening /\ toServer = <<>>
  /\ gui = "fonts" =>
       /\ listening
       /\ \/ toClient = <<>> /\ toServer = <<Sync(seen), Fonts>>
          \/ toClient = <<>> /\ toServer = <<Fonts>> /\ server = Granted
          \/ toClient = <<"fonts">> /\ toServer = <<>> /\ server = Granted

\* What the device will have told the window, starting from mid.
FromDevice(mid) ==
  \E end \in Keyboards :
    /\ Replay(mid, messages, end)
    /\ focused => end.keys \subseteq held /\ end.caps = locked

Linked ==
  \E mid \in Keyboards :
    /\ mid.caps = seen /\ FromDevice(mid)
    /\ gui = "loop" /\ listening => Replay(server, toServer, mid)

IInv == Types /\ Handshake /\ Linked

-----------------------------------------------------------------------------
(* Lemmas about replaying.                                                 *)

\* What a key or a SYNCHRONIZE leaves is a keyboard.
LEMMA AfterTyped ==
  ASSUME NEW s \in Keyboards, NEW x \in Messages \cup Input
  PROVE  After(s, x) \in Keyboards
<1>1. CASE IsKey(x)
  <2>1. x.type = "key" /\ x.key # Caps
    BY <1>1 DEF IsKey
  <2>2. x.key \in SessionKeys /\ x.down \in BOOLEAN
    BY <2>1 DEF Messages, Input, Syncs, ScanCodes, Keys, SessionKeys
  <2>3. s.keys \subseteq SessionKeys /\ s.caps \in BOOLEAN
    BY DEF Keyboards
  <2> QED BY <1>1, <2>2, <2>3 DEF After, Keyboards
<1>2. CASE ~IsKey(x)
  <2>1. LockOf(x) \in BOOLEAN
    BY DEF LockOf, Messages, Input, Syncs, ScanCodes, Here
  <2> QED BY <1>2, <2>1 DEF After, Keyboards
<1> QED BY <1>1, <1>2

\* Below is an order, which keys and SYNCHRONIZE events respect.
LEMMA BelowReflexive == \A s : Below(s, s)
BY DEF Below

\* Two orderings make one.
LEMMA BelowTransitive == \A s, t, u : Below(s, t) /\ Below(t, u) => Below(s, u)
BY DEF Below

\* The same key keeps two keyboards in order.
LEMMA AfterMonotonic == \A s, t, x : Below(s, t) => Below(After(s, x), After(t, x))
BY DEF Below, After

\* A key that meets its own with more keys down does with fewer.
LEMMA MeetsMonotonic == \A s, t, x : Below(s, t) /\ MeetsItsOwn(t, x) => MeetsItsOwn(s, x)
BY DEF Below, MeetsItsOwn

\* One event, two events, and one after the other.
LEMMA ShortSequences ==
  \A S : \A a \in S, b \in S : <<a>> \in Seq(S) \ {<<>>} /\ <<a, b>> \in Seq(S) \ {<<>>}
<1> SUFFICES ASSUME NEW S, NEW a \in S, NEW b \in S
             PROVE  <<a>> \in Seq(S) \ {<<>>} /\ <<a, b>> \in Seq(S) \ {<<>>}
  OBVIOUS
<1>1. <<a>> \in Seq(S) /\ <<a, b>> \in Seq(S)
  OBVIOUS
<1>2. Len(<<a>>) = 1 /\ Len(<<a, b>>) = 2 /\ Len(<<>>) = 0
  OBVIOUS
<1> QED BY <1>1, <1>2

\* One part of a barcode's events after another.
LEMMA JoinedSequences ==
  \A S : \A s \in Seq(S) \ {<<>>}, t \in Seq(S) : s \o t \in Seq(S) \ {<<>>}
<1> SUFFICES ASSUME NEW S, NEW s \in Seq(S) \ {<<>>}, NEW t \in Seq(S)
             PROVE  s \o t \in Seq(S) \ {<<>>}
  OBVIOUS
<1>1. Len(s) \in Nat \ {0} /\ Len(t) \in Nat
  BY EmptySeq, LenProperties
<1>2. s \o t \in Seq(S) /\ Len(s \o t) = Len(s) + Len(t)
  BY ConcatProperties
<1>3. Len(s \o t) # 0 /\ Len(<<>>) = 0
  BY <1>1, <1>2
<1> QED BY <1>2, <1>3

\* Replaying nothing changes nothing.
LEMMA ReplayNothing ==
  ASSUME NEW s \in Keyboards, NEW t \in Keyboards
  PROVE  Replay(s, <<>>, t) <=> Below(s, t)
<1>1. Len(<<>>) = 0
  OBVIOUS
<1>2. ASSUME Replay(s, <<>>, t) PROVE Below(s, t)
  BY <1>1, <1>2, BelowTransitive DEF Replay
<1>3. ASSUME Below(s, t) PROVE Replay(s, <<>>, t)
  <2> DEFINE d == [i \in 0 .. 0 |-> s]
  <2>1. d \in [0 .. 0 -> Keyboards] /\ d[0] = s
    OBVIOUS
  <2> HIDE DEF d
  <2>2. Below(s, d[0]) /\ Below(d[0], t)
    BY <1>3, <2>1, BelowReflexive
  <2>3. \A i \in 1 .. 0 : FALSE
    OBVIOUS
  <2> QED BY <1>1, <2>1, <2>2, <2>3 DEF Replay
<1> QED BY <1>2, <1>3

\* One more message at the end of a replay.
LEMMA ReplayAppend ==
  ASSUME NEW S, NEW q \in Seq(S), NEW x \in Messages \cup Input, NEW s, NEW t \in Keyboards,
         NEW u \in Keyboards,
         Replay(s, q, t), MeetsItsOwn(t, x), Below(After(t, x), u)
  PROVE  Replay(s, Append(q, x), u)
<1> DEFINE n == Len(q)
           r == Append(q, x)
<1>1. n \in Nat /\ Len(r) = n + 1 /\ r[n + 1] = x /\ \A i \in 1 .. n : r[i] = q[i]
  <2>1. q \in Seq(S \cup {x}) /\ x \in S \cup {x}
    BY SeqMonotonic
  <2> QED BY <2>1, AppendProperties, LenProperties
<1>2. PICK d \in [0 .. n -> Keyboards] :
        /\ Below(s, d[0]) /\ Below(d[n], t)
        /\ \A i \in 1 .. n : MeetsItsOwn(d[i - 1], q[i]) /\ Below(After(d[i - 1], q[i]), d[i])
  BY DEF Replay
<1> DEFINE e == [i \in 0 .. n + 1 |-> IF i = n + 1 THEN u ELSE d[i]]
<1>3. e \in [0 .. n + 1 -> Keyboards]
  BY <1>1
<1>4. e[n + 1] = u /\ \A i \in 0 .. n : e[i] = d[i]
  BY <1>1
<1> HIDE DEF e, r
<1>5. Below(s, e[0]) /\ Below(e[n + 1], u)
  BY <1>1, <1>2, <1>4, BelowReflexive
<1>6. ASSUME NEW i \in 1 .. n + 1
      PROVE  MeetsItsOwn(e[i - 1], r[i]) /\ Below(After(e[i - 1], r[i]), e[i])
  <2>1. CASE i = n + 1
    <3>1. e[i - 1] = d[n] /\ e[i] = u /\ r[i] = x
      BY <1>1, <1>4, <2>1
    <3> QED BY <1>2, <3>1, AfterMonotonic, MeetsMonotonic, BelowTransitive
  <2>2. CASE i # n + 1
    <3>1. i \in 1 .. n /\ i \in 0 .. n /\ i - 1 \in 0 .. n
      BY <1>1, <2>2
    <3> QED BY <1>1, <1>2, <1>4, <3>1
  <2> QED BY <2>1, <2>2
<1>7. Replay(s, r, u)
  BY <1>1, <1>3, <1>5, <1>6 DEF Replay
<1> QED BY <1>7 DEF r

\* The first message of a replay, and the replay of the rest.
LEMMA ReplayHead ==
  ASSUME NEW S, NEW q \in Seq(S), q # <<>>, NEW s, NEW t, Replay(s, q, t)
  PROVE  \E u \in Keyboards : /\ MeetsItsOwn(s, Head(q)) /\ Below(After(s, Head(q)), u)
                              /\ Replay(u, Tail(q), t)
<1> DEFINE n == Len(q)
           r == Tail(q)
<1>1. n \in Nat /\ n > 0 /\ Head(q) = q[1]
  BY EmptySeq
<1>2. Len(r) = n - 1 /\ \A i \in 1 .. n - 1 : r[i] = q[i + 1]
  BY <1>1, HeadTailProperties
<1>3. PICK d \in [0 .. n -> Keyboards] :
        /\ Below(s, d[0]) /\ Below(d[n], t)
        /\ \A i \in 1 .. n : MeetsItsOwn(d[i - 1], q[i]) /\ Below(After(d[i - 1], q[i]), d[i])
  BY DEF Replay
<1> DEFINE e == [i \in 0 .. n - 1 |-> d[i + 1]]
<1>4. e \in [0 .. n - 1 -> Keyboards] /\ \A i \in 0 .. n - 1 : e[i] = d[i + 1]
  BY <1>1
<1> HIDE DEF e, r
<1>5. e[0] = d[1] /\ e[n - 1] = d[n] /\ d[1] \in Keyboards
  BY <1>1, <1>4
<1>6. ASSUME NEW i \in 1 .. n - 1
      PROVE  MeetsItsOwn(e[i - 1], r[i]) /\ Below(After(e[i - 1], r[i]), e[i])
  <2>1. i + 1 \in 1 .. n /\ i \in 0 .. n - 1 /\ i - 1 \in 0 .. n - 1 /\ i + 1 - 1 = i
    BY <1>1
  <2>2. e[i - 1] = d[i] /\ e[i] = d[i + 1] /\ r[i] = q[i + 1]
    BY <1>2, <1>4, <2>1
  <2> QED BY <1>3, <2>1, <2>2
<1>7. Replay(d[1], r, t)
  BY <1>2, <1>3, <1>4, <1>5, <1>6, BelowReflexive DEF Replay
<1>8. MeetsItsOwn(d[0], q[1]) /\ Below(After(d[0], q[1]), d[1])
  BY <1>1, <1>3
<1>9. MeetsItsOwn(s, q[1]) /\ Below(After(s, q[1]), d[1])
  BY <1>3, <1>8, AfterMonotonic, MeetsMonotonic, BelowTransitive
<1> QED BY <1>1, <1>5, <1>7, <1>9 DEF r

\* A replay does as well with fewer keys down at its start.
LEMMA ReplayBelow ==
  ASSUME NEW q, NEW s, NEW t, NEW u, Below(s, u), Replay(u, q, t)
  PROVE  Replay(s, q, t)
BY BelowTransitive DEF Replay

-----------------------------------------------------------------------------
(* The initial state.                                                      *)

\* The initial state satisfies the invariant.
LEMMA InitInv == Init => IInv
<1> SUFFICES ASSUME Init PROVE IInv
  OBVIOUS
<1>1. /\ held = {} /\ locked \in BOOLEAN /\ focused = TRUE /\ messages = <<>> /\ seen = locked
      /\ gui = "loop" /\ typing = <<>> /\ scanned = <<>> /\ toServer = <<>> /\ toClient = <<>>
      /\ server = [keys |-> {}, caps |-> FALSE] /\ listening = FALSE
  BY DEF Init
<1>2. Types
  BY <1>1, EmptySeq DEF Types, Keyboards
<1>3. Handshake
  BY <1>1, EmptySeq DEF Handshake
<1>4. Linked
  <2>1. Granted \in Keyboards /\ Granted.caps = seen /\ Granted.keys = {}
    BY <1>1 DEF Granted, Keyboards
  <2>2. Replay(Granted, messages, Granted)
    BY <1>1, <2>1, ReplayNothing, BelowReflexive
  <2>3. FromDevice(Granted)
    BY <1>1, <2>1, <2>2 DEF FromDevice
  <2> QED BY <1>1, <2>1, <2>3 DEF Linked
<1> QED BY <1>2, <1>3, <1>4 DEF IInv

-----------------------------------------------------------------------------
(* The device.                                                             *)

\* A key keeps the types of the device.
LEMMA KeyTypes ==
  ASSUME Types, NEW k \in Keys, NEW down \in BOOLEAN, Key(k, down)
  PROVE  /\ held' \subseteq Keys /\ locked' \in BOOLEAN /\ focused' \in BOOLEAN
         /\ messages' \in Seq(Messages)
<1> DEFINE x == [type |-> "key", key |-> k, down |-> down, here |-> Typed(held', locked')]
<1>1. held' \subseteq Keys /\ locked' \in BOOLEAN /\ focused' \in BOOLEAN
  BY DEF Key, Types
<1>2. Typed(held', locked') \in Here
  BY <1>1 DEF Typed, Here
<1>3. x \in Messages
  BY <1>2 DEF Messages
<1>4. messages' = Append(messages, x) \/ messages' = messages
  BY DEF Key
<1>5. messages \in Seq(Messages)
  BY DEF Types
<1> QED BY <1>1, <1>3, <1>4, <1>5, AppendProperties

\* A key goes down or up.
LEMMA KeyLinked ==
  ASSUME Types, NEW mid \in Keyboards, FromDevice(mid),
         NEW k \in Keys, NEW down \in BOOLEAN, Key(k, down)
  PROVE  FromDevice(mid)'
<1>1. PICK end \in Keyboards :
        /\ Replay(mid, messages, end)
        /\ focused => end.keys \subseteq held /\ end.caps = locked
  BY DEF FromDevice
<1>2. CASE ~focused
  <2>1. messages' = messages /\ ~focused'
    BY <1>2 DEF Key
  <2> QED BY <1>1, <2>1 DEF FromDevice
<1>3. CASE focused
  <2> DEFINE x == [type |-> "key", key |-> k, down |-> down, here |-> Typed(held', locked')]
             u == After(end, x)
  <2>1. /\ messages' = Append(messages, x)
        /\ held' = (IF down THEN held \cup {k} ELSE held \ {k})
        /\ locked' = (IF k = Caps /\ down /\ k \notin held THEN ~locked ELSE locked)
    BY <1>3 DEF Key
  <2>2. held' \subseteq Keys /\ locked' \in BOOLEAN
    BY KeyTypes
  <2>3. Typed(held', locked') = [shift |-> Shift \in held', caps |-> locked']
    BY DEF Typed
  <2>4. /\ x.type = "key" /\ x.key = k /\ x.down = down
        /\ x.here.shift = (Shift \in held') /\ x.here.caps = locked'
    BY <2>3
  <2>5. x \in Messages
    BY <2>2, <2>3 DEF Messages, Here
  <2> HIDE DEF x
  <2>6. MeetsItsOwn(end, x)
    <3>1. CASE k = Caps
      BY <2>4, <3>1 DEF MeetsItsOwn, IsKey
    <3>2. CASE k # Caps
      <4>1. locked' = locked /\ end.caps = locked'
        BY <1>1, <1>3, <2>1, <3>2
      <4>2. ASSUME k \in Letters, down, Shift \in end.keys PROVE Shift \in held'
        BY <1>1, <1>3, <2>1, <4>2
      <4> QED BY <2>4, <4>1, <4>2 DEF MeetsItsOwn
    <3> QED BY <3>1, <3>2
  <2>7. u \in Keyboards
    BY <2>5, AfterTyped
  <2>8. u.keys \subseteq held' /\ u.caps = locked'
    <3>1. CASE k = Caps
      BY <2>4, <3>1 DEF After, IsKey, LockOf
    <3>2. CASE k # Caps
      <4>1. u = [keys |-> IF down THEN end.keys \cup {k} ELSE end.keys \ {k}, caps |-> end.caps]
        BY <2>4, <3>2 DEF After, IsKey
      <4>2. locked' = locked
        BY <2>1, <3>2
      <4> QED BY <1>1, <1>3, <2>1, <4>1, <4>2
    <3> QED BY <3>1, <3>2
  <2> HIDE DEF u
  <2>9. Replay(mid, messages', u)
    <3>1. messages \in Seq(Messages)
      BY DEF Types
    <3>2. Below(After(end, x), u)
      BY BelowReflexive DEF u
    <3>3. x \in Messages \cup Input
      BY <2>5
    <3>4. Replay(mid, Append(messages, x), u)
      BY <1>1, <2>6, <2>7, <3>1, <3>2, <3>3, ReplayAppend
    <3> QED BY <2>1, <3>4
  <2> QED BY <2>7, <2>8, <2>9 DEF FromDevice
<1> QED BY <1>2, <1>3

\* What every step of the device leaves alone.
LEMMA DeviceStep ==
  ASSUME IInv, UNCHANGED <<seen, gui, toServer, toClient, session>>,
         NEW k \in Keys, NEW down \in BOOLEAN, Key(k, down),
         typing' \in Seq(Seq(KeyEventSet) \ {<<>>}), scanned' = scanned
  PROVE  IInv'
<1>1. /\ seen' = seen /\ gui' = gui /\ toServer' = toServer /\ toClient' = toClient
      /\ server' = server /\ listening' = listening
  BY DEF session
<1>2. Types'
  BY <1>1, KeyTypes DEF IInv, Types
<1>3. Handshake'
  BY <1>1 DEF IInv, Handshake, Granted, Sync
<1>4. Linked'
  <2>1. PICK mid \in Keyboards :
          /\ mid.caps = seen /\ FromDevice(mid)
          /\ gui = "loop" /\ listening => Replay(server, toServer, mid)
    BY DEF IInv, Linked
  <2>2. FromDevice(mid)'
    BY <2>1, KeyLinked DEF IInv
  <2> QED BY <1>1, <2>1, <2>2 DEF Linked
<1> QED BY <1>2, <1>3, <1>4 DEF IInv

\* A key pressed by the user.
LEMMA PressStep == IInv /\ Press => IInv'
<1> SUFFICES ASSUME IInv, Press PROVE IInv'
  OBVIOUS
<1>1. PICK k \in Keys : Key(k, TRUE)
  BY DEF Press
<1>2. typing' \in Seq(Seq(KeyEventSet) \ {<<>>}) /\ scanned' = scanned
  BY DEF Press, IInv, Types
<1>3. UNCHANGED <<seen, gui, toServer, toClient, session>>
  BY DEF Press
<1> QED BY <1>1, <1>2, <1>3, DeviceStep

\* A key released by the user.
LEMMA ReleaseStep == IInv /\ Release => IInv'
<1> SUFFICES ASSUME IInv, Release PROVE IInv'
  OBVIOUS
<1>1. PICK k \in held : Key(k, FALSE)
  BY DEF Release
<1>2. k \in Keys /\ typing' \in Seq(Seq(KeyEventSet) \ {<<>>}) /\ scanned' = scanned
  BY DEF Release, IInv, Types
<1>3. UNCHANGED <<seen, gui, toServer, toClient, session>>
  BY DEF Release
<1> QED BY <1>1, <1>2, <1>3, DeviceStep

\* A key of a barcode, typed by SendKeys.
LEMMA KeybdEventStep == IInv /\ KeybdEvent => IInv'
<1> SUFFICES ASSUME IInv, KeybdEvent PROVE IInv'
  OBVIOUS
<1> DEFINE now == Head(typing)
           T == Seq(KeyEventSet) \ {<<>>}
<1>1. typing # <<>> /\ typing \in Seq(T)
  BY DEF KeybdEvent, IInv, Types
<1>2. now \in Seq(KeyEventSet) /\ now # <<>> /\ Tail(typing) \in Seq(T)
  BY <1>1, HeadTailProperties
<1>3. Head(now) \in KeyEventSet /\ Tail(now) \in Seq(KeyEventSet) /\ Len(Tail(now)) = Len(now) - 1
  BY <1>2, HeadTailProperties
<1>4. Head(now).key \in Keys /\ Head(now).down \in BOOLEAN
  BY <1>3 DEF KeyEventSet, SessionKeys, Keys
<1>5. /\ Key(Head(now).key, Head(now).down)
      /\ typing' = (IF Len(now) = 1 THEN Tail(typing) ELSE <<Tail(now)>> \o Tail(typing))
      /\ scanned' = scanned /\ UNCHANGED <<seen, gui, toServer, toClient, session>>
  BY DEF KeybdEvent
<1>6. typing' \in Seq(T)
  <2>1. CASE Len(now) = 1
    BY <1>2, <1>5, <2>1
  <2>2. CASE Len(now) # 1
    <3>1. Len(now) \in Nat /\ Len(now) > 0
      BY <1>2, EmptySeq
    <3>2. Len(Tail(now)) # 0 /\ Len(<<>>) = 0
      BY <1>3, <2>2, <3>1
    <3>3. Tail(now) \in T
      BY <1>3, <3>2
    <3> HIDE DEF now, T
    <3>4. <<Tail(now)>> \in Seq(T)
      BY <3>3, ShortSequences
    <3> QED BY <1>2, <1>5, <2>2, <3>4, ConcatProperties
  <2> QED BY <2>1, <2>2
<1> QED BY <1>4, <1>5, <1>6, DeviceStep

\* Without the focus the window is told nothing, and promises nothing.
LEMMA LoseFocusStep == IInv /\ LoseFocus => IInv'
<1> SUFFICES ASSUME IInv, LoseFocus PROVE IInv'
  OBVIOUS
<1>1. /\ focused' = FALSE /\ held' = held /\ locked' = locked /\ messages' = messages
      /\ seen' = seen /\ gui' = gui /\ typing' = typing /\ scanned' = scanned
      /\ toServer' = toServer /\ toClient' = toClient /\ server' = server
      /\ listening' = listening
  BY DEF LoseFocus, session
<1>2. Types'
  BY <1>1 DEF IInv, Types
<1>3. Handshake'
  BY <1>1 DEF IInv, Handshake, Granted, Sync
<1>4. Linked'
  BY <1>1 DEF IInv, Linked, FromDevice
<1> QED BY <1>2, <1>3, <1>4 DEF IInv

\* The focus comes with a message that releases every key in the session.
LEMMA GainFocusStep == IInv /\ GainFocus => IInv'
<1> SUFFICES ASSUME IInv, GainFocus PROVE IInv'
  OBVIOUS
<1> DEFINE x == [type |-> "focus", here |-> Typed(held, locked)]
           u == [keys |-> {}, caps |-> locked]
<1>1. /\ focused' = TRUE /\ held' = held /\ locked' = locked /\ messages' = Append(messages, x)
      /\ seen' = seen /\ gui' = gui /\ typing' = typing /\ scanned' = scanned
      /\ toServer' = toServer /\ toClient' = toClient /\ server' = server
      /\ listening' = listening
  BY DEF GainFocus, session
<1>2. Typed(held, locked) \in Here /\ Typed(held, locked).caps = locked
  BY DEF Typed, Here, IInv, Types
<1>3. x \in Messages /\ x.type = "focus" /\ x.here.caps = locked
  BY <1>2 DEF Messages
<1>4. u \in Keyboards /\ u.keys = {} /\ u.caps = locked
  BY DEF Keyboards, IInv, Types
<1> HIDE DEF x
<1>5. Types'
  <2>1. messages \in Seq(Messages)
    BY DEF IInv, Types
  <2>2. messages' \in Seq(Messages)
    BY <1>1, <1>3, <2>1, AppendProperties
  <2> QED BY <1>1, <2>2 DEF IInv, Types
<1>6. Handshake'
  BY <1>1 DEF IInv, Handshake, Granted, Sync
<1>7. Linked'
  <2>1. PICK mid \in Keyboards :
          /\ mid.caps = seen /\ FromDevice(mid)
          /\ gui = "loop" /\ listening => Replay(server, toServer, mid)
    BY DEF IInv, Linked
  <2>2. PICK end \in Keyboards : Replay(mid, messages, end)
    BY <2>1 DEF FromDevice
  <2>3. MeetsItsOwn(end, x) /\ After(end, x) = u
    BY <1>3 DEF MeetsItsOwn, After, IsKey, LockOf
  <2> HIDE DEF u
  <2>4. messages \in Seq(Messages) /\ x \in Messages \cup Input
    BY <1>3 DEF IInv, Types
  <2>5. Below(After(end, x), u)
    BY <2>3, BelowReflexive
  <2>6. Replay(mid, messages', u)
    BY <1>1, <1>4, <2>2, <2>3, <2>4, <2>5, ReplayAppend
  <2>7. FromDevice(mid)'
    BY <1>1, <1>4, <2>6 DEF FromDevice
  <2> QED BY <1>1, <2>1, <2>7 DEF Linked
<1> QED BY <1>5, <1>6, <1>7 DEF IInv

\* A barcode scanned changes no key.
LEMMA ScanStep == IInv /\ Scan => IInv'
<1> SUFFICES ASSUME IInv, Scan PROVE IInv'
  OBVIOUS
<1>1. /\ focused' = focused /\ held' = held /\ locked' = locked /\ messages' = messages
      /\ seen' = seen /\ gui' = gui /\ typing' = typing
      /\ toServer' = toServer /\ toClient' = toClient /\ server' = server
      /\ listening' = listening
  BY DEF Scan, session, device
<1>2. scanned' \in Seq([key : Letters, shift : BOOLEAN])
  BY KeyboardAssumption DEF Scan
<1>3. Types'
  BY <1>1, <1>2 DEF IInv, Types
<1>4. Handshake'
  BY <1>1 DEF IInv, Handshake, Granted, Sync
<1>5. Linked'
  BY <1>1 DEF IInv, Linked, FromDevice
<1> QED BY <1>3, <1>4, <1>5 DEF IInv

\* SendKeys sends a few events for every character, and only letters and Shift.
LEMMA WmHaveScanStep == IInv /\ WmHaveScan => IInv'
<1> SUFFICES ASSUME IInv, WmHaveScan PROVE IInv'
  OBVIOUS
<1> DEFINE C == [key : Letters, shift : BOOLEAN]
           T == Seq(KeyEventSet) \ {<<>>}
<1>1. /\ focused' = focused /\ held' = held /\ locked' = locked /\ messages' = messages
      /\ seen' = seen /\ gui' = gui /\ toServer' = toServer /\ toClient' = toClient
      /\ server' = server /\ listening' = listening /\ scanned' = <<>>
      /\ typing' = [i \in DOMAIN scanned |-> KeyEvents(scanned[i])]
  BY DEF WmHaveScan, session, device
<1>2. scanned \in Seq(C)
  BY DEF IInv, Types
<1>3. \A c \in C : KeyEvents(c) \in T
  <2> SUFFICES ASSUME NEW c \in C PROVE KeyEvents(c) \in T
    OBVIOUS
  <2> DEFINE E(k, down) == [key |-> k, down |-> down]
             Pair == <<E(c.key, TRUE), E(c.key, FALSE)>>
             Wrapped == <<E(Shift, TRUE)>> \o Pair \o <<E(Shift, FALSE)>>
  <2>1. \A k \in SessionKeys, down \in BOOLEAN : E(k, down) \in KeyEventSet
    BY DEF KeyEventSet
  <2>2. c.key \in SessionKeys /\ Shift \in SessionKeys
    BY DEF SessionKeys
  <2>3. /\ E(c.key, TRUE) \in KeyEventSet /\ E(c.key, FALSE) \in KeyEventSet
        /\ E(Shift, TRUE) \in KeyEventSet /\ E(Shift, FALSE) \in KeyEventSet
    BY <2>1, <2>2
  <2>4. KeyEvents(c) = IF c.shift THEN Wrapped ELSE Pair
    BY DEF KeyEvents
  <2> HIDE DEF E, T
  <2>5. Pair \in Seq(KeyEventSet) \ {<<>>}
    BY <2>3, ShortSequences
  <2>6. <<E(Shift, TRUE)>> \o Pair \in Seq(KeyEventSet) \ {<<>>}
    BY <2>3, <2>5, ShortSequences, JoinedSequences
  <2>7. Wrapped \in Seq(KeyEventSet) \ {<<>>}
    <3> DEFINE V == <<E(Shift, TRUE)>> \o Pair
               U == <<E(Shift, FALSE)>>
    <3>1. V \in Seq(KeyEventSet) \ {<<>>} /\ U \in Seq(KeyEventSet)
      BY <2>3, <2>6, ShortSequences
    <3>2. Wrapped = V \o U
      OBVIOUS
    <3> HIDE DEF V, U, Wrapped
    <3> QED BY <3>1, <3>2, JoinedSequences
  <2> QED BY <2>4, <2>5, <2>7 DEF T
<1> HIDE DEF T
<1>4. typing' \in Seq(T)
  <2>1. DOMAIN scanned = 1 .. Len(scanned) /\ Len(scanned) \in Nat
    BY <1>2, LenProperties
  <2>2. \A i \in 1 .. Len(scanned) : KeyEvents(scanned[i]) \in T
    BY <1>2, <1>3, ElementOfSeq
  <2>3. typing' \in [1 .. Len(scanned) -> T]
    BY <1>1, <2>1, <2>2
  <2> QED BY <2>1, <2>3, SeqDef
<1>5. Types'
  BY <1>1, <1>4, EmptySeq DEF IInv, Types, T
<1>6. Handshake'
  BY <1>1 DEF IInv, Handshake, Granted, Sync
<1>7. Linked'
  BY <1>1 DEF IInv, Linked, FromDevice
<1> QED BY <1>5, <1>6, <1>7 DEF IInv

-----------------------------------------------------------------------------
(* The client.                                                             *)

\* What the window procedure sends for a message does to the session's
\* keyboard what the message says.
LEMMA InputOfMessage ==
  ASSUME IInv, WndProc, NEW m \in Messages, m = Head(messages)
  PROVE  \E y \in Input : /\ toServer' = toServer \o <<y>>
                          /\ \A s : After(s, y) = After(s, m)
                          /\ \A s : MeetsItsOwn(s, m) => MeetsItsOwn(s, y)
<1>1. /\ seen' = m.here.caps /\ seen' \in BOOLEAN
      /\ toServer' = toServer \o (IF m.type = "key" THEN KeyInput(m) ELSE FocusInput)
  BY DEF WndProc, Messages, Here
<1>2. CASE m.type = "key" /\ m.key # Caps
  <2> DEFINE y == ScanCode(m)
  <2>1. /\ m.key \in SessionKeys /\ m.down \in BOOLEAN /\ m.here \in Here
    BY <1>2 DEF Messages, SessionKeys, Keys
  <2>2. y = [type |-> "key", key |-> m.key, down |-> m.down, here |-> m.here]
    BY DEF ScanCode
  <2>3. y \in Input
    BY <2>1, <2>2 DEF Input, ScanCodes
  <2>4. toServer' = toServer \o <<y>>
    BY <1>1, <1>2 DEF KeyInput
  <2>5. y.type = "key" /\ y.key = m.key /\ y.down = m.down /\ y.here = m.here
    BY <2>2
  <2> HIDE DEF y
  <2>6. \A s : After(s, y) = After(s, m)
    BY <1>2, <2>5 DEF After, IsKey
  <2>7. \A s : MeetsItsOwn(s, m) => MeetsItsOwn(s, y)
    BY <1>2, <2>5 DEF MeetsItsOwn, IsKey
  <2> QED BY <2>3, <2>4, <2>6, <2>7
<1>3. CASE ~(m.type = "key" /\ m.key # Caps)
  <2> DEFINE y == Sync(seen')
  <2>1. y = [type |-> "sync", caps |-> seen']
    BY DEF Sync
  <2>2. y \in Input
    BY <1>1, <2>1 DEF Input, Syncs
  <2>3. toServer' = toServer \o <<y>>
    BY <1>1, <1>3 DEF KeyInput, FocusInput, ReadKeyboardState
  <2>4. y.type = "sync" /\ y.caps = seen' /\ m.type # "sync"
    BY <2>1 DEF Messages
  <2> HIDE DEF y
  <2>5. \A s : After(s, y) = After(s, m)
    BY <1>1, <1>3, <2>4 DEF After, IsKey, LockOf
  <2>6. \A s : MeetsItsOwn(s, y)
    BY <2>4 DEF MeetsItsOwn, IsKey
  <2> QED BY <2>2, <2>3, <2>5, <2>6
<1> QED BY <1>2, <1>3

\* A message moves from one replay to the other.
LEMMA WndProcStep == IInv /\ WndProc => IInv'
<1> SUFFICES ASSUME IInv, WndProc PROVE IInv'
  OBVIOUS
<1>1. /\ gui = "loop" /\ messages # <<>> /\ messages' = Tail(messages)
      /\ held' = held /\ locked' = locked /\ focused' = focused /\ gui' = gui
      /\ typing' = typing /\ scanned' = scanned /\ toClient' = toClient
      /\ server' = server /\ listening' = listening /\ seen' = Head(messages).here.caps
  BY DEF WndProc, InLoop, session
<1>2. messages \in Seq(Messages) /\ toServer \in Seq(Input)
  BY <1>1 DEF IInv, Types, Handshake
<1>3. PICK m \in Messages : m = Head(messages)
  BY <1>1, <1>2, HeadTailProperties
<1>4. PICK y \in Input : /\ toServer' = toServer \o <<y>>
                         /\ \A s : After(s, y) = After(s, m)
                         /\ \A s : MeetsItsOwn(s, m) => MeetsItsOwn(s, y)
  BY <1>3, InputOfMessage
<1>5. toServer' = Append(toServer, y)
  BY <1>2, <1>4, AppendIsConcat
<1>6. toServer' \in Seq(Input) /\ toServer' \in Seq(Input \cup Controls)
  BY <1>2, <1>5, AppendProperties, SeqMonotonic
<1>7. messages' \in Seq(Messages) /\ seen' \in BOOLEAN
  BY <1>1, <1>2, <1>3, HeadTailProperties DEF Messages, Here
<1>8. Types'
  BY <1>1, <1>6, <1>7 DEF IInv, Types
<1>9. Handshake'
  BY <1>1, <1>6 DEF IInv, Handshake
<1>10. Linked'
  <2>1. PICK mid \in Keyboards :
          /\ mid.caps = seen /\ FromDevice(mid)
          /\ listening => Replay(server, toServer, mid)
    BY <1>1 DEF IInv, Linked
  <2>2. PICK end \in Keyboards :
          /\ Replay(mid, messages, end)
          /\ focused => end.keys \subseteq held /\ end.caps = locked
    BY <2>1 DEF FromDevice
  <2>3. PICK u \in Keyboards :
          /\ MeetsItsOwn(mid, m) /\ Below(After(mid, m), u) /\ Replay(u, messages', end)
    BY <1>1, <1>2, <1>3, <2>2, ReplayHead
  <2>4. u.caps = seen'
    <3>1. u.caps = After(mid, m).caps
      BY <2>3 DEF Below
    <3>2. After(mid, m).caps = m.here.caps
      <4>1. CASE IsKey(m)
        BY <2>3, <4>1 DEF After, MeetsItsOwn
      <4>2. CASE ~IsKey(m)
        BY <4>2 DEF After, LockOf, Messages
      <4> QED BY <4>1, <4>2
    <3> QED BY <1>1, <1>3, <3>1, <3>2
  <2>5. FromDevice(u)'
    BY <1>1, <2>2, <2>3 DEF FromDevice
  <2>6. ASSUME listening PROVE Replay(server, toServer', u)
    <3>1. Replay(server, toServer, mid)
      BY <2>1, <2>6
    <3>2. MeetsItsOwn(mid, y) /\ Below(After(mid, y), u) /\ y \in Messages \cup Input
      BY <1>4, <2>3
    <3>3. Replay(server, Append(toServer, y), u)
      BY <1>2, <2>3, <3>1, <3>2, ReplayAppend
    <3> QED BY <1>5, <3>3
  <2> QED BY <1>1, <2>4, <2>5, <2>6 DEF Linked
<1> QED BY <1>8, <1>9, <1>10 DEF IInv

\* Resizing the window releases the session's keys and sets the lock it has.
LEMMA WmSizeStep == IInv /\ WmSize => IInv'
<1> SUFFICES ASSUME IInv, WmSize PROVE IInv'
  OBVIOUS
<1> DEFINE y == Sync(seen)
<1>1. /\ gui = "loop" /\ gui' = gui /\ toServer' = Append(toServer, y)
      /\ held' = held /\ locked' = locked /\ focused' = focused /\ messages' = messages
      /\ seen' = seen /\ typing' = typing /\ scanned' = scanned /\ toClient' = toClient
      /\ server' = server /\ listening' = listening
  BY DEF WmSize, InLoop, session, device, ReadKeyboardState
<1>2. toServer \in Seq(Input) /\ seen \in BOOLEAN
  BY <1>1 DEF IInv, Types, Handshake
<1>3. y \in Input /\ y.type = "sync" /\ y.caps = seen
  BY <1>2 DEF Sync, Input, Syncs
<1> HIDE DEF y
<1>4. toServer' \in Seq(Input) /\ toServer' \in Seq(Input \cup Controls)
  BY <1>1, <1>2, <1>3, AppendProperties, SeqMonotonic
<1>5. Types'
  BY <1>1, <1>4 DEF IInv, Types
<1>6. Handshake'
  BY <1>1, <1>4 DEF IInv, Handshake
<1>7. Linked'
  <2>1. PICK mid \in Keyboards :
          /\ mid.caps = seen /\ FromDevice(mid)
          /\ listening => Replay(server, toServer, mid)
    BY <1>1 DEF IInv, Linked
  <2>2. FromDevice(mid)'
    BY <1>1, <2>1 DEF FromDevice
  <2>3. MeetsItsOwn(mid, y) /\ Below(After(mid, y), mid)
    BY <1>3, <2>1 DEF MeetsItsOwn, Below, After, IsKey, LockOf
  <2>4. ASSUME listening PROVE Replay(server, toServer', mid)
    <3>1. Replay(server, toServer, mid)
      BY <2>1, <2>4
    <3>2. Replay(server, Append(toServer, y), mid)
      BY <1>2, <1>3, <2>3, <3>1, ReplayAppend
    <3> QED BY <1>1, <3>2
  <2> QED BY <1>1, <2>1, <2>2, <2>4 DEF Linked
<1> QED BY <1>5, <1>6, <1>7 DEF IInv

\* From here the input on its way is no longer followed.
LEMMA DemandActiveStep == IInv /\ DemandActive => IInv'
<1> SUFFICES ASSUME IInv, DemandActive PROVE IInv'
  OBVIOUS
<1>1. /\ gui = "loop" /\ toClient # <<>> /\ gui' = "granting" /\ toClient' = Tail(toClient)
      /\ toServer' = Append(toServer, Confirm)
      /\ held' = held /\ locked' = locked /\ focused' = focused /\ messages' = messages
      /\ seen' = seen /\ typing' = typing /\ scanned' = scanned
      /\ server' = server /\ listening' = listening
  BY DEF DemandActive, InLoop, session, device, Confirm
<1>2. toServer \in Seq(Input) /\ toClient = <<"demand">> /\ ~listening
  BY <1>1 DEF IInv, Handshake
<1>3. toClient' = <<>>
  BY <1>1, <1>2
<1>4. toServer' \in Seq(Input \cup Controls)
  <2>1. toServer \in Seq(Input \cup Controls) /\ Confirm \in Input \cup Controls
    BY <1>2, SeqMonotonic DEF Confirm, Controls
  <2> QED BY <1>1, <2>1, AppendProperties
<1>5. Types'
  BY <1>1, <1>3, <1>4 DEF IInv, Types
<1>6. Handshake'
  BY <1>1, <1>2, <1>3 DEF Handshake
<1>7. Linked'
  BY <1>1 DEF IInv, Linked, FromDevice
<1> QED BY <1>5, <1>6, <1>7 DEF IInv

\* The SYNCHRONIZE of process_demand_active carries the lock of the last message.
LEMMA ControlGrantedStep == IInv /\ ControlGranted => IInv'
<1> SUFFICES ASSUME IInv, ControlGranted PROVE IInv'
  OBVIOUS
<1>1. /\ gui = "granting" /\ toClient # <<>> /\ gui' = "fonts" /\ toClient' = Tail(toClient)
      /\ toServer' = toServer \o <<Sync(seen), Fonts>>
      /\ held' = held /\ locked' = locked /\ focused' = focused /\ messages' = messages
      /\ seen' = seen /\ typing' = typing /\ scanned' = scanned
      /\ server' = server /\ listening' = listening
  BY DEF ControlGranted, session, device, GrantedInput, ReadKeyboardState, Fonts
<1>2. toServer = <<>> /\ toClient = <<"granted">> /\ listening
  BY <1>1 DEF IInv, Handshake
<1>3. toClient' = <<>>
  BY <1>1, <1>2
<1>4. Sync(seen) \in Input \cup Controls /\ Fonts \in Input \cup Controls
  BY DEF Sync, Fonts, Input, Syncs, Controls, IInv, Types
<1>5. toServer' = <<Sync(seen), Fonts>>
  BY <1>1, <1>2
<1>6. toServer' \in Seq(Input \cup Controls)
  BY <1>4, <1>5, ShortSequences
<1>7. Types'
  BY <1>1, <1>3, <1>6 DEF IInv, Types
<1>8. Handshake'
  BY <1>1, <1>2, <1>3, <1>5 DEF Handshake
<1>9. Linked'
  BY <1>1 DEF IInv, Linked, FromDevice
<1> QED BY <1>7, <1>8, <1>9 DEF IInv

\* The SYNCHRONIZE has been taken: the session's keyboard is followed again.
LEMMA FontsAnsweredStep == IInv /\ FontsAnswered => IInv'
<1> SUFFICES ASSUME IInv, FontsAnswered PROVE IInv'
  OBVIOUS
<1>1. /\ gui = "fonts" /\ toClient # <<>> /\ gui' = "loop" /\ toClient' = Tail(toClient)
      /\ toServer' = toServer
      /\ held' = held /\ locked' = locked /\ focused' = focused /\ messages' = messages
      /\ seen' = seen /\ typing' = typing /\ scanned' = scanned
      /\ server' = server /\ listening' = listening
  BY DEF FontsAnswered, session, device
<1>2. toClient = <<"fonts">> /\ toServer = <<>> /\ server = Granted /\ listening
  BY <1>1 DEF IInv, Handshake
<1>3. toClient' = <<>>
  BY <1>1, <1>2
<1>4. Types'
  BY <1>1, <1>3 DEF IInv, Types
<1>5. Handshake'
  <2>1. toServer' \in Seq(Input)
    BY <1>1, <1>2, EmptySeq
  <2> QED BY <1>1, <1>3, <2>1 DEF Handshake
<1>6. Linked'
  <2>1. PICK mid \in Keyboards : mid.caps = seen /\ FromDevice(mid)
    BY DEF IInv, Linked
  <2>2. server \in Keyboards /\ Below(server, mid)
    BY <1>2, <2>1 DEF IInv, Types, Granted, Below
  <2>3. Replay(server, toServer, mid)
    BY <1>2, <2>2, ReplayNothing
  <2>4. FromDevice(mid)'
    BY <1>1, <2>1 DEF FromDevice
  <2> QED BY <1>1, <2>1, <2>3, <2>4 DEF Linked
<1> QED BY <1>4, <1>5, <1>6 DEF IInv

-----------------------------------------------------------------------------
(* The server.                                                             *)

\* The server stops listening.
LEMMA ServerDemandsStep == IInv /\ ServerDemands => IInv'
<1> SUFFICES ASSUME IInv, ServerDemands PROVE IInv'
  OBVIOUS
<1>1. /\ gui = "loop" /\ listening' = FALSE /\ toClient' = <<"demand">> /\ gui' = gui
      /\ toServer' = toServer
      /\ held' = held /\ locked' = locked /\ focused' = focused /\ messages' = messages
      /\ seen' = seen /\ typing' = typing /\ scanned' = scanned /\ server' = server
  BY DEF ServerDemands, device
<1>2. Types'
  BY <1>1 DEF IInv, Types
<1>3. Handshake'
  BY <1>1 DEF IInv, Handshake
<1>4. Linked'
  BY <1>1 DEF IInv, Linked, FromDevice
<1> QED BY <1>2, <1>3, <1>4 DEF IInv

\* The server takes input while the client is in its loop.
LEMMA ServerHears ==
  ASSUME IInv, ServerTakes, gui = "loop"
  PROVE  IInv'
<1> DEFINE m == Head(toServer)
<1>1. /\ toServer # <<>> /\ toServer' = Tail(toServer) /\ gui' = gui
      /\ held' = held /\ locked' = locked /\ focused' = focused /\ messages' = messages
      /\ seen' = seen /\ typing' = typing /\ scanned' = scanned
  BY DEF ServerTakes, device
<1>2. toServer \in Seq(Input)
  BY DEF IInv, Handshake
<1>3. m \in Input /\ toServer' \in Seq(Input)
  BY <1>1, <1>2, HeadTailProperties
<1>4. m.type \in {"key", "sync"}
  BY <1>3 DEF Input, Syncs, ScanCodes
<1>5. /\ toClient' = toClient /\ listening' = listening
      /\ ~listening => server' = server
      /\ listening /\ m.type = "key" => server' = Struck(m)
      /\ listening /\ m.type # "key" => server' = [keys |-> {}, caps |-> m.caps]
  BY <1>4 DEF ServerTakes, session
<1>6. listening => server' = After(server, m)
  <2>1. CASE m.type = "key"
    <3>1. m.key # Caps
      BY <1>3, <2>1, KeyboardAssumption DEF Input, Syncs, ScanCodes, SessionKeys
    <3>2. server \in Keyboards
      BY DEF IInv, Types
    <3>3. Struck(m) = [keys |-> IF m.down THEN server.keys \cup {m.key}
                                ELSE server.keys \ {m.key}, caps |-> server.caps]
      BY <3>2 DEF Struck, Keyboards
    <3> QED BY <1>5, <2>1, <3>1, <3>3 DEF After, IsKey
  <2>2. CASE m.type # "key"
    BY <1>4, <1>5, <2>2 DEF After, IsKey, LockOf
  <2> QED BY <2>1, <2>2
<1> HIDE DEF m
<1>7. server' \in Keyboards
  <2>1. server \in Keyboards
    BY DEF IInv, Types
  <2>2. CASE listening
    BY <1>3, <1>6, <2>1, <2>2, AfterTyped
  <2>3. CASE ~listening
    BY <1>5, <2>1, <2>3
  <2> QED BY <2>2, <2>3
<1>8. toServer' \in Seq(Input \cup Controls)
  BY <1>3, SeqMonotonic
<1>9. Types'
  BY <1>1, <1>5, <1>7, <1>8 DEF IInv, Types
<1>10. Handshake'
  BY <1>1, <1>3, <1>5 DEF IInv, Handshake
<1>11. Linked'
  <2>1. PICK mid \in Keyboards :
          /\ mid.caps = seen /\ FromDevice(mid)
          /\ listening => Replay(server, toServer, mid)
    BY DEF IInv, Linked
  <2>2. ASSUME listening PROVE Replay(server', toServer', mid)
    <3>1. PICK u \in Keyboards :
            /\ Below(After(server, m), u) /\ Replay(u, Tail(toServer), mid)
      BY <1>1, <1>2, <2>1, <2>2, ReplayHead DEF m
    <3> QED BY <1>1, <1>6, <2>2, <3>1, ReplayBelow
  <2>3. FromDevice(mid)'
    BY <1>1, <2>1 DEF FromDevice
  <2> QED BY <1>1, <1>5, <2>1, <2>2, <2>3 DEF Linked
<1> QED BY <1>9, <1>10, <1>11 DEF IInv

\* While the client waits for control the server drops what it reads, up to
\* the confirmation.
LEMMA ServerGrants ==
  ASSUME IInv, ServerTakes, gui = "granting"
  PROVE  IInv'
<1> DEFINE m == Head(toServer)
<1>1. /\ toServer # <<>> /\ toServer' = Tail(toServer) /\ gui' = gui
      /\ held' = held /\ locked' = locked /\ focused' = focused /\ messages' = messages
      /\ seen' = seen /\ typing' = typing /\ scanned' = scanned
  BY DEF ServerTakes, device
<1>2. PICK q \in Seq(Input) : toServer = Append(q, Confirm)
  BY <1>1 DEF IInv, Handshake
<1>3. toClient = <<>> /\ ~listening
  BY <1>1 DEF IInv, Handshake
<1>4. /\ m = IF q = <<>> THEN Confirm ELSE Head(q)
      /\ toServer' = IF q = <<>> THEN <<>> ELSE Append(Tail(q), Confirm)
  BY <1>1, <1>2, HeadTailAppend
<1>5. Linked'
  BY <1>1 DEF IInv, Linked, FromDevice
<1>6. toServer' \in Seq(Input \cup Controls)
  BY <1>1, HeadTailProperties DEF IInv, Types
<1>7. CASE q = <<>>
  <2>1. m.type = "confirm"
    BY <1>4, <1>7 DEF Confirm
  <2>2. listening' = TRUE /\ toClient' = Append(toClient, "granted") /\ server' = server
    BY <2>1 DEF ServerTakes
  <2>3. toClient' = <<"granted">>
    BY <1>3, <2>2
  <2>4. toServer' = <<>>
    BY <1>4, <1>7
  <2>5. Types'
    BY <1>1, <1>6, <2>2, <2>3 DEF IInv, Types
  <2>6. Handshake'
    BY <1>1, <2>2, <2>3, <2>4 DEF Handshake
  <2> QED BY <1>5, <2>5, <2>6 DEF IInv
<1>8. CASE q # <<>>
  <2>1. m \in Input /\ Tail(q) \in Seq(Input)
    BY <1>4, <1>8, HeadTailProperties
  <2>2. m.type \in {"key", "sync"}
    BY <2>1 DEF Input, Syncs, ScanCodes
  <2>3. toClient' = toClient /\ listening' = listening /\ server' = server
    BY <1>3, <2>2 DEF ServerTakes, session
  <2>4. toServer' = Append(Tail(q), Confirm)
    BY <1>4, <1>8
  <2>5. Types'
    BY <1>1, <1>6, <2>3 DEF IInv, Types
  <2>6. Handshake'
    BY <1>1, <1>3, <2>1, <2>3, <2>4 DEF Handshake
  <2> QED BY <1>5, <2>5, <2>6 DEF IInv
<1> QED BY <1>7, <1>8

\* While the client waits for the fonts the SYNCHRONIZE sets the keyboard.
LEMMA ServerAnswersFonts ==
  ASSUME IInv, ServerTakes, gui = "fonts"
  PROVE  IInv'
<1> DEFINE m == Head(toServer)
<1>1. /\ toServer # <<>> /\ toServer' = Tail(toServer) /\ gui' = gui
      /\ held' = held /\ locked' = locked /\ focused' = focused /\ messages' = messages
      /\ seen' = seen /\ typing' = typing /\ scanned' = scanned
  BY DEF ServerTakes, device
<1>2. /\ toClient = <<>> /\ listening
      /\ \/ toServer = <<Sync(seen), Fonts>>
         \/ toServer = <<Fonts>> /\ server = Granted
  BY <1>1 DEF IInv, Handshake
<1>3. Linked'
  BY <1>1 DEF IInv, Linked, FromDevice
<1>4. toServer' \in Seq(Input \cup Controls)
  BY <1>1, HeadTailProperties DEF IInv, Types
<1>5. Granted' = Granted /\ Granted \in Keyboards /\ Sync(seen)' = Sync(seen)
  BY <1>1 DEF Granted, Keyboards, Sync, IInv, Types
<1>6. CASE toServer = <<Sync(seen), Fonts>>
  <2>1. m = Sync(seen) /\ toServer' = <<Fonts>>
    BY <1>1, <1>6
  <2>2. m.type = "sync" /\ m.caps = seen
    BY <2>1 DEF Sync
  <2>3. toClient' = toClient /\ listening' = listening /\ server' = Granted
    BY <1>2, <2>2 DEF ServerTakes, Granted
  <2>4. Types'
    BY <1>1, <1>4, <1>5, <2>3 DEF IInv, Types
  <2>5. Handshake'
    BY <1>1, <1>2, <1>5, <2>1, <2>3 DEF Handshake
  <2> QED BY <1>3, <2>4, <2>5 DEF IInv
<1>7. CASE toServer = <<Fonts>> /\ server = Granted
  <2>1. m = Fonts /\ toServer' = <<>>
    BY <1>1, <1>7
  <2>2. m.type = "fonts"
    BY <2>1 DEF Fonts
  <2>3. toClient' = Append(toClient, "fonts") /\ listening' = listening /\ server' = server
    BY <2>2 DEF ServerTakes, session
  <2>4. toClient' = <<"fonts">>
    BY <1>2, <2>3
  <2>5. Types'
    BY <1>1, <1>4, <2>3, <2>4 DEF IInv, Types
  <2>6. Handshake'
    BY <1>1, <1>2, <1>5, <1>7, <2>1, <2>3, <2>4 DEF Handshake
  <2> QED BY <1>3, <2>5, <2>6 DEF IInv
<1> QED BY <1>2, <1>6, <1>7

\* The server takes input, wherever the client stands.
LEMMA ServerTakesStep == IInv /\ ServerTakes => IInv'
<1> SUFFICES ASSUME IInv, ServerTakes PROVE IInv'
  OBVIOUS
<1>1. gui \in {"loop", "granting", "fonts"}
  BY DEF IInv, Types
<1> QED BY <1>1, ServerHears, ServerGrants, ServerAnswersFonts

-----------------------------------------------------------------------------
(* The theorems.                                                           *)

\* Every step keeps the invariant.
LEMMA NextInv == IInv /\ [Next]_vars => IInv'
<1> SUFFICES ASSUME IInv, [Next]_vars PROVE IInv'
  OBVIOUS
<1>1. CASE UNCHANGED vars
  <2>1. /\ held' = held /\ locked' = locked /\ focused' = focused /\ messages' = messages
        /\ seen' = seen /\ gui' = gui /\ typing' = typing /\ scanned' = scanned
        /\ toServer' = toServer /\ toClient' = toClient /\ server' = server
        /\ listening' = listening
    BY <1>1 DEF vars
  <2>2. Types' /\ Handshake'
    BY <2>1 DEF IInv, Types, Handshake, Granted, Sync
  <2>3. Linked'
    BY <2>1 DEF IInv, Linked, FromDevice
  <2> QED BY <2>2, <2>3 DEF IInv
<1> QED BY <1>1, PressStep, ReleaseStep, LoseFocusStep, GainFocusStep, ScanStep, WndProcStep,
           WmSizeStep, WmHaveScanStep, KeybdEventStep, DemandActiveStep, ControlGrantedStep,
           FontsAnsweredStep, ServerDemandsStep, ServerTakesStep DEF Next

\* What is true in every reachable state.
THEOREM Inductive == Spec => []IInv
<1> QED BY InitInv, NextInv, PTL DEF Spec

\* Every variable keeps its type, and the server never sees Caps Lock as a key
\* that is down (win32.c:819).
THEOREM TypeCorrect == Spec => []TypeOK
<1>1. IInv => TypeOK
  BY DEF IInv, Types, TypeOK, Keyboards, SessionKeys
<1> QED BY <1>1, Inductive, PTL

\* When everything is settled both links are empty.
LEMMA SettledBelow ==
  ASSUME IInv, Settled
  PROVE  server.keys \subseteq held /\ server.caps = locked
<1>1. /\ focused /\ listening /\ gui = "loop" /\ messages = <<>> /\ toServer = <<>>
  BY DEF Settled
<1>2. PICK mid \in Keyboards : FromDevice(mid) /\ Replay(server, <<>>, mid)
  BY <1>1 DEF IInv, Linked
<1>3. PICK end \in Keyboards :
        Replay(mid, <<>>, end) /\ end.keys \subseteq held /\ end.caps = locked
  BY <1>1, <1>2 DEF FromDevice
<1>4. server \in Keyboards
  BY DEF IInv, Types
<1>5. Below(server, mid) /\ Below(mid, end)
  BY <1>2, <1>3, <1>4, ReplayNothing
<1> QED BY <1>3, <1>5 DEF Below

\* No key stays down in the session that is up on the device (win32.c:1396,
\* rdp.c:1094).
THEOREM NoKeySticks == Spec => []NoStuckKeys
<1>1. IInv => NoStuckKeys
  BY SettledBelow DEF NoStuckKeys
<1> QED BY <1>1, Inductive, PTL

\* The session's Caps Lock is the device's (win32.c:820).
THEOREM CapsLockAgrees == Spec => []LocksAgree
<1>1. IInv => LocksAgree
  BY SettledBelow DEF LocksAgree
<1> QED BY <1>1, Inductive, PTL

\* A letter meets the Caps Lock and no shift but that of the moment it was
\* typed (win32.c:525).
THEOREM LettersAsTyped == Spec => []TypedAsHere
<1>1. ASSUME IInv, toServer # <<>>, listening,
             Head(toServer).type = "key", Head(toServer).key \in Letters, Head(toServer).down
      PROVE  /\ server.caps = Head(toServer).here.caps
             /\ Shift \in server.keys => Head(toServer).here.shift
  <2>1. gui = "loop"
    <3>1. Sync(seen).type = "sync" /\ Fonts.type = "fonts"
      BY DEF Sync, Fonts
    <3>2. gui # "fonts"
      <4> SUFFICES ASSUME gui = "fonts" PROVE FALSE
        OBVIOUS
      <4>1. toServer = <<Sync(seen), Fonts>> \/ toServer = <<Fonts>>
        BY <1>1 DEF IInv, Handshake
      <4>2. Head(toServer) = Sync(seen) \/ Head(toServer) = Fonts
        BY <4>1
      <4> QED BY <1>1, <3>1, <4>2
    <3> QED BY <1>1, <3>2 DEF IInv, Types, Handshake
  <2>2. PICK mid \in Keyboards : Replay(server, toServer, mid)
    BY <1>1, <2>1 DEF IInv, Linked
  <2>3. toServer \in Seq(Input)
    BY <1>1, <2>1 DEF IInv, Handshake
  <2>4. MeetsItsOwn(server, Head(toServer))
    BY <1>1, <2>2, <2>3, ReplayHead
  <2>5. Head(toServer).key # Caps
    BY <1>1, KeyboardAssumption
  <2> QED BY <1>1, <2>4, <2>5 DEF MeetsItsOwn, IsKey
<1>2. IInv => TypedAsHere
  BY <1>1 DEF TypedAsHere
<1> QED BY <1>2, Inductive, PTL
=============================================================================
