--------------------------- MODULE WirePump_proofs ---------------------------
(***************************************************************************)
(* For any number of packets, records of any size and packets of any       *)
(* number of PDUs: the one input buffer is never read into while a handler *)
(* works on it, and no rdp_loop call begins to read without data.  The     *)
(* argument: g_block is set exactly while an rdp_loop call is in progress, *)
(* so there is at most one, although message boxes dispatch window         *)
(* messages; and a call goes back to the wire only when the packet it has  *)
(* is used up.  No fragment is lost or read twice on its way through the   *)
(* socket and OpenSSL.                                                     *)
(***************************************************************************)
EXTENDS WirePump, SequenceTheorems, TLAPS

\* What a call f relies on when c PDUs of its packet are left and t fragments
\* have been taken: it reads only when no PDU is left, and works only on what
\* was taken last.
CallOk(f, c, t) ==
  /\ f.at \in {"header", "body", "failing"} => c = 0
  /\ f.at = "handling" => c > 0
  /\ f.at \in {"handling", "dialog"} => f.polled = FALSE /\ f.packet = t

\* One rdp_loop call at most, and g_block says so; its first read was started
\* on data, or on the end of the stream.
Calls ==
  \/ frames = <<>> /\ block = FALSE /\ cursor = 0
  \/ \E f \in Frames :
       /\ frames = <<f>> /\ block = TRUE /\ CallOk(f, cursor, taken)
       /\ f.at = "header" /\ f.polled = TRUE => ssl > 0 \/ sock # <<>> \/ closed

\* No fragment is lost or invented: ends[i] is what the server had written with
\* the first i of the records that wait, counted from what was taken.
Fragments ==
  \E ends \in [0 .. Len(sock) -> 0 .. sent] :
    /\ ends[0] = taken + ssl /\ ends[Len(sock)] = sent
    /\ \A i \in 1 .. Len(sock) : ends[i] = ends[i - 1] + sock[i]

IInv == TypeOK /\ Fragments /\ Calls

\* What a step does to the calls.
CallsType == frames \in Seq(Frames) /\ block \in BOOLEAN /\ quit \in BOOLEAN

-----------------------------------------------------------------------------
\* Pushing, replacing and popping the only frame.
LEMMA OnlyFrame ==
  ASSUME NEW f, NEW g
  PROVE  /\ Append(<<>>, f) = <<f>> /\ <<f>>[1] = f /\ Len(<<f>>) = 1 /\ <<f>> # <<>>
         /\ [<<f>> EXCEPT ![1] = g] = <<g>>
         /\ SubSeq(<<f>>, 1, 0) = <<>>
<1>1. <<f>> \in Seq({f, g})
  OBVIOUS
<1>2. [<<f>> EXCEPT ![1] = g] = <<g>>
  BY <1>1
<1>3. SubSeq(<<f>>, 1, 0) = <<>>
  BY SubSeqEmpty
<1> QED
  BY <1>1, <1>2, <1>3

\* No call, and one call, in progress.
LEMMA FrameTyped ==
  /\ <<>> \in Seq(Frames)
  /\ \A f \in Frames : <<f>> \in Seq(Frames)
  OBVIOUS

\* While a call is in progress SetTop replaces its frame and Leave ends it.
LEMMA TopFrame ==
  ASSUME Calls, frames # <<>>
  PROVE  /\ Top \in Frames /\ frames = <<Top>> /\ block = TRUE /\ CallOk(Top, cursor, taken)
         /\ Top.at = "header" /\ Top.polled = TRUE => ssl > 0 \/ sock # <<>> \/ closed
         /\ \A f : SetTop(f) => frames' = <<f>>
         /\ \A failed : Leave(failed) => frames' = <<>> /\ block' = FALSE
<1>1. PICK g \in Frames :
        /\ frames = <<g>> /\ block = TRUE /\ CallOk(g, cursor, taken)
        /\ g.at = "header" /\ g.polled = TRUE => ssl > 0 \/ sock # <<>> \/ closed
  BY DEF Calls
<1>2. Top = g /\ Len(frames) = 1
  BY <1>1, OnlyFrame DEF Top
<1>3. ASSUME NEW f, SetTop(f) PROVE frames' = <<f>>
  BY <1>1, <1>2, <1>3, OnlyFrame DEF SetTop
<1>4. ASSUME NEW failed, Leave(failed) PROVE frames' = <<>> /\ block' = FALSE
  <2>1. SubSeq(frames, 1, 0) = <<>>
    BY SubSeqEmpty
  <2> QED
    BY <1>2, <1>4, <2>1 DEF Leave
<1> QED
  BY <1>1, <1>2, <1>3, <1>4

\* The call goes on as f.
LEMMA ToFrame ==
  ASSUME Calls, frames # <<>>, quit \in BOOLEAN, NEW f \in Frames, SetTop(f),
         UNCHANGED <<block, quit>>, CallOk(f, cursor', taken'), f.at = "header" => f.polled = FALSE
  PROVE  Calls' /\ CallsType'
<1>1. frames' = <<f>> /\ block' = TRUE
  BY TopFrame
<1>2. Calls'
  BY <1>1 DEF Calls
<1> QED
  BY <1>1, <1>2, FrameTyped DEF CallsType

\* The call ends.
LEMMA ToNone ==
  ASSUME Calls, frames # <<>>, quit \in BOOLEAN, NEW failed \in BOOLEAN, Leave(failed), cursor' = 0
  PROVE  Calls' /\ CallsType'
<1>1. frames' = <<>> /\ block' = FALSE
  BY TopFrame
<1>2. quit' \in BOOLEAN
  BY Zenon DEF Leave
<1> QED
  BY <1>1, <1>2, FrameTyped DEF Calls, CallsType

\* After a PDU, or a message box, the call takes the next PDU of the packet,
\* goes back to the wire when there is none, or ends.
LEMMA Resumed ==
  ASSUME Calls, frames # <<>>, quit \in BOOLEAN, NEW f \in Frames, f.polled = FALSE,
         f.packet = taken', cursor' \in Nat, Resume(f)
  PROVE  Calls' /\ CallsType'
<1>1. CASE cursor' = 0 /\ f.reads = 0 /\ Leave(FALSE)
  BY <1>1, ToNone
<1>2. CASE /\ SetTop([f EXCEPT !.at = IF cursor' > 0 THEN "handling" ELSE "header"])
           /\ UNCHANGED <<block, quit>>
  <2>1. PICK g : g = [f EXCEPT !.at = IF cursor' > 0 THEN "handling" ELSE "header"]
    OBVIOUS
  <2>2. /\ g \in Frames /\ g.polled = FALSE /\ g.packet = taken'
        /\ g.at = IF cursor' > 0 THEN "handling" ELSE "header"
    BY <2>1 DEF Frames
  <2>3. CallOk(g, cursor', taken')
    BY <2>2 DEF CallOk
  <2> QED
    BY <1>2, <2>1, <2>2, <2>3, ToFrame
<1> QED
  BY <1>1, <1>2 DEF Resume

\* The same, or a message box.
LEMMA WentOn ==
  ASSUME Calls, frames # <<>>, quit \in BOOLEAN, NEW f \in Frames, f.polled = FALSE,
         f.packet = taken', cursor' \in Nat, GoOn(f)
  PROVE  Calls' /\ CallsType'
<1>1. CASE Resume(f)
  BY <1>1, Resumed
<1>2. CASE SetTop([f EXCEPT !.at = "dialog"]) /\ UNCHANGED <<block, quit>>
  <2>1. PICK g : g = [f EXCEPT !.at = "dialog"]
    OBVIOUS
  <2>2. g \in Frames /\ g.polled = FALSE /\ g.packet = taken' /\ g.at = "dialog"
    BY <2>1 DEF Frames
  <2>3. CallOk(g, cursor', taken')
    BY <2>2 DEF CallOk
  <2> QED
    BY <1>2, <2>1, <2>2, <2>3, ToFrame
<1> QED
  BY <1>1, <1>2 DEF GoOn

\* A read that fails is made up for by the next one, or ends the call.
LEMMA ReadFailed ==
  ASSUME Calls, frames # <<>>, quit \in BOOLEAN, cursor' = 0, ReadFails
  PROVE  Calls' /\ CallsType'
<1>1. CASE Leave(TRUE) \/ Leave(FALSE)
  BY <1>1, ToNone
<1>2. CASE /\ Top.reads > 0
           /\ SetTop([Top EXCEPT !.at = "header", !.reads = @ - 1, !.polled = FALSE])
           /\ UNCHANGED <<block, quit>>
  <2>1. PICK g : g = [Top EXCEPT !.at = "header", !.reads = @ - 1, !.polled = FALSE]
    OBVIOUS
  <2>2. Top \in Frames
    BY TopFrame
  <2>3. Top.reads \in 0 .. 4 /\ Top.reads - 1 \in 0 .. 4
    BY <1>2, <2>2 DEF Frames
  <2>4. g \in Frames /\ g.polled = FALSE /\ g.at = "header"
    BY <2>1, <2>2, <2>3 DEF Frames
  <2>5. CallOk(g, cursor', taken')
    BY <2>4 DEF CallOk
  <2> QED
    BY <1>2, <2>1, <2>4, <2>5, ToFrame
<1> QED
  BY <1>1, <1>2 DEF ReadFails

\* The call is at another point of the same read, or the read is over; nothing
\* of the packet before it is left.
LEMMA Moved ==
  ASSUME Calls, frames # <<>>, quit \in BOOLEAN, NEW at \in {"header", "body", "failing"},
         \/ SetTop([Top EXCEPT !.at = at]) /\ at # "header"
         \/ SetTop([Top EXCEPT !.at = at, !.polled = FALSE]),
         UNCHANGED <<block, quit>>, cursor' = 0
  PROVE  Calls' /\ CallsType'
<1>1. Top \in Frames
  BY TopFrame
<1>2. PICK g : /\ SetTop(g)
               /\ \/ g = [Top EXCEPT !.at = at] /\ at # "header"
                  \/ g = [Top EXCEPT !.at = at, !.polled = FALSE]
  OBVIOUS
<1>3. g \in Frames /\ g.at = at /\ (at = "header" => g.polled = FALSE)
  BY <1>1, <1>2 DEF Frames
<1>4. CallOk(g, cursor', taken')
  BY <1>3 DEF CallOk
<1>5. g.at = "header" => g.polled = FALSE
  BY <1>3
<1> QED
  BY <1>2, <1>3, <1>4, <1>5, ToFrame

-----------------------------------------------------------------------------
(* The wire: what is sent, waits and is taken.                             *)

\* A record is appended: it ends where the server is.
LEMMA WrittenTyped == IInv /\ ServerWrites => IInv'
<1> SUFFICES ASSUME TypeOK, Fragments, Calls, ServerWrites PROVE IInv'
  BY DEF IInv
<1>1. PICK n \in 1 .. MaxRecord :
        sent + n <= 2 * MaxPackets /\ sent' = sent + n /\ sock' = Append(sock, n)
  BY DEF ServerWrites
<1>2. UNCHANGED <<tls, closed, ssl, taken, cursor, block, frames, garbled, quit, over>>
  BY DEF ServerWrites
<1>3. posted' \in BOOLEAN /\ armed' \in BOOLEAN
  BY DEF ServerWrites, TypeOK
<1>4. /\ sent \in Nat /\ n \in Nat /\ n > 0 /\ sock \in Seq(1 .. MaxRecord)
      /\ taken \in 0 .. sent /\ MaxPackets \in Nat
  BY PumpAssumption DEF TypeOK
<1>5. /\ sock' \in Seq(1 .. MaxRecord) /\ Len(sock') = Len(sock) + 1 /\ Len(sock) \in Nat
      /\ sock'[Len(sock) + 1] = n /\ \A i \in 1 .. Len(sock) : sock'[i] = sock[i]
  BY <1>1, <1>4
<1>6. PICK ends \in [0 .. Len(sock) -> 0 .. sent] :
        /\ ends[0] = taken + ssl /\ ends[Len(sock)] = sent
        /\ \A i \in 1 .. Len(sock) : ends[i] = ends[i - 1] + sock[i]
  BY DEF Fragments
<1> DEFINE e == [i \in 0 .. Len(sock') |-> IF i = Len(sock) + 1 THEN sent + n ELSE ends[i]]
<1>7. /\ e \in [0 .. Len(sock') -> 0 .. sent'] /\ e[0] = ends[0] /\ e[Len(sock')] = sent'
      /\ \A i \in 1 .. Len(sock) : e[i] = ends[i] /\ e[i - 1] = ends[i - 1]
      /\ e[Len(sock)] = ends[Len(sock)]
  BY <1>1, <1>4, <1>5
<1> HIDE DEF e
<1>8. ASSUME NEW i \in 1 .. Len(sock') PROVE e[i] = e[i - 1] + sock'[i]
  <2>1. CASE i \in 1 .. Len(sock)
    BY <2>1, <1>5, <1>6, <1>7
  <2>2. CASE i = Len(sock) + 1
    BY <2>2, <1>1, <1>4, <1>5, <1>6, <1>7
  <2> QED
    BY <2>1, <2>2, <1>5
<1>9. Fragments'
  BY <1>2, <1>6, <1>7, <1>8 DEF Fragments
<1>10. sent' \in 0 .. 2 * MaxPackets /\ taken' \in 0 .. sent'
  BY <1>1, <1>2, <1>4
<1>11. TypeOK'
  BY <1>2, <1>3, <1>5, <1>10 DEF TypeOK
<1>12. sock' # <<>>
  BY <1>1, <1>4
<1>13. Calls'
  BY <1>2, <1>12 DEF Calls
<1> QED
  BY <1>9, <1>11, <1>13 DEF IInv

\* tcp_recv takes a fragment that was written and not taken, from OpenSSL or
\* from the first record that waits.
LEMMA TakenTyped ==
  ASSUME TypeOK, Fragments, TcpRecv, taken' = taken + 1, UNCHANGED sent
  PROVE  /\ Fragments' /\ taken' \in 0 .. sent'
         /\ ssl' \in 0 .. MaxRecord /\ sock' \in Seq(1 .. MaxRecord)
         /\ armed' \in BOOLEAN /\ posted' \in BOOLEAN
<1>1. /\ ssl \in 0 .. MaxRecord /\ sock \in Seq(1 .. MaxRecord) /\ MaxRecord \in Nat
      /\ sent \in Nat /\ taken \in Nat /\ taken <= sent /\ Len(sock) \in Nat
  BY PumpAssumption DEF TypeOK
<1>2. PICK ends \in [0 .. Len(sock) -> 0 .. sent] :
        /\ ends[0] = taken + ssl /\ ends[Len(sock)] = sent
        /\ \A i \in 1 .. Len(sock) : ends[i] = ends[i - 1] + sock[i]
  BY DEF Fragments
<1>3. armed' \in BOOLEAN /\ posted' \in BOOLEAN
  <2>1. armed \in BOOLEAN /\ posted \in BOOLEAN
    BY DEF TypeOK
  <2>2. \A rest : (posted \/ rest # <<>>) \in BOOLEAN /\ (rest = <<>>) \in BOOLEAN
    OBVIOUS
  <2> QED
    BY <2>1, <2>2, Zenon DEF TcpRecv, Recv
<1>4. CASE ssl' = ssl - 1 /\ ssl > 0 /\ sock' = sock
  <2>1. taken' + ssl' = ends[0] /\ ends[0] \in 0 .. sent
    BY <1>1, <1>2, <1>4
  <2>2. Fragments'
    BY <1>2, <1>4, <2>1 DEF Fragments
  <2>3. taken' \in 0 .. sent' /\ ssl' \in 0 .. MaxRecord
    BY <1>1, <1>4, <2>1
  <2> QED
    BY <1>1, <1>3, <1>4, <2>2, <2>3
<1>5. CASE sock # <<>> /\ sock' = Tail(sock) /\ taken' + ssl' = taken + ssl + Head(sock)
           /\ ssl' \in 0 .. MaxRecord
  <2>1. /\ Len(sock) > 0 /\ Head(sock) = sock[1] /\ Len(sock') = Len(sock) - 1
        /\ sock' \in Seq(1 .. MaxRecord) /\ \A i \in 1 .. Len(sock') : sock'[i] = sock[i + 1]
    BY <1>1, <1>5
  <2> DEFINE e == [i \in 0 .. Len(sock') |-> ends[i + 1]]
  <2>2. /\ e \in [0 .. Len(sock') -> 0 .. sent] /\ \A i \in 0 .. Len(sock') : e[i] = ends[i + 1]
    <3>1. \A i \in 0 .. Len(sock') : i + 1 \in 0 .. Len(sock)
      BY <1>1, <2>1
    <3>2. \A i \in 0 .. Len(sock') : ends[i + 1] \in 0 .. sent
      BY <1>2, <3>1
    <3> QED
      BY ONLY <3>2
  <2> HIDE DEF e
  <2>3. ends[1] = ends[0] + sock[1] /\ ends[1] \in 0 .. sent /\ sock[1] \in 1 .. MaxRecord
    <3>1. 1 \in 1 .. Len(sock) /\ 1 \in 0 .. Len(sock) /\ 1 - 1 = 0
      BY <1>1, <2>1
    <3> QED
      BY <1>1, <1>2, <3>1
  <2>4. e[0] = taken' + ssl' /\ e[Len(sock')] = sent
    BY <1>1, <1>2, <1>5, <2>1, <2>2, <2>3
  <2>5. ASSUME NEW i \in 1 .. Len(sock') PROVE e[i] = e[i - 1] + sock'[i]
    <3>1. /\ i + 1 \in 1 .. Len(sock) /\ i - 1 \in 0 .. Len(sock') /\ i \in 0 .. Len(sock')
          /\ (i + 1) - 1 = i /\ (i - 1) + 1 = i
      BY <1>1, <2>1
    <3>2. ends[i + 1] = ends[i] + sock[i + 1]
      BY <1>2, <3>1
    <3>3. e[i] = ends[i + 1] /\ e[i - 1] = ends[i] /\ sock'[i] = sock[i + 1]
      BY <2>1, <2>2, <3>1
    <3> QED
      BY <3>2, <3>3
  <2>6. Fragments'
    BY <2>2, <2>4, <2>5 DEF Fragments
  <2>7. taken' \in 0 .. sent'
    BY <1>1, <1>2, <1>5, <2>1, <2>3
  <2> QED
    BY <1>3, <1>5, <2>1, <2>6, <2>7
<1>6. CASE sock # <<>> /\ Head(sock) # 1 /\ sock' = [sock EXCEPT ![1] = @ - 1] /\ ssl' = ssl
  <2>1. /\ Len(sock) > 0 /\ Head(sock) = sock[1] /\ Len(sock') = Len(sock)
        /\ sock[1] \in 2 .. MaxRecord /\ sock'[1] = sock[1] - 1
        /\ sock' \in Seq(1 .. MaxRecord) /\ \A i \in 2 .. Len(sock) : sock'[i] = sock[i]
    BY <1>1, <1>6
  <2> DEFINE e == [i \in 0 .. Len(sock) |-> IF i = 0 THEN ends[0] + 1 ELSE ends[i]]
  <2>2. ends[1] = ends[0] + sock[1] /\ ends[1] \in 0 .. sent /\ ends[0] \in 0 .. sent
    <3>1. 1 \in 1 .. Len(sock) /\ {0, 1} \subseteq 0 .. Len(sock) /\ 1 - 1 = 0
      BY <1>1, <2>1
    <3> QED
      BY <1>2, <3>1
  <2>3. /\ e \in [0 .. Len(sock) -> 0 .. sent] /\ e[0] = ends[0] + 1
        /\ \A i \in 1 .. Len(sock) : e[i] = ends[i]
    <3>1. \A i \in 0 .. Len(sock) : ends[i] \in 0 .. sent
      BY <1>2
    <3>2. ends[0] + 1 \in 0 .. sent
      <4>1. sock[1] \in Nat /\ sock[1] >= 1 /\ ends[0] \in Nat
        BY <2>1, <2>2
      <4> QED
        BY ONLY <1>1, <2>2, <4>1
    <3>3. 0 \in 0 .. Len(sock) /\ \A i \in 1 .. Len(sock) : i \in 0 .. Len(sock) /\ i # 0
      BY ONLY <1>1
    <3> QED
      BY ONLY <3>1, <3>2, <3>3
  <2> HIDE DEF e
  <2>4. e[0] = taken' + ssl' /\ e[Len(sock')] = sent
    BY <1>1, <1>2, <1>6, <2>1, <2>3
  <2>5. ASSUME NEW i \in 1 .. Len(sock) PROVE e[i] = e[i - 1] + sock'[i]
    <3>1. CASE i = 1
      <4>1. i - 1 = 0 /\ e[i] = ends[1] /\ e[0] = ends[0] + 1
        BY <3>1, <2>3
      <4>2. /\ sock'[i] = sock[1] - 1 /\ sock[1] \in Int /\ ends[0] \in Int
            /\ ends[1] = ends[0] + sock[1]
        BY <3>1, <2>1, <2>2
      <4> QED
        BY ONLY <4>1, <4>2
    <3>2. CASE i \in 2 .. Len(sock)
      <4>1. i - 1 \in 1 .. Len(sock)
        BY ONLY <3>2, <1>1
      <4>2. ends[i] = ends[i - 1] + sock[i]
        BY <1>2
      <4>3. e[i] = ends[i] /\ e[i - 1] = ends[i - 1] /\ sock'[i] = sock[i]
        BY <3>2, <4>1, <2>1, <2>3
      <4> QED
        BY <4>2, <4>3
    <3> QED
      BY <3>1, <3>2, <1>1
  <2>6. Fragments'
    <3>1. e \in [0 .. Len(sock') -> 0 .. sent'] /\ \A i \in 1 .. Len(sock') : e[i] = e[i - 1] + sock'[i]
      BY <2>1, <2>3, <2>5
    <3> QED
      BY <2>4, <3>1 DEF Fragments
  <2>7. taken' \in 0 .. sent'
    BY <1>1, <1>2, <1>6, <2>1, <2>2
  <2> QED
    BY <1>1, <1>3, <1>6, <2>1, <2>6, <2>7
<1>7. CASE ~tls /\ sock # <<>> /\ UNCHANGED ssl
           /\ sock' = IF Head(sock) = 1 THEN Tail(sock) ELSE [sock EXCEPT ![1] = @ - 1]
  <2>1. CASE Head(sock) = 1
    BY <1>1, <1>5, <1>7, <2>1
  <2>2. CASE Head(sock) # 1
    BY <1>6, <1>7, <2>2
  <2> QED
    BY <2>1, <2>2
<1>8. CASE ssl = 0 /\ sock # <<>> /\ sock' = Tail(sock) /\ ssl' = Head(sock) - 1
  <2>1. Head(sock) \in 1 .. MaxRecord
    BY <1>1, <1>8
  <2> DEFINE h == Head(sock)
  <2> HIDE DEF h
  <2>2. h \in Nat /\ 1 <= h /\ h <= MaxRecord /\ ssl' = h - 1 /\ ssl = 0 /\ taken' = taken + 1
    BY <1>1, <1>8, <2>1 DEF h
  <2>3. ssl' \in 0 .. MaxRecord
    BY ONLY <1>1, <2>2
  <2>4. taken' + ssl' = taken + ssl + h
    BY ONLY <1>1, <2>2
  <2> QED
    BY <1>5, <1>8, <2>3, <2>4 DEF h
<1> QED
  BY <1>4, <1>7, <1>8 DEF TcpRecv, Recv

-----------------------------------------------------------------------------
\* Facts about the types of the state, for the steps.
LEMMA Facts ==
  ASSUME TypeOK
  PROVE  /\ {tls, closed, garbled, armed, posted, over} \subseteq BOOLEAN /\ quit \in BOOLEAN
         /\ sent \in Nat /\ sent <= 2 * MaxPackets /\ taken \in 0 .. 2 * MaxPackets
         /\ cursor \in 0 .. MaxPdus /\ MaxPackets \in Nat /\ MaxPdus \in Nat /\ MaxPdus > 0
  BY PumpAssumption DEF TypeOK

\* A step that takes nothing from the wire.
LEMMA SameWire ==
  ASSUME IInv, UNCHANGED <<tls, sent, sock, ssl, taken>>, Calls', CallsType',
         {closed', garbled', armed', posted', over'} \subseteq BOOLEAN, cursor' \in 0 .. MaxPdus
  PROVE  IInv'
<1>1. TypeOK'
  BY DEF IInv, TypeOK, CallsType
<1>2. Fragments'
  BY DEF IInv, Fragments
<1> QED
  BY <1>1, <1>2 DEF IInv

\* A step that takes a fragment.
LEMMA Received ==
  ASSUME IInv, TcpRecv, taken' = taken + 1, UNCHANGED <<tls, sent, closed, over>>,
         Calls', CallsType', garbled' \in BOOLEAN, cursor' \in 0 .. MaxPdus
  PROVE  IInv'
<1>1. /\ Fragments' /\ taken' \in 0 .. sent' /\ ssl' \in 0 .. MaxRecord
      /\ sock' \in Seq(1 .. MaxRecord) /\ armed' \in BOOLEAN /\ posted' \in BOOLEAN
  BY TakenTyped DEF IInv
<1>2. TypeOK'
  BY <1>1 DEF IInv, TypeOK, CallsType
<1> QED
  BY <1>1, <1>2 DEF IInv

\* What tcp_recv takes is there to be counted.
LEMMA TakenBound ==
  ASSUME IInv, TcpRecv, taken' = taken + 1, UNCHANGED sent
  PROVE  taken' \in 0 .. 2 * MaxPackets
<1>1. taken' \in 0 .. sent'
  BY TakenTyped DEF IInv
<1> QED
  BY <1>1, Facts DEF IInv

\* The initial state satisfies the invariant.
LEMMA InitInv == Init => IInv
<1> SUFFICES ASSUME Init PROVE IInv
  OBVIOUS
<1> DEFINE e == [i \in 0 .. 0 |-> 0]
<1>1. e \in [0 .. 0 -> 0 .. 0] /\ e[0] = 0
  OBVIOUS
<1> HIDE DEF e
<1>2. sock = <<>> /\ Len(sock) = 0 /\ sent = 0 /\ taken + ssl = 0
  BY DEF Init
<1>3. Fragments
  BY <1>1, <1>2 DEF Fragments
<1>4. sock \in Seq(1 .. MaxRecord) /\ frames \in Seq(Frames)
  BY FrameTyped DEF Init
<1>5. {tls, closed, block, garbled, armed, posted, quit, over} \subseteq BOOLEAN
  BY DEF Init
<1>6. MaxPackets \in Nat /\ MaxRecord \in Nat /\ MaxPdus \in Nat
  BY PumpAssumption
<1>7. TypeOK
  BY <1>4, <1>5, <1>6 DEF Init, TypeOK
<1>8. Calls
  BY DEF Init, Calls
<1> QED
  BY <1>3, <1>7, <1>8 DEF IInv

\* check_sck begins a call only where there is none, and on data.
LEMMA CheckSckStep == IInv /\ CheckSck /\ posted' \in BOOLEAN => IInv'
<1> SUFFICES ASSUME IInv, CheckSck, posted' \in BOOLEAN PROVE IInv'
  OBVIOUS
<1> USE Facts DEF IInv
<1>1. UNCHANGED <<tls, sent, closed, sock, ssl, taken, cursor, garbled, armed, quit, over>>
  BY DEF CheckSck
<1>2. CASE Unblocked /\ Readable
  <2>1. frames = <<>> /\ cursor = 0
    BY <1>2 DEF Unblocked, Calls
  <2>2. PICK f : f = [at |-> "header", polled |-> TRUE, reads |-> 0, packet |-> taken]
    OBVIOUS
  <2>3. block' = TRUE /\ frames' = <<f>>
    BY <1>2, <2>1, <2>2, OnlyFrame DEF CheckSck
  <2>4. f \in Frames /\ f.at = "header"
    BY <2>2 DEF Frames
  <2>5. CallOk(f, cursor', taken')
    BY <1>1, <2>1, <2>4 DEF CallOk
  <2>6. ssl' > 0 \/ sock' # <<>> \/ closed'
    BY <1>1, <1>2 DEF Readable
  <2>7. Calls'
    BY <2>3, <2>4, <2>5, <2>6 DEF Calls
  <2>8. CallsType'
    BY <1>1, <2>3, <2>4, FrameTyped DEF CallsType
  <2> QED
    BY <1>1, <2>7, <2>8, SameWire
<1>3. CASE ~(Unblocked /\ Readable)
  <2>1. UNCHANGED <<block, frames>>
    BY <1>3 DEF CheckSck
  <2>2. Calls' /\ CallsType'
    BY <1>1, <2>1 DEF Calls, CallsType, TypeOK
  <2> QED
    BY <1>1, <2>2, SameWire
<1> QED
  BY <1>2, <1>3

\* The header leads on to the body, or to a complaint.
LEMMA HeaderReadStep == IInv /\ HeaderRead => IInv'
<1> SUFFICES ASSUME IInv, HeaderRead PROVE IInv'
  OBVIOUS
<1> USE Facts DEF IInv
<1>1. /\ frames # <<>> /\ Top.at = "header" /\ TcpRecv /\ taken' = taken + 1
      /\ UNCHANGED <<tls, sent, closed, cursor, block, quit, over>>
  BY DEF HeaderRead, InFrame
<1>2. cursor' = 0
  BY <1>1, TopFrame DEF CallOk
<1>3. PICK at \in {"body", "failing"} : SetTop([Top EXCEPT !.at = at])
  BY DEF HeaderRead
<1>4. garbled' \in BOOLEAN
  BY DEF HeaderRead
<1>5. Calls' /\ CallsType'
  BY <1>1, <1>2, <1>3, Moved
<1> QED
  BY <1>1, <1>2, <1>4, <1>5, Received

\* The body completes the packet: rdp_loop, or a read of
\* process_demand_active, has it, or another one is read, or none is.
LEMMA BodyReadStep == IInv /\ BodyRead => IInv'
<1> SUFFICES ASSUME IInv, BodyRead PROVE IInv'
  OBVIOUS
<1> USE Facts DEF IInv
<1>1. /\ frames # <<>> /\ Top.at = "body" /\ TcpRecv /\ taken' = taken + 1
      /\ UNCHANGED <<tls, sent, closed, over>>
  BY DEF BodyRead, InFrame
<1>2. cursor = 0 /\ Top \in Frames
  BY <1>1, TopFrame DEF CallOk
<1>3. taken' \in 0 .. 2 * MaxPackets
  BY <1>1, TakenBound
<1>4. Accepted \in Frames /\ Accepted.polled = FALSE /\ Accepted.packet = taken'
      /\ Accepted.reads = Top.reads /\ Top.reads \in 0 .. 4
  BY <1>2, <1>3 DEF Accepted, Frames
<1>5. garbled' \in BOOLEAN
  BY DEF BodyRead
<1>6. CASE cursor' \in 1 .. MaxPdus /\ Resume(Accepted)
  <2>1. cursor' \in Nat /\ cursor' \in 0 .. MaxPdus
    BY <1>6
  <2>2. Calls' /\ CallsType'
    BY <1>1, <1>4, <1>6, <2>1, Resumed
  <2> QED
    BY <1>1, <1>5, <2>1, <2>2, Received
<1>7. CASE Top.reads > 0 /\ cursor' \in 0 .. (MaxPdus - 1) /\ GoOn([Accepted EXCEPT !.reads = @ - 1])
  <2>1. cursor' \in Nat /\ cursor' \in 0 .. MaxPdus
    BY <1>7
  <2>2. PICK g : g = [Accepted EXCEPT !.reads = @ - 1]
    OBVIOUS
  <2>3. Top.reads - 1 \in 0 .. 4
    BY <1>4, <1>7
  <2>4. g \in Frames /\ g.polled = FALSE /\ g.packet = taken'
    BY <1>4, <2>2, <2>3 DEF Frames
  <2>5. Calls' /\ CallsType'
    BY <1>1, <1>7, <2>1, <2>2, <2>4, WentOn
  <2> QED
    BY <1>1, <1>5, <2>1, <2>5, Received
<1>8. CASE /\ \/ SetTop([Top EXCEPT !.at = "header", !.polled = FALSE])
              \/ SetTop([Top EXCEPT !.at = "failing"])
           /\ UNCHANGED <<cursor, block, quit>>
  <2>1. Calls' /\ CallsType'
    BY <1>1, <1>2, <1>8, Moved
  <2> QED
    BY <1>1, <1>2, <1>5, <1>8, <2>1, Received
<1>9. CASE ReadFails /\ UNCHANGED cursor
  <2>1. Calls' /\ CallsType'
    BY <1>1, <1>2, <1>9, ReadFailed
  <2> QED
    BY <1>1, <1>2, <1>5, <1>9, <2>1, Received
<1> QED
  BY <1>6, <1>7, <1>8, <1>9 DEF BodyRead

\* The end of the stream, in the middle of a packet or between two.
LEMMA EndOfStreamStep == IInv /\ EndOfStream => IInv'
<1> SUFFICES ASSUME IInv, EndOfStream PROVE IInv'
  OBVIOUS
<1> USE Facts DEF IInv
<1>1. /\ frames # <<>> /\ Top.at \in {"header", "body"} /\ SetTop([Top EXCEPT !.at = "failing"])
      /\ UNCHANGED <<tls, sent, closed, sock, ssl, taken, cursor, block, garbled,
                     armed, posted, quit, over>>
  BY DEF EndOfStream, InFrame
<1>2. cursor' = 0
  BY <1>1, TopFrame DEF CallOk
<1>3. Calls' /\ CallsType'
  BY <1>1, <1>2, Moved
<1> QED
  BY <1>1, <1>2, <1>3, SameWire

\* A PDU of the packet at hand is used up, whoever takes it.
LEMMA PduStep == IInv /\ (HandlePdu \/ DemandActive \/ NestedRead) => IInv'
<1> SUFFICES ASSUME IInv, HandlePdu \/ DemandActive \/ NestedRead PROVE IInv'
  OBVIOUS
<1> USE Facts DEF IInv
<1>1. /\ frames # <<>> /\ Top.at = "handling" /\ cursor' = cursor - 1
      /\ UNCHANGED <<tls, sent, closed, sock, ssl, taken, garbled, armed, posted, over>>
  BY DEF HandlePdu, DemandActive, NestedRead, InFrame
<1>2. Top \in Frames /\ Top.polled = FALSE /\ Top.packet = taken' /\ cursor > 0
  BY <1>1, TopFrame DEF CallOk
<1>3. cursor' \in Nat /\ cursor' \in 0 .. MaxPdus
  BY <1>1, <1>2
<1>4. Top.reads \in 0 .. 4 /\ 4 \in 0 .. 4 /\ (Top.reads > 0 => Top.reads - 1 \in 0 .. 4)
  BY <1>2 DEF Frames
<1>5. \E n \in 0 .. 4 : GoOn([Top EXCEPT !.reads = n])
  <2>1. CASE HandlePdu
    <3>1. Top = [Top EXCEPT !.reads = Top.reads]
      BY <1>2 DEF Frames
    <3> QED
      BY <1>4, <2>1, <3>1 DEF HandlePdu
  <2>2. CASE DemandActive
    BY <1>4, <2>2 DEF DemandActive
  <2>3. CASE NestedRead
    BY <1>4, <2>3 DEF NestedRead
  <2> QED
    BY <2>1, <2>2, <2>3
<1>6. PICK n \in 0 .. 4 : GoOn([Top EXCEPT !.reads = n])
  BY <1>5
<1>7. PICK g : g = [Top EXCEPT !.reads = n]
  OBVIOUS
<1>8. g \in Frames /\ g.polled = FALSE /\ g.packet = taken' /\ GoOn(g)
  BY <1>2, <1>6, <1>7 DEF Frames
<1>9. Calls' /\ CallsType'
  BY <1>1, <1>3, <1>8, WentOn
<1> QED
  BY <1>1, <1>3, <1>9, SameWire

\* The user closes a message box.
LEMMA DismissStep == IInv /\ Dismiss => IInv'
<1> SUFFICES ASSUME IInv, Dismiss PROVE IInv'
  OBVIOUS
<1> USE Facts DEF IInv
<1>1. /\ frames # <<>> /\ cursor' = cursor
      /\ UNCHANGED <<tls, sent, closed, sock, ssl, taken, garbled, armed, posted, over>>
  BY DEF Dismiss, InFrame
<1>2. Top \in Frames /\ CallOk(Top, cursor, taken)
  BY <1>1, TopFrame
<1>3. CASE InFrame("dialog") /\ Resume(Top)
  <2>1. Top.polled = FALSE /\ Top.packet = taken' /\ cursor' \in Nat
    BY <1>1, <1>2, <1>3 DEF CallOk, InFrame
  <2>2. Calls' /\ CallsType'
    BY <1>1, <1>2, <1>3, <2>1, Resumed
  <2> QED
    BY <1>1, <2>2, SameWire
<1>4. CASE InFrame("failing") /\ ReadFails
  <2>1. cursor' = 0
    BY <1>1, <1>2, <1>4 DEF CallOk, InFrame
  <2>2. Calls' /\ CallsType'
    BY <1>1, <1>4, <2>1, ReadFailed
  <2> QED
    BY <1>1, <2>2, SameWire
<1> QED
  BY <1>3, <1>4 DEF Dismiss

\* The server closes, or the main loop ends.
LEMMA QuietStep == IInv /\ (ServerCloses \/ QuitMessage) => IInv'
<1> SUFFICES ASSUME IInv, ServerCloses \/ QuitMessage PROVE IInv'
  OBVIOUS
<1> USE Facts DEF IInv
<1>1. UNCHANGED <<tls, sent, sock, ssl, taken, cursor, block, frames, garbled, armed, posted, quit>>
  BY DEF ServerCloses, QuitMessage
<1>2. closed' \in {TRUE, closed} /\ over' \in {TRUE, over}
  BY DEF ServerCloses, QuitMessage
<1>3. closed => closed'
  <2>1. CASE ServerCloses
    BY <2>1 DEF ServerCloses
  <2>2. CASE QuitMessage
    BY <2>2 DEF QuitMessage
  <2> QED
    BY <2>1, <2>2
<1>4. Calls'
  BY <1>1, <1>3 DEF Calls
<1>5. CallsType'
  BY <1>1 DEF CallsType, TypeOK
<1> QED
  BY <1>1, <1>2, <1>4, <1>5, SameWire

\* Every step keeps the invariant.
LEMMA NextInv == IInv /\ [Next]_vars => IInv'
<1> SUFFICES ASSUME IInv, [Next]_vars PROVE IInv'
  OBVIOUS
<1>1. CASE UNCHANGED vars
  BY <1>1 DEF vars, IInv, TypeOK, Fragments, Calls
<1>2. CASE ReadMessage \/ TimerMessage
  <2>1. posted' \in BOOLEAN /\ CheckSck
    BY <1>2, Facts DEF ReadMessage, TimerMessage, IInv
  <2> QED
    BY <2>1, CheckSckStep
<1> QED
  BY <1>1, <1>2, WrittenTyped, QuietStep, HeaderReadStep, BodyReadStep, EndOfStreamStep, PduStep,
     DismissStep DEF Next

-----------------------------------------------------------------------------
\* While a handler works on a packet, or waits in a message box, the buffer
\* holds that packet: g_block keeps check_sck from reading another.
THEOREM BufferIsHeld == Spec => []BufferHeld
<1>1. IInv => BufferHeld
  <2> SUFFICES ASSUME IInv, NEW i \in DOMAIN frames, frames[i].at \in {"handling", "dialog"}
               PROVE  taken = frames[i].packet
    BY DEF BufferHeld
  <2>1. PICK f \in Frames : frames = <<f>> /\ CallOk(f, cursor, taken)
    BY DEF IInv, Calls
  <2>2. i = 1 /\ frames[1] = f
    BY <2>1
  <2> QED
    BY <2>1, <2>2 DEF CallOk
<1> QED
  BY <1>1, InitInv, NextInv, PTL DEF Spec

\* An rdp_loop call begins a packet only when something of it is there; the
\* reads a handler makes, and the one after a licence PDU, begin without.
THEOREM ReadsStartOnData == Spec => []StartsOnData
<1>1. IInv => StartsOnData
  <2> SUFFICES ASSUME IInv, InFrame("header"), Top.polled
               PROVE  ssl > 0 \/ sock # <<>> \/ closed
    BY DEF StartsOnData
  <2>1. frames # <<>> /\ Top.at = "header" /\ Calls
    BY DEF InFrame, IInv
  <2>2. Top \in Frames
    BY <2>1, TopFrame
  <2>3. Top.polled = TRUE
    BY <2>2 DEF Frames
  <2> QED
    BY <2>1, <2>3, TopFrame
<1> QED
  BY <1>1, InitInv, NextInv, PTL DEF Spec

\* Every variable keeps its type: tcp_recv returns no fragment the server has
\* not written, over TLS or without, and no handler runs past the packet.
THEOREM TypeCorrect == Spec => []TypeOK
<1>1. IInv => TypeOK
  BY DEF IInv
<1> QED
  BY <1>1, InitInv, NextInv, PTL DEF Spec
==============================================================================
