--------------------------- MODULE Scanner_proofs ----------------------------
(***************************************************************************)
(* For every set of barcodes and every bound: the scanner's driver never   *)
(* writes a buffer that is still to be typed, and what is typed is what    *)
(* was scanned, in order.  The argument: while the thread reads, the last  *)
(* scan read is typed and neither a message nor the event is pending;      *)
(* while it waits, exactly one of a message, a typing GUI thread and the   *)
(* event stands for the scan in the buffer, or the message was lost.       *)
(***************************************************************************)
EXTENDS Scanner, SequenceTheorems, TLAPS

\* The number of scans the driver has handed out.
Taken == Len(scanned) - Len(ahead)

\* The scans are the typed ones, the one in the buffer and those ahead.
InOrder ==
  /\ Len(ahead) <= Len(scanned) /\ Len(typed) <= Taken
  /\ \A i \in 1 .. Len(ahead) : ahead[i] = scanned[Taken + i]
  /\ \A i \in 1 .. Len(typed) : typed[i] = scanned[i]
  /\ Taken > 0 => gOneScan = scanned[Taken]

\* No signal is on its way between the threads.
Quiet == messages = 0 /\ gui # "typed" /\ event = FALSE

\* Which signal is, by where the scanning thread is.
HandOver ==
  /\ gui = "start" => thread = "none"
  /\ thread \in {"none", "created", "loaded"} => Quiet /\ Taken = 0
  /\ thread = "reading" => Quiet /\ Len(typed) = Taken
  /\ thread = "notify" => Quiet /\ Len(typed) = Taken - 1
  /\ thread = "waiting" =>
       \/ Quiet /\ Len(typed) = Taken - 1
       \/ messages = 1 /\ gui # "typed" /\ event = FALSE /\ Len(typed) = Taken - 1
       \/ messages = 0 /\ gui = "typed" /\ event = FALSE /\ Len(typed) = Taken
       \/ messages = 0 /\ gui # "typed" /\ event = TRUE /\ Len(typed) = Taken
  /\ thread = "ended" => gui = "over" \/ (messages = 0 /\ gui # "typed")

IInv == TypeOK /\ InOrder /\ HandOver

-----------------------------------------------------------------------------
\* The initial state satisfies the invariant.
LEMMA InitInv == Init => IInv
<1> SUFFICES ASSUME Init PROVE IInv
  OBVIOUS
<1> USE DEF Init
<1>1. TypeOK
  <2>1. {g_Wnd, hWnd, enabled, event} \subseteq BOOLEAN
    OBVIOUS
  <2>2. scanned \in Seq(Barcodes) /\ typed \in Seq(Barcodes) /\ ahead \in Seq(Barcodes)
    BY EmptySeq
  <2> QED
    BY <2>1, <2>2 DEF TypeOK
<1>2. InOrder
  BY DEF InOrder, Taken
<1>3. HandOver
  BY DEF HandOver, Taken, Quiet
<1> QED
  BY <1>1, <1>2, <1>3 DEF IInv

\* A scan is appended to what was scanned and to what the driver holds.
LEMMA ScanStep == IInv /\ Scan => IInv'
<1> SUFFICES ASSUME IInv, Scan PROVE IInv'
  OBVIOUS
<1> USE DEF IInv
<1>1. PICK b \in Barcodes : scanned' = Append(scanned, b) /\ ahead' = Append(ahead, b)
  BY DEF Scan
<1>2. scanned \in Seq(Barcodes) /\ ahead \in Seq(Barcodes) /\ typed \in Seq(Barcodes)
  BY DEF TypeOK
<1>3. /\ Len(scanned') = Len(scanned) + 1 /\ Len(ahead') = Len(ahead) + 1
      /\ \A i \in 1 .. Len(scanned) : scanned'[i] = scanned[i]
      /\ \A i \in 1 .. Len(ahead) : ahead'[i] = ahead[i]
      /\ scanned'[Len(scanned) + 1] = b /\ ahead'[Len(ahead) + 1] = b
      /\ scanned' \in Seq(Barcodes) /\ ahead' \in Seq(Barcodes)
  BY <1>1, <1>2, AppendProperties
<1>4. /\ Len(scanned) \in Nat /\ Len(ahead) \in Nat /\ Len(typed) \in Nat
      /\ Taken \in Int /\ Taken' = Taken
  BY <1>2, <1>3, LenProperties DEF Taken
<1>5. UNCHANGED <<gui, g_Wnd, hWnd, thread, enabled, gOneScan, messages, event, typed>>
  BY DEF Scan
<1>6. TypeOK'
  BY <1>3, <1>5 DEF TypeOK
<1>7. InOrder'
  <2>1. Len(ahead') <= Len(scanned') /\ Len(typed') <= Taken'
    BY <1>3, <1>4, <1>5 DEF InOrder
  <2>2. ASSUME NEW i \in 1 .. Len(ahead') PROVE ahead'[i] = scanned'[Taken' + i]
    <3>1. CASE i \in 1 .. Len(ahead)
      <4>1. Taken + i \in 1 .. Len(scanned)
        BY <3>1, <1>4 DEF InOrder, Taken
      <4> QED
        BY <4>1, <3>1, <1>3, <1>4 DEF InOrder
    <3>2. CASE i = Len(ahead) + 1
      BY <3>2, <1>3, <1>4 DEF Taken
    <3> QED
      BY <3>1, <3>2, <1>3, <1>4
  <2>3. \A i \in 1 .. Len(typed') : typed'[i] = scanned'[i]
    <3>1. ASSUME NEW i \in 1 .. Len(typed) PROVE i \in 1 .. Len(scanned) /\ typed[i] = scanned[i]
      BY <1>4 DEF InOrder, Taken
    <3>2. typed' = typed /\ \A i \in 1 .. Len(scanned) : scanned'[i] = scanned[i]
      BY <1>3, <1>5
    <3> QED
      BY <3>1, <3>2
  <2>4. Taken' > 0 => gOneScan' = scanned'[Taken']
    <3>1. Taken > 0 => gOneScan = scanned[Taken] /\ Taken \in 1 .. Len(scanned)
      BY <1>4 DEF InOrder, Taken
    <3>2. \A i \in 1 .. Len(scanned) : scanned'[i] = scanned[i]
      BY <1>3
    <3> QED
      BY <3>1, <3>2, <1>4, <1>5
  <2> QED
    BY <2>1, <2>2, <2>3, <2>4 DEF InOrder
<1>8. HandOver'
  BY <1>4, <1>5 DEF HandOver, Quiet
<1> QED
  BY <1>6, <1>7, <1>8

\* The driver's first scan goes to the buffer.
LEMMA SyncReadStep == IInv /\ SyncRead => IInv'
<1> SUFFICES ASSUME IInv, SyncRead PROVE IInv'
  OBVIOUS
<1> USE DEF IInv
<1>1. /\ thread = "reading" /\ ahead # <<>> /\ gOneScan' = Head(ahead)
      /\ ahead' = Tail(ahead) /\ thread' = "notify" /\ enabled' = (bScannAhead /\ enabled)
      /\ UNCHANGED <<gui, g_Wnd, hWnd, scanned, messages, event, typed>>
  BY DEF SyncRead
<1>2. scanned \in Seq(Barcodes) /\ ahead \in Seq(Barcodes) /\ typed \in Seq(Barcodes)
  BY DEF TypeOK
<1>3. /\ Len(ahead) \in Nat \ {0} /\ Len(ahead') = Len(ahead) - 1
      /\ ahead' \in Seq(Barcodes) /\ gOneScan' = ahead[1] /\ gOneScan' \in Barcodes
      /\ \A i \in 1 .. Len(ahead') : ahead'[i] = ahead[i + 1]
  BY <1>1, <1>2, HeadTailProperties, EmptySeq
<1>4. /\ Len(scanned) \in Nat /\ Len(typed) \in Nat
      /\ Taken \in Int /\ Taken' = Taken + 1
  BY <1>1, <1>2, <1>3, LenProperties DEF Taken
<1>5. TypeOK'
  BY <1>1, <1>3 DEF TypeOK, bScannAhead
<1>6. InOrder'
  <2>1. Len(ahead') <= Len(scanned') /\ Len(typed') <= Taken'
    BY <1>1, <1>3, <1>4 DEF InOrder
  <2>2. ASSUME NEW i \in 1 .. Len(ahead') PROVE ahead'[i] = scanned'[Taken' + i]
    <3>1. i + 1 \in 1 .. Len(ahead) /\ Taken + (i + 1) = Taken' + i
      BY <1>3, <1>4
    <3> QED
      BY <3>1, <1>1, <1>3 DEF InOrder
  <2>3. \A i \in 1 .. Len(typed') : typed'[i] = scanned'[i]
    BY <1>1 DEF InOrder
  <2>4. gOneScan' = scanned'[Taken']
    BY <1>1, <1>3, <1>4 DEF InOrder
  <2> QED
    BY <2>1, <2>2, <2>3, <2>4 DEF InOrder
<1>7. HandOver'
  BY <1>1, <1>4 DEF HandOver, Quiet, TypeOK
<1> QED
  BY <1>5, <1>6, <1>7

\* The buffer joins what was typed: it holds the scan after the last typed.
LEMMA TypeScanStep == IInv /\ TypeScan => IInv'
<1> SUFFICES ASSUME IInv, TypeScan PROVE IInv'
  OBVIOUS
<1> USE DEF IInv
<1>1. /\ gui = "idle" /\ messages > 0 /\ messages' = messages - 1
      /\ typed' = Append(typed, gOneScan) /\ gui' = "typed"
      /\ UNCHANGED <<g_Wnd, hWnd, thread, enabled, scanned, ahead, gOneScan, event>>
  BY DEF TypeScan
<1>2. scanned \in Seq(Barcodes) /\ ahead \in Seq(Barcodes) /\ typed \in Seq(Barcodes)
  BY DEF TypeOK
<1>3. /\ thread = "waiting" /\ messages = 1 /\ event = FALSE /\ Len(typed) = Taken - 1
  BY <1>1 DEF HandOver, Quiet, TypeOK
<1>4. /\ Len(scanned) \in Nat /\ Len(ahead) \in Nat /\ Len(typed) \in Nat
      /\ Taken \in Nat \ {0} /\ Taken <= Len(scanned) /\ Taken' = Taken
  BY <1>1, <1>2, <1>3, LenProperties DEF Taken
<1>5. gOneScan = scanned[Taken] /\ gOneScan \in Barcodes
  BY <1>2, <1>4, ElementOfSeq DEF InOrder
<1>6. /\ typed' \in Seq(Barcodes) /\ Len(typed') = Len(typed) + 1
      /\ \A i \in 1 .. Len(typed) : typed'[i] = typed[i]
      /\ typed'[Len(typed) + 1] = gOneScan
  BY <1>1, <1>2, <1>5, AppendProperties
<1>7. TypeOK'
  BY <1>1, <1>3, <1>6 DEF TypeOK
<1>8. InOrder'
  <2>1. ASSUME NEW i \in 1 .. Len(typed') PROVE typed'[i] = scanned'[i]
    <3>1. CASE i \in 1 .. Len(typed)
      BY <3>1, <1>1, <1>6 DEF InOrder
    <3>2. CASE i = Len(typed) + 1
      BY <3>2, <1>1, <1>3, <1>4, <1>5, <1>6
    <3> QED
      BY <3>1, <3>2, <1>4, <1>6
  <2>2. /\ Len(ahead') <= Len(scanned') /\ Len(typed') <= Taken'
        /\ Taken' > 0 => gOneScan' = scanned'[Taken']
    BY <1>1, <1>3, <1>4, <1>6 DEF InOrder, Taken
  <2>3. \A i \in 1 .. Len(ahead') : ahead'[i] = scanned'[Taken' + i]
    BY <1>1, <1>3 DEF InOrder, Taken
  <2> QED
    BY <2>1, <2>2, <2>3 DEF InOrder
<1>9. HandOver'
  BY <1>1, <1>3, <1>4, <1>6 DEF HandOver, Quiet, Taken
<1> QED
  BY <1>7, <1>8, <1>9

\* The other actions move signals and leave the scans alone.
LEMMA SignalStep ==
  ASSUME IInv,
         \/ WmCreate \/ WindowCreated \/ ScanConsumed \/ UserQuits
         \/ ThreadStart \/ OpenScanner \/ Notify \/ WaitConsumed
  PROVE  IInv'
<1> USE DEF IInv
<1>1. UNCHANGED <<scanned, ahead, gOneScan, typed>>
  BY DEF WmCreate, WindowCreated, ScanConsumed, UserQuits, ThreadStart, OpenScanner, Notify,
         WaitConsumed
<1>2. InOrder' /\ Taken' = Taken
  BY <1>1 DEF InOrder, Taken
<1>3. CASE WmCreate
  BY <1>1, <1>2, <1>3 DEF WmCreate, TypeOK, HandOver, Quiet
<1>4. CASE WindowCreated
  BY <1>1, <1>2, <1>4 DEF WindowCreated, TypeOK, HandOver, Quiet
<1>5. CASE ScanConsumed
  BY <1>1, <1>2, <1>5 DEF ScanConsumed, TypeOK, HandOver, Quiet
<1>6. CASE UserQuits
  BY <1>1, <1>2, <1>6 DEF UserQuits, TypeOK, HandOver, Quiet
<1>7. CASE ThreadStart
  BY <1>1, <1>2, <1>7 DEF ThreadStart, TypeOK, HandOver, Quiet
<1>8. CASE OpenScanner
  <2>1. enabled' \in BOOLEAN
    <3>1. enabled \in BOOLEAN
      BY DEF TypeOK
    <3> QED
      BY <3>1, <1>8 DEF OpenScanner
  <2>2. TypeOK'
    BY <2>1, <1>1, <1>8 DEF OpenScanner, TypeOK
  <2>3. HandOver'
    <3>1. thread = "loaded" /\ Quiet /\ Taken = 0
      BY <1>8 DEF OpenScanner, HandOver
    <3>2. Len(typed) = 0
      BY <3>1, LenProperties DEF InOrder, TypeOK
    <3> QED
      BY <3>1, <3>2, <1>1, <1>2, <1>8 DEF OpenScanner, HandOver, Quiet
  <2> QED
    BY <2>2, <2>3, <1>2
<1>9. CASE Notify
  BY <1>1, <1>2, <1>9 DEF Notify, TypeOK, HandOver, Quiet
<1>10. CASE WaitConsumed
  BY <1>1, <1>2, <1>10 DEF WaitConsumed, TypeOK, HandOver, Quiet
<1> QED
  BY <1>3, <1>4, <1>5, <1>6, <1>7, <1>8, <1>9, <1>10

\* Every step keeps the invariant.
LEMMA NextInv == IInv /\ [Next]_vars => IInv'
<1> SUFFICES ASSUME IInv, [Next]_vars PROVE IInv'
  OBVIOUS
<1>1. CASE UNCHANGED vars
  BY <1>1 DEF vars, IInv, TypeOK, InOrder, HandOver, Taken, Quiet
<1>2. CASE Next
  BY <1>2, ScanStep, SyncReadStep, TypeScanStep, SignalStep DEF Next
<1> QED
  BY <1>1, <1>2

-----------------------------------------------------------------------------
\* Every variable keeps its type; in particular WM_HAVE_SCAN messages never
\* pile up, however many scans there are.
THEOREM TypeCorrect == Spec => []TypeOK
<1>1. IInv => TypeOK
  BY DEF IInv
<1> QED
  BY <1>1, InitInv, NextInv, PTL DEF Spec

\* The driver writes gOneScan only when no message announces it and no copy
\* of it is being typed (WM_HAVE_SCAN, ScanThread).
THEOREM BufferIsHandedOver == Spec => BufferHandedOver
<1>1. IInv /\ [Next]_vars => [gOneScan' # gOneScan => messages = 0 /\ gui # "typed"]_vars
  <2> SUFFICES ASSUME IInv, [Next]_vars, gOneScan' # gOneScan
               PROVE  messages = 0 /\ gui # "typed"
    OBVIOUS
  <2>1. SyncRead
    BY DEF Next, vars, WmCreate, WindowCreated, TypeScan, ScanConsumed, UserQuits, ThreadStart,
           OpenScanner, Notify, WaitConsumed, Scan
  <2> QED
    BY <2>1 DEF SyncRead, IInv, HandOver, Quiet
<1> QED
  BY <1>1, InitInv, NextInv, PTL DEF Spec, BufferHandedOver

\* What the GUI thread has typed is what the user has scanned first.
THEOREM TypedIsInOrder == Spec => []TypedInOrder
<1>1. IInv => TypedInOrder
  <2> SUFFICES ASSUME IInv PROVE TypedInOrder
    OBVIOUS
  <2>1. scanned \in Seq(Barcodes) /\ ahead \in Seq(Barcodes) /\ typed \in Seq(Barcodes)
    BY DEF IInv, TypeOK
  <2>2. /\ Len(typed) \in Nat /\ Len(scanned) \in Nat /\ Len(ahead) \in Nat
        /\ Len(typed) <= Len(scanned)
        /\ \A i \in 1 .. Len(typed) : typed[i] = scanned[i]
    BY <2>1, LenProperties DEF IInv, InOrder, Taken
  <2>3. SubSeq(typed, 1, Len(typed)) = SubSeq(scanned, 1, Len(typed))
    <3> DEFINE n == Len(typed)
    <3>1. SubSeq(typed, 1, n) \in Seq(Barcodes) /\ SubSeq(scanned, 1, n) \in Seq(Barcodes)
      BY <2>1, <2>2, SubSeqProperties
    <3>2. /\ Len(SubSeq(typed, 1, n)) = n /\ Len(SubSeq(scanned, 1, n)) = n
          /\ \A i \in 1 .. n : SubSeq(typed, 1, n)[i] = typed[i] /\ SubSeq(scanned, 1, n)[i] = scanned[i]
      BY <2>1, <2>2, SubSeqProperties
    <3> HIDE DEF n
    <3> QED
      BY <3>1, <3>2, <2>2, SeqEqual DEF n
  <2> QED
    BY <2>2, <2>3 DEF TypedInOrder, IsPrefix
<1> QED
  BY <1>1, InitInv, NextInv, PTL DEF Spec
=============================================================================
