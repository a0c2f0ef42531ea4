------------------------------ MODULE Scanner -------------------------------
(***************************************************************************)
(* The barcode scanner thread (barcodereader.h) and the GUI thread that    *)
(* types its scans (WndProc of win32.c).  They share one buffer, gOneScan, *)
(* and hand it over with a window message one way and an auto-reset event  *)
(* the other way.  The thread is created inside WM_CREATE, that is before  *)
(* CreateWindow has returned and g_Wnd is assigned, and takes its window   *)
(* handle from g_Wnd.  The scanner and its driver are external.            *)
(***************************************************************************)
EXTENDS Integers, Sequences, SequencesExt

CONSTANTS
  Barcodes,   \* the barcodes there are to scan
  NoData,     \* the empty buffer
  MaxScans,   \* BOUND: scans of one session
  MaxAhead    \* BOUND: scans the driver keeps while none is asked for

ASSUME ScannerAssumption ==
  NoData \notin Barcodes /\ MaxScans \in Nat /\ MaxAhead \in Nat \ {0}

VARIABLES
  gui,       \* where the GUI thread is
  g_Wnd,     \* whether the global holds the window's handle yet
  hWnd,      \* whether the thread's copy of it does
  thread,    \* where ScanThread is
  enabled,   \* the scanner's laser may be triggered
  scanned,   \* what the user has scanned, in order
  ahead,     \* scans the driver holds for the next ITCSCAN_SyncRead
  gOneScan,  \* the shared buffer
  messages,  \* WM_HAVE_SCAN messages in the window's queue
  event,     \* ghScannRead is signalled
  typed      \* what SendKeys has typed, in order

vars == <<gui, g_Wnd, hWnd, thread, enabled, scanned, ahead, gOneScan,
          messages, event, typed>>

bScannAhead == TRUE   \* the build never turns scan ahead off

Init ==
  /\ gui = "start" /\ g_Wnd = FALSE /\ hWnd = FALSE
  /\ thread = "none" /\ enabled = FALSE
  /\ scanned = <<>> /\ ahead = <<>> /\ gOneScan = NoData
  /\ messages = 0 /\ event = FALSE /\ typed = <<>>

-----------------------------------------------------------------------------
\* WM_CREATE, sent while CreateWindow runs: the event and the thread.
WmCreate ==
  /\ gui = "start"
  /\ gui' = "creating" /\ thread' = "created" /\ event' = FALSE
  /\ UNCHANGED <<g_Wnd, hWnd, enabled, scanned, ahead, gOneScan, messages, typed>>

\* CreateWindow returns, g_Wnd is assigned and the message loop entered.
WindowCreated ==
  /\ gui = "creating"
  /\ gui' = "idle" /\ g_Wnd' = TRUE
  /\ UNCHANGED <<hWnd, thread, enabled, scanned, ahead, gOneScan, messages, event, typed>>

\* WM_HAVE_SCAN: copy the buffer, type the copy ...
TypeScan ==
  /\ gui = "idle" /\ messages > 0
  /\ messages' = messages - 1
  /\ typed' = Append(typed, gOneScan)
  /\ gui' = "typed"
  /\ UNCHANGED <<g_Wnd, hWnd, thread, enabled, scanned, ahead, gOneScan, event>>

ScanConsumedEarly ==                     \* mutant: SetEvent is left out
  /\ gui = "typed" /\ gui' = "idle"
  /\ UNCHANGED <<g_Wnd, hWnd, thread, enabled, scanned, ahead, gOneScan, messages, event, typed>>

\* ... and let the scanning thread know that the data is consumed.
ScanConsumed ==
  /\ gui = "typed" /\ gui' = "idle"
  /\ event' = TRUE
  /\ UNCHANGED <<g_Wnd, hWnd, thread, enabled, scanned, ahead, gOneScan, messages, typed>>

\* The user leaves: the process, and the thread with it, ends.
UserQuits ==
  /\ gui = "idle"
  /\ gui' = "over" /\ thread' = "ended"
  /\ UNCHANGED <<g_Wnd, hWnd, enabled, scanned, ahead, gOneScan, messages, event, typed>>

-----------------------------------------------------------------------------
\* ScanThread copies g_Wnd and loads the scanner's library, or gives up.
ThreadStart ==
  /\ thread = "created"
  /\ hWnd' = g_Wnd
  /\ thread' \in {"loaded", "ended"}
  /\ UNCHANGED <<gui, g_Wnd, enabled, scanned, ahead, gOneScan, messages, event, typed>>

\* ITCSCAN_Open, which may fail.
OpenScanner ==
  /\ thread = "loaded"
  /\ \/ thread' = "reading" /\ enabled' = TRUE
     \/ thread' = "ended" /\ UNCHANGED enabled
  /\ UNCHANGED <<gui, g_Wnd, hWnd, scanned, ahead, gOneScan, messages, event, typed>>

\* ITCSCAN_SyncRead returns a scan; when it fails the thread calls it again.
SyncRead ==
  /\ thread = "reading" /\ ahead # <<>>
  /\ gOneScan' = Head(ahead) /\ ahead' = Tail(ahead)
  /\ enabled' = (bScannAhead /\ enabled)
  /\ thread' = "notify"
  /\ UNCHANGED <<gui, g_Wnd, hWnd, scanned, messages, event, typed>>

\* PostMessage; with no window handle the message goes to the queue of the
\* scanning thread itself, which nobody reads.
Notify ==
  /\ thread = "notify"
  /\ messages' = IF hWnd THEN messages + 1 ELSE messages
  /\ thread' = "waiting"
  /\ UNCHANGED <<gui, g_Wnd, hWnd, enabled, scanned, ahead, gOneScan, event, typed>>

WaitConsumedManualReset ==               \* mutant: CreateEvent(NULL, TRUE, ..)
  /\ thread = "waiting" /\ event
  /\ thread' = "reading" /\ enabled' = TRUE
  /\ UNCHANGED <<gui, g_Wnd, hWnd, scanned, ahead, gOneScan, messages, event, typed>>

\* WaitForSingleObject resets the event as it returns; then the scanner is
\* enabled again.
WaitConsumed ==
  /\ thread = "waiting" /\ event
  /\ event' = FALSE
  /\ thread' = "reading" /\ enabled' = TRUE
  /\ UNCHANGED <<gui, g_Wnd, hWnd, scanned, ahead, gOneScan, messages, typed>>

\* The user pulls the trigger.
Scan ==
  /\ enabled /\ thread # "ended"
  /\ Len(scanned) < MaxScans /\ Len(ahead) < MaxAhead
  /\ \E b \in Barcodes :
       scanned' = Append(scanned, b) /\ ahead' = Append(ahead, b)
  /\ UNCHANGED <<gui, g_Wnd, hWnd, thread, enabled, gOneScan, messages, event, typed>>

Next ==
  \/ WmCreate \/ WindowCreated \/ TypeScan \/ ScanConsumed \/ UserQuits
  \/ ThreadStart \/ OpenScanner \/ SyncRead \/ Notify \/ WaitConsumed
  \/ Scan

Spec == Init /\ [][Next]_vars

\* Both threads are scheduled; nobody has to scan or to quit.
Fairness ==
  /\ WF_vars(WmCreate \/ WindowCreated \/ TypeScan \/ ScanConsumed)
  /\ WF_vars(ThreadStart \/ OpenScanner \/ SyncRead \/ Notify \/ WaitConsumed)

FairSpec == Spec /\ Fairness

-----------------------------------------------------------------------------
\* Every variable has its type.
TypeOK ==
  /\ gui \in {"start", "creating", "idle", "typed", "over"}
  /\ thread \in {"none", "created", "loaded", "reading", "notify", "waiting", "ended"}
  /\ {g_Wnd, hWnd, enabled, event} \subseteq BOOLEAN
  /\ scanned \in Seq(Barcodes) /\ typed \in Seq(Barcodes)
  /\ ahead \in Seq(Barcodes) /\ gOneScan \in Barcodes \cup {NoData}
  /\ messages \in 0 .. 1

\* ghScannRead "allows synchronizing, not scanning until data consumed"
\* (barcodereader.h): the driver never writes gOneScan between the posting
\* of WM_HAVE_SCAN and the moment the GUI thread has typed the copy.
BufferHandedOver ==
  [][gOneScan' # gOneScan => messages = 0 /\ gui # "typed"]_vars

\* The session types what was scanned, in order, each scan once and none in
\* between lost: WM_HAVE_SCAN messages neither pile up nor overtake.
TypedInOrder == IsPrefix(typed, scanned)

\* If the thread did start with the window's handle, every scan is typed
\* unless the user quits first.
ScansTyped ==
  \A k \in 1 .. MaxScans :
    (hWnd /\ Len(scanned) >= k) ~> (Len(typed) >= k \/ gui = "over")

\* "Notify main thread that scan data is ready" (barcodereader.h:109): every
\* scan is typed, whenever the thread started.
EveryScanTyped ==
  \A k \in 1 .. MaxScans :
    (Len(scanned) >= k) ~> (Len(typed) >= k \/ gui = "over")

=============================================================================
