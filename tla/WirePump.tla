------------------------------ MODULE WirePump ------------------------------
(***************************************************************************)
(* How PDUs get from the socket to their handlers once the window is up:   *)
(* window messages call check_sck (win32.c), which polls the socket and    *)
(* runs rdp_loop over one packet; the packet is read with blocking reads   *)
(* in the GUI thread, and a handler that reports an error opens a message  *)
(* box, whose own message loop dispatches window messages again.           *)
(*                                                                         *)
(* A packet (TPKT or fast path) is two fragments on the wire, its header   *)
(* and its body, and carries one or more RDP PDUs.  The server writes      *)
(* fragments in records: TLS records, or plain TCP segments.  A redirect,  *)
(* which leaves rdp_loop early, is the last PDU of its packet.             *)
(*                                                                         *)
(* The handler of a demand active calls rdp_recv four times itself, and    *)
(* sec_recv goes back to the wire after a licence PDU: those reads are not *)
(* preceded by a poll.                                                     *)
(***************************************************************************)
EXTENDS Integers, Sequences

CONSTANTS
  MaxPackets,  \* BOUND: packets the server sends
  MaxRecord,   \* BOUND: fragments in one record
  MaxPdus      \* BOUND: RDP PDUs in one packet

ASSUME PumpAssumption ==
  /\ MaxPackets \in Nat \ {0} /\ MaxRecord \in Nat \ {0} /\ MaxPdus \in Nat \ {0}

VARIABLES
  tls,      \* the connection runs over TLS: g_ssl is set
  sent,     \* fragments the server has written
  closed,   \* the server has closed the connection
  sock,     \* records waiting in the socket, as numbers of fragments
  ssl,      \* fragments decrypted and waiting inside OpenSSL: SSL_pending
  taken,    \* fragments tcp_recv has returned; g_in holds the last packet
  cursor,   \* PDUs of that packet from g_next_packet on
  block,    \* g_block
  frames,   \* the rdp_loop calls in progress, the innermost last
  garbled,  \* the server has sent something the layers complain of
  armed,    \* Winsock will post FD_READ when data arrives
  posted,   \* an FD_READ message (WM_APP + 1) is in the queue
  quit,     \* PostQuitMessage has been called
  over      \* mi_main_loop has returned

wire == <<sent, closed>>
vars == <<tls, sent, closed, sock, ssl, taken, cursor, block, frames, garbled,
          armed, posted, quit, over>>

\* Where an rdp_loop call is: reading a header or a body, at the next PDU of
\* the packet it has, or in a message box after which it goes on or fails.
\* polled: check_sck saw data for the read.  reads: the rdp_recv calls of
\* process_demand_active still to return.  packet: taken when the last body
\* was accepted.
Frames == [at     : {"header", "body", "handling", "dialog", "failing"},
           polled : BOOLEAN, reads : 0 .. 4, packet : 0 .. 2 * MaxPackets]

\* mi_create_window: the timer runs and FD_READ is asked for; the packets of
\* the connection sequence have been handled.
Init ==
  /\ tls \in BOOLEAN
  /\ sent = 0 /\ closed = FALSE /\ sock = <<>> /\ ssl = 0
  /\ taken = 0 /\ cursor = 0 /\ garbled = FALSE
  /\ block = FALSE /\ frames = <<>>
  /\ armed = TRUE /\ posted = FALSE /\ quit = FALSE /\ over = FALSE

-----------------------------------------------------------------------------
\* The server, and Winsock's notification of what it sends.
ServerWrites ==
  /\ ~closed
  /\ \E n \in 1 .. MaxRecord :
       /\ sent + n <= 2 * MaxPackets
       /\ sent' = sent + n
       /\ sock' = Append(sock, n)
  /\ posted' = (posted \/ armed) /\ armed' = FALSE
  /\ UNCHANGED <<tls, closed, ssl, taken, cursor, block, frames, garbled, quit, over>>

\* FD_CLOSE is not asked for: a close is noticed by reading only.
ServerCloses ==
  /\ ~closed /\ closed' = TRUE
  /\ UNCHANGED <<tls, sent, sock, ssl, taken, cursor, block, frames, garbled,
                 armed, posted, quit, over>>

-----------------------------------------------------------------------------
Top == frames[Len(frames)]
InFrame(at) == ~over /\ frames # <<>> /\ Top.at = at
SetTop(f) == frames' = [frames EXCEPT ![Len(frames)] = f]

\* A message loop is running: the main one, or that of a message box.
Pumping ==
  /\ ~over
  /\ frames # <<>> => Top.at \in {"dialog", "failing"}

UnblockedAlways == TRUE                 \* mutant: g_block is not tested
Unblocked == ~block

ReadableAlways == TRUE                  \* mutant: check_sck does not poll
\* select() on the raw socket.
Readable == sock # <<>> \/ closed

\* check_sck, up to its call of rdp_loop; rdp_recv goes on with the packet it
\* has until it is used up.
CheckSck ==
  /\ IF Unblocked /\ Readable
     THEN /\ block' = TRUE
          /\ frames' = Append(frames, [at     |-> IF cursor > 0 THEN "handling" ELSE "header",
                                       polled |-> TRUE, reads |-> 0, packet |-> taken])
     ELSE UNCHANGED <<block, frames>>
  /\ UNCHANGED <<tls, sent, closed, sock, ssl, taken, cursor, garbled, armed, quit, over>>

ReadMessage == Pumping /\ posted /\ posted' = FALSE /\ CheckSck

TimerNeverSet == FALSE /\ UNCHANGED vars   \* mutant: SetTimer is forgotten
\* WM_TIMER, every 333 ms: it comes after posted messages and WM_QUIT.
TimerMessage == Pumping /\ ~posted /\ ~quit /\ UNCHANGED posted /\ CheckSck

\* GetMessage finds WM_QUIT behind the posted messages.
QuitMessage ==
  /\ Pumping /\ frames = <<>> /\ quit /\ ~posted
  /\ over' = TRUE
  /\ UNCHANGED <<tls, sent, closed, sock, ssl, taken, cursor, block, frames,
                 garbled, armed, posted, quit>>

-----------------------------------------------------------------------------
\* rdp_loop returns to check_sck.
LeaveBlocked(failed) ==                 \* mutant: g_block stays after a failure
  /\ frames' = SubSeq(frames, 1, Len(frames) - 1)
  /\ block' = failed /\ quit' = quit

Leave(failed) ==
  /\ frames' = SubSeq(frames, 1, Len(frames) - 1)
  /\ block' = FALSE
  /\ quit' = (quit \/ failed)

\* recv() takes fragments away and asks for the next notification, which is
\* due at once when more is waiting.
Recv(rest) ==
  /\ sock' = rest
  /\ posted' = (posted \/ rest # <<>>)
  /\ armed' = (rest = <<>>)

\* One round of tcp_recv's loop that brings a fragment.
TcpRecv ==
  \/ /\ ~tls /\ sock # <<>>
     /\ Recv(IF Head(sock) = 1 THEN Tail(sock) ELSE [sock EXCEPT ![1] = @ - 1])
     /\ UNCHANGED ssl
  \/ /\ tls /\ ssl > 0
     /\ ssl' = ssl - 1 /\ UNCHANGED <<sock, armed, posted>>
  \/ /\ tls /\ ssl = 0 /\ sock # <<>>
     /\ Recv(Tail(sock)) /\ ssl' = Head(sock) - 1

ResumePastEnd(f) ==                     \* mutant: one PDU too many
  \/ /\ cursor' >= 0 \/ f.reads > 0
     /\ SetTop([f EXCEPT !.at = "handling"])
     /\ UNCHANGED <<block, quit>>
  \/ cursor' < 0 /\ f.reads = 0 /\ Leave(FALSE)

\* What comes next in the call f: a PDU of the packet at hand, the next read
\* of process_demand_active, or the end of rdp_loop.
Resume(f) ==
  \/ /\ cursor' > 0 \/ f.reads > 0
     /\ SetTop([f EXCEPT !.at = IF cursor' > 0 THEN "handling" ELSE "header"])
     /\ UNCHANGED <<block, quit>>
  \/ cursor' = 0 /\ f.reads = 0 /\ Leave(FALSE)

\* The same after a message box; or a handler calls error() on the way.
GoOn(f) ==
  \/ Resume(f)
  \/ SetTop([f EXCEPT !.at = "dialog"]) /\ UNCHANGED <<block, quit>>

\* rdp_recv returns NULL: rdp_loop returns False; but process_demand_active
\* does not look, reads on, and after its last read rdp_loop compares a stale
\* g_next_packet with the end of the input and returns True, or reads on.
ReadFails ==
  \/ Top.reads = 0 /\ Leave(TRUE)
  \/ Top.reads = 1 /\ Leave(FALSE)
  \/ /\ Top.reads > 0
     /\ SetTop([Top EXCEPT !.at = "header", !.reads = @ - 1, !.polled = FALSE])
     /\ UNCHANGED <<block, quit>>

\* iso_recv_msg goes on to the body, or finds a "Bad packet header".
HeaderRead ==
  /\ InFrame("header")
  /\ TcpRecv /\ taken' = taken + 1
  /\ \/ SetTop([Top EXCEPT !.at = "body"]) /\ UNCHANGED garbled
     \/ SetTop([Top EXCEPT !.at = "failing"]) /\ garbled' = TRUE
  /\ UNCHANGED <<tls, sent, closed, cursor, block, quit, over>>

Accepted == [Top EXCEPT !.polled = FALSE, !.packet = taken']

\* The body is there.  The layers accept the packet, for rdp_loop or for a
\* read of process_demand_active, which takes one PDU of it; sec_recv finds a
\* licence PDU in it and reads another packet; or they reject it, with an
\* error box or silently (mcs_recv, when the server says goodbye).
BodyRead ==
  /\ InFrame("body")
  /\ TcpRecv /\ taken' = taken + 1
  /\ \/ /\ Top.reads = 0 /\ cursor' \in 1 .. MaxPdus
        /\ Resume(Accepted) /\ UNCHANGED garbled
     \/ /\ Top.reads > 0 /\ cursor' \in 0 .. (MaxPdus - 1)
        /\ GoOn([Accepted EXCEPT !.reads = @ - 1]) /\ UNCHANGED garbled
     \/ /\ SetTop([Top EXCEPT !.at = "header", !.polled = FALSE])
        /\ UNCHANGED <<cursor, block, quit, garbled>>
     \/ /\ SetTop([Top EXCEPT !.at = "failing"]) /\ garbled' = TRUE
        /\ UNCHANGED <<cursor, block, quit>>
     \/ ReadFails /\ UNCHANGED <<cursor, garbled>>
  /\ UNCHANGED <<tls, sent, closed, over>>

\* recv() returns 0: "Connection closed".
EndOfStream ==
  /\ InFrame("header") \/ InFrame("body")
  /\ closed /\ sock = <<>> /\ ssl = 0
  /\ SetTop([Top EXCEPT !.at = "failing"])
  /\ UNCHANGED <<tls, sent, closed, sock, ssl, taken, cursor, block, garbled,
                 armed, posted, quit, over>>

\* A PDU of the packet at hand is done, by its handler ...
HandlePdu ==
  /\ InFrame("handling") /\ Top.reads = 0
  /\ cursor' = cursor - 1 /\ GoOn(Top)
  /\ UNCHANGED <<tls, sent, closed, sock, ssl, taken, garbled, armed, posted, over>>

\* ... which is process_demand_active, about to read four more ...
DemandActive ==
  /\ InFrame("handling") /\ Top.reads = 0
  /\ cursor' = cursor - 1 /\ GoOn([Top EXCEPT !.reads = 4])
  /\ UNCHANGED <<tls, sent, closed, sock, ssl, taken, garbled, armed, posted, over>>

\* ... or by one of those reads, which takes it unseen.
NestedRead ==
  /\ InFrame("handling") /\ Top.reads > 0
  /\ cursor' = cursor - 1 /\ GoOn([Top EXCEPT !.reads = @ - 1])
  /\ UNCHANGED <<tls, sent, closed, sock, ssl, taken, garbled, armed, posted, over>>

\* The user closes the message box.
Dismiss ==
  /\ \/ InFrame("dialog") /\ cursor' = cursor /\ Resume(Top)
     \/ InFrame("failing") /\ cursor' = cursor /\ ReadFails
  /\ UNCHANGED <<tls, sent, closed, sock, ssl, taken, garbled, armed, posted, over>>

Next ==
  \/ ServerWrites \/ ServerCloses
  \/ ReadMessage \/ TimerMessage \/ QuitMessage
  \/ HeaderRead \/ BodyRead \/ EndOfStream
  \/ HandlePdu \/ DemandActive \/ NestedRead \/ Dismiss

Spec == Init /\ [][Next]_vars

\* A read without a poll: the server has more to say after a demand active, a
\* licence PDU or its goodbye.
Owing == (InFrame("header") \/ InFrame("body")) /\ ~Top.polled /\ ~garbled

\* The GUI thread runs, the timer keeps firing and the user closes boxes.  Of
\* the server nothing is assumed but that it finishes what it owes, or closes.
Fairness ==
  /\ WF_vars(ReadMessage) /\ WF_vars(TimerMessage) /\ WF_vars(QuitMessage)
  /\ WF_vars(HeaderRead) /\ WF_vars(BodyRead) /\ WF_vars(EndOfStream)
  /\ WF_vars(HandlePdu \/ DemandActive \/ NestedRead) /\ WF_vars(Dismiss)
  /\ WF_vars(Owing /\ (ServerWrites \/ ServerCloses))

FairSpec == Spec /\ Fairness

-----------------------------------------------------------------------------
\* Every variable has its type.
TypeOK ==
  /\ {tls, closed, block, garbled, armed, posted, quit, over} \subseteq BOOLEAN
  /\ sent \in 0 .. 2 * MaxPackets /\ taken \in 0 .. sent
  /\ ssl \in 0 .. MaxRecord /\ sock \in Seq(1 .. MaxRecord)
  /\ cursor \in 0 .. MaxPdus /\ frames \in Seq(Frames)

\* g_in is a single buffer: while a handler works on a packet, or waits in a
\* message box raised from it, no window message may read another packet
\* into the buffer (g_block of check_sck).
BufferHeld ==
  \A i \in DOMAIN frames :
    frames[i].at \in {"handling", "dialog"} => taken = frames[i].packet

\* An rdp_loop call never begins by waiting for a packet of which nothing has
\* come: FD_READ messages that are out of date, and timer messages, are
\* filtered by check_sck's poll.
StartsOnData ==
  InFrame("header") /\ Top.polled => ssl > 0 \/ sock # <<>> \/ closed

\* The first k packets are taken from the wire, and no call is left at work on
\* one of them: a call in progress has been polled for a later one.
Drained(k) == taken >= 2 * k /\ cursor = 0 /\ (frames # <<>> => Top.polled)

\* Without TLS, every packet that has wholly arrived is handled, also when
\* its FD_READ message was spent on a message box, and when it is one of a
\* reactivation's (check_sck, rdp_loop, process_demand_active).
PlainDrains ==
  \A k \in 1 .. MaxPackets : (~tls /\ sent >= 2 * k) ~> (Drained(k) \/ quit \/ garbled)

\* Once the server closes the connection, mi_main_loop returns: FD_CLOSE is
\* not asked for, so it takes a poll of the socket to find out (check_sck).
CloseEndsLoop == closed ~> over

\* rdp_loop "processes the rdp packets waiting" (rdp.c:1662): every packet
\* that has wholly arrived is handled, over TLS as well.
Drains ==
  \A k \in 1 .. MaxPackets : (sent >= 2 * k) ~> (Drained(k) \/ quit \/ garbled)

=============================================================================
