------------------------------ MODULE Session ------------------------------
(***************************************************************************)
(* The life of one rdesktop process, from ui_main to its return: TCP, the  *)
(* X.224 negotiation with its retries, TLS, the MCS joins, licensing, the  *)
(* demand-active exchange, the message loop and Session Directory          *)
(* redirection.  The client is single threaded: it stands at one blocking  *)
(* read or one system call, named by pc, and every action runs from there  *)
(* to the next one.                                                        *)
(*                                                                         *)
(* The server is the environment.  It is assumed to conform: it answers a  *)
(* negotiation request only if there was one, licenses a client before it  *)
(* activates it and sends nothing but the end of the stream after a        *)
(* redirect PDU.  It may refuse, garble or break off at every other point; *)
(* a licence it has issued is issued for the server, whether or not the    *)
(* client has understood it.                                               *)
(***************************************************************************)
EXTENDS Integers, FiniteSets

CONSTANTS
  Handles,       \* the socket handles the operating system may hand out
  None,          \* -1, 0 or NULL: no socket, no TLS session
  MaxRedirects,  \* BOUND: redirect PDUs in one behaviour
  NumChannels    \* g_num_channels; this build registers no virtual channel

ASSUME SessionAssumption ==
  /\ IsFiniteSet(Handles) /\ Handles # {} /\ None \notin Handles
  /\ MaxRedirects \in Nat /\ NumChannels \in Nat

VARIABLES
  pc,            \* the blocking call the client stands at
  g_sock, g_ssl, \* the socket; the socket g_ssl was created on
  open,          \* the handles not yet given back by closesocket
  g_tcp_sck,     \* the socket the window polls
  g_negotiate,   \* g_negotiate_rdp_protocol
  g_encryption, g_rdp_version,
  g_licence_issued, g_licence_error_result,
  g_rdp_shareid, \* is it nonzero?
  g_redirect, g_Wnd,
  left,          \* answers still awaited at "join" and "active"
  peer,          \* has the server of g_sock not yet closed it?
  licensed,      \* has that server completed licensing?
  attempts,      \* tcp_connect calls of this iso_connect (capped at 3)
  target,        \* redirects followed
  staleResult,   \* g_licence_error_result as this target's connect found it
  misframed      \* the kinds of PDU this target got with a wrong security header

netVars == <<g_sock, g_ssl, open, g_tcp_sck>>
secVars == <<g_encryption, g_rdp_version, g_licence_issued, g_licence_error_result>>
uiVars == <<g_rdp_shareid, g_redirect, g_Wnd>>
srvVars == <<peer, licensed>>
ghostVars == <<attempts, target, staleResult, misframed>>
vars == <<pc, netVars, g_negotiate, secVars, uiVars, left, srvVars, ghostVars>>

Stops == {"exit0", "exit1"}          \* ui_main returned 0, 1
Joining == {"response", "attach", "join"}
Activating == {"active", "reactive"} \* called by rdp_connect, by the window
Connected == {"loop", "window", "main"} \cup Activating
Phases == {"reset", "connect", "confirm"} \cup Joining \cup Connected \cup Stops

Init ==
  /\ pc = "reset"
  /\ g_sock = None /\ g_ssl = None /\ open = {} /\ g_tcp_sck = None
  /\ g_negotiate = TRUE /\ g_encryption = TRUE /\ g_rdp_version = 5
  /\ g_licence_issued = FALSE /\ g_licence_error_result = FALSE
  /\ g_rdp_shareid = FALSE /\ g_redirect = FALSE /\ g_Wnd = FALSE
  /\ left = 0 /\ peer = FALSE /\ licensed = FALSE
  /\ attempts = 0 /\ target = 0 /\ staleResult = FALSE /\ misframed = {}

-----------------------------------------------------------------------------
(* What the layers do to their globals.                                    *)

SecResetStateKeepsLicence ==             \* mutant: a forgotten reset
  g_sock' = None /\ UNCHANGED <<g_ssl, open, g_tcp_sck, secVars>>

SecResetStateDropsTls ==                 \* mutant: half of a repair
  /\ g_sock' = None /\ g_ssl' = None /\ g_licence_issued' = FALSE
  /\ UNCHANGED <<open, g_tcp_sck, g_encryption, g_rdp_version, g_licence_error_result>>

\* sec_reset_state and the layers below: neither g_ssl nor the licence error
\* result nor g_encryption is reset, and the socket is forgotten, not closed.
SecResetState ==
  /\ g_sock' = None
  /\ UNCHANGED <<g_ssl, open, g_tcp_sck>>
  /\ g_licence_issued' = FALSE
  /\ UNCHANGED <<g_encryption, g_rdp_version, g_licence_error_result>>

TcpDisconnectKeepsSocket ==              \* mutant: the socket leaks
  g_ssl' = None /\ UNCHANGED <<open, g_sock, g_tcp_sck>>

TcpDisconnect ==
  g_ssl' = None /\ open' = open \ {g_sock} /\ UNCHANGED <<g_sock, g_tcp_sck>>

\* The security header precedes every PDU while licensing is pending, and
\* afterwards the encrypted ones only.
SecHeader(flags) ==
  (~g_licence_issued /\ ~g_licence_error_result) \/ flags = "encrypt"

\* sec_send: does the header match what this server parses?
Misframes(flags) == SecHeader(flags) # (~licensed \/ flags = "encrypt")

\* The kinds of PDU one can be wrong in: the client random and the logon
\* packet, the client's part of licensing, and everything after it.
Kinds == {"logon", "licence", "data"}

Misframed(kind, flags) == IF Misframes(flags) THEN {kind} ELSE {}

DataFlags == IF g_encryption THEN "encrypt" ELSE "plain"

-----------------------------------------------------------------------------
(* ui_main and iso_connect.                                                *)

\* Top of ui_main's loop, up to the retry label of iso_connect.
UiMainTop ==
  /\ pc = "reset" /\ pc' = "connect"
  /\ SecResetState
  /\ g_rdp_shareid' = FALSE /\ g_redirect' = FALSE /\ UNCHANGED g_Wnd
  /\ g_negotiate' = TRUE
  /\ attempts' = 0 /\ misframed' = {} /\ staleResult' = g_licence_error_result
  /\ target' = IF g_redirect THEN target + 1 ELSE target
  /\ peer' = FALSE /\ licensed' = FALSE
  /\ UNCHANGED left

\* No address, no socket, or no connection: the handle is closed and kept.
TcpConnectFails ==
  /\ pc = "connect" /\ pc' = "exit0"
  /\ \/ UNCHANGED g_sock
     \/ g_sock' = None
     \/ g_sock' \in Handles \ open
  /\ UNCHANGED <<g_ssl, open, g_tcp_sck, g_negotiate, secVars, uiVars, left, srvVars, ghostVars>>

\* tcp_connect, the connection request, and ui_select on the way into the
\* read of its answer: it keeps the first socket it ever sees.
TcpConnect ==
  /\ pc = "connect" /\ pc' = "confirm"
  /\ \E h \in Handles \ open :
       /\ g_sock' = h /\ open' = open \cup {h}
       /\ g_tcp_sck' = IF g_tcp_sck = None THEN h ELSE g_tcp_sck
  /\ peer' = TRUE /\ licensed' = FALSE
  /\ attempts' = IF attempts < 3 THEN attempts + 1 ELSE 3
  /\ UNCHANGED <<g_ssl, g_negotiate, secVars, uiVars, left, target, staleResult, misframed>>

\* The connection request carried RDP_NEG_REQ: an answer may carry a response.
Asked == g_rdp_version >= 5 /\ g_negotiate

\* The request reaches the server only through a TLS session of this socket.
Reaches == g_ssl \in {None, g_sock}

\* The read fails, and the socket stays open; or it yields another PDU than
\* CC, or a response that selects neither RDP nor TLS.
ConfirmFails ==
  /\ pc = "confirm" /\ pc' = "exit0"
  /\ UNCHANGED netVars \/ TcpDisconnect
  /\ UNCHANGED <<g_negotiate, secVars, uiVars, left, srvVars, ghostVars>>

\* CC without a negotiation response, or with one that selects plain RDP.
ConfirmPlain ==
  /\ pc = "confirm" /\ Reaches /\ peer /\ pc' = "response"
  /\ UNCHANGED <<netVars, g_negotiate, secVars, uiVars, left, srvVars, ghostVars>>

\* CC with a response that selects TLS, and SSL_connect succeeds (or returns
\* 0, a refusal that tcp_tls_connect takes for success: JoinFails follows).
ConfirmTls ==
  /\ pc = "confirm" /\ Reaches /\ peer /\ Asked /\ pc' = "response"
  /\ g_ssl' = g_sock /\ g_encryption' = FALSE
  /\ UNCHANGED <<g_sock, open, g_tcp_sck, g_negotiate, g_rdp_version, g_licence_issued,
                 g_licence_error_result, uiVars, left, srvVars, ghostVars>>

RetryAsksAgain ==                        \* mutant: negotiation stays on
  /\ pc = "confirm" /\ Reaches /\ peer /\ Asked /\ pc' = "connect"
  /\ TcpDisconnect
  /\ UNCHANGED <<g_negotiate, secVars, uiVars, left, srvVars, ghostVars>>

\* RDP_NEG_FAILURE, an unknown response or a failed TLS handshake: again,
\* without negotiation.
Retry ==
  /\ pc = "confirm" /\ Reaches /\ peer /\ Asked /\ pc' = "connect"
  /\ TcpDisconnect
  /\ g_negotiate' = FALSE
  /\ UNCHANGED <<secVars, uiVars, left, srvVars, ghostVars>>

-----------------------------------------------------------------------------
(* mcs_connect_finalize and the rest of sec_connect and rdp_connect.       *)

\* A missing, negative or overlong answer: mcs_connect_finalize's error label.
JoinFails ==
  /\ pc \in Joining /\ pc' = "exit0"
  /\ TcpDisconnect
  /\ UNCHANGED <<g_negotiate, secVars, uiVars, left, srvVars, ghostVars>>

\* The connect response; SRV_INFO may announce a version 4 server.
ConnectResponse ==
  /\ pc = "response" /\ peer /\ pc' = "attach"
  /\ g_rdp_version' \in {4, g_rdp_version}
  /\ UNCHANGED <<netVars, g_negotiate, g_encryption, g_licence_issued, g_licence_error_result,
                 uiVars, left, srvVars, ghostVars>>

\* AUcf; then the user's channel, the global one and each virtual channel.
AttachConfirm ==
  /\ pc = "attach" /\ peer /\ pc' = "join"
  /\ left' = 2 + NumChannels
  /\ UNCHANGED <<netVars, g_negotiate, secVars, uiVars, srvVars, ghostVars>>

LastJoinOffByOne == left = 0             \* mutant: one answer too many

LastJoin == left = 1

\* CJcf.  After the last one come, without a read, the client random (only
\* without TLS) and the logon packet.
JoinConfirm ==
  /\ pc = "join" /\ peer
  /\ left' = left - 1
  /\ \/ ~LastJoin /\ UNCHANGED <<pc, misframed>>
     \/ /\ LastJoin /\ pc' = "loop"
        /\ misframed' = misframed \cup Misframed("logon", DataFlags) \cup
                        (IF g_encryption THEN Misframed("logon", "random") ELSE {})
  /\ UNCHANGED <<netVars, g_negotiate, secVars, uiVars, srvVars, attempts, target, staleResult>>

-----------------------------------------------------------------------------
(* rdp_loop, called until the first demand active by rdp_connect and then  *)
(* by the window's message loop.                                           *)

\* rdp_connect reads g_sock and blocks; the window reads it only when select
\* reports data on g_tcp_sck.
Reading ==
  \/ pc = "loop"
  \/ pc = "main" /\ g_Wnd /\ g_tcp_sck = g_sock

\* sec_recv looks for security flags, hence for licence PDUs, only then; it
\* skips a licence PDU it does not see as a PDU of type 0.
SeesLicence == g_encryption \/ SecHeader("plain")

\* licence_process: a demand, or an authentication request, and the answer.
LicenceRequest ==
  /\ Reading /\ peer /\ ~licensed /\ SeesLicence
  /\ misframed' = misframed \cup Misframed("licence", "licence")
  /\ UNCHANGED <<pc, netVars, g_negotiate, secVars, uiVars, left, srvVars, attempts, target, staleResult>>

\* licence_process_issue: the server is done with licensing.  The client
\* takes the licence, or returns in silence because it is shorter than it
\* says or does not decrypt; or it has not seen that this is a licence PDU.
LicenceIssue ==
  /\ Reading /\ peer /\ ~licensed
  /\ licensed' = TRUE
  /\ g_licence_issued' \in {g_licence_issued, g_licence_issued \/ SeesLicence}
  /\ UNCHANGED <<pc, netVars, g_negotiate, g_encryption, g_rdp_version, g_licence_error_result,
                 uiVars, left, peer, ghostVars>>

\* licence_process: LICENCE_TAG_RESULT is taken for the end of licensing
\* whatever it says; for the server it may be that or a mere alert.
LicenceResult ==
  /\ Reading /\ peer /\ ~licensed
  /\ licensed' \in BOOLEAN
  /\ g_licence_error_result' = (g_licence_error_result \/ SeesLicence)
  /\ UNCHANGED <<pc, netVars, g_negotiate, g_encryption, g_rdp_version, g_licence_issued,
                 uiVars, left, peer, ghostVars>>

\* process_demand_active up to its first read.  The general capability set
\* may announce a version 4 server.
DemandActive ==
  /\ Reading /\ peer /\ licensed /\ ~g_redirect
  /\ pc' = (IF pc = "loop" THEN "active" ELSE "reactive") /\ left' = 4
  /\ g_rdp_shareid' = TRUE
  /\ g_rdp_version' \in {4, g_rdp_version}
  /\ misframed' = misframed \cup Misframed("data", DataFlags)
  /\ UNCHANGED <<netVars, g_negotiate, g_encryption, g_licence_issued, g_licence_error_result,
                 g_redirect, g_Wnd, srvVars, attempts, target, staleResult>>

\* Its four reads take whatever comes, the end of the stream included, and
\* input and font PDUs go out between them.
ActiveRead ==
  /\ pc \in Activating
  /\ left' = left - 1
  /\ pc' = IF left > 1 THEN pc ELSE IF pc = "active" THEN "window" ELSE "main"
  /\ misframed' = misframed \cup Misframed("data", DataFlags)
  /\ UNCHANGED <<netVars, g_negotiate, secVars, uiVars, srvVars, attempts, target, staleResult>>

\* process_redirect_pdu; rdp_loop returns True.
RedirectPdu ==
  /\ Reading /\ peer /\ licensed /\ ~g_redirect /\ target < MaxRedirects
  /\ g_redirect' = TRUE
  /\ UNCHANGED <<pc, netVars, g_negotiate, secVars, g_rdp_shareid, g_Wnd, left, srvVars, ghostVars>>

\* The server closes its side, or the network breaks.
ServerCloses ==
  /\ peer /\ pc \notin Stops
  /\ peer' = FALSE
  /\ UNCHANGED <<pc, netVars, g_negotiate, secVars, uiVars, left, licensed, ghostVars>>

\* rdp_loop returns False: rdp_connect fails, or check_sck posts WM_QUIT and
\* ui_main follows a pending redirect or returns.
EndOfStream ==
  /\ Reading /\ ~peer
  /\ pc' = IF pc = "loop" THEN "exit0" ELSE IF g_redirect THEN "reset" ELSE "exit1"
  /\ UNCHANGED <<netVars, g_negotiate, secVars, uiVars, left, srvVars, ghostVars>>

-----------------------------------------------------------------------------
(* The window.                                                             *)

\* mi_create_window makes the first window and refuses a second one; it may
\* also fail, or find another instance running.
CreateWindow ==
  /\ pc = "window" /\ ~g_redirect
  /\ \/ ~g_Wnd /\ g_Wnd' = TRUE /\ pc' = "main"
     \/ pc' = "exit0" /\ UNCHANGED g_Wnd
  /\ UNCHANGED <<netVars, g_negotiate, secVars, g_rdp_shareid, g_redirect, left, srvVars, ghostVars>>

\* WM_DESTROY: PostQuitMessage, and the message loop returns to ui_main.
UserCloses ==
  /\ pc = "main" /\ g_Wnd
  /\ pc' = IF g_redirect THEN "reset" ELSE "exit1"
  /\ UNCHANGED <<netVars, g_negotiate, secVars, uiVars, left, srvVars, ghostVars>>

\* The process is over.
Stopped == pc \in Stops /\ UNCHANGED vars

Connect ==
  \/ UiMainTop \/ TcpConnectFails \/ TcpConnect
  \/ ConfirmFails \/ ConfirmPlain \/ ConfirmTls \/ Retry
  \/ JoinFails \/ ConnectResponse \/ AttachConfirm \/ JoinConfirm
  \/ LicenceIssue \/ LicenceResult \/ DemandActive \/ ActiveRead \/ EndOfStream \/ CreateWindow

Next ==
  \/ Connect
  \/ LicenceRequest \/ RedirectPdu \/ ServerCloses \/ UserCloses
  \/ Stopped

Spec == Init /\ [][Next]_vars

\* A server that has redirected the client, or cannot get it licensed, hangs up.
ServerHangsUp == (g_redirect \/ (~licensed /\ ~SeesLicence)) /\ ServerCloses

\* The client never waits but in a read.  The reads have no timeout, so the
\* progress of a connect rests on the server: it answers what it was asked,
\* gets on with licensing and activation, and hangs up when it is done.
FairSpec == Spec /\ WF_vars(Connect \/ ServerHangsUp)

-----------------------------------------------------------------------------
(* Properties.                                                             *)

\* Every variable has its type.
TypeOK ==
  /\ pc \in Phases
  /\ g_sock \in Handles \cup {None} /\ g_ssl \in Handles \cup {None}
  /\ open \subseteq Handles /\ g_tcp_sck \in Handles \cup {None}
  /\ g_negotiate \in BOOLEAN /\ g_encryption \in BOOLEAN /\ g_rdp_version \in {4, 5}
  /\ g_licence_issued \in BOOLEAN /\ g_licence_error_result \in BOOLEAN
  /\ g_rdp_shareid \in BOOLEAN /\ g_redirect \in BOOLEAN /\ g_Wnd \in BOOLEAN
  /\ left \in 0 .. (4 + NumChannels) /\ peer \in BOOLEAN /\ licensed \in BOOLEAN
  /\ attempts \in 0 .. 3 /\ target \in 0 .. MaxRedirects
  /\ staleResult \in BOOLEAN /\ misframed \subseteq Kinds

\* The retries of iso_connect leave neither a socket nor a TLS session behind:
\* a target adds at most one open handle, and until a redirect the only open
\* socket is g_sock and the only TLS session is that socket's.
NothingLeftBehind ==
  /\ Cardinality(open) <= target + 1
  /\ target = 0 => open \subseteq {g_sock} /\ g_ssl \in {None} \cup open

\* Past the negotiation, of whatever target, exactly one of TLS and RDP's own
\* encryption is in use, and TLS runs on the current socket: g_encryption is
\* never restored and g_ssl survives rdp_reset_state, yet no connection that
\* gets this far sees either left over from another one.
OneCipher ==
  pc \in Joining \cup Connected =>
    /\ g_encryption <=> g_ssl = None
    /\ Reaches

\* sec_init puts the 4-byte security header where the server expects it,
\* except: in the logon of a target reached with another one's licence error
\* result, always; in licence PDUs under RDP's encryption once a result has
\* come that did not end licensing; and, under TLS only, in everything after a
\* licence that the server issued and the client did not take.
FramingAgrees ==
  /\ "logon" \in misframed => staleResult
  /\ pc \in Connected /\ staleResult => "logon" \in misframed
  /\ "licence" \in misframed => g_encryption /\ g_licence_error_result
  /\ "data" \in misframed =>
       ~g_encryption /\ licensed /\ ~g_licence_issued /\ ~g_licence_error_result

\* A connect tries a target at most twice, whatever fails in between.
TwoAttempts == attempts <= 2

\* ui_main does not hang between its start (or a redirect) and the message
\* loop: it gets there or returns.
ConnectDecides == pc = "reset" ~> pc \in Stops \cup {"main"}

\* "Called during redirection to reset the state to support redirection"
\* (rdp.c:1723): a target reached by a redirect that has activated the
\* session is given the message loop, not an error return of ui_main.
RedirectedSessionRuns == ~(pc = "exit0" /\ target > 0 /\ g_rdp_shareid)

\* check_sck's "see if there really is data" (win32.c:356): the socket the
\* window polls is the one the session reads.
PollsItsSocket == pc = "main" => g_tcp_sck = g_sock

=============================================================================
