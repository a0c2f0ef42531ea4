--------------------------- MODULE Session_proofs ----------------------------
(***************************************************************************)
(* For any number of handles, redirects and virtual channels: the client   *)
(* tries a target at most twice, leaves nothing behind when it retries,    *)
(* runs on exactly one cipher, and puts the security header where the      *)
(* server of a target expects it, but for the three cases FramingAgrees    *)
(* names.  The argument: a redirect leaves the TLS session of a socket     *)
(* that stays open, so that the next socket is never that one and its      *)
(* connection request goes nowhere; a retry happens on a socket without    *)
(* TLS only, with the negotiation then off; and no licence message comes   *)
(* between the connect and the logon.                                      *)
(***************************************************************************)
EXTENDS Session, FiniteSetTheorems, TLAPS

\* The answers still awaited.
Awaited ==
  /\ pc = "join" => left \in 1 .. 2 + NumChannels
  /\ pc \in Activating => left \in 1 .. 4

\* The redirects followed and the one to follow.
Followed == target + (IF g_redirect THEN 1 ELSE 0) <= MaxRedirects

\* Each retry has switched the negotiation off.
Retried ==
  /\ attempts <= 2
  /\ pc = "connect" => attempts <= 1 /\ (g_negotiate => attempts = 0)
  /\ pc = "confirm" /\ g_negotiate => attempts <= 1

\* TLS and RDP's encryption exclude each other, from one target to the next.
Ciphers ==
  /\ pc \notin Stops => (g_encryption <=> g_ssl = None) /\ g_ssl \in {None} \cup open
  /\ pc = "confirm" => g_ssl # g_sock
  /\ pc \in Joining \cup Connected => Reaches

\* One open handle for each target but the one being connected to.
Opened ==
  /\ Cardinality(open) <= target + 1
  /\ pc = "reset" /\ ~g_redirect => open = {}
  /\ pc = "connect" => Cardinality(open) <= target
  /\ pc = "confirm" => g_sock \in open
  /\ target = 0 => open \subseteq {g_sock} /\ g_ssl \in {None} \cup open

\* What either end knows of licensing: nothing until the logon, but for a
\* licence error result left over; and the client never more than the server.
Licences ==
  /\ pc \in {"connect", "confirm"} \cup Joining =>
       /\ ~licensed /\ ~g_licence_issued /\ misframed = {}
       /\ g_licence_error_result <=> staleResult
  /\ pc \in Activating => licensed
  /\ g_licence_issued => licensed
  /\ FramingAgrees

IInv == TypeOK /\ Awaited /\ Followed /\ Retried /\ Ciphers /\ Opened /\ Licences

USE DEF Stops, Joining, Activating, Connected, Phases
USE DEF netVars, secVars, uiVars, srvVars, ghostVars

-----------------------------------------------------------------------------
\* The initial state satisfies the invariant.
LEMMA InitInv == Init => IInv
<1> SUFFICES ASSUME Init PROVE IInv
  OBVIOUS
<1>1. Cardinality({}) = 0
  BY FS_EmptySet
<1>2. MaxRedirects \in Nat /\ NumChannels \in Nat
  BY SessionAssumption DEF SessionAssumption
<1>3. TypeOK
  <2>1. left \in 0 .. 4 + NumChannels /\ target \in 0 .. MaxRedirects /\ attempts \in 0 .. 3
    BY <1>2 DEF Init
  <2>2. g_rdp_version \in {4, 5}
    BY DEF Init
  <2> QED
    BY <2>1, <2>2, Zenon DEF Init, TypeOK
<1>4. Opened
  BY <1>1 DEF Init, Opened
<1> QED
  BY <1>2, <1>3, <1>4
     DEF Init, IInv, Awaited, Followed, Retried, Ciphers, Licences, FramingAgrees

\* Nothing moves unless the process does.
LEMMA StillStep == IInv /\ UNCHANGED vars => IInv'
  BY DEF IInv, vars, TypeOK, Awaited, Followed, Retried, Ciphers, Opened, Licences,
     FramingAgrees, Reaches

\* Only finitely many handles are open.
LEMMA OpenFinite ==
  ASSUME TypeOK
  PROVE  IsFiniteSet(open) /\ Cardinality(open) \in Nat
<1>1. IsFiniteSet(Handles) /\ open \subseteq Handles
  BY SessionAssumption DEF TypeOK, SessionAssumption
<1>2. IsFiniteSet(open)
  BY <1>1, FS_Subset
<1> QED
  BY <1>2, FS_CardinalityType

\* tcp_disconnect leaves fewer handles open, or as many.
LEMMA Disconnected ==
  ASSUME TypeOK, TcpDisconnect
  PROVE  /\ open' = open \ {g_sock} /\ g_ssl' = None /\ UNCHANGED g_sock
         /\ Cardinality(open') = IF g_sock \in open THEN Cardinality(open) - 1
                                 ELSE Cardinality(open)
  BY OpenFinite, FS_RemoveElement DEF TcpDisconnect

\* The logon of a target that inherited no licence error result, a licence
\* answer before any such result, and data the client took the licence for
\* or encrypts have their headers where the server expects them.
LEMMA Framed ==
  ASSUME IInv
  PROVE  /\ pc = "join" /\ ~staleResult => \A flags : ~Misframes(flags)
         /\ pc = "join" /\ staleResult /\ ~g_encryption => Misframes(DataFlags)
         /\ pc = "join" /\ staleResult => Misframes("random")
         /\ ~licensed /\ SeesLicence /\ Misframes("licence") =>
              g_encryption /\ g_licence_error_result
         /\ licensed /\ Misframes(DataFlags) =>
              ~g_encryption /\ ~g_licence_issued /\ ~g_licence_error_result
<1>1. pc = "join" /\ ~staleResult => \A flags : ~Misframes(flags)
  BY DEF IInv, TypeOK, Licences, Misframes, SecHeader
<1>2. pc = "join" /\ staleResult =>
        Misframes("random") /\ (~g_encryption => Misframes(DataFlags))
  BY DEF IInv, TypeOK, Licences, Misframes, SecHeader, DataFlags
<1>3. ~licensed /\ SeesLicence /\ Misframes("licence") =>
        g_encryption /\ g_licence_error_result
  BY DEF IInv, TypeOK, Licences, Misframes, SecHeader, SeesLicence
<1>4. licensed /\ Misframes(DataFlags) =>
        ~g_encryption /\ ~g_licence_issued /\ ~g_licence_error_result
  BY DEF IInv, TypeOK, Misframes, SecHeader, DataFlags
<1> QED
  BY <1>1, <1>2, <1>3, <1>4

\* The counts keep within their bounds.
LEMMA CountsStep == IInv /\ Next => Awaited' /\ Followed' /\ Retried'
<1> SUFFICES ASSUME IInv, Next PROVE Awaited' /\ Followed' /\ Retried'
  OBVIOUS
<1>1. MaxRedirects \in Nat /\ NumChannels \in Nat /\ None \notin Handles
  BY SessionAssumption DEF SessionAssumption
<1>2. CASE UiMainTop
  BY <1>2, <1>1 DEF IInv, TypeOK, Awaited, Followed, Retried, UiMainTop, SecResetState
<1>3. CASE TcpConnect
  BY <1>3, <1>1 DEF IInv, TypeOK, Awaited, Followed, Retried, TcpConnect
<1>4. CASE Retry
  BY <1>4, <1>1 DEF IInv, TypeOK, Awaited, Followed, Retried, Retry, TcpDisconnect, Asked
<1>5. CASE JoinConfirm
  <2>1. CASE LastJoin
    BY <2>1, <1>1, <1>5 DEF IInv, TypeOK, Awaited, Followed, Retried, JoinConfirm
  <2>2. CASE ~LastJoin
    <3>1. left \in 1 .. 2 + NumChannels /\ left # 1
      BY <2>2, <1>5 DEF IInv, Awaited, JoinConfirm, LastJoin
    <3>2. pc' = "join" /\ left' = left - 1
      BY <2>2, <1>5 DEF JoinConfirm
    <3>3. left' \in 1 .. 2 + NumChannels
      BY <1>1, <3>1, <3>2
    <3> QED
      BY <3>2, <3>3, <1>5 DEF IInv, Followed, Retried, Awaited, JoinConfirm
  <2> QED
    BY <2>1, <2>2
<1>6. CASE DemandActive
  BY <1>6, <1>1 DEF IInv, TypeOK, Awaited, Followed, Retried, DemandActive, Reading
<1>7. CASE ActiveRead
  BY <1>7, <1>1 DEF IInv, TypeOK, Awaited, Followed, Retried, ActiveRead
<1>8. CASE TcpConnectFails \/ ConfirmFails \/ ConfirmPlain \/ ConfirmTls \/ JoinFails
  BY <1>8, <1>1
     DEF IInv, TypeOK, Awaited, Followed, Retried, TcpConnectFails, ConfirmFails,
         TcpDisconnect, ConfirmPlain, ConfirmTls, Asked, JoinFails
<1>9. CASE ConnectResponse \/ AttachConfirm \/ LicenceRequest \/ LicenceIssue \/ LicenceResult \/ RedirectPdu
  BY <1>9, <1>1
     DEF IInv, TypeOK, Awaited, Followed, Retried, ConnectResponse, AttachConfirm,
         LicenceRequest, Reading, LicenceIssue, LicenceResult, RedirectPdu
<1>10. CASE EndOfStream \/ CreateWindow \/ ServerCloses \/ UserCloses \/ Stopped
  BY <1>10, <1>1
     DEF IInv, TypeOK, Awaited, Followed, Retried, EndOfStream, Reading, CreateWindow,
         ServerCloses, UserCloses, Stopped, vars
<1> QED
  BY <1>2, <1>3, <1>4, <1>5, <1>6, <1>7, <1>8, <1>9, <1>10 DEF Next, Connect

\* Neither a retry nor a redirect brings two ciphers together, or none.
LEMMA CiphersStep == IInv /\ Next => Ciphers'
<1> SUFFICES ASSUME IInv, Next PROVE Ciphers'
  OBVIOUS
<1>1. MaxRedirects \in Nat /\ NumChannels \in Nat /\ None \notin Handles
  BY SessionAssumption DEF SessionAssumption
<1>2. CASE UiMainTop
  BY <1>2, <1>1 DEF IInv, TypeOK, Ciphers, Opened, Reaches, UiMainTop, SecResetState
<1>3. CASE TcpConnect
  BY <1>3, <1>1 DEF IInv, TypeOK, Ciphers, Opened, Reaches, TcpConnect
<1>4. CASE ConfirmFails
  BY <1>4, <1>1 DEF IInv, TypeOK, Ciphers, Opened, Reaches, ConfirmFails, TcpDisconnect
<1>5. CASE ConfirmPlain
  BY <1>5, <1>1 DEF IInv, TypeOK, Ciphers, Opened, Reaches, ConfirmPlain
<1>6. CASE ConfirmTls
  BY <1>6, <1>1 DEF IInv, TypeOK, Ciphers, Opened, Reaches, ConfirmTls, Asked
<1>7. CASE Retry
  BY <1>7, <1>1 DEF IInv, TypeOK, Ciphers, Opened, Reaches, Retry, TcpDisconnect, Asked
<1>8. CASE JoinFails
  BY <1>8, <1>1 DEF IInv, TypeOK, Ciphers, Opened, Reaches, JoinFails, TcpDisconnect
<1>9. CASE JoinConfirm
  BY <1>9, <1>1 DEF IInv, TypeOK, Ciphers, Opened, Reaches, JoinConfirm, LastJoin
<1>10. CASE \/ TcpConnectFails \/ ConnectResponse \/ AttachConfirm
             \/ LicenceRequest \/ LicenceIssue \/ LicenceResult
  BY <1>10, <1>1
     DEF IInv, TypeOK, Ciphers, Opened, Reaches, TcpConnectFails, ConnectResponse,
         AttachConfirm, LicenceRequest, Reading, LicenceIssue, LicenceResult
<1>11. CASE DemandActive \/ ActiveRead \/ RedirectPdu \/ EndOfStream \/ CreateWindow
  BY <1>11, <1>1
     DEF IInv, TypeOK, Ciphers, Opened, Reaches, DemandActive, Reading, ActiveRead,
         RedirectPdu, EndOfStream, CreateWindow
<1>12. CASE ServerCloses \/ UserCloses \/ Stopped
  BY <1>12, <1>1
     DEF IInv, TypeOK, Ciphers, Opened, Reaches, ServerCloses, UserCloses, Stopped, vars
<1> QED
  BY <1>2, <1>3, <1>4, <1>5, <1>6, <1>7, <1>8, <1>9, <1>10, <1>11, <1>12 DEF Next, Connect

\* Every target adds one open handle at most.
LEMMA OpenedStep == IInv /\ Next => Opened'
<1> SUFFICES ASSUME IInv, Next PROVE Opened'
  OBVIOUS
<1>1. MaxRedirects \in Nat /\ NumChannels \in Nat /\ None \notin Handles
  BY SessionAssumption DEF SessionAssumption
<1>2. Cardinality(open) \in Nat /\ target \in Nat
  BY OpenFinite, <1>1 DEF IInv, TypeOK
<1>3. TypeOK
  BY DEF IInv
<1>4. CASE UiMainTop
  <2>1. Cardinality({}) = 0
    BY FS_EmptySet
  <2> QED
    BY <1>1, <1>2, <2>1, <1>4 DEF IInv, TypeOK, Ciphers, Opened, UiMainTop, SecResetState
<1>5. CASE TcpConnectFails
  <2>1. target = 0 => open = {}
    BY <1>2, OpenFinite, <1>3, <1>5, FS_EmptySet DEF IInv, Opened, TcpConnectFails
  <2> QED
    BY <1>2, <2>1, <1>5 DEF IInv, Opened, TcpConnectFails
<1>6. CASE TcpConnect
  <2>1. PICK h \in Handles \ open : g_sock' = h /\ open' = open \cup {h}
    BY <1>6 DEF TcpConnect
  <2>2. Cardinality(open') = Cardinality(open) + 1
    BY <1>3, <2>1, OpenFinite, FS_AddElement
  <2>3. target = 0 => open = {}
    BY <1>2, OpenFinite, <1>3, <1>6, FS_EmptySet DEF IInv, Opened, TcpConnect
  <2> QED
    BY <1>1, <1>2, <2>1, <2>2, <2>3, <1>6 DEF IInv, TypeOK, Ciphers, Opened, TcpConnect
<1>7. CASE ConfirmFails
  BY <1>2, <1>3, Disconnected, <1>7 DEF IInv, Ciphers, Opened, ConfirmFails
<1>8. CASE Retry
  BY <1>2, <1>3, Disconnected, <1>8 DEF IInv, Ciphers, Opened, Retry
<1>9. CASE JoinFails
  BY <1>2, <1>3, Disconnected, <1>9 DEF IInv, Ciphers, Opened, JoinFails
<1>10. CASE ConfirmPlain \/ ConfirmTls \/ ConnectResponse \/ AttachConfirm \/ JoinConfirm
  BY <1>10, <1>1, <1>2
     DEF IInv, TypeOK, Ciphers, Opened, ConfirmPlain, ConfirmTls, Asked, ConnectResponse,
         AttachConfirm, JoinConfirm, LastJoin
<1>11. CASE \/ LicenceRequest \/ LicenceIssue \/ LicenceResult
             \/ DemandActive \/ ActiveRead \/ RedirectPdu
  BY <1>11, <1>1, <1>2
     DEF IInv, TypeOK, Ciphers, Opened, LicenceRequest, Reading, LicenceIssue, LicenceResult,
         DemandActive, ActiveRead, RedirectPdu
<1>12. CASE EndOfStream \/ CreateWindow \/ ServerCloses \/ UserCloses \/ Stopped
  BY <1>12, <1>1, <1>2
     DEF IInv, TypeOK, Ciphers, Opened, EndOfStream, Reading, CreateWindow, ServerCloses,
         UserCloses, Stopped, vars
<1> QED
  BY <1>4, <1>5, <1>6, <1>7, <1>8, <1>9, <1>10, <1>11, <1>12 DEF Next, Connect

\* What either end makes of licensing, and the headers that puts wrong.
LEMMA LicencesStep == IInv /\ Next => Licences'
<1> SUFFICES ASSUME IInv, Next PROVE Licences'
  OBVIOUS
<1>1. CASE UiMainTop
  BY <1>1 DEF IInv, TypeOK, Licences, FramingAgrees, UiMainTop, SecResetState
<1>2. CASE TcpConnect
  BY <1>2 DEF IInv, TypeOK, Licences, FramingAgrees, TcpConnect
<1>3. CASE Retry
  BY <1>3 DEF IInv, TypeOK, Licences, FramingAgrees, Retry, TcpDisconnect, Asked
<1>4. CASE JoinConfirm
  <2>1. /\ ~staleResult => misframed' = misframed
        /\ misframed' \subseteq misframed \cup {"logon"}
    BY <1>4, Framed DEF JoinConfirm, Misframed
  <2>2. CASE LastJoin
    <3>1. staleResult => "logon" \in misframed'
      BY <1>4, <2>2, Framed DEF JoinConfirm, Misframed
    <3> QED
      BY <1>4, <2>1, <2>2, <3>1 DEF IInv, Licences, FramingAgrees, JoinConfirm
  <2>3. CASE ~LastJoin
    BY <1>4, <2>3 DEF IInv, Licences, FramingAgrees, JoinConfirm
  <2> QED
    BY <2>2, <2>3
<1>5. CASE LicenceRequest
  <2>1. /\ misframed' \subseteq misframed \cup {"licence"}
        /\ "licence" \in misframed' =>
             "licence" \in misframed \/ (g_encryption /\ g_licence_error_result)
    BY <1>5, Framed DEF LicenceRequest, Misframed
  <2> QED
    BY <1>5, <2>1 DEF IInv, Licences, FramingAgrees, LicenceRequest, Reading
<1>6. CASE LicenceIssue
  BY <1>6 DEF IInv, TypeOK, Licences, FramingAgrees, LicenceIssue, Reading
<1>7. CASE LicenceResult
  BY <1>7 DEF IInv, TypeOK, Licences, FramingAgrees, LicenceResult, Reading
<1>8. CASE DemandActive \/ ActiveRead
  <2>1. licensed /\ pc \in {"loop", "main"} \cup Activating
    BY <1>8 DEF IInv, Licences, DemandActive, Reading, ActiveRead
  <2>2. misframed' = misframed \cup Misframed("data", DataFlags)
    BY <1>8 DEF DemandActive, ActiveRead
  <2>3. /\ misframed' \subseteq misframed \cup {"data"} /\ misframed \subseteq misframed'
        /\ "data" \in misframed' =>
             "data" \in misframed \/ (~g_encryption /\ ~g_licence_issued /\ ~g_licence_error_result)
    BY <2>1, <2>2, Framed DEF Misframed
  <2>4. /\ UNCHANGED <<g_encryption, g_licence_issued, g_licence_error_result, licensed, staleResult>>
        /\ pc' \in {"window", "main"} \cup Activating
    BY <1>8, <2>1 DEF DemandActive, ActiveRead
  <2> QED
    BY <2>1, <2>3, <2>4 DEF IInv, Licences, FramingAgrees
<1>9. CASE TcpConnectFails \/ ConfirmFails \/ ConfirmPlain \/ ConfirmTls \/ JoinFails
  BY <1>9
     DEF IInv, TypeOK, Licences, FramingAgrees, TcpConnectFails, ConfirmFails, TcpDisconnect,
         ConfirmPlain, ConfirmTls, Asked, JoinFails
<1>10. CASE ConnectResponse \/ AttachConfirm \/ RedirectPdu \/ EndOfStream \/ CreateWindow
  BY <1>10
     DEF IInv, TypeOK, Licences, FramingAgrees, ConnectResponse, AttachConfirm, RedirectPdu,
         Reading, EndOfStream, CreateWindow
<1>11. CASE ServerCloses \/ UserCloses \/ Stopped
  BY <1>11 DEF IInv, TypeOK, Licences, FramingAgrees, ServerCloses, UserCloses, Stopped, vars
<1> QED
  BY <1>1, <1>2, <1>3, <1>4, <1>5, <1>6, <1>7, <1>8, <1>9, <1>10, <1>11 DEF Next, Connect

\* Every variable keeps its type.
LEMMA TypeStep == IInv /\ Next => TypeOK'
<1> SUFFICES ASSUME IInv, Next PROVE TypeOK'
  OBVIOUS
<1>1. MaxRedirects \in Nat /\ NumChannels \in Nat /\ None \notin Handles
  BY SessionAssumption DEF SessionAssumption
<1>2. CASE UiMainTop
  <2>1. target' \in 0 .. MaxRedirects /\ attempts' \in 0 .. 3
    BY <1>1, <1>2 DEF IInv, TypeOK, Awaited, Followed, UiMainTop
  <2> QED
    BY <2>1, <1>2, Zenon DEF IInv, TypeOK, UiMainTop, SecResetState
<1>3. CASE TcpConnectFails
  BY <1>3, <1>1 DEF IInv, TypeOK, Awaited, Followed, TcpConnectFails
<1>4. CASE TcpConnect
  <2>1. attempts' \in 0 .. 3
    BY <1>1, <1>4 DEF IInv, TypeOK, Awaited, Followed, TcpConnect
  <2> QED
    <3>1. /\ pc' = "confirm" /\ g_sock' \in Handles /\ open' \subseteq open \cup {g_sock'}
          /\ g_tcp_sck' \in {g_tcp_sck, g_sock'} /\ {peer', licensed'} \subseteq BOOLEAN
          /\ UNCHANGED <<g_ssl, g_negotiate, secVars, uiVars, left, target, staleResult, misframed>>
      BY <1>4 DEF TcpConnect
    <3> QED
      BY <2>1, <3>1 DEF IInv, TypeOK
<1>5. CASE ConfirmFails
  BY <1>5, <1>1 DEF IInv, TypeOK, Awaited, Followed, ConfirmFails, TcpDisconnect
<1>6. CASE ConfirmPlain
  BY <1>6, <1>1 DEF IInv, TypeOK, Awaited, Followed, ConfirmPlain
<1>7. CASE ConfirmTls
  <2>1. /\ pc' = "response" /\ g_ssl' = g_sock /\ g_encryption' \in BOOLEAN
        /\ UNCHANGED <<g_sock, open, g_tcp_sck, g_negotiate, g_rdp_version, g_licence_issued,
                       g_licence_error_result, uiVars, left, srvVars, ghostVars>>
    BY <1>7, Zenon DEF ConfirmTls
  <2> QED
    BY <2>1 DEF IInv, TypeOK
<1>8. CASE Retry
  <2>1. /\ pc' = "connect" /\ g_ssl' = None /\ open' \subseteq open /\ g_negotiate' \in BOOLEAN
        /\ UNCHANGED <<g_sock, g_tcp_sck, secVars, uiVars, left, srvVars, ghostVars>>
    BY <1>8, Zenon DEF Retry, TcpDisconnect
  <2> QED
    BY <2>1 DEF IInv, TypeOK
<1>9. CASE JoinFails
  BY <1>9, <1>1 DEF IInv, TypeOK, Awaited, Followed, JoinFails, TcpDisconnect
<1>10. CASE ConnectResponse
  BY <1>10, <1>1 DEF IInv, TypeOK, Awaited, Followed, ConnectResponse
<1>11. CASE AttachConfirm
  BY <1>11, <1>1 DEF IInv, TypeOK, Awaited, Followed, AttachConfirm
<1>12. CASE JoinConfirm
  <2>1. left' \in 0 .. 4 + NumChannels
    BY <1>1, <1>12 DEF IInv, Awaited, JoinConfirm
  <2>2. pc' \in {pc, "loop"} /\ misframed' \subseteq Kinds
    BY <1>12 DEF IInv, TypeOK, JoinConfirm, Kinds, Misframed
  <2> QED
    BY <2>1, <2>2, <1>12 DEF IInv, TypeOK, JoinConfirm
<1>13. CASE LicenceRequest
  BY <1>13, <1>1
     DEF IInv, TypeOK, Awaited, Followed, LicenceRequest, Reading, Kinds, Misframed
<1>14. CASE LicenceIssue \/ LicenceResult
  <2>1. /\ {g_licence_issued', g_licence_error_result', licensed'} \subseteq BOOLEAN
        /\ UNCHANGED <<pc, netVars, g_negotiate, g_encryption, g_rdp_version, uiVars, left,
                       peer, ghostVars>>
    BY <1>14, Zenon DEF IInv, TypeOK, LicenceIssue, LicenceResult
  <2> QED
    BY <2>1 DEF IInv, TypeOK
<1>15. CASE DemandActive
  BY <1>15, <1>1
     DEF IInv, TypeOK, Awaited, Followed, DemandActive, Reading, Kinds, Misframed
<1>16. CASE ActiveRead
  BY <1>16, <1>1 DEF IInv, TypeOK, Awaited, Followed, ActiveRead, Kinds, Misframed
<1>17. CASE RedirectPdu
  BY <1>17, <1>1 DEF IInv, TypeOK, Awaited, Followed, RedirectPdu, Reading
<1>18. CASE EndOfStream
  BY <1>18, <1>1 DEF IInv, TypeOK, Awaited, Followed, EndOfStream, Reading
<1>19. CASE CreateWindow
  <2>1. /\ g_Wnd' \in BOOLEAN /\ pc' \in {"main", "exit0"}
        /\ UNCHANGED <<netVars, g_negotiate, secVars, g_rdp_shareid, g_redirect, left,
                       srvVars, ghostVars>>
    BY <1>19, Zenon DEF IInv, TypeOK, CreateWindow
  <2> QED
    BY <2>1 DEF IInv, TypeOK
<1>20. CASE ServerCloses
  <2>1. /\ peer' \in BOOLEAN
        /\ UNCHANGED <<pc, netVars, g_negotiate, secVars, uiVars, left, licensed, ghostVars>>
    BY <1>20, Zenon DEF ServerCloses
  <2> QED
    BY <2>1 DEF IInv, TypeOK
<1>21. CASE UserCloses
  BY <1>21, <1>1 DEF IInv, TypeOK, Awaited, Followed, UserCloses
<1>22. CASE Stopped
  BY <1>22, <1>1 DEF IInv, TypeOK, Awaited, Followed, Stopped, vars
<1> QED
  BY <1>2, <1>3, <1>4, <1>5, <1>6, <1>7, <1>8, <1>9, <1>10, <1>11, <1>12, <1>13, <1>14, <1>15,
     <1>16, <1>17, <1>18, <1>19, <1>20, <1>21, <1>22
     DEF Next, Connect

\* Every step keeps the invariant.
LEMMA NextInv == IInv /\ [Next]_vars => IInv'
<1>1. IInv /\ Next => IInv'
  BY TypeStep, CountsStep, CiphersStep, OpenedStep, LicencesStep DEF IInv
<1> QED
  BY <1>1, StillStep

-----------------------------------------------------------------------------
\* The invariant holds throughout.
THEOREM Inductive == Spec => []IInv
  BY InitInv, NextInv, PTL DEF Spec

\* Every variable keeps its type; the answers awaited never run below zero
\* (mcs_connect_finalize, process_demand_active).
THEOREM TypeCorrect == Spec => []TypeOK
<1>1. IInv => TypeOK
  BY DEF IInv
<1> QED
  BY <1>1, Inductive, PTL

\* iso_connect's retries end: a target is tried twice at most, whatever
\* fails in between.
THEOREM TriesTwice == Spec => []TwoAttempts
<1>1. IInv => TwoAttempts
  BY DEF IInv, Retried, TwoAttempts
<1> QED
  BY <1>1, Inductive, PTL

\* The retries leave neither a socket nor a TLS session behind
\* (tcp_disconnect, tcp_reset_state).
THEOREM LeavesNothing == Spec => []NothingLeftBehind
<1>1. IInv => NothingLeftBehind
  BY DEF IInv, Opened, NothingLeftBehind
<1> QED
  BY <1>1, Inductive, PTL

\* A connection runs on TLS or on RDP's own encryption, never on both or on
\* neither, although a redirect resets neither g_encryption nor g_ssl.
THEOREM ExactlyOneCipher == Spec => []OneCipher
<1>1. IInv => OneCipher
  BY DEF IInv, Ciphers, OneCipher
<1> QED
  BY <1>1, Inductive, PTL

\* sec_init's header is where the server expects it but in three cases: a
\* licence error result inherited by a redirect (secure.c:925), and then always
\* in the logon; one that did
\* not end licensing (licence.c:337), and a licence that was issued and not
\* taken, under TLS (licence.c:280, 287).
THEOREM HeadersAgree == Spec => []FramingAgrees
<1>1. IInv => FramingAgrees
  BY DEF IInv, Licences
<1> QED
  BY <1>1, Inductive, PTL
==============================================================================
