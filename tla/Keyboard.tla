------------------------------ MODULE Keyboard ------------------------------
(***************************************************************************)
(* The keyboard of the device and the keyboard of the session.  The        *)
(* window procedure (win32.c) turns key messages into scan codes for the   *)
(* server, Caps Lock and the arrival of the focus into SYNCHRONIZE events, *)
(* and a scanned barcode into synthetic keys (SendKeys).  Key-ups are lost *)
(* while another window has the focus, and everything is ignored while the *)
(* server has the session deactivated; the SYNCHRONIZE of WM_SETFOCUS and  *)
(* that of process_demand_active (rdp.c) make up for both.                 *)
(*                                                                         *)
(* External: the user, the keyboard driver and the window manager, which   *)
(* deliver keys and the focus in one order and stamp a message with the    *)
(* lock state of its moment (that is what GetKeyState answers by); and the *)
(* server, which listens from the moment it grants control, to which a     *)
(* SYNCHRONIZE sets the locks and releases every key.  No handler of keys  *)
(* looks at g_deactivated, so a deactivation changes nothing here.         *)
(***************************************************************************)
EXTENDS Integers, Sequences

CONSTANTS
  Shift, Caps,  \* VK_SHIFT and VK_CAPITAL
  Letters,      \* the other keys
  Scans,        \* barcodes, as sequences of [key, shift] (vkTable)
  MaxEvents,    \* BOUND: keys pressed, scans, resizings, and losses of the focus
  MaxScans,     \* BOUND: scans and resizings among them
  MaxDemands    \* BOUND: activations of the session

Keys == Letters \cup {Shift, Caps}

ASSUME KeyboardAssumption ==
  /\ Shift # Caps /\ {Shift, Caps} \cap Letters = {}
  /\ Scans \subseteq Seq([key : Letters, shift : BOOLEAN])
  /\ {MaxEvents, MaxScans, MaxDemands} \subseteq Nat

VARIABLES
  held,      \* the keys that are down on the device
  locked,    \* Caps Lock is on on the device
  focused,   \* the window has the focus
  messages,  \* the key and focus messages that wait for the window
  seen,      \* Caps Lock as of the last message retrieved
  gui,       \* "loop", or "granting" and "fonts": process_demand_active reads
  typing,    \* the key events SendKeys has left, character by character
  scanned,   \* the scan that WM_HAVE_SCAN announces, <<>> for none
  toServer,  \* what is on its way to the server
  toClient,  \* what is on its way to the client
  server,    \* the session's keyboard: the keys that are down, Caps Lock
  listening, \* the server takes input
  events,    \* key presses, scans, resizings and losses of the focus so far
  scans,     \* scans and resizings so far
  demands    \* activations so far

vars == <<held, locked, focused, messages, seen, gui, typing, scanned, toServer,
          toClient, server, listening, events, scans, demands>>
counts == <<events, scans, demands>>
device == <<held, locked, focused, messages>>
session == <<server, listening>>

Typed(keys, lock) == [shift |-> Shift \in keys, caps |-> lock]
Event == events < MaxEvents /\ events' = events + 1 /\ UNCHANGED demands

Init ==
  /\ held = {} /\ locked \in BOOLEAN /\ focused = TRUE /\ messages = <<>> /\ seen = locked
  /\ gui = "loop" /\ typing = <<>> /\ scanned = <<>>
  /\ toServer = <<>> /\ toClient = <<>>
  /\ server = [keys |-> {}, caps |-> FALSE] /\ listening = FALSE
  /\ events = 0 /\ scans = 0 /\ demands = 0

-----------------------------------------------------------------------------
(* The device. *)

\* A key goes down or up; the window hears of it if it has the focus.
Key(k, down) ==
  /\ held' = IF down THEN held \cup {k} ELSE held \ {k}
  /\ locked' = IF k = Caps /\ down /\ k \notin held THEN ~locked ELSE locked
  /\ messages' = IF focused
                 THEN Append(messages, [type |-> "key", key |-> k, down |-> down,
                                        here |-> Typed(held', locked')])
                 ELSE messages
  /\ UNCHANGED focused

\* The user presses a key, or the device repeats it.
Press ==
  /\ Event /\ UNCHANGED scans
  /\ \E k \in Keys : Key(k, TRUE)
  /\ UNCHANGED <<seen, gui, typing, scanned, toServer, toClient, session>>

Release ==
  /\ \E k \in held : Key(k, FALSE)
  /\ UNCHANGED <<seen, gui, typing, scanned, toServer, toClient, session, counts>>

\* Another window, a message box of the client's own among them, takes the focus.
LoseFocus ==
  /\ focused /\ Event /\ UNCHANGED scans
  /\ focused' = FALSE
  /\ UNCHANGED <<held, locked, messages, seen, gui, typing, scanned, toServer,
                 toClient, session>>

GainFocus ==
  /\ ~focused /\ focused' = TRUE
  /\ messages' = Append(messages, [type |-> "focus", here |-> Typed(held, locked)])
  /\ UNCHANGED <<held, locked, seen, gui, typing, scanned, toServer, toClient,
                 session, counts>>

Scan ==
  /\ scanned = <<>>
  /\ Event /\ scans < MaxScans /\ scans' = scans + 1
  /\ scanned' \in Scans
  /\ UNCHANGED <<device, seen, gui, typing, toServer, toClient, session>>

-----------------------------------------------------------------------------
(* The client. *)

Sync(caps) == [type |-> "sync", caps |-> caps]
ScanCode(m) == [type |-> "key", key |-> m.key, down |-> m.down, here |-> m.here]

ReadKeyboardStateAsync == locked   \* mutant: GetAsyncKeyState

\* mi_read_keyboard_state, whose other two locks behave as this one.
ReadKeyboardState == seen

KeyInputGoesOn(m) ==   \* mutant: no return after VK_CAPITAL
  IF m.key = Caps THEN <<Sync(m.here.caps), ScanCode(m)>> ELSE <<ScanCode(m)>>

\* handle_WM_KEYDOWN and handle_WM_KEYUP: Caps Lock is not a key to send.
KeyInput(m) == IF m.key = Caps THEN <<Sync(ReadKeyboardState')>> ELSE <<ScanCode(m)>>

FocusInputIfChanged == IF seen' = seen THEN <<>> ELSE <<Sync(seen')>>  \* mutant

\* WM_SETFOCUS: mi_check_modifier
FocusInput == <<Sync(ReadKeyboardState')>>

\* The message loop, between two PDUs and not inside SendKeys.
InLoop == gui = "loop" /\ typing = <<>>

WndProc ==
  /\ InLoop /\ messages # <<>>
  /\ LET m == Head(messages)
     IN /\ seen' = m.here.caps
        /\ messages' = Tail(messages)
        /\ UNCHANGED <<held, locked, focused>>
        /\ toServer' = toServer \o (IF m.type = "key" THEN KeyInput(m) ELSE FocusInput)
  /\ UNCHANGED <<gui, typing, scanned, toClient, session, counts>>

\* handle_WM_SIZE ends in mi_check_modifier, too.  The message is sent, not
\* posted: it comes ahead of those that wait, under the lock of the last one.
WmSize ==
  /\ InLoop
  /\ Event /\ scans < MaxScans /\ scans' = scans + 1
  /\ toServer' = Append(toServer, Sync(ReadKeyboardState))
  /\ UNCHANGED <<device, seen, gui, typing, scanned, toClient, session>>

\* SendKeys: a key with its shift around it.
KeyEvents(c) ==
  LET KeyEvent(k, down) == [key |-> k, down |-> down]
      Pair == <<KeyEvent(c.key, TRUE), KeyEvent(c.key, FALSE)>>
  IN IF c.shift THEN <<KeyEvent(Shift, TRUE)>> \o Pair \o <<KeyEvent(Shift, FALSE)>> ELSE Pair

\* WM_HAVE_SCAN types the barcode, and each keybd_event is one more event of
\* the device, between which the user's come.
WmHaveScan ==
  /\ InLoop /\ scanned # <<>>
  /\ typing' = [i \in DOMAIN scanned |-> KeyEvents(scanned[i])]
  /\ scanned' = <<>>
  /\ UNCHANGED <<device, seen, gui, toServer, toClient, session, counts>>

KeybdEvent ==
  /\ typing # <<>>
  /\ LET now == Head(typing)
     IN /\ Key(Head(now).key, Head(now).down)
        /\ typing' = IF Len(now) = 1 THEN Tail(typing) ELSE <<Tail(now)>> \o Tail(typing)
  /\ UNCHANGED <<seen, gui, scanned, toServer, toClient, session, counts>>

GrantedInputCleared == <<Sync(FALSE), [type |-> "fonts"]>>   \* mutant: locks not read

\* What process_demand_active sends when it has been granted control.
GrantedInput == <<Sync(ReadKeyboardState), [type |-> "fonts"]>>

\* process_demand_active, called from check_sck: it confirms and asks for
\* control, reads on until that is granted, sends the locks and the font list,
\* and reads the answer to that.
DemandActive ==
  /\ InLoop /\ toClient # <<>> /\ Head(toClient) = "demand"
  /\ gui' = "granting" /\ toClient' = Tail(toClient)
  /\ toServer' = Append(toServer, [type |-> "confirm"])
  /\ UNCHANGED <<device, seen, typing, scanned, session, counts>>

ControlGranted ==
  /\ gui = "granting" /\ toClient # <<>>
  /\ gui' = "fonts" /\ toClient' = Tail(toClient)
  /\ toServer' = toServer \o GrantedInput
  /\ UNCHANGED <<device, seen, typing, scanned, session, counts>>

FontsAnswered ==
  /\ gui = "fonts" /\ toClient # <<>>
  /\ gui' = "loop" /\ toClient' = Tail(toClient)
  /\ UNCHANGED <<device, seen, typing, scanned, toServer, session, counts>>

-----------------------------------------------------------------------------
(* The server. *)

\* A new session, or the last one deactivated, in which only confirmations count.
ServerDemands ==
  /\ demands < MaxDemands /\ demands' = demands + 1 /\ UNCHANGED <<events, scans>>
  /\ toClient = <<>> /\ gui = "loop"
  /\ listening' = FALSE
  /\ toClient' = <<"demand">>
  /\ UNCHANGED <<device, seen, gui, typing, scanned, toServer, server>>

Struck(m) ==
  [server EXCEPT !.keys = IF m.down THEN @ \cup {m.key} ELSE @ \ {m.key}]

ServerTakes ==
  /\ toServer # <<>>
  /\ toServer' = Tail(toServer)
  /\ LET m == Head(toServer)
     IN \/ /\ m.type = "confirm" /\ listening' = TRUE
           /\ toClient' = Append(toClient, "granted") /\ UNCHANGED server
        \/ /\ m.type = "fonts" /\ toClient' = Append(toClient, "fonts")
           /\ UNCHANGED session
        \/ /\ m.type \in {"key", "sync"} /\ UNCHANGED <<toClient, listening>>
           /\ server' = CASE ~listening -> server
                          [] listening /\ m.type = "key" -> Struck(m)
                          [] OTHER -> [keys |-> {}, caps |-> m.caps]
  /\ UNCHANGED <<device, seen, gui, typing, scanned, counts>>

Next ==
  \/ Press \/ Release \/ LoseFocus \/ GainFocus \/ Scan
  \/ WndProc \/ WmSize \/ WmHaveScan \/ KeybdEvent
  \/ DemandActive \/ ControlGranted \/ FontsAnswered
  \/ ServerDemands \/ ServerTakes

Spec == Init /\ [][Next]_vars

-----------------------------------------------------------------------------
(* Properties. *)

\* The state is well formed; in particular the server never sees Caps Lock as a
\* key that is down, which only the SYNCHRONIZE event is to change
\* (win32.c:819).
TypeOK ==
  /\ held \subseteq Keys /\ locked \in BOOLEAN /\ focused \in BOOLEAN /\ seen \in BOOLEAN
  /\ gui \in {"loop", "granting", "fonts"}
  /\ server.keys \subseteq Letters \cup {Shift} /\ server.caps \in BOOLEAN
  /\ listening \in BOOLEAN

\* Everything that was sent has been heard, and the window would hear more.
Settled == /\ focused /\ listening /\ gui = "loop"
           /\ messages = <<>> /\ toServer = <<>> /\ typing = <<>>

\* No key stays down in the session that is up on the device, whatever was
\* released while the focus was elsewhere or the session deactivated
\* (win32.c:1396, rdp.c:1094).
NoStuckKeys == Settled => server.keys \subseteq held

\* The session's Caps Lock is the device's (win32.c:820, win32.c:1396, rdp.c:1094).
LocksAgree == Settled => server.caps = locked

\* A letter is typed in the session under the Caps Lock it was typed under on
\* the device, and never with a shift that was not down there: the state that
\* SYNCHRONIZE sends is the state as of the message being handled, not of the
\* moment it is sent (win32.c:525).  The converse fails: SYNCHRONIZE releases a
\* shift the user holds on to.
TypedAsHere ==
  toServer # <<>> /\ listening =>
    LET m == Head(toServer)
    IN m.type = "key" /\ m.key \in Letters /\ m.down =>
         /\ server.caps = m.here.caps
         /\ Shift \in server.keys => m.here.shift
=============================================================================
