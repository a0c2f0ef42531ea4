# rdesktop CE: a verification development

The program is a port of rdesktop to Windows CE (`src/source`): an RDP client
with a GUI thread, a socket, a 333 ms timer and, optionally, a barcode scanner
thread. It has no test suite; what can go wrong in it is order: what survives a
retry or a redirect, which message is dispatched while another is being
handled, which counter both ends must advance together. That is what the
modules here model. `PROJECT.json` maps every definition to the lines it
stands for.

## Inventory

| component | state | operations | interacts with |
|---|---|---|---|
| `uimain.c` `ui_main` | `g_redirect*`, `g_tcp_sck`, credentials | connect, create the window, run it, follow redirects | everything below, by calls |
| `tcp.c` | `g_sock`, `g_ssl`, `g_in`, four `g_out` | connect, TLS handshake, send, receive, disconnect, reset | Winsock, OpenSSL; `ui_select` |
| `iso.c` | `g_negotiate_rdp_protocol` | X.224 connect with negotiation and retries, packets (TPKT, fast path) | `tcp.c`, switches `g_encryption` |
| `mcs.c` | `g_mcs_userid` | connect response, attach, channel joins, send, receive | `iso.c` |
| `secure.c` | RC4 keys, two use counts, `g_licence_*` seen from `sec_init` | key exchange, encrypt, decrypt, key updates, security header | `mcs.c`, `licence.c` |
| `licence.c` | `g_licence_issued`, `g_licence_error_result` | demand, authentication, result | `secure.c` header choice |
| `rdp.c`, `rdp5.c` | `g_rdp_shareid`, `g_next_packet`, `g_redirect*` | PDU loop, demand active, data PDUs, redirect | `orders.c`, `ui_*` |
| `orders.c` | one delta state per order type, order type, bounds | decode primary and secondary orders | caches, drawing |
| `cache.c`, `pstcache.c`, `mppc.c` | caches, history buffer | put, get, decompress | `orders.c`, `rdp.c` |
| `bitmap.c`, part of `rdp.c` | none between two bitmaps | decompress, flip, paint or cache | `orders.c`, `ui_paint_bitmap` |
| `bsops.c`, `uimain.c` | `g_bs`, clip | the drawing calls | `orders.c`; `win32.c` |
| `win32.c`, the screen | scroll position and ranges, client size, clip | draw, scroll, resize, `WM_PAINT` | GDI, the window manager; `bsops.c` |
| `win32.c`, the pump | `g_Wnd`, `g_block` | window procedure, `check_sck`, message loop | the message queue; `rdp_loop` |
| `win32.c`, the keyboard | none but Windows' | key messages, locks, focus, `SendKeys` | the window manager; `rdp_send_input` |
| `win32.c`, configuration | settings | command line and ini file, once | |
| `barcodereader.h` | `gOneScan`, `ghScannRead` | scanner thread | window messages |

Not part of the running program: virtual channels (none is ever registered),
the clipboard (not compiled in), the persistent bitmap cache (switched off and
stubbed), RDPman (a separate editor of settings), wcecompat and OpenSSL
(vendored).

### What is hard, and what correctness means

* **Connection set-up.** `iso_connect` jumps back to `retry` from three
  failures; `ui_main` runs the whole set-up again for a redirect; several
  globals survive both (`g_ssl`, `g_encryption`, `g_licence_error_result`,
  `g_tcp_sck`, `g_Wnd`). Correct: nothing is left behind, exactly one cipher
  is in use, headers are where the server expects them, the set-up ends.
* **Encryption.** Two counters that nobody synchronises, rolled over every
  4096 PDUs. Correct: client and server are at the same key stream position.
* **The message pump.** Blocking reads in a window procedure; message boxes
  opened from PDU handlers dispatch window messages again; notifications are
  edge triggered, and dropped while `g_block` is set; a reactivation reads on
  from within a handler. Correct: window messages never overwrite the single
  input buffer while it is in use, no call begins to read without data,
  everything that arrived is handled, a closed connection is noticed.
* **The scanner thread.** The one place with real concurrency: a shared buffer
  and two kinds of signal. Correct: no scan overwritten, lost or typed twice.
* **Orders and bitmaps.** Decoding depends on every order before, and within a
  bitmap on every run before; correct: what is drawn is what the server meant.
* **Two copies of the desktop.** Every drawing call changes the backing store
  and the screen, in two pieces of code that clip and scroll on their own, while
  the window is scrolled, resized and uncovered. Correct: the backing store is
  what the server means and the screen shows it, or is about to.
* **Two keyboards.** The session's keys and locks follow the device's over a
  queue and a connection, with key-ups lost to other windows and to a session
  that is deactivated. Correct: nothing is stuck, and letters keep their case.

## The modules

### Session

`pc` is the blocking call the client stands at, from `ui_main`'s loop to its
return; each action runs from one such call to the next, as the single thread
does. Globals keep their names. `open` is the set of handles not closed,
`peer` and `licensed` are the server's side of the connection. The other
variables record history for the properties: the attempts on this target, the
redirects, whether a licence error result was inherited and the kinds of PDU
whose security header was wrong (`misframed`).

| action | code |
|---|---|
| `UiMainTop` | `rdp_reset_state`, `sec_reset_state` down to `tcp_reset_state`; the `g_redirect` block of `ui_main` |
| `TcpConnect`, `TcpConnectFails` | `tcp_connect`, the connection request and `ui_select` |
| `ConfirmFails`, `ConfirmPlain`, `ConfirmTls`, `Retry` | `iso_connect` from the answer on, `tcp_tls_connect` |
| `ConnectResponse`, `AttachConfirm`, `JoinConfirm`, `JoinFails` | `mcs_connect_finalize`, `sec_connect`, `rdp_send_logon_info` |
| `LicenceRequest`, `LicenceIssue`, `LicenceResult` | `licence_process`, and the server's own view of licensing |
| `DemandActive`, `ActiveRead` | `process_demand_active` and its four unexamined reads |
| `RedirectPdu`, `EndOfStream` | `process_redirect_pdu`, `rdp_loop` returning False |
| `CreateWindow`, `UserCloses` | `mi_create_window`, `WM_DESTROY` |

The server conforms: it negotiates only when asked, licenses before it
activates, sends nothing after a redirect. It may refuse or break off anywhere.
The two ends keep licensing apart: a licence the server has issued may be
dropped by the client in silence (too short, or it does not decrypt), or not be
seen for what it is, and a result the client takes for the end of licensing may
be a mere alert to the server. `FramingAgrees` says what comes of that: headers
agree but for three cases, each named with the state that leads to it. One of
them is certain: `sec_reset_state` leaves the error result of the last target
set, so the logon to the next one (under RDP's encryption, the client random
before it) always lacks the header the server expects (secure.c:925).

*Runs.* `Session` (three handles, two redirects): a leak per retry would need a
third handle within one target, and state left over by a redirect shows on the
second target or, having been passed on, on the third.
`NumChannels` is 0, as in this build. `SessionRedirect` and `SessionPoll` each
refute a statement the code's comments make, see Findings.

*Fairness.* One weak fairness, on the client and the server together: something
happens as long as the client has a step, or a server that has redirected the
client or cannot get it licensed has yet to hang up. The code itself has no
timeout on any read, so `ConnectDecides` cannot hold without the server's part;
with it, the property still depends on each retry having switched negotiation
off. It counts a return of `ui_main` as a decision, also where a redirect that
came before the first demand active is not followed.

### SecLayer

Positions in the RC4 key streams of both ends, both directions. A position is
the connection whose randoms made the key, the updates since, and the use
count. `Crypt` is `sec_encrypt`/`sec_decrypt`; `Send` may fail silently, as
`tcp_send` does; `Reset` is a redirect. The server follows the same rule and
starts afresh. `UpdateEvery` is 4096 in the code, 3 in the run, with 7 PDUs per
direction: two updates and one more PDU, on two connections.

*Taken for granted.* After a send that has failed nothing sent on that
connection arrives (`broken`); the caller goes on sending all the same. The key
exchange succeeds: that `sec_process_crypt_info` may return without keys, which
its caller does not notice, is left out. All PDUs are of one kind.

### WirePump

The socket, OpenSSL's buffer, the FD_READ notification, the message queue, and
`frames`, the stack of `rdp_loop` calls: a frame is reading, handling a PDU, in
a message box raised by a handler, or failing. It carries whether `check_sck`
has seen data for the read it is at (`polled`), the `rdp_recv` calls that
`process_demand_active` has left (`reads`), and which packet it works on. A
packet is two fragments (`iso_recv_msg` reads a header, then the rest), the
server writes fragments in records of its choice.

| action | code |
|---|---|
| `ReadMessage`, `TimerMessage` with `CheckSck` | `WM_APP + 1`, `WM_TIMER`, `check_sck` |
| `HeaderRead`, `BodyRead`, `EndOfStream` | `iso_recv_msg` with `tcp_recv`, and what the layers make of the packet: PDUs for `rdp_loop` or for a read of `process_demand_active`, a licence PDU after which `sec_recv` reads on, or a rejection |
| `HandlePdu`, `DemandActive`, `NestedRead`, `Dismiss` | the handlers, the four reads of a reactivation, `error`'s message box |
| `QuitMessage` | `mi_main_loop` |

A read of `process_demand_active`, or one after a licence PDU, is not preceded
by a poll and may wait in the GUI thread: `StartsOnData` speaks of the first
read of the calls that `check_sck` begins, and no property claims more. `garbled` is set once the server
has sent what the layers complain of; `PlainDrains` says nothing after that.

*Bounds.* Five packets let a demand active and its four reads complete. At the
bound the server can only close. Two PDUs in a packet, and records of three
fragments, which end inside the next packet with another to follow. The
violation of `WirePumpTls` needs three packets.

*Fairness.* The GUI thread runs, `SetTimer` messages keep coming, the user
closes message boxes. Of the server one thing is assumed (`Owing`): when the
client waits in a read that no poll has preceded, it sends more, or closes.
Without that a server that falls silent after its demand active stops the GUI
thread for good, as no read has a timeout.
`CHECK_DEADLOCK FALSE`: the loop does return, and a server that is silent
leaves nothing but idle timers.

### Scanner

Both threads step by step, `g_Wnd` and the thread's copy of it, the shared
buffer, the posted messages and the event. The driver keeps up to two scans
while none is asked for (scan ahead is on). Three scans of two barcodes: one
being typed, one in the driver and one to be overwritten or reordered.
Fairness: both threads are scheduled. The system stops when all scans are
done, hence `CHECK_DEADLOCK FALSE`.

### Orders

`client` is `g_order_state` with the bitmap cache, `server` the server's copy,
`wire` the orders in flight; each carries the state the server has after it and
the effect it means, which the client never reads. `PrimaryOrder`,
`SecondaryOrder` and `Reactivated` are one round of `process_orders` and the
end of `process_demand_active`. `Layout` lists, for each of the 14 types, which
field bits are coordinates, and `Size` its flag bytes; both are compared with
the protocol's own numbers, `NumFields`. An order whose type or flags are read
wrongly draws `Garbage`, and so does one after a secondary order whose end was
sought in the wrong place.

`Canvas` is the promise: a queue of effects meant, shown once each and in
order. `DrawsAsMeant` is the refinement, with the effects in flight as the
queue. The server encodes every change in any way the protocol allows
(differences or not, bounds absent, repeated, new or as differences), draws
only from cells it has filled since the last activation, and uses no type the
client does not know. A field value is a small integer, and a bitmap cell is
known by its index alone; brushes, point lists and raster operations are part
of the fields that are drawn with.

*Bounds.* Three orders, two in flight: cache and draw twice, or draw, reset and
draw again. `MCUsed` takes `rect`, `memblt` and `triblt`, one for each number of
flag bytes, with a coordinate in the first byte and, in the last two, the cache
index in the last; the other types differ only in `Layout`. `Modulus` 4 and
`Reach` 1 stand for 65536 and 128, so that a difference wraps. Orders of 12
and 24 bytes give a negative and a positive length.
`CHECK_DEADLOCK FALSE`: the server runs out of orders.

### Display

`bs` is the backing store, `screen` the client area, `invalid` the update
region, `meant` the desktop as the server means it. A drawing action is a whole
call of `uimain.c` between the setting and the resetting of its order's bounds:
the operation on the backing store (`BsRect`, `BsMemblt`, `BsScreenblt`,
`BsLine`, `BsGlyph`, with `Warp` for the clipping) and what it does to the
screen, either GDI (`MiFill`), or a box of the backing store (`UiInvalidate`), or
more update region (`MiScreenCopy`).

| action | code |
|---|---|
| `UiRect`, `UiDestblt`, `UiMemblt`, `UiScreenblt`, `UiLine`, `UiText` | the calls of the same names; `ui_patblt` with a solid brush, `ui_paint_bitmap` |
| `WmHScroll`, `WmVScroll`, `WmSize`, `WmPaint` | the handlers of those messages |
| `Uncovered` | the window manager |

`DrawsAsMeant` compares the pixel loops of `bsops.c` with what the server means:
a copy of all pixels at once, a line of the nearest pixels, a bitmap aligned
with its destination. `ScreenCurrent` compares the screen with the backing store
wherever no repaint is due.

*Taken for granted.* A pixel is one bit, enough for a raster operation, which
works on each bit alone. The server stays on the desktop it was given. GDI draws
its lines as `bs_line` does (the code has no say in that). A window with scroll
bars does not outgrow the desktop by a single `WM_SIZE`.

*Bounds.* A desktop of 4 by 3: small enough for a clipped box to leave it when
`ui_invalidate` widens it to a multiple of 4, large enough for copies that
overlap in each direction. Windows smaller in both directions, in one, and
larger than the desktop; two drawing orders and two window events in any order.
A difference between `bs` and `screen` needs one of each; a second order copies
what the first drew. Operations 6 (xor, which shows a pixel drawn twice) and 12
(copy). `CHECK_DEADLOCK FALSE`: the bounds are reached.

### Bitmap, Rle, Planes

`Rle` is the run-length decoder. One version in bits stands for the one, two and
three byte versions, which are the same code. `Planes` is the decoder of four
byte bitmaps. Each takes one order, or one segment, a step (the loop over the
pixels of an order is a recursive function of `Decode`, which reads the bytes of
copied pixels and masks as it goes), together with the server saying it in any
form the protocol allows, with masks and pixels that repeat a sequence of
constants (`Masks`, `Patterns`). `unread` is what the decoder has left, or taken
too much, of the orders so far; `flat` and `said` are the
pixels as the server means them, defined on the sequence of pixels and not on
lines. `Bitmap` adds raw bitmaps and what `process_bitmap_updates` and the
bitmap cache orders make of the outcome (`Deliver`): `shown` is where it went,
and the picture that was painted or cached. There is one bitmap at a time: the
bitmaps of an update share no state, and that one which fails leaves the others
to be drawn is not modelled.

*Bounds.* Bitmaps of two by three, three by two, nine by four and three by one
pixels: runs end within, at and past the end of a line, 36 pixels need each form
of a run length, and mask runs go on into a second mask that differs from the
first. Three orders: two fills in a row and one after. Two planes of two lines
of 17 pixels, the shortest with a long run and with a line of differences.
`CHECK_DEADLOCK FALSE`: the bitmap is delivered, or cannot be finished within
the bounds.

### Keyboard

`held` and `locked` are the device's keyboard, `server` the session's;
`messages`, `toServer` and `toClient` are the queues between them. `seen` is
what `GetKeyState` answers: the lock as of the last message retrieved.

| action | code |
|---|---|
| `WndProc` | `handle_WM_KEYDOWN`, `handle_WM_KEYUP`, `WM_SETFOCUS` with `mi_check_modifier` |
| `WmSize` | the end of `handle_WM_SIZE`, `mi_check_modifier` again |
| `WmHaveScan`, `KeybdEvent` | `SendKeys`, one `keybd_event` a step |
| `DemandActive`, `ControlGranted`, `FontsAnswered` | `process_demand_active` and its reads, as far as input goes |
| `Press`, `Release`, `LoseFocus`, `GainFocus`, `Scan`, `ServerDemands`, `ServerTakes` | the user, the window manager, the scanner, the server |

*Taken for granted.* The window manager delivers keys and the focus in one
order and stamps a message with the lock state of its moment. The server listens
from the moment it grants control and not while the session is deactivated; a
SYNCHRONIZE sets the locks and releases every key.

*Bounds.* Three presses, scans, resizings or losses of the focus, one of them a
scan of a capital letter or a resizing at most, and two activations, with any number of releases: a key pressed, its
release lost, and one more event, before, between and after the activations.
`CHECK_DEADLOCK FALSE`: the user stops, and so do the queues.

## Findings

* `SessionRedirect`: `mi_create_window` refuses a second window, so a session
  that followed a redirect ends in `ui_main`'s error return.
* `SessionPoll`: after a retry or a redirect `check_sck` polls the first,
  closed socket.
* `WirePumpTls`: over TLS, packets decrypted with the one just read wait inside
  OpenSSL until the server sends more.
* `ScannerLost`: a scanner thread that starts before `CreateWindow` returns has
  no window handle and waits for ever after the first scan.

## Proofs

`SecLayer_proofs` proves, for every `UpdateEvery`, `MaxConnections`,
`MaxPdus` and `MaxInFlight` that `SecAssumption` allows (positive, positive,
natural, natural), the three invariants the run `SecLayer` checks.

`InStep` alone is not inductive: it speaks of the head of a queue, and after a
`Receive` the next element becomes the head. The inductive invariant `IInv` is

* `TypeOK`,
* `UpdatesOnSchedule`: crypted = epoch * UpdateEvery + use,
* `KeysFirst`: the server has keys of this connection only if the client has,
  and nothing is in flight or counted before its sender has keys,
* `Numbered`: the PDUs in flight carry consecutive numbers (epoch *
  UpdateEvery + use), from the receiver's count to the sender's.

A number determines a position because use stays below `UpdateEvery` at the
moment of encryption (lemma `DivisionUnique`, quotient and remainder are
unique), so `InStep` follows from `Numbered` at the first element
(`NumberedInStep`). The step lemmas go action by action; `CryptStep` says once
what one use of a stream does to the schedule.

`Session_proofs` proves the five invariants the run `Session` checks, for every
set of handles, number of redirects and of channels (`SessionAssumption`).
`OneCipher` is the one that needs a strengthening: a redirect keeps `g_ssl` and
its socket open, so the next socket is another one (`g_ssl` is among the open
handles, and the new socket is not), the connection request goes nowhere, and
only a target reached without TLS gets as far as a retry (`Ciphers`).
`NothingLeftBehind` needs one open handle less while connecting (`Opened`),
`TwoAttempts` that each retry has cleared `g_negotiate_rdp_protocol`
(`Retried`), `FramingAgrees` what each end makes of the licence so far, and
which headers that puts wrong (`Licences`),
the type of `left` its value where it is counted down (`Awaited`).

`WirePump_proofs` proves the three invariants of `WirePump`, for any number of
packets, PDUs and fragments. The argument is `Calls`: `g_block` is set exactly
while an `rdp_loop` call is in progress, so a message box's own message loop
starts no second one; a call that handles a PDU works on the packet in the
buffer, and a read that `check_sck` has polled for has data, or the end of the
stream, until it is taken.
`TypeOK` needs that no fragment is lost or invented, a sum over the records that
wait. `Fragments` says it without a recursive sum: there are partial sums, from
what was taken to what was sent, and a step only appends one, drops the first
or moves it by one.

`Scanner_proofs` proves the safety properties of `Scanner`, for any barcodes and
any number of scans. `InOrder` says that the scans are those typed, the one in
the buffer and those ahead; `HandOver` says which one of a message, a GUI thread that is typing and the event
stands for the scan in the buffer, by where the scanner thread is.

`Display_proofs` proves the four invariants of `Display`, for a desktop, windows,
thumb positions, boxes, lines and bitmaps of any size (`DisplayAssumption` gives
them types and lets the whole desktop be among the bounds). `PInv` holds the
argument together: the clip is the whole desktop between two orders
(`Unclipped`), `RangeOfSize`, the types, `DrawsAsMeant` and `ScreenCurrent`.

* *Drawing.* Each call of `bsops.c` is shown to be one raster operation on the
  pixels of a box, or of a line, within the clip (`RectPaints`, `MembltPaints`,
  `LinePaints`, `TextPaints`). Two of them loop over pixels that they also read.
  `bs_screenblt` copies in the order that never reads a pixel already written
  (`CopyRowAtOnce`, `CopyRowsAtOnce`, by induction over the columns and the
  rows), so it copies all pixels at once. `bs_line` keeps its error term within
  half a pixel at every step (`WalkRounds`, by induction over the walk), so it
  visits the nearest pixels (`WalkNearest`).
* *Showing.* A pixel of the window either gets what the backing store gets, or
  is in the update region, or shows a pixel the call left alone
  (`InvalidateShows`, `FillShows`). `ui_line` and `ui_text` repaint a box; it
  holds every pixel they changed (`AroundHolds`, `Extremes`).
* *Scrolling.* The scroll bars' ranges are always what the window leaves of the
  desktop, so a message that only a visible bar can send finds a window smaller
  than the desktop, and none of the seven requests leads out.

`Orders_proofs` proves both invariants of `Orders` and that it implements
`Canvas`, for any order types in use, any cache, any width of coordinates
and differences and any bound. What the server encodes, with differences or not
and any form of bounds, the client decodes to what was meant (`ParseEncoded`
and the lemmas after it, from the arithmetic of a coordinate's wrap-around).
The inductive invariant is a chain: the first order in flight was encoded
against a state that agrees with the client's, every other against the state
the one before it leads to, and the last leads to the server's state. A
reactivation resets both ends of its link. The refinement follows: the effects
of the chain are the abstract queue, and decoding its first order shows the
queue's head.

`Keyboard_proofs` proves the four invariants of `Keyboard`, for any keys, any
barcodes and any bound. `NoStuckKeys` speaks of empty queues only. `Linked` says
what holds on the way: replaying the messages that wait for the window, from
some keyboard in between, leads to no key down that is up on the device;
replaying what is on its way to the server leads from the session's keyboard to
that one in between; and every letter meets, in either replay, the Caps Lock and
the shift it was typed with. While the focus is elsewhere the first half says
nothing of the device, and while the session is being activated the second says
nothing of the server; `Handshake` says where an activation stands, and the
SYNCHRONIZE that ends either restores the link.

`Bitmap_proofs` proves the four invariants of `Bitmap`, `Rle` and `Planes`, for
bitmaps of any size, any run lengths, any sequences of masks and pixels that are
used over and over, any number of planes and any number of orders or segments.

* *Runs.* What the server says in one of the forms of an order is what the
  decoder reads: the header (`HeaderReads`, with one lemma for each form), the
  count, the colours, and the masks one by one: `Cursor` is a closed form of where
  in an order the decoder reads, and of the byte it has (`FetchNext`), and at the
  last pixel it stands at the end (`OrderReads`). `Keeps` is a closed form of the
  decoder's state: the drawing of the pixels said so far, with the column and
  line of the last of them; the number of a pixel and its place in the bitmap
  determine each other, as quotient and remainder are unique (`Place`). A round
  of the loop over an order's pixels keeps it (`PutNext`), so an order puts its
  pixels after those before (`DecodePuts`). The rounds meet the server's meaning
  because the last order was a background run on both sides (`filled`), and the
  pixel above is the one a line earlier in the sequence.
* *Planes.* `Positions` says which plane, line and column the decoder has
  reached, and that they are where the server is. `RunColor` says that the value,
  or difference, that a run repeats is the one that made the last pixel of the
  line. A difference survives its byte (`DifferenceEncoded`, modulo 256), and so
  does a segment's control byte (`LengthsOfCode`).
* *Delivery.* `ShownAsMeant` follows from the two once the bitmap is complete,
  and raw lines are turned over (`RawTurned`).

So every safety property of the passing runs is a theorem. Only model-checked are
the liveness properties `ConnectDecides`, `PlainDrains`, `CloseEndsLoop` and
`ScansTyped`: liveness under fairness and ENABLED are out of the prover's reach. The library's induction theorems are, too,
since they take an operator as a parameter; `Display_proofs` and `Bitmap_proofs`
go without them. What a recursive function computes is proved there from the
well-foundedness of the natural numbers: a set of indices that has 0, and with an
index the next, has them all (`Induction`), and a function defined along them
exists (`Recursion`).

## Not modelled

Most lines of this repository are not the program: OpenSSL's headers, the
wcecompat library, RDPman, key and code tables, and several files that no build
contains or calls. Of the client's own C files the following is left out.

* `mppc.c`. The client never asks for compression (`RDP_LOGON_COMPRESSION` is
  defined and unused), so a conforming server never compresses.
* `channels.c`, `cliprdr.c`, `xclip.cpp`. No channel is ever registered, and the
  clipboard is not in the build.
* `pstcache.c`. Switched off, and the file operations below it are stubs.
* `rdp5.c`'s headers. The updates in a fast path packet call the functions of
  the slow path; `WirePump` has the packet.
* `cache.c` but for bitmaps. Glyphs, texts, cursors and brushes are arrays
  behind the same bounds test; desktop saves end in empty functions.
* The contents of PDUs: capabilities, logon data, certificates, BER, licences.
  Nothing here depends on them but what the models keep as a choice.
* In `Display`: palettes (a new one is not applied to what is drawn,
  `ui_set_colourmap` is empty), glyphs outside an opaque box, brushes, the
  conversions between depths, and `ui_triblt`, `ui_polygon`, `ui_ellipse`,
  `ui_desktop_save` and `ui_desktop_restore`, which do nothing.
* The mouse. Its handlers forward a position and a button. A double tap sends
  three presses and one release more, which is read off their order.
* In `Keyboard`: `SendKeys` does not look at Caps Lock, and a SYNCHRONIZE
  between its shift and its key takes the shift away; `TypedAsHere` claims
  neither. Num Lock and Scroll Lock go the way of Caps Lock.
* In `Bitmap`: several bitmaps in one update. In `SecLayer`: a key exchange that
  fails unnoticed.
* Command line, ini file, menus, message texts, the SIP button: parsed or shown
  once and never part of an interleaving.
* Cryptography and wide integers.

## Plan

1. Text fragments and glyph caches in `Orders`: a text order that adds to the
   fragments it is made of. A server that uses an unknown order type, for the
   early return that leaves a clip behind.
