------------------------------ MODULE SecLayer ------------------------------
(***************************************************************************)
(* RDP's own encryption (secure.c): two RC4 streams, one per direction,    *)
(* whose keys are replaced after every UpdateEvery PDUs.  Neither end ever *)
(* tells the other: each counts for itself, over every kind of encrypted   *)
(* PDU (slow path, fast path, virtual channel, redirect), and a single     *)
(* disagreement garbles the rest of the session.  The server is external:  *)
(* it follows the same rule and starts afresh on every connection.         *)
(*                                                                         *)
(* A key stream position is [keys, epoch, use]: the connection whose       *)
(* randoms made the keys, the updates since and the PDUs crypted since.    *)
(***************************************************************************)
EXTENDS Integers, Sequences

CONSTANTS
  UpdateEvery,   \* 4096 in secure.c
  MaxConnections,\* BOUND: the first connection and the redirected ones
  MaxPdus,       \* BOUND: PDUs encrypted per direction and connection
  MaxInFlight    \* BOUND: PDUs of one direction on their way

ASSUME SecAssumption ==
  /\ UpdateEvery \in Nat \ {0} /\ MaxConnections \in Nat \ {0}
  /\ MaxPdus \in Nat /\ MaxInFlight \in Nat

Ends == {"client", "server"}
Dirs == {"out", "in"}            \* seen from the client
Sender(d) == IF d = "out" THEN "client" ELSE "server"
Receiver(d) == IF d = "out" THEN "server" ELSE "client"

VARIABLES
  connection,  \* the current connection
  keys,        \* keys[e]: the connection e generated its keys on, 0: none
  epoch,       \* epoch[e][d]: sec_update calls since then
  use,         \* use[e][d]: g_sec_encrypt_use_count, g_sec_decrypt_use_count
  wire,        \* wire[d]: the positions of the PDUs in flight
  broken,      \* a send has failed: nothing is delivered any more
  crypted      \* crypted[e][d]: PDUs crypted on this connection

vars == <<connection, keys, epoch, use, wire, broken, crypted>>

Fresh == [d \in Dirs |-> 0]
Positions == [keys : Nat, epoch : Nat, use : Nat]

\* The statics of secure.c are zero when the process starts.
Init ==
  /\ connection = 1 /\ broken = FALSE
  /\ keys = [e \in Ends |-> 0]
  /\ epoch = [e \in Ends |-> Fresh] /\ use = [e \in Ends |-> Fresh]
  /\ crypted = [e \in Ends |-> Fresh]
  /\ wire = [d \in Dirs |-> <<>>]

\* sec_generate_keys, on the server's crypt info: new keys and update keys;
\* the use counts are left alone.
GenerateKeys ==
  /\ keys["client"] # connection
  /\ keys' = [keys EXCEPT !["client"] = connection]
  /\ epoch' = [epoch EXCEPT !["client"] = Fresh]
  /\ UNCHANGED <<connection, use, wire, broken, crypted>>

\* The server makes its keys when the client random arrives.
ServerKeys ==
  /\ keys["client"] = connection /\ keys["server"] = 0 /\ ~broken
  /\ keys' = [keys EXCEPT !["server"] = connection]
  /\ UNCHANGED <<connection, epoch, use, wire, broken, crypted>>

RolloverLate(u) == u > UpdateEvery       \* mutant: one PDU too late

\* use_count == 4096, tested before the PDU is crypted.
Rollover(u) == u = UpdateEvery

\* Where e's stream stands for the next PDU of direction d.
Position(e, d) ==
  [keys  |-> keys[e],
   epoch |-> IF Rollover(use[e][d]) THEN epoch[e][d] + 1 ELSE epoch[e][d],
   use   |-> IF Rollover(use[e][d]) THEN 0 ELSE use[e][d]]

CryptCountsTwice(e, d) ==                \* mutant: a second increment
  /\ epoch' = [epoch EXCEPT ![e][d] = Position(e, d).epoch]
  /\ use' = [use EXCEPT ![e][d] = Position(e, d).use + IF e = "client" THEN 2 ELSE 1]
  /\ crypted' = [crypted EXCEPT ![e][d] = @ + 1]

\* sec_encrypt and sec_decrypt: update the key if it is due, crypt, count.
Crypt(e, d) ==
  /\ epoch' = [epoch EXCEPT ![e][d] = Position(e, d).epoch]
  /\ use' = [use EXCEPT ![e][d] = Position(e, d).use + 1]
  /\ crypted' = [crypted EXCEPT ![e][d] = @ + 1]

\* sec_send_to_channel: encrypt and transmit.  tcp_send reports an error to
\* nobody: the PDU is gone, the count has advanced.
Send(d) ==
  /\ keys[Sender(d)] = connection
  /\ crypted[Sender(d)][d] < MaxPdus /\ Len(wire[d]) < MaxInFlight
  /\ Crypt(Sender(d), d)
  /\ \/ /\ ~broken
        /\ wire' = [wire EXCEPT ![d] = Append(@, Position(Sender(d), d))]
        /\ UNCHANGED broken
     \/ broken' = TRUE /\ UNCHANGED wire
  /\ UNCHANGED <<connection, keys>>

\* sec_recv: decrypt the next PDU.
Receive(d) ==
  /\ keys[Receiver(d)] = connection
  /\ wire[d] # <<>>
  /\ Crypt(Receiver(d), d)
  /\ wire' = [wire EXCEPT ![d] = Tail(@)]
  /\ UNCHANGED <<connection, keys, broken>>

ResetForgetsDecrypt ==                   \* mutant: only one count is reset
  use' = [use EXCEPT !["client"]["out"] = 0, !["server"] = Fresh]

\* sec_reset_state zeroes both counts; the new server's are zero anyway.
ResetCounts == use' = [e \in Ends |-> Fresh]

\* ui_main follows a redirect: what was in flight is lost and the keys stay
\* until the next crypt info.
Reset ==
  /\ connection < MaxConnections
  /\ connection' = connection + 1
  /\ ResetCounts
  /\ keys' = [keys EXCEPT !["server"] = 0]
  /\ epoch' = [epoch EXCEPT !["server"] = Fresh]
  /\ wire' = [d \in Dirs |-> <<>>] /\ broken' = FALSE
  /\ crypted' = [e \in Ends |-> Fresh]

Next ==
  \/ GenerateKeys \/ ServerKeys \/ Reset
  \/ \E d \in Dirs : Send(d) \/ Receive(d)

Spec == Init /\ [][Next]_vars

-----------------------------------------------------------------------------
\* Every variable has its type.
TypeOK ==
  /\ connection \in Nat \ {0} /\ broken \in BOOLEAN
  /\ keys \in [Ends -> Nat]
  /\ epoch \in [Ends -> [Dirs -> Nat]]
  /\ use \in [Ends -> [Dirs -> 0 .. UpdateEvery]]
  /\ crypted \in [Ends -> [Dirs -> Nat]]
  /\ wire \in [Dirs -> Seq(Positions)]

\* sec_encrypt and sec_decrypt keep step with the server: the PDU that a
\* keyed receiver takes next was encrypted at the very position its own
\* stream stands at, across every key update and after every redirect.
InStep ==
  \A d \in Dirs :
    keys[Receiver(d)] = connection /\ wire[d] # <<>> =>
      Head(wire[d]) = Position(Receiver(d), d)

\* The use count of secure.c and the number of key updates together tell how
\* often a stream has been used on this connection, so a key never serves
\* more than UpdateEvery PDUs and no update is skipped.
UpdatesOnSchedule ==
  \A e \in Ends, d \in Dirs :
    keys[e] = connection => crypted[e][d] = epoch[e][d] * UpdateEvery + use[e][d]

=============================================================================
