--------------------------- MODULE SecLayer_proofs ---------------------------
(***************************************************************************)
(* For every UpdateEvery, and with no bound on the PDUs, the two ends of   *)
(* each direction stay in step.  The argument: a use count and a number of *)
(* updates are the remainder and the quotient of one number, the PDUs      *)
(* crypted on this connection; the PDUs in flight carry consecutive        *)
(* numbers, starting at the receiver's; and equal numbers have equal       *)
(* quotients and remainders, so equal positions.                           *)
(***************************************************************************)
EXTENDS SecLayer, TLAPS

\* The number of a position within its connection.
Number(p) == p.epoch * UpdateEvery + p.use

\* An end without keys has crypted nothing on this connection, and the server
\* has its keys from the client's random.
KeysFirst ==
  /\ \A e \in Ends : keys[e] # connection => use[e] = Fresh /\ crypted[e] = Fresh
  /\ keys["client"] <= connection /\ keys["server"] \in {0, connection}
  /\ keys["server"] = 0 => epoch["server"] = Fresh
  /\ keys["server"] = connection => keys["client"] = connection

\* The PDUs in flight are numbered from the receiver's count on and, until a
\* send fails, up to the sender's.
Numbered ==
  \A d \in Dirs :
    /\ \A i \in 1 .. Len(wire[d]) :
         /\ wire[d][i].keys = connection
         /\ wire[d][i].use < UpdateEvery
         /\ Number(wire[d][i]) = crypted[Receiver(d)][d] + i - 1
    /\ ~broken => crypted[Sender(d)][d] = crypted[Receiver(d)][d] + Len(wire[d])

IInv == TypeOK /\ UpdatesOnSchedule /\ KeysFirst /\ Numbered

-----------------------------------------------------------------------------
\* Multiplication by a natural is monotonic and distributes over a successor.
LEMMA Successor ==
  ASSUME NEW L \in Nat, NEW a \in Nat, NEW c \in Nat, a < c
  PROVE  a * L + L <= c * L
<1> DEFINE k == c - (a + 1)
<1>1. k \in Nat /\ c = a + 1 + k
  OBVIOUS
<1> HIDE DEF k
<1>2. c * L = a * L + L + k * L
  BY <1>1
<1>3. k * L \in Nat
  BY <1>1
<1> QED
  BY <1>2, <1>3

\* Quotient and remainder are unique.
LEMMA DivisionUnique ==
  ASSUME NEW L \in Nat \ {0}, NEW a \in Nat, NEW b \in Nat, NEW c \in Nat, NEW d \in Nat,
         b < L, d < L, a * L + b = c * L + d
  PROVE  a = c /\ b = d
<1>0. a * L \in Nat /\ c * L \in Nat
  OBVIOUS
<1>1. CASE a < c
  <2>1. a * L + L <= c * L
    BY <1>1, Successor
  <2> QED
    BY <2>1, <1>0
<1>2. CASE c < a
  <2>1. c * L + L <= a * L
    BY <1>2, Successor
  <2> QED
    BY <2>1, <1>0
<1>3. CASE a = c
  BY <1>3, <1>0
<1> QED
  BY <1>1, <1>2, <1>3

\* A position is well formed, below the limit, and has the number of the
\* stream it belongs to.
LEMMA PositionNumber ==
  ASSUME TypeOK, NEW e \in Ends, NEW d \in Dirs
  PROVE  /\ Position(e, d) \in Positions
         /\ Position(e, d).keys = keys[e]
         /\ Position(e, d).use < UpdateEvery
         /\ Number(Position(e, d)) = epoch[e][d] * UpdateEvery + use[e][d]
<1>1. /\ keys[e] \in Nat /\ epoch[e][d] \in Nat
      /\ use[e][d] \in 0 .. UpdateEvery /\ UpdateEvery \in Nat \ {0}
  BY SecAssumption DEF TypeOK
<1>2. CASE use[e][d] = UpdateEvery
  <2>1. Position(e, d) = [keys |-> keys[e], epoch |-> epoch[e][d] + 1, use |-> 0]
    BY <1>2 DEF Position, Rollover
  <2>2. (epoch[e][d] + 1) * UpdateEvery = epoch[e][d] * UpdateEvery + UpdateEvery
    BY <1>1
  <2> QED
    BY <1>1, <1>2, <2>1, <2>2 DEF Number, Positions
<1>3. CASE use[e][d] # UpdateEvery
  <2>1. Position(e, d) = [keys |-> keys[e], epoch |-> epoch[e][d], use |-> use[e][d]]
    BY <1>3 DEF Position, Rollover
  <2> QED
    BY <1>1, <1>3, <2>1 DEF Number, Positions
<1> QED
  BY <1>2, <1>3

\* What sec_encrypt and sec_decrypt do: one more PDU on one stream, none on
\* the others.
LEMMA CryptStep ==
  ASSUME TypeOK, NEW e \in Ends, NEW d \in Dirs, Crypt(e, d)
  PROVE  /\ epoch' \in [Ends -> [Dirs -> Nat]]
         /\ use' \in [Ends -> [Dirs -> 0 .. UpdateEvery]]
         /\ crypted' \in [Ends -> [Dirs -> Nat]]
         /\ \A f \in Ends, g \in Dirs : f # e \/ g # d =>
              /\ epoch'[f][g] = epoch[f][g] /\ use'[f][g] = use[f][g]
              /\ crypted'[f][g] = crypted[f][g]
         /\ crypted'[e][d] = crypted[e][d] + 1
         /\ epoch'[e][d] * UpdateEvery + use'[e][d] = epoch[e][d] * UpdateEvery + use[e][d] + 1
<1> DEFINE p == Position(e, d)
<1>1. /\ p \in Positions /\ p.use < UpdateEvery
      /\ p.epoch * UpdateEvery + p.use = epoch[e][d] * UpdateEvery + use[e][d]
  BY PositionNumber DEF Number
<1>2. /\ p.epoch \in Nat /\ p.use \in Nat /\ p.use + 1 \in 0 .. UpdateEvery
      /\ UpdateEvery \in Nat /\ epoch[e][d] \in Nat /\ use[e][d] \in Nat
  BY <1>1, SecAssumption DEF Positions, TypeOK
<1>3. /\ epoch' = [epoch EXCEPT ![e][d] = p.epoch]
      /\ use' = [use EXCEPT ![e][d] = p.use + 1]
      /\ crypted' = [crypted EXCEPT ![e][d] = @ + 1]
  BY DEF Crypt
<1> HIDE DEF p
<1>4. /\ epoch' \in [Ends -> [Dirs -> Nat]]
      /\ use' \in [Ends -> [Dirs -> 0 .. UpdateEvery]]
      /\ crypted' \in [Ends -> [Dirs -> Nat]]
  <2>1. epoch' \in [Ends -> [Dirs -> Nat]]
    BY <1>2, <1>3 DEF TypeOK
  <2>2. use' \in [Ends -> [Dirs -> 0 .. UpdateEvery]]
    BY <1>2, <1>3 DEF TypeOK
  <2>3. crypted \in [Ends -> [Dirs -> Nat]] /\ crypted[e][d] + 1 \in Nat
    BY DEF TypeOK
  <2>4. crypted' \in [Ends -> [Dirs -> Nat]]
    BY <1>3, <2>3
  <2> QED
    BY <2>1, <2>2, <2>4
<1>5. \A f \in Ends, g \in Dirs : f # e \/ g # d =>
              /\ epoch'[f][g] = epoch[f][g] /\ use'[f][g] = use[f][g]
              /\ crypted'[f][g] = crypted[f][g]
  BY <1>3 DEF TypeOK
<1>6. epoch'[e][d] = p.epoch /\ use'[e][d] = p.use + 1 /\ crypted'[e][d] = crypted[e][d] + 1
  BY <1>3 DEF TypeOK
<1>7. p.epoch * UpdateEvery + (p.use + 1) = epoch[e][d] * UpdateEvery + use[e][d] + 1
  <2>1. p.epoch * UpdateEvery \in Nat /\ epoch[e][d] * UpdateEvery \in Nat
    BY <1>2
  <2> QED
    BY <1>1, <1>2, <2>1
<1> QED
  BY <1>4, <1>5, <1>6, <1>7

\* The initial state satisfies the inductive invariant.
LEMMA InitIInv == Init => IInv
<1> SUFFICES ASSUME Init PROVE IInv
  OBVIOUS
<1>1. TypeOK
  <2>1. broken \in BOOLEAN
    BY DEF Init
  <2>2. Fresh \in [Dirs -> Nat] /\ Fresh \in [Dirs -> 0 .. UpdateEvery]
    BY SecAssumption DEF Fresh
  <2>3. /\ connection = 1 /\ keys = [e \in Ends |-> 0] /\ wire = [d \in Dirs |-> <<>>]
        /\ epoch = [e \in Ends |-> Fresh] /\ use = [e \in Ends |-> Fresh]
        /\ crypted = [e \in Ends |-> Fresh]
    BY DEF Init
  <2>4. <<>> \in Seq(Positions)
    OBVIOUS
  <2> QED
    BY <2>1, <2>2, <2>3, <2>4 DEF TypeOK
<1>2. UpdatesOnSchedule
  BY SecAssumption DEF Init, UpdatesOnSchedule
<1>3. KeysFirst
  BY DEF Init, KeysFirst, Ends
<1>4. Numbered
  BY DEF Init, Numbered, Ends, Dirs, Sender, Receiver, Fresh
<1> QED
  BY <1>1, <1>2, <1>3, <1>4 DEF IInv

\* Every step preserves it.
LEMMA NextIInv == IInv /\ [Next]_vars => IInv'
<1> SUFFICES ASSUME IInv, [Next]_vars PROVE IInv'
  OBVIOUS
<1> USE DEF IInv
<1>e. \A d \in Dirs : Sender(d) \in Ends /\ Receiver(d) \in Ends /\ Sender(d) # Receiver(d)
  BY DEF Ends, Dirs, Sender, Receiver
<1>1. CASE GenerateKeys
  <2>1. /\ keys' = [keys EXCEPT !["client"] = connection]
        /\ epoch' = [epoch EXCEPT !["client"] = Fresh]
        /\ UNCHANGED <<connection, use, wire, broken, crypted>>
        /\ keys["client"] # connection /\ "client" \in Ends /\ "server" \in Ends
    BY <1>1 DEF GenerateKeys, Ends
  <2>2. TypeOK'
    BY <2>1 DEF TypeOK, Fresh
  <2>3. UpdatesOnSchedule'
    <3> SUFFICES ASSUME NEW e \in Ends, NEW d \in Dirs, keys'[e] = connection
                 PROVE  crypted[e][d] = epoch'[e][d] * UpdateEvery + use[e][d]
      BY <2>1 DEF UpdatesOnSchedule
    <3>1. CASE e = "client"
      <4>1. use[e] = Fresh /\ crypted[e] = Fresh /\ epoch'[e] = Fresh
        BY <3>1, <2>1 DEF KeysFirst, TypeOK
      <4> QED
        BY <4>1, SecAssumption DEF Fresh
    <3>2. CASE e # "client"
      BY <3>2, <2>1 DEF TypeOK, UpdatesOnSchedule
    <3> QED
      BY <3>1, <3>2
  <2>4. KeysFirst'
    BY <2>1 DEF KeysFirst, TypeOK, Ends
  <2>5. Numbered'
    BY <2>1 DEF Numbered, Number
  <2> QED
    BY <2>2, <2>3, <2>4, <2>5
<1>2. CASE ServerKeys
  <2>1. /\ keys' = [keys EXCEPT !["server"] = connection]
        /\ UNCHANGED <<connection, epoch, use, wire, broken, crypted>>
        /\ keys["client"] = connection /\ keys["server"] = 0
        /\ "client" \in Ends /\ "server" \in Ends
    BY <1>2 DEF ServerKeys, Ends
  <2>2. TypeOK'
    BY <2>1 DEF TypeOK
  <2>3. UpdatesOnSchedule'
    <3> SUFFICES ASSUME NEW e \in Ends, NEW d \in Dirs, keys'[e] = connection
                 PROVE  crypted[e][d] = epoch[e][d] * UpdateEvery + use[e][d]
      BY <2>1 DEF UpdatesOnSchedule
    <3>1. CASE e = "server"
      <4>1. use[e] = Fresh /\ crypted[e] = Fresh /\ epoch[e] = Fresh
        BY <3>1, <2>1 DEF KeysFirst, TypeOK
      <4> QED
        BY <4>1, SecAssumption DEF Fresh
    <3>2. CASE e # "server"
      BY <3>2, <2>1 DEF TypeOK, UpdatesOnSchedule
    <3> QED
      BY <3>1, <3>2
  <2>4. KeysFirst'
    BY <2>1 DEF KeysFirst, TypeOK, Ends
  <2>5. Numbered'
    BY <2>1 DEF Numbered, Number
  <2> QED
    BY <2>2, <2>3, <2>4, <2>5
<1>3. ASSUME NEW d \in Dirs, Send(d) PROVE IInv'
  <2> DEFINE s == Sender(d)
  <2> DEFINE p == Position(s, d)
  <2>1. /\ keys[s] = connection /\ Crypt(s, d) /\ UNCHANGED <<connection, keys>>
        /\ \/ ~broken /\ wire' = [wire EXCEPT ![d] = Append(@, p)] /\ UNCHANGED broken
           \/ broken' = TRUE /\ UNCHANGED wire
    BY <1>3 DEF Send
  <2>2. s \in Ends /\ Receiver(d) \in Ends /\ s # Receiver(d)
    BY <1>e
  <2>3. /\ p \in Positions /\ p.keys = keys[s] /\ p.use < UpdateEvery
        /\ Number(p) = epoch[s][d] * UpdateEvery + use[s][d]
    BY <2>2, PositionNumber
  <2>4. /\ epoch' \in [Ends -> [Dirs -> Nat]]
        /\ use' \in [Ends -> [Dirs -> 0 .. UpdateEvery]]
        /\ crypted' \in [Ends -> [Dirs -> Nat]]
        /\ \A f \in Ends, g \in Dirs : f # s \/ g # d =>
              /\ epoch'[f][g] = epoch[f][g] /\ use'[f][g] = use[f][g]
              /\ crypted'[f][g] = crypted[f][g]
        /\ crypted'[s][d] = crypted[s][d] + 1
        /\ epoch'[s][d] * UpdateEvery + use'[s][d] = epoch[s][d] * UpdateEvery + use[s][d] + 1
    BY <2>1, <2>2, CryptStep
  <2>5. Number(p) = crypted[s][d]
    BY <2>1, <2>2, <2>3 DEF UpdatesOnSchedule
  <2> HIDE DEF s, p
  <2>6. TypeOK'
    <3>1. broken' \in BOOLEAN
      BY <2>1 DEF TypeOK
    <3>2. wire' \in [Dirs -> Seq(Positions)]
      <4>1. Append(wire[d], p) \in Seq(Positions)
        BY <2>3 DEF TypeOK
      <4> QED
        BY <4>1, <2>1 DEF TypeOK
    <3>3. connection' \in Nat \ {0} /\ keys' \in [Ends -> Nat]
      BY <2>1 DEF TypeOK
    <3> QED
      BY <3>1, <3>2, <3>3, <2>4 DEF TypeOK
  <2>7. UpdatesOnSchedule'
    <3> SUFFICES ASSUME NEW f \in Ends, NEW g \in Dirs, keys[f] = connection
                 PROVE  crypted'[f][g] = epoch'[f][g] * UpdateEvery + use'[f][g]
      BY <2>1 DEF UpdatesOnSchedule
    <3>1. crypted[f][g] = epoch[f][g] * UpdateEvery + use[f][g]
      BY DEF UpdatesOnSchedule
    <3>2. CASE f = s /\ g = d
      BY <3>1, <3>2, <2>4
    <3>3. CASE f # s \/ g # d
      BY <3>1, <3>3, <2>4
    <3> QED
      BY <3>2, <3>3
  <2>8. KeysFirst'
    <3>1. ASSUME NEW f \in Ends, f # s
          PROVE  use'[f] = use[f] /\ crypted'[f] = crypted[f] /\ epoch'[f] = epoch[f]
      <4>1. /\ use[f] \in [Dirs -> 0 .. UpdateEvery] /\ use'[f] \in [Dirs -> 0 .. UpdateEvery]
            /\ crypted[f] \in [Dirs -> Nat] /\ crypted'[f] \in [Dirs -> Nat]
            /\ epoch[f] \in [Dirs -> Nat] /\ epoch'[f] \in [Dirs -> Nat]
        BY <2>4 DEF TypeOK
      <4>2. \A g \in Dirs : /\ use'[f][g] = use[f][g] /\ crypted'[f][g] = crypted[f][g]
                            /\ epoch'[f][g] = epoch[f][g]
        BY <2>4, <3>1
      <4> QED
        BY <4>1, <4>2
    <3>2. s = "server" => keys["server"] # 0
      BY <2>1 DEF TypeOK
    <3> QED
      BY <3>1, <3>2, <2>1, <2>2 DEF KeysFirst, Ends
  <2>9. Numbered'
    <3> SUFFICES ASSUME NEW g \in Dirs
                 PROVE  /\ \A i \in 1 .. Len(wire'[g]) :
                             /\ wire'[g][i].keys = connection
                             /\ wire'[g][i].use < UpdateEvery
                             /\ Number(wire'[g][i]) = crypted'[Receiver(g)][g] + i - 1
                        /\ ~broken' => crypted'[Sender(g)][g] = crypted'[Receiver(g)][g] + Len(wire'[g])
      BY <2>1 DEF Numbered, Number
    <3>0. /\ wire[g] \in Seq(Positions) /\ wire[d] \in Seq(Positions) /\ p \in Positions
          /\ crypted[Receiver(g)][g] \in Nat /\ crypted[Sender(g)][g] \in Nat
      BY <1>e, <2>3 DEF TypeOK
    <3>1. crypted'[Receiver(g)][g] = crypted[Receiver(g)][g]
      BY <2>4, <1>e DEF s
    <3>2. CASE broken' = TRUE /\ UNCHANGED wire
      BY <3>1, <3>2 DEF Numbered
    <3>3. CASE /\ ~broken /\ wire' = [wire EXCEPT ![d] = Append(@, p)] /\ UNCHANGED broken
      <4>1. CASE g # d
        <5>1. wire'[g] = wire[g] /\ crypted'[Sender(g)][g] = crypted[Sender(g)][g]
          BY <4>1, <3>3, <2>4, <1>e DEF TypeOK
        <5> QED
          BY <5>1, <3>1, <3>3 DEF Numbered
      <4>2. CASE g = d
        <5>1. wire'[g] = Append(wire[g], p) /\ crypted'[Sender(g)][g] = crypted[Sender(g)][g] + 1
          BY <4>2, <3>3, <2>4 DEF TypeOK, s
        <5>2. crypted[Sender(g)][g] = crypted[Receiver(g)][g] + Len(wire[g])
          BY <3>3 DEF Numbered
        <5>3. Len(wire'[g]) = Len(wire[g]) + 1 /\ wire'[g][Len(wire[g]) + 1] = p
          BY <5>1, <3>0
        <5>4. \A i \in 1 .. Len(wire[g]) : wire'[g][i] = wire[g][i]
          BY <5>1, <3>0
        <5>5. /\ p.keys = connection /\ p.use < UpdateEvery
              /\ Number(p) = crypted[Receiver(g)][g] + (Len(wire[g]) + 1) - 1
          BY <4>2, <5>2, <3>0, <2>1, <2>3, <2>5 DEF s
        <5>6. \A i \in 1 .. Len(wire'[g]) : i \in 1 .. Len(wire[g]) \/ i = Len(wire[g]) + 1
          BY <5>3, <3>0
        <5>7. ASSUME NEW i \in 1 .. Len(wire'[g])
              PROVE  /\ wire'[g][i].keys = connection /\ wire'[g][i].use < UpdateEvery
                     /\ Number(wire'[g][i]) = crypted'[Receiver(g)][g] + i - 1
          <6>1. CASE i \in 1 .. Len(wire[g])
            <7>1. wire'[g][i] = wire[g][i]
              BY <6>1, <5>4
            <7>2. /\ wire[g][i].keys = connection /\ wire[g][i].use < UpdateEvery
                  /\ Number(wire[g][i]) = crypted[Receiver(g)][g] + i - 1
              BY <6>1 DEF Numbered
            <7> QED
              BY <7>1, <7>2, <3>1
          <6>2. CASE i = Len(wire[g]) + 1
            <7>1. wire'[g][i] = p
              BY <6>2, <5>3
            <7> QED
              BY <7>1, <6>2, <5>5, <3>1
          <6> QED
            BY <6>1, <6>2, <5>6
        <5>8. crypted'[Sender(g)][g] = crypted'[Receiver(g)][g] + Len(wire'[g])
          BY <5>1, <5>2, <5>3, <3>0, <3>1
        <5> QED
          BY <5>7, <5>8
      <4> QED
        BY <4>1, <4>2
    <3> QED
      BY <3>2, <3>3, <2>1
  <2> QED
    BY <2>6, <2>7, <2>8, <2>9
<1>4. ASSUME NEW d \in Dirs, Receive(d) PROVE IInv'
  <2> DEFINE r == Receiver(d)
  <2>1. /\ keys[r] = connection /\ Crypt(r, d) /\ UNCHANGED <<connection, keys, broken>>
        /\ wire[d] # <<>> /\ wire' = [wire EXCEPT ![d] = Tail(@)]
    BY <1>4 DEF Receive
  <2>2. r \in Ends /\ Sender(d) \in Ends /\ r # Sender(d)
    BY <1>e
  <2>3. wire[d] \in Seq(Positions)
    BY DEF TypeOK
  <2>4. /\ epoch' \in [Ends -> [Dirs -> Nat]]
        /\ use' \in [Ends -> [Dirs -> 0 .. UpdateEvery]]
        /\ crypted' \in [Ends -> [Dirs -> Nat]]
        /\ \A f \in Ends, g \in Dirs : f # r \/ g # d =>
              /\ epoch'[f][g] = epoch[f][g] /\ use'[f][g] = use[f][g]
              /\ crypted'[f][g] = crypted[f][g]
        /\ crypted'[r][d] = crypted[r][d] + 1
        /\ epoch'[r][d] * UpdateEvery + use'[r][d] = epoch[r][d] * UpdateEvery + use[r][d] + 1
    BY <2>1, <2>2, CryptStep
  <2> HIDE DEF r
  <2>5. Tail(wire[d]) \in Seq(Positions) /\ Len(Tail(wire[d])) = Len(wire[d]) - 1
    BY <2>1, <2>3
  <2>6. TypeOK'
    BY <2>1, <2>4, <2>5 DEF TypeOK
  <2>7. UpdatesOnSchedule'
    <3> SUFFICES ASSUME NEW f \in Ends, NEW g \in Dirs, keys[f] = connection
                 PROVE  crypted'[f][g] = epoch'[f][g] * UpdateEvery + use'[f][g]
      BY <2>1 DEF UpdatesOnSchedule
    <3>1. crypted[f][g] = epoch[f][g] * UpdateEvery + use[f][g]
      BY DEF UpdatesOnSchedule
    <3>2. CASE f = r /\ g = d
      BY <3>1, <3>2, <2>4
    <3>3. CASE f # r \/ g # d
      BY <3>1, <3>3, <2>4
    <3> QED
      BY <3>2, <3>3
  <2>8. KeysFirst'
    <3>1. ASSUME NEW f \in Ends, f # r
          PROVE  use'[f] = use[f] /\ crypted'[f] = crypted[f] /\ epoch'[f] = epoch[f]
      <4>1. /\ use[f] \in [Dirs -> 0 .. UpdateEvery] /\ use'[f] \in [Dirs -> 0 .. UpdateEvery]
            /\ crypted[f] \in [Dirs -> Nat] /\ crypted'[f] \in [Dirs -> Nat]
            /\ epoch[f] \in [Dirs -> Nat] /\ epoch'[f] \in [Dirs -> Nat]
        BY <2>4 DEF TypeOK
      <4>2. \A g \in Dirs : /\ use'[f][g] = use[f][g] /\ crypted'[f][g] = crypted[f][g]
                            /\ epoch'[f][g] = epoch[f][g]
        BY <2>4, <3>1
      <4> QED
        BY <4>1, <4>2
    <3>2. r = "server" => keys["server"] # 0
      BY <2>1 DEF TypeOK
    <3> QED
      BY <3>1, <3>2, <2>1, <2>2 DEF KeysFirst, Ends
  <2>9. Numbered'
    <3> SUFFICES ASSUME NEW g \in Dirs
                 PROVE  /\ \A i \in 1 .. Len(wire'[g]) :
                             /\ wire'[g][i].keys = connection
                             /\ wire'[g][i].use < UpdateEvery
                             /\ Number(wire'[g][i]) = crypted'[Receiver(g)][g] + i - 1
                        /\ ~broken' => crypted'[Sender(g)][g] = crypted'[Receiver(g)][g] + Len(wire'[g])
      BY <2>1 DEF Numbered, Number
    <3>0. /\ wire[g] \in Seq(Positions) /\ Len(wire[g]) \in Nat
          /\ crypted[Receiver(g)][g] \in Nat /\ crypted[Sender(g)][g] \in Nat
      BY <1>e DEF TypeOK
    <3>1. crypted'[Sender(g)][g] = crypted[Sender(g)][g]
      BY <2>4, <1>e DEF r
    <3>2. CASE g # d
      <4>1. wire'[g] = wire[g] /\ crypted'[Receiver(g)][g] = crypted[Receiver(g)][g]
        BY <3>2, <2>1, <2>4, <1>e DEF TypeOK
      <4> QED
        BY <4>1, <3>1, <2>1 DEF Numbered
    <3>3. CASE g = d
      <4>1. wire'[g] = Tail(wire[g]) /\ crypted'[Receiver(g)][g] = crypted[Receiver(g)][g] + 1
        BY <3>3, <2>1, <2>4 DEF TypeOK, r
      <4>2. Len(wire'[g]) = Len(wire[g]) - 1
        BY <4>1, <3>3, <2>5
      <4>3. \A i \in 1 .. Len(wire'[g]) : i + 1 \in 1 .. Len(wire[g]) /\ wire'[g][i] = wire[g][i + 1]
        BY <4>1, <4>2, <3>0, <3>3, <2>1
      <4>4. ASSUME NEW i \in 1 .. Len(wire'[g])
            PROVE  /\ wire'[g][i].keys = connection /\ wire'[g][i].use < UpdateEvery
                   /\ Number(wire'[g][i]) = crypted'[Receiver(g)][g] + i - 1
        <5>1. i \in Int /\ i + 1 \in 1 .. Len(wire[g]) /\ wire'[g][i] = wire[g][i + 1]
          BY <4>3
        <5>2. /\ wire[g][i + 1].keys = connection /\ wire[g][i + 1].use < UpdateEvery
              /\ Number(wire[g][i + 1]) = crypted[Receiver(g)][g] + (i + 1) - 1
          BY <5>1 DEF Numbered
        <5>3. crypted[Receiver(g)][g] + (i + 1) - 1 = crypted'[Receiver(g)][g] + i - 1
          <6>1. /\ crypted'[Receiver(g)][g] = crypted[Receiver(g)][g] + 1
                /\ crypted[Receiver(g)][g] \in Int
            BY <4>1, <3>0
          <6> QED
            BY <5>1, <6>1
        <5> QED
          BY <5>1, <5>2, <5>3
      <4>5. ASSUME ~broken'
            PROVE  crypted'[Sender(g)][g] = crypted'[Receiver(g)][g] + Len(wire'[g])
        <5>1. crypted[Sender(g)][g] = crypted[Receiver(g)][g] + Len(wire[g])
          BY <4>5, <2>1 DEF Numbered
        <5> QED
          BY <5>1, <4>1, <4>2, <3>0, <3>1, SMTT(30)
      <4> QED
        BY <4>4, <4>5
    <3> QED
      BY <3>2, <3>3
  <2> QED
    BY <2>6, <2>7, <2>8, <2>9
<1>5. CASE Reset
  <2>1. /\ connection' = connection + 1
        /\ use' = [e \in Ends |-> Fresh] /\ crypted' = [e \in Ends |-> Fresh]
        /\ keys' = [keys EXCEPT !["server"] = 0]
        /\ epoch' = [epoch EXCEPT !["server"] = Fresh]
        /\ wire' = [d \in Dirs |-> <<>>]
        /\ "client" \in Ends /\ "server" \in Ends
    BY <1>5 DEF Reset, ResetCounts, Ends
  <2>2. TypeOK'
    <3>1. broken' \in BOOLEAN
      BY <1>5 DEF Reset
    <3>2. Fresh \in [Dirs -> Nat] /\ Fresh \in [Dirs -> 0 .. UpdateEvery]
      BY SecAssumption DEF Fresh
    <3>3. <<>> \in Seq(Positions)
      OBVIOUS
    <3>4. connection' \in Nat \ {0}
      BY <2>1 DEF TypeOK
    <3>5. /\ keys' \in [Ends -> Nat] /\ epoch' \in [Ends -> [Dirs -> Nat]]
      BY <2>1, <3>2 DEF TypeOK
    <3>6. /\ use' \in [Ends -> [Dirs -> 0 .. UpdateEvery]]
          /\ crypted' \in [Ends -> [Dirs -> Nat]]
          /\ wire' \in [Dirs -> Seq(Positions)]
      BY <2>1, <3>2, <3>3
    <3> QED
      BY <3>1, <3>4, <3>5, <3>6 DEF TypeOK
  <2>3. \A e \in Ends : keys'[e] # connection'
    BY <2>1 DEF KeysFirst, TypeOK, Ends
  <2>4. UpdatesOnSchedule'
    BY <2>3 DEF UpdatesOnSchedule
  <2>5. KeysFirst'
    BY <2>1, <2>3 DEF KeysFirst, TypeOK, Ends
  <2>6. Numbered'
    BY <2>1, <1>e DEF Numbered, Fresh
  <2> QED
    BY <2>2, <2>4, <2>5, <2>6
<1>6. CASE UNCHANGED vars
  <2>1. UNCHANGED <<connection, keys, epoch, use, wire, broken, crypted>>
    BY <1>6 DEF vars
  <2> QED
    BY <2>1 DEF TypeOK, UpdatesOnSchedule, KeysFirst, Numbered, Number
<1> QED
  BY <1>1, <1>2, <1>3, <1>4, <1>5, <1>6 DEF Next

\* Below the limit, the number of a position determines it.
LEMMA NumberDetermines ==
  ASSUME NEW h \in Positions, NEW p \in Positions, h.keys = p.keys,
         h.use < UpdateEvery, p.use < UpdateEvery, Number(h) = Number(p)
  PROVE  h = p
<1> DEFINE a == h.epoch
           b == h.use
           c == p.epoch
           e == p.use
<1>1. UpdateEvery \in Nat \ {0}
  BY SecAssumption
<1>2. a \in Nat /\ b \in Nat /\ c \in Nat /\ e \in Nat
  BY DEF Positions
<1>3. b < UpdateEvery /\ e < UpdateEvery
  OBVIOUS
<1>4. a * UpdateEvery + b = c * UpdateEvery + e
  BY DEF Number
<1> HIDE DEF a, b, c, e
<1>5. a = c /\ b = e
  BY ONLY <1>1, <1>2, <1>3, <1>4, DivisionUnique
<1> QED
  BY <1>5 DEF Positions, a, b, c, e

\* The inductive invariant implies that receivers are in step.
LEMMA NumberedInStep == IInv => InStep
<1> SUFFICES ASSUME IInv, NEW d \in Dirs,
                    keys[Receiver(d)] = connection, wire[d] # <<>>
             PROVE  Head(wire[d]) = Position(Receiver(d), d)
  BY DEF InStep
<1> DEFINE r == Receiver(d)
           h == wire[d][1]
           p == Position(r, d)
<1>1. r \in Ends
  BY DEF Dirs, Receiver, Ends
<1>2. wire[d] \in Seq(Positions) /\ Len(wire[d]) \in Nat /\ Len(wire[d]) # 0
  BY DEF IInv, TypeOK
<1>3. Head(wire[d]) = h /\ h \in Positions /\ 1 \in 1 .. Len(wire[d])
  BY <1>2
<1>4. /\ h.keys = connection /\ h.use < UpdateEvery
      /\ Number(h) = crypted[r][d] + 1 - 1
  BY <1>3 DEF IInv, Numbered
<1>5. /\ p \in Positions /\ p.keys = connection /\ p.use < UpdateEvery
      /\ Number(p) = crypted[r][d] /\ crypted[r][d] \in Nat
  BY <1>1, PositionNumber DEF IInv, UpdatesOnSchedule, TypeOK
<1> HIDE DEF h, p
<1>6. Number(h) = Number(p)
  <2>1. crypted[r][d] + 1 - 1 = crypted[r][d]
    BY <1>5
  <2> QED
    BY <2>1, <1>4, <1>5
<1>7. h = p
  BY <1>3, <1>4, <1>5, <1>6, NumberDetermines
<1> QED
  BY <1>3, <1>7 DEF p

-----------------------------------------------------------------------------
\* The inductive invariant holds throughout.
THEOREM Inductive == Spec => []IInv
<1>1. Init => IInv
  BY InitIInv
<1>2. IInv /\ [Next]_vars => IInv'
  BY NextIInv
<1> QED
  BY <1>1, <1>2, PTL DEF Spec

\* Every variable keeps its type.
THEOREM TypeCorrect == Spec => []TypeOK
<1>1. IInv => TypeOK
  BY DEF IInv
<1> QED
  BY <1>1, Inductive, PTL

\* The client's RC4 streams never fall out of step with the server's.
THEOREM StaysInStep == Spec => []InStep
BY NumberedInStep, Inductive, PTL

\* Key updates happen exactly every UpdateEvery PDUs.
THEOREM OnSchedule == Spec => []UpdatesOnSchedule
<1>1. IInv => UpdatesOnSchedule
  BY DEF IInv
<1> QED
  BY <1>1, Inductive, PTL

=============================================================================
