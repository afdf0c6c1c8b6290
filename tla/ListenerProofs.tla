--------------------------- MODULE ListenerProofs ---------------------------
(***************************************************************************)
(* Proofs about the handshake of Listener, for every length of the burst   *)
(* and every number of connections: what a side that has finished has left *)
(* on the connection for the other, and whom it may trust.                 *)
(***************************************************************************)
EXTENDS Listener, TLAPS

\* What may be on its way to q: nothing but packets of the other side.
From(q) == LET p == Other(q) IN {Primer, HandshakePkt(p), AckPkt(p, q), DataPkt(p)}

\* Among the first n packets on their way to q is the one it waits for, unless
\* q has read it.
AckComes(q, n) == gotOurAck[q] \/ \E i \in 1..n : chan[q][i] = AckPkt(Other(q), q)
HandshakeComes(q, n) ==
    gotTheirHandshake[q] \/ \E i \in 1..n : chan[q][i] = HandshakePkt(Other(q))

\* No Handshake reaches q once an acknowledgement has.
BurstFirst(q) ==
    \A i \in 1..Len(chan[q]) : chan[q][i].type = "Handshake" =>
        ~gotOurAck[q] /\ \A j \in 1..(i - 1) : chan[q][j].type # "HandshakeAck"

\* The channel to q, and what its writer p has done.
Link(q) == LET p == Other(q) IN
    /\ chan[q] \in Seq(From(q))
    \* Once p has sent a Handshake, q has or gets it.
    /\ sent[p] > 0 => HandshakeComes(q, Len(chan[q]))
    \* p acknowledges what it reads, unless the write fails.
    /\ gotTheirHandshake[p] /\ stage[p] # "failed" => AckComes(q, Len(chan[q]))
    \* Session packets come after all that q waits for.
    /\ \A i \in 1..Len(chan[q]) :
         chan[q][i].type = "Data" => AckComes(q, i - 1) /\ HandshakeComes(q, i - 1)
    \* Only a side that has read a Handshake acknowledges.
    /\ \A i \in 1..Len(chan[q]) :
         chan[q][i].type = "HandshakeAck" => gotTheirHandshake[p]
    \* No Handshake is behind an acknowledgement.
    /\ BurstFirst(q)

\* q has yet to read the random block; p has yet to write it, or never will.
Unprimed(q) == stage[q] = "start" \/ (q = "dialer" /\ stage[q] = "primed")
Mute(p) == Closed(p) \/ stage[p] = "start" \/ (p = "listener" /\ stage[p] = "primed")

\* The first packet that q reads is the random block.
PrimerFirst(q) ==
    Unprimed(q) => IF chan[q] = <<>> THEN Mute(Other(q)) ELSE chan[q][1] = Primer

\* How far p is, and what it knows by then.
Progress(p) ==
    /\ stage[p] \in {"start", "primed", "burst"} =>
         sent[p] < Burst /\ ~gotOurAck[p] /\ ~gotTheirHandshake[p]
    /\ stage[p] \in {"loop", "up"} => sent[p] > 0
    /\ stage[p] = "loop" => ~(gotOurAck[p] /\ gotTheirHandshake[p])
    /\ stage[p] = "up" => gotOurAck[p] /\ gotTheirHandshake[p]

\* What p has read is true.
Truth(p) ==
    /\ gotOurAck[p] => gotTheirHandshake[Other(p)]
    /\ gotTheirHandshake[p] => sameKey
    /\ gotOurAck[p] => remoteID[p] = AckPkt(Other(p), p).src

HandshakeInv ==
    /\ TypeOK
    /\ \A p \in Sides : Link(p) /\ PrimerFirst(p) /\ Progress(p) /\ Truth(p)

-----------------------------------------------------------------------------
\* There are two sides, each the other's other.
LEMMA TwoSides ==
    ASSUME NEW p \in Sides
    PROVE  Other(p) \in Sides /\ Other(p) # p /\ Other(Other(p)) = p /\ Sides = {p, Other(p)}
  BY DEF Sides, Other

\* The packets tell their kinds apart.
LEMMA Kinds ==
    ASSUME NEW p \in Sides, NEW q \in Sides
    PROVE  /\ Primer.type = "Primer"
           /\ HandshakePkt(p).type = "Handshake" /\ HandshakePkt(p).src = p
           /\ AckPkt(p, q).type = "HandshakeAck" /\ AckPkt(p, q).re = q
           /\ AckPkt(p, q).src = IF p \in AnonymousAck THEN "none" ELSE p
           /\ DataPkt(p).type = "Data"
  BY DEF Primer, HandshakePkt, AckPkt, DataPkt

\* What comes from the other side is a packet.
LEMMA FromIsPackets ==
    ASSUME NEW q \in Sides
    PROVE  From(q) \subseteq Packets
  BY TwoSides DEF From, Packets

\* q reads the first packet: its link stays in order.
LEMMA ReadKeepsLink ==
    ASSUME TypeOK, TypeOK', NEW q \in Sides, Link(q),
           chan[q] # <<>>, chan'[q] = Tail(chan[q]),
           gotOurAck'[q] \/ (~gotOurAck[q] /\ Head(chan[q]).type # "HandshakeAck"),
           gotTheirHandshake'[q] \/ (~gotTheirHandshake[q] /\ Head(chan[q]).type # "Handshake"),
           gotOurAck'[q] => gotOurAck[q] \/ Head(chan[q]).type = "HandshakeAck",
           UNCHANGED <<sent[Other(q)], gotTheirHandshake[Other(q)], stage[Other(q)]>>
    PROVE  Link(q)'
  <1> DEFINE p == Other(q)
  <1>1. p \in Sides
    BY TwoSides
  <1>0. PICK n \in Nat : n = Len(chan[q])
    BY DEF Link
  <1>2. /\ n \in Nat \ {0} /\ Len(chan'[q]) = n - 1 /\ Head(chan[q]) = chan[q][1]
        /\ chan'[q] \in Seq(From(q))
        /\ \A i \in 1..(n - 1) : chan'[q][i] = chan[q][i + 1] /\ i + 1 \in 1..n
    BY <1>0 DEF Link
  <1>3. ASSUME NEW m \in 0..(n - 1), AckComes(q, m + 1)
        PROVE  AckComes(q, m)'
    <2>1. CASE gotOurAck'[q]
      BY <2>1 DEF AckComes
    <2>2. CASE ~gotOurAck'[q]
      <3>1. PICK i \in 1..(m + 1) : chan[q][i] = AckPkt(p, q)
        BY <1>3, <2>2 DEF AckComes
      <3>2. i # 1
        BY <1>1, <1>2, <2>2, <3>1, Kinds
      <3>3. i - 1 \in 1..m /\ i - 1 \in 1..(n - 1) /\ (i - 1) + 1 = i
        BY <1>2, <3>2
      <3>4. chan'[q][i - 1] = AckPkt(p, q)
        BY <1>2, <3>1, <3>3
      <3> QED BY <3>3, <3>4 DEF AckComes, AckPkt
    <2> QED BY <2>1, <2>2
  <1>4. ASSUME NEW m \in 0..(n - 1), HandshakeComes(q, m + 1)
        PROVE  HandshakeComes(q, m)'
    <2>1. CASE gotTheirHandshake'[q]
      BY <2>1 DEF HandshakeComes
    <2>2. CASE ~gotTheirHandshake'[q]
      <3>1. PICK i \in 1..(m + 1) : chan[q][i] = HandshakePkt(p)
        BY <1>4, <2>2 DEF HandshakeComes
      <3>2. i # 1
        BY <1>1, <1>2, <2>2, <3>1, Kinds
      <3>3. i - 1 \in 1..m /\ i - 1 \in 1..(n - 1) /\ (i - 1) + 1 = i
        BY <1>2, <3>2
      <3>4. chan'[q][i - 1] = HandshakePkt(p)
        BY <1>2, <3>1, <3>3
      <3> QED BY <3>3, <3>4 DEF HandshakeComes
    <2> QED BY <2>1, <2>2
  <1>5. sent'[p] > 0 => HandshakeComes(q, n - 1)'
    BY <1>0, <1>2, <1>4 DEF Link
  <1>6. gotTheirHandshake'[p] /\ stage'[p] # "failed" => AckComes(q, n - 1)'
    BY <1>0, <1>2, <1>3 DEF Link
  <1>7. ASSUME NEW i \in 1..(n - 1), chan'[q][i].type = "Data"
        PROVE  AckComes(q, i - 1)' /\ HandshakeComes(q, i - 1)'
    <2>1. AckComes(q, i) /\ HandshakeComes(q, i)
      BY <1>0, <1>2, <1>7 DEF Link
    <2>2. i - 1 \in 0..(n - 1) /\ (i - 1) + 1 = i
      BY <1>2
    <2> QED BY <1>3, <1>4, <2>1, <2>2
  <1>8. \A i \in 1..(n - 1) : chan'[q][i].type = "HandshakeAck" => gotTheirHandshake'[p]
    BY <1>0, <1>2 DEF Link
  <1>10. BurstFirst(q)'
    <2> SUFFICES ASSUME NEW i \in 1..(n - 1), chan'[q][i].type = "Handshake"
                 PROVE  ~gotOurAck'[q] /\ \A j \in 1..(i - 1) : chan'[q][j].type # "HandshakeAck"
      BY <1>2 DEF BurstFirst
    <2>1. i + 1 \in 1..n /\ chan[q][i + 1].type = "Handshake"
      BY <1>2
    <2>2. ~gotOurAck[q] /\ \A j \in 1..i : chan[q][j].type # "HandshakeAck"
      BY <1>0, <1>2, <2>1 DEF Link, BurstFirst
    <2>3. ~gotOurAck'[q]
      BY <1>2, <2>2
    <2>4. ASSUME NEW j \in 1..(i - 1) PROVE chan'[q][j].type # "HandshakeAck"
      <3>1. j \in 1..(n - 1) /\ j + 1 \in 1..i
        BY <1>2
      <3> QED BY <1>2, <2>2, <3>1
    <2> QED BY <2>3, <2>4
  <1> HIDE DEF p
  <1>9. (Link(q))' <=>
          /\ chan'[q] \in Seq(From(q))
          /\ sent'[p] > 0 => HandshakeComes(q, Len(chan[q]))'
          /\ gotTheirHandshake'[p] /\ stage'[p] # "failed" => AckComes(q, Len(chan[q]))'
          /\ \A i \in 1..Len(chan'[q]) :
                chan'[q][i].type = "Data" => AckComes(q, i - 1)' /\ HandshakeComes(q, i - 1)'
          /\ \A i \in 1..Len(chan'[q]) :
                chan'[q][i].type = "HandshakeAck" => gotTheirHandshake'[p]
          /\ BurstFirst(q)'
    BY DEF Link, p
  <1> QED BY <1>2, <1>5, <1>6, <1>7, <1>8, <1>9, <1>10 DEF AckComes, HandshakeComes
\* The other side writes a packet to q, with what that must have gone before:
\* the link stays in order.
LEMMA WriteKeepsLink ==
    ASSUME TypeOK, TypeOK', NEW q \in Sides, Link(q),
           NEW k \in From(q), chan'[q] = Append(chan[q], k),
           UNCHANGED <<gotOurAck[q], gotTheirHandshake[q]>>,
           sent'[Other(q)] > 0 => sent[Other(q)] > 0 \/ k = HandshakePkt(Other(q)),
           gotTheirHandshake[Other(q)] => gotTheirHandshake'[Other(q)],
           gotTheirHandshake'[Other(q)] /\ stage'[Other(q)] # "failed" =>
               k = AckPkt(Other(q), q)
                 \/ (gotTheirHandshake[Other(q)] /\ stage[Other(q)] # "failed"),
           k.type = "Data" => /\ sent[Other(q)] > 0
                              /\ gotTheirHandshake[Other(q)] /\ stage[Other(q)] # "failed",
           k.type = "HandshakeAck" => gotTheirHandshake'[Other(q)],
           k.type = "Handshake" => ~gotOurAck[q] /\ ~gotTheirHandshake[Other(q)]
    PROVE  Link(q)'
  <1> DEFINE p == Other(q)
  <1>1. PICK n \in Nat : n = Len(chan[q])
    BY DEF Link
  <1>2. /\ Len(chan'[q]) = n + 1 /\ chan'[q][n + 1] = k
        /\ chan'[q] \in Seq(From(q))
        /\ \A i \in 1..n : chan'[q][i] = chan[q][i]
    BY <1>1 DEF Link
  <1>3. ASSUME NEW m \in 0..n
        PROVE  /\ AckComes(q, m) => AckComes(q, m)' /\ AckComes(q, m + 1)'
               /\ HandshakeComes(q, m) => HandshakeComes(q, m)' /\ HandshakeComes(q, m + 1)'
    BY <1>2 DEF AckComes, HandshakeComes, AckPkt
  <1>4. /\ k = AckPkt(p, q) => AckComes(q, n + 1)'
        /\ k = HandshakePkt(p) => HandshakeComes(q, n + 1)'
    BY <1>2 DEF AckComes, HandshakeComes, AckPkt
  <1>5. sent'[p] > 0 => HandshakeComes(q, n + 1)'
    BY <1>1, <1>3, <1>4 DEF Link
  <1>6. gotTheirHandshake'[p] /\ stage'[p] # "failed" => AckComes(q, n + 1)'
    BY <1>1, <1>3, <1>4 DEF Link
  <1>7. ASSUME NEW i \in 1..(n + 1), chan'[q][i].type = "Data"
        PROVE  AckComes(q, i - 1)' /\ HandshakeComes(q, i - 1)'
    <2>1. i - 1 \in 0..n
      OBVIOUS
    <2>2. AckComes(q, i - 1) /\ HandshakeComes(q, i - 1)
      BY <1>1, <1>2, <1>7 DEF Link
    <2> QED BY <1>3, <2>1, <2>2
  <1>8. \A i \in 1..(n + 1) : chan'[q][i].type = "HandshakeAck" => gotTheirHandshake'[p]
    BY <1>1, <1>2 DEF Link
  <1>10. BurstFirst(q)'
    <2> SUFFICES ASSUME NEW i \in 1..(n + 1), chan'[q][i].type = "Handshake"
                 PROVE  ~gotOurAck'[q] /\ \A j \in 1..(i - 1) : chan'[q][j].type # "HandshakeAck"
      BY <1>2 DEF BurstFirst
    <2>1. CASE i \in 1..n
      <3>1. ~gotOurAck[q] /\ \A j \in 1..(i - 1) : chan[q][j].type # "HandshakeAck"
        BY <1>1, <1>2, <2>1 DEF Link, BurstFirst
      <3>2. ASSUME NEW j \in 1..(i - 1) PROVE chan'[q][j].type # "HandshakeAck"
        <4>1. j \in 1..n
          BY <2>1
        <4> QED BY <1>2, <3>1, <4>1
      <3>3. ~gotOurAck'[q]
        BY <3>1
      <3> QED BY <3>2, <3>3
    <2>2. CASE i = n + 1
      <3>1. ~gotOurAck[q] /\ ~gotTheirHandshake[p]
        BY <1>2, <2>2
      <3>2. \A j \in 1..n : chan[q][j].type # "HandshakeAck"
        BY <1>1, <3>1 DEF Link
      <3> QED BY <1>2, <2>2, <3>1, <3>2
    <2>3. i \in 1..n \/ i = n + 1
      OBVIOUS
    <2> QED BY <2>1, <2>2, <2>3
  <1> HIDE DEF p
  <1>9. (Link(q))' <=>
          /\ chan'[q] \in Seq(From(q))
          /\ sent'[p] > 0 => HandshakeComes(q, Len(chan[q]))'
          /\ gotTheirHandshake'[p] /\ stage'[p] # "failed" => AckComes(q, Len(chan[q]))'
          /\ \A i \in 1..Len(chan'[q]) :
                chan'[q][i].type = "Data" => AckComes(q, i - 1)' /\ HandshakeComes(q, i - 1)'
          /\ \A i \in 1..Len(chan'[q]) :
                chan'[q][i].type = "HandshakeAck" => gotTheirHandshake'[p]
          /\ BurstFirst(q)'
    BY DEF Link, p
  <1> QED BY <1>2, <1>5, <1>6, <1>7, <1>8, <1>9, <1>10 DEF AckComes, HandshakeComes

\* Nothing moves on the way to q, and nothing new is owed to it.
LEMMA IdleKeepsLink ==
    ASSUME NEW q \in Sides, Link(q),
           UNCHANGED <<chan[q], gotOurAck[q], gotTheirHandshake[q], sent[Other(q)]>>,
           gotTheirHandshake[Other(q)] => gotTheirHandshake'[Other(q)],
           gotTheirHandshake'[Other(q)] /\ stage'[Other(q)] # "failed" =>
               gotTheirHandshake[Other(q)] /\ stage[Other(q)] # "failed"
    PROVE  Link(q)'
  BY DEF Link, BurstFirst, AckComes, HandshakeComes, AckPkt

-----------------------------------------------------------------------------
\* A step that leaves the channels and what either side knows alone, and takes
\* p to a stage where it is closed.
LEMMA ClosingKeeps ==
    ASSUME HandshakeInv, NEW p \in Sides, NEW s \in {"expired", "failed", "lost"},
           Enter(p, s),
           UNCHANGED <<sent, gotOurAck, gotTheirHandshake, remoteID, chan, data>>,
           stage[p] # "failed"
    PROVE  HandshakeInv'
  <1> DEFINE q == Other(p)
  <1>1. q \in Sides /\ q # p /\ Other(q) = p /\ Sides = {p, q}
    BY TwoSides
  <1>2. TypeOK'
    BY DEF HandshakeInv, TypeOK, Enter, Stages
  <1>3. stage'[p] = s /\ stage'[q] = stage[q]
    BY <1>1 DEF HandshakeInv, TypeOK, Enter
  <1>4. Link(p)' /\ Link(q)'
    BY <1>1, <1>3, IdleKeepsLink DEF HandshakeInv
  <1>5. \A r \in Sides : PrimerFirst(r)' /\ Progress(r)' /\ Truth(r)'
    BY <1>1, <1>3 DEF HandshakeInv, Enter, PrimerFirst, Unprimed, Mute, Closed, Progress, Truth
  <1> QED BY <1>1, <1>2, <1>4, <1>5 DEF HandshakeInv

\* What comes first, when a packet is added and when the first one is taken.
LEMMA Ends ==
    ASSUME NEW S, NEW s \in Seq(S), NEW k \in S
    PROVE  /\ Append(s, k) \in Seq(S)
           /\ Append(s, k) # <<>>
           /\ Append(s, k)[1] = IF s = <<>> THEN k ELSE s[1]
           /\ s # <<>> => Tail(s) \in Seq(S) /\ Head(s) = s[1]
  <1>1. Append(s, k) \in Seq(S) /\ Len(Append(s, k)) = Len(s) + 1
    OBVIOUS
  <1>2. Append(s, k) # <<>>
    BY <1>1, SMTT(30)
  <1>3. CASE s = <<>>
    BY <1>1, <1>2, <1>3
  <1>4. CASE s # <<>>
    <2>1. 1 \in 1..Len(s)
      BY <1>4
    <2> QED BY <1>1, <1>2, <1>4, <2>1
  <1> QED BY <1>3, <1>4

\* What p reads goes from its channel, and what it sends is at the end of the
\* other one's.
LEMMA ChannelSteps ==
    ASSUME TypeOK, NEW p \in Sides
    PROVE  /\ \A k : Send(p, k) => /\ chan'[Other(p)] = Append(chan[Other(p)], k)
                                   /\ chan'[p] = chan[p]
           /\ ReadAndSend(p, <<>>) => /\ chan'[p] = Tail(chan[p])
                                      /\ chan'[Other(p)] = chan[Other(p)]
           /\ \A k : ReadAndSend(p, <<k>>) => /\ chan'[p] = Tail(chan[p])
                                              /\ chan'[Other(p)] = Append(chan[Other(p)], k)
  <1> DEFINE q == Other(p)
  <1>1. q \in Sides /\ q # p
    BY TwoSides
  <1>2. chan \in [Sides -> Seq(Packets)]
    BY DEF TypeOK
  <1>3. chan[q] \in Seq(Packets)
    BY <1>1, <1>2
  <1>4. chan[q] \o <<>> = chan[q]
    BY <1>3
  <1>5. \A k : chan[q] \o <<k>> = Append(chan[q], k)
    BY <1>3
  <1> HIDE DEF q
  <1>6. ASSUME NEW k, Send(p, k)
        PROVE  chan'[q] = Append(chan[q], k) /\ chan'[p] = chan[p]
    BY <1>1, <1>2, <1>6 DEF Send, q
  <1>7. ASSUME NEW o, ReadAndSend(p, o)
        PROVE  chan'[q] = chan[q] \o o /\ chan'[p] = Tail(chan[p])
    BY <1>1, <1>2, <1>7 DEF ReadAndSend, q
  <1> QED BY <1>4, <1>5, <1>6, <1>7 DEF q

\* The channels stay well typed.
LEMMA ChannelTypes ==
    ASSUME TypeOK, NEW p \in Sides, NEW k \in Packets,
           Send(p, k) \/ (chan[p] # <<>> /\ (ReadAndSend(p, <<>>) \/ ReadAndSend(p, <<k>>)))
    PROVE  chan' \in [Sides -> Seq(Packets)]
  <1> DEFINE q == Other(p)
  <1>1. q \in Sides /\ q # p /\ Sides = {p, q}
    BY TwoSides
  <1>2. chan[q] \in Seq(Packets) /\ chan[p] \in Seq(Packets)
    BY <1>1 DEF TypeOK
  <1>3. chan'[q] \in Seq(Packets) /\ chan'[p] \in Seq(Packets)
    <2>1. Append(chan[q], k) \in Seq(Packets) /\ (chan[p] # <<>> => Tail(chan[p]) \in Seq(Packets))
      BY <1>2, Ends
    <2> QED BY <1>2, <2>1, ChannelSteps
  <1>4. chan' = [r \in Sides |-> chan'[r]]
    BY DEF TypeOK, Send, ReadAndSend
  <1> QED BY <1>1, <1>3, <1>4

\* The random blocks are the first packets each way.
LEMMA PrimersKeep ==
    ASSUME HandshakeInv, NEW p \in Sides, SendRandomBlock(p) \/ ReceiveRandomBlock(p)
    PROVE  HandshakeInv'
  <1> DEFINE q == Other(p)
  <1>1. q \in Sides /\ q # p /\ Other(q) = p /\ Sides = {p, q}
    BY TwoSides
  <1>2. /\ UNCHANGED <<sameKey, sent, gotOurAck, gotTheirHandshake, remoteID, data>>
        /\ stage'[q] = stage[q] /\ stage' \in [Sides -> Stages]
        /\ \/ p = "dialer" /\ stage[p] = "start" /\ stage'[p] = "primed"
           \/ p = "listener" /\ stage[p] = "primed" /\ stage'[p] = "burst"
           \/ p = "dialer" /\ stage[p] = "primed" /\ stage'[p] = "burst"
           \/ p = "listener" /\ stage[p] = "start" /\ stage'[p] = "primed"
    BY <1>1 DEF HandshakeInv, TypeOK, Stages, SendRandomBlock, ReceiveRandomBlock, Enter
  <1>3. Primer \in Packets /\ Primer \in From(q)
    BY DEF Packets, From
  <1>4. TypeOK'
    <2>1. chan' \in [Sides -> Seq(Packets)]
      BY <1>3, ChannelTypes DEF HandshakeInv, SendRandomBlock, ReceiveRandomBlock, Waiting
    <2> QED BY <1>2, <2>1 DEF HandshakeInv, TypeOK
  <1>5. \A r \in Sides : Progress(r)' /\ Truth(r)'
    BY <1>1, <1>2 DEF HandshakeInv, Progress, Truth
  <1>6. chan[q] \in Seq(Packets) /\ chan[p] \in Seq(Packets)
    BY <1>1 DEF HandshakeInv, TypeOK
  <1>7. CASE SendRandomBlock(p)
    <2>1. chan'[q] = Append(chan[q], Primer) /\ chan'[p] = chan[p]
      BY <1>7, ChannelSteps DEF HandshakeInv, SendRandomBlock
    <2>2. chan'[q] # <<>> /\ (chan'[q][1] = IF chan[q] = <<>> THEN Primer ELSE chan[q][1])
      BY <1>3, <1>6, <2>1, Ends
    <2>3. PrimerFirst(q)'
      BY <2>2, <1>1, <1>2 DEF HandshakeInv, PrimerFirst, Unprimed
    <2>4. PrimerFirst(p)'
      BY <1>1, <1>2, <1>7, <2>1
      DEF HandshakeInv, PrimerFirst, Unprimed, Mute, Closed, SendRandomBlock
    <2>5. Link(p)'
      BY <1>1, <1>2, <2>1, IdleKeepsLink DEF HandshakeInv
    <2>6. Link(q)'
      BY <1>1, <1>2, <1>3, <1>4, <2>1, Kinds, WriteKeepsLink DEF HandshakeInv
    <2> QED BY <1>1, <1>4, <1>5, <2>3, <2>4, <2>5, <2>6 DEF HandshakeInv
  <1>8. CASE ReceiveRandomBlock(p)
    <2>1. chan[p] # <<>> /\ chan'[p] = Tail(chan[p]) /\ chan'[q] = chan[q]
      BY <1>8, ChannelSteps DEF HandshakeInv, ReceiveRandomBlock, Waiting
    <2>2. Unprimed(p) /\ ~Unprimed(p)'
      BY <1>2, <1>8 DEF Unprimed, ReceiveRandomBlock, HandshakeInv, TypeOK, Enter
    <2>3. chan[p][1] = Primer
      BY <2>1, <2>2 DEF HandshakeInv, PrimerFirst
    <2>4. Head(chan[p]).type = "Primer"
      BY <1>6, <2>1, <2>3, Kinds
    <2>5. PrimerFirst(p)'
      BY <2>2 DEF PrimerFirst
    <2>6. PrimerFirst(q)'
      BY <1>1, <1>2, <1>8, <2>1
      DEF HandshakeInv, PrimerFirst, Unprimed, Mute, Closed, ReceiveRandomBlock
    <2>7. Link(q)'
      BY <1>1, <1>2, <2>1, IdleKeepsLink DEF HandshakeInv
    <2>8. Link(p)'
      BY <1>1, <1>2, <1>4, <2>1, <2>4, ReadKeepsLink DEF HandshakeInv
    <2> QED BY <1>1, <1>4, <1>5, <2>5, <2>6, <2>7, <2>8 DEF HandshakeInv
  <1> QED BY <1>7, <1>8

\* A packet written after the random block is not the first one to be read.
LEMMA WriteKeepsPrimer ==
    ASSUME HandshakeInv, NEW p \in Sides, NEW k \in From(Other(p)), ~Mute(p),
           chan'[Other(p)] = Append(chan[Other(p)], k), stage'[Other(p)] = stage[Other(p)]
    PROVE  PrimerFirst(Other(p))'
  <1> DEFINE q == Other(p)
  <1>1. q \in Sides /\ Other(q) = p
    BY TwoSides
  <1>2. chan[q] \in Seq(From(q))
    BY <1>1 DEF HandshakeInv, Link
  <1>3. chan'[q] # <<>> /\ (chan'[q][1] = IF chan[q] = <<>> THEN k ELSE chan[q][1])
    BY <1>2, Ends
  <1> QED BY <1>1, <1>3 DEF HandshakeInv, PrimerFirst, Unprimed

\* The first packet on its way to p comes from the other side.
LEMMA FirstPacket ==
    ASSUME HandshakeInv, NEW p \in Sides, chan[p] # <<>>
    PROVE  /\ Head(chan[p]) \in From(p)
           /\ 1 \in 1..Len(chan[p]) /\ Head(chan[p]) = chan[p][1]
           /\ Head(chan[p]).type = "Handshake" => Head(chan[p]).src = Other(p)
           /\ Head(chan[p]).type = "HandshakeAck" => Head(chan[p]) = AckPkt(Other(p), p)
  <1>1. chan[p] \in Seq(From(p))
    BY DEF HandshakeInv, Link
  <1>2. /\ Head(chan[p]) \in From(p)
        /\ 1 \in 1..Len(chan[p]) /\ Head(chan[p]) = chan[p][1]
    BY <1>1
  <1>3. Other(p) \in Sides
    BY TwoSides
  <1>4. Head(chan[p]) \in {Primer, HandshakePkt(Other(p)), AckPkt(Other(p), p), DataPkt(Other(p))}
    BY <1>2 DEF From
  <1> QED BY <1>2, <1>3, <1>4, Kinds

\* Each Handshake of the burst is on its way.
LEMMA BurstKeeps ==
    ASSUME HandshakeInv, NEW p \in Sides, SendHandshake(p)
    PROVE  HandshakeInv'
  <1> DEFINE q == Other(p)
  <1>1. q \in Sides /\ q # p /\ Other(q) = p /\ Sides = {p, q}
    BY TwoSides
  <1>2. /\ UNCHANGED <<sameKey, gotOurAck, gotTheirHandshake, remoteID, data>>
        /\ stage[p] = "burst" /\ stage'[q] = stage[q] /\ stage' \in [Sides -> Stages]
        /\ sent' = [sent EXCEPT ![p] = @ + 1]
        /\ stage'[p] = IF sent[p] + 1 = Burst THEN "loop" ELSE "burst"
    BY <1>1 DEF HandshakeInv, TypeOK, Stages, SendHandshake, Enter
  <1>3. sent[p] < Burst /\ sent[p] \in Nat /\ Burst \in Nat
    BY <1>2, HandshakeAssumption DEF HandshakeInv, Progress, TypeOK
  <1>4. sent'[p] = sent[p] + 1 /\ sent'[q] = sent[q] /\ sent' \in [Sides -> 0..Burst]
    BY <1>1, <1>2, <1>3 DEF HandshakeInv, TypeOK
  <1>5. HandshakePkt(p) \in Packets /\ HandshakePkt(p) \in From(q)
    BY <1>1 DEF Packets, From
  <1>6. TypeOK'
    <2>1. chan' \in [Sides -> Seq(Packets)]
      BY <1>5, ChannelTypes DEF HandshakeInv, SendHandshake
    <2> QED BY <1>2, <1>4, <2>1 DEF HandshakeInv, TypeOK
  <1>7. \A r \in Sides : Progress(r)' /\ Truth(r)'
    BY <1>1, <1>2, <1>3, <1>4 DEF HandshakeInv, Progress, Truth
  <1>8. chan'[q] = Append(chan[q], HandshakePkt(p)) /\ chan'[p] = chan[p]
    BY ChannelSteps DEF HandshakeInv, SendHandshake
  <1>9. PrimerFirst(p)' /\ PrimerFirst(q)'
    <2>1. ~Mute(p) /\ ~Unprimed(p)'
      BY <1>2 DEF Mute, Closed, Unprimed
    <2> QED BY <1>2, <1>5, <1>8, <2>1, WriteKeepsPrimer DEF PrimerFirst
  <1>10. Link(p)'
    BY <1>1, <1>2, <1>4, <1>8, IdleKeepsLink DEF HandshakeInv
  <1>11. Link(q)'
    <2>1. HandshakePkt(p).type = "Handshake"
      BY Kinds
    <2>2. ~gotTheirHandshake[p] /\ ~gotOurAck[q]
      BY <1>1, <1>2 DEF HandshakeInv, Progress, Truth
    <2> QED BY <1>1, <1>2, <1>4, <1>5, <1>6, <1>8, <2>1, <2>2, WriteKeepsLink DEF HandshakeInv
  <1> QED BY <1>1, <1>6, <1>7, <1>9, <1>10, <1>11 DEF HandshakeInv

\* A Handshake is read and acknowledged.
LEMMA ReadHandshakeKeeps ==
    ASSUME HandshakeInv, NEW p \in Sides, ReadHandshake(p)
    PROVE  HandshakeInv'
  <1> DEFINE q == Other(p)
  <1>1. q \in Sides /\ q # p /\ Other(q) = p /\ Sides = {p, q}
    BY TwoSides
  <1>2. /\ UNCHANGED <<sameKey, sent, gotOurAck, data>>
        /\ stage[p] = "loop" /\ sameKey /\ chan[p] # <<>> /\ Head(chan[p]).type = "Handshake"
        /\ gotTheirHandshake' = [gotTheirHandshake EXCEPT ![p] = TRUE]
        /\ remoteID' = [remoteID EXCEPT ![p] = Head(chan[p]).src]
        /\ ReadAndSend(p, <<AckPkt(p, Head(chan[p]).src)>>)
        /\ stage' = [stage EXCEPT ![p] =
                       IF gotOurAck'[p] /\ gotTheirHandshake'[p] THEN "up" ELSE "loop"]
    BY DEF ReadHandshake, CanDecode, Waiting, AcksFor, EndOfRound, Complete, Enter
  <1>3. Head(chan[p]).src = q
    BY <1>2, FirstPacket
  <1>4. AckPkt(p, q) \in Packets /\ AckPkt(p, q) \in From(q)
    BY <1>1 DEF Packets, From
  <1>5. chan'[q] = Append(chan[q], AckPkt(p, q)) /\ chan'[p] = Tail(chan[p])
    BY <1>2, <1>3, ChannelSteps DEF HandshakeInv
  <1>6. /\ gotTheirHandshake'[p] /\ gotTheirHandshake'[q] = gotTheirHandshake[q]
        /\ remoteID'[p] = q /\ remoteID'[q] = remoteID[q]
        /\ stage'[q] = stage[q]
        /\ stage'[p] = IF gotOurAck[p] THEN "up" ELSE "loop"
    BY <1>1, <1>2, <1>3 DEF HandshakeInv, TypeOK
  <1>7. TypeOK'
    <2>1. chan' \in [Sides -> Seq(Packets)]
      BY <1>2, <1>3, <1>4, ChannelTypes DEF HandshakeInv
    <2>2. stage' \in [Sides -> Stages]
      BY <1>2 DEF HandshakeInv, TypeOK, Stages
    <2> QED BY <1>1, <1>2, <1>3, <2>1, <2>2 DEF HandshakeInv, TypeOK
  <1>12. ~gotOurAck[p]
    <2>1. 1 \in 1..Len(chan[p]) /\ chan[p][1].type = "Handshake"
      BY <1>2, FirstPacket
    <2> QED BY <2>1 DEF HandshakeInv, Link, BurstFirst
  <1>8. \A r \in Sides : Progress(r)' /\ Truth(r)'
    <2>1. Truth(p)' /\ Truth(q)'
      BY <1>1, <1>2, <1>6, <1>12 DEF HandshakeInv, Truth, AckPkt
    <2> QED BY <1>1, <1>2, <1>6, <2>1 DEF HandshakeInv, Progress
  <1>9. PrimerFirst(p)' /\ PrimerFirst(q)'
    <2>1. ~Mute(p) /\ ~Unprimed(p)'
      BY <1>2, <1>6 DEF Mute, Closed, Unprimed
    <2> QED BY <1>4, <1>5, <1>6, <2>1, WriteKeepsPrimer DEF PrimerFirst
  <1>10. Link(p)'
    <2>1. gotOurAck'[p] \/ (~gotOurAck[p] /\ Head(chan[p]).type # "HandshakeAck")
      BY <1>2
    <2> QED BY <1>1, <1>2, <1>5, <1>6, <1>7, <2>1, ReadKeepsLink DEF HandshakeInv
  <1>11. Link(q)'
    <2>1. AckPkt(p, q).type # "Data" /\ AckPkt(p, q).type # "Handshake"
      BY <1>1, Kinds
    <2> QED BY <1>1, <1>2, <1>4, <1>5, <1>6, <1>7, <2>1, WriteKeepsLink DEF HandshakeInv
  <1> QED BY <1>1, <1>7, <1>8, <1>9, <1>10, <1>11 DEF HandshakeInv

\* A Handshake is read and the acknowledgement cannot be written, or one of
\* the packets is an acknowledgement.
LEMMA ReadOnlyKeeps ==
    ASSUME HandshakeInv, NEW p \in Sides, AckFails(p) \/ ReadAck(p)
    PROVE  HandshakeInv'
  <1> DEFINE q == Other(p)
  <1>1. q \in Sides /\ q # p /\ Other(q) = p /\ Sides = {p, q}
    BY TwoSides
  <1>2. /\ UNCHANGED <<sameKey, sent, data>>
        /\ stage[p] = "loop" /\ sameKey /\ chan[p] # <<>> /\ ReadAndSend(p, <<>>)
        /\ remoteID' = [remoteID EXCEPT ![p] = Head(chan[p]).src]
    BY DEF AckFails, ReadAck, CanDecode, Waiting, Enter, EndOfRound
  <1>3. chan'[q] = chan[q] /\ chan'[p] = Tail(chan[p])
    BY <1>2, ChannelSteps DEF HandshakeInv
  <1>4. chan' \in [Sides -> Seq(Packets)]
    <2>1. Primer \in Packets
      BY DEF Packets
    <2> QED BY <1>2, <2>1, ChannelTypes DEF HandshakeInv
  <1>5. CASE AckFails(p)
    <2>1. /\ UNCHANGED gotOurAck /\ Head(chan[p]).type = "Handshake"
          /\ gotTheirHandshake' = [gotTheirHandshake EXCEPT ![p] = TRUE]
          /\ stage' = [stage EXCEPT ![p] = "failed"]
      BY <1>5 DEF AckFails, Enter
    <2>2. Head(chan[p]).src = q
      BY <1>2, <2>1, FirstPacket
    <2>3. /\ gotTheirHandshake'[p] /\ gotTheirHandshake'[q] = gotTheirHandshake[q]
          /\ remoteID'[p] = q /\ remoteID'[q] = remoteID[q]
          /\ stage'[q] = stage[q] /\ stage'[p] = "failed"
      BY <1>1, <1>2, <2>1, <2>2 DEF HandshakeInv, TypeOK
    <2>4. TypeOK'
      BY <1>1, <1>2, <1>4, <2>1, <2>2 DEF HandshakeInv, TypeOK, Stages
    <2>5. \A r \in Sides : Progress(r)' /\ Truth(r)' /\ PrimerFirst(r)'
      <3>1. ~gotOurAck[p]
        <4>1. 1 \in 1..Len(chan[p]) /\ chan[p][1].type = "Handshake"
          BY <1>2, <2>1, FirstPacket
        <4> QED BY <4>1 DEF HandshakeInv, Link, BurstFirst
      <3>2. Truth(p)' /\ Truth(q)'
        BY <1>1, <1>2, <2>1, <2>3, <3>1 DEF HandshakeInv, Truth, AckPkt
      <3> QED BY <1>1, <1>2, <1>3, <2>1, <2>3, <3>2
          DEF HandshakeInv, Progress, PrimerFirst, Unprimed, Mute, Closed
    <2>6. Link(p)'
      <3>1. gotOurAck'[p] \/ (~gotOurAck[p] /\ Head(chan[p]).type # "HandshakeAck")
        BY <2>1
      <3> QED BY <1>1, <1>2, <1>3, <2>1, <2>3, <2>4, <3>1, ReadKeepsLink DEF HandshakeInv
    <2>7. Link(q)'
      BY <1>1, <1>2, <1>3, <2>1, <2>3, IdleKeepsLink DEF HandshakeInv
    <2> QED BY <1>1, <2>4, <2>5, <2>6, <2>7 DEF HandshakeInv
  <1>6. CASE ReadAck(p)
    <2>1. /\ UNCHANGED gotTheirHandshake /\ Head(chan[p]).type = "HandshakeAck"
          /\ gotOurAck' = [gotOurAck EXCEPT ![p] = TRUE]
          /\ stage' = [stage EXCEPT ![p] =
                         IF gotOurAck'[p] /\ gotTheirHandshake'[p] THEN "up" ELSE "loop"]
      BY <1>6 DEF ReadAck, EndOfRound, Complete, Enter
    <2>2. /\ Head(chan[p]) = AckPkt(q, p) /\ Head(chan[p]) = chan[p][1]
          /\ 1 \in 1..Len(chan[p])
      BY <1>2, <2>1, FirstPacket
    <2>3. /\ gotOurAck'[p] /\ gotOurAck'[q] = gotOurAck[q]
          /\ remoteID'[p] = AckPkt(q, p).src
          /\ remoteID'[q] = remoteID[q]
          /\ stage'[q] = stage[q]
          /\ stage'[p] = IF gotTheirHandshake[p] THEN "up" ELSE "loop"
      BY <1>1, <1>2, <2>1, <2>2, Kinds DEF HandshakeInv, TypeOK
    <2>4. TypeOK'
      <3>1. Head(chan[p]).src \in Sides \cup {"none"}
        BY <1>1, <2>2 DEF AckPkt
      <3> QED BY <1>1, <1>2, <1>4, <2>1, <3>1 DEF HandshakeInv, TypeOK, Stages
    <2>5. gotTheirHandshake[q]
      BY <2>1, <2>2 DEF HandshakeInv, Link
    <2>6. \A r \in Sides : Progress(r)' /\ Truth(r)' /\ PrimerFirst(r)'
      BY <1>1, <1>2, <1>3, <2>1, <2>3, <2>5
      DEF HandshakeInv, Progress, Truth, PrimerFirst, Unprimed, Mute, Closed
    <2>7. Link(p)'
      <3>1. gotTheirHandshake'[p] \/ (~gotTheirHandshake[p] /\ Head(chan[p]).type # "Handshake")
        BY <2>1
      <3> QED BY <1>1, <1>2, <1>3, <2>1, <2>3, <2>4, <3>1, ReadKeepsLink DEF HandshakeInv
    <2>8. Link(q)'
      BY <1>1, <1>2, <1>3, <2>1, <2>3, IdleKeepsLink DEF HandshakeInv
    <2> QED BY <1>1, <2>4, <2>6, <2>7, <2>8 DEF HandshakeInv
  <1> QED BY <1>5, <1>6

\* The packets of the session follow those of the handshake.
LEMMA SessionKeeps ==
    ASSUME HandshakeInv, NEW p \in Sides, SendData(p) \/ Receive(p)
    PROVE  HandshakeInv'
  <1> DEFINE q == Other(p)
  <1>1. q \in Sides /\ q # p /\ Other(q) = p /\ Sides = {p, q}
    BY TwoSides
  <1>2. /\ UNCHANGED <<sameKey, stage, sent, gotOurAck, gotTheirHandshake, remoteID>>
        /\ stage[p] = "up" /\ gotOurAck[p] /\ gotTheirHandshake[p] /\ sent[p] > 0
        /\ data' \in [Sides -> 0..MaxData]
    <2>1. data' \in [Sides -> 0..MaxData]
      <3>1. CASE SendData(p)
        <4>1. data' = [data EXCEPT ![p] = @ + 1] /\ data[p] < MaxData /\ data[p] \in 0..MaxData
          BY <3>1 DEF SendData, HandshakeInv, TypeOK
        <4>2. data[p] + 1 \in 0..MaxData
          BY <4>1, HandshakeAssumption
        <4> QED BY <4>1, <4>2 DEF HandshakeInv, TypeOK
      <3>2. CASE Receive(p)
        BY <3>2 DEF Receive, HandshakeInv, TypeOK
      <3> QED BY <3>1, <3>2
    <2>2. /\ UNCHANGED <<sameKey, stage, sent, gotOurAck, gotTheirHandshake, remoteID>>
          /\ stage[p] = "up"
      BY DEF SendData, Receive
    <2> QED BY <2>1, <2>2 DEF HandshakeInv, Progress
  <1>3. \A r \in Sides : Progress(r)' /\ Truth(r)'
    BY <1>2 DEF HandshakeInv, Progress, Truth
  <1>4. ~Mute(p) /\ ~Unprimed(p)'
    BY <1>2 DEF Mute, Closed, Unprimed
  <1>5. CASE SendData(p)
    <2>1. DataPkt(p) \in Packets /\ DataPkt(p) \in From(q) /\ DataPkt(p).type = "Data"
      BY <1>1, Kinds DEF Packets, From
    <2>2. chan'[q] = Append(chan[q], DataPkt(p)) /\ chan'[p] = chan[p]
      BY <1>5, ChannelSteps DEF HandshakeInv, SendData
    <2>3. TypeOK'
      <3>1. chan' \in [Sides -> Seq(Packets)]
        BY <1>5, <2>1, ChannelTypes DEF HandshakeInv, SendData
      <3> QED BY <1>2, <3>1 DEF HandshakeInv, TypeOK
    <2>4. PrimerFirst(p)' /\ PrimerFirst(q)'
      BY <1>2, <1>4, <2>1, <2>2, WriteKeepsPrimer DEF PrimerFirst
    <2>5. Link(p)'
      BY <1>1, <1>2, <2>2, IdleKeepsLink DEF HandshakeInv
    <2>6. Link(q)'
      BY <1>1, <1>2, <2>1, <2>2, <2>3, WriteKeepsLink DEF HandshakeInv
    <2> QED BY <1>1, <1>3, <2>3, <2>4, <2>5, <2>6 DEF HandshakeInv
  <1>6. CASE Receive(p)
    <2>1. chan[p] # <<>> /\ chan'[p] = Tail(chan[p]) /\ chan'[q] = chan[q]
      BY <1>6, ChannelSteps DEF HandshakeInv, Receive, Waiting
    <2>2. TypeOK'
      <3>1. Primer \in Packets
        BY DEF Packets
      <3>2. chan' \in [Sides -> Seq(Packets)]
        BY <1>6, <2>1, <3>1, ChannelTypes DEF HandshakeInv, Receive
      <3> QED BY <1>2, <3>2 DEF HandshakeInv, TypeOK
    <2>3. PrimerFirst(p)' /\ PrimerFirst(q)'
      BY <1>1, <1>2, <1>4, <2>1 DEF HandshakeInv, PrimerFirst, Unprimed, Mute, Closed
    <2>4. Link(p)'
      BY <1>1, <1>2, <2>1, <2>2, ReadKeepsLink DEF HandshakeInv
    <2>5. Link(q)'
      BY <1>1, <1>2, <2>1, IdleKeepsLink DEF HandshakeInv
    <2> QED BY <1>1, <1>3, <2>2, <2>3, <2>4, <2>5 DEF HandshakeInv
  <1> QED BY <1>5, <1>6

\* A connection begins with nothing said.
LEMMA NewConnectionSound == Init => HandshakeInv
  <1> SUFFICES ASSUME Init PROVE HandshakeInv
    OBVIOUS
  <1> USE DEF Init
  <1>1. \A q \in Sides : chan[q] = <<>> /\ Len(chan[q]) = 0 /\ chan[q] \in Seq(From(q))
    OBVIOUS
  <1>2. TypeOK
    BY HandshakeAssumption DEF TypeOK, Stages
  <1>3. ASSUME NEW p \in Sides
        PROVE  Link(p) /\ PrimerFirst(p) /\ Progress(p) /\ Truth(p)
    <2>1. Other(p) \in Sides
      BY TwoSides
    <2>2. Link(p)
      BY <1>1, <2>1 DEF Link, BurstFirst
    <2> QED BY <1>1, <2>1, <2>2, HandshakeAssumption
        DEF PrimerFirst, Unprimed, Mute, Progress, Truth
  <1> QED BY <1>2, <1>3 DEF HandshakeInv

\* One step of one side keeps the invariant.
LEMMA SideKeeps ==
    ASSUME HandshakeInv, NEW p \in Sides,
           HandshakeStep(p) \/ ReadTimesOut(p) \/ SessionStep(p)
    PROVE  HandshakeInv'
  <1>1. CASE ReadFails(p) \/ WriteFails(p)
    BY <1>1, ClosingKeeps DEF ReadFails, WriteFails
  <1>2. CASE ReadTimesOut(p)
    BY <1>2, ClosingKeeps DEF ReadTimesOut
  <1>3. CASE ReceiveEOF(p)
    BY <1>3, ClosingKeeps DEF ReceiveEOF
  <1> QED BY <1>1, <1>2, <1>3, PrimersKeep, BurstKeeps, ReadHandshakeKeeps, ReadOnlyKeeps,
             SessionKeeps DEF HandshakeStep, SessionStep

\* HandshakeInv is an invariant of every step the two programs, the accept
\* loop and the strangers may take.
LEMMA HandshakeInductive == HandshakeInv /\ [ListenerNext]_linkVars => HandshakeInv'
  <1> SUFFICES ASSUME HandshakeInv, [ListenerNext]_linkVars PROVE HandshakeInv'
    OBVIOUS
  <1>1. ASSUME NEW p \in Sides, HandshakeStep(p) \/ ReadTimesOut(p) \/ SessionStep(p)
        PROVE  HandshakeInv'
    BY <1>1, SideKeeps
  <1>2. CASE UNCHANGED vars
    <2>1. UNCHANGED <<sameKey, stage, sent, gotOurAck, gotTheirHandshake, remoteID, chan, data>>
      BY <1>2 DEF vars
    <2>2. TypeOK'
      BY <2>1 DEF HandshakeInv, TypeOK
    <2>3. ASSUME NEW p \in Sides
          PROVE  Link(p)' /\ PrimerFirst(p)' /\ Progress(p)' /\ Truth(p)'
      BY <2>1, IdleKeepsLink
      DEF HandshakeInv, PrimerFirst, Unprimed, Mute, Closed, Progress, Truth
    <2> QED BY <2>2, <2>3 DEF HandshakeInv
  <1>3. CASE NewConnection
    <2>1. Init'
      BY <1>3 DEF NewConnection, HandshakeInv, TypeOK, Init
    <2>2. Init' => HandshakeInv'
      BY NewConnectionSound, PTL
    <2> QED BY <2>1, <2>2
  <1>4. CASE DialerLeaves
    <2>1. "dialer" \in Sides
      BY DEF Sides
    <2> QED BY <1>4, <2>1, ClosingKeeps DEF DialerLeaves
  <1>5. "dialer" \in Sides /\ "listener" \in Sides
    BY DEF Sides
  <1>6. NewServer \/ Dial \/ AcceptFails => UNCHANGED vars
    BY DEF NewServer, Dial, AcceptFails
  <1>7. ASSUME NEW s \in Strangers, StrangerDials(s) \/ TurnAway(s)
        PROVE  UNCHANGED vars
    BY <1>7 DEF StrangerDials, TurnAway
  <1>8. Accept => NewConnection \/ UNCHANGED vars
    BY DEF Accept
  <1>9. ASSUME NEW p \in Sides, InSession(p)
        PROVE  SessionStep(p)
    BY <1>9 DEF InSession, SessionStep
  <1>10. UNCHANGED linkVars => UNCHANGED vars
    BY DEF linkVars
  <1> QED BY <1>1, <1>2, <1>3, <1>4, <1>5, <1>6, <1>7, <1>8, <1>9, <1>10
      DEF ListenerNext, ListenerHandshake, ListenerTimesOut, DialerHandshake, DialerTimesOut

\* HandshakeInv holds of every connection.
LEMMA HandshakeSound == ListenerSpec => []HandshakeInv
  <1>1. ListenerInit => HandshakeInv
    BY NewConnectionSound DEF ListenerInit
  <1> QED BY <1>1, HandshakeInductive, PTL DEF ListenerSpec

-----------------------------------------------------------------------------
\* The handshake loop of client.go, which drops what it does not know, never
\* meets a packet of the peer's session.
THEOREM NothingSwallowed == ListenerSpec => []NoSessionPacketSwallowed
  <1>1. ASSUME HandshakeInv, NEW p \in Sides, stage[p] = "loop", chan[p] # <<>>
        PROVE  Head(chan[p]).type # "Data"
    <2>1. 1 \in 1..Len(chan[p]) /\ Head(chan[p]) = chan[p][1]
      BY <1>1, FirstPacket
    <2>2. ~AckComes(p, 0) \/ ~HandshakeComes(p, 0)
      BY <1>1 DEF HandshakeInv, Progress, AckComes, HandshakeComes
    <2> QED BY <1>1, <2>1, <2>2 DEF HandshakeInv, Link
  <1>2. HandshakeInv => NoSessionPacketSwallowed
    BY <1>1 DEF NoSessionPacketSwallowed, Waiting
  <1> QED BY <1>2, HandshakeSound, PTL

\* A side that leaves the handshake loop has left the other its Handshake and
\* the acknowledgement, read or on their way.
THEOREM OwesNothing == ListenerSpec => []FinishedSideOwesNothing
  <1>1. ASSUME HandshakeInv, NEW p \in Sides, stage[p] = "up"
        PROVE  /\ gotOurAck[Other(p)] \/ InTransit(Other(p), AckPkt(p, Other(p)))
               /\ gotTheirHandshake[Other(p)] \/ InTransit(Other(p), HandshakePkt(p))
    <2>1. Other(p) \in Sides /\ Other(Other(p)) = p
      BY TwoSides
    <2>2. sent[p] > 0 /\ gotTheirHandshake[p] /\ stage[p] # "failed"
      BY <1>1 DEF HandshakeInv, Progress
    <2> QED BY <1>1, <2>1, <2>2 DEF HandshakeInv, Link, AckComes, HandshakeComes, InTransit
  <1>2. HandshakeInv => FinishedSideOwesNothing
    BY <1>1 DEF FinishedSideOwesNothing
  <1> QED BY <1>2, HandshakeSound, PTL

\* A side that has finished shares its key with a peer that has read its
\* Handshake.
THEOREM MutualTrust == ListenerSpec => []TrustIsMutual
  <1>1. HandshakeInv => TrustIsMutual
    BY DEF HandshakeInv, Progress, Truth, TrustIsMutual
  <1> QED BY <1>1, HandshakeSound, PTL

\* Whichever sides leave Src 0 in their acknowledgements, the ID that a
\* connected side has stored is the one its peer's acknowledgement carries.
THEOREM AckHasLastWord == ListenerSpec => []AckNamesThePeer
  <1>1. ASSUME HandshakeInv, NEW p \in Sides, stage[p] = "up"
        PROVE  remoteID[p] = IF Other(p) \in AnonymousAck THEN "none" ELSE Other(p)
    <2>1. remoteID[p] = AckPkt(Other(p), p).src
      BY <1>1 DEF HandshakeInv, Progress, Truth
    <2> QED BY <2>1, TwoSides, Kinds
  <1>2. HandshakeInv => AckNamesThePeer
    BY <1>1 DEF AckNamesThePeer
  <1> QED BY <1>2, HandshakeSound, PTL
=============================================================================
