----------------------------- MODULE Handshake -----------------------------
(***************************************************************************)
(* How two machines trust each other (network/client.go, network/server.go)*)
(* over one TCP connection: a random block each way primes the CBC ciphers,*)
(* then both sides send the same Handshake packet Burst times before they  *)
(* read anything, acknowledge every Handshake they read, and are done once *)
(* they hold a Handshake and an acknowledgement of their own.              *)
(***************************************************************************)
EXTENDS Naturals, Sequences, FiniteSets

CONSTANTS
    Burst,        \* how often the Handshake packet is sent (10 in the code)
    AnonymousAck, \* sides that are the Windows program: its acknowledgement has Src 0
    MaxData       \* bound: session packets each side sends

ASSUME HandshakeAssumption ==
    /\ Burst \in Nat \ {0}
    /\ MaxData \in Nat
    /\ AnonymousAck \subseteq {"dialer", "listener"}

Sides == {"dialer", "listener"}
Other(p) == IF p = "dialer" THEN "listener" ELSE "dialer"

\* Packets.  src is the sender's machine ID, or "none" for 0; re is the side
\* whose random numbers a HandshakeAck carries inverted.
Primer == [type |-> "Primer"]
HandshakePkt(p) == [type |-> "Handshake", src |-> p]

\* A faulty variant of AckPkt: the Handshake is sent back with its own Src.
EchoedAck(p, re) == [type |-> "HandshakeAck", src |-> re, re |-> re]

\* The program fills in its machine ID, Windows leaves 0.
AckPkt(p, re) ==
    [type |-> "HandshakeAck", src |-> IF p \in AnonymousAck THEN "none" ELSE p, re |-> re]
DataPkt(p) == [type |-> "Data", src |-> p]

Packets ==
    {Primer} \cup {HandshakePkt(p) : p \in Sides} \cup {DataPkt(p) : p \in Sides}
      \cup {AckPkt(p, re) : p \in Sides, re \in Sides}

VARIABLES
    sameKey,   \* both sides were configured with the same security key
    stage,     \* where each side is
    sent,      \* Handshake packets it has sent
    gotOurAck, gotTheirHandshake,
    remoteID,  \* RemoteMachineID: a side, or "none" for 0
    chan,      \* chan[p]: the packets on their way to p, in order
    data       \* session packets it has sent

vars == <<sameKey, stage, sent, gotOurAck, gotTheirHandshake, remoteID, chan, data>>

\* "up" is a connected Client in its session; "expired" (by the deadline),
\* "failed" (otherwise) and "lost" have closed the connection.
Stages == {"start", "primed", "burst", "loop", "up", "expired", "failed", "lost"}

TypeOK ==
    /\ sameKey \in BOOLEAN
    /\ stage \in [Sides -> Stages]
    /\ sent \in [Sides -> 0..Burst]
    /\ gotOurAck \in [Sides -> BOOLEAN]
    /\ gotTheirHandshake \in [Sides -> BOOLEAN]
    /\ remoteID \in [Sides -> Sides \cup {"none"}]
    /\ chan \in [Sides -> Seq(Packets)]
    /\ data \in [Sides -> 0..MaxData]

Init ==
    /\ sameKey \in BOOLEAN
    /\ stage = [p \in Sides |-> "start"]
    /\ sent = [p \in Sides |-> 0]
    /\ gotOurAck = [p \in Sides |-> FALSE]
    /\ gotTheirHandshake = [p \in Sides |-> FALSE]
    /\ remoteID = [p \in Sides |-> "none"]
    /\ chan = [p \in Sides |-> <<>>]
    /\ data = [p \in Sides |-> 0]

Closed(p) == stage[p] \in {"expired", "failed", "lost"}
Waiting(p) == chan[p] # <<>>
Enter(p, s) == stage' = [stage EXCEPT ![p] = s] /\ UNCHANGED sameKey

\* p reads the first packet on its way and sends the packets of out.
ReadAndSend(p, out) ==
    chan' = [chan EXCEPT ![p] = Tail(@), ![Other(p)] = @ \o out]
Send(p, pkt) == chan' = [chan EXCEPT ![Other(p)] = Append(@, pkt)]

-----------------------------------------------------------------------------
\* Connect sends its random block first, Accept answers one it has read.
SendRandomBlock(p) ==
    /\ \/ p = "dialer" /\ stage[p] = "start" /\ Enter(p, "primed")
       \/ p = "listener" /\ stage[p] = "primed" /\ Enter(p, "burst")
    /\ Send(p, Primer)
    /\ UNCHANGED <<sent, gotOurAck, gotTheirHandshake, remoteID, data>>

\* There is no deadline on this read.
ReceiveRandomBlock(p) ==
    /\ Waiting(p)
    /\ \/ p = "dialer" /\ stage[p] = "primed" /\ Enter(p, "burst")
       \/ p = "listener" /\ stage[p] = "start" /\ Enter(p, "primed")
    /\ ReadAndSend(p, <<>>)
    /\ UNCHANGED <<sent, gotOurAck, gotTheirHandshake, remoteID, data>>

\* handshake(): the packet is written Burst times; then the loop starts.
SendHandshake(p) ==
    /\ stage[p] = "burst"
    /\ sent' = [sent EXCEPT ![p] = @ + 1]
    /\ Enter(p, IF sent[p] + 1 = Burst THEN "loop" ELSE "burst")
    /\ Send(p, HandshakePkt(p))
    /\ UNCHANGED <<gotOurAck, gotTheirHandshake, remoteID, data>>

\* A faulty variant of CanDecode: a packet with the wrong magic is taken.
AnyKey(p) == stage[p] = "loop" /\ Waiting(p)

\* The loop can decode what it reads only under the same key.
CanDecode(p) == stage[p] = "loop" /\ Waiting(p) /\ sameKey

\* The condition that ends the loop.
Complete(p) == gotOurAck'[p] /\ gotTheirHandshake'[p]

EndOfRound(p) == Enter(p, IF Complete(p) THEN "up" ELSE "loop")

\* A faulty variant of AcksFor: the Handshake is noted, not acknowledged.
NoAck(p, pkt) == <<>>

\* Every Handshake read is acknowledged with its numbers inverted.
AcksFor(p, pkt) == <<AckPkt(p, pkt.src)>>

\* A faulty variant of ReadHandshake: the loop is left before the answer.
TrustsBeforeAck(p) ==
    /\ CanDecode(p)
    /\ Head(chan[p]).type = "Handshake"
    /\ remoteID' = [remoteID EXCEPT ![p] = Head(chan[p]).src]
    /\ gotTheirHandshake' = [gotTheirHandshake EXCEPT ![p] = TRUE]
    /\ ReadAndSend(p, <<>>)
    /\ UNCHANGED <<sent, gotOurAck, data>>
    /\ Enter(p, "up")

ReadHandshake(p) ==
    /\ CanDecode(p)
    /\ Head(chan[p]).type = "Handshake"
    /\ remoteID' = [remoteID EXCEPT ![p] = Head(chan[p]).src]
    /\ gotTheirHandshake' = [gotTheirHandshake EXCEPT ![p] = TRUE]
    /\ ReadAndSend(p, AcksFor(p, Head(chan[p])))
    /\ UNCHANGED <<sent, gotOurAck, data>>
    /\ EndOfRound(p)

\* The acknowledgement could not be written: the peer has closed.
AckFails(p) ==
    /\ CanDecode(p)
    /\ Head(chan[p]).type = "Handshake"
    /\ Closed(Other(p))
    /\ Enter(p, "failed")
    /\ remoteID' = [remoteID EXCEPT ![p] = Head(chan[p]).src]
    /\ gotTheirHandshake' = [gotTheirHandshake EXCEPT ![p] = TRUE]
    /\ ReadAndSend(p, <<>>)
    /\ UNCHANGED <<sent, gotOurAck, data>>

\* An acknowledgement counts if it carries our numbers.
ReadAck(p) ==
    /\ CanDecode(p)
    /\ Head(chan[p]).type = "HandshakeAck"
    /\ Head(chan[p]).re = p
    /\ remoteID' = [remoteID EXCEPT ![p] = Head(chan[p]).src]
    /\ gotOurAck' = [gotOurAck EXCEPT ![p] = TRUE]
    /\ ReadAndSend(p, <<>>)
    /\ UNCHANGED <<sent, gotTheirHandshake, data>>
    /\ EndOfRound(p)

\* The read fails: the packet does not decode, or the peer has closed.
ReadFails(p) ==
    /\ \/ stage[p] \in {"start", "primed"} /\ ~Waiting(p) /\ Closed(Other(p))
       \/ /\ stage[p] = "loop"
          /\ \/ Waiting(p) /\ ~sameKey
             \/ ~Waiting(p) /\ Closed(Other(p))
    /\ Enter(p, "failed")
    /\ UNCHANGED <<sent, gotOurAck, gotTheirHandshake, remoteID, chan, data>>

\* The deadline, 10 s from the last Handshake sent, passes during a read.
ReadTimesOut(p) ==
    /\ stage[p] = "loop"
    /\ Enter(p, "expired")
    /\ UNCHANGED <<sent, gotOurAck, gotTheirHandshake, remoteID, chan, data>>

\* A write fails because the peer has closed.
WriteFails(p) ==
    /\ stage[p] = "burst" \/ (p = "listener" /\ stage[p] = "primed")
    /\ Closed(Other(p))
    /\ Enter(p, "failed")
    /\ UNCHANGED <<sent, gotOurAck, gotTheirHandshake, remoteID, chan, data>>

-----------------------------------------------------------------------------
(* The session that follows: heartbeats and input one way, receiveLoop the *)
(* other.  Handshake packets still on their way are not handled there.     *)

\* A faulty variant of SendData: the session's goroutines start too early.
BeatsEarly(p) ==
    /\ stage[p] \in {"loop", "up"}
    /\ data[p] < MaxData
    /\ data' = [data EXCEPT ![p] = @ + 1]
    /\ Send(p, DataPkt(p))
    /\ UNCHANGED <<sameKey, stage, sent, gotOurAck, gotTheirHandshake, remoteID>>

SendData(p) ==
    /\ stage[p] = "up"
    /\ data[p] < MaxData
    /\ data' = [data EXCEPT ![p] = @ + 1]
    /\ Send(p, DataPkt(p))
    /\ UNCHANGED <<sameKey, stage, sent, gotOurAck, gotTheirHandshake, remoteID>>

Receive(p) ==
    /\ stage[p] = "up"
    /\ Waiting(p)
    /\ ReadAndSend(p, <<>>)
    /\ UNCHANGED <<sameKey, stage, sent, gotOurAck, gotTheirHandshake, remoteID, data>>

ReceiveEOF(p) ==
    /\ stage[p] = "up"
    /\ ~Waiting(p) /\ Closed(Other(p))
    /\ Enter(p, "lost")
    /\ UNCHANGED <<sent, gotOurAck, gotTheirHandshake, remoteID, chan, data>>

HandshakeStep(p) ==
    \/ SendRandomBlock(p)
    \/ ReceiveRandomBlock(p)
    \/ SendHandshake(p)
    \/ ReadHandshake(p)
    \/ AckFails(p)
    \/ ReadAck(p)
    \/ ReadFails(p)
    \/ WriteFails(p)

SessionStep(p) == SendData(p) \/ Receive(p) \/ ReceiveEOF(p)

\* Nothing is left to do.
Settled ==
    /\ \A p \in Sides : Closed(p) \/ (stage[p] = "up" /\ ~Waiting(p) /\ data[p] = MaxData)
    /\ UNCHANGED vars

Next == Settled \/ \E p \in Sides : HandshakeStep(p) \/ ReadTimesOut(p) \/ SessionStep(p)

Spec == Init /\ [][Next]_vars

-----------------------------------------------------------------------------
InTransit(p, pkt) == \E i \in 1..Len(chan[p]) : chan[p][i] = pkt

\* The handshake loop drops packets it does not know.  It never meets a packet
\* of the peer's session: what the loop waits for was written before it.
NoSessionPacketSwallowed ==
    \A p \in Sides : stage[p] = "loop" /\ Waiting(p) => Head(chan[p]).type # "Data"

\* A side that has finished, and will acknowledge nothing any more, has left
\* the other all it needs: a Handshake and the acknowledgement are read or on
\* their way.
FinishedSideOwesNothing ==
    \A p \in Sides : LET q == Other(p) IN
        stage[p] = "up" /\ stage[q] = "loop" =>
            /\ gotOurAck[q] \/ InTransit(q, AckPkt(p, q))
            /\ gotTheirHandshake[q] \/ InTransit(q, HandshakePkt(p))

\* A side that finished trusts a peer with its key that has really read its
\* Handshake packet.
TrustIsMutual ==
    \A p \in Sides : stage[p] = "up" => sameKey /\ gotTheirHandshake[Other(p)]

\* RemoteMachineID is overwritten by every Handshake and every acknowledgement
\* that counts, and both kinds are on their way in several copies.  Whatever
\* the interleaving, the acknowledgement has the last word: a connected side
\* has the ID of a peer that puts it there, and 0 for all of its session with
\* one that does not, although that peer's Handshakes had carried the ID.
AckNamesThePeer ==
    \A p \in Sides : stage[p] = "up" =>
        remoteID[p] = IF Other(p) \in AnonymousAck THEN "none" ELSE Other(p)
=============================================================================
