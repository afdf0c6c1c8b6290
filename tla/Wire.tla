-------------------------------- MODULE Wire --------------------------------
(***************************************************************************)
(* The sender of a session (SessionSender) over the encrypted stream       *)
(* (Client.Send, crypto/crypto.go) to the readPacket and receiveLoop of    *)
(* the other side.  The stream is a sequence of half packets of 32 bytes,  *)
(* each chained by CBC to the one encrypted before it: it decrypts only    *)
(* after that one has been read.                                           *)
(***************************************************************************)
EXTENDS SessionSender, Packets

CONSTANTS
    Content,      \* Content[s][n]: what the n-th packet of a burst of s may be
    MachineName,  \* Client.MachineName, in words
    Room          \* how many half packets the kernel's buffers hold

\* What a packet holds when it is marshalled: two words of Keyboard-, Mouse- or
\* HandshakeData, a chunk of at most 48 bytes in a clipboard packet and no Raw
\* in any other, a name that fits its 32 bytes and does not end in padding.  A
\* word that decrypts wrong is none of these.
Sendable(d) ==
    /\ HasBody(d.type) => /\ d.body = <<d.body[1], d.body[2]>>
                          /\ noise # d.body[1] /\ noise # d.body[2]
    /\ IF IsChunk(d.type) THEN d.raw \in Seq({d.raw[i] : i \in DOMAIN d.raw}) /\ Len(d.raw) <= 6
                           ELSE d.raw = <<>>
    /\ \A i \in DOMAIN d.raw : noise # d.raw[i]
    /\ d.name \in Seq({d.name[i] : i \in DOMAIN d.name}) /\ Len(d.name) <= HalfWords
    /\ d.name # <<>> => d.name[Len(d.name)] # zero /\ d.name[Len(d.name)] # space
    /\ noise # <<d.type, d.id>> /\ noise # <<d.src>> /\ noise # "DateTime" /\ noise # zero

\* Client.Send fills in the name; sessionSender.Send has filled in the number.
Filled(c, id) == [c EXCEPT !.id = id, !.name = MachineName]

ASSUME ContentAssumption ==
    \A s \in Senders : \A n \in 1..BurstLen[s] : \A c \in Content[s][n] :
        \A id \in 1..MaxID : Sendable(Filled(c, id))

ASSUME RoomAssumption == Room \in Nat /\ Room >= 2

VARIABLES
    sealed,   \* sealed[s]: the packet s has numbered and is about to write
    chain,    \* half packets encrypted so far
    stream,   \* half packets written and not read
    sent,     \* the packets written whole
    reader,   \* of the other side: "head", "tail" (half a packet read), "ended"
    first,    \* the first half, when the reader is at "tail"
    linked,   \* the number of the half packet decrypted last
    got       \* what Receive has returned

wireVars == <<sealed, chain, stream, sent, reader, first, linked, got>>
allVars == <<vars, wireVars>>

NoPacket == [halves |-> <<>>, data |-> <<>>]
Truncated == [n |-> 0, words |-> <<>>]

WireInit ==
    /\ Init
    /\ sealed = [s \in Senders |-> NoPacket]
    /\ chain = 0
    /\ stream = <<>>
    /\ sent = <<>>
    /\ reader = "head"
    /\ first = <<>>
    /\ linked = 0
    /\ got = <<>>

\* Encrypt: the halves of a packet, numbered in the order they are chained.
Halves(w) ==
    [h \in 1..(Len(w) \div HalfWords) |->
        [n |-> chain + h, words |-> SubSeq(w, (h - 1) * HalfWords + 1, h * HalfWords)]]

\* sessionSender.Send makes the packet, Client.Send adds the machine name,
\* marshals and encrypts it.
Prepare(s) ==
    /\ TakeNumber(s)
    /\ \E c \in Content[s][at[s]] :
         LET d == Filled(c, nextID')
             halves == Halves(Marshal(d))
         IN  /\ sealed' = [sealed EXCEPT ![s] = [halves |-> halves, data |-> d]]
             /\ chain' = chain + Len(halves)
    /\ UNCHANGED <<stream, sent, reader, first, linked, got>>

\* The packet fits what the peer has left free by reading.
Fits(s) == Len(stream) + Len(sealed[s].halves) <= Room

\* conn.Write has no deadline: it waits, under mu, until the packet fits.
Transmit(s) ==
    /\ Fits(s)
    /\ Write(s)
    /\ stream' = stream \o sealed[s].halves
    /\ sent' = Append(sent, sealed[s].data)
    /\ sealed' = [sealed EXCEPT ![s] = NoPacket]
    /\ UNCHANGED <<chain, reader, first, linked, got>>

\* writeAll fails.
TransmitFails(s) ==
    /\ WriteFails(s)
    /\ sealed' = [sealed EXCEPT ![s] = NoPacket]
    /\ UNCHANGED <<chain, stream, sent, reader, first, linked, got>>

\* What may still reach the reader when the connection breaks: what is on its
\* way, and all but the last half of the packet that is being written.
InFlight ==
    IF mu = nobody THEN stream
    ELSE stream \o SubSeq(sealed[mu].halves, 1, Len(sealed[mu].halves) - 1)

\* The connection breaks, perhaps in the middle of a half packet.
Breaks ==
    /\ ConnectionBreaks
    /\ \E n \in 0..Len(InFlight), cut \in {<<>>, <<Truncated>>} :
         stream' = SubSeq(InFlight, 1, n) \o cut
    /\ UNCHANGED <<sealed, chain, sent, reader, first, linked, got>>

\* Decrypt: a half that does not follow the one decrypted last starts with a
\* wrong block.
Decrypt(half) ==
    IF half.n = linked + 1 THEN half.words
    ELSE [i \in 1..HalfWords |-> IF i <= 2 THEN noise ELSE half.words[i]]

\* Receive returns a packet, or an error that receiveLoop logs and passes over.
Deliver(w) == got' = IF ChecksPass(w) THEN Append(got, Unmarshal(w)) ELSE got

\* Faulty variant of ReadTail: a second half that is not there is not an error.
TakesHalfPacket ==
    /\ reader = "tail"
    /\ reader' = "head"
    /\ first' = <<>>
    /\ IF stream # <<>> /\ Head(stream) # Truncated
         THEN Deliver(first \o Decrypt(Head(stream))) /\ linked' = Head(stream).n /\ stream' = Tail(stream)
         ELSE broken /\ Deliver(first \o [i \in 1..HalfWords |-> zero]) /\ UNCHANGED <<linked, stream>>
    /\ UNCHANGED <<vars, sealed, chain, sent>>

\* readPacket, the first half.  A type that decrypted to noise is a random
\* byte, so that the length of the packet is anyone's guess.
ReadHead ==
    /\ reader = "head"
    /\ stream # <<>> /\ Head(stream) # Truncated
    /\ stream' = Tail(stream)
    /\ linked' = Head(stream).n
    /\ LET w == Decrypt(Head(stream))
       IN  \E big \in IF w[1] = noise THEN BOOLEAN ELSE {IsBigPackage(w[1][1])} :
             /\ reader' = IF big THEN "tail" ELSE "head"
             /\ first' = IF big THEN w ELSE <<>>
             /\ IF big THEN UNCHANGED got ELSE Deliver(w)
    /\ UNCHANGED <<vars, sealed, chain, sent>>

\* readPacket, the second half.
ReadTail ==
    /\ reader = "tail"
    /\ stream # <<>> /\ Head(stream) # Truncated
    /\ stream' = Tail(stream)
    /\ linked' = Head(stream).n
    /\ Deliver(first \o Decrypt(Head(stream)))
    /\ reader' = "head"
    /\ first' = <<>>
    /\ UNCHANGED <<vars, sealed, chain, sent>>

\* The stream ends inside a half or between the two of a packet: an error
\* other than io.EOF, and receiveLoop reads on.
ReadBreaksOff ==
    /\ \/ reader # "ended" /\ stream = <<Truncated>>
       \/ reader = "tail" /\ stream = <<>> /\ broken
    /\ stream' = <<>>
    /\ reader' = "head"
    /\ first' = <<>>
    /\ UNCHANGED <<vars, sealed, chain, sent, linked, got>>

\* io.EOF: receiveLoop returns.
ReadEOF ==
    /\ reader = "head"
    /\ stream = <<>>
    /\ broken
    /\ reader' = "ended"
    /\ UNCHANGED <<vars, sealed, chain, stream, sent, first, linked, got>>

SenderStep(s) ==
    \/ Prepare(s)
    \/ Transmit(s)
    \/ TransmitFails(s)
    \/ (SendDropped(s) \/ SendChecked(s)) /\ UNCHANGED wireVars

ReaderStep == ReadHead \/ ReadTail \/ ReadBreaksOff \/ ReadEOF

WireNext ==
    \/ \E s \in Senders : SenderStep(s)
    \/ ReaderStep
    \/ Breaks
    \/ Exhausted /\ UNCHANGED wireVars

WireSpec == WireInit /\ [][WireNext]_allVars

\* Every goroutine runs, and gets mu in the end (sync.Mutex is starvation
\* free).  Nothing makes the peer read: it is another machine.
WireFairness ==
    \A s \in Senders : WF_allVars(SenderStep(s)) /\ SF_allVars(Prepare(s))

FairWireSpec == WireSpec /\ WireFairness

-----------------------------------------------------------------------------
\* What receiveLoop uses of a packet arrives as it was sent: number, source and
\* data, all 48 bytes of a clipboard chunk (the machine name that goes into the
\* second half of other packets must not overwrite it), and the name itself.
PayloadIntact ==
    \A i \in DOMAIN got \cap DOMAIN sent :
        LET d == sent[i]
            r == got[i]
        IN  /\ r.type = d.type /\ r.id = d.id /\ r.src = d.src
            /\ HasBody(d.type) => r.body = d.body
            /\ IsChunk(d.type) =>
                 /\ SubSeq(r.raw, 1, Len(d.raw)) = d.raw
                 /\ \A j \in (Len(d.raw) + 1)..Len(r.raw) : r.raw[j] = zero
            /\ IsBigPackage(d.type) /\ ~IsChunk(d.type) => r.name = d.name

\* Reader and writer agree on where packets begin and on the cipher's chain:
\* however the goroutines take turns, and wherever the connection breaks, the
\* packets received are the first ones of those sent, none invented, and once
\* the stream is read to its end none is missing.
StreamStaysAligned ==
    /\ Len(got) <= Len(sent)
    /\ \A i \in 1..Len(got) : got[i].type = sent[i].type
    /\ stream = <<>> /\ reader = "head" /\ ~broken => Len(got) = Len(sent)

\* No caller of Send waits for ever (a keyboard loop that did would lose the
\* user's keys): it gets mu in turn, however a write ends.  The one exception
\* is that the peer stops reading while the connection stands: the write that
\* has no room left keeps mu, and everybody waits.
SendReturns ==
    \/ \A s \in Senders : pc[s] # "idle" ~> (pc[s] = "idle" \/ nextID = MaxID)
    \/ <>[](~broken /\ \E s \in Senders : mu = s /\ ~Fits(s))
=============================================================================
