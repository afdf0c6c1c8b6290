----------------------------- MODULE TuiProofs -----------------------------
(***************************************************************************)
(* Proofs about Tui, for any terminal, any positions the peer sends and    *)
(* texts cut into packets of any length.                                   *)
(***************************************************************************)
EXTENDS Tui, SequenceTheorems, TLAPS

\* What the encoding gives for the texts of the peer (ClipboardProofs shows
\* both for every text of which all characters fit a unit and in which no
\* separator begins: FormatTyped and TextRoundTrip).
Encodable == \A t \in Texts : formatClipboardText(t) \in Seq(Nat) \ {<<>>}

TextsSurvive ==
    \A t \in Texts : decompressAndParseClipboard(formatClipboardText(t)) = t

-----------------------------------------------------------------------------
(* The invariant.                                                          *)

Kinds == {"read", "done", "error", "eof", "mouse", "heartbeat", "other", "chunk", "end"}

Shapes ==
    /\ size \in (Nat \ {0}) \X (Nat \ {0})
    /\ recv \in [kind : Kinds, pos : Int \X Int, raw : Seq(Nat)]
    /\ moving \in [text : Seq(Nat), left : Seq(Nat), on : BOOLEAN]

\* The units on their way to the buffer in receiveLoop's hands.
InHand == IF recv.kind = "chunk" THEN recv.raw ELSE <<>>

\* The buffer, the chunk in hand and what the peer has left are one text: the
\* one being sent, or the one whose end has been read, whose buffer is
\* complete even if the peer has begun the next one meanwhile.
TransferInOrder ==
    /\ moving.on => moving.text \in Texts
    /\ recv.kind = "chunk" => moving.on
    /\ recv.kind = "end" =>
         /\ recv.raw \in Texts /\ buffer = formatClipboardText(recv.raw)
         /\ moving.on => moving.left = formatClipboardText(moving.text)
    /\ recv.kind # "end" =>
         IF moving.on THEN (buffer \o InHand) \o moving.left = formatClipboardText(moving.text)
                      ELSE buffer = <<>>

ScreenInv == TypeOK /\ Shapes /\ TransferInOrder

-----------------------------------------------------------------------------
(* The cursor.                                                             *)

\* The larger and the smaller of two numbers.
LEMMA MaxMinOfTwo ==
    ASSUME NEW a \in Int, NEW b \in Int
    PROVE  /\ Max({a, b}) = IF a >= b THEN a ELSE b
           /\ Min({a, b}) = IF a <= b THEN a ELSE b
  <1>1. Max({a, b}) = IF a >= b THEN a ELSE b
    <2>1. \E x \in {a, b} : \A y \in {a, b} : x >= y
      OBVIOUS
    <2>2. Max({a, b}) \in {a, b} /\ \A y \in {a, b} : Max({a, b}) >= y
      BY <2>1, Zenon DEF Max
    <2> QED BY <2>2
  <1>2. Min({a, b}) = IF a <= b THEN a ELSE b
    <2>1. \E x \in {a, b} : \A y \in {a, b} : x <= y
      OBVIOUS
    <2>2. Min({a, b}) \in {a, b} /\ \A y \in {a, b} : Min({a, b}) <= y
      BY <2>1, Zenon DEF Min
    <2> QED BY <2>2
  <1> QED BY <1>1, <1>2

\* clampCursor puts any position into the frame.
LEMMA ClampedInFrame ==
    ASSUME NEW n \in Nat \ {0}, NEW x \in Int
    PROVE  Clamped(x, n) \in 0..(n - 1)
  <1>1. n - 1 \in Int /\ 0 \in Int
    OBVIOUS
  <1>2. Min({x, n - 1}) \in Int /\ Min({x, n - 1}) <= n - 1
    <2> DEFINE m == n - 1
    <2>1. m \in Int
      BY <1>1
    <2> HIDE DEF m
    <2>2. Min({x, m}) = IF x <= m THEN x ELSE m
      BY <2>1, MaxMinOfTwo
    <2>3. Min({x, m}) \in Int /\ Min({x, m}) <= m
      BY <2>1, <2>2
    <2> QED BY <2>3 DEF m
  <1>3. Max({0, Min({x, n - 1})}) = IF 0 >= Min({x, n - 1}) THEN 0 ELSE Min({x, n - 1})
    BY <1>1, <1>2, MaxMinOfTwo
  <1> QED BY <1>2, <1>3 DEF Clamped

\* The cursor is in the frame wherever it was put.
LEMMA CursorInFrame ==
    ASSUME Shapes, NEW x \in Int, NEW y \in Int
    PROVE  clampCursor(<<x, y>>) \in (0..(size[1] - 1)) \X (0..(size[2] - 1))
  <1>1. size[1] \in Nat \ {0} /\ size[2] \in Nat \ {0}
    BY DEF Shapes
  <1>2. Clamped(x, size[1]) \in 0..(size[1] - 1) /\ Clamped(y, size[2]) \in 0..(size[2] - 1)
    BY <1>1, ClampedInFrame
  <1> QED BY <1>2 DEF clampCursor

\* Scaling a position gives a number, whatever its sign.
LEMMA ScaledIsInt ==
    ASSUME NEW a \in Int, NEW b \in Nat
    PROVE  Quo(a * b, 65536) \in Int
  <1>1. a * b \in Int
    OBVIOUS
  <1>2. \A c \in Int : Quo(c, 65536) \in Int
    BY DEF Quo
  <1> QED BY <1>1, <1>2

\* A Mouse packet puts the cursor into the frame.
LEMMA GridInFrame ==
    ASSUME Shapes, NEW p \in Int \X Int
    PROVE  ToGrid(p) \in (0..(size[1] - 1)) \X (0..(size[2] - 1))
  <1>1. size[1] \in Nat /\ size[2] \in Nat /\ p[1] \in Int /\ p[2] \in Int
    BY DEF Shapes
  <1> DEFINE a == p[1] b == p[2] c == size[1] d == size[2]
  <1>2. Quo(p[1] * size[1], 65536) \in Int /\ Quo(p[2] * size[2], 65536) \in Int
    <2>1. a \in Int /\ b \in Int /\ c \in Nat /\ d \in Nat
      BY <1>1
    <2> HIDE DEF a, b, c, d
    <2>2. Quo(a * c, 65536) \in Int
      BY <2>1, ScaledIsInt
    <2>3. Quo(b * d, 65536) \in Int
      BY <2>1, ScaledIsInt
    <2> QED BY <2>2, <2>3 DEF a, b, c, d
  <1> QED BY <1>2, CursorInFrame DEF ToGrid

\* An arrow moves it by one and not out of the frame.
LEMMA ArrowStaysInFrame ==
    ASSUME TypeOK, Shapes, run \in DOMAIN Arrow
    PROVE  clampCursor(<<cursor[1] + Arrow[run][1], cursor[2] + Arrow[run][2]>>)
             \in (0..(size[1] - 1)) \X (0..(size[2] - 1))
  <1>1. cursor[1] \in Int /\ cursor[2] \in Int
    BY DEF TypeOK, Shapes
  <1>2. Arrow[run][1] \in Int /\ Arrow[run][2] \in Int
    BY DEF Arrow
  <1>3. cursor[1] + Arrow[run][1] \in Int /\ cursor[2] + Arrow[run][2] \in Int
    BY <1>1, <1>2
  <1> QED BY <1>3, CursorInFrame

-----------------------------------------------------------------------------
(* The steps.                                                              *)

\* New's screen satisfies the invariant.
LEMMA ScreenInitially == Init => ScreenInv
  <1> SUFFICES ASSUME Init PROVE ScreenInv
    OBVIOUS
  <1>1. size \in (Nat \ {0}) \X (Nat \ {0})
    <2>1. PICK t \in Terminals : size = ContentSize(t)
      BY DEF Init
    <2>2. /\ MinFrame[1] \in Nat \ {0} /\ MinFrame[2] \in Nat \ {0}
          /\ t[1] - 4 \in Int /\ t[2] - 20 \in Int
      BY TuiAssumption
    <2>3. /\ Max({MinFrame[1], t[1] - 4}) \in Nat \ {0}
          /\ Max({MinFrame[2], t[2] - 20}) \in Nat \ {0}
      BY <2>2, MaxMinOfTwo
    <2> QED BY <2>1, <2>3 DEF ContentSize
  <1>2. cursor \in (0..(size[1] - 1)) \X (0..(size[2] - 1))
    <2>1. \A n \in Nat \ {0} : n \div 2 \in 0..(n - 1)
      OBVIOUS
    <2>2. size[1] \div 2 \in 0..(size[1] - 1) /\ size[2] \div 2 \in 0..(size[2] - 1)
      BY <1>1, <2>1
    <2>3. cursor = <<size[1] \div 2, size[2] \div 2>>
      BY DEF Init
    <2> QED BY <2>2, <2>3
  <1>3. recv = Reading /\ recv.kind = "read" /\ recv \in [kind : Kinds, pos : Int \X Int, raw : Seq(Nat)]
    BY DEF Init, Reading, Packet, Kinds
  <1>4. moving = NoTransfer /\ ~moving.on /\ moving \in [text : Seq(Nat), left : Seq(Nat), on : BOOLEAN]
    BY DEF Init, NoTransfer
  <1>5. buffer = <<>> /\ buffer \in Seq(Nat)
    BY DEF Init
  <1>6. TypeOK
    BY <1>1, <1>2, <1>3, <1>5 DEF Init, TypeOK, Status
  <1> QED BY <1>1, <1>3, <1>4, <1>5, <1>6 DEF ScreenInv, Shapes, TransferInOrder

\* A step that leaves the packets, the buffer and the transfer alone.
LEMMA TransferKeeps ==
    ASSUME ScreenInv, UNCHANGED <<size, recv, buffer, moving>>
    PROVE  Shapes' /\ TransferInOrder'
  BY DEF ScreenInv, Shapes, TransferInOrder, InHand

\* What Read takes leaves bytes, and Run goes on to an arrow or reads again.
LEMMA ReadKeepsTypes ==
    ASSUME TypeOK, Read
    PROVE  typed' \in Seq(Bytes) /\ run' \in {"draw", "read"} \cup DOMAIN Arrow
  <1> DEFINE l == Len(typed)
             n == Min({3, l})
  <1>1. typed \in Seq(Bytes) /\ l \in Nat
    BY DEF TypeOK
  <1>2. n \in Nat
    <2> HIDE DEF l
    <2>1. 3 \in Int /\ l \in Int
      BY <1>1
    <2>2. Min({3, l}) = IF 3 <= l THEN 3 ELSE l
      BY <2>1, MaxMinOfTwo
    <2> QED BY <1>1, <2>2
  <1>3. typed' = SubSeq(typed, n + 1, l)
    BY DEF Read
  <1>4. typed' \in Seq(Bytes)
    <2> HIDE DEF n, l
    <2>1. \A i \in Nat : i \in (n + 1)..l => typed[i] \in Bytes
      BY <1>1, <1>2 DEF l
    <2> QED BY <1>1, <1>2, <1>3 DEF l
  <1>5. run' = KeyOf(SubSeq(typed, 1, n))
    BY DEF Read
  <1>6. \A got : KeyOf(got) \in {"read"} \cup DOMAIN Arrow
    BY DEF KeyOf
  <1> QED BY <1>4, <1>5, <1>6

\* A key adds its bytes.
LEMMA PressKeepsTypes ==
    ASSUME TypeOK, NEW k \in Keys, Press(k)
    PROVE  typed' \in Seq(Bytes)
  <1>1. k \in {"q", "x"} \cup DOMAIN Arrow
    BY TuiAssumption
  <1>2. KeyBytes(k) \in Seq(Bytes)
    <2>1. CASE k \in DOMAIN Arrow
      <3>1. "esc" \in Bytes /\ "[" \in Bytes /\ k \in Bytes
        BY <2>1 DEF Bytes
      <3> HIDE DEF Bytes
      <3> QED BY <2>1, <3>1 DEF KeyBytes
    <2>2. CASE k \notin DOMAIN Arrow
      <3>1. k \in Bytes
        BY <1>1 DEF Bytes
      <3> QED BY <2>2, <3>1 DEF KeyBytes
    <2> QED BY <2>1, <2>2
  <1>3. typed \in Seq(Bytes) /\ typed' = typed \o KeyBytes(k)
    BY DEF TypeOK, Press
  <1> QED BY <1>2, <1>3

\* A q: the process is gone, and with it the text on its way.
LEMMA ExitStep ==
    ASSUME ScreenInv, Read, Exit
    PROVE  ScreenInv' /\ recv' # Reading
  <1> USE DEF ScreenInv
  <1>1. /\ life' = "exited" /\ recv' = Done /\ buffer' = <<>> /\ beat' = "idle"
        /\ moving' = NoTransfer /\ conn' = "eof"
        /\ UNCHANGED <<size, cursor, status, net>>
    BY DEF Read, Exit, screenVars
  <1>2. /\ recv'.kind = "done" /\ recv' # Reading
        /\ recv' \in [kind : Kinds, pos : Int \X Int, raw : Seq(Nat)]
    BY <1>1 DEF Done, Reading, Packet, Kinds
  <1>3. ~moving'.on /\ moving' \in [text : Seq(Nat), left : Seq(Nat), on : BOOLEAN]
    BY <1>1 DEF NoTransfer
  <1>4. buffer' \in Seq(Nat)
    BY <1>1
  <1>5. TypeOK'
    BY <1>1, <1>2, <1>4, ReadKeepsTypes DEF TypeOK
  <1> QED BY <1>1, <1>2, <1>3, <1>5 DEF Shapes, TransferInOrder

\* Another Read, or a key that is pressed.
LEMMA InputSteps ==
    ASSUME ScreenInv, (Read /\ ~Exit) \/ \E k \in Keys : Press(k)
    PROVE  ScreenInv' /\ recv' = recv
  <1> USE DEF ScreenInv
  <1>1. UNCHANGED <<size, cursor, status, recv, buffer, beat, moving, conn, net, life>>
    BY DEF Read, Press, screenVars, peerVars
  <1>2. typed' \in Seq(Bytes) /\ run' \in {"draw", "read"} \cup DOMAIN Arrow
    <2>1. CASE Read
      BY <2>1, ReadKeepsTypes
    <2>2. CASE \E k \in Keys : Press(k)
      BY <2>2, PressKeepsTypes DEF Press, TypeOK
    <2> QED BY <2>1, <2>2
  <1>3. TypeOK'
    BY <1>1, <1>2 DEF TypeOK
  <1> QED BY <1>1, <1>3, TransferKeeps

\* handleArrowKey.
LEMMA ArrowStep ==
    ASSUME ScreenInv, handleArrowKey
    PROVE  ScreenInv' /\ recv' = recv
  <1> USE DEF ScreenInv
  <1>1. /\ run \in DOMAIN Arrow /\ run' = "read"
        /\ UNCHANGED <<size, status, typed, recv, buffer, beat, moving, conn, net, life>>
    BY DEF handleArrowKey, peerVars
  <1>2. cursor' \in (0..(size[1] - 1)) \X (0..(size[2] - 1))
    BY ArrowStaysInFrame DEF handleArrowKey
  <1>3. TypeOK'
    BY <1>1, <1>2 DEF TypeOK
  <1> QED BY <1>1, <1>3, TransferKeeps

\* The start, the first frame, the heartbeat and the connection.
LEMMA OtherSteps ==
    ASSUME ScreenInv,
           \/ Start \/ render \/ BeginBeat \/ EndBeat
           \/ PeerCloses \/ PeerStalls \/ UNCHANGED vars
    PROVE  ScreenInv' /\ recv' = recv
  <1> USE DEF ScreenInv
  <1>1. UNCHANGED <<size, cursor, status, typed, recv, buffer, moving>>
    BY DEF Start, render, BeginBeat, EndBeat, PeerCloses, PeerStalls,
           vars, screenVars, peerVars
  <1>2. /\ run' \in {"draw", "read"} \cup DOMAIN Arrow
        /\ beat' \in {"idle", "send"} /\ conn' \in {"up", "reset", "eof"}
        /\ net' \in {"flowing", "stalled"} /\ life' \in {"start", "running", "exited"}
    BY DEF TypeOK, Start, render, BeginBeat, EndBeat, PeerCloses, PeerStalls,
           vars, screenVars, peerVars
  <1>3. TypeOK'
    BY <1>1, <1>2 DEF TypeOK
  <1> QED BY <1>1, <1>3, TransferKeeps

\* receiveLoop's steps other than the two that touch the buffer.
LEMMA PlainReceiveSteps ==
    ASSUME ScreenInv,
           \/ ReceiveFails \/ ShowError \/ HandleMouse \/ HandlePlain
           \/ \E p \in MousePackets \cup PlainPackets : PeerSends(p)
    PROVE  ScreenInv' /\ recv.kind # "end"
  <1> USE DEF ScreenInv
  <1>1. UNCHANGED <<size, run, typed, buffer, beat, moving, net, life>>
    BY DEF ReceiveFails, ShowError, HandleMouse, HandlePlain, PeerSends, screenVars, peerVars
  <1>2. /\ recv' \in [kind : Kinds, pos : Int \X Int, raw : Seq(Nat)]
        /\ recv'.kind \notin {"chunk", "end"} /\ recv.kind \notin {"chunk", "end"}
    <2>1. \A k \in Kinds : /\ Packet(k) \in [kind : Kinds, pos : Int \X Int, raw : Seq(Nat)]
                           /\ Packet(k).kind = k
      BY DEF Packet
    <2>2. CASE ReceiveFails
      <3>1. recv' = Packet("eof") \/ recv' = Packet("error")
        BY <2>2 DEF ReceiveFails, Failure
      <3>2. recv.kind = "read"
        BY <2>2 DEF ReceiveFails, Reading, Packet
      <3> QED BY <2>1, <3>1, <3>2 DEF Kinds
    <2>3. CASE ShowError
      <3>1. recv' = Packet("read") \/ recv' = Packet("done")
        BY <2>3 DEF ShowError, AfterError, Reading, Done
      <3> QED BY <2>1, <2>3, <3>1 DEF ShowError, Kinds
    <2>4. CASE HandleMouse \/ HandlePlain
      <3>1. recv' = Packet("read") /\ recv.kind \in {"mouse", "other", "heartbeat"}
        BY <2>4 DEF HandleMouse, HandlePlain, Reading
      <3> QED BY <2>1, <3>1 DEF Kinds
    <2>5. CASE \E p \in MousePackets \cup PlainPackets : PeerSends(p)
      <3>1. PICK p \in MousePackets \cup PlainPackets : PeerSends(p)
        BY <2>5
      <3>2. recv = Reading /\ recv' = p
        BY <3>1 DEF PeerSends, Arrives
      <3>3. recv.kind = "read"
        BY <3>2 DEF Reading, Packet
      <3>4. CASE p \in PlainPackets
        BY <2>1, <3>2, <3>3, <3>4 DEF PlainPackets, Kinds
      <3>5. CASE p \in MousePackets
        <4>1. PICK q \in Positions : p = [Packet("mouse") EXCEPT !.pos = q]
          BY <3>5 DEF MousePackets
        <4>2. q \in Int \X Int
          BY TuiAssumption
        <4>3. p = [kind |-> "mouse", pos |-> q, raw |-> <<>>]
          BY <4>1 DEF Packet
        <4> QED BY <3>2, <3>3, <4>2, <4>3 DEF Kinds
      <3> QED BY <3>4, <3>5
    <2> QED BY <2>2, <2>3, <2>4, <2>5
  <1>3. Shapes' /\ TransferInOrder'
    BY <1>1, <1>2 DEF Shapes, TransferInOrder, InHand
  <1>4. cursor' \in (0..(size[1] - 1)) \X (0..(size[2] - 1))
    <2>1. CASE HandleMouse
      <3>1. recv.pos \in Int \X Int /\ cursor' = ToGrid(recv.pos)
        BY <2>1 DEF HandleMouse, Shapes
      <3> QED BY <3>1, GridInFrame
    <2>2. CASE ~HandleMouse
      BY <2>2 DEF ReceiveFails, ShowError, HandlePlain, PeerSends, screenVars, TypeOK
    <2> QED BY <2>1, <2>2
  <1>5. status'.kind \in {"hint", "incoming", "other", "chunk", "clipboard", "error", "closed"}
    <2>1. \A k : Status(k).kind = k
      BY DEF Status
    <2> QED BY <2>1
      DEF ReceiveFails, ShowError, HandleMouse, HandlePlain, PeerSends, screenVars, TypeOK
  <1>6. conn' \in {"up", "reset", "eof"}
    BY DEF ReceiveFails, ShowError, HandleMouse, HandlePlain, PeerSends, peerVars, TypeOK
  <1>7. TypeOK'
    BY <1>1, <1>2, <1>4, <1>5, <1>6 DEF TypeOK, Kinds
  <1> QED BY <1>2, <1>3, <1>7

\* A chunk goes from receiveLoop's hands into the buffer.
LEMMA ChunkStep ==
    ASSUME ScreenInv, HandleChunk
    PROVE  ScreenInv'
  <1> USE DEF ScreenInv
  <1>1. /\ recv.kind = "chunk" /\ buffer' = buffer \o recv.raw /\ status' = Status("chunk")
        /\ recv' = Reading
        /\ UNCHANGED <<size, cursor, run, typed, beat, moving, conn, net, life>>
    BY DEF HandleChunk, peerVars
  <1>2. recv'.kind = "read" /\ recv' \in [kind : Kinds, pos : Int \X Int, raw : Seq(Nat)]
    BY <1>1 DEF Reading, Packet, Kinds
  <1>3. buffer \in Seq(Nat) /\ recv.raw \in Seq(Nat) /\ moving.left \in Seq(Nat) /\ moving.on
    BY <1>1 DEF TypeOK, Shapes, TransferInOrder
  <1>4. buffer' \in Seq(Nat)
    BY <1>1, <1>3
  <1>5. InHand = recv.raw /\ InHand' = <<>>
    BY <1>1, <1>2 DEF InHand
  <1>6. (buffer \o recv.raw) \o moving.left = formatClipboardText(moving.text)
    BY <1>1, <1>3, <1>5 DEF TransferInOrder
  <1>7. buffer' \o <<>> = buffer'
    BY <1>4, ConcatEmptySeq
  <1>8. TransferInOrder'
    BY <1>1, <1>2, <1>3, <1>5, <1>6, <1>7 DEF TransferInOrder
  <1>9. TypeOK' /\ Shapes'
    BY <1>1, <1>2, <1>4 DEF TypeOK, Shapes, Status
  <1> QED BY <1>8, <1>9

\* ClipboardDataEnd: the buffer holds the whole text and is given up.
LEMMA EndStep ==
    ASSUME Encodable, ScreenInv, HandleEnd
    PROVE  /\ ScreenInv'
           /\ status'.kind = "clipboard"
           /\ status'.text
                = Cut(Utf8(decompressAndParseClipboard(formatClipboardText(recv.raw))))
           /\ recv.raw \in Texts
  <1> USE DEF ScreenInv
  <1>1. /\ recv.kind = "end" /\ recv' = Reading
        /\ UNCHANGED <<size, cursor, run, typed, beat, moving, conn, net, life>>
    BY DEF HandleEnd, peerVars
  <1>2. recv.raw \in Texts /\ buffer = formatClipboardText(recv.raw)
    BY <1>1 DEF TransferInOrder
  <1>3. buffer # <<>>
    BY <1>2 DEF Encodable
  <1>4. /\ status' = [kind |-> "clipboard",
                      text |-> Cut(Utf8(decompressAndParseClipboard(buffer)))]
        /\ buffer' = <<>>
    BY <1>3 DEF HandleEnd, AfterText
  <1>5. recv'.kind = "read" /\ recv' \in [kind : Kinds, pos : Int \X Int, raw : Seq(Nat)]
    BY <1>1 DEF Reading, Packet, Kinds
  <1>6. TransferInOrder'
    <2>1. CASE moving.on
      <3>1. moving.left = formatClipboardText(moving.text) /\ moving.left \in Seq(Nat)
        BY <1>1, <2>1 DEF TransferInOrder, Shapes
      <3>2. InHand' = <<>>
        BY <1>5 DEF InHand
      <3>3. (<<>> \o <<>>) \o moving.left = moving.left
        BY <3>1, ConcatEmptySeq
      <3> QED BY <1>1, <1>4, <1>5, <2>1, <3>1, <3>2, <3>3 DEF TransferInOrder
    <2>2. CASE ~moving.on
      BY <1>1, <1>4, <1>5, <2>2 DEF TransferInOrder
    <2> QED BY <2>1, <2>2
  <1>7. TypeOK' /\ Shapes'
    BY <1>1, <1>4, <1>5 DEF TypeOK, Shapes
  <1> QED BY <1>2, <1>4, <1>6, <1>7

\* Units put together in any order of joining.
LEMMA ConcatUnits ==
    ASSUME NEW a \in Seq(Nat), NEW b \in Seq(Nat), NEW c \in Seq(Nat)
    PROVE  (a \o b) \o c = a \o (b \o c)
  BY ConcatAssociative

\* A sequence cut in two.
LEMMA SplitAt ==
    ASSUME NEW s \in Seq(Nat), NEW n \in Nat, n <= Len(s)
    PROVE  /\ SubSeq(s, 1, n) \in Seq(Nat) /\ SubSeq(s, n + 1, Len(s)) \in Seq(Nat)
           /\ SubSeq(s, 1, n) \o SubSeq(s, n + 1, Len(s)) = s
  <1>1. /\ 1 \in 1..Len(s) + 1 /\ n \in 1 - 1 .. Len(s) /\ Len(s) \in n..Len(s)
    OBVIOUS
  <1>2. SubSeq(s, 1, n) \o SubSeq(s, n + 1, Len(s)) = SubSeq(s, 1, Len(s))
    BY <1>1, ConcatAdjacentSubSeq
  <1>3. SubSeq(s, 1, Len(s)) = s
    OBVIOUS
  <1>4. SubSeq(s, 1, n) \in Seq(Nat)
    OBVIOUS
  <1>5. SubSeq(s, n + 1, Len(s)) \in Seq(Nat)
    OBVIOUS
  <1> QED BY <1>2, <1>3, <1>4, <1>5

\* The peer begins a text, or sends the next part of one.
LEMMA PeerTextSteps ==
    ASSUME Encodable, ScreenInv, PeerSendsText \/ \E t \in Texts : PeerCopies(t)
    PROVE  ScreenInv' /\ (recv' = recv \/ recv.kind # "end")
  <1> USE DEF ScreenInv
  <1>1. CASE \E t \in Texts : PeerCopies(t)
    <2>1. PICK t \in Texts : PeerCopies(t)
      BY <1>1
    <2> DEFINE f == formatClipboardText(t)
    <2>2. /\ ~moving.on /\ moving' = [text |-> t, left |-> f, on |-> TRUE]
          /\ UNCHANGED <<size, cursor, status, run, typed, recv, buffer, beat, conn, net, life>>
      BY <2>1 DEF PeerCopies, screenVars
    <2>3. f \in Seq(Nat) /\ t \in Seq(Nat)
      BY TuiAssumption DEF Encodable
    <2> HIDE DEF f
    <2>4. /\ moving' \in [text : Seq(Nat), left : Seq(Nat), on : BOOLEAN]
          /\ moving'.on /\ moving'.text = t /\ moving'.left = f
      BY <2>2, <2>3
    <2>5. recv.kind # "chunk" /\ InHand' = <<>>
      BY <2>2 DEF TransferInOrder, InHand
    <2>6. recv.kind # "end" => buffer = <<>>
      BY <2>2 DEF TransferInOrder
    <2>7. (<<>> \o <<>>) \o f = f
      BY <2>3, ConcatEmptySeq
    <2>8. TransferInOrder'
      BY <2>2, <2>4, <2>5, <2>6, <2>7 DEF TransferInOrder, f
    <2>9. TypeOK' /\ Shapes'
      BY <2>2, <2>4 DEF TypeOK, Shapes
    <2> QED BY <2>2, <2>8, <2>9
  <1>2. CASE PeerSendsText
    <2> DEFINE l == moving.left
               n == Min({ChunkLen, Len(l)})
    <2>1. /\ moving.on /\ recv = Reading
          /\ UNCHANGED <<size, cursor, status, run, typed, buffer, beat, conn, net, life>>
      BY <1>2 DEF PeerSendsText, Arrives, screenVars
    <2>2. recv.kind = "read" /\ InHand = <<>>
      BY <2>1 DEF Reading, Packet, InHand
    <2>3. l \in Seq(Nat) /\ Len(l) \in Nat /\ buffer \in Seq(Nat) /\ moving.text \in Texts
      BY <2>1 DEF Shapes, TypeOK, TransferInOrder
    <2>4. buffer \o l = formatClipboardText(moving.text)
      <3>1. buffer \o <<>> = buffer
        BY <2>3, ConcatEmptySeq
      <3> QED BY <2>1, <2>2, <3>1 DEF TransferInOrder
    <2>5. n \in Nat /\ n <= Len(l) /\ (n = 0 => Len(l) = 0)
      <3>1. ChunkLen \in Nat \ {0}
        BY TuiAssumption
      <3> DEFINE m == Len(l)
      <3>2. ChunkLen \in Int /\ m \in Int
        BY <2>3, <3>1
      <3> HIDE DEF m
      <3>3. Min({ChunkLen, m}) = IF ChunkLen <= m THEN ChunkLen ELSE m
        BY <3>2, MaxMinOfTwo
      <3>4. n = IF ChunkLen <= m THEN ChunkLen ELSE m
        BY <3>3 DEF m
      <3>5. m \in Nat
        BY <2>3 DEF m
      <3> HIDE DEF n
      <3>6. n \in Nat /\ n <= m /\ (n = 0 => m = 0)
        BY <3>1, <3>4, <3>5
      <3> QED BY <3>6 DEF m
    <2>6. CASE n > 0
      <3> DEFINE c == SubSeq(l, 1, n)
                 r == SubSeq(l, n + 1, Len(l))
      <3>1. recv' = [Packet("chunk") EXCEPT !.raw = c] /\ moving' = [moving EXCEPT !.left = r]
        BY <1>2, <2>6 DEF PeerSendsText, Arrives
      <3>2. c \in Seq(Nat) /\ r \in Seq(Nat) /\ c \o r = l
        BY <2>3, <2>5, <2>6, SplitAt
      <3> HIDE DEF c, r, n, l
      <3>3. /\ recv' = [kind |-> "chunk", pos |-> <<0, 0>>, raw |-> c]
            /\ moving' \in [text : Seq(Nat), left : Seq(Nat), on : BOOLEAN]
            /\ moving'.on /\ moving'.text = moving.text /\ moving'.left = r
        BY <2>1, <3>1, <3>2 DEF Packet, Shapes
      <3>4. /\ recv' \in [kind : Kinds, pos : Int \X Int, raw : Seq(Nat)]
            /\ recv'.kind = "chunk" /\ InHand' = c
        BY <3>2, <3>3 DEF Kinds, InHand
      <3>5. (buffer \o c) \o r = buffer \o (c \o r)
        BY <2>3, <3>2, ConcatUnits
      <3>6. TransferInOrder'
        BY <2>1, <2>3, <2>4, <3>2, <3>3, <3>4, <3>5 DEF TransferInOrder
      <3>7. TypeOK' /\ Shapes'
        BY <2>1, <3>3, <3>4 DEF TypeOK, Shapes
      <3> QED BY <2>2, <3>6, <3>7
    <2>7. CASE ~(n > 0)
      <3>1. recv' = [Packet("end") EXCEPT !.raw = moving.text] /\ moving' = NoTransfer
        BY <1>2, <2>7 DEF PeerSendsText, Arrives
      <3>2. l = <<>>
        BY <2>3, <2>5, <2>7
      <3>3. buffer = formatClipboardText(moving.text)
        <4>1. buffer \o <<>> = buffer
          BY <2>3, ConcatEmptySeq
        <4> QED BY <2>4, <3>2, <4>1
      <3>4. /\ recv' = [kind |-> "end", pos |-> <<0, 0>>, raw |-> moving.text]
            /\ moving.text \in Seq(Nat)
        BY <3>1 DEF Packet, Shapes
      <3>5. /\ recv' \in [kind : Kinds, pos : Int \X Int, raw : Seq(Nat)]
            /\ recv'.kind = "end" /\ recv'.raw = moving.text
        BY <3>4 DEF Kinds
      <3>6. ~moving'.on /\ moving' \in [text : Seq(Nat), left : Seq(Nat), on : BOOLEAN]
        BY <3>1 DEF NoTransfer
      <3>7. TransferInOrder'
        BY <2>1, <2>3, <3>3, <3>5, <3>6 DEF TransferInOrder
      <3>8. TypeOK' /\ Shapes'
        BY <2>1, <3>5, <3>6 DEF TypeOK, Shapes
      <3> QED BY <2>2, <3>7, <3>8
    <2> QED BY <2>6, <2>7
  <1> QED BY <1>1, <1>2

\* Every step keeps the invariant, and only HandleEnd answers an end.
LEMMA ScreenInductive ==
    ASSUME Encodable, ScreenInv, [Next]_vars
    PROVE  ScreenInv' /\ (HandleEnd \/ recv.kind # "end" \/ recv' = recv \/ recv' # Reading)
  <1>1. CASE HandleEnd
    BY <1>1, EndStep
  <1>2. CASE HandleChunk
    BY <1>2, ChunkStep DEF HandleChunk
  <1>3. CASE Read
    <2>1. CASE Exit
      BY <1>3, <2>1, ExitStep
    <2>2. CASE ~Exit
      BY <1>3, <2>2, InputSteps
    <2> QED BY <2>1, <2>2
  <1>4. CASE \E k \in Keys : Press(k)
    BY <1>4, InputSteps
  <1>5. CASE handleArrowKey
    BY <1>5, ArrowStep
  <1>6. CASE \/ Start \/ render \/ BeginBeat \/ EndBeat
             \/ PeerCloses \/ PeerStalls \/ UNCHANGED vars
    BY <1>6, OtherSteps
  <1>7. CASE ReceiveStep
    BY <1>1, <1>2, <1>7, PlainReceiveSteps DEF ReceiveStep
  <1>8. CASE \E p \in MousePackets \cup PlainPackets : PeerSends(p)
    BY <1>8, PlainReceiveSteps
  <1>9. CASE PeerSendsText \/ \E t \in Texts : PeerCopies(t)
    BY <1>9, PeerTextSteps
  <1> QED BY <1>3, <1>4, <1>5, <1>6, <1>7, <1>8, <1>9 DEF Next, Exited

-----------------------------------------------------------------------------
(* The theorems.                                                           *)

\* The state of the debug screen is well typed, and the cursor is in the frame
\* whatever the peer and the arrow keys do, for every terminal size.
THEOREM CursorStaysInFrame ==
    ASSUME Encodable
    PROVE  Spec => []TypeOK
  <1>1. ScreenInv /\ [Next]_vars => ScreenInv'
    BY ScreenInductive
  <1>2. ScreenInv => TypeOK
    BY DEF ScreenInv
  <1> QED BY <1>1, <1>2, ScreenInitially, PTL DEF Spec

\* The text the screen shows at ClipboardDataEnd is the one the peer copied,
\* whole up to MaxShown bytes and cut there when it is longer, for chunks of any
\* length and any packets between them.
THEOREM TextIsShown ==
    ASSUME Encodable, TextsSurvive
    PROVE  Spec => ShowsTheText
  <1> DEFINE Shown(all) == IF Len(all) <= MaxShown THEN all
                           ELSE SubSeq(all, 1, MaxShown) \o Dots
             Answered == recv.kind = "end" /\ recv' = Reading =>
                           /\ status'.kind = "clipboard"
                           /\ status'.text = Shown(Utf8(recv.raw))
  <1>1. ScreenInv /\ [Next]_vars => ScreenInv'
    BY ScreenInductive
  <1>2. ASSUME ScreenInv, [Next]_vars
        PROVE  Answered
    <2>1. HandleEnd \/ recv.kind # "end" \/ recv' = recv \/ recv' # Reading
      BY <1>2, ScreenInductive
    <2>2. Reading.kind = "read"
      BY DEF Reading, Packet
    <2>3. CASE HandleEnd
      <3>1. status'.kind = "clipboard" /\ status'.text = Cut(Utf8(recv.raw))
        BY <1>2, <2>3, EndStep DEF TextsSurvive
      <3>2. \A all : Len(all) \in Nat => Cut(all) = Shown(all)
        BY TuiAssumption DEF Cut
      <3>3. Len(Utf8(recv.raw)) \in Nat
        OBVIOUS
      <3> QED BY <3>1, <3>2, <3>3
    <2> QED BY <2>1, <2>2, <2>3
  <1>3. ScreenInv /\ [Next]_vars => [Answered]_vars
    BY <1>2
  <1> QED BY <1>1, <1>3, ScreenInitially, PTL DEF Spec, ShowsTheText
=============================================================================
