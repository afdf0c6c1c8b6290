-------------------------------- MODULE Tui --------------------------------
(***************************************************************************)
(* The debug screen of --mode tui (tui/tui.go): one session without a      *)
(* reconnection.  Run reads the keyboard, receiveLoop the connection, and  *)
(* heartbeatLoop sends; they share the Screen under mu, which the          *)
(* heartbeat holds while it sends.                                         *)
(*                                                                         *)
(* IsRemote starts FALSE and no statement sets it, so what Run and         *)
(* handleArrowKey do when it is TRUE (space, x, c, remote arrows) is dead  *)
(* code and is left out: those keys do nothing, as F1 and F2 do.           *)
(***************************************************************************)
EXTENDS Integers, Sequences, FiniteSetsExt, ClipboardCodec

CONSTANTS
    MinFrame,   \* the least Width and Height (18 and 8 in the code)
    Terminals,  \* <<width, height>> that term.GetSize may return
    Positions,  \* <<X, Y>> of the Mouse packets, int32 as the peer sent them
    Texts,      \* the clipboard texts of the peer, as code points
    ChunkLen,   \* units of a clipboard text in one ClipboardText packet
    MaxShown,   \* bytes of a text that the status line shows (40 in the code)
    Keys,       \* the keys the user presses
    MaxTyped    \* bound: bytes that wait in the terminal

\* The arrow keys and where they move the cursor.
Arrow == [up |-> <<0, -1>>, down |-> <<0, 1>>, right |-> <<1, 0>>, left |-> <<-1, 0>>]

ASSUME TuiAssumption ==
    /\ MinFrame \in (Nat \ {0}) \X (Nat \ {0})
    /\ Terminals \subseteq Nat \X Nat
    /\ Positions \subseteq Int \X Int
    /\ Texts \subseteq Seq(Nat)
    /\ ChunkLen \in Nat \ {0}
    /\ MaxShown \in Nat
    /\ Keys \subseteq {"q", "x"} \cup DOMAIN Arrow
    /\ MaxTyped \in Nat

\* What the terminal makes of a key.  q stands for q, Q and Ctrl+C and x for any
\* byte that has no meaning here; an arrow is ESC [ and a letter, written at once.
KeyBytes(k) == IF k \in DOMAIN Arrow THEN <<"esc", "[", k>> ELSE <<k>>

Bytes == {"q", "x", "esc", "["} \cup DOMAIN Arrow

VARIABLES
    size,    \* Width and Height
    cursor,  \* CursorX and CursorY
    status,  \* Status: what the line is about, and the clipboard text it shows
    run,     \* Run: "draw" (the first frame), "read", or the arrow that
             \* handleArrowKey is about to move by
    typed,   \* the bytes that wait in the terminal
    recv,    \* receiveLoop: "read" and "done", or what it is about to handle
    buffer,  \* clipboardBuffer; receivingClipboard is TRUE iff it is not empty
    beat,    \* heartbeatLoop: "idle" or, holding mu, "send"
    moving,  \* the clipboard text the peer is sending and what is left of it
    conn,    \* "up", "reset" (one failed read, then eof) or "eof"
    net,     \* writes are "flowing" or "stalled"
    life     \* of the process: "start", "running", "exited"

screenVars == <<size, cursor, status>>
peerVars == <<moving, conn, net>>
vars == <<screenVars, run, typed, recv, buffer, beat, peerVars, life>>

Status(kind) == [kind |-> kind, text |-> <<>>]
Packet(kind) == [kind |-> kind, pos |-> <<0, 0>>, raw |-> <<>>]
MousePackets == {[Packet("mouse") EXCEPT !.pos = p] : p \in Positions}
PlainPackets == {Packet("heartbeat"), Packet("other")}
NoTransfer == [text |-> <<>>, left |-> <<>>, on |-> FALSE]

\* The three states of receiveLoop that are not a packet in hand.
Reading == Packet("read")
Done == Packet("done")
Failure(kind) == Packet(kind)

\* The types; and the cursor is always in the frame renderLocked draws,
\* whatever position the peer sends (negative, past the edge) and wherever the
\* arrows took it before.
TypeOK ==
    /\ size \in Nat \X Nat
    /\ cursor \in (0..(size[1] - 1)) \X (0..(size[2] - 1))
    /\ status.kind \in {"hint", "incoming", "other", "chunk", "clipboard",
                        "error", "closed"}
    /\ run \in {"draw", "read"} \cup DOMAIN Arrow
    /\ typed \in Seq(Bytes)
    /\ recv.kind \in {"read", "done", "error", "eof", "mouse", "heartbeat",
                      "other", "chunk", "end"}
    /\ buffer \in Seq(Nat)
    /\ beat \in {"idle", "send"}
    /\ conn \in {"up", "reset", "eof"}
    /\ net \in {"flowing", "stalled"}
    /\ life \in {"start", "running", "exited"}

\* New: the content area is what the terminal leaves, at least MinFrame.
ContentSize(t) == <<Max({MinFrame[1], t[1] - 4}), Max({MinFrame[2], t[2] - 20})>>

Init ==
    /\ \E t \in Terminals : size = ContentSize(t)
    /\ cursor = <<size[1] \div 2, size[2] \div 2>>
    /\ status = Status("hint")
    /\ run = "draw"
    /\ typed = <<>>
    /\ recv = Reading
    /\ buffer = <<>>
    /\ beat = "idle"
    /\ moving = NoTransfer
    /\ conn = "up"
    /\ net = "flowing"
    /\ life = "start"

Running == life = "running"

\* mu.Lock() returns.
Lock == Running /\ beat # "send"

-----------------------------------------------------------------------------
\* Run puts the terminal in raw mode, or the program ends when it cannot, and
\* starts the goroutines.
Start ==
    /\ life = "start"
    /\ life' \in {"running", "exited"}
    /\ UNCHANGED <<screenVars, run, typed, recv, buffer, beat, peerVars>>

\* Run draws the first frame, under mu.
render ==
    /\ Lock
    /\ run = "draw"
    /\ run' = "read"
    /\ UNCHANGED <<screenVars, typed, recv, buffer, beat, peerVars, life>>

\* Where Run goes after a Read that returned got: handleArrowKey, or back.
KeyOf(got) == IF Len(got) = 3 /\ SubSeq(got, 1, 2) = <<"esc", "[">> /\ got[3] \in DOMAIN Arrow
                THEN got[3] ELSE "read"

\* The process ends with its goroutines, and the connection is closed.
Exit ==
    /\ life' = "exited"
    /\ recv' = Done
    /\ buffer' = <<>>
    /\ beat' = "idle"
    /\ moving' = NoTransfer
    /\ conn' = "eof"

\* Read returns what waits, at most three bytes, and Run looks at the first: at
\* a q it returns.  What stands behind a byte without a meaning in the same Read
\* is dropped, a q too.
Read ==
    /\ Running
    /\ run = "read"
    /\ typed # <<>>
    /\ LET n == Min({3, Len(typed)})
           got == SubSeq(typed, 1, n)
       IN  /\ typed' = SubSeq(typed, n + 1, Len(typed))
           /\ run' = KeyOf(got)
           /\ IF got[1] = "q" THEN Exit ELSE UNCHANGED <<recv, buffer, beat, moving, conn, life>>
    /\ UNCHANGED <<screenVars, net>>

\* Faulty variant of Clamped: the last column is left out of account.
ClampsLate(x, n) == Max({0, Min({x, n})})

Clamped(x, n) == Max({0, Min({x, n - 1})})

clampCursor(c) == <<Clamped(c[1], size[1]), Clamped(c[2], size[2])>>

handleArrowKey ==
    /\ Lock
    /\ run \in DOMAIN Arrow
    /\ cursor' = clampCursor(<<cursor[1] + Arrow[run][1], cursor[2] + Arrow[run][2]>>)
    /\ run' = "read"
    /\ UNCHANGED <<size, status, typed, recv, buffer, beat, peerVars, life>>

-----------------------------------------------------------------------------
\* receiveLoop: Receive fails with EOF, or with another error that EOF follows.
ReceiveFails ==
    /\ Running
    /\ recv = Reading
    /\ conn # "up"
    /\ recv' = Failure(IF conn = "eof" THEN "eof" ELSE "error")
    /\ conn' = "eof"
    /\ UNCHANGED <<screenVars, run, typed, buffer, beat, moving, net, life>>

\* Faulty variant of AfterError: the loop ends at any error.
AnyErrorEnds(kind) == Done

\* The loop returns at EOF; after another error it sleeps and reads on.
AfterError(kind) == IF kind = "eof" THEN Done ELSE Reading

ShowError ==
    /\ Lock
    /\ recv.kind \in {"eof", "error"}
    /\ status' = Status(IF recv.kind = "eof" THEN "closed" ELSE "error")
    /\ recv' = AfterError(recv.kind)
    /\ UNCHANGED <<size, cursor, run, typed, buffer, beat, peerVars, life>>

\* Integer division of Go, which rounds towards zero.
Quo(a, n) == IF a >= 0 THEN a \div n ELSE -((-a) \div n)

\* A position in 0..65535 scaled to the grid.
ToGrid(p) == clampCursor(<<Quo(p[1] * size[1], 65536), Quo(p[2] * size[2], 65536)>>)

HandleMouse ==
    /\ Lock
    /\ recv.kind = "mouse"
    /\ cursor' = ToGrid(recv.pos)
    /\ status' = Status("incoming")
    /\ recv' = Reading
    /\ UNCHANGED <<size, run, typed, buffer, beat, peerVars, life>>

\* Key events and unknown types are described, heartbeats are silent.
HandlePlain ==
    /\ Lock
    /\ recv.kind \in {"other", "heartbeat"}
    /\ status' = IF recv.kind = "heartbeat" THEN status ELSE Status(recv.kind)
    /\ recv' = Reading
    /\ UNCHANGED <<size, cursor, run, typed, buffer, beat, peerVars, life>>

HandleChunk ==
    /\ Lock
    /\ recv.kind = "chunk"
    /\ buffer' = buffer \o recv.raw
    /\ status' = Status("chunk")
    /\ recv' = Reading
    /\ UNCHANGED <<size, cursor, run, typed, beat, peerVars, life>>

\* Faulty variant of AfterText: the buffer is kept.
KeepsBuffer == buffer

\* clipboardBuffer = nil
AfterText == <<>>

\* The bytes of a text, each as its character and its place in it.
Utf8(t) ==
    FlattenSeq([i \in 1..Len(t) |-> [k \in 1..RuneLen(t[i]) |-> <<t[i], k>>]])

Dots == Utf8(<<46, 46, 46>>)

\* A text of more than MaxShown bytes is cut, inside a character if it falls so.
Cut(bytes) == IF Len(bytes) > MaxShown THEN SubSeq(bytes, 1, MaxShown) \o Dots ELSE bytes

HandleEnd ==
    /\ Lock
    /\ recv.kind = "end"
    /\ recv' = Reading
    /\ IF buffer = <<>>
         THEN UNCHANGED <<buffer, status>>
         ELSE /\ \E text \in {decompressAndParseClipboard(buffer)} :
                    status' = [kind |-> "clipboard", text |-> Cut(Utf8(text))]
              /\ buffer' = AfterText
    /\ UNCHANGED <<size, cursor, run, typed, beat, peerVars, life>>

ReceiveStep ==
    \/ ReceiveFails \/ ShowError
    \/ HandleMouse \/ HandlePlain \/ HandleChunk \/ HandleEnd

-----------------------------------------------------------------------------
\* heartbeatLoop: every two seconds a packet is numbered and sent under mu; a
\* tick that finds mu taken waits as "idle" does.
BeginBeat ==
    /\ Lock
    /\ beat' = "send"
    /\ UNCHANGED <<screenVars, run, typed, recv, buffer, peerVars, life>>

\* Send waits for a peer that does not read; it fails at once when the
\* connection is gone, and the error is dropped.
SendReturns == conn # "up" \/ net = "flowing"

\* Faulty variant of EndBeat: at an error it goes on without mu.Unlock.
ReturnsLocked ==
    /\ Running
    /\ beat = "send"
    /\ SendReturns
    /\ beat' = IF conn = "up" THEN "idle" ELSE "send"
    /\ UNCHANGED <<screenVars, run, typed, recv, buffer, peerVars, life>>

EndBeat ==
    /\ Running
    /\ beat = "send"
    /\ SendReturns
    /\ beat' = "idle"
    /\ UNCHANGED <<screenVars, run, typed, recv, buffer, peerVars, life>>

-----------------------------------------------------------------------------
\* The user and the peer.
Press(k) ==
    /\ Running
    /\ Len(typed) + Len(KeyBytes(k)) <= MaxTyped
    /\ typed' = typed \o KeyBytes(k)
    /\ UNCHANGED <<screenVars, run, recv, buffer, beat, peerVars, life>>

\* A packet arrives and Receive returns it.
Arrives(p) == Running /\ conn = "up" /\ recv = Reading /\ recv' = p

PeerSends(p) ==
    /\ Arrives(p)
    /\ UNCHANGED <<screenVars, run, typed, buffer, beat, peerVars, life>>

PeerCopies(t) ==
    /\ Running
    /\ conn = "up"
    /\ ~moving.on
    /\ moving' = [text |-> t, left |-> formatClipboardText(t), on |-> TRUE]
    /\ UNCHANGED <<screenVars, run, typed, recv, buffer, beat, conn, net, life>>

\* The next chunk of the text; after the last one ClipboardDataEnd, which
\* names the text for the property below.
PeerSendsText ==
    /\ moving.on
    /\ LET n == Min({ChunkLen, Len(moving.left)})
       IN  IF n > 0
             THEN /\ Arrives([Packet("chunk") EXCEPT !.raw = SubSeq(moving.left, 1, n)])
                  /\ moving' = [moving EXCEPT !.left = SubSeq(@, n + 1, Len(@))]
             ELSE /\ Arrives([Packet("end") EXCEPT !.raw = moving.text])
                  /\ moving' = NoTransfer
    /\ UNCHANGED <<screenVars, run, typed, buffer, beat, conn, net, life>>

PeerCloses ==
    /\ Running
    /\ conn = "up"
    /\ conn' \in {"eof", "reset"}
    /\ UNCHANGED <<screenVars, run, typed, recv, buffer, beat, moving, net, life>>

PeerStalls ==
    /\ Running
    /\ conn = "up"
    /\ net' = IF net = "flowing" THEN "stalled" ELSE "flowing"
    /\ UNCHANGED <<screenVars, run, typed, recv, buffer, beat, moving, conn, life>>

Exited == life = "exited" /\ UNCHANGED vars

Next ==
    \/ Start \/ render \/ Read \/ handleArrowKey \/ ReceiveStep
    \/ BeginBeat \/ EndBeat
    \/ \E k \in Keys : Press(k)
    \/ \E p \in MousePackets \cup PlainPackets : PeerSends(p)
    \/ \E t \in Texts : PeerCopies(t)
    \/ PeerSendsText \/ PeerCloses \/ PeerStalls \/ Exited

Spec == Init /\ [][Next]_vars

\* Goroutines run, and one that waits for mu gets it in the end however often
\* the others take it (sync.Mutex does not starve a waiter).  A peer that stops
\* reading need not begin again.
Fairness ==
    /\ SF_vars(render \/ Read \/ handleArrowKey)
    /\ SF_vars(ReceiveStep)
    /\ SF_vars(EndBeat)

FairSpec == Spec /\ Fairness

-----------------------------------------------------------------------------
\* Run takes the input three bytes at a time and looks at the first of them.
Looked(i) == i % 3 = 1

\* "[q]=quit": a q that no byte but whole groups of three (arrows, say) stands
\* before in the terminal ends the program, whatever is typed behind it, also
\* while the peer is gone and heartbeats fail; only a peer that stays connected
\* and stops reading for good can keep Run from reading it.  Any other q may be
\* dropped unseen.
QuitWorks ==
    \/ (Running /\ \E i \in 1..Len(typed) : Looked(i) /\ typed[i] = "q") ~> life = "exited"
    \/ <>[](net = "stalled" /\ conn = "up")

\* Unless the connection stays up for ever, the screen comes to say that it is
\* closed and goes on saying so (or Run returns), although an error other than
\* EOF may come first; a connection that is over does not come back.
CloseIsShown ==
    <>[](conn = "up") \/ <>[](status.kind = "closed" \/ life = "exited")

\* The text shown at ClipboardDataEnd is the one the peer copied, whole or, when
\* it has more than MaxShown bytes, exactly so many of its bytes and the dots, no
\* matter what other packets came between its chunks or which texts came before.
ShowsTheText ==
    [][recv.kind = "end" /\ recv' = Reading =>
         /\ status'.kind = "clipboard"
         /\ LET all == Utf8(recv.raw)
            IN  status'.text = IF Len(all) <= MaxShown THEN all
                               ELSE SubSeq(all, 1, MaxShown) \o Dots]_vars
=============================================================================
