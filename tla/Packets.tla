------------------------------ MODULE Packets ------------------------------
(***************************************************************************)
(* The layout of a packet (protocol/protocol.go).  A packet is a sequence  *)
(* of 8-byte words, 4 or 8 of them: the header takes words 1 and 2, a      *)
(* machine name words 5 to 8; words 3 and 4 and, in clipboard packets, the *)
(* rest hold what the type says.  Values inside a word are not looked at.  *)
(***************************************************************************)
EXTENDS Naturals, Sequences

CONSTANTS
    zero,   \* a word of zero bytes
    space,  \* a word of spaces
    noise   \* a word that was decrypted with the wrong predecessor

Hello == 3
Heartbeat == 20
Awake == 21
Heartbeat_ex == 51
Clipboard == 69
ClipboardDataEnd == 76
MachineSwitched == 77
ClipboardAsk == 78
ClipboardPush == 79
Keyboard == 122
Mouse == 123
ClipboardText == 124
ClipboardImage == 125
Handshake == 126
HandshakeAck == 127
Matrix == 128

IsBigPackage(t) ==
    \/ t \in {Hello, Awake, Heartbeat, Heartbeat_ex, Handshake, HandshakeAck, ClipboardPush,
              Clipboard, ClipboardAsk, ClipboardImage, ClipboardText, ClipboardDataEnd}
    \/ (t \div Matrix) % 2 = 1

HalfWords == 4
PackageWords(t) == IF IsBigPackage(t) THEN 2 * HalfWords ELSE HalfWords

HasBody(t) == t \in {Keyboard, Mouse, Handshake, HandshakeAck}
IsChunk(t) == t \in {ClipboardText, ClipboardImage}

WordOr(s, i, other) == IF i \in 1..Len(s) THEN s[i] ELSE other

\* Faulty variant of NameGoesIn: clipboard chunks get the name too.
NameInEveryBig(d) == IsBigPackage(d.type) /\ d.name # <<>>

NameGoesIn(d) == IsBigPackage(d.type) /\ d.name # <<>> /\ ~IsChunk(d.type)

\* Marshal.  d.body is the two words of Keyboard-, Mouse- or HandshakeData
\* (the first one of a key is its DateTime), d.raw the words of Raw.
Marshal(d) ==
    [i \in 1..PackageWords(d.type) |->
        IF i = 1 THEN <<d.type, d.id>>
        ELSE IF i = 2 THEN <<d.src>>
        ELSE IF i > HalfWords /\ NameGoesIn(d) THEN WordOr(d.name, i - HalfWords, space)
        ELSE IF HasBody(d.type) THEN IF i <= HalfWords THEN d.body[i - 2] ELSE zero
        ELSE IF IsChunk(d.type) THEN WordOr(d.raw, i - 2, zero)
        ELSE IF i = 3 THEN "DateTime"
        ELSE WordOr(d.raw, i - 3, zero)]

\* The name without the spaces or zeros it was padded with.
TrimName(w) ==
    LET last == CHOOSE n \in 0..Len(w) :
                    /\ n > 0 => w[n] \notin {zero, space}
                    /\ \A i \in (n + 1)..Len(w) : w[i] \in {zero, space}
    IN  SubSeq(w, 1, last)

\* Magic and checksum cover the first half of a packet only.
ChecksPass(w) == \A i \in 1..HalfWords : w[i] # noise

\* Unmarshal of words whose checks pass.
Unmarshal(w) ==
    LET t == w[1][1]
        big == Len(w) = 2 * HalfWords
    IN  [type |-> t, id |-> w[1][2], src |-> w[2][1],
         body |-> IF HasBody(t) THEN <<w[3], w[4]>> ELSE <<>>,
         raw |-> IF HasBody(t) THEN <<>>
                 ELSE IF ~IsChunk(t) THEN SubSeq(w, 4, Len(w))
                 ELSE IF big THEN SubSeq(w, 3, Len(w)) ELSE <<>>,
         name |-> IF big /\ ~IsChunk(t) THEN TrimName(SubSeq(w, 5, 8)) ELSE <<>>]
=============================================================================
