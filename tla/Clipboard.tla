----------------------------- MODULE Clipboard -----------------------------
(***************************************************************************)
(* Clipboard synchronisation between two machines that run this program    *)
(* (clipboard/clipboard.go, setupClipboard and receiveLoop of main.go): on *)
(* each, Watch polls the system clipboard and sends what changed, and      *)
(* receiveLoop sets the system clipboard to what the peer sent.            *)
(***************************************************************************)
EXTENDS Naturals, Sequences, Functions, ClipboardCodec

CONSTANTS
    Texts,      \* clipboard contents
    Trim,       \* strings.TrimSpace
    Blank,      \* the empty text, which is what spaces alone are trimmed to
    Chunks,     \* how many ClipboardText packets a text takes
    Chars,      \* Chars[t]: the code points of t
    StartText,  \* what both system clipboards hold at the start
    Copied,     \* Copied[s]: the texts the user of s may copy
    MaxCopies,  \* bound on the copies made
    MayFail,    \* machines on which wl-paste and wl-copy may fail
    failed,     \* GetText returned an error
    Garbage     \* what a buffer that is not one whole text decodes to

ASSUME ClipboardAssumption ==
    /\ StartText \in Texts /\ Garbage \notin Texts \cup {Blank}
    /\ failed \notin Texts \cup {Blank, Garbage}
    /\ Trim \in [Texts -> Texts \cup {Blank}]
    /\ \A t \in Texts : Trim[t] = Blank \/ Trim[Trim[t]] = Trim[t]
    /\ Chunks \in [Texts -> Nat \ {0}]
    /\ Chars \in [Texts -> Seq(Nat)]
    /\ MaxCopies \in Nat

Sides == {"a", "b"}
Other(s) == IF s = "a" THEN "b" ELSE "a"

ASSUME SidesAssumption == Copied \in [Sides -> SUBSET Texts] /\ MayFail \subseteq Sides

VARIABLES
    sys,      \* sys[s]: the system clipboard
    last,     \* last[s]: Clipboard.lastContent
    watch,    \* watch[s]: where Watch is
    content,  \* content[s]: what Watch has read, Blank while it waits
    part,     \* part[s]: chunks of content[s] it has sent
    recv,     \* recv[s]: receiveLoop waits for a packet, or is in SetText
    buffer,   \* buffer[s]: clipboardBuffer
    chan,     \* chan[s]: packets on their way to s
    copies    \* copies made by the users

vars == <<sys, last, watch, content, part, recv, buffer, chan, copies>>
watchVars == <<watch, content, part>>
recvVars == <<recv, buffer>>

\* What the other machine makes of a text; one that is none of Texts is not
\* told apart from a mixture.
AfterTravel(t) ==
    LET c == decompressAndParseClipboard(formatClipboardText(Chars[t]))
    IN  IF c = <<>> THEN Blank
        ELSE IF \E u \in Texts : Chars[u] = c THEN CHOOSE u \in Texts : Chars[u] = c
        ELSE Garbage

Decoded == [t \in Texts |-> AfterTravel(t)]

Contents == Texts \cup {Blank, Garbage}
Trimmed(c) == IF c \in Texts THEN Trim[c] ELSE c
ChunksOf(c) == IF c \in Texts THEN Chunks[c] ELSE 1
Chunk(t, i) == [text |-> t, part |-> i]
End == [end |-> TRUE]
IsEnd(pkt) == pkt = End

TypeOK ==
    /\ sys \in [Sides -> Contents] /\ last \in [Sides -> Contents]
    /\ watch \in [Sides -> {"wait", "read", "send"}]
    /\ content \in [Sides -> Contents]
    /\ \A s \in Sides : part[s] \in 0..(IF watch[s] = "send" THEN ChunksOf(content[s]) ELSE 0)
    /\ recv \in [Sides -> {"read", "set"}]
    /\ copies \in 0..MaxCopies

Init ==
    /\ sys = [s \in Sides |-> StartText]
    /\ last \in {f \in [Sides -> {StartText, Blank}] : \A s \in Sides \ MayFail : f[s] = StartText}
    /\ watch = [s \in Sides |-> "wait"]
    /\ content = [s \in Sides |-> Blank]
    /\ part = [s \in Sides |-> 0]
    /\ recv = [s \in Sides |-> "read"]
    /\ buffer = [s \in Sides |-> <<>>]
    /\ chan = [s \in Sides |-> <<>>]
    /\ copies = 0

-----------------------------------------------------------------------------
UserCopies(s, t) ==
    /\ t \in Copied[s]
    /\ copies < MaxCopies
    /\ copies' = copies + 1
    /\ sys' = [sys EXCEPT ![s] = t]
    /\ UNCHANGED <<last, chan, watchVars, recvVars>>

\* What GetText returns.  A failure of wl-paste is an empty text or an error,
\* depending on what it printed; no Wayland display is an error.
GetText(s) == {sys[s]} \cup IF s \in MayFail THEN {Blank, failed} ELSE {}

\* The ticker fires and GetText reads the system clipboard; after an error
\* Watch waits for the next tick.
Tick(s) ==
    /\ watch[s] = "wait"
    /\ \E c \in GetText(s) \ {failed} :
         /\ watch' = [watch EXCEPT ![s] = "read"]
         /\ content' = [content EXCEPT ![s] = c]
    /\ UNCHANGED <<sys, last, part, chan, copies, recvVars>>

Changed(s) ==
    /\ Trimmed(content[s]) # Trimmed(last[s])
    /\ Trimmed(content[s]) # Blank

\* Under mu: compare with lastContent and replace it.
Compare(s) ==
    /\ watch[s] = "read"
    /\ IF Changed(s) THEN /\ last' = [last EXCEPT ![s] = content[s]]
                          /\ watch' = [watch EXCEPT ![s] = "send"]
                          /\ UNCHANGED content
                     ELSE /\ watch' = [watch EXCEPT ![s] = "wait"]
                          /\ content' = [content EXCEPT ![s] = Blank]
                          /\ UNCHANGED last
    /\ UNCHANGED <<sys, part, chan, copies, recvVars>>

\* The loop condition of OnChange.
Left(s) == part[s] < ChunksOf(content[s])

\* OnChange: the chunks of the text, one packet each ...
SendChunk(s) ==
    /\ watch[s] = "send"
    /\ Left(s)
    /\ part' = [part EXCEPT ![s] = @ + 1]
    /\ chan' = [chan EXCEPT ![Other(s)] = Append(@, Chunk(content[s], part[s] + 1))]
    /\ UNCHANGED <<sys, last, watch, content, copies, recvVars>>

\* Faulty variant of SendEnd: Watch does not go back to its ticker.
StopsWatching(s) ==
    /\ watch[s] = "send"
    /\ ~Left(s)
    /\ chan' = [chan EXCEPT ![Other(s)] = Append(@, End)]
    /\ watch' = [watch EXCEPT ![s] = "done"]
    /\ UNCHANGED <<sys, last, content, part, copies, recvVars>>

\* ... and ClipboardDataEnd.
SendEnd(s) ==
    /\ watch[s] = "send"
    /\ ~Left(s)
    /\ part' = [part EXCEPT ![s] = 0]
    /\ content' = [content EXCEPT ![s] = Blank]
    /\ watch' = [watch EXCEPT ![s] = "wait"]
    /\ chan' = [chan EXCEPT ![Other(s)] = Append(@, End)]
    /\ UNCHANGED <<sys, last, copies, recvVars>>

-----------------------------------------------------------------------------
Waiting(s) == recv[s] = "read" /\ chan[s] # <<>>
TakePacket(s) == chan' = [chan EXCEPT ![s] = Tail(@)]

ReceiveText(s) ==
    /\ Waiting(s)
    /\ ~IsEnd(Head(chan[s]))
    /\ TakePacket(s)
    /\ buffer' = [buffer EXCEPT ![s] = Append(@, Head(chan[s]))]
    /\ UNCHANGED <<sys, last, recv, copies, watchVars>>

\* The buffered chunks are decompressed up to the end of the first text; what
\* follows it (the zeros of a last chunk, another text) is not looked at.
Assembled(buf) ==
    LET t == buf[1].text
        n == Chunks[t]
    IN  IF Len(buf) >= n /\ SubSeq(buf, 1, n) = [i \in 1..n |-> Chunk(t, i)]
          THEN Decoded[t] ELSE Garbage

\* ClipboardDataEnd: SetText runs wl-copy ...
ReceiveEnd(s) ==
    /\ Waiting(s)
    /\ IsEnd(Head(chan[s]))
    /\ buffer[s] # <<>>
    /\ Assembled(buffer[s]) # Blank
    /\ TakePacket(s)
    /\ sys' = [sys EXCEPT ![s] = Assembled(buffer[s])]
    /\ recv' = [recv EXCEPT ![s] = "set"]
    /\ UNCHANGED <<last, buffer, copies, watchVars>>

\* Faulty variant of ClearBuffer: the chunks stay.
KeepBuffer(s) == buffer' = buffer

ClearBuffer(s) == buffer' = [buffer EXCEPT ![s] = <<>>]

\* ... and then, under mu, records the text; the buffer is cleared.
RecordSet(s) ==
    /\ recv[s] = "set"
    /\ last' = [last EXCEPT ![s] = Assembled(buffer[s])]
    /\ recv' = [recv EXCEPT ![s] = "read"]
    /\ ClearBuffer(s)
    /\ UNCHANGED <<sys, chan, copies, watchVars>>

\* The text is empty and SetText is not called, or wl-copy fails.
NotSet(s) ==
    /\ Waiting(s)
    /\ IsEnd(Head(chan[s]))
    /\ buffer[s] # <<>>
    /\ s \in MayFail \/ Assembled(buffer[s]) = Blank
    /\ TakePacket(s)
    /\ ClearBuffer(s)
    /\ UNCHANGED <<sys, last, recv, copies, watchVars>>

WatchStep(s) == Tick(s) \/ Compare(s) \/ SendChunk(s) \/ SendEnd(s)
ReceiveStep(s) == ReceiveText(s) \/ ReceiveEnd(s) \/ RecordSet(s) \/ NotSet(s)

Next ==
    \E s \in Sides : WatchStep(s) \/ ReceiveStep(s) \/ \E t \in Texts : UserCopies(s, t)

Spec == Init /\ [][Next]_vars

\* The ticker fires every two seconds, both goroutines run, and wl-paste does
\* not fail for ever.
FairSpec ==
    /\ Spec
    /\ \A s \in Sides :
         /\ WF_vars(WatchStep(s)) /\ WF_vars(ReceiveStep(s))
         /\ SF_vars(Tick(s) /\ content'[s] = sys[s])

-----------------------------------------------------------------------------
\* What SetText sets is one whole text, the one whose chunks came last, as it
\* was copied: neither a mixture with an earlier transfer, whichever of them
\* failed, nor a text changed by the way it is encoded.
WholeTexts ==
    [][\A s \in Sides : recv[s] = "read" /\ recv'[s] = "set"
         => sys'[s] = buffer[s][Len(buffer[s])].text]_vars

Noticed(s) == Trimmed(sys[s]) = Trimmed(last[s]) \/ Trimmed(sys[s]) = Blank

\* A new text is not overlooked for ever, whatever the peer sends meanwhile:
\* Watch records it, and sends it, or something else replaces it.
ChangeIsNoticed == \A s \in Sides : ~Noticed(s) ~> Noticed(s)

Idle(s) ==
    /\ watch[s] = "wait" /\ recv[s] = "read" /\ chan[s] = <<>>
    /\ Noticed(s)

\* Refuted (README, "Known deviations"): "copy on Windows, paste on Linux (and
\* vice versa)": once nothing is left to send, to receive or to notice, both
\* clipboards hold the same text.
ClipboardsAgree ==
    (\A s \in Sides : Idle(s) /\ Trimmed(sys[s]) # Blank) => Trimmed(sys["a"]) = Trimmed(sys["b"])
=============================================================================
