--------------------------- MODULE SessionSender ---------------------------
(***************************************************************************)
(* Outbound packets of a session (session_sender.go over network/client.go)*)
(* : the goroutines that send (heartbeats, clipboard watcher, jiggler, the *)
(* keyboard and mouse loops) share one sessionSender, which numbers the    *)
(* packets, and one connection.                                            *)
(***************************************************************************)
EXTENDS Naturals, Sequences

CONSTANTS
    Senders,   \* the goroutines that call Send
    BurstLen,  \* BurstLen[s]: packets s sends in a row: the chunks of a
               \* clipboard text and ClipboardDataEnd, the two of a key tap, one
    nobody,    \* no goroutine
    MaxID      \* bound on nextID, below 2^32: it is a uint32 in the code

ASSUME SenderAssumption ==
    /\ nobody \notin Senders
    /\ BurstLen \in [Senders -> Nat \ {0}]
    /\ MaxID \in Nat

VARIABLES
    connected,  \* Client.connected
    broken,     \* the TCP connection no longer takes writes
    mu,         \* the goroutine that holds sessionSender.mu
    nextID,     \* sessionSender.nextID
    wire,       \* the packets written, in order
    pc,         \* of each goroutine: "idle", about to "lock", about to "write"
    at          \* at[s]: which packet of its burst s sends next, from 1

vars == <<connected, broken, mu, nextID, wire, pc, at>>

WirePackets == [id : Nat, from : Senders, part : Nat \ {0}]

TypeOK ==
    /\ connected \in BOOLEAN /\ broken \in BOOLEAN
    /\ mu \in Senders \cup {nobody}
    /\ nextID \in 0..MaxID
    /\ wire \in Seq(WirePackets)
    /\ pc \in [Senders -> {"idle", "lock", "write"}]
    /\ at \in [Senders -> Nat \ {0}]
    /\ \A s \in Senders : at[s] <= BurstLen[s]

Init ==
    /\ connected = TRUE /\ broken = FALSE
    /\ mu = nobody
    /\ nextID = 0
    /\ wire = <<>>
    /\ pc = [s \in Senders |-> "idle"]
    /\ at = [s \in Senders |-> 1]

\* Faulty variant of NextPart: a burst has no end.
NoEnd(s) == at[s] + 1

\* The callers go on with the next packet whether or not this one was sent.
NextPart(s) == IF at[s] = BurstLen[s] THEN 1 ELSE at[s] + 1
Advance(s) == at' = [at EXCEPT ![s] = NextPart(s)]
Goto(s, l) == pc' = [pc EXCEPT ![s] = l]

\* Send returns at once when the client is not connected.
SendDropped(s) ==
    /\ pc[s] = "idle"
    /\ ~connected
    /\ Advance(s)
    /\ UNCHANGED <<connected, broken, mu, nextID, wire, pc>>

\* The client is connected now; it may not be when mu is ours.
SendChecked(s) ==
    /\ pc[s] = "idle"
    /\ connected
    /\ Goto(s, "lock")
    /\ UNCHANGED <<connected, broken, mu, nextID, wire, at>>

\* Faulty variant of Acquire: the number is taken before mu is.
NumberWithoutLock(s) == mu' = mu

\* s.mu.Lock(): it stays ours until the packet is written.
Acquire(s) == mu = nobody /\ mu' = s

\* A number is taken under mu.
TakeNumber(s) ==
    /\ pc[s] = "lock"
    /\ Acquire(s)
    /\ nextID < MaxID
    /\ nextID' = nextID + 1
    /\ Goto(s, "write")
    /\ UNCHANGED <<connected, broken, wire, at>>

\* Faulty variant of Write: the caller repeats the packet it has sent.
WritesTwice(s) ==
    /\ pc[s] = "write"
    /\ ~broken
    /\ wire' = Append(wire, [id |-> nextID, from |-> s, part |-> at[s]])
    /\ mu' = nobody
    /\ Goto(s, "idle")
    /\ UNCHANGED <<connected, broken, nextID, at>>

\* Client.Send encrypts and writes the packet; mu is released.  There is no
\* deadline: how long a write takes is up to the peer, see Wire.
Write(s) ==
    /\ pc[s] = "write"
    /\ ~broken
    /\ wire' = Append(wire, [id |-> nextID, from |-> s, part |-> at[s]])
    /\ mu' = nobody
    /\ Advance(s)
    /\ Goto(s, "idle")
    /\ UNCHANGED <<connected, broken, nextID>>

\* Faulty variant of WriteFails: an early return that keeps mu locked.
ReturnsLocked(s) ==
    /\ pc[s] = "write"
    /\ broken
    /\ connected' = FALSE
    /\ Advance(s)
    /\ Goto(s, "idle")
    /\ UNCHANGED <<broken, mu, nextID, wire>>

\* The write fails: markDisconnected.
WriteFails(s) ==
    /\ pc[s] = "write"
    /\ broken
    /\ connected' = FALSE
    /\ mu' = nobody
    /\ Advance(s)
    /\ Goto(s, "idle")
    /\ UNCHANGED <<broken, nextID, wire>>

\* The peer is gone: TCP refuses every write from now on.
ConnectionBreaks ==
    /\ ~broken
    /\ broken' = TRUE
    /\ UNCHANGED <<connected, mu, nextID, wire, pc, at>>

SendStep(s) ==
    \/ SendDropped(s)
    \/ SendChecked(s)
    \/ TakeNumber(s)
    \/ Write(s)
    \/ WriteFails(s)

\* The bound MaxID is reached: no number is left to take.
Exhausted ==
    /\ nextID = MaxID
    /\ \A s \in Senders : pc[s] = "lock"
    /\ UNCHANGED vars

Next == Exhausted \/ ConnectionBreaks \/ \E s \in Senders : SendStep(s)

Spec == Init /\ [][Next]_vars

-----------------------------------------------------------------------------
\* "One monotonically increasing packet ID sequence across all message types":
\* the packets on the wire are numbered 1, 2, 3... without a gap, in the order
\* they were written, whichever goroutines wrote them and however a write
\* failed.
WireIDsConsecutive == \A i \in 1..Len(wire) : wire[i].id = i

\* The packets of a burst reach the wire in order and without those of
\* another burst of the same goroutine between them, so the receiver can put a
\* clipboard text together: each packet is the successor of the one the same
\* goroutine wrote last.
BurstsKeepOrder ==
    \A i, j \in 1..Len(wire) :
        /\ i < j
        /\ wire[i].from = wire[j].from
        /\ \A k \in (i + 1)..(j - 1) : wire[k].from # wire[i].from
        => wire[j].part = IF wire[i].part = BurstLen[wire[i].from] THEN 1
                                                                   ELSE wire[i].part + 1
=============================================================================
