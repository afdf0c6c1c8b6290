----------------------------- MODULE WireProofs -----------------------------
(***************************************************************************)
(* Proofs about SessionSender and Wire, for any set of goroutines, any     *)
(* traffic that Sendable admits and any interleaving.  The first part is   *)
(* about the order in which packets are numbered and written; the second   *)
(* shows that what is marshalled, encrypted, cut by a broken connection,   *)
(* decrypted and unmarshalled again is what was sent.                      *)
(***************************************************************************)
EXTENDS Wire, SequenceTheorems, TLAPS

-----------------------------------------------------------------------------
(* SessionSender: numbers and order.                                       *)

\* mu is held exactly by the goroutine between its number and its write.
LockIsHeld == \A s \in Senders : pc[s] = "write" <=> mu = s

\* Until the connection breaks, every number taken is on the wire, save the
\* one whose packet is being written.
NumbersAreWritten ==
    broken \/ nextID = Len(wire) + (IF mu = nobody THEN 0 ELSE 1)

SenderInv == TypeOK /\ LockIsHeld /\ NumbersAreWritten /\ WireIDsConsecutive

\* newSessionSender's state satisfies the invariant.
LEMMA SenderInitially == Init => SenderInv
  <1> SUFFICES ASSUME Init PROVE SenderInv
    OBVIOUS
  <1> USE DEF Init
  <1>1. wire \in Seq(WirePackets) /\ Len(wire) = 0
    OBVIOUS
  <1>2. /\ at \in [Senders -> Nat \ {0}]
        /\ \A s \in Senders : at[s] <= BurstLen[s]
    <2>1. at = [s \in Senders |-> 1]
      OBVIOUS
    <2> HIDE DEF Init
    <2>2. \A s \in Senders : BurstLen[s] \in Nat /\ 1 <= BurstLen[s]
      <3> TAKE s \in Senders
      <3>1. BurstLen[s] \in Nat \ {0}
        BY SenderAssumption
      <3> QED BY <3>1
    <2> QED BY <2>1, <2>2
  <1>3. TypeOK
    <2>1. nextID \in 0..MaxID
      BY SenderAssumption
    <2>2. pc \in [Senders -> {"idle", "lock", "write"}]
      OBVIOUS
    <2>3. connected \in BOOLEAN /\ broken \in BOOLEAN /\ mu \in Senders \cup {nobody}
      OBVIOUS
    <2> HIDE DEF Init
    <2> QED BY <1>1, <1>2, <2>1, <2>2, <2>3 DEF TypeOK
  <1>4. LockIsHeld
    BY SenderAssumption DEF LockIsHeld
  <1>5. NumbersAreWritten /\ WireIDsConsecutive
    BY <1>1 DEF NumbersAreWritten, WireIDsConsecutive
  <1> QED BY <1>3, <1>4, <1>5 DEF SenderInv

\* One more packet, numbered with the length it brings the wire to, keeps the
\* numbering.
LEMMA AppendKeepsNumbering ==
    ASSUME NEW p \in WirePackets, wire \in Seq(WirePackets), WireIDsConsecutive,
           p.id = Len(wire) + 1, wire' = Append(wire, p)
    PROVE  WireIDsConsecutive' /\ wire' \in Seq(WirePackets) /\ Len(wire') = Len(wire) + 1
  BY DEF WireIDsConsecutive

\* SenderInv is inductive.
LEMMA SenderInductive == SenderInv /\ [Next]_vars => SenderInv'
  <1> SUFFICES ASSUME SenderInv, [Next]_vars PROVE SenderInv'
    OBVIOUS
  <1> USE DEF SenderInv
  <1>p. \A s \in Senders : NextPart(s) \in Nat \ {0} /\ NextPart(s) <= BurstLen[s]
    BY SenderAssumption DEF NextPart, TypeOK
  <1>1. ASSUME NEW s \in Senders, SendDropped(s)
        PROVE  SenderInv'
    <2>1. TypeOK'
      BY <1>1, <1>p DEF SendDropped, Advance, TypeOK
    <2> QED BY <1>1, <2>1
      DEF SendDropped, LockIsHeld, NumbersAreWritten, WireIDsConsecutive
  <1>2. ASSUME NEW s \in Senders, SendChecked(s)
        PROVE  SenderInv'
    <2>1. TypeOK'
      BY <1>2 DEF SendChecked, Goto, TypeOK
    <2>2. LockIsHeld'
      BY <1>2 DEF SendChecked, Goto, TypeOK, LockIsHeld
    <2> QED BY <1>2, <2>1, <2>2 DEF SendChecked, NumbersAreWritten, WireIDsConsecutive
  <1>3. ASSUME NEW s \in Senders, TakeNumber(s)
        PROVE  SenderInv'
    <2>1. /\ mu = nobody /\ mu' = s /\ nextID < MaxID /\ nextID' = nextID + 1
          /\ pc[s] = "lock" /\ pc' = [pc EXCEPT ![s] = "write"]
          /\ UNCHANGED <<connected, broken, wire, at>>
      BY <1>3 DEF TakeNumber, Acquire, Goto
    <2>2. TypeOK'
      BY <2>1, SenderAssumption DEF TypeOK
    <2>3. LockIsHeld'
      BY <2>1, SenderAssumption DEF TypeOK, LockIsHeld
    <2>4. NumbersAreWritten'
      BY <2>1, SenderAssumption DEF TypeOK, NumbersAreWritten
    <2> QED BY <2>1, <2>2, <2>3, <2>4 DEF WireIDsConsecutive
  <1>4. ASSUME NEW s \in Senders, Write(s)
        PROVE  SenderInv'
    <2> DEFINE p == [id |-> nextID, from |-> s, part |-> at[s]]
    <2>1. /\ pc[s] = "write" /\ ~broken /\ wire' = Append(wire, p) /\ mu' = nobody
          /\ at' = [at EXCEPT ![s] = NextPart(s)] /\ pc' = [pc EXCEPT ![s] = "idle"]
          /\ UNCHANGED <<connected, broken, nextID>>
      BY <1>4 DEF Write, Advance, Goto
    <2>2. mu = s /\ mu # nobody
      BY <2>1, SenderAssumption DEF LockIsHeld
    <2>3. nextID = Len(wire) + 1
      BY <2>1, <2>2 DEF NumbersAreWritten
    <2>4. p \in WirePackets
      BY DEF WirePackets, TypeOK
    <2>5. wire \in Seq(WirePackets)
      BY DEF TypeOK
    <2>6. WireIDsConsecutive' /\ wire' \in Seq(WirePackets) /\ Len(wire') = Len(wire) + 1
      BY <2>1, <2>3, <2>4, <2>5, AppendKeepsNumbering
    <2>7. TypeOK'
      BY <1>p, <2>1, <2>6 DEF TypeOK
    <2>8. LockIsHeld'
      BY <2>1, <2>2, SenderAssumption DEF TypeOK, LockIsHeld
    <2>9. NumbersAreWritten'
      BY <2>1, <2>3, <2>6 DEF NumbersAreWritten, TypeOK
    <2> QED BY <2>6, <2>7, <2>8, <2>9
  <1>5. ASSUME NEW s \in Senders, WriteFails(s)
        PROVE  SenderInv'
    <2>1. /\ pc[s] = "write" /\ broken /\ connected' = FALSE /\ mu' = nobody
          /\ at' = [at EXCEPT ![s] = NextPart(s)] /\ pc' = [pc EXCEPT ![s] = "idle"]
          /\ UNCHANGED <<broken, nextID, wire>>
      BY <1>5 DEF WriteFails, Advance, Goto
    <2>2. TypeOK'
      BY <1>p, <2>1 DEF TypeOK
    <2>3. LockIsHeld'
      BY <2>1, SenderAssumption DEF TypeOK, LockIsHeld
    <2> QED BY <2>1, <2>2, <2>3 DEF NumbersAreWritten, WireIDsConsecutive
  <1>6. CASE ConnectionBreaks
    BY <1>6
    DEF ConnectionBreaks, TypeOK, LockIsHeld, NumbersAreWritten, WireIDsConsecutive
  <1>7. CASE Exhausted \/ UNCHANGED vars
    BY <1>7
    DEF Exhausted, vars, TypeOK, LockIsHeld, NumbersAreWritten, WireIDsConsecutive
  <1> QED BY <1>1, <1>2, <1>3, <1>4, <1>5, <1>6, <1>7 DEF Next, SendStep

\* The sender's state is always well typed.
THEOREM SenderTypeCorrect == Spec => []TypeOK
  <1>1. SenderInv => TypeOK
    BY DEF SenderInv
  <1> QED BY <1>1, SenderInitially, SenderInductive, PTL DEF Spec

\* Whatever goroutines call sessionSender.Send, the packets on the wire are
\* numbered 1, 2, 3... without a gap.
THEOREM WireNumbering == Spec => []WireIDsConsecutive
  <1>1. SenderInv => WireIDsConsecutive
    BY DEF SenderInv
  <1> QED BY <1>1, SenderInitially, SenderInductive, PTL DEF Spec
-----------------------------------------------------------------------------
\* The packet of a burst that follows packet p.
Successor(p) == IF p.part = BurstLen[p.from] THEN 1 ELSE p.part + 1

\* Packet i is the last one of goroutine s up to packet n.
LastOf(s, i, n) ==
    /\ i \in 1..n
    /\ wire[i].from = s
    /\ \A k \in (i + 1)..n : wire[k].from # s

\* Until the connection breaks, each goroutine is at the successor of the
\* packet it wrote last; the client stays connected until then.
BurstsGoOn ==
    broken \/
      /\ connected
      /\ \A s \in Senders, i \in 1..Len(wire) :
           LastOf(s, i, Len(wire)) => at[s] = Successor(wire[i])

BurstInv == TypeOK /\ BurstsGoOn /\ BurstsKeepOrder

\* One more packet, the successor of the last one of its goroutine, keeps the
\* order of the bursts.
LEMMA AppendKeepsBursts ==
    ASSUME NEW p \in WirePackets, wire \in Seq(WirePackets), wire' = Append(wire, p),
           BurstsKeepOrder,
           \A i \in 1..Len(wire) : LastOf(p.from, i, Len(wire)) => p.part = Successor(wire[i])
    PROVE  BurstsKeepOrder'
  <1> DEFINE n == Len(wire)
  <1>1. /\ n \in Nat /\ Len(wire') = n + 1 /\ wire'[n + 1] = p
        /\ \A i \in 1..n : wire'[i] = wire[i]
    OBVIOUS
  <1> SUFFICES ASSUME NEW i \in 1..(n + 1), NEW j \in 1..(n + 1), i < j,
                      wire'[i].from = wire'[j].from,
                      \A k \in (i + 1)..(j - 1) : wire'[k].from # wire'[i].from
               PROVE  wire'[j].part = Successor(wire'[i])
    <2>1. 1..Len(wire') = 1..(n + 1)
      BY <1>1
    <2> HIDE DEF n
    <2> QED BY <2>1, Zenon DEF BurstsKeepOrder, Successor
  <1>2. i \in 1..n /\ wire'[i] = wire[i]
    BY <1>1
  <1>3. \A k \in (i + 1)..(j - 1) : wire[k].from # wire[i].from
    BY <1>1, <1>2
  <1>4. CASE j = n + 1
    <2>1. wire[i].from = p.from /\ j - 1 = n
      BY <1>1, <1>2, <1>4
    <2>2. LastOf(p.from, i, n)
      BY <1>2, <1>3, <2>1 DEF LastOf
    <2> QED BY <1>1, <1>2, <1>4, <2>2
  <1>5. CASE j # n + 1
    <2>1. j \in 1..n /\ wire'[j] = wire[j]
      BY <1>1, <1>5
    <2> QED BY <1>2, <1>3, <2>1 DEF BurstsKeepOrder, Successor
  <1> QED BY <1>4, <1>5

\* BurstInv is inductive.
LEMMA BurstsInductive == BurstInv /\ TypeOK' /\ [Next]_vars => BurstInv'
  <1> SUFFICES ASSUME BurstInv, TypeOK', [Next]_vars PROVE BurstInv'
    OBVIOUS
  <1> USE DEF BurstInv
  <1>1. ASSUME NEW s \in Senders, Write(s)
        PROVE  BurstInv'
    <2> DEFINE p == [id |-> nextID, from |-> s, part |-> at[s]]
               n == Len(wire)
    <2>1. /\ ~broken /\ ~broken' /\ connected' = connected /\ wire' = Append(wire, p)
          /\ at' = [at EXCEPT ![s] = NextPart(s)]
      BY <1>1 DEF Write, Advance
    <2>2. p \in WirePackets /\ wire \in Seq(WirePackets)
      BY DEF WirePackets, TypeOK
    <2>3. p.from = s /\ p.part = at[s] /\ Successor(p) = NextPart(s)
      BY DEF Successor, NextPart
    <2> HIDE DEF p
    <2>4. BurstsKeepOrder'
      BY <2>1, <2>2, <2>3, AppendKeepsBursts DEF BurstsGoOn
    <2>5. ASSUME NEW t \in Senders, NEW i \in 1..Len(wire'), LastOf(t, i, Len(wire))'
          PROVE  at'[t] = Successor(wire'[i])
      <3>1. /\ n \in Nat /\ Len(wire') = n + 1 /\ wire'[n + 1] = p
            /\ \A k \in 1..n : wire'[k] = wire[k]
        BY <2>1, <2>2
      <3>2. /\ wire'[i].from = t
            /\ \A k \in (i + 1)..(n + 1) : wire'[k].from # t
        BY <2>5, <3>1 DEF LastOf
      <3>3. CASE i = n + 1
        BY <2>1, <2>3, <3>1, <3>2, <3>3 DEF TypeOK
      <3>4. CASE i # n + 1
        <4>1. i \in 1..n /\ n + 1 \in (i + 1)..(n + 1)
          BY <3>1, <3>4
        <4>2. t # s
          BY <2>3, <3>1, <3>2, <4>1
        <4>3. LastOf(t, i, n)
          BY <3>1, <3>2, <4>1 DEF LastOf
        <4>4. at[t] = Successor(wire[i])
          BY <2>1, <4>1, <4>3 DEF BurstsGoOn
        <4> QED BY <2>1, <3>1, <4>1, <4>2, <4>4 DEF TypeOK
      <3> QED BY <3>3, <3>4
    <2>6. connected'
      BY <2>1 DEF BurstsGoOn
    <2> QED BY <2>4, <2>5, <2>6 DEF BurstsGoOn
  <1>2. CASE broken' /\ UNCHANGED wire
    BY <1>2 DEF BurstsGoOn, BurstsKeepOrder
  <1>3. CASE UNCHANGED <<broken, connected, wire, at>>
    BY <1>3 DEF BurstsGoOn, BurstsKeepOrder, LastOf, Successor
  <1>4. ASSUME NEW s \in Senders, SendDropped(s)
        PROVE  broken' /\ UNCHANGED wire
    BY <1>4 DEF SendDropped, BurstsGoOn
  <1>5. ASSUME NEW s \in Senders, SendChecked(s) \/ TakeNumber(s)
        PROVE  UNCHANGED <<broken, connected, wire, at>>
    BY <1>5 DEF SendChecked, TakeNumber
  <1>6. ASSUME NEW s \in Senders, WriteFails(s)
        PROVE  broken' /\ UNCHANGED wire
    BY <1>6 DEF WriteFails
  <1>7. ConnectionBreaks => broken' /\ UNCHANGED wire
    BY DEF ConnectionBreaks
  <1>8. Exhausted \/ UNCHANGED vars => UNCHANGED <<broken, connected, wire, at>>
    BY DEF Exhausted, vars
  <1> QED BY <1>1, <1>2, <1>3, <1>4, <1>5, <1>6, <1>7, <1>8 DEF Next, SendStep

\* The packets of a burst (the chunks of a clipboard text and its end, the two
\* of a key tap) are written in order and whole, for any goroutines and any
\* lengths of burst.
THEOREM BurstOrder == Spec => []BurstsKeepOrder
  <1>1. Init => BurstInv
    BY SenderInitially DEF Init, SenderInv, BurstInv, BurstsGoOn, BurstsKeepOrder
  <1>2. BurstInv => BurstsKeepOrder
    BY DEF BurstInv
  <1> QED BY <1>1, <1>2, SenderTypeCorrect, BurstsInductive, PTL DEF Spec

-----------------------------------------------------------------------------
(* Wire: the bytes.                                                        *)

\* The halves of packet d before they are numbered.
Size(d) == IF IsBigPackage(d.type) THEN 2 ELSE 1
Half(d, h) == SubSeq(Marshal(d), (h - 1) * HalfWords + 1, h * HalfWords)

\* What PayloadIntact says of one packet.
Intact(d, r) ==
    /\ r.type = d.type /\ r.id = d.id /\ r.src = d.src
    /\ HasBody(d.type) => r.body = d.body
    /\ IsChunk(d.type) =>
         /\ SubSeq(r.raw, 1, Len(d.raw)) = d.raw
         /\ \A j \in (Len(d.raw) + 1)..Len(r.raw) : r.raw[j] = zero
    /\ IsBigPackage(d.type) /\ ~IsChunk(d.type) => r.name = d.name

-----------------------------------------------------------------------------
\* A chunk fills a big packet and has no body.
LEMMA ChunkKind ==
    ASSUME NEW t
    PROVE  IsChunk(t) => IsBigPackage(t) /\ ~HasBody(t)
  BY DEF IsChunk, IsBigPackage, HasBody, ClipboardText, ClipboardImage, Keyboard, Mouse,
         Handshake, HandshakeAck

\* The words of a marshalled packet.
LEMMA MarshalWords ==
    ASSUME NEW d
    PROVE  LET n == PackageWords(d.type)
               w == Marshal(d)
           IN  /\ n \in {4, 8} /\ (n = 8 <=> IsBigPackage(d.type))
               /\ w \in Seq({w[i] : i \in 1..n}) /\ Len(w) = n
  <1> DEFINE n == PackageWords(d.type)
             w == Marshal(d)
             S == {w[i] : i \in 1..n}
  <1>1. n \in {4, 8} /\ (n = 8 <=> IsBigPackage(d.type))
    BY DEF PackageWords, HalfWords
  <1>2. DOMAIN w = 1..n /\ w = [i \in 1..n |-> w[i]]
    BY DEF Marshal
  <1> HIDE DEF w, n
  <1>3. w \in [1..n -> S]
    BY <1>2
  <1>4. w \in Seq(S)
    BY <1>1, <1>3, SeqDef
  <1>5. Len(w) = n
    BY <1>1, <1>2, <1>4, LenProperties
  <1> QED BY <1>1, <1>4, <1>5 DEF n, w

\* The padding of a name is what TrimName cuts off.
LEMMA TrimPadded ==
    ASSUME NEW S, NEW x \in Seq(S), Len(x) = 4,
           NEW T, NEW m \in Seq(T), Len(m) <= 4,
           m # <<>> => m[Len(m)] # zero /\ m[Len(m)] # space,
           \A i \in 1..Len(m) : x[i] = m[i],
           \A i \in (Len(m) + 1)..4 : x[i] \in {zero, space}
    PROVE  TrimName(x) = m
  <1> DEFINE P(n) == /\ n > 0 => x[n] \notin {zero, space}
                     /\ \A i \in (n + 1)..Len(x) : x[i] \in {zero, space}
             last == CHOOSE n \in 0..Len(x) : P(n)
  <1>1. Len(m) \in 0..Len(x) /\ P(Len(m))
    <2>1. Len(m) \in Nat /\ (Len(m) > 0 => m # <<>> /\ Len(m) \in 1..Len(m))
      BY LenProperties, EmptySeq
    <2>2. Len(m) > 0 => x[Len(m)] # zero /\ x[Len(m)] # space
      BY <2>1
    <2>3. Len(m) \in 0..Len(x)
      <3>1. \A k \in Nat : k <= 4 => k \in 0..4
        OBVIOUS
      <3> QED BY <2>1, <3>1, Zenon
    <2>4. \A i \in (Len(m) + 1)..Len(x) : x[i] \in {zero, space}
      OBVIOUS
    <2> QED BY <2>2, <2>3, <2>4, Zenon
  <1>2. \A n \in 0..Len(x) : P(n) => n = Len(m)
    <2> TAKE n \in 0..Len(x)
    <2> SUFFICES ASSUME P(n), n # Len(m) PROVE FALSE
      OBVIOUS
    <2>1. CASE n < Len(m)
      <3>1. Len(m) \in (n + 1)..Len(x) /\ Len(m) \in 1..Len(m) /\ m # <<>>
        BY <1>1, <2>1
      <3> QED BY <3>1
    <2>2. CASE n > Len(m)
      <3>1. n \in (Len(m) + 1)..4 /\ n > 0
        BY <1>1, <2>2
      <3> QED BY <3>1
    <2> QED BY <1>1, <2>1, <2>2
  <1> HIDE DEF P
  <1>3. last \in 0..Len(x) /\ P(last)
    BY <1>1, Zenon
  <1>4. last = Len(m)
    BY <1>2, <1>3
  <1>5. TrimName(x) = SubSeq(x, 1, last)
    BY DEF TrimName, P
  <1>6. SubSeq(x, 1, Len(m)) = m
    <2>1. \A i \in 1..Len(m) : x[i] \in T
      BY ElementOfSeq
    <2>2. /\ Len(m) \in Int
          /\ SubSeq(x, 1, Len(m)) \in Seq(T)
          /\ Len(SubSeq(x, 1, Len(m))) = Len(m)
          /\ \A i \in 1..Len(m) : SubSeq(x, 1, Len(m))[i] = x[i]
      BY <2>1, SubSeqProperties, LenProperties
    <2> QED BY <2>2, SeqEqual
  <1> QED BY <1>4, <1>5, <1>6

\* Which word of a packet holds what.
LEMMA WordsOf ==
    ASSUME NEW d, Sendable(d)
    PROVE  LET w == Marshal(d) IN
           /\ w[1] = <<d.type, d.id>> /\ w[2] = <<d.src>>
           /\ HasBody(d.type) => w[3] = d.body[1] /\ w[4] = d.body[2]
           /\ IsChunk(d.type) =>
                \A i \in 1..6 : w[i + 2] = IF i <= Len(d.raw) THEN d.raw[i] ELSE zero
           /\ IsBigPackage(d.type) /\ ~IsChunk(d.type) =>
                \A i \in 1..4 : \/ i <= Len(d.name) /\ w[i + 4] = d.name[i]
                                \/ i > Len(d.name) /\ w[i + 4] \in {zero, space}
           /\ \A i \in 1..4 : w[i] # noise
  <1> DEFINE n == PackageWords(d.type)
             w == Marshal(d)
             word(i) == IF i = 1 THEN <<d.type, d.id>>
                        ELSE IF i = 2 THEN <<d.src>>
                        ELSE IF i > HalfWords /\ NameGoesIn(d) THEN WordOr(d.name, i - HalfWords, space)
                        ELSE IF HasBody(d.type) THEN IF i <= HalfWords THEN d.body[i - 2] ELSE zero
                        ELSE IF IsChunk(d.type) THEN WordOr(d.raw, i - 2, zero)
                        ELSE IF i = 3 THEN "DateTime"
                        ELSE WordOr(d.raw, i - 3, zero)
  <1>1. \A i \in 1..n : w[i] = word(i)
    BY DEF Marshal
  <1>2. n \in {4, 8} /\ (n = 8 <=> IsBigPackage(d.type))
    BY DEF PackageWords, HalfWords
  <1> HIDE DEF w, n
  <1>3. w[1] = word(1) /\ w[2] = word(2) /\ w[3] = word(3) /\ w[4] = word(4)
    BY <1>1, <1>2
  <1>4. w[1] = <<d.type, d.id>> /\ w[2] = <<d.src>>
    BY <1>3
  <1>5. HasBody(d.type) => w[3] = d.body[1] /\ w[4] = d.body[2]
    BY <1>3 DEF HalfWords
  <1>6. ASSUME IsChunk(d.type)
        PROVE  \A i \in 1..6 : w[i + 2] = IF i <= Len(d.raw) THEN d.raw[i] ELSE zero
    <2>1. ~HasBody(d.type) /\ ~NameGoesIn(d) /\ n = 8
      BY <1>2, <1>6, ChunkKind DEF NameGoesIn
    <2>2. Len(d.raw) \in Nat
      BY <1>6, LenProperties DEF Sendable
    <2> TAKE i \in 1..6
    <2>3. i + 2 \in 1..n /\ (i + 2) - 2 = i /\ i + 2 # 1 /\ i + 2 # 2
      BY <2>1
    <2>4. w[i + 2] = WordOr(d.raw, i, zero)
      BY <1>1, <1>6, <2>1, <2>3
    <2> QED BY <2>2, <2>4 DEF WordOr
  <1>7. ASSUME IsBigPackage(d.type), ~IsChunk(d.type), NEW i \in 1..4
        PROVE  \/ i <= Len(d.name) /\ w[i + 4] = d.name[i]
               \/ i > Len(d.name) /\ w[i + 4] \in {zero, space}
    <2>1. n = 8 /\ d.raw = <<>> /\ Len(d.name) \in Nat
      BY <1>2, <1>7, LenProperties DEF Sendable
    <2>2. i + 4 \in 1..n /\ i + 4 > HalfWords /\ (i + 4) - HalfWords = i
          /\ i + 4 # 1 /\ i + 4 # 2 /\ i + 4 # 3
      BY <2>1 DEF HalfWords
    <2>3. w[i + 4] = word(i + 4)
      BY <1>1, <2>2
    <2>4. CASE d.name # <<>>
      <3>1. w[i + 4] = WordOr(d.name, i, space)
        BY <1>7, <2>2, <2>3, <2>4 DEF NameGoesIn
      <3> QED BY <2>1, <3>1 DEF WordOr
    <2>5. CASE d.name = <<>>
      <3>1. Len(d.name) = 0 /\ Len(d.raw) = 0
        BY <2>1, <2>5
      <3>2. w[i + 4] = zero
        <4>1. ~NameGoesIn(d) /\ ~(i + 4 <= HalfWords)
          BY <2>2, <2>5 DEF NameGoesIn, HalfWords
        <4>2. WordOr(d.raw, (i + 4) - 3, zero) = zero
          BY <3>1 DEF WordOr
        <4> QED BY <1>7, <2>2, <2>3, <4>1, <4>2
      <3> QED BY <3>1, <3>2
    <2> QED BY <2>4, <2>5
  <1>8. ASSUME NEW i \in 1..4
        PROVE  w[i] # noise
    <2>1. ~(i > HalfWords)
      BY DEF HalfWords
    <2>2. CASE i \in {1, 2}
      BY <1>4, <2>2 DEF Sendable
    <2>3. CASE i \in {3, 4} /\ HasBody(d.type)
      BY <1>5, <2>3 DEF Sendable
    <2>4. CASE i \in {3, 4} /\ IsChunk(d.type)
      <3>1. w[(i - 2) + 2] = w[i] /\ i - 2 \in 1..6
        BY <2>4
      <3>2. w[i] = IF i - 2 <= Len(d.raw) THEN d.raw[i - 2] ELSE zero
        BY <1>6, <2>4, <3>1
      <3>3. Len(d.raw) \in Nat /\ DOMAIN d.raw = 1..Len(d.raw)
        BY <2>4, LenProperties DEF Sendable
      <3>4. CASE i - 2 <= Len(d.raw)
        <4>1. i - 2 \in DOMAIN d.raw
          BY <2>4, <3>1, <3>3, <3>4
        <4> QED BY <3>2, <3>4, <4>1 DEF Sendable
      <3>5. CASE ~(i - 2 <= Len(d.raw))
        BY <3>2, <3>5 DEF Sendable
      <3> QED BY <3>4, <3>5
    <2>5. CASE i \in {3, 4} /\ ~HasBody(d.type) /\ ~IsChunk(d.type)
      <3>1. d.raw = <<>> /\ Len(d.raw) = 0
        BY <2>5 DEF Sendable
      <3>2. w[i] = "DateTime" \/ w[i] = zero
        BY <1>3, <2>1, <2>5, <3>1 DEF WordOr
      <3> QED BY <3>2 DEF Sendable
    <2> QED BY <2>2, <2>3, <2>4, <2>5
  <1> QED BY <1>4, <1>5, <1>6, <1>7, <1>8 DEF w

\* Unmarshal undoes Marshal.
LEMMA RoundTrip ==
    ASSUME NEW d, Sendable(d)
    PROVE  ChecksPass(Marshal(d)) /\ Intact(d, Unmarshal(Marshal(d)))
  <1> DEFINE w == Marshal(d)
             n == PackageWords(d.type)
             S == {w[i] : i \in 1..n}
             r == Unmarshal(w)
  <1>1. n \in {4, 8} /\ (n = 8 <=> IsBigPackage(d.type)) /\ w \in Seq(S) /\ Len(w) = n
    BY MarshalWords
  <1>2. ChecksPass(w)
    BY WordsOf DEF ChecksPass, HalfWords
  <1>3. w[1] = <<d.type, d.id>> /\ w[2] = <<d.src>>
    BY WordsOf
  <1> HIDE DEF w, S
  <1>4. w[1][1] = d.type /\ w[1][2] = d.id /\ w[2][1] = d.src
    BY <1>3
  <1>5. /\ r.type = d.type /\ r.id = d.id /\ r.src = d.src
        /\ r.body = IF HasBody(d.type) THEN <<w[3], w[4]>> ELSE <<>>
        /\ IsChunk(d.type) => r.raw = SubSeq(w, 3, 8)
        /\ IsBigPackage(d.type) /\ ~IsChunk(d.type) => r.name = TrimName(SubSeq(w, 5, 8))
    BY <1>1, <1>4, ChunkKind DEF Unmarshal, HalfWords
  <1>6. HasBody(d.type) => r.body = d.body
    BY <1>5, WordsOf DEF Sendable, w
  <1> HIDE DEF r
  <1>7. ASSUME IsChunk(d.type)
        PROVE  /\ SubSeq(r.raw, 1, Len(d.raw)) = d.raw
               /\ \A j \in (Len(d.raw) + 1)..Len(r.raw) : r.raw[j] = zero
    <2> DEFINE T == {d.raw[i] : i \in DOMAIN d.raw}
    <2>1. /\ n = 8 /\ d.raw \in Seq(T) /\ Len(d.raw) \in Nat /\ Len(d.raw) <= 6
          /\ DOMAIN d.raw = 1..Len(d.raw)
      BY <1>1, <1>7, ChunkKind, LenProperties DEF Sendable
    <2>2. \A i \in 1..6 : w[i + 2] = IF i <= Len(d.raw) THEN d.raw[i] ELSE zero
      BY <1>7, WordsOf DEF w
    <2> HIDE DEF T
    <2>3. /\ r.raw \in Seq(S) /\ Len(r.raw) = 6
          /\ \A i \in 1..6 : r.raw[i] = w[i + 2]
      <3>1. \A i \in 3..8 : w[i] \in S
        BY <2>1 DEF S
      <3>2. /\ SubSeq(w, 3, 8) \in Seq(S) /\ Len(SubSeq(w, 3, 8)) = 6
            /\ \A i \in 1..6 : SubSeq(w, 3, 8)[i] = w[3 + i - 1]
        BY <3>1, SubSeqProperties
      <3>3. \A i \in 1..6 : 3 + i - 1 = i + 2
        OBVIOUS
      <3> QED BY <1>5, <1>7, <3>2, <3>3
    <2>4. \A i \in 1..Len(d.raw) : r.raw[i] = d.raw[i] /\ r.raw[i] \in T
      <3> TAKE i \in 1..Len(d.raw)
      <3>1. i \in 1..6 /\ i <= Len(d.raw)
        BY <2>1
      <3>2. r.raw[i] = d.raw[i]
        BY <2>2, <2>3, <3>1, Zenon
      <3>3. d.raw[i] \in T
        BY <2>1, ElementOfSeq
      <3> QED BY <3>2, <3>3
    <2>5. /\ SubSeq(r.raw, 1, Len(d.raw)) \in Seq(T)
          /\ Len(SubSeq(r.raw, 1, Len(d.raw))) = Len(d.raw)
          /\ \A i \in 1..Len(d.raw) : SubSeq(r.raw, 1, Len(d.raw))[i] = r.raw[i]
      BY <2>1, <2>4, SubSeqProperties
    <2>6. SubSeq(r.raw, 1, Len(d.raw)) = d.raw
      BY <2>1, <2>4, <2>5, SeqEqual
    <2>7. ASSUME NEW j \in (Len(d.raw) + 1)..Len(r.raw)
          PROVE  r.raw[j] = zero
      <3>1. j \in 1..6 /\ ~(j <= Len(d.raw))
        BY <2>1, <2>3, SMTT(30)
      <3> QED BY <2>2, <2>3, <3>1, Zenon
    <2> QED BY <2>6, <2>7
  <1>8. ASSUME IsBigPackage(d.type), ~IsChunk(d.type)
        PROVE  r.name = d.name
    <2> DEFINE x == SubSeq(w, 5, 8)
               T == {d.name[i] : i \in DOMAIN d.name}
    <2>1. \A i \in 5..8 : w[i] \in S
      BY <1>1, <1>8 DEF S
    <2>2. /\ x \in Seq(S) /\ Len(x) = 4 /\ \A i \in 1..4 : x[i] = w[5 + i - 1]
      BY <2>1, SubSeqProperties
    <2>3. \A i \in 1..4 : 5 + i - 1 = i + 4
      OBVIOUS
    <2>4. \A i \in 1..4 : \/ i <= Len(d.name) /\ w[i + 4] = d.name[i]
                          \/ i > Len(d.name) /\ w[i + 4] \in {zero, space}
      BY <1>8, WordsOf DEF w
    <2>5. /\ d.name \in Seq(T) /\ Len(d.name) \in Nat /\ Len(d.name) <= 4
          /\ d.name # <<>> => d.name[Len(d.name)] # zero /\ d.name[Len(d.name)] # space
      BY LenProperties DEF Sendable, HalfWords
    <2> HIDE DEF x, T
    <2>6. /\ \A i \in 1..Len(d.name) : x[i] = d.name[i]
          /\ \A i \in (Len(d.name) + 1)..4 : x[i] \in {zero, space}
      <3>1. \A i \in 1..4 : x[i] = w[i + 4]
        BY <2>2, <2>3
      <3>2. \A i \in 1..Len(d.name) : i \in 1..4 /\ ~(i > Len(d.name))
        BY <2>5
      <3>3. \A i \in (Len(d.name) + 1)..4 : i \in 1..4 /\ ~(i <= Len(d.name))
        BY <2>5
      <3> QED BY <2>4, <3>1, <3>2, <3>3, Zenon
    <2>7. TrimName(x) = d.name
      <3>1. \A U, V : \A y \in Seq(U), z \in Seq(V) :
              /\ Len(y) = 4 /\ Len(z) <= 4
              /\ z # <<>> => z[Len(z)] # zero /\ z[Len(z)] # space
              /\ \A i \in 1..Len(z) : y[i] = z[i]
              /\ \A i \in (Len(z) + 1)..4 : y[i] \in {zero, space}
              => TrimName(y) = z
        BY TrimPadded
      <3> QED BY <2>2, <2>5, <2>6, <3>1, ZenonT(60)
    <2> QED BY <1>5, <1>8, <2>7 DEF x
  <1> QED BY <1>2, <1>5, <1>6, <1>7, <1>8 DEF Intact, w, r

\* The halves of a packet make it up again.
LEMMA HalvesJoin ==
    ASSUME NEW d
    PROVE  /\ Half(d, 1)[1] = Marshal(d)[1]
           /\ ~IsBigPackage(d.type) => Half(d, 1) = Marshal(d)
           /\ IsBigPackage(d.type) => Half(d, 1) \o Half(d, 2) = Marshal(d)
  <1> DEFINE w == Marshal(d)
             n == PackageWords(d.type)
             S == {w[i] : i \in 1..n}
  <1>1. n \in {4, 8} /\ (n = 8 <=> IsBigPackage(d.type)) /\ w \in Seq(S) /\ Len(w) = n
    BY MarshalWords
  <1> HIDE DEF w, n, S
  <1>2. Half(d, 1) = SubSeq(w, 1, 4) /\ Half(d, 2) = SubSeq(w, 5, 8)
    <2>1. (1 - 1) * 4 + 1 = 1 /\ 1 * 4 = 4 /\ (2 - 1) * 4 + 1 = 5 /\ 2 * 4 = 8
      OBVIOUS
    <2> QED BY <2>1 DEF Half, HalfWords, w
  <1>3. Half(d, 1)[1] = w[1]
    <2>1. \A i \in 1..4 : w[i] \in S
      BY <1>1, ElementOfSeq
    <2>2. SubSeq(w, 1, 4)[1] = w[1 + 1 - 1]
      BY <2>1, SubSeqProperties
    <2> QED BY <1>2, <2>2
  <1>4. ~IsBigPackage(d.type) => Half(d, 1) = w
    BY <1>1, <1>2, SubSeqFull
  <1>5. ASSUME IsBigPackage(d.type)
        PROVE  Half(d, 1) \o Half(d, 2) = w
    <2>1. Len(w) = 8 /\ 1 \in 1..(Len(w) + 1) /\ 4 \in (1 - 1)..Len(w) /\ 8 \in 4..Len(w) /\ 4 + 1 = 5
      BY <1>1, <1>5
    <2>2. SubSeq(w, 1, 4) \o SubSeq(w, 4 + 1, 8) = SubSeq(w, 1, 8)
      BY <1>1, <2>1, ConcatAdjacentSubSeq
    <2>3. SubSeq(w, 1, 8) = w
      BY <1>1, <2>1, SubSeqFull
    <2> QED BY <1>2, <2>1, <2>2, <2>3
  <1> QED BY <1>3, <1>4, <1>5 DEF w

\* The packets that may be written, and their halves.
AllSent ==
    {d \in {Filled(c, id) : c \in UNION {Content[s][n] : s \in Senders, n \in Nat}, id \in 1..MaxID} :
        Sendable(d)}
HalfOf(k, d, h) == [n |-> k, words |-> Half(d, h)]
AllHalves == {HalfOf(k, d, h) : k \in Nat, d \in AllSent, h \in 1..2} \cup {Truncated}

\* Encrypt numbers the halves of a packet on from the last one.
LEMMA HalvesNumbered ==
    ASSUME NEW d \in AllSent, chain \in Nat
    PROVE  LET hs == Halves(Marshal(d)) IN
           /\ hs \in Seq(AllHalves) /\ Len(hs) = Size(d) /\ Size(d) \in {1, 2}
           /\ \A h \in 1..Size(d) : hs[h] = HalfOf(chain + h, d, h)
  <1> DEFINE w == Marshal(d)
             hs == Halves(w)
             m == Len(w) \div HalfWords
  <1>1. Len(w) \in {4, 8} /\ (Len(w) = 8 <=> IsBigPackage(d.type))
    BY MarshalWords
  <1> HIDE DEF w
  <1>2. m = Size(d) /\ Size(d) \in {1, 2}
    <2>1. 4 \div 4 = 1 /\ 8 \div 4 = 2
      OBVIOUS
    <2>2. CASE Len(w) = 4
      BY <1>1, <2>1, <2>2 DEF HalfWords, Size
    <2>3. CASE Len(w) = 8
      BY <1>1, <2>1, <2>3 DEF HalfWords, Size
    <2> QED BY <1>1, <2>2, <2>3
  <1>3. hs = [h \in 1..m |-> [n |-> chain + h, words |-> Half(d, h)]]
    BY DEF Halves, Half, w
  <1> HIDE DEF hs, m
  <1>4. \A h \in 1..m : hs[h] = HalfOf(chain + h, d, h) /\ hs[h] \in AllHalves
    <2> TAKE h \in 1..m
    <2>1. hs[h] = HalfOf(chain + h, d, h)
      BY <1>3 DEF HalfOf
    <2>2. chain + h \in Nat /\ h \in 1..2
      BY <1>2
    <2> QED BY <2>1, <2>2 DEF AllHalves
  <1>5. hs \in [1..m -> AllHalves]
    BY <1>3, <1>4
  <1>6. hs \in Seq(AllHalves)
    BY <1>2, <1>5, SeqDef
  <1>7. Len(hs) = m
    BY <1>2, <1>5, <1>6, LenProperties
  <1> QED BY <1>2, <1>4, <1>6, <1>7 DEF hs, w

-----------------------------------------------------------------------------
\* f[i] halves were written before packet i.
Starts(f) ==
    /\ f \in [1..(Len(sent) + 1) -> Nat]
    /\ \A i \in 1..Len(sent) : f[i + 1] = f[i] + Size(sent[i])
    /\ \A i, j \in 1..(Len(sent) + 1) : i < j => f[i] < f[j]

\* What has been received are the first of the packets sent.
Received ==
    /\ sent \in Seq(AllSent)
    /\ got \in Seq({Unmarshal(Marshal(d)) : d \in AllSent})
    /\ Len(got) <= Len(sent)
    /\ \A i \in 1..Len(got) : got[i] = Unmarshal(Marshal(sent[i]))

\* While the connection is whole the cipher's chain ends with what is written,
\* or with the packet that is being written.
Chained(f) == broken \/ LET last == f[Len(sent) + 1] IN
    IF mu = nobody THEN chain = last
    ELSE LET d == sealed[mu].data IN
         /\ d \in AllSent
         /\ chain = last + Size(d)
         /\ sealed[mu].halves \in Seq(AllHalves)
         /\ Len(sealed[mu].halves) = Size(d)
         /\ \A h \in 1..Size(d) : sealed[mu].halves[h] = HalfOf(last + h, d, h)

\* The stream goes on where the reader is: half k of it is the k-th half after
\* the one read last.  When the connection broke in the middle of a write, one
\* half of the packet may follow, the first one of a big one.
Flows(f) == LET last == f[Len(sent) + 1] IN
    /\ \A i \in 1..Len(sent) : \A h \in 1..Size(sent[i]) :
         LET k == f[i] + h - linked
         IN  k \in 1..Len(stream) =>
                 stream[k] = Truncated \/ stream[k] = HalfOf(f[i] + h, sent[i], h)
    /\ \A k \in 1..Len(stream) :
         linked + k > last /\ stream[k] # Truncated =>
             /\ linked + k = last + 1
             /\ stream[k].n = last + 1
             /\ stream[k].words[1] # noise
             /\ IsBigPackage(stream[k].words[1][1])
    /\ broken \/ linked + Len(stream) = last
    /\ broken \/ \A k \in 1..Len(stream) : stream[k] # Truncated

\* The reader is at the start of packet m, or has its first half.
ReaderAt(f) == LET m == Len(got) + 1 IN
    \/ reader = "head" /\ linked = f[m]
    \/ /\ reader = "tail"
       /\ linked = f[m] + 1
       /\ m <= Len(sent) => IsBigPackage(sent[m].type) /\ first = Half(sent[m], 1)

\* Nothing comes any more.
Over == broken /\ stream = <<>> /\ reader # "tail"

InStep(f) ==
    /\ Starts(f)
    /\ Received
    /\ chain \in Nat /\ linked \in Nat /\ stream \in Seq(AllHalves)
    /\ sealed = [s \in Senders |-> sealed[s]]
    /\ Chained(f)
    /\ Over \/ (Flows(f) /\ ReaderAt(f))

WireInv == SenderInv /\ \E f : InStep(f)

\* Nothing is sent at first.
LEMMA WireInitially == WireInit => WireInv
  <1> SUFFICES ASSUME WireInit PROVE WireInv
    OBVIOUS
  <1> DEFINE f == [i \in 1..1 |-> 0]
  <1>1. SenderInv
    BY SenderInitially DEF WireInit
  <1>2. /\ mu = nobody /\ ~broken /\ chain = 0 /\ stream = <<>> /\ sent = <<>> /\ reader = "head"
        /\ linked = 0 /\ got = <<>>
    BY DEF WireInit, Init
  <1>3. Len(sent) = 0 /\ Len(got) = 0 /\ Len(stream) = 0 /\ f[1] = 0
    BY <1>2
  <1>4. Starts(f)
    BY <1>3 DEF Starts
  <1>5. Received
    BY <1>2, <1>3 DEF Received
  <1> HIDE DEF f
  <1>6. Chained(f) /\ Flows(f) /\ ReaderAt(f)
    BY <1>2, <1>3 DEF Chained, Flows, ReaderAt
  <1>7. sealed = [s \in Senders |-> sealed[s]]
    BY DEF WireInit
  <1>8. InStep(f)
    BY <1>2, <1>4, <1>5, <1>6, <1>7 DEF InStep
  <1> QED BY <1>1, <1>8 DEF WireInv

\* The bounds of what is written.
LEMMA StartsBounds ==
    ASSUME NEW f, Starts(f), Received
    PROVE  /\ Len(sent) \in Nat /\ Len(got) \in Nat /\ Len(got) <= Len(sent)
           /\ \A i \in 1..(Len(sent) + 1) : f[i] \in Nat
           /\ \A i \in 1..Len(sent) : sent[i] \in AllSent /\ Size(sent[i]) \in {1, 2}
           /\ \A i \in 1..Len(sent) : \A h \in 1..Size(sent[i]) :
                f[i] + h <= f[Len(sent) + 1]
  <1>1. Len(sent) \in Nat /\ Len(got) \in Nat /\ Len(got) <= Len(sent)
    BY LenProperties DEF Received
  <1>2. \A i \in 1..(Len(sent) + 1) : f[i] \in Nat
    BY DEF Starts
  <1>3. \A i \in 1..Len(sent) : sent[i] \in AllSent /\ Size(sent[i]) \in {1, 2}
    BY ElementOfSeq DEF Received, Size
  <1>4. ASSUME NEW i \in 1..Len(sent), NEW h \in 1..Size(sent[i])
        PROVE  f[i] + h <= f[Len(sent) + 1]
    <2>1. i + 1 \in 1..(Len(sent) + 1) /\ Len(sent) + 1 \in 1..(Len(sent) + 1) /\ i \in 1..(Len(sent) + 1)
      BY <1>1
    <2>2. f[i + 1] = f[i] + Size(sent[i])
      BY DEF Starts
    <2>3. f[i + 1] <= f[Len(sent) + 1]
      <3>1. CASE i = Len(sent)
        BY <1>2, <2>1, <3>1
      <3>2. CASE i < Len(sent)
        <4>1. f[i + 1] < f[Len(sent) + 1]
          BY <1>1, <2>1, <3>2 DEF Starts
        <4> QED BY <1>2, <2>1, <4>1
      <3> QED BY <1>1, <3>1, <3>2
    <2>4. Size(sent[i]) \in Nat /\ h <= Size(sent[i]) /\ h \in Nat
      BY <1>3
    <2> QED BY <1>2, <2>1, <2>2, <2>3, <2>4
  <1> QED BY <1>1, <1>2, <1>3, <1>4

\* A packet is numbered, marshalled and encrypted.
LEMMA PrepareKeeps ==
    ASSUME SenderInv, NEW f, InStep(f), NEW s \in Senders, Prepare(s)
    PROVE  InStep(f)'
  <1>1. /\ mu = nobody /\ mu' = s /\ nextID < MaxID /\ nextID' = nextID + 1
        /\ UNCHANGED <<broken, at, stream, sent, reader, first, linked, got>>
    BY DEF Prepare, TakeNumber, Acquire
  <1>2. PICK c \in Content[s][at[s]] :
          LET d == Filled(c, nextID') IN
          /\ sealed' = [sealed EXCEPT ![s] = [halves |-> Halves(Marshal(d)), data |-> d]]
          /\ chain' = chain + Len(Halves(Marshal(d)))
    BY DEF Prepare
  <1> DEFINE d == Filled(c, nextID')
             hs == Halves(Marshal(d))
  <1>3. d \in AllSent
    <2>1. nextID' \in 1..MaxID
      BY <1>1, SenderAssumption DEF SenderInv, TypeOK
    <2>2. at[s] \in 1..BurstLen[s] /\ at[s] \in Nat
      BY SenderAssumption DEF SenderInv, TypeOK
    <2>3. Sendable(d)
      BY <2>1, <2>2, ContentAssumption
    <2>4. c \in UNION {Content[t][n] : t \in Senders, n \in Nat}
      BY <2>2
    <2> QED BY <2>1, <2>3, <2>4 DEF AllSent
  <1>4. chain \in Nat
    BY DEF InStep
  <1>5. /\ hs \in Seq(AllHalves) /\ Len(hs) = Size(d) /\ Size(d) \in {1, 2}
        /\ \A h \in 1..Size(d) : hs[h] = HalfOf(chain + h, d, h)
    BY <1>3, <1>4, HalvesNumbered
  <1>6. sealed'[s] = [halves |-> hs, data |-> d] /\ chain' = chain + Len(hs)
    BY <1>2 DEF InStep
  <1> HIDE DEF d, hs
  <1>7. sealed'[s].halves = hs /\ sealed'[s].data = d
    BY <1>6
  <1>8. chain' \in Nat /\ chain' = chain + Size(d)
    BY <1>4, <1>5, <1>6
  <1>9. broken \/ chain = f[Len(sent) + 1]
    BY <1>1 DEF InStep, Chained
  <1>10. Chained(f)'
    <2>1. s # nobody
      BY SenderAssumption
    <2> QED BY <1>1, <1>3, <1>5, <1>7, <1>8, <1>9, <2>1 DEF Chained
  <1>11. sealed' = [t \in Senders |-> sealed'[t]]
    BY <1>2 DEF InStep
  <1> QED BY <1>1, <1>8, <1>10, <1>11
      DEF InStep, Starts, Received, Over, Flows, ReaderAt

\* The packet is written whole: it takes the place after the last one.
LEMMA TransmitKeeps ==
    ASSUME SenderInv, NEW f, InStep(f), NEW s \in Senders, Transmit(s)
    PROVE  \E g : InStep(g)'
  <1> DEFINE d == sealed[s].data
             hs == sealed[s].halves
  <1>0. PICK n \in Nat : n = Len(sent)
    BY StartsBounds DEF InStep
  <1>1. /\ mu = s /\ mu' = nobody /\ ~broken /\ ~broken' /\ s # nobody
        /\ stream' = stream \o hs /\ sent' = Append(sent, d)
        /\ sealed' = [sealed EXCEPT ![s] = NoPacket]
        /\ UNCHANGED <<chain, reader, first, linked, got>>
    BY SenderAssumption DEF Transmit, Write, SenderInv, LockIsHeld
  <1>2. PICK last \in Nat : last = f[n + 1]
    BY <1>0, StartsBounds DEF InStep
  <1>3. /\ d \in AllSent /\ chain = last + Size(d) /\ hs \in Seq(AllHalves) /\ Len(hs) = Size(d)
        /\ \A h \in 1..Size(d) : hs[h] = HalfOf(last + h, d, h)
        /\ Size(d) \in {1, 2}
    BY <1>0, <1>1, <1>2 DEF InStep, Chained, Size
  <1>4. Flows(f) /\ ReaderAt(f)
    BY <1>1 DEF InStep, Over
  <1> HIDE DEF d, hs
  <1>5. PICK e \in {1, 2} : e = Size(d)
    BY <1>3
  <1>6. /\ Len(sent') = n + 1 /\ sent' \in Seq(AllSent) /\ sent'[n + 1] = d
        /\ \A i \in 1..n : sent'[i] = sent[i]
    BY <1>0, <1>1, <1>3, AppendProperties DEF InStep, Received
  <1>7. PICK l \in Nat : l = Len(stream)
    BY LenProperties DEF InStep
  <1>8. /\ Len(stream') = l + e /\ stream' \in Seq(AllHalves)
        /\ \A k \in 1..l : stream'[k] = stream[k]
        /\ \A h \in 1..e : stream'[l + h] = HalfOf(last + h, d, h)
    <2>1. /\ stream' \in Seq(AllHalves) /\ Len(stream') = Len(stream) + Len(hs)
          /\ \A k \in 1..(Len(stream) + Len(hs)) :
               stream'[k] = IF k <= Len(stream) THEN stream[k] ELSE hs[k - Len(stream)]
      BY <1>1, <1>3, ConcatProperties DEF InStep
    <2>2. \A h \in 1..e : l + h \in 1..(l + e) /\ ~(l + h <= l) /\ (l + h) - l = h
      OBVIOUS
    <2> QED BY <1>3, <1>5, <1>7, <2>1, <2>2
  <1>9. linked \in Nat /\ linked + l = last
    BY <1>0, <1>1, <1>2, <1>4, <1>7 DEF InStep, Flows
  <1> DEFINE g == [i \in 1..(n + 2) |-> IF i = n + 2 THEN last + e ELSE f[i]]
  <1>10. /\ g \in [1..(n + 2) -> Nat] /\ g[n + 2] = last + e /\ g[n + 1] = last
         /\ \A i \in 1..(n + 1) : g[i] = f[i] /\ f[i] \in Nat
    <2>1. \A i \in 1..(n + 1) : f[i] \in Nat
      BY <1>0, StartsBounds DEF InStep
    <2>2. f[n + 1] = last
      BY <1>0, <1>2
    <2> QED BY <1>0, <2>1, <2>2
  <1> HIDE DEF g
  <1>11. Starts(g)'
    <2>1. \A i \in 1..(n + 1) : g[i + 1] = g[i] + Size(sent'[i])
      <3> TAKE i \in 1..(n + 1)
      <3>1. CASE i = n + 1
        BY <1>5, <1>6, <1>10, <3>1
      <3>2. CASE i # n + 1
        <4>1. i \in 1..n /\ i + 1 \in 1..(n + 1)
          BY <3>2
        <4> QED BY <1>0, <1>6, <1>10, <4>1 DEF InStep, Starts
      <3> QED BY <3>1, <3>2
    <2>2. ASSUME NEW i \in 1..(n + 2), NEW j \in 1..(n + 2), i < j
          PROVE  g[i] < g[j]
      <3>1. i \in 1..(n + 1)
        BY <2>2
      <3>2. CASE j \in 1..(n + 1)
        BY <1>0, <1>10, <2>2, <3>1, <3>2 DEF InStep, Starts
      <3>3. CASE j = n + 2
        <4>1. f[i] <= last
          <5>1. CASE i = n + 1
            BY <1>2, <5>1
          <5>2. CASE i < n + 1
            <6>1. f[i] < f[n + 1]
              BY <1>0, <3>1, <5>2 DEF InStep, Starts
            <6> QED BY <1>2, <1>10, <3>1, <6>1
          <5> QED BY <3>1, <5>1, <5>2
        <4> QED BY <1>10, <3>1, <3>3, <4>1
      <3> QED BY <3>2, <3>3
    <2> QED BY <1>6, <1>10, <2>1, <2>2 DEF Starts
  <1>12. Received'
    <2>1. Len(got) \in Nat /\ Len(got) <= n
      BY <1>0, StartsBounds DEF InStep
    <2> QED BY <1>0, <1>1, <1>6, <2>1 DEF InStep, Received
  <1>13. Chained(g)'
    BY <1>1, <1>3, <1>5, <1>6, <1>10 DEF Chained
  <1>14. Flows(g)'
    <2>1. ASSUME NEW i \in 1..(n + 1), NEW h \in 1..Size(sent'[i]),
                 g[i] + h - linked \in 1..(l + e)
          PROVE  stream'[g[i] + h - linked] = Truncated
                   \/ stream'[g[i] + h - linked] = HalfOf(g[i] + h, sent'[i], h)
      <3>1. CASE i = n + 1
        <4>1. h \in 1..e /\ g[i] + h = last + h /\ g[i] + h - linked = l + h
          BY <1>5, <1>6, <1>9, <1>10, <3>1
        <4> QED BY <1>6, <1>8, <3>1, <4>1
      <3>2. CASE i \in 1..n
        <4>1. sent'[i] = sent[i] /\ g[i] = f[i] /\ h \in 1..Size(sent[i]) /\ f[i] \in Nat
          BY <1>6, <1>10, <3>2
        <4>2. f[i] + h <= last
          BY <1>0, <1>2, <3>2, <4>1, StartsBounds DEF InStep
        <4>3. h \in Nat
          BY <1>0, <3>2, <4>1, StartsBounds DEF InStep
        <4>4. f[i] + h - linked \in 1..l
          BY <1>9, <2>1, <4>1, <4>2, <4>3
        <4>5. \/ stream[f[i] + h - linked] = Truncated
              \/ stream[f[i] + h - linked] = HalfOf(f[i] + h, sent[i], h)
          BY <1>0, <1>4, <1>7, <3>2, <4>1, <4>4 DEF Flows
        <4> QED BY <1>8, <4>1, <4>4, <4>5
      <3> QED BY <3>1, <3>2
    <2>2. linked' + Len(stream') = g[n + 2]
      BY <1>1, <1>8, <1>9, <1>10, SMTT(30)
    <2>3. \A k \in 1..Len(stream') : ~(linked' + k > g[n + 2])
      BY <1>1, <1>8, <1>9, <1>10
    <2>4. (n + 1) + 1 = n + 2
      OBVIOUS
    <2>5. ASSUME NEW k \in 1..(l + e)
          PROVE  stream'[k] # Truncated
      <3>1. CASE k <= l
        <4>1. k \in 1..l
          BY <3>1
        <4> QED BY <1>1, <1>4, <1>7, <1>8, <4>1 DEF Flows
      <3>2. CASE ~(k <= l)
        <4>1. k - l \in 1..e /\ l + (k - l) = k /\ last + (k - l) # 0
          BY <3>2
        <4>2. stream'[k] = HalfOf(last + (k - l), d, k - l)
          BY <1>8, <4>1
        <4> QED BY <4>1, <4>2 DEF HalfOf, Truncated
      <3> QED BY <3>1, <3>2
    <2> QED BY <1>1, <1>6, <1>8, <2>1, <2>2, <2>3, <2>4, <2>5 DEF Flows
  <1>15. ReaderAt(g)'
    <2>1. PICK m \in 1..(n + 1) : m = Len(got) + 1
      BY <1>0, StartsBounds DEF InStep
    <2>2. g[m] = f[m] /\ f[m] \in Nat
      BY <1>10
    <2>3. CASE reader = "head"
      BY <1>1, <1>4, <2>1, <2>2, <2>3 DEF ReaderAt
    <2>4. CASE reader = "tail"
      <3>1. linked = f[m] + 1
        BY <1>4, <2>1, <2>4 DEF ReaderAt
      <3>2. ASSUME m = n + 1 PROVE FALSE
        <4>1. linked = last + 1
          BY <1>2, <3>1, <3>2
        <4> QED BY <1>9, <4>1
      <3>3. m \in 1..n /\ m <= n
        BY <3>2
      <3> QED BY <1>0, <1>1, <1>4, <1>6, <2>1, <2>2, <2>4, <3>3 DEF ReaderAt
    <2> QED BY <1>4, <2>3, <2>4 DEF ReaderAt
  <1>16. sealed' = [t \in Senders |-> sealed'[t]]
    BY <1>1 DEF InStep
  <1>17. InStep(g)'
    BY <1>1, <1>8, <1>11, <1>12, <1>13, <1>14, <1>15, <1>16 DEF InStep
  <1> QED BY <1>17

\* The connection breaks and cuts the stream short.
LEMMA BreaksKeeps ==
    ASSUME SenderInv, NEW f, InStep(f), Breaks
    PROVE  InStep(f)'
  <1>1. /\ ~broken /\ broken' /\ UNCHANGED <<sealed, chain, sent, reader, first, linked, got>>
    BY DEF Breaks, ConnectionBreaks
  <1>2. Flows(f) /\ ReaderAt(f)
    BY <1>1 DEF InStep, Over
  <1>3. PICK last \in Nat : last = f[Len(sent) + 1]
    BY StartsBounds DEF InStep
  <1>4. PICK l \in Nat : l = Len(stream)
    BY LenProperties DEF InStep
  <1>5. linked \in Nat /\ linked + l = last
    BY <1>1, <1>2, <1>3, <1>4 DEF InStep, Flows
  <1>6. PICK n \in 0..Len(InFlight), cut \in {<<>>, <<Truncated>>} :
          stream' = SubSeq(InFlight, 1, n) \o cut
    BY DEF Breaks
  \* After what the stream held, at most the first half of a big packet.
  <1>7. /\ InFlight \in Seq(AllHalves)
        /\ \A k \in 1..Len(InFlight) :
             IF k <= l THEN InFlight[k] = stream[k]
             ELSE /\ k = l + 1
                  /\ InFlight[k].n = last + 1
                  /\ InFlight[k].words[1] # noise
                  /\ IsBigPackage(InFlight[k].words[1][1])
    <2>1. CASE mu = nobody
      BY <1>4, <2>1 DEF InFlight, InStep
    <2>2. CASE mu # nobody
      <3> DEFINE d == sealed[mu].data
                 hs == sealed[mu].halves
                 part == SubSeq(hs, 1, Len(hs) - 1)
      <3>1. /\ d \in AllSent /\ hs \in Seq(AllHalves) /\ Len(hs) = Size(d)
            /\ \A h \in 1..Size(d) : hs[h] = HalfOf(last + h, d, h)
        BY <1>1, <1>3, <2>2 DEF InStep, Chained
      <3> HIDE DEF d, hs
      <3>2. InFlight = stream \o part
        BY <2>2 DEF InFlight, hs
      <3>3. PICK e \in {0, 1} : Len(hs) - 1 = e /\ (e = 1 => IsBigPackage(d.type) /\ 1 \in 1..Size(d))
        BY <3>1 DEF Size
      <3>4. part \in Seq(AllHalves) /\ Len(part) = e /\ (e = 1 => part[1] = HalfOf(last + 1, d, 1))
        <4>1. \A i \in 1..e : hs[i] \in AllHalves
          BY <3>1, <3>3, ElementOfSeq
        <4>2. /\ SubSeq(hs, 1, e) \in Seq(AllHalves)
              /\ Len(SubSeq(hs, 1, e)) = IF 1 <= e THEN e - 1 + 1 ELSE 0
              /\ \A i \in 1..(e - 1 + 1) : SubSeq(hs, 1, e)[i] = hs[1 + i - 1]
          BY <4>1, SubSeqProperties
        <4>3. part = SubSeq(hs, 1, e)
          BY <3>3
        <4>4. e = 1 => part[1] = hs[1]
          BY <4>2, <4>3
        <4>5. Len(part) = e
          BY <4>2, <4>3
        <4>6. e = 1 => part[1] = HalfOf(last + 1, d, 1)
          BY <3>1, <3>3, <4>4
        <4> QED BY <4>2, <4>3, <4>5, <4>6
      <3> HIDE DEF part
      <3>5. /\ InFlight \in Seq(AllHalves) /\ Len(InFlight) = l + e
            /\ \A k \in 1..(l + e) : InFlight[k] = IF k <= l THEN stream[k] ELSE part[k - l]
        BY <1>4, <3>2, <3>4, ConcatProperties DEF InStep
      <3>6. ASSUME e = 1
            PROVE  /\ part[1].n = last + 1
                   /\ part[1].words[1] # noise
                   /\ IsBigPackage(part[1].words[1][1])
        <4>1. part[1].n = last + 1 /\ part[1].words = Half(d, 1)
          BY <3>4, <3>6 DEF HalfOf
        <4>2. Sendable(d)
          BY <3>1 DEF AllSent
        <4>3. Half(d, 1)[1] = <<d.type, d.id>>
          BY <4>2, HalvesJoin, WordsOf
        <4>4. noise # <<d.type, d.id>>
          BY <4>2 DEF Sendable
        <4>5. Half(d, 1)[1][1] = d.type
          BY <4>3
        <4> QED BY <3>3, <3>6, <4>1, <4>3, <4>4, <4>5
      <3>7. \A k \in 1..(l + e) : ~(k <= l) => k = l + 1 /\ e = 1 /\ k - l = 1
        OBVIOUS
      <3> QED BY <3>5, <3>6, <3>7
    <2> QED BY <2>1, <2>2
  <1>8. /\ stream' \in Seq(AllHalves)
        /\ \A k \in 1..Len(stream') :
             \/ stream'[k] = Truncated
             \/ k \in 1..Len(InFlight) /\ stream'[k] = InFlight[k]
    <2>1. n \in Nat /\ \A i \in 1..n : i \in 1..Len(InFlight) /\ InFlight[i] \in AllHalves
      BY <1>6, <1>7, LenProperties, ElementOfSeq
    <2> DEFINE kept == SubSeq(InFlight, 1, n)
    <2>2. /\ kept \in Seq(AllHalves) /\ Len(kept) = n
          /\ \A i \in 1..n : kept[i] = InFlight[i]
      <3>1. /\ kept \in Seq(AllHalves) /\ Len(kept) = IF 1 <= n THEN n - 1 + 1 ELSE 0
            /\ \A i \in 1..(n - 1 + 1) : kept[i] = InFlight[1 + i - 1]
        BY <2>1, SubSeqProperties
      <3>2. n - 1 + 1 = n /\ \A i \in 1..n : 1 + i - 1 = i
        BY <2>1
      <3> QED BY <2>1, <3>1, <3>2
    <2>3. /\ cut \in Seq(AllHalves) /\ Len(cut) \in {0, 1}
          /\ \A j \in 1..Len(cut) : cut[j] = Truncated
      <3>1. Truncated \in AllHalves
        BY DEF AllHalves
      <3>2. CASE cut = <<>>
        BY <3>2
      <3>3. CASE cut = <<Truncated>>
        BY <3>1, <3>3
      <3> QED BY <3>2, <3>3
    <2> HIDE DEF kept
    <2>4. /\ stream' \in Seq(AllHalves) /\ Len(stream') = n + Len(cut)
          /\ \A k \in 1..(n + Len(cut)) :
               stream'[k] = IF k <= n THEN kept[k] ELSE cut[k - n]
      BY <1>6, <2>2, <2>3, ConcatProperties DEF kept
    <2>5. ASSUME NEW k \in 1..(n + Len(cut))
          PROVE  \/ stream'[k] = Truncated
                 \/ k \in 1..Len(InFlight) /\ stream'[k] = InFlight[k]
      <3>1. CASE k <= n
        BY <2>1, <2>2, <2>4, <3>1
      <3>2. CASE ~(k <= n)
        <4>1. k - n \in 1..Len(cut)
          BY <2>1, <2>3, <3>2
        <4> QED BY <2>3, <2>4, <3>2, <4>1
      <3> QED BY <3>1, <3>2
    <2> QED BY <2>4, <2>5
  <1>9. PICK q \in Nat : q = Len(stream')
    BY <1>8, LenProperties
  <1>10. Flows(f)'
    <2>1. ASSUME NEW i \in 1..Len(sent), NEW h \in 1..Size(sent[i]),
                 f[i] + h - linked \in 1..q
          PROVE  stream'[f[i] + h - linked] = Truncated
                   \/ stream'[f[i] + h - linked] = HalfOf(f[i] + h, sent[i], h)
      <3>1. f[i] + h <= last /\ f[i] \in Nat /\ h \in Nat
        <4>1. Starts(f) /\ Received
          BY DEF InStep
        <4>2. f[i] \in Nat /\ h \in Nat
          BY <4>1, StartsBounds
        <4>3. f[i] + h <= f[Len(sent) + 1]
          BY <4>1, StartsBounds
        <4> QED BY <1>3, <4>2, <4>3
      <3>2. f[i] + h - linked \in 1..l
        BY <1>5, <2>1, <3>1
      <3>3. \/ stream[f[i] + h - linked] = Truncated
            \/ stream[f[i] + h - linked] = HalfOf(f[i] + h, sent[i], h)
        BY <1>2, <1>4, <3>2 DEF Flows
      <3>4. \/ stream'[f[i] + h - linked] = Truncated
            \/ stream'[f[i] + h - linked] = stream[f[i] + h - linked]
        BY <1>7, <1>8, <1>9, <2>1, <3>2
      <3> QED BY <3>3, <3>4
    <2>2. ASSUME NEW k \in 1..q, linked + k > last, stream'[k] # Truncated
          PROVE  /\ linked + k = last + 1 /\ stream'[k].n = last + 1
                 /\ stream'[k].words[1] # noise
                 /\ IsBigPackage(stream'[k].words[1][1])
      <3>1. ~(k <= l)
        BY <1>5, <2>2
      <3>2. k \in 1..Len(InFlight) /\ stream'[k] = InFlight[k]
        BY <1>8, <1>9, <2>2
      <3>3. /\ k = l + 1 /\ InFlight[k].n = last + 1
            /\ InFlight[k].words[1] # noise
            /\ IsBigPackage(InFlight[k].words[1][1])
        BY <1>7, <3>1, <3>2
      <3>4. linked + k = last + 1
        BY <1>5, <3>3
      <3> QED BY <3>2, <3>3, <3>4
    <2> QED BY <1>1, <1>3, <1>9, <2>1, <2>2 DEF Flows
  <1>11. ReaderAt(f)'
    BY <1>1, <1>2 DEF ReaderAt
  <1> QED BY <1>1, <1>8, <1>10, <1>11 DEF InStep, Starts, Received, Chained

\* The reader takes the next half of the stream.
LEMMA TakeKeepsFlow ==
    ASSUME NEW f, InStep(f), Flows(f), stream # <<>>,
           stream' = Tail(stream), linked' = linked + 1, UNCHANGED <<sent, broken>>
    PROVE  Flows(f)' /\ stream' \in Seq(AllHalves) /\ linked' \in Nat
  <1>1. PICK l \in Nat : l = Len(stream) /\ l # 0
    BY LenProperties, EmptySeq DEF InStep
  <1>2. /\ stream' \in Seq(AllHalves) /\ Len(stream') = l - 1
        /\ \A k \in 1..(l - 1) : stream'[k] = stream[k + 1] /\ k + 1 \in 1..l
    BY <1>1, HeadTailProperties DEF InStep
  <1>3. linked \in Nat
    BY DEF InStep
  <1>4. PICK last \in Nat : last = f[Len(sent) + 1]
    <2>1. Starts(f) /\ Received
      BY DEF InStep
    <2>2. f[Len(sent) + 1] \in Nat
      BY <2>1, StartsBounds
    <2> QED BY <2>2
  <1>5. ASSUME NEW i \in 1..Len(sent), NEW h \in 1..Size(sent[i]),
               f[i] + h - linked' \in 1..(l - 1)
        PROVE  stream'[f[i] + h - linked'] = Truncated
                 \/ stream'[f[i] + h - linked'] = HalfOf(f[i] + h, sent[i], h)
    <2>1. f[i] \in Nat /\ h \in Nat
      BY StartsBounds DEF InStep
    <2>2. (f[i] + h - linked') + 1 = f[i] + h - linked
      BY <1>3, <2>1
    <2>3. f[i] + h - linked \in 1..l
      BY <1>2, <1>5, <2>2
    <2> QED BY <1>1, <1>2, <1>5, <2>2, <2>3 DEF Flows
  <1>6. ASSUME NEW k \in 1..(l - 1), linked' + k > last, stream'[k] # Truncated
        PROVE  /\ linked' + k = last + 1 /\ stream'[k].n = last + 1
               /\ stream'[k].words[1] # noise
               /\ IsBigPackage(stream'[k].words[1][1])
    <2>1. linked' + k = linked + (k + 1) /\ k + 1 \in 1..l /\ stream'[k] = stream[k + 1]
      BY <1>2, <1>3
    <2> QED BY <1>1, <1>4, <1>6, <2>1 DEF Flows
  <1>7. broken' \/ linked' + Len(stream') = last
    BY <1>1, <1>2, <1>3, <1>4 DEF Flows
  <1>8. \A i \in 1..Len(sent') : \A h \in 1..Size(sent'[i]) :
          LET k == f[i] + h - linked'
          IN  k \in 1..Len(stream') =>
                  stream'[k] = Truncated \/ stream'[k] = HalfOf(f[i] + h, sent'[i], h)
    BY <1>2, <1>5
  <1>9. \A k \in 1..Len(stream') :
          linked' + k > last /\ stream'[k] # Truncated =>
              /\ linked' + k = last + 1 /\ stream'[k].n = last + 1
              /\ stream'[k].words[1] # noise
              /\ IsBigPackage(stream'[k].words[1][1])
    BY <1>2, <1>6
  <1>10. f[Len(sent') + 1] = last
    BY <1>4
  <1>11. broken' \/ \A k \in 1..Len(stream') : stream'[k] # Truncated
    BY <1>1, <1>2 DEF Flows
  <1>12. Flows(f)'
    BY <1>7, <1>8, <1>9, <1>10, <1>11 DEF Flows
  <1> QED BY <1>2, <1>3, <1>12

\* The half the reader takes is the next one of packet m, or the first and only
\* one of a big packet whose write was broken off.
LEMMA NextHalf ==
    ASSUME NEW f, InStep(f), Flows(f), ReaderAt(f), stream # <<>>, Head(stream) # Truncated
    PROVE  LET m == Len(got) + 1
               h == IF reader = "head" THEN 1 ELSE 2
           IN  /\ Head(stream).n = linked + 1 /\ linked \in Nat
               /\ m \in Nat /\ f[m] \in Nat /\ m <= Len(sent) + 1
               /\ m <= Len(sent) => sent[m] \in AllSent /\ Head(stream).words = Half(sent[m], h)
               /\ m > Len(sent) =>
                    /\ reader = "head"
                    /\ Head(stream).words[1] # noise
                    /\ IsBigPackage(Head(stream).words[1][1])
  <1> DEFINE m == Len(got) + 1
             h == IF reader = "head" THEN 1 ELSE 2
  <1>1. PICK last \in Nat : last = f[Len(sent) + 1]
    BY StartsBounds DEF InStep
  <1>2. /\ m \in Nat /\ m \in 1..(Len(sent) + 1) /\ f[m] \in Nat /\ linked \in Nat
        /\ Len(sent) \in Nat
    BY StartsBounds DEF InStep
  <1>3. 1 \in 1..Len(stream) /\ Head(stream) = stream[1]
    BY LenProperties, EmptySeq DEF InStep
  <1>4. linked + 1 = f[m] + h /\ f[m] + h - linked = 1
    BY <1>2 DEF ReaderAt
  <1>5. CASE m <= Len(sent)
    <2>1. m \in 1..Len(sent) /\ sent[m] \in AllSent
      BY <1>2, <1>5, StartsBounds DEF InStep
    <2>2. h \in 1..Size(sent[m])
      BY <1>5 DEF ReaderAt, Size
    <2> HIDE DEF m, h
    <2>3. stream[1] = Truncated \/ stream[1] = HalfOf(f[m] + h, sent[m], h)
      <3>1. \A i \in 1..Len(sent) : \A x \in 1..Size(sent[i]) :
              f[i] + x - linked \in 1..Len(stream) =>
                 \/ stream[f[i] + x - linked] = Truncated
                 \/ stream[f[i] + x - linked] = HalfOf(f[i] + x, sent[i], x)
        BY DEF Flows
      <3> QED BY <1>3, <1>4, <2>1, <2>2, <3>1, Zenon
    <2>4. Head(stream).n = f[m] + h /\ Head(stream).words = Half(sent[m], h)
      BY <1>3, <2>3 DEF HalfOf
    <2> QED BY <1>2, <1>4, <1>5, <2>1, <2>4 DEF m, h
  <1>6. CASE m > Len(sent)
    <2>1. m = Len(sent) + 1
      BY <1>2, <1>6
    <2>2. linked + 1 > last
      BY <1>1, <1>2, <1>4, <2>1
    <2>3. /\ linked + 1 = last + 1 /\ stream[1].n = last + 1
          /\ stream[1].words[1] # noise /\ IsBigPackage(stream[1].words[1][1])
      BY <1>1, <1>3, <2>2 DEF Flows
    <2>4. reader = "head"
      BY <1>1, <1>2, <1>4, <2>1, <2>3 DEF ReaderAt
    <2> QED BY <1>2, <1>3, <1>6, <2>3, <2>4
  <1> QED BY <1>2, <1>5, <1>6

\* A packet is whole: it is the one after those received.
LEMMA DeliverKeeps ==
    ASSUME NEW f, Starts(f), Received, Len(got) + 1 <= Len(sent),
           Deliver(Marshal(sent[Len(got) + 1])), UNCHANGED sent
    PROVE  /\ Received' /\ Len(got') = Len(got) + 1
           /\ f[Len(got') + 1] = f[Len(got) + 1] + Size(sent[Len(got) + 1])
  <1> DEFINE m == Len(got) + 1
             d == sent[m]
             R == {Unmarshal(Marshal(x)) : x \in AllSent}
  <1>1. Len(sent) \in Nat /\ Len(got) \in Nat /\ m \in 1..Len(sent) /\ d \in AllSent
    BY StartsBounds
  <1>2. Sendable(d)
    BY <1>1 DEF AllSent
  <1>3. got' = Append(got, Unmarshal(Marshal(d)))
    BY <1>2, RoundTrip DEF Deliver
  <1>4. Unmarshal(Marshal(d)) \in R
    BY <1>1
  <1>5. got \in Seq(R)
    BY DEF Received
  <1> HIDE DEF R
  <1>6. /\ got' \in Seq(R) /\ Len(got') = m /\ got'[m] = Unmarshal(Marshal(d))
        /\ \A i \in 1..Len(got) : got'[i] = got[i]
    BY <1>3, <1>4, <1>5, AppendProperties
  <1>7. \A i \in 1..m : got'[i] = Unmarshal(Marshal(sent[i]))
    BY <1>1, <1>6 DEF Received
  <1>8. Received'
    BY <1>1, <1>6, <1>7 DEF Received, R
  <1> QED BY <1>1, <1>6, <1>8 DEF Starts

\* readPacket takes the first half of a packet.
LEMMA ReadHeadKeeps ==
    ASSUME NEW f, InStep(f), ReadHead
    PROVE  InStep(f)'
  <1> DEFINE m == Len(got) + 1
             w == Head(stream).words
  <1>1. /\ reader = "head" /\ stream # <<>> /\ Head(stream) # Truncated
        /\ stream' = Tail(stream) /\ linked' = Head(stream).n
        /\ UNCHANGED <<broken, mu, sealed, chain, sent>>
    BY DEF ReadHead, vars
  <1>2. Flows(f) /\ ReaderAt(f) /\ Starts(f) /\ Received
    BY <1>1 DEF InStep, Over
  <1>3. /\ linked' = linked + 1 /\ linked \in Nat /\ Decrypt(Head(stream)) = w
        /\ m \in Nat /\ f[m] \in Nat /\ m <= Len(sent) + 1
    BY <1>1, <1>2, NextHalf DEF Decrypt
  <1>4. Flows(f)' /\ stream' \in Seq(AllHalves) /\ linked' \in Nat
    BY <1>1, <1>2, <1>3, TakeKeepsFlow
  <1>5. PICK big \in IF w[1] = noise THEN BOOLEAN ELSE {IsBigPackage(w[1][1])} :
          /\ reader' = IF big THEN "tail" ELSE "head"
          /\ first' = IF big THEN w ELSE <<>>
          /\ IF big THEN UNCHANGED got ELSE Deliver(w)
    BY <1>3 DEF ReadHead
  <1>6. linked = f[m] /\ Len(sent) \in Nat
    BY <1>1, <1>2, StartsBounds DEF ReaderAt
  <1>7. Chained(f)' /\ Starts(f)' /\ (sealed' = [s \in Senders |-> sealed'[s]]) /\ chain' \in Nat
    BY <1>1 DEF InStep, Chained, Starts
  <1>8. CASE m <= Len(sent)
    <2> DEFINE d == sent[m]
    <2>1. d \in AllSent /\ w = Half(d, 1)
      BY <1>1, <1>2, <1>8, NextHalf
    <2>2. Sendable(d)
      BY <2>1 DEF AllSent
    <2>3. w[1] = <<d.type, d.id>> /\ w[1] # noise
      <3>1. w[1] = Marshal(d)[1]
        BY <2>1, HalvesJoin
      <3>2. Marshal(d)[1] = <<d.type, d.id>>
        BY <2>2, WordsOf
      <3>3. noise # <<d.type, d.id>>
        BY <2>2 DEF Sendable
      <3> QED BY <3>1, <3>2, <3>3
    <2>4. w[1][1] = d.type
      BY <2>3
    <2> HIDE DEF w, d
    <2>5. big = IsBigPackage(d.type)
      BY <1>5, <2>3, <2>4
    <2>6. CASE IsBigPackage(d.type)
      <3>1. UNCHANGED got /\ reader' = "tail" /\ first' = Half(d, 1)
        BY <1>5, <2>1, <2>5, <2>6
      <3>2. ReaderAt(f)'
        BY <1>1, <1>3, <1>6, <2>6, <3>1 DEF ReaderAt, d
      <3>3. Received'
        BY <1>1, <1>2, <3>1 DEF Received
      <3> QED BY <1>4, <1>7, <3>2, <3>3 DEF InStep
    <2>7. CASE ~IsBigPackage(d.type)
      <3>1. Deliver(Marshal(d)) /\ reader' = "head"
        BY <1>5, <2>1, <2>5, <2>7, HalvesJoin
      <3>2. Received' /\ f[Len(got') + 1] = f[m] + Size(d)
        BY <1>1, <1>2, <1>8, <3>1, DeliverKeeps DEF d
      <3>3. Size(d) = 1
        BY <2>7 DEF Size
      <3>4. ReaderAt(f)'
        BY <1>3, <1>6, <3>1, <3>2, <3>3 DEF ReaderAt
      <3> QED BY <1>4, <1>7, <3>2, <3>4 DEF InStep
    <2> QED BY <2>6, <2>7
  <1>9. CASE m > Len(sent)
    <2>1. w[1] # noise /\ IsBigPackage(w[1][1])
      BY <1>1, <1>2, <1>9, NextHalf
    <2>2. UNCHANGED got /\ reader' = "tail"
      BY <1>5, <2>1
    <2>3. ReaderAt(f)'
      BY <1>1, <1>3, <1>6, <1>9, <2>2 DEF ReaderAt
    <2>4. Received'
      BY <1>1, <1>2, <2>2 DEF Received
    <2> QED BY <1>4, <1>7, <2>3, <2>4 DEF InStep
  <1> QED BY <1>3, <1>6, <1>8, <1>9

\* readPacket takes the second half and Receive returns the packet.
LEMMA ReadTailKeeps ==
    ASSUME NEW f, InStep(f), ReadTail
    PROVE  InStep(f)'
  <1> DEFINE m == Len(got) + 1
             d == sent[m]
  <1>1. /\ reader = "tail" /\ stream # <<>> /\ Head(stream) # Truncated
        /\ stream' = Tail(stream) /\ linked' = Head(stream).n /\ reader' = "head"
        /\ Deliver(first \o Decrypt(Head(stream)))
        /\ UNCHANGED <<broken, mu, sealed, chain, sent>>
    BY DEF ReadTail, vars
  <1>2. Flows(f) /\ ReaderAt(f) /\ Starts(f) /\ Received
    BY <1>1 DEF InStep, Over
  <1>3. /\ linked' = linked + 1 /\ linked \in Nat
        /\ Decrypt(Head(stream)) = Head(stream).words
        /\ m \in Nat /\ f[m] \in Nat /\ m <= Len(sent)
        /\ d \in AllSent /\ Head(stream).words = Half(d, 2)
    <2>1. Len(sent) \in Nat
      BY <1>2, StartsBounds
    <2> QED BY <1>1, <1>2, <2>1, NextHalf DEF Decrypt
  <1>4. Flows(f)' /\ stream' \in Seq(AllHalves) /\ linked' \in Nat
    BY <1>1, <1>2, <1>3, TakeKeepsFlow
  <1>5. IsBigPackage(d.type) /\ first = Half(d, 1) /\ linked = f[m] + 1
    BY <1>1, <1>2, <1>3 DEF ReaderAt
  <1>6. Deliver(Marshal(d))
    BY <1>1, <1>3, <1>5, HalvesJoin
  <1>7. Received' /\ f[Len(got') + 1] = f[m] + Size(d)
    BY <1>1, <1>2, <1>3, <1>6, DeliverKeeps
  <1>8. Size(d) = 2
    BY <1>5 DEF Size
  <1>9. ReaderAt(f)'
    BY <1>1, <1>3, <1>5, <1>7, <1>8 DEF ReaderAt
  <1>10. Chained(f)' /\ Starts(f)' /\ (sealed' = [s \in Senders |-> sealed'[s]]) /\ chain' \in Nat
    BY <1>1 DEF InStep, Chained, Starts
  <1> QED BY <1>4, <1>7, <1>9, <1>10 DEF InStep

\* The stream ends: nothing can be lost or invented any more.
LEMMA EndKeeps ==
    ASSUME NEW f, InStep(f), ReadBreaksOff \/ ReadEOF
    PROVE  InStep(f)'
  <1>1. /\ stream' = <<>> /\ reader' # "tail"
        /\ UNCHANGED <<broken, mu, sealed, chain, sent, linked, got>>
    BY DEF ReadBreaksOff, ReadEOF, vars
  <1>2. broken
    <2>1. CASE ReadEOF \/ (reader = "tail" /\ stream = <<>> /\ broken)
      BY <2>1 DEF ReadEOF
    <2>2. CASE stream = <<Truncated>> /\ ~broken
      <3>1. Flows(f)
        BY <2>2 DEF InStep, Over
      <3>2. 1 \in 1..Len(stream) /\ stream[1] = Truncated
        BY <2>2
      <3> QED BY <2>2, <3>1, <3>2 DEF Flows
    <2> QED BY <2>1, <2>2 DEF ReadBreaksOff
  <1> QED BY <1>1, <1>2 DEF InStep, Starts, Received, Chained, Over
-----------------------------------------------------------------------------
\* Every step of Wire is one of the sender alone, or none.
LEMMA WireStepsSend == [WireNext]_allVars => [Next]_vars
  <1> SUFFICES ASSUME [WireNext]_allVars PROVE [Next]_vars
    OBVIOUS
  <1>1. ASSUME NEW s \in Senders, SenderStep(s)
        PROVE  SendStep(s)
    BY <1>1 DEF SenderStep, SendStep, Prepare, Transmit, TransmitFails
  <1>2. ReaderStep => UNCHANGED vars
    BY DEF ReaderStep, ReadHead, ReadTail, ReadBreaksOff, ReadEOF
  <1>3. Breaks => ConnectionBreaks
    BY DEF Breaks
  <1>4. UNCHANGED allVars => UNCHANGED vars
    BY DEF allVars
  <1> QED BY <1>1, <1>2, <1>3, <1>4 DEF WireNext, Next

\* WireInv is inductive.
LEMMA WireInductive == WireInv /\ [WireNext]_allVars => WireInv'
  <1> SUFFICES ASSUME WireInv, [WireNext]_allVars PROVE WireInv'
    OBVIOUS
  <1>1. SenderInv /\ SenderInv'
    BY WireStepsSend, SenderInductive DEF WireInv
  <1>2. PICK f : InStep(f)
    BY DEF WireInv
  <1>3. ASSUME UNCHANGED <<broken, mu>>, UNCHANGED wireVars
        PROVE  InStep(f)'
    <2>1. UNCHANGED <<broken, mu, sealed, chain, stream, sent, reader, first, linked, got>>
      BY <1>3 DEF wireVars
    <2>2. Starts(f)' /\ Received' /\ Chained(f)'
      BY <1>2, <2>1 DEF InStep, Starts, Received, Chained
    <2>3. Over' \/ (Flows(f)' /\ ReaderAt(f)')
      BY <1>2, <2>1 DEF InStep, Over, Flows, ReaderAt
    <2> QED BY <1>2, <2>1, <2>2, <2>3 DEF InStep
  <1>4. ASSUME NEW s \in Senders, TransmitFails(s)
        PROVE  InStep(f)'
    <2>1. /\ broken /\ broken' /\ sealed' = [sealed EXCEPT ![s] = NoPacket]
          /\ UNCHANGED <<chain, stream, sent, reader, first, linked, got>>
      BY <1>4 DEF TransmitFails, WriteFails
    <2>2. sealed' = [t \in Senders |-> sealed'[t]]
      BY <1>2, <2>1 DEF InStep
    <2> QED BY <1>2, <2>1, <2>2 DEF InStep, Starts, Received, Chained, Over, Flows, ReaderAt
  <1>5. ASSUME NEW s \in Senders, SendDropped(s) \/ SendChecked(s)
        PROVE  UNCHANGED <<broken, mu>>
    BY <1>5 DEF SendDropped, SendChecked
  <1>6. Exhausted => UNCHANGED <<broken, mu>>
    BY DEF Exhausted, vars
  <1>7. UNCHANGED allVars => UNCHANGED <<broken, mu>> /\ UNCHANGED wireVars
    BY DEF allVars, vars
  <1>8. CASE \E s \in Senders : SenderStep(s)
    <2>1. PICK s \in Senders : SenderStep(s)
      BY <1>8
    <2>2. CASE Prepare(s)
      <3>1. InStep(f)'
        BY <1>1, <1>2, <2>2, PrepareKeeps
      <3> QED BY <1>1, <3>1 DEF WireInv
    <2>3. CASE Transmit(s)
      <3>1. \E g : InStep(g)'
        BY <1>1, <1>2, <2>3, TransmitKeeps
      <3> QED BY <1>1, <3>1 DEF WireInv
    <2>4. CASE TransmitFails(s)
      <3>1. InStep(f)'
        BY <1>4, <2>4
      <3> QED BY <1>1, <3>1 DEF WireInv
    <2>5. CASE (SendDropped(s) \/ SendChecked(s)) /\ UNCHANGED wireVars
      <3>1. InStep(f)'
        BY <1>3, <1>5, <2>5
      <3> QED BY <1>1, <3>1 DEF WireInv
    <2> QED BY <2>1, <2>2, <2>3, <2>4, <2>5 DEF SenderStep
  <1>9. CASE ReaderStep
    <2>1. InStep(f)'
      BY <1>2, <1>9, ReadHeadKeeps, ReadTailKeeps, EndKeeps DEF ReaderStep
    <2> QED BY <1>1, <2>1 DEF WireInv
  <1>10. CASE Breaks
    <2>1. InStep(f)'
      BY <1>1, <1>2, <1>10, BreaksKeeps
    <2> QED BY <1>1, <2>1 DEF WireInv
  <1>11. CASE (Exhausted /\ UNCHANGED wireVars) \/ UNCHANGED allVars
    <2>1. InStep(f)'
      BY <1>3, <1>6, <1>7, <1>11
    <2> QED BY <1>1, <2>1 DEF WireInv
  <1> QED BY <1>8, <1>9, <1>10, <1>11 DEF WireNext

\* The encrypted stream sends what the sender alone sends: Wire implements
\* SessionSender, and with it the order of its packets.
THEOREM WireImplementsSender == WireSpec => Spec
  <1>1. WireInit => Init
    BY DEF WireInit
  <1> QED BY <1>1, WireStepsSend, PTL DEF WireSpec, Spec

\* The packets on the stream are numbered without a gap and their bursts are
\* in order.
THEOREM WireKeepsOrder == WireSpec => [](WireIDsConsecutive /\ BurstsKeepOrder)
  BY WireImplementsSender, WireNumbering, BurstOrder, PTL

\* Reader and writer stay aligned: what Receive returns are the first of the
\* packets sent, none invented, and none missing once a whole stream is read.
THEOREM Aligned == WireSpec => []StreamStaysAligned
  <1>1. ASSUME WireInv
        PROVE  StreamStaysAligned
    <2>1. PICK f : InStep(f)
      BY <1>1 DEF WireInv
    <2>2. /\ Len(sent) \in Nat /\ Len(got) \in Nat /\ Len(got) <= Len(sent)
          /\ \A i \in 1..Len(sent) : sent[i] \in AllSent
      BY <2>1, StartsBounds DEF InStep
    <2>3. ASSUME NEW i \in 1..Len(got)
          PROVE  got[i].type = sent[i].type
      <3>1. got[i] = Unmarshal(Marshal(sent[i])) /\ i \in 1..Len(sent)
        BY <2>1, <2>2 DEF InStep, Received
      <3>2. Sendable(sent[i])
        BY <2>2, <3>1 DEF AllSent
      <3> QED BY <3>1, <3>2, RoundTrip DEF Intact
    <2>4. ASSUME stream = <<>>, reader = "head", ~broken
          PROVE  Len(got) = Len(sent)
      <3>1. Flows(f) /\ ReaderAt(f) /\ Starts(f)
        BY <2>1, <2>4 DEF InStep, Over
      <3>2. linked = f[Len(got) + 1] /\ linked + Len(stream) = f[Len(sent) + 1] /\ linked \in Nat
        BY <2>1, <2>4, <3>1 DEF ReaderAt, Flows, InStep
      <3>3. f[Len(got) + 1] = f[Len(sent) + 1] /\ f[Len(got) + 1] \in Nat
        BY <2>4, <3>2
      <3>4. /\ Len(got) + 1 \in 1..(Len(sent) + 1) /\ Len(sent) + 1 \in 1..(Len(sent) + 1)
            /\ Len(got) + 1 < Len(sent) + 1 => f[Len(got) + 1] < f[Len(sent) + 1]
        BY <2>2, <3>1 DEF Starts
      <3> QED BY <2>2, <3>3, <3>4
    <2> QED BY <2>2, <2>3, <2>4 DEF StreamStaysAligned
  <1>2. WireInv => StreamStaysAligned
    BY <1>1
  <1> QED BY <1>2, WireInitially, WireInductive, PTL DEF WireSpec

\* What receiveLoop uses of a packet arrives as it was sent, for every traffic
\* that Sendable admits and every machine name.
THEOREM PayloadArrives == WireSpec => []PayloadIntact
  <1>1. ASSUME WireInv
        PROVE  PayloadIntact
    <2>1. PICK f : InStep(f)
      BY <1>1 DEF WireInv
    <2>2. ASSUME NEW i \in DOMAIN got \cap DOMAIN sent
          PROVE  Intact(sent[i], got[i])
      <3>1. i \in 1..Len(got) /\ i \in 1..Len(sent)
        BY <2>1, LenProperties DEF InStep, Received
      <3>2. sent[i] \in AllSent /\ got[i] = Unmarshal(Marshal(sent[i]))
        BY <2>1, <3>1, StartsBounds DEF InStep, Received
      <3>3. Sendable(sent[i])
        BY <3>2 DEF AllSent
      <3> QED BY <3>2, <3>3, RoundTrip
    <2> QED BY <2>2 DEF PayloadIntact, Intact
  <1>2. WireInv => PayloadIntact
    BY <1>1
  <1> QED BY <1>2, WireInitially, WireInductive, PTL DEF WireSpec
=============================================================================
