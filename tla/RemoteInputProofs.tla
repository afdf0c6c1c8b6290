------------------------- MODULE RemoteInputProofs -------------------------
(***************************************************************************)
(* Proofs about RemoteInput for any keys, tables, screens and number of    *)
(* packets on their way.  The argument: the packets on their way, replayed *)
(* on the devices as they are now, lead to what the user holds now.        *)
(***************************************************************************)
EXTENDS RemoteInput, SequenceTheorems, TLAPS

MaxAbs == 65535

Messages == {"MOVE", "WHEEL", "LBUTTON", "RBUTTON", "MBUTTON", "XBUTTON"}

MousePackets ==
    [type : {"Mouse"}, x : 0..MaxAbs, wheel : Int, msg : Messages, pressed : BOOLEAN]
\* A key goes out as a key of the table that the virtual keyboard has.
KeyNames == {vk \in DOMAIN VKToLinux : VKToLinux[vk] \in KeyBits}
KeyboardPackets == [type : {"Keyboard"}, vk : KeyNames, up : BOOLEAN]
SwitchPackets == [type : {"MachineSwitched"}]

AllPackets == MousePackets \cup KeyboardPackets \cup SwitchPackets

-----------------------------------------------------------------------------
\* The numbers among the constants.
LEMMA Numbers ==
    /\ Unit \in Nat \ {0} /\ Unit % 2 = 0 /\ SourceWidth \in Nat \ {0} /\ ScreenW \in Nat \ {0}
    /\ ScreenW <= 65536
    /\ Gain \in Nat \ {0} /\ MaxWire \in Nat /\ Steps \subseteq Int /\ Notches \subseteq Int
    /\ StartPointers \subseteq 0..(ScreenW - 1)
  BY RemoteAssumption

\* (The provers would write out a range with literal bounds.)
LEMMA MaxAbsIs == MaxAbs \in Nat /\ MaxAbs = 65535
  BY DEF MaxAbs

\* The same without the number, which makes the provers enumerate ranges.
LEMMA MaxAbsTyped == MaxAbs \in Nat
  BY MaxAbsIs

\* Division in Int: the quotient is the largest that fits.
LEMMA Quotient ==
    ASSUME NEW a \in Int, NEW b \in Nat \ {0}
    PROVE  /\ a \div b \in Int
           /\ b * (a \div b) <= a /\ a < b * (a \div b) + b
  OBVIOUS

\* Products grow with their factors.
LEMMA ProductGrows ==
    ASSUME NEW a \in Int, NEW b \in Int, NEW n \in Nat, a <= b
    PROVE  a * n <= b * n
  OBVIOUS

\* A clamped value is in its range.
LEMMA ClampInRange ==
    ASSUME NEW v \in Int, NEW lo \in Int, NEW hi \in Int, lo <= hi
    PROVE  clamp(v, lo, hi) \in lo..hi /\ (v \in lo..hi => clamp(v, lo, hi) = v)
  BY DEF clamp

\* The width of the source screen in the units of the cursor.
LEMMA CursorRange == MaxCursor \in Nat \ {0} /\ MaxCursor = 2 * (MaxCursor \div 2)
                     /\ MaxCursor \div 2 \in 0..MaxCursor
  <1>1. PICK u \in Nat \ {0} : u = Unit /\ u % 2 = 0
    BY Numbers
  <1>2. PICK h \in Nat \ {0} : u = 2 * h
    <2>1. u \div 2 \in Nat \ {0} /\ u = 2 * (u \div 2)
      BY <1>1
    <2> QED BY <2>1
  <1>3. PICK m \in Nat \ {0} : m = SourceWidth * h
    BY Numbers
  <1>4. MaxCursor = 2 * m
    BY <1>1, <1>2, <1>3, Numbers DEF MaxCursor
  <1> QED BY <1>4

\* What is sent is in 0..MaxAbs.
LEMMA AbsoluteInRange ==
    ASSUME NEW pos \in 0..MaxCursor
    PROVE  pixelToAbsolute(pos) \in 0..MaxAbs
  <1>1. 2 * MaxCursor \in Nat \ {0} /\ 2 * pos * 65535 + MaxCursor \in Int
    BY CursorRange
  <1>2. PICK q \in Int : q = (2 * pos * 65535 + MaxCursor) \div (2 * MaxCursor)
    BY <1>1, Quotient
  <1>3. clamp(q, 0, MaxAbs) \in 0..MaxAbs
    <2>1. MaxAbs \in Int /\ 0 <= MaxAbs
      BY MaxAbsIs
    <2> QED BY <2>1, ClampInRange
  <1>4. pixelToAbsolute(pos) = clamp(q, 0, MaxAbs)
    BY <1>2, MaxAbsIs DEF pixelToAbsolute
  <1> QED BY <1>3, <1>4

\* A position below 65536 parts of a screen is on the screen.
LEMMA PartOfScreen ==
    ASSUME NEW y \in Nat, NEW w \in Nat \ {0}, y <= MaxAbs * w
    PROVE  y \div 65536 \in 0..(w - 1)
  BY MaxAbsIs

\* What arrives is on the screen.
LEMMA ToScreenInRange ==
    ASSUME NEW x \in 0..MaxAbs
    PROVE  ToScreen(x) \in 0..(ScreenW - 1)
  <1>1. PICK w \in Nat \ {0} : w = ScreenW
    BY Numbers
  <1> DEFINE y == x * w
  <1>2. y \in Nat /\ y <= MaxAbs * w
    <2>1. x \in Int /\ MaxAbs \in Int /\ w \in Nat /\ x <= MaxAbs /\ x >= 0
      BY <1>1, MaxAbsTyped
    <2>2. x * w <= MaxAbs * w
      BY <2>1, ProductGrows
    <2> QED BY <2>1, <2>2
  <1> HIDE DEF y
  <1>3. y \div 65536 \in 0..(w - 1)
    BY <1>2, PartOfScreen
  <1> QED BY <1>1, <1>3 DEF ToScreen, y

\* The pixel of the target that a position in 0..65535 stands for.
Want(pos) == (pos * ScreenW) \div MaxCursor

\* Rounding a position to 0..65535 and back to the screen moves it by a pixel at
\* most, either way.  (On a screen wider than two thirds of 65536 it may be two.)
LEMMA RoundedTwice ==
    ASSUME NEW pos \in 0..MaxCursor, 3 * ScreenW <= 131072
    PROVE  ToScreen(pixelToAbsolute(pos)) - Want(pos) \in {-1, 0, 1}
  <1>1. PICK M \in Nat \ {0} : M = MaxCursor
    BY CursorRange
  <1>2. PICK W \in Nat \ {0} : W = ScreenW
    BY Numbers
  <1>3. PICK p \in Int : p = (2 * pos * 65535 + M) \div (2 * M)
    <2>1. 2 * M \in Nat \ {0} /\ 2 * pos * 65535 + M \in Int
      BY <1>1
    <2> QED BY <2>1, Quotient
  <1>4. (2 * M) * p <= 2 * pos * 65535 + M /\ 2 * pos * 65535 + M < (2 * M) * p + 2 * M
    <2>1. 2 * M \in Nat \ {0} /\ 2 * pos * 65535 + M \in Int
      BY <1>1
    <2>2. PICK d \in Nat \ {0}, n \in Int : d = 2 * M /\ n = 2 * pos * 65535 + M
      BY <2>1
    <2>3. d * (n \div d) <= n /\ n < d * (n \div d) + d
      BY Quotient
    <2>4. p = n \div d
      BY <1>3, <2>2
    <2> QED BY <2>2, <2>3, <2>4
  <1>5. p >= 0 /\ p <= 65535
    <2>1. 0 <= pos /\ pos <= M /\ pos \in Int
      BY <1>1
    <2>2. CASE p < 0
      <3>1. p + 1 <= 0 /\ p + 1 \in Int
        BY <2>2
      <3>2. (p + 1) * (2 * M) <= 0 * (2 * M)
        BY <3>1, ProductGrows
      <3> QED BY <1>4, <2>1, <3>2
    <2>3. CASE p > 65535
      <3>1. 65536 <= p
        BY <2>3
      <3>2. 65536 * (2 * M) <= p * (2 * M)
        BY <3>1, ProductGrows
      <3> QED BY <1>4, <2>1, <3>2
    <2> QED BY <2>2, <2>3
  <1>6. pixelToAbsolute(pos) = p
    BY <1>1, <1>3, <1>5 DEF pixelToAbsolute, clamp
  <1>7. PICK a \in Int : a = (p * W) \div 65536 /\ 65536 * a <= p * W /\ p * W < 65536 * a + 65536
    <2>1. p * W \in Int
      OBVIOUS
    <2> QED BY <2>1, Quotient
  <1>8. PICK b \in Int : b = (pos * W) \div M /\ M * b <= pos * W /\ pos * W < M * b + M
    <2>1. pos * W \in Int
      OBVIOUS
    <2> QED BY <2>1, Quotient
  <1>9. PICK pMW \in Int, qW \in Int, aM \in Int, bM \in Int, MW \in Nat :
          pMW = p * M * W /\ qW = pos * W /\ aM = a * M /\ bM = b * M /\ MW = M * W
    OBVIOUS
  <1>10. 2 * pMW <= 131070 * qW + MW /\ 131070 * qW + MW < 2 * pMW + 2 * MW
    <2>1. ((2 * M) * p) * W <= (2 * pos * 65535 + M) * W
      BY <1>4, ProductGrows
    <2>2. (2 * pos * 65535 + M + 1) * W <= ((2 * M) * p + 2 * M) * W
      <3>1. 2 * pos * 65535 + M + 1 <= (2 * M) * p + 2 * M
        BY <1>4
      <3> QED BY <3>1, ProductGrows
    <2>3. ((2 * M) * p) * W = 2 * pMW /\ (2 * pos * 65535 + M) * W = 131070 * qW + MW
          /\ (2 * pos * 65535 + M + 1) * W = 131070 * qW + MW + W
          /\ ((2 * M) * p + 2 * M) * W = 2 * pMW + 2 * MW
      BY <1>9
    <2> QED BY <2>1, <2>2, <2>3
  <1>11. 65536 * aM <= pMW /\ pMW < 65536 * aM + 65536 * M
    <2>1. (65536 * a) * M <= (p * W) * M /\ (p * W + 1) * M <= (65536 * a + 65536) * M
      BY <1>7, ProductGrows
    <2>2. (65536 * a) * M = 65536 * aM /\ (p * W) * M = pMW /\ (p * W + 1) * M = pMW + M
          /\ (65536 * a + 65536) * M = 65536 * aM + 65536 * M
      BY <1>9
    <2> QED BY <2>1, <2>2
  <1>12. bM <= qW /\ qW < bM + M /\ 0 <= qW /\ qW <= MW
    <2>1. pos * W <= M * W /\ 0 * W <= pos * W
      BY <1>1, ProductGrows
    <2> QED BY <1>8, <1>9, <2>1
  <1>13. 3 * MW <= 131072 * M
    <2>1. (3 * W) * M <= 131072 * M
      BY <1>2, ProductGrows
    <2> QED BY <1>9, <2>1
  <1>14. b <= a + 1
    <2>1. CASE a + 2 <= b
      <3>1. (a + 2) * M <= b * M
        BY <2>1, ProductGrows
      <3>2. aM + 2 * M <= bM
        BY <1>9, <3>1
      <3> QED BY <1>10, <1>11, <1>12, <1>13, <3>2
    <2> QED BY <2>1
  <1>15. a <= b + 1
    <2>1. CASE b + 2 <= a
      <3>1. (b + 2) * M <= a * M
        BY <2>1, ProductGrows
      <3>2. bM + 2 * M <= aM
        BY <1>9, <3>1
      <3> QED BY <1>10, <1>11, <1>12, <1>13, <3>2
    <2> QED BY <2>1
  <1>16. ToScreen(pixelToAbsolute(pos)) = a /\ Want(pos) = b
    BY <1>1, <1>2, <1>6, <1>7, <1>8 DEF ToScreen, Want
  <1> QED BY <1>14, <1>15, <1>16

-----------------------------------------------------------------------------
\* The virtual devices as they are: keys, buttons, wheel and, where the pointer
\* has absolute axes, its place.
Now ==
    [keys |-> down, buttons |-> clicked, notches |-> scrolled,
     x |-> IF absAvailable THEN pointer ELSE 0]

\* What a packet makes of them.
After(s, p) ==
    IF p.type = "Keyboard" THEN
        [keys |-> IF p.up THEN s.keys \ {VKToLinux[p.vk]} ELSE s.keys \cup {VKToLinux[p.vk]},
         buttons |-> s.buttons, notches |-> s.notches, x |-> s.x]
    ELSE IF p.type = "Mouse" THEN
        [keys |-> s.keys,
         buttons |-> IF p.pressed THEN s.buttons \cup ButtonsOf(p.msg, p.wheel)
                                  ELSE s.buttons \ ButtonsOf(p.msg, p.wheel),
         notches |-> (s.notches + LinuxWheel(p.wheel)) % ScrollMod,
         x |-> IF absAvailable THEN ToScreen(p.x) ELSE 0]
    ELSE
        [keys |-> s.keys, buttons |-> s.buttons, notches |-> s.notches % ScrollMod,
         x |-> IF absAvailable THEN ToScreen(Center) ELSE 0]

\* f[i] is what the first i packets on their way make of them.
Replay(f) ==
    /\ f = [i \in 0..Len(wire) |-> f[i]]
    /\ f[0] = Now
    /\ \A i \in 1..Len(wire) : f[i] = After(f[i - 1], wire[i])

\* The keys down are images of held keys, and a held key that shares its image
\* with no other is down.
KeysOf(keys) ==
    LET sent == held \cap DOMAIN LinuxToVK IN
    /\ keys \subseteq {Image(c) : c \in sent}
    /\ \A c \in sent : (\A d \in DOMAIN LinuxToVK \ {c} : Image(d) # Image(c)) => Image(c) \in keys

\* The pointer follows the cursor when it starts in the middle, as the cursor
\* does, and nothing but the cursor takes it away from there.
Comparable ==
    /\ 3 * ScreenW <= 131072
    /\ StartPointers \subseteq {ScreenW \div 2}
    /\ \A m \in Mixes : {"move", "switch"} \cap m # {"move", "switch"}

AtCursor(x) ==
    /\ absAvailable => x - Want(cursor) \in {-1, 0, 1}
    /\ "move" \notin mix => cursor = MaxCursor \div 2

\* What the last of the packets on their way must lead to.
Meant(s) ==
    /\ KeysOf(s.keys)
    /\ s.buttons = heldButtons
    /\ mix \cap {"BTN_SIDE", "BTN_EXTRA"} = {} => s.notches = turned
    /\ Comparable => AtCursor(s.x)

RemoteInv ==
    /\ TypeOK
    /\ LinuxToVK \in ReverseTables
    /\ wire \in Seq(AllPackets)
    /\ RecordIsTrue
    /\ open => \E f : Replay(f) /\ Meant(f[Len(wire)])

\* A packet that is sent is replayed last.
LEMMA SendReplays ==
    ASSUME NEW f, Replay(f), wire \in Seq(AllPackets), NEW p \in AllPackets,
           wire' = Append(wire, p), UNCHANGED <<absAvailable, pointer, down, clicked, scrolled>>
    PROVE  \E g : Replay(g)' /\ g[Len(wire')] = After(f[Len(wire)], p)
  <1>1. PICK n \in Nat : n = Len(wire)
    BY LenProperties
  <1>2. /\ Len(wire') = n + 1 /\ wire'[n + 1] = p
        /\ \A i \in 1..n : wire'[i] = wire[i]
    BY <1>1, AppendProperties
  <1>3. \A s, q : After(s, q)' = After(s, q)
    BY DEF After
  <1>4. PICK e : e = After(f[n], p)
    OBVIOUS
  <1> DEFINE g == [i \in 0..(n + 1) |-> IF i = n + 1 THEN e ELSE f[i]]
  <1>5. g[0] = Now'
    BY DEF Replay, Now
  <1>6. ASSUME NEW i \in 1..(n + 1)
        PROVE  g[i] = After(g[i - 1], wire'[i])
    <2>1. CASE i = n + 1
      <3>1. g[i] = e /\ g[i - 1] = f[n] /\ wire'[i] = p
        BY <1>2, <2>1
      <3> HIDE DEF g
      <3> QED BY <1>4, <3>1, Zenon
    <2>2. CASE i \in 1..n
      <3>1. f[i] = After(f[i - 1], wire[i])
        BY <1>1, <2>2 DEF Replay
      <3>2. g[i] = f[i] /\ g[i - 1] = f[i - 1] /\ wire'[i] = wire[i]
        BY <1>2, <2>2
      <3> QED BY <3>1, <3>2
    <2>3. i = n + 1 \/ i \in 1..n
      OBVIOUS
    <2> QED BY <2>1, <2>2, <2>3, Zenon
  <1>7. g = [i \in 0..(n + 1) |-> g[i]] /\ g[n + 1] = e
    OBVIOUS
  <1> HIDE DEF g
  <1>8. Replay(g)'
    BY <1>2, <1>3, <1>5, <1>6, <1>7 DEF Replay
  <1> QED BY <1>1, <1>2, <1>4, <1>7, <1>8

\* The packet that is handled is the one replayed first.
LEMMA TakeReplays ==
    ASSUME NEW f, Replay(f), wire \in Seq(AllPackets), wire # <<>>, wire' = Tail(wire),
           Now' = After(Now, Head(wire)), UNCHANGED absAvailable
    PROVE  \E g : Replay(g)' /\ g[Len(wire')] = f[Len(wire)]
  <1>1. PICK n \in Nat : n = Len(wire) /\ n > 0
    BY LenProperties, EmptySeq
  <1>2. /\ Len(wire') = n - 1 /\ Head(wire) = wire[1]
        /\ \A i \in 1..(n - 1) : wire'[i] = wire[i + 1]
    BY <1>1, HeadTailProperties
  <1>3. \A s, q : After(s, q)' = After(s, q)
    BY DEF After
  <1> DEFINE g == [i \in 0..(n - 1) |-> f[i + 1]]
  <1>4. g[0] = Now'
    <2>1. f[1] = After(f[0], wire[1]) /\ f[0] = Now
      <3>1. 1 \in 1..Len(wire) /\ 1 - 1 = 0
        BY <1>1
      <3> QED BY <3>1 DEF Replay
    <2> QED BY <1>1, <1>2, <2>1
  <1>5. ASSUME NEW i \in 1..(n - 1)
        PROVE  g[i] = After(g[i - 1], wire'[i])
    <2>1. f[i + 1] = After(f[i], wire[i + 1])
      <3>1. i + 1 \in 1..n /\ (i + 1) - 1 = i
        BY <1>1
      <3> QED BY <1>1, <3>1 DEF Replay
    <2>2. g[i] = f[i + 1] /\ g[i - 1] = f[i] /\ wire'[i] = wire[i + 1]
      BY <1>2
    <2> QED BY <2>1, <2>2
  <1>6. g = [i \in 0..(n - 1) |-> g[i]] /\ g[n - 1] = f[n]
    BY <1>1
  <1> HIDE DEF g
  <1>7. Replay(g)'
    BY <1>2, <1>3, <1>4, <1>5, <1>6 DEF Replay
  <1> QED BY <1>1, <1>2, <1>6, <1>7

-----------------------------------------------------------------------------
\* A wheel notch arrives as one.
LEMMA NotchArrives ==
    ASSUME NEW n \in Int
    PROVE  LinuxWheel(n * 120) = n
  BY DEF LinuxWheel

\* Whatever turn arrives, the notches injected are a number.
LEMMA WheelIsInt ==
    ASSUME NEW w \in Int
    PROVE  LinuxWheel(w) \in Int
  BY DEF LinuxWheel

\* A button arrives as itself, a side button although the wheel turns for it;
\* neither a step nor a notch is a button.
LEMMA ButtonArrives ==
    /\ \A w \in Int : ButtonsOf("MOVE", w) = {} /\ ButtonsOf("WHEEL", w) = {}
    /\ \A b \in AllButtons :
         /\ buttonPacket(b)[1] \in Messages /\ buttonPacket(b)[2] \in {0, 1, 2}
         /\ ButtonsOf(buttonPacket(b)[1], buttonPacket(b)[2]) = {b}
         /\ b \notin {"BTN_SIDE", "BTN_EXTRA"} => LinuxWheel(buttonPacket(b)[2]) = 0
  <1>1. \A w \in Int : ButtonsOf("MOVE", w) = {} /\ ButtonsOf("WHEEL", w) = {}
    BY DEF ButtonsOf
  <1>2. ASSUME NEW b \in AllButtons
        PROVE  /\ buttonPacket(b)[1] \in Messages /\ buttonPacket(b)[2] \in {0, 1, 2}
               /\ ButtonsOf(buttonPacket(b)[1], buttonPacket(b)[2]) = {b}
               /\ b \notin {"BTN_SIDE", "BTN_EXTRA"} => LinuxWheel(buttonPacket(b)[2]) = 0
    <2>1. CASE b = "BTN_LEFT"
      BY <2>1 DEF buttonPacket, ButtonsOf, Messages, LinuxWheel
    <2>2. CASE b = "BTN_RIGHT"
      BY <2>2 DEF buttonPacket, ButtonsOf, Messages, LinuxWheel
    <2>3. CASE b = "BTN_MIDDLE"
      BY <2>3 DEF buttonPacket, ButtonsOf, Messages, LinuxWheel
    <2>4. CASE b = "BTN_SIDE"
      BY <2>4 DEF buttonPacket, ButtonsOf, Messages, LinuxWheel
    <2>5. CASE b = "BTN_EXTRA"
      BY <2>5 DEF buttonPacket, ButtonsOf, Messages, LinuxWheel
    <2> QED BY <2>1, <2>2, <2>3, <2>4, <2>5 DEF AllButtons
  <1> QED BY <1>1, <1>2

\* Only buttons are made of a message.
LEMMA ButtonsAre ==
    ASSUME NEW msg, NEW w
    PROVE  ButtonsOf(msg, w) \subseteq AllButtons
  BY DEF ButtonsOf, AllButtons

\* The middle of one screen is the middle of the other.
LEMMA Middle ==
    /\ Want(MaxCursor \div 2) = ScreenW \div 2
    /\ ToScreen(Center) = ScreenW \div 2
  <1>1. PICK W \in Nat \ {0} : W = ScreenW
    BY Numbers
  <1>2. PICK h \in Nat \ {0} : h = MaxCursor \div 2 /\ MaxCursor = 2 * h
    BY CursorRange
  <1>3. PICK n \in Int, d \in Nat \ {0} : n = h * W /\ d = 2 * h
    BY <1>2
  <1>4. PICK q \in Int : q = n \div d /\ d * q <= n /\ n < d * q + d
    BY Quotient
  <1>5. h * (2 * q) <= h * W /\ h * W < h * (2 * q + 2)
    BY <1>3, <1>4
  <1>6. 2 * q <= W
    <2>1. CASE W + 1 <= 2 * q
      <3>1. (W + 1) * h <= (2 * q) * h
        BY <2>1, ProductGrows
      <3>2. (W + 1) * h = h * W + h
        OBVIOUS
      <3> QED BY <1>5, <3>1, <3>2
    <2> QED BY <2>1
  <1>7. W < 2 * q + 2
    <2>1. CASE 2 * q + 2 <= W
      <3>1. (2 * q + 2) * h <= W * h
        BY <2>1, ProductGrows
      <3> QED BY <1>5, <3>1
    <2> QED BY <2>1
  <1>8. q = W \div 2
    BY <1>6, <1>7
  <1>9. (Center * W) \div 65536 = W \div 2
    BY DEF Center
  <1> QED BY <1>1, <1>2, <1>3, <1>4, <1>8, <1>9 DEF Want, ToScreen

-----------------------------------------------------------------------------
\* A key goes out as a key of the virtual keyboard, never as a mouse button.
LEMMA ImageIsKey ==
    ASSUME LinuxToVK \in ReverseTables, NEW c \in Codes, c \in DOMAIN LinuxToVK
    PROVE  LinuxToVK[c] \in KeyNames
  <1>1. LinuxToVK[c] \in DOMAIN VKToLinux
    BY DEF ReverseTables
  <1>2. CASE c \in DOMAIN PrintAlias
    <2>1. LinuxToVK[c] = PrintAlias[c]
      BY <1>2 DEF ReverseTables
    <2> QED BY <1>1, <1>2, <2>1, RemoteAssumption DEF KeyNames
  <1>3. CASE c \notin DOMAIN PrintAlias
    <2>1. VKToLinux[LinuxToVK[c]] = c
      BY <1>3 DEF ReverseTables
    <2>2. c \in Range(VKToLinux) /\ c \notin AllButtons
      BY <1>1, <2>1, RemoteAssumption DEF Range
    <2> HIDE DEF AllButtons
    <2>3. c \in KeyBits
      BY <2>2, RemoteAssumption
    <2> QED BY <1>1, <2>1, <2>3 DEF KeyNames
  <1> QED BY <1>2, <1>3

\* Where a Mouse packet puts the pointer.
LEMMA PutsPointer ==
    ASSUME NEW s, NEW pos \in 0..MaxCursor, NEW p, p.type = "Mouse", p.x = pixelToAbsolute(pos),
           NEW e, e = After(s, p)
    PROVE  absAvailable /\ Comparable => e.x - Want(pos) \in {-1, 0, 1}
  <1>1. absAvailable => e.x = ToScreen(pixelToAbsolute(pos))
    BY DEF After
  <1>2. Comparable => ToScreen(pixelToAbsolute(pos)) - Want(pos) \in {-1, 0, 1}
    BY RoundedTwice DEF Comparable
  <1> QED BY <1>1, <1>2

\* Whatever the user does, it is enough that the packet sent for it says so.
LEMMA SendKeeps ==
    ASSUME RemoteInv, NEW p \in AllPackets, Send(p), UNCHANGED injectVars,
           held' \subseteq Codes, heldButtons' \subseteq Buttons,
           turned' \in 0..(ScrollMod - 1), cursor' \in 0..MaxCursor,
           \A s, e : Meant(s) /\ e = After(s, p) => Meant(e)'
    PROVE  RemoteInv'
  <1>1. /\ open /\ Len(wire) < MaxWire /\ wire' = Append(wire, p)
        /\ UNCHANGED <<LinuxToVK, mix, absAvailable, absX, pressedKeys, open, pointer, down, clicked, scrolled>>
    BY DEF Send, injectVars, setupVars
  <1>2. wire \in Seq(AllPackets) /\ LinuxToVK \in ReverseTables /\ RecordIsTrue /\ TypeOK
    BY DEF RemoteInv
  <1>3. wire' \in Seq(AllPackets) /\ Len(wire') <= MaxWire
    BY <1>1, <1>2, AppendProperties, LenProperties, Numbers
  <1>4. TypeOK' /\ RecordIsTrue'
    BY <1>1, <1>2, <1>3 DEF TypeOK, RecordIsTrue
  <1>5. PICK f : Replay(f) /\ Meant(f[Len(wire)])
    BY <1>1 DEF RemoteInv
  <1>6. PICK g : Replay(g)' /\ g[Len(wire')] = After(f[Len(wire)], p)
    BY <1>1, <1>2, <1>5, SendReplays
  <1>7. PICK s, e : s = f[Len(wire)] /\ e = After(s, p)
    OBVIOUS
  <1>8. Meant(s)
    BY <1>5, <1>7
  <1>9. Meant(e)' /\ e = g[Len(wire')]
    BY <1>6, <1>7, <1>8
  <1>10. (\E h : Replay(h) /\ Meant(h[Len(wire)]))'
    BY <1>6, <1>9
  <1> QED BY <1>1, <1>2, <1>3, <1>4, <1>10 DEF RemoteInv

\* A move of the mouse: cursor and packet move together.
LEMMA OnMoveKeeps ==
    ASSUME RemoteInv, NEW dx \in Steps, OnMove(dx)
    PROVE  RemoteInv'
  <1>1. /\ "move" \in mix /\ cursor' = Moved(dx) /\ Send(Mouse(cursor', 0, "MOVE", FALSE))
        /\ UNCHANGED <<held, heldButtons, turned, LinuxToVK, mix, absAvailable>>
        /\ UNCHANGED injectVars
    BY DEF OnMove, injectVars, setupVars
  <1>2. /\ held \subseteq Codes /\ heldButtons \subseteq Buttons
        /\ turned \in 0..(ScrollMod - 1) /\ cursor \in 0..MaxCursor
    BY DEF RemoteInv, TypeOK
  <1>3. cursor' \in 0..MaxCursor
    <2>1. cursor + dx * Gain \in Int /\ 0 <= MaxCursor /\ MaxCursor \in Int
      BY <1>2, Numbers, CursorRange
    <2> QED BY <1>1, <2>1, ClampInRange DEF Moved
  <1>4. PICK pos \in 0..MaxCursor : pos = cursor'
    BY <1>3
  <1> DEFINE p == Mouse(pos, 0, "MOVE", FALSE)
  <1>5. p \in AllPackets
    BY AbsoluteInRange DEF Mouse, AllPackets, MousePackets, Messages
  <1>6. ASSUME NEW s, NEW e, Meant(s), e = After(s, p)
        PROVE  Meant(e)'
    <2>0. p.type = "Mouse" /\ p.x = pixelToAbsolute(pos)
      BY DEF Mouse
    <2>1. e.keys = s.keys /\ e.buttons = s.buttons
      <3>1. e.keys = s.keys /\ e.buttons = s.buttons \ ButtonsOf("MOVE", 0)
        BY <1>6 DEF After, Mouse
      <3>2. ButtonsOf("MOVE", 0) = {}
        BY ButtonArrives
      <3> QED BY <1>6, <3>1, <3>2 DEF Meant
    <2>2. e.notches = (s.notches + 0) % ScrollMod
      BY <1>6 DEF After, Mouse, LinuxWheel
    <2>3. KeysOf(e.keys)' /\ e.buttons = heldButtons'
      BY <1>1, <1>6, <2>1 DEF Meant, KeysOf, Image
    <2>4. s.notches = turned => e.notches = turned
      BY <1>2, <2>2 DEF ScrollMod
    <2>5. Comparable => AtCursor(e.x)'
      <3>1. absAvailable /\ Comparable => e.x - Want(pos) \in {-1, 0, 1}
        BY <1>6, <2>0, PutsPointer
      <3> QED BY <1>1, <1>4, <3>1 DEF AtCursor, Want
    <2> QED BY <1>1, <1>6, <2>3, <2>4, <2>5 DEF Meant
  <1>7. Send(p)
    BY <1>1, <1>4
  <1> HIDE DEF p
  <1> QED BY <1>1, <1>2, <1>3, <1>5, <1>6, <1>7, SendKeeps

\* A notch of the wheel counts on both sides alike.
LEMMA OnWheelKeeps ==
    ASSUME RemoteInv, NEW notch \in Notches, OnWheel(notch)
    PROVE  RemoteInv'
  <1> DEFINE p == Mouse(cursor, notch * 120, "WHEEL", FALSE)
  <1>1. /\ turned' = (turned + notch) % ScrollMod /\ Send(p)
        /\ UNCHANGED <<held, heldButtons, cursor, LinuxToVK, mix, absAvailable>>
        /\ UNCHANGED injectVars
    BY DEF OnWheel, injectVars, setupVars
  <1>2. /\ held \subseteq Codes /\ heldButtons \subseteq Buttons
        /\ turned \in 0..(ScrollMod - 1) /\ cursor \in 0..MaxCursor
    BY DEF RemoteInv, TypeOK
  <1>3. notch \in Int /\ notch * 120 \in Int
    BY Numbers
  <1>4. turned' \in 0..(ScrollMod - 1)
    BY <1>1, <1>2, <1>3 DEF ScrollMod
  <1>5. p \in AllPackets
    BY <1>2, <1>3, AbsoluteInRange DEF Mouse, AllPackets, MousePackets, Messages
  <1>6. ASSUME NEW s, NEW e, Meant(s), e = After(s, p)
        PROVE  Meant(e)'
    <2>0. p.type = "Mouse" /\ p.x = pixelToAbsolute(cursor)
      BY DEF Mouse
    <2>1. e.keys = s.keys /\ e.buttons = s.buttons
      <3>1. e.keys = s.keys /\ e.buttons = s.buttons \ ButtonsOf("WHEEL", notch * 120)
        BY <1>6 DEF After, Mouse
      <3>2. ButtonsOf("WHEEL", notch * 120) = {}
        BY <1>3, ButtonArrives
      <3> QED BY <1>6, <3>1, <3>2 DEF Meant
    <2>2. e.notches = (s.notches + notch) % ScrollMod
      <3>1. e.notches = (s.notches + LinuxWheel(notch * 120)) % ScrollMod
        BY <1>6 DEF After, Mouse
      <3> QED BY <1>3, <3>1, NotchArrives
    <2>3. KeysOf(e.keys)' /\ e.buttons = heldButtons'
      <3>1. KeysOf(s.keys) /\ s.buttons = heldButtons
        BY <1>6 DEF Meant
      <3>2. UNCHANGED <<held, heldButtons, LinuxToVK>>
        BY <1>1
      <3> QED BY <2>1, <3>1, <3>2 DEF KeysOf, Image
    <2>4. s.notches = turned => e.notches = turned'
      BY <1>1, <2>2
    <2>5. Comparable => AtCursor(e.x)'
      <3>1. absAvailable /\ Comparable => e.x - Want(cursor) \in {-1, 0, 1}
        BY <1>2, <1>6, <2>0, PutsPointer
      <3> QED BY <1>1, <1>6, <3>1 DEF AtCursor, Want, Meant
    <2> QED BY <1>1, <1>6, <2>3, <2>4, <2>5 DEF Meant
  <1> HIDE DEF p
  <1> QED BY <1>1, <1>2, <1>4, <1>5, <1>6, SendKeeps

\* A button pressed or released here is pressed or released there.
LEMMA OnButtonKeeps ==
    ASSUME RemoteInv, NEW b \in Buttons, OnButtonEvent(b)
    PROVE  RemoteInv'
  <1>1. /\ b \in mix
        /\ heldButtons' = IF b \in heldButtons THEN heldButtons \ {b} ELSE heldButtons \cup {b}
        /\ Send(Mouse(cursor, buttonPacket(b)[2], buttonPacket(b)[1], b \in heldButtons'))
        /\ UNCHANGED <<held, turned, cursor, LinuxToVK, mix, absAvailable>>
        /\ UNCHANGED injectVars
    BY DEF OnButtonEvent, injectVars, setupVars
  <1>2. /\ held \subseteq Codes /\ heldButtons \subseteq Buttons
        /\ turned \in 0..(ScrollMod - 1) /\ cursor \in 0..MaxCursor
    BY DEF RemoteInv, TypeOK
  <1>3. b \in AllButtons /\ heldButtons' \subseteq Buttons
    BY <1>1, <1>2, RemoteAssumption
  <1>4. PICK w, m : w = buttonPacket(b)[2] /\ m = buttonPacket(b)[1]
    OBVIOUS
  <1>3a. PICK pressed \in BOOLEAN : pressed = (b \in heldButtons')
    <2> WITNESS (b \in heldButtons') \in BOOLEAN
    <2> QED OBVIOUS
  <1>5. /\ m \in Messages /\ w \in Int /\ ButtonsOf(m, w) = {b}
        /\ b \notin {"BTN_SIDE", "BTN_EXTRA"} => LinuxWheel(w) = 0
    BY <1>3, <1>4, ButtonArrives
  <1> DEFINE p == Mouse(cursor, w, m, pressed)
  <1>6. p \in AllPackets
    BY <1>2, <1>5, AbsoluteInRange DEF Mouse, AllPackets, MousePackets
  <1>7. ASSUME NEW s, NEW e, Meant(s), e = After(s, p)
        PROVE  Meant(e)'
    <2>0. p.type = "Mouse" /\ p.x = pixelToAbsolute(cursor)
      BY DEF Mouse
    <2>1. /\ e.keys = s.keys
          /\ e.buttons = IF pressed THEN s.buttons \cup {b} ELSE s.buttons \ {b}
      <3>1. /\ e.keys = s.keys
            /\ pressed => e.buttons = s.buttons \cup ButtonsOf(m, w)
            /\ ~pressed => e.buttons = s.buttons \ ButtonsOf(m, w)
        BY <1>7 DEF After, Mouse
      <3> QED BY <1>5, <3>1
    <2>2. e.notches = (s.notches + LinuxWheel(w)) % ScrollMod
      BY <1>7 DEF After, Mouse
    <2>3. KeysOf(e.keys)'
      BY <1>1, <1>7, <2>1 DEF Meant, KeysOf, Image
    <2>4. e.buttons = heldButtons'
      BY <1>1, <1>3a, <1>7, <2>1 DEF Meant
    <2>5. (mix \cap {"BTN_SIDE", "BTN_EXTRA"} = {} => e.notches = turned)
      <3>1. CASE b \notin {"BTN_SIDE", "BTN_EXTRA"}
        <4>1. e.notches = (s.notches + 0) % ScrollMod
          BY <1>5, <2>2, <3>1
        <4> QED BY <1>2, <1>7, <4>1 DEF Meant, ScrollMod
      <3> QED BY <1>1, <3>1
    <2>6. Comparable => AtCursor(e.x)'
      <3>1. absAvailable /\ Comparable => e.x - Want(cursor) \in {-1, 0, 1}
        BY <1>2, <1>7, <2>0, PutsPointer
      <3> QED BY <1>1, <1>7, <3>1 DEF AtCursor, Want, Meant
    <2> QED BY <1>1, <2>3, <2>4, <2>5, <2>6 DEF Meant
  <1>8. Send(p)
    BY <1>1, <1>4, <1>3a
  <1> HIDE DEF p
  <1> QED BY <1>1, <1>2, <1>3, <1>6, <1>7, <1>8, SendKeeps

\* What is held in keys when c goes down or up, or repeats.
LEMMA KeyPress ==
    ASSUME NEW keys, KeysOf(keys), NEW c \in DOMAIN LinuxToVK, UNCHANGED LinuxToVK
    PROVE  /\ held' = held \cup {c} => KeysOf(keys \cup {Image(c)})'
           /\ held' = held \ {c} => KeysOf(keys \ {Image(c)})'
  <1> DEFINE S(h) == h \cap DOMAIN LinuxToVK
             Unique(d) == \A x \in DOMAIN LinuxToVK \ {d} : Image(x) # Image(d)
  <1>1. \A d : Image(d)' = Image(d)
    BY DEF Image
  <1>2. /\ keys \subseteq {Image(d) : d \in S(held)}
        /\ \A d \in S(held) : Unique(d) => Image(d) \in keys
    BY DEF KeysOf
  <1>3. ASSUME held' = held \cup {c}
        PROVE  KeysOf(keys \cup {Image(c)})'
    <2>1. keys \cup {Image(c)} \subseteq {Image(d) : d \in S(held')}
      BY <1>2, <1>3
    <2>2. \A d \in S(held') : Unique(d) => Image(d) \in keys \cup {Image(c)}
      BY <1>2, <1>3
    <2> QED BY <1>1, <2>1, <2>2 DEF KeysOf
  <1>4. ASSUME held' = held \ {c}
        PROVE  KeysOf(keys \ {Image(c)})'
    <2>1. keys \ {Image(c)} \subseteq {Image(d) : d \in S(held')}
      BY <1>2, <1>4
    <2>2. \A d \in S(held') : Unique(d) => Image(d) \in keys \ {Image(c)}
      BY <1>2, <1>4
    <2> QED BY <1>1, <2>1, <2>2 DEF KeysOf
  <1> QED BY <1>3, <1>4

\* A Keyboard packet for c, up or down.
LEMMA KeyKeeps ==
    ASSUME RemoteInv, NEW c \in Codes, c \in DOMAIN LinuxToVK, NEW up \in BOOLEAN,
           Send(Keyboard(LinuxToVK[c], up)), UNCHANGED <<heldButtons, turned, cursor, injectVars>>,
           held' = IF up THEN held \ {c} ELSE held \cup {c}, held' \subseteq Codes
    PROVE  RemoteInv'
  <1> DEFINE p == Keyboard(LinuxToVK[c], up)
  <1>1. /\ UNCHANGED <<heldButtons, turned, cursor, LinuxToVK, mix, absAvailable>>
        /\ UNCHANGED injectVars
    BY DEF injectVars, setupVars
  <1>2. /\ heldButtons \subseteq Buttons /\ LinuxToVK \in ReverseTables
        /\ turned \in 0..(ScrollMod - 1) /\ cursor \in 0..MaxCursor
    BY DEF RemoteInv, TypeOK
  <1>3. p \in AllPackets
    BY <1>2, ImageIsKey DEF Keyboard, AllPackets, KeyboardPackets
  <1>4. ASSUME NEW s, NEW e, Meant(s), e = After(s, p)
        PROVE  Meant(e)'
    <2>1. /\ up => e.keys = s.keys \ {Image(c)}
          /\ ~up => e.keys = s.keys \cup {Image(c)}
          /\ e.buttons = s.buttons /\ e.notches = s.notches /\ e.x = s.x
      BY <1>4 DEF After, Keyboard, Image
    <2>2. KeysOf(e.keys)'
      <3>1. PICK k : k = s.keys /\ KeysOf(k)
        BY <1>4 DEF Meant
      <3>2. PICK i : i = Image(c)
        OBVIOUS
      <3>3. CASE up
        <4>1. KeysOf(k \ {Image(c)})'
          BY <1>1, <3>1, <3>3, KeyPress
        <4>2. Image(c)' = Image(c)
          BY <1>1 DEF Image
        <4> QED BY <2>1, <3>1, <3>3, <4>1, <4>2
      <3>4. CASE ~up
        <4>1. KeysOf(k \cup {Image(c)})'
          BY <1>1, <3>1, <3>4, KeyPress
        <4>2. Image(c)' = Image(c)
          BY <1>1 DEF Image
        <4> QED BY <2>1, <3>1, <3>4, <4>1, <4>2
      <3> QED BY <3>3, <3>4
    <2>3. AtCursor(s.x) => AtCursor(e.x)'
      BY <1>1, <2>1 DEF AtCursor, Want
    <2> QED BY <1>1, <1>4, <2>1, <2>2, <2>3 DEF Meant
  <1> HIDE DEF p
  <1>5. Send(p)
    BY DEF p
  <1> QED BY <1>1, <1>2, <1>3, <1>4, <1>5, SendKeeps

\* A key with a virtual key code is sent as a press or a release; one without is not sent.
LEMMA OnKeyKeeps ==
    ASSUME RemoteInv, NEW c \in Codes, OnKeyEvent(c)
    PROVE  RemoteInv'
  <1>1. /\ held' = IF c \in held THEN held \ {c} ELSE held \cup {c}
        /\ UNCHANGED <<heldButtons, turned, cursor, injectVars>>
    BY DEF OnKeyEvent
  <1>2. held' \subseteq Codes
    BY <1>1 DEF RemoteInv, TypeOK
  <1>3. CASE c \in DOMAIN LinuxToVK
    <2>1. PICK up \in BOOLEAN : up = (c \in held)
      <3> WITNESS (c \in held) \in BOOLEAN
      <3> QED OBVIOUS
    <2>2. Send(Keyboard(LinuxToVK[c], up))
      BY <1>3, <2>1 DEF OnKeyEvent
    <2>3. held' = IF up THEN held \ {c} ELSE held \cup {c}
      BY <1>1, <2>1
    <2> QED BY <1>1, <1>2, <1>3, <2>2, <2>3, KeyKeeps
  <1>4. CASE c \notin DOMAIN LinuxToVK
    <2>1. /\ wire' = wire
          /\ UNCHANGED <<LinuxToVK, mix, absAvailable, heldButtons, turned, cursor, absX,
                         pressedKeys, open, pointer, down, clicked, scrolled>>
      BY <1>1, <1>4 DEF OnKeyEvent, injectVars, setupVars
    <2>2. held' \cap DOMAIN LinuxToVK = held \cap DOMAIN LinuxToVK
      BY <1>1, <1>4
    <2>3. TypeOK' /\ RecordIsTrue'
      BY <1>2, <2>1 DEF RemoteInv, TypeOK, RecordIsTrue
    <2>4. ASSUME NEW s, Meant(s)
          PROVE  Meant(s)'
      <3>1. KeysOf(s.keys)'
        BY <2>1, <2>2, <2>4 DEF Meant, KeysOf, Image
      <3>2. AtCursor(s.x) => AtCursor(s.x)'
        BY <2>1 DEF AtCursor, Want
      <3> QED BY <2>1, <2>4, <3>1, <3>2 DEF Meant
    <2>5. \A f : Replay(f) => Replay(f)'
      <3>1. Now' = Now /\ \A s, q : After(s, q)' = After(s, q)
        BY <2>1 DEF Now, After
      <3> QED BY <2>1, <3>1 DEF Replay
    <2>6. ASSUME open
          PROVE  (\E f : Replay(f) /\ Meant(f[Len(wire)]))'
      <3>1. PICK f : Replay(f) /\ Meant(f[Len(wire)])
        BY <2>6 DEF RemoteInv
      <3>2. PICK s : s = f[Len(wire)]
        OBVIOUS
      <3>3. Meant(s)' /\ Replay(f)' /\ s = f[Len(wire')]
        BY <2>1, <2>4, <2>5, <3>1, <3>2
      <3> QED BY <3>3
    <2> QED BY <2>1, <2>3, <2>6 DEF RemoteInv
  <1> QED BY <1>3, <1>4

\* The repeat of a held key is one more press of what is held there already.
LEMMA RepeatKeeps ==
    ASSUME RemoteInv, NEW c \in Codes, KeyRepeats(c)
    PROVE  RemoteInv'
  <1>1. /\ c \in DOMAIN LinuxToVK /\ c \in held /\ Send(Keyboard(LinuxToVK[c], FALSE))
        /\ UNCHANGED <<heldButtons, turned, cursor, injectVars>> /\ held' = held
    BY DEF KeyRepeats, userVars
  <1>2. PICK up \in BOOLEAN : up = FALSE
    OBVIOUS
  <1>3. /\ Send(Keyboard(LinuxToVK[c], up)) /\ held' \subseteq Codes
        /\ held' = IF up THEN held \ {c} ELSE held \cup {c}
    BY <1>1, <1>2 DEF RemoteInv, TypeOK
  <1> QED BY <1>1, <1>3, KeyKeeps

\* MachineSwitched puts the pointer in the middle and leaves keys, buttons and wheel alone.
LEMMA SwitchKeeps ==
    ASSUME RemoteInv, PeerSwitches
    PROVE  RemoteInv'
  <1> DEFINE p == [type |-> "MachineSwitched"]
  <1>1. /\ "switch" \in mix /\ Send(p)
        /\ UNCHANGED <<held, heldButtons, turned, cursor, LinuxToVK, mix, absAvailable>>
        /\ UNCHANGED injectVars
    BY DEF PeerSwitches, injectVars, setupVars, userVars
  <1>2. /\ held \subseteq Codes /\ heldButtons \subseteq Buttons /\ mix \in Mixes
        /\ turned \in 0..(ScrollMod - 1) /\ cursor \in 0..MaxCursor
    BY DEF RemoteInv, TypeOK
  <1>3. p \in AllPackets
    BY DEF AllPackets, SwitchPackets
  <1>4. ASSUME NEW s, NEW e, Meant(s), e = After(s, p)
        PROVE  Meant(e)'
    <2>1. /\ e.keys = s.keys /\ e.buttons = s.buttons /\ e.notches = s.notches % ScrollMod
          /\ absAvailable => e.x = ToScreen(Center)
      BY <1>4 DEF After
    <2>2. KeysOf(e.keys)' /\ e.buttons = heldButtons'
      BY <1>1, <1>4, <2>1 DEF Meant, KeysOf, Image
    <2>3. s.notches = turned => e.notches = turned
      BY <1>2, <2>1 DEF ScrollMod
    <2>4. ASSUME Comparable
          PROVE  AtCursor(e.x)'
      <3>1. cursor = MaxCursor \div 2
        <4>1. "move" \notin mix
          BY <1>1, <1>2, <2>4 DEF Comparable
        <4> QED BY <1>4, <2>4, <4>1 DEF Meant, AtCursor
      <3>2. absAvailable => e.x = Want(cursor)
        BY <2>1, <3>1, Middle
      <3>3. Want(cursor) \in Int
        BY <3>1, Middle, Numbers
      <3>4. absAvailable => e.x - Want(cursor) \in {-1, 0, 1}
        BY <3>2, <3>3
      <3> QED BY <1>1, <3>1, <3>4 DEF AtCursor, Want
    <2> QED BY <1>1, <1>4, <2>2, <2>3, <2>4 DEF Meant
  <1> HIDE DEF p
  <1> QED BY <1>1, <1>2, <1>3, <1>4, SendKeeps

-----------------------------------------------------------------------------
\* InjectMouse keeps the pointer on the screen and the record of the keys, does
\* to the devices what After says, and never takes the pointer further from
\* where it should be.
LEMMA InjectMouseSound ==
    ASSUME TypeOK, RecordIsTrue, NEW x \in 0..MaxAbs, NEW wheel \in Int, NEW msg,
           NEW pressed \in BOOLEAN, InjectMouse(x, wheel, msg, pressed), UNCHANGED <<open, absAvailable>>
    PROVE  /\ absX' \in 0..(ScreenW - 1) /\ pointer' \in 0..(ScreenW - 1)
           /\ scrolled' \in 0..(ScrollMod - 1)
           /\ down' \subseteq Range(VKToLinux) \cap KeyBits /\ clicked' \subseteq AllButtons
           /\ pressedKeys' = pressedKeys /\ RecordIsTrue'
           /\ open => /\ down' = down
                      /\ pressed => clicked' = clicked \cup ButtonsOf(msg, wheel)
                      /\ ~pressed => clicked' = clicked \ ButtonsOf(msg, wheel)
                      /\ scrolled' = (scrolled + LinuxWheel(wheel)) % ScrollMod
                      /\ absAvailable => pointer' = ToScreen(x)
                      /\ Distance(pointer', absX') <= Distance(pointer, absX)
  <1>0. PICK w \in Nat \ {0} : w = ScreenW
    BY Numbers
  <1>1. PICK a \in 0..(w - 1) : a = ToScreen(x) /\ w = ScreenW
    BY <1>0, ToScreenInRange
  <1>2. /\ absX' = a /\ absX \in 0..(w - 1) /\ pointer \in 0..(w - 1)
        /\ pressedKeys' = pressedKeys
    BY <1>1 DEF InjectMouse, TypeOK
  <1>3. /\ open /\ ~absAvailable => pointer' = clamp(pointer + (a - absX), 0, w - 1)
        /\ open /\ absAvailable => pointer' = a
        /\ ~open => pointer' = pointer
    BY <1>1 DEF InjectMouse, Delta
  <1>4. pointer' \in 0..(w - 1)
    <2>1. pointer + (a - absX) \in Int /\ w - 1 \in Int /\ 0 <= w - 1
      BY <1>1, <1>2
    <2>2. PICK v \in Int, hi \in Nat : v = pointer + (a - absX) /\ hi = w - 1
      BY <2>1
    <2>3. clamp(v, 0, hi) \in 0..hi
      BY DEF clamp
    <2> QED BY <1>1, <1>2, <1>3, <2>2, <2>3
  <1>5. open => Distance(pointer', absX') <= Distance(pointer, absX)
    BY <1>2, <1>3 DEF Distance, clamp, TypeOK
  <1>6. LinuxWheel(wheel) \in Int /\ scrolled \in 0..7 /\ ScrollMod = 8
    BY WheelIsInt DEF TypeOK, ScrollMod
  <1>7. /\ scrolled' \in 0..(ScrollMod - 1)
        /\ open => scrolled' = (scrolled + LinuxWheel(wheel)) % ScrollMod
    <2>1. PICK n \in Int : n = LinuxWheel(wheel)
      BY <1>6
    <2>2. scrolled' = IF open THEN (scrolled + n) % 8 ELSE scrolled
      BY <1>6, <2>1 DEF InjectMouse
    <2>3. (scrolled + n) % 8 \in 0..7
      BY <1>6, <2>1
    <2> QED BY <1>6, <2>1, <2>2, <2>3
  <1>8. PICK b : b = ButtonsOf(msg, wheel) /\ b \subseteq AllButtons
    BY ButtonsAre
  <1>9. /\ open /\ pressed => clicked' = clicked \cup b
        /\ open /\ ~pressed => clicked' = clicked \ b
        /\ ~open => clicked' = clicked
        /\ down' = down
    BY <1>8 DEF InjectMouse
  <1>10. down' \subseteq Range(VKToLinux) \cap KeyBits /\ clicked' \subseteq AllButtons
    <2>1. down \subseteq Range(VKToLinux) \cap KeyBits /\ clicked \subseteq AllButtons
      BY DEF TypeOK
    <2> HIDE DEF AllButtons
    <2> QED BY <1>8, <1>9, <2>1
  <1>11. RecordIsTrue'
    BY <1>2, <1>9 DEF RecordIsTrue
  <1> QED BY <1>1, <1>2, <1>3, <1>4, <1>5, <1>7, <1>8, <1>9, <1>10, <1>11

\* InjectKeyboard keeps the record of the keys and does what After says.
LEMMA InjectKeyboardSound ==
    ASSUME TypeOK, RecordIsTrue, NEW vk \in KeyNames, NEW up \in BOOLEAN,
           InjectKeyboard(vk, up), UNCHANGED open
    PROVE  /\ UNCHANGED <<absX, pointer, clicked, scrolled>>
           /\ pressedKeys' \subseteq Range(VKToLinux)
           /\ down' \subseteq Range(VKToLinux) \cap KeyBits
           /\ RecordIsTrue'
           /\ open => /\ up => down' = down \ {VKToLinux[vk]}
                      /\ ~up => down' = down \cup {VKToLinux[vk]}
  <1>1. PICK k : vk \in DOMAIN VKToLinux /\ k = VKToLinux[vk] /\ k \in Range(VKToLinux) \cap KeyBits
    BY DEF KeyNames, Range
  <1>2. /\ pressedKeys \subseteq Range(VKToLinux) /\ down \subseteq Range(VKToLinux) \cap KeyBits
        /\ open => pressedKeys = down
    BY DEF TypeOK, RecordIsTrue
  <1>3. UNCHANGED <<absX, pointer, clicked, scrolled>>
    BY DEF InjectKeyboard
  <1>4. CASE ~up /\ k \in pressedKeys
    <2>1. UNCHANGED <<pressedKeys, down>>
      BY <1>1, <1>4 DEF InjectKeyboard
    <2> QED BY <1>1, <1>2, <1>3, <1>4, <2>1 DEF RecordIsTrue
  <1>5. CASE up
    <2>1. pressedKeys' = pressedKeys \ {k} /\ down' = IF open THEN down \ {k} ELSE down
      BY <1>1, <1>5 DEF InjectKeyboard, Tracked
    <2> QED BY <1>1, <1>2, <1>3, <1>5, <2>1 DEF RecordIsTrue
  <1>6. CASE ~up /\ k \notin pressedKeys
    <2>1. pressedKeys' = pressedKeys \cup {k} /\ down' = IF open THEN down \cup {k} ELSE down
      BY <1>1, <1>6 DEF InjectKeyboard, Tracked
    <2> QED BY <1>1, <1>2, <1>3, <1>6, <2>1 DEF RecordIsTrue
  <1> QED BY <1>4, <1>5, <1>6

\* receiveLoop takes the first packet.
LEMMA ReceiveSound ==
    ASSUME RemoteInv, Receive
    PROVE  /\ RemoteInv'
           /\ open => Distance(pointer', absX') <= Distance(pointer, absX)
  <1>1. /\ wire # <<>> /\ wire' = Tail(wire)
        /\ UNCHANGED <<LinuxToVK, mix, absAvailable, held, heldButtons, turned, cursor, open>>
    BY DEF Receive, setupVars, userVars
  <1>2. TypeOK /\ RecordIsTrue /\ wire \in Seq(AllPackets) /\ LinuxToVK \in ReverseTables
    BY DEF RemoteInv
  <1> DEFINE p == Head(wire)
  <1>3. p \in AllPackets
    BY <1>1, <1>2, HeadTailProperties
  <1>4. wire' \in Seq(AllPackets) /\ Len(wire') <= MaxWire
    <2>1. Len(wire') = Len(wire) - 1 /\ wire' \in Seq(AllPackets) /\ Len(wire) \in Nat
      BY <1>1, <1>2, HeadTailProperties, LenProperties
    <2> QED BY <1>2, <2>1, Numbers DEF TypeOK
  <1> DEFINE Sound ==
        /\ absX' \in 0..(ScreenW - 1) /\ pointer' \in 0..(ScreenW - 1)
        /\ scrolled' \in 0..(ScrollMod - 1)
        /\ down' \subseteq Range(VKToLinux) \cap KeyBits /\ clicked' \subseteq AllButtons
        /\ pressedKeys' \subseteq Range(VKToLinux) /\ RecordIsTrue'
        /\ open => Now' = After(Now, p) /\ Distance(pointer', absX') <= Distance(pointer, absX)
  <1>5. \/ p.type = "Mouse" /\ InjectMouse(p.x, p.wheel, p.msg, p.pressed)
        \/ p.type = "Keyboard" /\ InjectKeyboard(p.vk, p.up)
        \/ p.type = "MachineSwitched" /\ InjectMouse(Center, 0, "MOVE", FALSE)
    BY Zenon DEF Receive
  <1> HIDE DEF p
  <1>6. ASSUME p.type = "Mouse", InjectMouse(p.x, p.wheel, p.msg, p.pressed)
        PROVE  Sound
    <2>1. p \in MousePackets
      BY <1>3, <1>6 DEF AllPackets, KeyboardPackets, SwitchPackets
    <2>2. PICK pressed \in BOOLEAN, x \in 0..MaxAbs, wheel \in Int, msg \in {p.msg} :
            p.pressed = pressed /\ p.x = x /\ p.wheel = wheel /\ p.msg = msg
      BY <2>1 DEF MousePackets
    <2>3. InjectMouse(x, wheel, msg, pressed)
      BY <1>6, <2>2
    <2>4. /\ absX' \in 0..(ScreenW - 1) /\ pointer' \in 0..(ScreenW - 1)
          /\ scrolled' \in 0..(ScrollMod - 1)
          /\ down' \subseteq Range(VKToLinux) \cap KeyBits /\ clicked' \subseteq AllButtons
          /\ pressedKeys' = pressedKeys /\ RecordIsTrue'
      BY <1>1, <1>2, <2>3, InjectMouseSound
    <2>5. open => /\ down' = down
                  /\ pressed => clicked' = clicked \cup ButtonsOf(msg, wheel)
                  /\ ~pressed => clicked' = clicked \ ButtonsOf(msg, wheel)
                  /\ scrolled' = (scrolled + LinuxWheel(wheel)) % ScrollMod
                  /\ absAvailable => pointer' = ToScreen(x)
                  /\ Distance(pointer', absX') <= Distance(pointer, absX)
      BY <1>1, <1>2, <2>3, InjectMouseSound
    <2>6. open => Now' = After(Now, p)
      <3>1. /\ Now.keys = down /\ Now.buttons = clicked
            /\ Now.notches = scrolled
        BY DEF Now
      <3>2. PICK x1 : x1 = IF absAvailable THEN ToScreen(x) ELSE 0
        OBVIOUS
      <3>3. CASE pressed
        <4>1. After(Now, p) = [keys |-> down,
                               buttons |-> clicked \cup ButtonsOf(msg, wheel),
                               notches |-> (scrolled + LinuxWheel(wheel)) % ScrollMod, x |-> x1]
          BY <1>6, <2>2, <3>1, <3>2, <3>3 DEF After
        <4> QED BY <1>1, <2>5, <3>2, <3>3, <4>1 DEF Now
      <3>4. CASE ~pressed
        <4>1. After(Now, p) = [keys |-> down,
                               buttons |-> clicked \ ButtonsOf(msg, wheel),
                               notches |-> (scrolled + LinuxWheel(wheel)) % ScrollMod, x |-> x1]
          BY <1>6, <2>2, <3>1, <3>2, <3>4 DEF After
        <4> QED BY <1>1, <2>5, <3>2, <3>4, <4>1 DEF Now
      <3> QED BY <3>3, <3>4
    <2> QED BY <1>2, <2>4, <2>5, <2>6 DEF TypeOK
  <1>7. ASSUME p.type = "Keyboard", InjectKeyboard(p.vk, p.up)
        PROVE  Sound
    <2>1. p \in KeyboardPackets
      BY <1>3, <1>7 DEF AllPackets, MousePackets, SwitchPackets
    <2>2. PICK up \in BOOLEAN, vk \in KeyNames : p.up = up /\ p.vk = vk
      BY <2>1 DEF KeyboardPackets
    <2>3. InjectKeyboard(vk, up)
      BY <1>7, <2>2
    <2>4. /\ UNCHANGED <<absX, pointer, clicked, scrolled>>
          /\ pressedKeys' \subseteq Range(VKToLinux)
          /\ down' \subseteq Range(VKToLinux) \cap KeyBits
          /\ RecordIsTrue'
          /\ open => /\ up => down' = down \ {VKToLinux[vk]}
                     /\ ~up => down' = down \cup {VKToLinux[vk]}
      BY <1>1, <1>2, <2>3, InjectKeyboardSound
    <2>5. open => Now' = After(Now, p)
      <3>1. /\ Now.keys = down /\ Now.buttons = clicked
            /\ Now.notches = scrolled /\ Now.x = IF absAvailable THEN pointer ELSE 0
        BY DEF Now
      <3>2. PICK x1 : x1 = IF absAvailable THEN pointer ELSE 0
        OBVIOUS
      <3>3. CASE up
        <4>1. After(Now, p) = [keys |-> down \ {VKToLinux[vk]},
                               buttons |-> clicked, notches |-> scrolled, x |-> x1]
          BY <1>7, <2>2, <3>1, <3>2, <3>3 DEF After
        <4> QED BY <1>1, <2>4, <3>2, <3>3, <4>1 DEF Now
      <3>4. CASE ~up
        <4>1. After(Now, p) = [keys |-> down \cup {VKToLinux[vk]},
                               buttons |-> clicked, notches |-> scrolled, x |-> x1]
          BY <1>7, <2>2, <3>1, <3>2, <3>4 DEF After
        <4> QED BY <1>1, <2>4, <3>2, <3>4, <4>1 DEF Now
      <3> QED BY <3>3, <3>4
    <2>6. Distance(pointer', absX') <= Distance(pointer, absX)
      BY <1>2, <2>4, Numbers DEF Distance, TypeOK
    <2> QED BY <1>2, <2>4, <2>5, <2>6 DEF TypeOK
  <1>7b. ASSUME p.type = "MachineSwitched", InjectMouse(Center, 0, "MOVE", FALSE)
         PROVE  Sound
    <2>0. PICK pressed \in BOOLEAN : pressed = FALSE
      OBVIOUS
    <2> DEFINE n == 0
               msg == "MOVE"
    <2>1. PICK x \in 0..MaxAbs : x = Center
      <3>1. Center \in Nat /\ Center <= MaxAbs
        BY MaxAbsIs DEF Center
      <3> QED BY <3>1
    <2>2. InjectMouse(x, n, msg, pressed)
      BY <1>7b, <2>0, <2>1 DEF InjectMouse
    <2>3. ButtonsOf(msg, n) = {} /\ LinuxWheel(n) = 0 /\ scrolled \in Int
      BY <1>2, <2>0, ButtonArrives DEF LinuxWheel, TypeOK, ScrollMod
    <2>4. /\ absX' \in 0..(ScreenW - 1) /\ pointer' \in 0..(ScreenW - 1)
          /\ scrolled' \in 0..(ScrollMod - 1)
          /\ down' \subseteq Range(VKToLinux) \cap KeyBits /\ clicked' \subseteq AllButtons
          /\ pressedKeys' = pressedKeys /\ RecordIsTrue'
      BY <1>1, <1>2, <2>2, InjectMouseSound
    <2>5. open => /\ down' = down
                  /\ clicked' = clicked \ ButtonsOf(msg, n)
                  /\ scrolled' = (scrolled + LinuxWheel(n)) % ScrollMod
                  /\ absAvailable => pointer' = ToScreen(x)
                  /\ Distance(pointer', absX') <= Distance(pointer, absX)
      BY <1>1, <1>2, <2>0, <2>2, InjectMouseSound
    <2>6. open => /\ clicked' = clicked
                  /\ scrolled' = scrolled % ScrollMod
                  /\ absAvailable => pointer' = ToScreen(Center)
      <3>1. clicked \ {} = clicked
        OBVIOUS
      <3>2. open => clicked' = clicked
        BY <2>3, <2>5, <3>1, Zenon
      <3>3. scrolled + 0 = scrolled
        BY <2>3
      <3>4. open => scrolled' = scrolled % ScrollMod
        BY <2>3, <2>5, <3>3, Zenon
      <3>5. open /\ absAvailable => pointer' = ToScreen(Center)
        BY <2>1, <2>5, Zenon
      <3> QED BY <3>2, <3>4, <3>5
    <2>7. open => Now' = After(Now, p)
      <3>1. /\ Now.keys = down /\ Now.buttons = clicked
            /\ Now.notches = scrolled
        BY DEF Now
      <3>2. PICK x1 : x1 = IF absAvailable THEN ToScreen(Center) ELSE 0
        OBVIOUS
      <3>3. After(Now, p) = [keys |-> down, buttons |-> clicked,
                             notches |-> scrolled % ScrollMod, x |-> x1]
        BY <1>7b, <3>1, <3>2 DEF After
      <3> QED BY <1>1, <2>5, <2>6, <3>2, <3>3 DEF Now
    <2> QED BY <1>2, <2>4, <2>5, <2>7 DEF TypeOK
  <1>8. Sound
    BY <1>5, <1>6, <1>7, <1>7b
  <1>9. TypeOK'
    BY <1>1, <1>2, <1>4, <1>8 DEF TypeOK
  <1>10. ASSUME open
         PROVE  (\E f : Replay(f) /\ Meant(f[Len(wire)]))'
    <2>1. PICK f : Replay(f) /\ Meant(f[Len(wire)])
      BY <1>10 DEF RemoteInv
    <2>2. PICK g : Replay(g)' /\ g[Len(wire')] = f[Len(wire)]
      BY <1>1, <1>2, <1>8, <1>10, <2>1, TakeReplays DEF p
    <2>3. PICK s : s = f[Len(wire)]
      OBVIOUS
    <2>4. Meant(s)'
      <3>1. Meant(s)
        BY <2>1, <2>3
      <3> QED BY <1>1, <3>1 DEF Meant, KeysOf, Image, AtCursor, Want
    <2> QED BY <2>2, <2>3, <2>4
  <1> QED BY <1>1, <1>2, <1>4, <1>8, <1>9, <1>10 DEF RemoteInv

-----------------------------------------------------------------------------
\* At the start nothing is held and nothing is on its way.
LEMMA RemoteInitially == Init => RemoteInv
  <1> SUFFICES ASSUME Init PROVE RemoteInv
    OBVIOUS
  <1>1. /\ LinuxToVK \in ReverseTables /\ mix \in Mixes /\ absAvailable \in BOOLEAN
        /\ held = {} /\ heldButtons = {} /\ turned = 0 /\ scrolled = 0
        /\ cursor = MaxCursor \div 2 /\ wire = <<>> /\ absX = 0 /\ pressedKeys = {}
        /\ open = TRUE /\ pointer \in StartPointers /\ down = {} /\ clicked = {}
    BY DEF Init, setupAbsoluteAxes
  <1>2. wire \in Seq(AllPackets) /\ Len(wire) = 0
    BY <1>1
  <1>3. TypeOK
    <2>1. cursor \in 0..MaxCursor
      BY <1>1, CursorRange
    <2>2. absX \in 0..(ScreenW - 1) /\ pointer \in 0..(ScreenW - 1) /\ Len(wire) <= MaxWire
      BY <1>1, <1>2, Numbers
    <2>3. turned \in 0..(ScrollMod - 1) /\ scrolled \in 0..(ScrollMod - 1)
      BY <1>1 DEF ScrollMod
    <2> QED BY <1>1, <2>1, <2>2, <2>3 DEF TypeOK
  <1>4. RecordIsTrue
    BY <1>1 DEF RecordIsTrue
  <1> DEFINE f == [i \in 0..0 |-> Now]
  <1>5. f = [i \in 0..Len(wire) |-> f[i]] /\ f[0] = Now
    BY <1>2
  <1> HIDE DEF f
  <1>6. Replay(f)
    BY <1>2, <1>5 DEF Replay
  <1>7. Meant(Now)
    <2>1. /\ Now.keys = {} /\ Now.buttons = {} /\ Now.notches = 0
          /\ absAvailable => Now.x = pointer
      BY <1>1 DEF Now
    <2>2. KeysOf(Now.keys)
      BY <1>1, <2>1 DEF KeysOf
    <2>3. ASSUME Comparable
          PROVE  AtCursor(Now.x)
      <3>1. pointer = ScreenW \div 2 /\ Want(cursor) = ScreenW \div 2 /\ ScreenW \div 2 \in Int
        BY <1>1, <2>3, Middle, Numbers DEF Comparable
      <3>2. absAvailable => Now.x - Want(cursor) \in {-1, 0, 1}
        BY <2>1, <3>1
      <3> QED BY <1>1, <3>2 DEF AtCursor
    <2> QED BY <1>1, <2>1, <2>2, <2>3 DEF Meant
  <1>8. Replay(f) /\ Meant(f[Len(wire)])
    BY <1>2, <1>5, <1>6, <1>7
  <1> QED BY <1>1, <1>2, <1>3, <1>4, <1>8 DEF RemoteInv

\* Close leaves nothing down.
LEMMA CloseKeeps == RemoteInv /\ Close => RemoteInv'
  BY DEF RemoteInv, Close, TypeOK, RecordIsTrue, setupVars, userVars

\* A step that changes nothing.
LEMMA StutterKeeps == RemoteInv /\ UNCHANGED vars => RemoteInv'
  <1> SUFFICES ASSUME RemoteInv, UNCHANGED vars PROVE RemoteInv'
    OBVIOUS
  <1>1. UNCHANGED <<LinuxToVK, mix, absAvailable, held, heldButtons, turned, cursor, wire, absX,
                    pressedKeys, open, pointer, down, clicked, scrolled>>
    BY DEF vars, setupVars, userVars
  <1>2. TypeOK' /\ RecordIsTrue' /\ LinuxToVK' \in ReverseTables /\ wire' \in Seq(AllPackets)
    BY <1>1 DEF RemoteInv, TypeOK, RecordIsTrue
  <1>3. ASSUME NEW f
        PROVE  Replay(f)' = Replay(f)
    <2>1. Now' = Now /\ \A s, q : After(s, q)' = After(s, q)
      BY <1>1 DEF Now, After
    <2> QED BY <1>1, <2>1 DEF Replay
  <1>4. ASSUME NEW s, Meant(s)
        PROVE  Meant(s)'
    BY <1>1, <1>4 DEF Meant, KeysOf, Image, AtCursor, Want
  <1>5. ASSUME open
        PROVE  (\E f : Replay(f) /\ Meant(f[Len(wire)]))'
    <2>1. PICK f : Replay(f) /\ Meant(f[Len(wire)])
      BY <1>5 DEF RemoteInv
    <2>2. PICK s : s = f[Len(wire)]
      OBVIOUS
    <2>3. Meant(s)' /\ Replay(f)' /\ s = f[Len(wire')]
      BY <1>1, <1>3, <1>4, <2>1, <2>2
    <2> QED BY <2>3
  <1> QED BY <1>1, <1>2, <1>5 DEF RemoteInv

\* RemoteInv is inductive.
LEMMA RemoteInductive == RemoteInv /\ [Next]_vars => RemoteInv'
  BY OnMoveKeeps, OnWheelKeeps, OnButtonKeeps, OnKeyKeeps, RepeatKeeps, SwitchKeeps, ReceiveSound,
     CloseKeeps, StutterKeeps DEF Next, Over

\* The devices are always in their ranges; the pointer stays on the screen
\* whatever positions arrive, with absolute and with relative axes.
THEOREM RemoteTypeCorrect == Spec => []TypeOK
  <1>1. RemoteInv => TypeOK
    BY DEF RemoteInv
  <1> QED BY <1>1, RemoteInitially, RemoteInductive, PTL DEF Spec

\* In every state, what the devices are is what the packets still to come have
\* not changed yet; once none is left it is what the user holds.
LEMMA QuietIsMeant ==
    ASSUME RemoteInv, Quiet
    PROVE  Meant(Now)
  <1>1. open /\ wire = <<>>
    BY DEF Quiet
  <1>2. PICK f : Replay(f) /\ Meant(f[Len(wire)])
    BY <1>1 DEF RemoteInv
  <1>3. f[Len(wire)] = Now
    BY <1>1, <1>2 DEF Replay
  <1> QED BY <1>2, <1>3

\* No key and no button sticks, none is let go that the user holds, and the
\* record InjectKeyboard and ReleaseAllKeys go by is the kernel's: for every
\* table of keys the virtual keyboard has and of mouse buttons, every reverse
\* table Go's map order can build, any number of keys, packets on their way and
\* repeated presses.
THEOREM NothingEverSticks == Spec => []NothingSticks
  <1>1. ASSUME RemoteInv
        PROVE  NothingSticks
    <2>1. RecordIsTrue
      BY <1>1 DEF RemoteInv
    <2>2. ASSUME Quiet
          PROVE  KeysOf(down) /\ clicked = heldButtons
      <3>1. KeysOf(Now.keys) /\ Now.buttons = heldButtons
        BY <1>1, <2>2, QuietIsMeant DEF Meant
      <3> QED BY <3>1 DEF Now
    <2>3. KeysAgree
      BY <2>2 DEF KeysAgree, KeysOf
    <2>4. ButtonsAgree
      BY <2>2 DEF ButtonsAgree
    <2> QED BY <2>1, <2>3, <2>4 DEF NothingSticks
  <1>2. RemoteInv => NothingSticks
    BY <1>1
  <1> QED BY <1>2, RemoteInitially, RemoteInductive, PTL DEF Spec

\* The wheel turns as far as the user's, for wheel steps of any size, as long
\* as no side button is used.
THEOREM WheelFollows == Spec => []ScrollAgrees
  <1>1. ASSUME RemoteInv
        PROVE  ScrollAgrees
    <2>1. Now.notches = scrolled
      BY DEF Now
    <2> QED BY <1>1, <2>1, QuietIsMeant DEF ScrollAgrees, Meant
  <1>2. RemoteInv => ScrollAgrees
    BY <1>1
  <1> QED BY <1>2, RemoteInitially, RemoteInductive, PTL DEF Spec

\* The pointer is within a pixel of where the user put it, whatever the two
\* screens and the sensitivity: for a target of up to 43690 pixels, a pointer that
\* starts in the middle, and sessions in which MachineSwitched does not put it
\* back there while the user moves it.
THEOREM PointerFollows ==
    ASSUME 3 * ScreenW <= 131072, StartPointers \subseteq {ScreenW \div 2},
           \A m \in Mixes : {"move", "switch"} \cap m # {"move", "switch"}
    PROVE  Spec => []PointerAccurate
  <1>1. Comparable
    BY DEF Comparable
  <1>2. ASSUME RemoteInv
        PROVE  PointerAccurate
    <2>1. absAvailable => Now.x = pointer
      BY DEF Now
    <2>2. Quiet /\ absAvailable => pointer - Want(cursor) \in {-1, 0, 1}
      BY <1>1, <1>2, <2>1, QuietIsMeant DEF Meant, AtCursor
    <2> QED BY <2>2 DEF PointerAccurate, Want
  <1>3. RemoteInv => PointerAccurate
    BY <1>2
  <1> QED BY <1>3, RemoteInitially, RemoteInductive, PTL DEF Spec

\* With relative axes no packet takes the pointer further from where it should
\* be than it was, at the edges of the screen too.
THEOREM ErrorNeverGrowing == Spec => ErrorNeverGrows
  <1>1. ASSUME RemoteInv, [Next]_vars, open
        PROVE  Distance(pointer', absX') <= Distance(pointer, absX)
    <2>1. CASE Receive
      BY <1>1, <2>1, ReceiveSound
    <2>2. CASE UNCHANGED <<pointer, absX>>
      BY <1>1, <2>2, Numbers DEF RemoteInv, TypeOK, Distance
    <2>3. ASSUME ~Receive
          PROVE  UNCHANGED <<pointer, absX>>
      BY <1>1, <2>3 DEF Next, Over, OnMove, OnWheel, OnButtonEvent, OnKeyEvent, KeyRepeats,
         PeerSwitches, Close, vars, injectVars
    <2> QED BY <2>1, <2>2, <2>3
  <1>2. RemoteInv /\ [Next]_vars => [open => Distance(pointer', absX') <= Distance(pointer, absX)]_vars
    BY <1>1
  <1> QED BY <1>2, RemoteInitially, RemoteInductive, PTL DEF Spec, ErrorNeverGrows
=============================================================================
