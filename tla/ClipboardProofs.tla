-------------------------- MODULE ClipboardProofs --------------------------
(***************************************************************************)
(* Proofs about ClipboardCodec, for texts of any length, and about         *)
(* Clipboard, for any texts that take any number of packets.               *)
(*                                                                         *)
(* What FlattenSeq computes is shown by induction.  The induction theorems *)
(* of the library have a predicate for a parameter, which the provers      *)
(* cannot instantiate; SetInduction says the same of a set, and follows    *)
(* from the theorem that a well-founded order has minimal elements.        *)
(***************************************************************************)
EXTENDS Clipboard, SequenceTheorems, WellFoundedInduction, TLAPS

-----------------------------------------------------------------------------
(* Induction, and what FlattenSeq computes.                                *)

\* A set that holds 0 and the successor of each of its numbers holds all of
\* them.
LEMMA SetInduction ==
    ASSUME NEW S, 0 \in S, \A n \in Nat : n \in S => n + 1 \in S
    PROVE  Nat \subseteq S
  <1> SUFFICES ASSUME Nat \ S # {} PROVE FALSE
    OBVIOUS
  <1>1. \E x \in Nat \ S : \A y \in Nat \ S : ~(<<y, x>> \in OpToRel(<, Nat))
    BY NatLessThanWellFounded, WFMin, Zenon
  <1>2. PICK x \in Nat \ S : \A y \in Nat \ S : ~(<<y, x>> \in OpToRel(<, Nat))
    BY <1>1
  <1>3. \A y \in Nat \ S : ~(y < x)
    BY <1>2 DEF OpToRel
  <1>4. x # 0 /\ x - 1 \in Nat /\ x - 1 < x /\ (x - 1) + 1 = x
    OBVIOUS
  <1>5. x - 1 \in S
    BY <1>3, <1>4
  <1> QED BY <1>2, <1>4, <1>5

\* The function FlattenSeq computes, on the first n of the pieces.
Joins(f, pieces, n) ==
    f = [i \in 1..n |-> IF i = 1 THEN pieces[i] ELSE f[i-1] \o pieces[i]]

\* There is one, however many pieces there are.
LEMMA JoinsExists ==
    ASSUME NEW pieces, NEW n \in Nat
    PROVE  \E f : Joins(f, pieces, n)
  <1> DEFINE S == {k \in Nat : \E f : Joins(f, pieces, k)}
  <1>1. 0 \in S
    <2> DEFINE f == [i \in 1..0 |-> pieces[i]]
    <2>1. Joins(f, pieces, 0)
      BY DEF Joins
    <2> QED BY <2>1
  <1>2. ASSUME NEW k \in Nat, k \in S
        PROVE  k + 1 \in S
    <2>1. PICK f : Joins(f, pieces, k)
      BY <1>2
    <2> DEFINE g == [i \in 1..(k + 1) |-> IF i <= k THEN f[i]
                                          ELSE IF i = 1 THEN pieces[i] ELSE f[k] \o pieces[i]]
    <2>2. \A i \in 1..k : f[i] = IF i = 1 THEN pieces[i] ELSE f[i-1] \o pieces[i]
      BY <2>1 DEF Joins
    <2>3. \A i \in 1..(k + 1) : g[i] = IF i = 1 THEN pieces[i] ELSE g[i-1] \o pieces[i]
      <3>1. ASSUME NEW i \in 1..(k + 1)
            PROVE  g[i] = IF i = 1 THEN pieces[i] ELSE g[i-1] \o pieces[i]
        <4>1. CASE i = 1
          BY <2>2, <4>1
        <4>2. CASE i # 1
          <5>1. i - 1 \in 1..(k + 1) /\ i - 1 <= k
            BY <4>2
          <5>2. g[i-1] = f[i-1]
            BY <5>1
          <5>3. CASE i <= k
            <6>1. g[i] = f[i] /\ i \in 1..k
              BY <5>3
            <6>2. f[i] = f[i-1] \o pieces[i]
              BY <2>2, <4>2, <6>1, Zenon
            <6> QED BY <4>2, <5>2, <6>1, <6>2, Zenon
          <5>4. CASE i = k + 1
            <6>1. i - 1 = k /\ ~(i <= k)
              BY <5>4
            <6>2. g[i] = f[k] \o pieces[i]
              BY <4>2, <6>1, Zenon
            <6> QED BY <4>2, <5>2, <6>1, <6>2, Zenon
          <5> QED BY <5>3, <5>4
        <4> QED BY <4>1, <4>2
      <3> QED BY <3>1
    <2>4. g = [i \in 1..(k + 1) |-> g[i]]
      OBVIOUS
    <2> HIDE DEF g
    <2>5. Joins(g, pieces, k + 1)
      BY <2>3, <2>4 DEF Joins
    <2> QED BY <2>5
  <1> HIDE DEF S
  <1>3. Nat \subseteq S
    BY <1>1, <1>2, SetInduction
  <1> QED BY <1>3 DEF S

\* FlattenSeq is the value of that function at the last piece.
LEMMA FlattenIs ==
    ASSUME NEW X, NEW pieces \in Seq(Seq(X)), Len(pieces) # 0
    PROVE  \E f : Joins(f, pieces, Len(pieces)) /\ FlattenSeq(pieces) = f[Len(pieces)]
  <1> DEFINE f == CHOOSE g : g = [i \in 1..Len(pieces) |->
                                     IF i = 1 THEN pieces[i] ELSE g[i-1] \o pieces[i]]
  <1>1. \E g : g = [i \in 1..Len(pieces) |->
                                     IF i = 1 THEN pieces[i] ELSE g[i-1] \o pieces[i]]
    <2>1. \E g : Joins(g, pieces, Len(pieces))
      <3>1. Len(pieces) \in Nat
        OBVIOUS
      <3> QED BY <3>1, JoinsExists, Zenon
    <2> QED BY <2>1, Zenon DEF Joins
  <1>2. Joins(f, pieces, Len(pieces))
    BY <1>1, Zenon DEF Joins
  <1>3. FlattenSeq(pieces) = f[Len(pieces)]
    BY DEF FlattenSeq
  <1> QED BY <1>2, <1>3

Alike(f, g, n) == \A i \in 1..n : f[i] = g[i]

\* Functions that join the same pieces agree as far as both go.
LEMMA JoinsAgree ==
    ASSUME NEW p, NEW q, NEW n \in Nat, NEW m \in Nat, n <= m, NEW f, NEW g,
           Joins(f, p, n), Joins(g, q, m), Alike(p, q, n)
    PROVE  Alike(f, g, n)
  <1> DEFINE S == {k \in Nat : k \in 1..n => f[k] = g[k]}
  <1>1. 0 \in S
    OBVIOUS
  <1>2. ASSUME NEW k \in Nat, k \in S
        PROVE  k + 1 \in S
    <2>1. CASE k + 1 \in 1..n
      <3>1. k + 1 \in 1..m
        BY <2>1
      <3>2. f[k + 1] = IF k + 1 = 1 THEN p[k + 1] ELSE f[(k + 1)-1] \o p[k + 1]
        BY <2>1 DEF Joins
      <3>3. g[k + 1] = IF k + 1 = 1 THEN q[k + 1] ELSE g[(k + 1)-1] \o q[k + 1]
        BY <3>1 DEF Joins
      <3>4. (k + 1) - 1 = k /\ p[k + 1] = q[k + 1]
        BY <2>1 DEF Alike
      <3>5. k + 1 # 1 => f[k] = g[k]
        BY <1>2, <2>1
      <3> QED BY <3>2, <3>3, <3>4, <3>5
    <2> QED BY <2>1
  <1> HIDE DEF S
  <1>3. Nat \subseteq S
    BY <1>1, <1>2, SetInduction
  <1> QED BY <1>3 DEF S, Alike

\* A piece at the end is a piece of the text at its end.
LEMMA FlattenAppend ==
    ASSUME NEW X, NEW pieces \in Seq(Seq(X)), NEW p \in Seq(X)
    PROVE  FlattenSeq(Append(pieces, p)) =
             IF pieces = <<>> THEN p ELSE FlattenSeq(pieces) \o p
  <1> DEFINE more == Append(pieces, p)
             n == Len(pieces)
  <1>1. /\ more \in Seq(Seq(X)) /\ Len(more) = n + 1 /\ n \in Nat
        /\ more[n + 1] = p /\ \A i \in 1..n : pieces[i] = more[i]
    OBVIOUS
  <1> HIDE DEF more
  <1>2. PICK g : Joins(g, more, n + 1) /\ FlattenSeq(more) = g[n + 1]
    <2>1. Len(more) # 0
      BY <1>1
    <2> QED BY <1>1, <2>1, FlattenIs
  <1>3. g[n + 1] = IF n + 1 = 1 THEN more[n + 1] ELSE g[(n + 1)-1] \o more[n + 1]
    <2>1. n + 1 \in 1..(n + 1)
      BY <1>1
    <2> QED BY <1>2, <2>1 DEF Joins
  <1>4. CASE pieces = <<>>
    BY <1>1, <1>2, <1>3, <1>4 DEF more
  <1>5. CASE pieces # <<>>
    <2>1. n # 0 /\ n \in 1..n /\ n <= n + 1 /\ (n + 1) - 1 = n
      BY <1>1, <1>5
    <2>2. PICK f : Joins(f, pieces, n) /\ FlattenSeq(pieces) = f[n]
      BY <2>1, FlattenIs
    <2>3. f[n] = g[n]
      <3>1. n + 1 \in Nat /\ n \in Nat /\ n <= n + 1 /\ Alike(pieces, more, n)
        BY <1>1, <2>1 DEF Alike
      <3>2. Joins(f, pieces, n) /\ Joins(g, more, n + 1)
        BY <1>2, <2>2
      <3> HIDE DEF n
      <3>3. Alike(f, g, n)
        BY <3>1, <3>2, JoinsAgree
      <3> QED BY <2>1, <3>3 DEF Alike
    <2> QED BY <1>1, <1>2, <1>3, <1>5, <2>1, <2>2, <2>3 DEF more
  <1> QED BY <1>4, <1>5

\* A sequence that is not empty is a shorter one and its last element.
LEMMA LastAppended ==
    ASSUME NEW X, NEW s \in Seq(X), NEW n \in Nat, Len(s) = n + 1
    PROVE  \E r \in Seq(X), x \in X : s = Append(r, x) /\ Len(r) = n
  <1>1. s # <<>>
    OBVIOUS
  <1>2. PICK r \in Seq(X), x \in X : s = Append(r, x)
    BY <1>1, SequenceEmptyOrAppend
  <1>3. Len(s) = Len(r) + 1 /\ Len(r) \in Nat
    BY <1>2
  <1>4. Len(r) = n
    BY <1>3
  <1> QED BY <1>2, <1>4

\* FlattenSeq makes one sequence of many.
LEMMA FlattenTyped ==
    ASSUME NEW X, NEW pieces \in Seq(Seq(X))
    PROVE  FlattenSeq(pieces) \in Seq(X)
  <1> DEFINE S == {n \in Nat : \A p \in Seq(Seq(X)) : Len(p) = n => FlattenSeq(p) \in Seq(X)}
  <1>1. 0 \in S
    BY DEF FlattenSeq
  <1>2. ASSUME NEW n \in Nat, n \in S
        PROVE  n + 1 \in S
    <2>1. ASSUME NEW p \in Seq(Seq(X)), Len(p) = n + 1
          PROVE  FlattenSeq(p) \in Seq(X)
      <3>1. PICK r \in Seq(Seq(X)), x \in Seq(X) : p = Append(r, x) /\ Len(r) = n
        BY <2>1, LastAppended
      <3>2. FlattenSeq(r) \in Seq(X)
        BY <1>2, <3>1
      <3>3. FlattenSeq(p) = IF r = <<>> THEN x ELSE FlattenSeq(r) \o x
        BY <3>1, FlattenAppend
      <3> QED BY <3>2, <3>3
    <2> QED BY <2>1
  <1> HIDE DEF S
  <1>3. Len(pieces) \in S
    BY <1>1, <1>2, SetInduction
  <1> QED BY <1>3 DEF S

\* A piece more at the end adds its elements at the end.
LEMMA FlattenOneMore ==
    ASSUME NEW X, NEW pieces \in Seq(Seq(X)), NEW p \in Seq(X)
    PROVE  FlattenSeq(Append(pieces, p)) = FlattenSeq(pieces) \o p
  <1>1. CASE pieces = <<>>
    <2>1. FlattenSeq(pieces) = <<>>
      BY <1>1 DEF FlattenSeq
    <2>2. FlattenSeq(Append(pieces, p)) = p
      BY <1>1, FlattenAppend
    <2>3. <<>> \o p = p
      BY ConcatEmptySeq
    <2> QED BY <2>1, <2>2, <2>3, Zenon
  <1>2. CASE pieces # <<>>
    BY <1>2, FlattenAppend
  <1> QED BY <1>1, <1>2

-----------------------------------------------------------------------------
(* The encoding of a text.                                                 *)

\* The units of any code point are numbers.
LEMMA UnitsTyped ==
    ASSUME NEW r \in Nat
    PROVE  UnitsOf(r) \in Seq(Nat)
  <1>1. r % 65536 \in Nat /\ RuneLen(r) - 1 \in Nat
    BY DEF RuneLen
  <1>2. Zeros(RuneLen(r) - 1) \in Seq(Nat)
    BY <1>1 DEF Zeros
  <1> QED BY <1>1, <1>2 DEF UnitsOf

\* One more code point: utf16Bytes adds its units.
LEMMA OneMoreCodePoint ==
    ASSUME NEW t \in Seq(Nat), NEW r \in Nat
    PROVE  /\ utf16Bytes(t) \in Seq(Nat)
           /\ utf16Bytes(Append(t, r)) = utf16Bytes(t) \o UnitsOf(r)
  <1> DEFINE pieces == [i \in 1..Len(t) |-> UnitsOf(t[i])]
             more == [i \in 1..Len(Append(t, r)) |-> UnitsOf(Append(t, r)[i])]
  <1>1. pieces \in Seq(Seq(Nat)) /\ Len(pieces) = Len(t)
    <2>1. \A i \in 1..Len(t) : UnitsOf(t[i]) \in Seq(Nat)
      BY UnitsTyped
    <2>2. pieces \in [1..Len(t) -> Seq(Nat)] /\ Len(t) \in Nat
      BY <2>1
    <2> HIDE DEF pieces
    <2> QED BY <2>2
  <1>2. UnitsOf(r) \in Seq(Nat)
    BY UnitsTyped
  <1>3. more = Append(pieces, UnitsOf(r))
    OBVIOUS
  <1> HIDE DEF pieces, more
  <1>4. FlattenSeq(more) = FlattenSeq(pieces) \o UnitsOf(r)
    BY <1>1, <1>2, <1>3, FlattenOneMore
  <1>5. FlattenSeq(pieces) \in Seq(Nat)
    BY <1>1, FlattenTyped
  <1> QED BY <1>4, <1>5 DEF utf16Bytes, pieces, more

\* One more unit: DecodeUnits adds its character, or nothing for a 0.
LEMMA OneMoreUnit ==
    ASSUME NEW s \in Seq(Nat), NEW u \in Nat
    PROVE  /\ DecodeUnits(s) \in Seq(Nat)
           /\ DecodeUnits(Append(s, u)) = DecodeUnits(s) \o RunesOf(u)
  <1> DEFINE pieces == [i \in 1..Len(s) |-> RunesOf(s[i])]
             more == [i \in 1..Len(Append(s, u)) |-> RunesOf(Append(s, u)[i])]
  <1>0. \A x \in Nat : RunesOf(x) \in Seq(Nat)
    BY DEF RunesOf, ToRune
  <1>1. pieces \in Seq(Seq(Nat)) /\ Len(pieces) = Len(s)
    <2>1. \A i \in 1..Len(s) : RunesOf(s[i]) \in Seq(Nat)
      BY <1>0
    <2>2. pieces \in [1..Len(s) -> Seq(Nat)] /\ Len(s) \in Nat
      BY <2>1
    <2> HIDE DEF pieces
    <2> QED BY <2>2
  <1>2. RunesOf(u) \in Seq(Nat)
    BY <1>0
  <1>3. more = Append(pieces, RunesOf(u))
    OBVIOUS
  <1> HIDE DEF pieces, more
  <1>4. FlattenSeq(more) = FlattenSeq(pieces) \o RunesOf(u)
    BY <1>1, <1>2, <1>3, FlattenOneMore
  <1>5. FlattenSeq(pieces) \in Seq(Nat)
    BY <1>1, FlattenTyped
  <1> QED BY <1>4, <1>5 DEF DecodeUnits, pieces, more

\* The empty text has no units, and none make the empty text.
LEMMA NothingIsNothing ==
    utf16Bytes(<<>>) = <<>> /\ DecodeUnits(<<>>) = <<>>
  <1>1. Len(<<>>) = 0
    OBVIOUS
  <1>2. [i \in 1..0 |-> UnitsOf(<<>>[i])] = <<>> /\ [i \in 1..0 |-> RunesOf(<<>>[i])] = <<>>
    OBVIOUS
  <1>3. FlattenSeq(<<>>) = <<>>
    BY <1>1 DEF FlattenSeq
  <1> QED BY <1>1, <1>2, <1>3 DEF utf16Bytes, DecodeUnits

\* A unit of 0 adds nothing to the text.
LEMMA ZeroIsDropped ==
    ASSUME NEW s \in Seq(Nat)
    PROVE  DecodeUnits(Append(s, 0)) = DecodeUnits(s)
  <1>1. DecodeUnits(s) \in Seq(Nat) /\ DecodeUnits(Append(s, 0)) = DecodeUnits(s) \o RunesOf(0)
    BY OneMoreUnit
  <1>2. RunesOf(0) = <<>>
    BY DEF RunesOf
  <1> QED BY <1>1, <1>2, ConcatEmptySeq

\* The code points one unit can hold: below 65536, no surrogates and not 0.
Portable == {r \in Nat : 0 < r /\ r < 65536 /\ ToRune(r) = r}

\* A portable code point is one unit and up to two zeros.
LEMMA PortableUnits ==
    ASSUME NEW r \in Portable
    PROVE  UnitsOf(r) \in {<<r>> \o <<>>, <<r>> \o <<0>>, <<r>> \o <<0, 0>>}
  <1>1. r \in Nat /\ r % 65536 = r
    BY DEF Portable
  <1>2. RuneLen(r) \in {1, 2, 3}
    BY DEF Portable, RuneLen
  <1>3. Zeros(0) = <<>> /\ Zeros(1) = <<0>> /\ Zeros(2) = <<0, 0>>
    BY DEF Zeros
  <1>4. Zeros(RuneLen(r) - 1) \in {<<>>, <<0>>, <<0, 0>>}
    BY <1>2, <1>3
  <1>5. UnitsOf(r) = <<r>> \o Zeros(RuneLen(r) - 1)
    BY <1>1 DEF UnitsOf
  <1> QED BY <1>4, <1>5

\* Units and zeros added together or one by one.
LEMMA OneByOne ==
    ASSUME NEW e \in Seq(Nat), NEW r \in Nat
    PROVE  /\ e \o (<<r>> \o <<>>) = Append(e, r)
           /\ e \o (<<r>> \o <<0>>) = Append(Append(e, r), 0)
           /\ e \o (<<r>> \o <<0, 0>>) = Append(Append(Append(e, r), 0), 0)
  <1>1. e \o (<<r>> \o <<>>) = Append(e, r)
    OBVIOUS
  <1>2. e \o (<<r>> \o <<0>>) = Append(Append(e, r), 0)
    OBVIOUS
  <1>3. e \o (<<r>> \o <<0, 0>>) = Append(Append(Append(e, r), 0), 0)
    OBVIOUS
  <1> QED BY <1>1, <1>2, <1>3

\* What is encoded is decoded: nothing of a portable text is lost by writing a
\* unit per byte and dropping the zeros.
LEMMA UnitsRoundTrip ==
    ASSUME NEW t \in Seq(Portable)
    PROVE  DecodeUnits(utf16Bytes(t)) = t
  <1> Portable \subseteq Nat
    BY DEF Portable
  <1> DEFINE S == {n \in Nat : \A s \in Seq(Portable) : Len(s) = n => DecodeUnits(utf16Bytes(s)) = s}
  <1>1. 0 \in S
    <2>1. ASSUME NEW s \in Seq(Portable), Len(s) = 0
          PROVE  DecodeUnits(utf16Bytes(s)) = s
      <3>1. s = <<>>
        BY <2>1
      <3>2. utf16Bytes(<<>>) = <<>> /\ DecodeUnits(<<>>) = <<>>
        BY NothingIsNothing
      <3> QED BY <3>1, <3>2
    <2> QED BY <2>1
  <1>2. ASSUME NEW n \in Nat, n \in S
        PROVE  n + 1 \in S
    <2>1. ASSUME NEW s \in Seq(Portable), Len(s) = n + 1
          PROVE  DecodeUnits(utf16Bytes(s)) = s
      <3>1. PICK q \in Seq(Portable), r \in Portable : s = Append(q, r) /\ Len(q) = n
        BY <2>1, LastAppended
      <3>2. DecodeUnits(utf16Bytes(q)) = q
        BY <1>2, <3>1
      <3> DEFINE e == utf16Bytes(q)
      <3>0. q \in Seq(Nat) /\ r \in Nat
        BY SeqMonotonic
      <3>3. e \in Seq(Nat) /\ utf16Bytes(s) = e \o UnitsOf(r)
        BY <3>0, <3>1, OneMoreCodePoint
      <3>4. DecodeUnits(Append(e, r)) = Append(q, r)
        <4>1. DecodeUnits(Append(e, r)) = DecodeUnits(e) \o RunesOf(r)
          BY <3>0, <3>3, OneMoreUnit
        <4>2. RunesOf(r) = <<r>>
          BY DEF RunesOf, Portable
        <4>3. q \o <<r>> = Append(q, r)
          BY <3>0
        <4> QED BY <3>2, <4>1, <4>2, <4>3
      <3> HIDE DEF e
      <3>5. CASE UnitsOf(r) = <<r>> \o <<>>
        <4>1. e \o (<<r>> \o <<>>) = Append(e, r)
          BY <3>0, <3>3, OneByOne
        <4> QED BY <3>1, <3>3, <3>4, <3>5, <4>1
      <3>6. DecodeUnits(Append(Append(e, r), 0)) = Append(q, r)
        <4>1. Append(e, r) \in Seq(Nat)
          BY <3>0, <3>3
        <4> QED BY <3>4, <4>1, ZeroIsDropped
      <3>7. CASE UnitsOf(r) = <<r>> \o <<0>>
        <4>1. e \o (<<r>> \o <<0>>) = Append(Append(e, r), 0)
          BY <3>0, <3>3, OneByOne
        <4> QED BY <3>1, <3>3, <3>6, <3>7, <4>1
      <3>8. CASE UnitsOf(r) = <<r>> \o <<0, 0>>
        <4>1. e \o (<<r>> \o <<0, 0>>) = Append(Append(Append(e, r), 0), 0)
          BY <3>0, <3>3, OneByOne
        <4>2. DecodeUnits(Append(Append(Append(e, r), 0), 0)) = Append(q, r)
          <5>1. Append(Append(e, r), 0) \in Seq(Nat)
            BY <3>0, <3>3
          <5> QED BY <3>6, <5>1, ZeroIsDropped
        <4> QED BY <3>1, <3>3, <3>8, <4>1, <4>2
      <3> QED BY <3>5, <3>7, <3>8, PortableUnits
    <2> QED BY <2>1
  <1> HIDE DEF S
  <1>3. Len(t) \in S
    BY <1>1, <1>2, SetInduction
  <1> QED BY <1>3 DEF S

\* What the peer takes a text for ends before its first separator.
CutAt(t, n) ==
    /\ n \in 1..(Len(t) + 1)
    /\ Matches(t \o Separator, n)
    /\ \A j \in 1..(n - 1) : ~Matches(t \o Separator, j)

\* Two sequences of numbers, one after the other.
LEMMA ConcatNumbers ==
    ASSUME NEW p \in Seq(Nat), NEW s \in Seq(Nat)
    PROVE  /\ p \o s \in Seq(Nat) /\ Len(p \o s) = Len(p) + Len(s)
           /\ \A r \in Seq(Nat) : (p \o s) \o r = p \o (s \o r)
  <1>1. p \o s \in Seq(Nat) /\ Len(p \o s) = Len(p) + Len(s)
    BY ConcatProperties
  <1>2. ASSUME NEW r \in Seq(Nat)
        PROVE  (p \o s) \o r = p \o (s \o r)
    BY ConcatAssociative, SMTT(30)
  <1> QED BY <1>1, <1>2

\* The rest of a sequence after a prefix.
LEMMA AfterPrefix ==
    ASSUME NEW p \in Seq(Nat), NEW s \in Seq(Nat), Len(s) # 0
    PROVE  SubSeq(p \o s, Len(p) + 1, Len(p) + Len(s)) = s
  <1> DEFINE a == Len(p) + 1
             z == Len(p) + Len(s)
  <1>1. /\ a \in Len(p) + 1 .. Len(p) + Len(s) /\ z \in Len(p) + 1 .. Len(p) + Len(s)
        /\ a - Len(p) = 1 /\ z - Len(p) = Len(s)
    OBVIOUS
  <1>2. SubSeq(s, 1, Len(s)) = s
    OBVIOUS
  <1> HIDE DEF a, z
  <1>3. SubSeq(p \o s, a, z) = SubSeq(s, a - Len(p), z - Len(p))
    BY <1>1, SubSeqOfConcat2
  <1> QED BY <1>1, <1>2, <1>3 DEF a, z

\* ParseMWBClipboardFormat removes the tag and what follows the cut.
LEMMA ParseCuts ==
    ASSUME NEW t \in Seq(Nat), NEW n, CutAt(t, n)
    PROVE  ParseMWBClipboardFormat(TXT \o t \o Separator) = SubSeq(t, 1, n - 1)
  <1> DEFINE w == TXT \o t \o Separator
             b == t \o Separator
  <1>1. TXT \in Seq(Nat) /\ Len(TXT) = 3 /\ Separator \in Seq(Nat) /\ Len(Separator) = 2
    BY DEF TXT, Separator
  <1>2. w \in Seq(Nat) /\ b \in Seq(Nat) /\ Len(w) = Len(t) + 5 /\ Len(b) = Len(t) + 2
    <2>1. TXT \o t \in Seq(Nat) /\ Len(TXT \o t) = 3 + Len(t)
      BY <1>1, ConcatNumbers
    <2>2. w \in Seq(Nat) /\ Len(w) = (3 + Len(t)) + 2
      BY <1>1, <2>1, ConcatNumbers
    <2>3. b \in Seq(Nat) /\ Len(b) = Len(t) + 2
      BY <1>1, ConcatNumbers
    <2>4. Len(t) \in Nat
      OBVIOUS
    <2> HIDE DEF w, b
    <2> QED BY <2>2, <2>3, <2>4
  <1>3. SubSeq(w, 1, 3) = TXT
    BY <1>1, <1>2
  <1>4. SubSeq(w, 4, Len(w)) = b
    <2>1. w = TXT \o b
      <3>1. \A p, s, r \in Seq(Nat) : (p \o s) \o r = p \o (s \o r)
        BY ConcatNumbers
      <3> QED BY <1>1, <3>1, Zenon
    <2>2. Len(TXT) + 1 = 4 /\ Len(TXT) + Len(b) = Len(w)
      BY <1>1, <1>2
    <2>3. SubSeq(TXT \o b, Len(TXT) + 1, Len(TXT) + Len(b)) = b
      <3>1. TXT \in Seq(Nat) /\ b \in Seq(Nat) /\ Len(b) # 0
        BY <1>1, <1>2
      <3> HIDE DEF b
      <3> QED BY <3>1, AfterPrefix
    <2> HIDE DEF w, b
    <2> QED BY <2>1, <2>2, <2>3
  <1>5. TXT \in FormatTags
    BY DEF FormatTags
  <1> HIDE DEF w
  <1> DEFINE First(i) == Matches(b, i) /\ \A j \in 1..(i - 1) : ~Matches(b, j)
             cut == CHOOSE i \in 1..(Len(b) - 1) : First(i)
  <1>6. n \in 1..(Len(b) - 1) /\ First(n)
    BY <1>2 DEF CutAt
  <1>7. ParseMWBClipboardFormat(w) = SubSeq(b, 1, cut - 1)
    <2>1. \E i \in 1..(Len(b) - 1) : Matches(b, i)
      BY <1>6
    <2>2. (IF SubSeq(w, 1, 3) \in FormatTags THEN SubSeq(w, 4, Len(w)) ELSE w) = b
      BY <1>3, <1>4, <1>5
    <2> HIDE DEF b
    <2> QED BY <2>1, <2>2, Zenon DEF ParseMWBClipboardFormat
  <1>8. cut \in 1..(Len(b) - 1) /\ First(cut)
    <2> HIDE DEF First
    <2> QED BY <1>6, Zenon
  <1>9. cut = n
    <2> HIDE DEF cut, b
    <2>1. ~(n < cut)
      BY <1>2, <1>6, <1>8
    <2>2. ~(cut < n)
      BY <1>2, <1>6, <1>8
    <2> QED BY <1>2, <1>6, <1>8, <2>1, <2>2
  <1>10. SubSeq(b, 1, n - 1) = SubSeq(t, 1, n - 1)
    BY <1>1, <1>2 DEF CutAt
  <1> QED BY <1>7, <1>9, <1>10 DEF w

\* The tag and the separator are portable.
LEMMA FramePortable ==
    ASSUME NEW t \in Seq(Portable)
    PROVE  TXT \o t \o Separator \in Seq(Portable)
  <1>1. TXT \in Seq(Portable) /\ Separator \in Seq(Portable)
    BY DEF TXT, Separator, Portable, ToRune
  <1> QED BY <1>1

\* Any text, whatever its characters, is written as units and never as nothing.
LEMMA FormatTyped ==
    ASSUME NEW t \in Seq(Nat)
    PROVE  formatClipboardText(t) \in Seq(Nat) \ {<<>>}
  <1> DEFINE front == TXT \o t \o <<123>>
  <1>1. front \in Seq(Nat) /\ TXT \o t \o Separator = Append(front, 125)
    <2>1. TXT \in Seq(Nat) /\ <<123>> \in Seq(Nat) /\ Separator = Append(<<123>>, 125)
      BY DEF TXT, Separator
    <2> HIDE DEF TXT, Separator
    <2> QED BY <2>1
  <1> HIDE DEF front
  <1> DEFINE e == utf16Bytes(front)
             u == UnitsOf(125)
  <1>2. e \in Seq(Nat) /\ formatClipboardText(t) = e \o u
    BY <1>1, OneMoreCodePoint DEF formatClipboardText
  <1>3. u \in Seq(Nat) /\ Len(u) # 0
    <2>1. u = <<125 % 65536>> \o Zeros(0) /\ Zeros(0) = <<>>
      BY DEF UnitsOf, RuneLen, Zeros
    <2>2. u \in Seq(Nat)
      BY UnitsTyped
    <2> QED BY <2>1, <2>2
  <1> HIDE DEF e, u
  <1>4. e \o u \in Seq(Nat) /\ Len(e \o u) = Len(e) + Len(u) /\ Len(e) \in Nat /\ Len(u) \in Nat
    BY <1>2, <1>3, ConcatNumbers
  <1>5. Len(e \o u) # 0
    BY <1>3, <1>4
  <1> QED BY <1>2, <1>4, <1>5

\* The clipboard encoding of main.go, from formatClipboardText on one machine
\* to decompressAndParseClipboard on the other, for a text of any length: the
\* characters a 16-bit unit can hold all arrive, up to the first separator in
\* the text.
THEOREM TextIsCut ==
    ASSUME NEW t \in Seq(Portable), NEW n, CutAt(t, n)
    PROVE  decompressAndParseClipboard(formatClipboardText(t)) = SubSeq(t, 1, n - 1)
  <1>1. DecodeUnits(utf16Bytes(TXT \o t \o Separator)) = TXT \o t \o Separator
    BY FramePortable, UnitsRoundTrip
  <1>2. t \in Seq(Nat)
    <2>1. Portable \subseteq Nat
      BY DEF Portable
    <2> QED BY <2>1, SeqMonotonic
  <1> QED BY <1>1, <1>2, ParseCuts DEF decompressAndParseClipboard, formatClipboardText

\* A portable text arrives as it was copied when no separator begins in it.
THEOREM TextRoundTrip ==
    ASSUME NEW t \in Seq(Portable), \A j \in 1..Len(t) : ~Matches(t \o Separator, j)
    PROVE  decompressAndParseClipboard(formatClipboardText(t)) = t
  <1> DEFINE n == Len(t) + 1
  <1>1. n \in 1..(Len(t) + 1) /\ n - 1 = Len(t)
    OBVIOUS
  <1>2. Matches(t \o Separator, n)
    <2>1. Separator \in Seq(Nat) /\ Len(Separator) = 2
      BY DEF Separator
    <2>2. t \in Seq(Nat)
      <3>1. Portable \subseteq Nat
        BY DEF Portable
      <3> QED BY <3>1, SeqMonotonic
    <2>3. SubSeq(t \o Separator, Len(t) + 1, Len(t) + Len(Separator)) = Separator
      <3>1. Separator \in Seq(Nat) /\ Len(Separator) # 0
        BY <2>1
      <3> QED BY <2>2, <3>1, AfterPrefix
    <2>4. n + Len(Separator) - 1 = Len(t) + Len(Separator)
      BY <2>1, <2>2
    <2> QED BY <2>3, <2>4 DEF Matches
  <1>3. CutAt(t, n)
    BY <1>1, <1>2 DEF CutAt
  <1>4. SubSeq(t, 1, n - 1) = t
    BY <1>1
  <1> QED BY <1>3, <1>4, TextIsCut

-----------------------------------------------------------------------------
(* The stream of packets from the Watch of one machine to the receiveLoop   *)
(* of the other.                                                           *)

\* One packet may come directly after another: End before the first chunk of a
\* text, its chunks in order, End after the last.
Follows(p, q) ==
    IF IsEnd(p) THEN \E t \in Texts : q = Chunk(t, 1)
    ELSE \/ IsEnd(q) /\ p.part = Chunks[p.text]
         \/ q = Chunk(p.text, p.part + 1) /\ p.part < Chunks[p.text]

ChunkPackets == {Chunk(t, i) : t \in Texts, i \in Nat \ {0}}
Packets == ChunkPackets \cup {End}

\* The packet receiveLoop dealt with last; RecordSet changes nothing here, as
\* it only clears a buffer whose End has been read.
Before(s) ==
    IF recv[s] = "set" \/ buffer[s] = <<>> THEN End ELSE buffer[s][Len(buffer[s])]

\* The packet that went to s last, and the same seen from its sender.
LastTo(s) == IF chan[s] = <<>> THEN Before(s) ELSE chan[s][Len(chan[s])]
LastFrom(o) == IF watch[o] = "send" /\ part[o] > 0 THEN Chunk(content[o], part[o]) ELSE End

\* The chunks read so far are the first ones of one text; SetText runs on a
\* whole one.
BufferInOrder(s) ==
    /\ buffer[s] \in Seq(ChunkPackets)
    /\ \A i \in 1..Len(buffer[s]) :
         buffer[s][i] = Chunk(buffer[s][1].text, i) /\ i <= Chunks[buffer[s][1].text]
    /\ recv[s] = "set" => /\ buffer[s] # <<>>
                          /\ Len(buffer[s]) = Chunks[buffer[s][1].text]

ChannelInOrder(s) ==
    /\ chan[s] \in Seq(Packets)
    /\ chan[s] # <<>> => Follows(Before(s), chan[s][1])
    /\ \A i \in 1..(Len(chan[s]) - 1) : Follows(chan[s][i], chan[s][i + 1])

\* What Watch is doing on side o.
WatchInOrder(o) ==
    /\ content[o] \in Texts \cup {Blank}
    /\ watch[o] \in {"wait", "read", "send"}
    /\ watch[o] # "send" => part[o] = 0
    /\ watch[o] = "send" => content[o] \in Texts /\ part[o] \in 0..Chunks[content[o]]

\* The stream to s, from the Watch of the other side to its own receiveLoop.
Link(s) ==
    BufferInOrder(s) /\ ChannelInOrder(s) /\ LastTo(s) = LastFrom(Other(s))

Tables ==
    /\ watch = [s \in Sides |-> watch[s]] /\ content = [s \in Sides |-> content[s]]
    /\ part = [s \in Sides |-> part[s]] /\ recv = [s \in Sides |-> recv[s]]
    /\ buffer = [s \in Sides |-> buffer[s]] /\ chan = [s \in Sides |-> chan[s]]

StreamInv ==
    /\ Tables
    /\ sys \in [Sides -> Texts \cup {Blank}]
    /\ \A s \in Sides : recv[s] \in {"read", "set"} /\ WatchInOrder(s) /\ Link(s)

\* Every text arrives whole or not at all: its characters are portable, and a
\* separator begins at its start or not before its end.
TextsArrive ==
    /\ \A t \in Texts : /\ Chars[t] \in Seq(Portable)
                        /\ CutAt(Chars[t], 1) \/ CutAt(Chars[t], Len(Chars[t]) + 1)
    /\ \A t, u \in Texts : Chars[t] = Chars[u] => t = u

\* ClipboardDataEnd is no ClipboardText.
LEMMA EndIsNoChunk ==
    ASSUME NEW t, NEW i
    PROVE  ~IsEnd(Chunk(t, i)) /\ Chunk(t, i).text = t /\ Chunk(t, i).part = i /\ IsEnd(End)
  <1>1. DOMAIN Chunk(t, i) = {"text", "part"} /\ DOMAIN End = {"end"}
    BY DEF Chunk, End
  <1>2. "text" \notin {"end"}
    OBVIOUS
  <1> QED BY <1>1, <1>2 DEF IsEnd, Chunk, End

\* The other side of the other side.
LEMMA TwoSides ==
    ASSUME NEW s \in Sides
    PROVE  Other(s) \in Sides /\ Other(Other(s)) = s /\ \A x \in Sides : x = s \/ x = Other(s)
  BY DEF Sides, Other

\* The text of a whole buffer is what SetText gets, or it is empty.
LEMMA DecodedWhole ==
    ASSUME TextsArrive, NEW t \in Texts
    PROVE  Decoded[t] \in {t, Blank}
  <1> DEFINE c == decompressAndParseClipboard(formatClipboardText(Chars[t]))
  <1>1. Chars[t] \in Seq(Portable)
    BY DEF TextsArrive
  <1>2. c = <<>> \/ c = Chars[t]
    <2>1. CASE CutAt(Chars[t], 1)
      <3>1. c = SubSeq(Chars[t], 1, 1 - 1)
        BY <1>1, <2>1, TextIsCut
      <3>2. SubSeq(Chars[t], 1, 1 - 1) = <<>>
        BY <1>1
      <3> QED BY <3>1, <3>2
    <2>2. CASE CutAt(Chars[t], Len(Chars[t]) + 1)
      <3>1. c = SubSeq(Chars[t], 1, (Len(Chars[t]) + 1) - 1)
        BY <1>1, <2>2, TextIsCut
      <3>2. (Len(Chars[t]) + 1) - 1 = Len(Chars[t]) /\ SubSeq(Chars[t], 1, Len(Chars[t])) = Chars[t]
        BY <1>1
      <3> QED BY <3>1, <3>2
    <2> QED BY <2>1, <2>2 DEF TextsArrive
  <1>3. Decoded[t] = IF c = <<>> THEN Blank
                     ELSE IF \E u \in Texts : Chars[u] = c THEN CHOOSE u \in Texts : Chars[u] = c
                     ELSE Garbage
    BY DEF Decoded, AfterTravel
  <1> HIDE DEF c
  <1>4. CASE c = <<>>
    BY <1>3, <1>4
  <1>5. CASE c # <<>> /\ c = Chars[t]
    <2>1. \E u \in Texts : Chars[u] = c
      BY <1>5
    <2>2. (CHOOSE u \in Texts : Chars[u] = c) \in Texts
          /\ Chars[CHOOSE u \in Texts : Chars[u] = c] = c
      BY <2>1, Zenon
    <2>3. (CHOOSE u \in Texts : Chars[u] = c) = t
      BY <1>5, <2>2, Zenon DEF TextsArrive
    <2> QED BY <1>3, <1>5, <2>1, <2>3, Zenon
  <1> QED BY <1>2, <1>4, <1>5

\* A buffer in order that holds as many chunks as its text has is that text.
LEMMA AssembledWhole ==
    ASSUME TextsArrive, NEW s \in Sides, BufferInOrder(s), buffer[s] # <<>>,
           Len(buffer[s]) = Chunks[buffer[s][1].text]
    PROVE  /\ buffer[s][1].text \in Texts
           /\ buffer[s][Len(buffer[s])].text = buffer[s][1].text
           /\ Assembled(buffer[s]) \in {buffer[s][1].text, Blank}
  <1> DEFINE buf == buffer[s]
             t == buf[1].text
             n == Chunks[t]
  <1>1. buf \in Seq(ChunkPackets) /\ Len(buf) \in Nat /\ Len(buf) >= 1
    BY DEF BufferInOrder
  <1>2. buf[1] \in ChunkPackets
    BY <1>1
  <1>3. t \in Texts
    BY <1>2, EndIsNoChunk DEF ChunkPackets
  <1>4. \A i \in 1..Len(buf) : buf[i] = Chunk(t, i)
    BY DEF BufferInOrder
  <1>5. buf[Len(buf)].text = t
    <2>1. buf[Len(buf)] = Chunk(t, Len(buf))
      BY <1>1, <1>4
    <2> HIDE DEF buf, t
    <2> QED BY <2>1, EndIsNoChunk
  <1>6. SubSeq(buf, 1, n) = [i \in 1..n |-> Chunk(t, i)]
    <2>1. SubSeq(buf, 1, n) = buf /\ n = Len(buf)
      BY <1>1
    <2>2. buf = [i \in 1..Len(buf) |-> buf[i]]
      BY <1>1
    <2> HIDE DEF buf, t, n
    <2> QED BY <1>4, <2>1, <2>2
  <1>7. Assembled(buf) = Decoded[t]
    <2>1. Len(buf) >= n
      BY <1>1
    <2> QED BY <1>6, <2>1 DEF Assembled
  <1> QED BY <1>3, <1>5, <1>7, DecodedWhole

-----------------------------------------------------------------------------
(* Each step keeps the streams in order.                                   *)

\* A stream none of whose parts a step touches.
LEMMA LinkKeeps ==
    ASSUME NEW s \in Sides, Link(s),
           UNCHANGED <<buffer[s], recv[s], chan[s], watch[Other(s)], content[Other(s)],
                       part[Other(s)]>>
    PROVE  Link(s)'
  <1>1. Before(s)' = Before(s)
    BY DEF Before
  <1>2. LastTo(s)' = LastTo(s) /\ LastFrom(Other(s))' = LastFrom(Other(s))
    BY <1>1 DEF LastTo, LastFrom
  <1>3. BufferInOrder(s)' /\ ChannelInOrder(s)'
    BY <1>1 DEF Link, BufferInOrder, ChannelInOrder
  <1> QED BY <1>2, <1>3 DEF Link

\* Watch goes on without having sent anything.
LEMMA SenderKeeps ==
    ASSUME NEW s \in Sides, Link(s), UNCHANGED <<buffer[s], recv[s], chan[s]>>,
           LastFrom(Other(s))' = LastFrom(Other(s))
    PROVE  Link(s)'
  <1>1. Before(s)' = Before(s)
    BY DEF Before
  <1>2. LastTo(s)' = LastTo(s)
    BY <1>1 DEF LastTo
  <1>3. BufferInOrder(s)' /\ ChannelInOrder(s)'
    BY <1>1 DEF Link, BufferInOrder, ChannelInOrder
  <1> QED BY <1>2, <1>3 DEF Link

\* Watch sends a packet that may follow the last one.
LEMMA PacketAdded ==
    ASSUME NEW s \in Sides, Link(s), NEW q \in Packets, Follows(LastTo(s), q),
           chan'[s] = Append(chan[s], q), UNCHANGED <<buffer[s], recv[s]>>,
           LastFrom(Other(s))' = q
    PROVE  Link(s)'
  <1> USE DEF Link
  <1>1. Before(s)' = Before(s)
    BY DEF Before
  <1>2. BufferInOrder(s)'
    BY DEF BufferInOrder
  <1> DEFINE c == chan[s]
             d == chan'[s]
  <1>3. c \in Seq(Packets) /\ Len(c) \in Nat
    BY DEF ChannelInOrder
  <1>4. /\ d \in Seq(Packets) /\ d # <<>> /\ Len(d) = Len(c) + 1 /\ d[Len(c) + 1] = q
        /\ \A i \in 1..Len(c) : d[i] = c[i]
    BY <1>3
  <1>5. LastTo(s)' = q
    BY <1>4 DEF LastTo
  <1>6. Follows(Before(s), d[1])
    <2>1. CASE c = <<>>
      BY <1>3, <1>4, <2>1 DEF LastTo
    <2>2. CASE c # <<>>
      <3>1. d[1] = c[1]
        BY <1>3, <1>4, <2>2
      <3> QED BY <2>2, <3>1 DEF ChannelInOrder
    <2> QED BY <2>1, <2>2
  <1>7. ASSUME NEW i \in 1..(Len(d) - 1)
        PROVE  Follows(d[i], d[i + 1])
    <2>1. i \in 1..Len(c) /\ d[i] = c[i]
      BY <1>3, <1>4
    <2>2. CASE i = Len(c)
      <3>1. c # <<>> /\ LastTo(s) = c[i]
        BY <1>3, <2>1, <2>2 DEF LastTo
      <3> QED BY <1>4, <2>1, <2>2, <3>1
    <2>3. CASE i # Len(c)
      <3>1. i \in 1..(Len(c) - 1) /\ i + 1 \in 1..Len(c)
        BY <1>3, <2>1, <2>3
      <3> QED BY <1>4, <2>1, <3>1 DEF ChannelInOrder
    <2> QED BY <2>2, <2>3
  <1>8. ChannelInOrder(s)'
    BY <1>1, <1>4, <1>6, <1>7 DEF ChannelInOrder, Follows
  <1> QED BY <1>2, <1>5, <1>8

\* receiveLoop takes the first packet and it becomes the one before the next.
LEMMA PacketTaken ==
    ASSUME NEW s \in Sides, Link(s), chan[s] # <<>>, chan'[s] = Tail(chan[s]),
           Before(s)' = chan[s][1], BufferInOrder(s)',
           UNCHANGED <<watch[Other(s)], content[Other(s)], part[Other(s)]>>
    PROVE  Link(s)'
  <1> USE DEF Link
  <1> DEFINE c == chan[s]
             d == chan'[s]
  <1>1. c \in Seq(Packets) /\ Len(c) \in Nat \ {0}
    BY DEF ChannelInOrder
  <1>2. /\ d \in Seq(Packets) /\ Len(d) = Len(c) - 1
        /\ \A i \in 1..Len(d) : d[i] = c[i + 1]
    BY <1>1
  <1>3. \A i \in 1..(Len(c) - 1) : Follows(c[i], c[i + 1])
    BY DEF ChannelInOrder
  <1>4. LastFrom(Other(s))' = LastFrom(Other(s))
    BY DEF LastFrom
  <1>5. LastTo(s) = c[Len(c)]
    BY DEF LastTo
  <1>6. CASE d = <<>>
    <2>1. Len(c) = 1
      <3>0. Len(<<>>) = 0
        OBVIOUS
      <3>1. Len(d) = 0
        BY <1>6, <3>0, Zenon
      <3> HIDE DEF c, d
      <3> QED BY <1>1, <1>2, <3>1
    <2>2. LastTo(s)' = c[1]
      BY <1>6 DEF LastTo
    <2>3. ChannelInOrder(s)'
      BY <1>2, <1>6 DEF ChannelInOrder
    <2> QED BY <1>4, <1>5, <2>1, <2>2, <2>3
  <1>7. CASE d # <<>>
    <2>1. Len(d) >= 1
      BY <1>2, <1>7
    <2>2. LastTo(s)' = d[Len(d)] /\ d[Len(d)] = c[Len(c)]
      BY <1>1, <1>2, <1>7, <2>1 DEF LastTo
    <2>3. Follows(c[1], d[1])
      BY <1>1, <1>2, <1>3, <2>1
    <2>4. ASSUME NEW i \in 1..(Len(d) - 1)
          PROVE  Follows(d[i], d[i + 1])
      <3>1. i + 1 \in 1..(Len(c) - 1) /\ d[i] = c[i + 1] /\ d[i + 1] = c[(i + 1) + 1]
        BY <1>1, <1>2
      <3> QED BY <1>3, <3>1
    <2>5. ChannelInOrder(s)'
      BY <1>2, <2>3, <2>4 DEF ChannelInOrder, Follows
    <2> QED BY <1>4, <1>5, <2>2, <2>5
  <1> QED BY <1>6, <1>7

\* The steps of Watch on side o.
LEMMA WatchSteps ==
    ASSUME StreamInv, NEW o \in Sides, WatchStep(o)
    PROVE  StreamInv'
  <1> USE DEF StreamInv
  <1> DEFINE s == Other(o)
  <1>0. s \in Sides /\ Other(s) = o /\ s # o /\ \A x \in Sides : x = o \/ x = s
    BY DEF Sides, Other
  <1>1. UNCHANGED <<sys, recv, buffer>>
    BY DEF WatchStep, Tick, Compare, SendChunk, SendEnd, recvVars
  <1> HIDE DEF s
  <1>2. ASSUME Tables', UNCHANGED <<watch[s], content[s], part[s], chan[o]>>,
               WatchInOrder(o)', Link(s)'
        PROVE  StreamInv'
    <2>1. Link(o)'
      BY <1>0, <1>1, <1>2, LinkKeeps DEF s
    <2>2. WatchInOrder(s)'
      BY <1>0, <1>2 DEF WatchInOrder
    <2> QED BY <1>0, <1>1, <1>2, <2>1, <2>2
  <1>3. CASE Tick(o)
    <2>1. PICK c \in GetText(o) \ {failed} :
             /\ watch' = [watch EXCEPT ![o] = "read"] /\ content' = [content EXCEPT ![o] = c]
      BY <1>3 DEF Tick
    <2>2. c \in Texts \cup {Blank}
      BY <2>1 DEF GetText
    <2>3. watch[o] = "wait" /\ UNCHANGED <<part, chan>>
      BY <1>3 DEF Tick
    <2>4. Tables' /\ UNCHANGED <<watch[s], content[s]>> /\ watch'[o] = "read" /\ content'[o] = c
      BY <1>0, <1>1, <2>1, <2>3 DEF Tables
    <2>5. WatchInOrder(o)'
      BY <2>2, <2>3, <2>4 DEF WatchInOrder
    <2>6. LastFrom(o)' = LastFrom(o)
      BY <2>3, <2>4 DEF LastFrom
    <2>7. Link(s)'
      BY <1>0, <1>1, <2>3, <2>6, SenderKeeps
    <2> QED BY <1>2, <2>3, <2>4, <2>5, <2>7
  <1>4. CASE Compare(o)
    <2>1. watch[o] = "read" /\ UNCHANGED <<part, chan>>
      BY <1>4 DEF Compare
    <2>2. CASE Changed(o)
      <3>1. watch' = [watch EXCEPT ![o] = "send"] /\ content' = content
        BY <1>4, <2>2 DEF Compare
      <3>2. Tables' /\ watch'[o] = "send" /\ watch'[s] = watch[s]
        BY <1>0, <1>1, <2>1, <3>1 DEF Tables
      <3>3. content[o] \in Texts
        BY <2>2 DEF Changed, Trimmed, WatchInOrder
      <3>4. WatchInOrder(o)'
        BY <2>1, <3>1, <3>2, <3>3, ClipboardAssumption DEF WatchInOrder
      <3>5. LastFrom(o)' = LastFrom(o)
        BY <2>1, <3>1, <3>2 DEF LastFrom, WatchInOrder
      <3>6. Link(s)'
        BY <1>0, <1>1, <2>1, <3>5, SenderKeeps
      <3> QED BY <1>2, <2>1, <3>1, <3>2, <3>4, <3>6
    <2>3. CASE ~Changed(o)
      <3>1. watch' = [watch EXCEPT ![o] = "wait"] /\ content' = [content EXCEPT ![o] = Blank]
        BY <1>4, <2>3 DEF Compare
      <3>2. /\ Tables' /\ watch'[o] = "wait" /\ content'[o] = Blank
            /\ UNCHANGED <<watch[s], content[s]>>
        BY <1>0, <1>1, <2>1, <3>1 DEF Tables
      <3>3. WatchInOrder(o)'
        BY <2>1, <3>2 DEF WatchInOrder
      <3>4. LastFrom(o)' = LastFrom(o)
        BY <2>1, <3>2 DEF LastFrom
      <3>5. Link(s)'
        BY <1>0, <1>1, <2>1, <3>4, SenderKeeps
      <3> QED BY <1>2, <2>1, <3>2, <3>3, <3>5
    <2> QED BY <2>2, <2>3
  <1>5. CASE SendChunk(o)
    <2> DEFINE n == part[o]
               t == content[o]
               q == Chunk(t, n + 1)
    <2>1. /\ watch[o] = "send" /\ Left(o) /\ UNCHANGED <<watch, content>>
          /\ part' = [part EXCEPT ![o] = @ + 1]
          /\ chan' = [chan EXCEPT ![s] = Append(@, q)]
      BY <1>5 DEF SendChunk, s
    <2>2. t \in Texts /\ n \in Nat /\ Chunks[t] \in Nat /\ n < Chunks[t]
      BY <2>1, ClipboardAssumption DEF WatchInOrder, Left, ChunksOf
    <2>3. /\ Tables' /\ part'[o] = n + 1 /\ part'[s] = part[s]
          /\ chan'[s] = Append(chan[s], q) /\ chan'[o] = chan[o]
      BY <1>0, <1>1, <2>1 DEF Tables
    <2>4. WatchInOrder(o)'
      BY <2>1, <2>2, <2>3 DEF WatchInOrder
    <2>5. LastFrom(o)' = q
      BY <2>1, <2>2, <2>3 DEF LastFrom
    <2>6. q \in Packets
      BY <2>2 DEF Packets, ChunkPackets
    <2>7. Follows(LastTo(s), q)
      <3>1. LastTo(s) = LastFrom(o)
        BY <1>0 DEF Link
      <3>2. CASE n = 0
        <4>1. LastFrom(o) = End
          BY <3>2 DEF LastFrom
        <4> QED BY <2>2, <3>1, <3>2, <4>1, EndIsNoChunk DEF Follows
      <3>3. CASE n # 0
        <4>1. LastFrom(o) = Chunk(t, n)
          BY <2>1, <2>2, <3>3 DEF LastFrom
        <4> HIDE DEF t, n
        <4> QED BY <2>2, <3>1, <4>1, EndIsNoChunk DEF Follows
      <3> QED BY <3>2, <3>3
    <2> HIDE DEF q
    <2>8. Link(s)'
      BY <1>0, <1>1, <2>3, <2>5, <2>6, <2>7, PacketAdded
    <2> QED BY <1>2, <2>1, <2>3, <2>4, <2>8
  <1>6. CASE SendEnd(o)
    <2> DEFINE n == part[o]
               t == content[o]
    <2>1. /\ watch[o] = "send" /\ ~Left(o)
          /\ part' = [part EXCEPT ![o] = 0]
          /\ content' = [content EXCEPT ![o] = Blank]
          /\ watch' = [watch EXCEPT ![o] = "wait"]
          /\ chan' = [chan EXCEPT ![s] = Append(@, End)]
      BY <1>6 DEF SendEnd, s
    <2>2. t \in Texts /\ n = Chunks[t] /\ n \in Nat \ {0}
      BY <2>1, ClipboardAssumption DEF WatchInOrder, Left, ChunksOf
    <2>3. /\ Tables' /\ part'[o] = 0 /\ content'[o] = Blank /\ watch'[o] = "wait"
          /\ UNCHANGED <<part[s], content[s], watch[s], chan[o]>>
          /\ chan'[s] = Append(chan[s], End)
      BY <1>0, <1>1, <2>1 DEF Tables
    <2>4. WatchInOrder(o)' /\ LastFrom(o)' = End
      BY <2>3 DEF WatchInOrder, LastFrom
    <2>5. Follows(LastTo(s), End)
      <3>1. LastTo(s) = Chunk(t, n)
        BY <1>0, <2>1, <2>2 DEF Link, LastFrom
      <3> HIDE DEF t, n
      <3> QED BY <2>2, <3>1, EndIsNoChunk DEF Follows
    <2>6. End \in Packets
      BY DEF Packets
    <2>7. Link(s)'
      BY <1>0, <1>1, <2>3, <2>4, <2>5, <2>6, PacketAdded
    <2> QED BY <1>2, <2>3, <2>4, <2>7
  <1> QED BY <1>3, <1>4, <1>5, <1>6 DEF WatchStep

\* The steps of receiveLoop on side s; what SetText sets is a whole text.
LEMMA ReceiveSteps ==
    ASSUME TextsArrive, StreamInv, NEW s \in Sides, ReceiveStep(s)
    PROVE  /\ StreamInv'
           /\ \A x \in Sides : recv[x] = "read" /\ recv'[x] = "set"
                => sys'[x] = buffer[x][Len(buffer[x])].text
  <1> USE DEF StreamInv
  <1> DEFINE o == Other(s)
  <1>0. o \in Sides /\ Other(o) = s /\ s # o /\ \A x \in Sides : x = o \/ x = s
    BY DEF Sides, Other
  <1>1. UNCHANGED <<watch, content, part>>
    BY DEF ReceiveStep, ReceiveText, ReceiveEnd, RecordSet, NotSet, watchVars
  <1> HIDE DEF o
  <1>2. ASSUME Tables', UNCHANGED <<recv[o], buffer[o], chan[o]>>,
               sys' \in [Sides -> Texts \cup {Blank}], recv'[s] \in {"read", "set"}, Link(s)'
        PROVE  StreamInv'
    <2>1. Link(o)'
      BY <1>0, <1>1, <1>2, LinkKeeps
    <2>2. \A x \in Sides : WatchInOrder(x)'
      BY <1>1 DEF WatchInOrder
    <2> QED BY <1>0, <1>2, <2>1, <2>2
  <1> DEFINE h == chan[s][1]
             buf == buffer[s]
             t == buf[1].text
  <1>3. Link(s) /\ buf \in Seq(ChunkPackets) /\ Len(buf) \in Nat
    BY DEF Link, BufferInOrder
  <1>4. ASSUME buf # <<>>
        PROVE  /\ t \in Texts /\ Chunks[t] \in Nat /\ Len(buf) \in 1..Chunks[t]
               /\ buf[Len(buf)] = Chunk(t, Len(buf))
    <2>1. Len(buf) \in 1..Len(buf) /\ buf[1] \in ChunkPackets
      BY <1>3, <1>4
    <2>2. t \in Texts
      BY <2>1, EndIsNoChunk DEF ChunkPackets
    <2>3. Chunks[t] \in Nat \ {0}
      BY <2>2, ClipboardAssumption
    <2>4. buf[Len(buf)] = Chunk(t, Len(buf)) /\ Len(buf) <= Chunks[t]
      BY <2>1, <1>3 DEF Link, BufferInOrder
    <2> HIDE DEF buf, t
    <2> QED BY <1>3, <2>1, <2>2, <2>3, <2>4
  <1>5. ASSUME recv[s] = "read", chan[s] # <<>>, buf # <<>>, IsEnd(h)
        PROVE  Len(buf) = Chunks[t]
    <2>1. Follows(buf[Len(buf)], h)
      BY <1>5 DEF Link, ChannelInOrder, Before
    <2>2. buf[Len(buf)] = Chunk(t, Len(buf))
      BY <1>4, <1>5
    <2> HIDE DEF buf, t, h
    <2>3. h # Chunk(t, Len(buf) + 1)
      BY <1>5, EndIsNoChunk
    <2> QED BY <2>1, <2>2, <2>3, EndIsNoChunk DEF Follows
  <1>6. ASSUME Waiting(s)
        PROVE  recv[s] = "read" /\ chan[s] # <<>> /\ Head(chan[s]) = h
    <2>1. chan[s] \in Seq(Packets)
      BY DEF Link, ChannelInOrder
    <2> QED BY <1>6, <2>1 DEF Waiting
  <1>7. CASE ReceiveText(s)
    <2>1. recv[s] = "read" /\ chan[s] # <<>> /\ ~IsEnd(h)
      BY <1>6, <1>7 DEF ReceiveText
    <2>2. /\ chan' = [chan EXCEPT ![s] = Tail(@)] /\ UNCHANGED <<sys, recv>>
          /\ buffer' = [buffer EXCEPT ![s] = Append(@, h)]
      BY <1>6, <1>7 DEF ReceiveText, TakePacket
    <2>3. /\ Tables' /\ UNCHANGED <<buffer[o], chan[o]>>
          /\ chan'[s] = Tail(chan[s]) /\ buffer'[s] = Append(buf, h)
      BY <1>0, <1>1, <2>2 DEF Tables
    <2>4. Follows(Before(s), h)
      BY <2>1 DEF Link, ChannelInOrder
    <2>5. \E u \in Texts : /\ h = Chunk(u, Len(buf) + 1) /\ Len(buf) + 1 <= Chunks[u]
                           /\ buf # <<>> => u = t
      <3>1. CASE buf = <<>>
        <4>1. Before(s) = End /\ Len(buf) = 0
          BY <3>1 DEF Before
        <4>2. PICK u \in Texts : h = Chunk(u, 1)
          BY <2>4, <4>1, EndIsNoChunk DEF Follows
        <4>3. Chunks[u] \in Nat \ {0}
          BY ClipboardAssumption
        <4>4. h = Chunk(u, Len(buf) + 1) /\ Len(buf) + 1 <= Chunks[u]
          BY <4>1, <4>2, <4>3
        <4> QED BY <3>1, <4>4
      <3>2. CASE buf # <<>>
        <4>1. Before(s) = Chunk(t, Len(buf))
          BY <1>4, <2>1, <3>2 DEF Before
        <4>2. t \in Texts /\ Chunks[t] \in Nat
          BY <1>4, <3>2
        <4> HIDE DEF buf, t, h
        <4>3. h = Chunk(t, Len(buf) + 1) /\ Len(buf) < Chunks[t]
          BY <2>1, <2>4, <4>1, EndIsNoChunk DEF Follows
        <4> QED BY <1>3, <4>2, <4>3
      <3> QED BY <3>1, <3>2
    <2>6. PICK u \in Texts : /\ h = Chunk(u, Len(buf) + 1) /\ Len(buf) + 1 <= Chunks[u]
                             /\ buf # <<>> => u = t
      BY <2>5
    <2> DEFINE more == Append(buf, h)
    <2>7. h \in ChunkPackets
      BY <1>3, <2>6 DEF ChunkPackets
    <2>8. /\ more \in Seq(ChunkPackets) /\ Len(more) = Len(buf) + 1
          /\ more[Len(buf) + 1] = h /\ \A i \in 1..Len(buf) : more[i] = buf[i]
      BY <1>3, <2>7
    <2>9. more[1].text = u
      <3>1. CASE buf = <<>>
        <4>1. Len(buf) = 0
          BY <3>1
        <4>2. more[1] = Chunk(u, 1)
          BY <2>6, <2>8, <4>1
        <4> QED BY <4>2, EndIsNoChunk
      <3>2. CASE buf # <<>>
        <4>1. 1 \in 1..Len(buf)
          BY <1>3, <3>2
        <4> QED BY <2>6, <2>8, <3>2, <4>1
      <3> QED BY <3>1, <3>2
    <2>10. ASSUME NEW i \in 1..Len(more)
           PROVE  more[i] = Chunk(u, i) /\ i <= Chunks[u]
      <3>1. Chunks[u] \in Nat
        BY ClipboardAssumption
      <3>2. CASE i = Len(buf) + 1
        BY <2>6, <2>8, <3>2
      <3>3. CASE i # Len(buf) + 1
        <4>1. i \in 1..Len(buf) /\ buf # <<>>
          BY <1>3, <2>8, <3>3
        <4>2. buf[i] = Chunk(t, i)
          BY <1>3, <4>1 DEF Link, BufferInOrder
        <4>3. i <= Chunks[u]
          BY <1>3, <2>6, <3>1, <4>1
        <4> QED BY <2>6, <2>8, <4>1, <4>2, <4>3
      <3> QED BY <3>2, <3>3
    <2>11. BufferInOrder(s)'
      <3>1. recv'[s] # "set"
        BY <2>1, <2>2
      <3> HIDE DEF more
      <3>2. buffer'[s] = more
        BY <2>3 DEF more
      <3> QED BY <2>8, <2>9, <2>10, <3>1, <3>2 DEF BufferInOrder
    <2>12. Before(s)' = h
      <3>1. recv'[s] # "set"
        BY <2>1, <2>2
      <3>2. more # <<>>
        BY <1>3, <2>7
      <3> HIDE DEF more
      <3>3. buffer'[s] = more
        BY <2>3 DEF more
      <3> QED BY <2>8, <3>1, <3>2, <3>3 DEF Before
    <2>13. Link(s)'
      BY <1>1, <1>3, <2>1, <2>3, <2>11, <2>12, PacketTaken
    <2> QED BY <1>2, <2>2, <2>3, <2>13
  <1>8. CASE ReceiveEnd(s)
    <2>1. recv[s] = "read" /\ chan[s] # <<>> /\ IsEnd(h) /\ buf # <<>>
      BY <1>6, <1>8 DEF ReceiveEnd
    <2>2. /\ chan' = [chan EXCEPT ![s] = Tail(@)] /\ UNCHANGED buffer
          /\ recv' = [recv EXCEPT ![s] = "set"]
          /\ sys' = [sys EXCEPT ![s] = Assembled(buf)]
          /\ Assembled(buf) # Blank
      BY <1>8 DEF ReceiveEnd, TakePacket
    <2>3. /\ Tables' /\ UNCHANGED <<recv[o], chan[o]>>
          /\ chan'[s] = Tail(chan[s]) /\ recv'[s] = "set"
      BY <1>0, <1>1, <2>2 DEF Tables
    <2>4. Len(buf) = Chunks[t]
      BY <1>5, <2>1
    <2>5. /\ t \in Texts /\ buf[Len(buf)].text = t /\ Assembled(buf) \in {t, Blank}
      BY <1>3, <2>1, <2>4, AssembledWhole DEF Link
    <2>6. sys' \in [Sides -> Texts \cup {Blank}] /\ sys'[s] = t
      BY <2>2, <2>5
    <2>7. BufferInOrder(s)'
      BY <1>3, <2>1, <2>2, <2>4 DEF Link, BufferInOrder
    <2>8. Before(s)' = h
      BY <2>1, <2>3 DEF Before, IsEnd
    <2>9. Link(s)'
      BY <1>1, <1>3, <2>1, <2>3, <2>7, <2>8, PacketTaken
    <2>10. StreamInv'
      BY <1>2, <2>2, <2>3, <2>6, <2>9
    <2> QED BY <1>0, <2>3, <2>5, <2>6, <2>10
  <1>9. CASE RecordSet(s)
    <2>1. /\ recv[s] = "set" /\ UNCHANGED <<sys, chan>>
          /\ recv' = [recv EXCEPT ![s] = "read"] /\ buffer' = [buffer EXCEPT ![s] = <<>>]
      BY <1>9 DEF RecordSet, ClearBuffer
    <2>2. Tables' /\ UNCHANGED <<recv[o], buffer[o]>> /\ recv'[s] = "read" /\ buffer'[s] = <<>>
      BY <1>0, <1>1, <2>1 DEF Tables
    <2>3. Before(s)' = Before(s)
      BY <2>1, <2>2 DEF Before
    <2>4. LastTo(s)' = LastTo(s) /\ LastFrom(Other(s))' = LastFrom(Other(s))
      BY <1>1, <2>1, <2>3 DEF LastTo, LastFrom
    <2>5. BufferInOrder(s)' /\ ChannelInOrder(s)'
      BY <1>3, <2>1, <2>2, <2>3 DEF Link, BufferInOrder, ChannelInOrder
    <2>6. StreamInv'
      BY <1>2, <1>3, <2>1, <2>2, <2>4, <2>5 DEF Link
    <2> QED BY <1>0, <2>2, <2>6
  <1>10. CASE NotSet(s)
    <2>1. recv[s] = "read" /\ chan[s] # <<>> /\ IsEnd(h)
      BY <1>6, <1>10 DEF NotSet
    <2>2. /\ chan' = [chan EXCEPT ![s] = Tail(@)] /\ UNCHANGED <<sys, recv>>
          /\ buffer' = [buffer EXCEPT ![s] = <<>>]
      BY <1>10 DEF NotSet, TakePacket, ClearBuffer
    <2>3. /\ Tables' /\ UNCHANGED <<buffer[o], chan[o]>>
          /\ chan'[s] = Tail(chan[s]) /\ buffer'[s] = <<>>
      BY <1>0, <1>1, <2>2 DEF Tables
    <2>4. BufferInOrder(s)'
      <3>1. recv'[s] # "set"
        BY <2>1, <2>2
      <3>2. buffer'[s] \in Seq(ChunkPackets) /\ 1..Len(buffer'[s]) = {}
        BY <2>3
      <3> QED BY <3>1, <3>2 DEF BufferInOrder
    <2>5. Before(s)' = h
      BY <2>1, <2>3 DEF Before, IsEnd
    <2>6. Link(s)'
      BY <1>1, <1>3, <2>1, <2>3, <2>4, <2>5, PacketTaken
    <2> QED BY <1>2, <2>2, <2>3, <2>6
  <1> QED BY <1>7, <1>8, <1>9, <1>10 DEF ReceiveStep

\* Both streams begin empty, after an End so to speak.
LEMMA StreamInitially == Init => StreamInv
  <1> SUFFICES ASSUME Init PROVE StreamInv
    OBVIOUS
  <1>1. Tables
    BY DEF Init, Tables
  <1>2. sys \in [Sides -> Texts \cup {Blank}]
    BY ClipboardAssumption DEF Init
  <1>3. ASSUME NEW s \in Sides
        PROVE  recv[s] \in {"read", "set"} /\ WatchInOrder(s) /\ Link(s)
    <2>1. Other(s) \in Sides
      BY TwoSides
    <2>2. /\ recv[s] = "read" /\ buffer[s] = <<>> /\ chan[s] = <<>>
          /\ watch[s] = "wait" /\ content[s] = Blank /\ part[s] = 0
          /\ watch[Other(s)] = "wait"
      BY <2>1 DEF Init
    <2>3. WatchInOrder(s)
      BY <2>2 DEF WatchInOrder
    <2>4. BufferInOrder(s) /\ ChannelInOrder(s)
      BY <2>2 DEF BufferInOrder, ChannelInOrder
    <2>5. LastTo(s) = LastFrom(Other(s))
      BY <2>2 DEF LastTo, LastFrom, Before
    <2> QED BY <2>2, <2>3, <2>4, <2>5 DEF Link
  <1> QED BY <1>1, <1>2, <1>3 DEF StreamInv

\* The property of one step of the program.
LEMMA StreamInductive ==
    ASSUME TextsArrive, StreamInv, [Next]_vars
    PROVE  /\ StreamInv'
           /\ \A x \in Sides : recv[x] = "read" /\ recv'[x] = "set"
                => sys'[x] = buffer[x][Len(buffer[x])].text
  <1>1. CASE UNCHANGED vars
    <2>1. UNCHANGED <<sys, recv, buffer, chan, watch, content, part>>
      BY <1>1 DEF vars
    <2>2. \A s \in Sides : Link(s)'
      BY <2>1, LinkKeeps DEF StreamInv
    <2> QED BY <2>1, <2>2 DEF StreamInv, Tables, WatchInOrder
  <1>2. ASSUME NEW s \in Sides, WatchStep(s)
        PROVE  StreamInv' /\ recv' = recv
    BY <1>2, WatchSteps DEF WatchStep, Tick, Compare, SendChunk, SendEnd, recvVars
  <1>3. ASSUME NEW s \in Sides, NEW t \in Texts, UserCopies(s, t)
        PROVE  StreamInv' /\ recv' = recv
    <2>1. /\ UNCHANGED <<recv, buffer, chan, watch, content, part>>
          /\ sys' = [sys EXCEPT ![s] = t]
      BY <1>3 DEF UserCopies, watchVars, recvVars
    <2>2. \A x \in Sides : Link(x)'
      BY <2>1, LinkKeeps DEF StreamInv
    <2>3. sys' \in [Sides -> Texts \cup {Blank}]
      BY <2>1 DEF StreamInv
    <2> QED BY <2>1, <2>2, <2>3 DEF StreamInv, Tables, WatchInOrder
  <1> QED BY <1>1, <1>2, <1>3, ReceiveSteps DEF Next

\* Whatever the two Watch goroutines, the two receiveLoops, the users and the
\* failures of wl-copy interleave, and into however many packets a text is cut,
\* SetText only ever gets one whole text, as it was copied, provided that the
\* characters of the texts are portable and the separator does not stand in
\* the middle of one.
THEOREM WholeTextsArrive ==
    ASSUME TextsArrive
    PROVE  Spec => WholeTexts
  <1>1. StreamInv /\ [Next]_vars => StreamInv'
    BY StreamInductive
  <1>2. StreamInv /\ [Next]_vars =>
          [\A s \in Sides : recv[s] = "read" /\ recv'[s] = "set"
             => sys'[s] = buffer[s][Len(buffer[s])].text]_vars
    BY StreamInductive
  <1> QED BY <1>1, <1>2, StreamInitially, PTL DEF Spec, WholeTexts
=============================================================================
