--------------------------- MODULE ClipboardCodec ---------------------------
(***************************************************************************)
(* How a clipboard text is written into packets and read out of them       *)
(* (formatClipboardText and decompressAndParseClipboard of main.go,        *)
(* util/guid.go).  A text is a sequence of code points.  flate returns     *)
(* what was compressed; with the separator a text is always long enough to *)
(* be compressed, so the branch that sends it raw is never taken.          *)
(***************************************************************************)
EXTENDS Naturals, SequencesExt

TXT == <<84, 88, 84>>
FormatTags == {TXT, <<85, 78, 73>>, <<82, 84, 70>>, <<72, 84, 77>>}

\* MWBTextSeparator, a GUID in braces; its two braces stand for it.
Separator == <<123, 125>>

\* Bytes of a code point in UTF-8, which is how Go stores a text.
RuneLen(r) == IF r < 128 THEN 1 ELSE IF r < 2048 THEN 2 ELSE IF r < 65536 THEN 3 ELSE 4

Zeros(n) == [i \in 1..n |-> 0]

\* The units of a code point.  Go's range counts in bytes, so that there is one
\* 16-bit unit per byte: the first holds the code point, cut to 16 bits, and
\* the others stay 0.
UnitsOf(r) == <<r % 65536>> \o Zeros(RuneLen(r) - 1)

utf16Bytes(t) == FlattenSeq([i \in 1..Len(t) |-> UnitsOf(t[i])])

\* GenerateMWBClipboardFormat and the encoding.
formatClipboardText(t) == utf16Bytes(TXT \o t \o Separator)

\* string(rune(r)): a lone surrogate becomes U+FFFD.
ToRune(unit) == IF 55296 <= unit /\ unit < 57344 THEN 65533 ELSE unit

\* Units of 0 are dropped, the others become characters.
RunesOf(unit) == IF unit = 0 THEN <<>> ELSE <<ToRune(unit)>>

DecodeUnits(units) == FlattenSeq([i \in 1..Len(units) |-> RunesOf(units[i])])

Matches(t, i) == SubSeq(t, i, i + Len(Separator) - 1) = Separator

\* ParseMWBClipboardFormat: without the prefix, up to the first separator.
ParseMWBClipboardFormat(t) ==
    LET body == IF SubSeq(t, 1, 3) \in FormatTags THEN SubSeq(t, 4, Len(t)) ELSE t
    IN  IF \E i \in 1..(Len(body) - 1) : Matches(body, i)
          THEN LET cut == CHOOSE i \in 1..(Len(body) - 1) :
                             Matches(body, i) /\ \A j \in 1..(i - 1) : ~Matches(body, j)
               IN  SubSeq(body, 1, cut - 1)
          ELSE body

decompressAndParseClipboard(units) == ParseMWBClipboardFormat(DecodeUnits(units))
=============================================================================
