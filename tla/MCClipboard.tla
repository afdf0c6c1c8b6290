---------------------------- MODULE MCClipboard ----------------------------
(* Four contents: a text of one packet; one of two packets with characters  *)
(* of two and three bytes; spaces; and a text that begins like the end mark *)
(* of the encoding and decodes to nothing.                                  *)
EXTENDS Clipboard

AllTexts == {"short", "long", "spaces", "mark"}
CharTable == [short |-> <<97>>, long |-> <<233, 97, 8364, 98>>,
              spaces |-> <<32, 32>>, mark |-> Separator \o <<97>>]
TrimTable == [t \in AllTexts |-> IF t = "spaces" THEN Blank ELSE t]
ChunkTable == [t \in AllTexts |-> IF t = "long" THEN 2 ELSE 1]

\* The user of one machine copies anything new, that of the other the short text.
CopiedTexts == [s \in Sides |-> IF s = "a" THEN AllTexts \ {"short"} ELSE {"short"}]
=============================================================================
