-------------------------- MODULE MCEvdevCapture --------------------------
(* Instances of EvdevCapture for TLC: the wiring of the devices.           *)
EXTENDS EvdevCapture, TLC

CONSTANTS m1, m2, k1, k2

\* Separate devices: nothing shares a path.
NoCombo == [k \in Kbds |-> nil]

\* k1 and m1 are two handles of one combined receiver's path.
ComboK1 == [k \in Kbds |-> IF k = k1 THEN m1 ELSE nil]

\* No keyboard reports mouse buttons.
NoPhys == [k \in Kbds |-> {}]
NoFirst == [k \in Kbds |-> nil]

\* Both mice carry k1's name, as the handles of one receiver do.
PhysK1 == [k \in Kbds |-> IF k = k1 THEN Mice ELSE {}]
FirstK1 == [k \in Kbds |-> IF k = k1 THEN m1 ELSE nil]
=============================================================================
