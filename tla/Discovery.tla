----------------------------- MODULE Discovery -----------------------------
(***************************************************************************)
(* Which devices the capture opens (discoverDevices, classifyDevice,       *)
(* DiscoverAndOpen and Open of input/evdev.go).  A device is what EVIOCGBIT*)
(* says of it; two handles are opened on one that is a mouse and a         *)
(* keyboard.                                                               *)
(***************************************************************************)
EXTENDS Naturals, FiniteSets

CONSTANTS
    Devices,  \* what may be plugged in, the program's own devices included
    Caps,     \* Caps[d]: its capability bits
    Virtual   \* the two devices NewVirtualInput creates

ASSUME DiscoveryAssumption ==
    /\ Virtual \subseteq Devices
    /\ Caps \in [Devices -> [rel : BOOLEAN, abs : BOOLEAN, pressure : BOOLEAN, left : BOOLEAN,
                             typing : Nat, essential : BOOLEAN]]

\* rel: REL_X or REL_Y; abs: ABS_X and ABS_Y; left: BTN_LEFT; typing: how many of
\* the letter, number and function keys; essential: space and enter.
IsTouchpad(d) == Caps[d].abs /\ Caps[d].pressure /\ Caps[d].left
IsMouse(d) == Caps[d].rel \/ IsTouchpad(d)

IsKeyboard(d) == Caps[d].typing >= 15 /\ Caps[d].essential

\* discoverDevices: the mice and the keyboards among the devices it can open
\* and query.
FoundMice(present) == {d \in present : IsMouse(d) /\ ~IsTouchpad(d)}
FoundKeyboards(present) == {d \in present : IsKeyboard(d)}

\* DiscoverAndOpen on the devices present, of which those in gone cannot be
\* opened any more when their turn comes: the handles, or none.
NoHandles == [mice |-> {}, kbds |-> {}]

\* No error: something was found, and some of it opened.
Usable(present, gone) ==
    /\ FoundMice(present) \ gone # {}
    /\ FoundKeyboards(present) \ gone # {}

DiscoverAndOpen(present, gone) ==
    [mice |-> FoundMice(present) \ gone, kbds |-> FoundKeyboards(present) \ gone]

\* setupInputCapture with a configured path ("" for none): the other one is the
\* first found.  Each result is a pair to Open.
PathPairs(mouse, keyboard, present) ==
    (IF mouse = "" THEN FoundMice(present) ELSE {mouse})
      \X (IF keyboard = "" THEN FoundKeyboards(present) ELSE {keyboard})
=============================================================================
