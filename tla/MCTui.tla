------------------------------- MODULE MCTui -------------------------------
(* A small frame, a position past both ends of the range, a text of one     *)
(* byte and one of four that is cut inside its first character, two      *)
(* packets each, and one arrow key.                                          *)
EXTENDS Tui

SmallFrame == <<1, 1>>
SmallTerminals == {<<6, 20>>}
EdgePositions == {<<65536, -70000>>}
TwoTexts == {<<97>>, <<8364, 98>>}
SomeKeys == {"q", "x", "left"}
=============================================================================
