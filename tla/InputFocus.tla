----------------------------- MODULE InputFocus -----------------------------
(***************************************************************************)
(* What the input capture promises its user: the keyboard and mouse drive  *)
(* one machine at a time; driving the other one captures keyboards and at  *)
(* most the one mouse that points there; coming back releases everything.  *)
(***************************************************************************)
CONSTANTS Mice, Kbds, nil

VARIABLES
    focus,     \* the machine that is driven: "local" or "remote"
    pointer,   \* the mouse that drives the remote cursor, or nil
    captured   \* the devices hidden from the local machine

focusVars == <<focus, pointer, captured>>

FocusInit == focus = "local" /\ pointer = nil /\ captured = {}

\* The user turns to the other machine; some keyboards are captured.
Enter ==
    /\ focus' = "remote"
    /\ focus = "local" /\ UNCHANGED pointer
    /\ captured' \in SUBSET Kbds

\* In remote mode more keyboards may be captured later.
Recapture ==
    /\ focus = "remote" /\ UNCHANGED <<focus, pointer>>
    /\ \E S \in SUBSET Kbds : captured' = captured \cup S

\* A mouse takes over the remote cursor; every other one is free again.
Point(m) ==
    /\ focus = "remote" /\ UNCHANGED focus
    /\ pointer # m /\ pointer' = m
    /\ captured' \in {captured \ Mice, (captured \ Mice) \cup {m}}

\* Back to the local machine: nothing stays captured.
Leave ==
    /\ focus = "remote"
    /\ focus' = "local" /\ pointer' = nil /\ captured' = {}

FocusNext == Enter \/ Recapture \/ Leave \/ \E m \in Mice : Point(m)

FocusSpec == FocusInit /\ [][FocusNext]_focusVars
=============================================================================
