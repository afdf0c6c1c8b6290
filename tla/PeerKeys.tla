------------------------------ MODULE PeerKeys ------------------------------
(***************************************************************************)
(* The capture seen from the other machine: which keys the packets it was  *)
(* sent leave down there.  Two history variables are added to EvdevCapture *)
(* and no behaviour is taken away.                                         *)
(***************************************************************************)
EXTENDS EvdevCapture

VARIABLES
    event,    \* event[k]: the event keyboard k's goroutine read last, or nil
    peerDown  \* the keys that are down on the other machine

keyVars == <<vars, event, peerDown>>

PeerInit ==
    /\ Init
    /\ event = [k \in Kbds |-> nil]
    /\ peerDown = {}

\* OnKeyEvent(code, pressed) of event e.
AfterEvent(e) == IF e.pressed THEN peerDown \cup {e.code} ELSE peerDown \ {e.code}

\* ForwardKey sends the event last read, GrabFlushKey a release for the key it
\* takes out of pressedKeys; the jiggler's tap leaves nothing down.
PeerNext ==
    /\ Next
    /\ event' = [k \in Kbds |-> IF inbox[k] # nil /\ inbox'[k] = nil THEN inbox[k] ELSE event[k]]
    /\ IF \E k \in Kbds : pc[k] = "send" /\ pc'[k] # "send"
         THEN \E k \in Kbds : pc[k] = "send" /\ pc'[k] # "send" /\ peerDown' = AfterEvent(event[k])
         ELSE peerDown' = IF mu = nil THEN peerDown ELSE peerDown \ (pressedKeys \ pressedKeys')

PeerSpec == PeerInit /\ [][PeerNext]_keyVars

\* No key stays stuck: when the user is back in local mode, has let go of every
\* key and all events are handled, no key is left down on the other machine.
NoKeyStuck ==
    (/\ ~IsRemote
     /\ \A k \in Kbds : pc[k] = "read" /\ inbox[k] = nil /\ held[k] = {})
      => peerDown = {}
=============================================================================
