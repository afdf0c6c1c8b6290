----------------------------- MODULE MCPeerKeys -----------------------------
(* PeerKeys for TLC: separate devices, no buttons on keyboards.             *)
EXTENDS PeerKeys

CONSTANTS m1, m2, k1, k2

NoCombo == [k \in Kbds |-> nil]
NoPhys == [k \in Kbds |-> {}]
NoFirst == [k \in Kbds |-> nil]
=============================================================================
