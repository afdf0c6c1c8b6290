--------------------------- MODULE MCRemoteInput ---------------------------
(* The virtual keys of the code's tables that matter: two that share a code *)
(* (Shift), one of its own, Print, whose code has an alias, and two of the   *)
(* mouse buttons.                                                            *)
EXTENDS RemoteInput

KeyTable ==
    [vk \in {"VK_SHIFT", "VK_LSHIFT", "VK_A", "VK_SNAPSHOT", "VK_LBUTTON", "VK_XBUTTON1"} |->
        CASE vk = "VK_A" -> "KEY_A"
          [] vk = "VK_SNAPSHOT" -> "KEY_PRINT"
          [] vk = "VK_LBUTTON" -> "BTN_LEFT"
          [] vk = "VK_XBUTTON1" -> "BTN_SIDE"
          [] OTHER -> "KEY_LEFTSHIFT"]
Aliases == [c \in {"KEY_SYSRQ"} |-> "VK_SNAPSHOT"]
UpDown == {1, -1}
Strides == {160, -220}

\* Held keys and buttons with a peer that switches; the pointer with a drag; the
\* pointer with the wheel.
Sessions ==
    {Codes \cup Buttons \cup {"switch"}, {"move", "BTN_LEFT"}, {"move", "wheel"}}
=============================================================================
