----------------------------- MODULE MCStartup -----------------------------
(* A complete file, one without a remote address, one with a value of the   *)
(* wrong type beside a sensitivity of 0 and a device path, and no JSON; the  *)
(* flags that take a value away, name an unknown mode or a device; five      *)
(* devices, one of them a mouse and a keyboard at once.                      *)
EXTENDS Startup, TLC

Full == File("good", [key |-> "old", remote |-> "win", id |-> 7])
NoRemote == File("good", [key |-> "old", mode |-> "server"])
WrongType == File("type", [remote |-> "stale", sensitivity |-> 0, mouse |-> "mouse"])
UserFiles == {Full, NoRemote, WrongType, Truncated}

UserFlags ==
    {[x \in {} |-> ""], [key |-> ""], [mode |-> "bogus"], [keyboard |-> "touchpad"]}

UserAnswers ==
    {[key |-> k, id |-> 9, remote |-> r, mode |-> m, name |-> "me"] :
        k \in {"new"}, r \in {"", "pc"}, m \in {"client", "tui"}}

Machine == {"mouse", "touchpad", "combo", "vmouse", "vkbd"}
OwnDevices == {"vmouse", "vkbd"}

Nothing == [rel |-> FALSE, abs |-> FALSE, pressure |-> FALSE, left |-> FALSE,
            typing |-> 0, essential |-> FALSE]
MachineCaps ==
    "mouse" :> [Nothing EXCEPT !.rel = TRUE, !.left = TRUE, !.typing = 3]
    @@ "touchpad" :> [Nothing EXCEPT !.abs = TRUE, !.pressure = TRUE, !.left = TRUE]
    @@ "combo" :> [Nothing EXCEPT !.rel = TRUE, !.typing = 15, !.essential = TRUE]
    @@ "vmouse" :> [Nothing EXCEPT !.rel = TRUE, !.abs = TRUE, !.left = TRUE]
    @@ "vkbd" :> [Nothing EXCEPT !.typing = 38, !.essential = TRUE]
=============================================================================
