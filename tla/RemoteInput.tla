---------------------------- MODULE RemoteInput ----------------------------
(***************************************************************************)
(* The way of an input event from the machine that captures it (callbacks  *)
(* of main.go, input/keymap.go) over the connection to the machine that    *)
(* injects it (receiveLoop of main.go, input/uinput.go).  One pointer axis *)
(* stands for both.                                                        *)
(***************************************************************************)
EXTENDS Integers, Sequences, Functions

CONSTANTS
    Codes,          \* Linux key codes the user may press
    KeyBits,        \* the codes setupKeyboard enables (1..248 in the code)
    VKToLinux,      \* the table of keymap.go: virtual key -> Linux code
    PrintAlias,     \* codes init() adds to the reverse table: code -> key
    Buttons,        \* mouse buttons the user may press
    Steps,          \* pointer steps the user may make
    Notches,        \* wheel steps the user may make
    Unit, Gain,     \* baseScale = Gain / Unit; positions are kept in 1/Unit pixels
    SourceWidth,    \* cfg.ScreenWidth of the capturing machine
    ScreenW,        \* cfg.ScreenWidth of the injecting machine
    StartPointers,  \* where the injecting machine's pointer may be at the start
    Mixes,          \* bound: the sets of inputs that are used together, made of
                    \* codes, buttons, "move", "wheel" and "switch"
    MaxWire         \* bound on the packets on their way

AllButtons == {"BTN_LEFT", "BTN_RIGHT", "BTN_MIDDLE", "BTN_SIDE", "BTN_EXTRA"}

\* The table also maps virtual keys to mouse buttons, which the virtual keyboard
\* does not have; the keyboard loop of evdev.go keeps button codes from
\* OnKeyEvent (isMouseButtonCode).  Unit is even because the cursor starts in the
\* middle of the screen, on half a pixel if need be.
ASSUME RemoteAssumption ==
    /\ Range(PrintAlias) \subseteq DOMAIN VKToLinux
    /\ Range(VKToLinux) \subseteq KeyBits \cup AllButtons
    /\ \A c \in DOMAIN PrintAlias : VKToLinux[PrintAlias[c]] \in KeyBits
    /\ Buttons \subseteq AllButtons /\ Codes \cap AllButtons = {}
    /\ Steps \subseteq Int /\ Notches \subseteq Int
    /\ Unit \in Nat \ {0} /\ Unit % 2 = 0 /\ Gain \in Nat \ {0}
    /\ SourceWidth \in Nat \ {0} /\ ScreenW \in Nat \ {0} /\ ScreenW <= 65536
    /\ StartPointers \subseteq 0..(ScreenW - 1)
    /\ MaxWire \in Nat

VARIABLES
    LinuxToVK,    \* the reverse table of keymap.go
    mix,          \* the inputs this session is about
    absAvailable, \* VirtualInput.absAvailable
    held,         \* keys the user holds on the capturing machine
    heldButtons,  \* buttons the user holds
    turned,       \* wheel notches turned, modulo ScrollMod
    cursor,       \* cursorXf
    wire,         \* packets on their way
    absX,         \* VirtualInput.absX
    pressedKeys,  \* VirtualInput.pressedKeys
    open,         \* the virtual devices exist
    pointer,      \* the injecting machine's pointer
    down,         \* keys its virtual keyboard holds down
    clicked,      \* buttons its virtual mouse holds down
    scrolled      \* notches its wheel has turned, modulo ScrollMod

userVars == <<held, heldButtons, turned, cursor>>
setupVars == <<LinuxToVK, mix, absAvailable>>
vars == <<setupVars, userVars, wire, absX, pressedKeys, open, pointer, down, clicked, scrolled>>

ScrollMod == 8
MaxCursor == SourceWidth * Unit

\* init() walks VKToLinux in Go's random map order, so that any of the keys of
\* a code may be its reverse; then it adds the aliases.
ReverseTables ==
    {f \in [Range(VKToLinux) \cup DOMAIN PrintAlias -> DOMAIN VKToLinux] :
        \A c \in DOMAIN f :
            IF c \in DOMAIN PrintAlias THEN f[c] = PrintAlias[c] ELSE VKToLinux[f[c]] = c}

\* Any of its ioctls may fail; the mouse is then made with relative axes.
setupAbsoluteAxes == BOOLEAN

TypeOK ==
    /\ mix \in Mixes /\ absAvailable \in BOOLEAN
    /\ held \subseteq Codes /\ heldButtons \subseteq Buttons
    /\ turned \in 0..(ScrollMod - 1) /\ scrolled \in 0..(ScrollMod - 1)
    /\ cursor \in 0..MaxCursor
    /\ Len(wire) <= MaxWire
    /\ absX \in 0..(ScreenW - 1) /\ pointer \in 0..(ScreenW - 1)
    /\ pressedKeys \subseteq Range(VKToLinux)
    /\ open \in BOOLEAN
    /\ down \subseteq Range(VKToLinux) \cap KeyBits /\ clicked \subseteq AllButtons

Init ==
    /\ LinuxToVK \in ReverseTables
    /\ mix \in Mixes
    /\ absAvailable \in setupAbsoluteAxes
    /\ held = {} /\ heldButtons = {}
    /\ turned = 0 /\ scrolled = 0
    /\ cursor = MaxCursor \div 2
    /\ wire = <<>>
    /\ absX = 0
    /\ pressedKeys = {}
    /\ open = TRUE
    /\ pointer \in StartPointers
    /\ down = {} /\ clicked = {}

-----------------------------------------------------------------------------
\* The capturing machine.

clamp(v, lo, hi) == IF v < lo THEN lo ELSE IF v > hi THEN hi ELSE v

\* Rounded to the nearest of 0..65535.
pixelToAbsolute(pos) ==
    clamp((2 * pos * 65535 + MaxCursor) \div (2 * MaxCursor), 0, 65535)

\* The session ends with the other side's devices; what it has sent by then
\* may still be handled.
Send(pkt) ==
    /\ open
    /\ Len(wire) < MaxWire
    /\ wire' = Append(wire, pkt)

Mouse(pos, wheel, msg, pressed) ==
    [type |-> "Mouse", x |-> pixelToAbsolute(pos), wheel |-> wheel, msg |-> msg, pressed |-> pressed]

injectVars == <<setupVars, absX, pressedKeys, open, pointer, down, clicked, scrolled>>

\* Faulty variant of Moved: the cursor is not held on the screen.
RunsOff(dx) == cursor + dx * Gain

Moved(dx) == clamp(cursor + dx * Gain, 0, MaxCursor)

\* OnMouseEvent for a step of the pointer ...
OnMove(dx) ==
    /\ "move" \in mix
    /\ cursor' = Moved(dx)
    /\ Send(Mouse(cursor', 0, "MOVE", FALSE))
    /\ UNCHANGED <<held, heldButtons, turned, injectVars>>

\* ... and for a notch of the wheel.
OnWheel(notch) ==
    /\ "wheel" \in mix
    /\ turned' = (turned + notch) % ScrollMod
    /\ Send(Mouse(cursor, notch * 120, "WHEEL", FALSE))
    /\ UNCHANGED <<held, heldButtons, cursor, injectVars>>

\* The message and the WheelDelta of a button; up or down is told apart by the
\* packet's "pressed".
buttonPacket(code) ==
    CASE code = "BTN_LEFT" -> <<"LBUTTON", 0>>
      [] code = "BTN_RIGHT" -> <<"RBUTTON", 0>>
      [] code = "BTN_MIDDLE" -> <<"MBUTTON", 0>>
      [] code = "BTN_SIDE" -> <<"XBUTTON", 1>>
      [] code = "BTN_EXTRA" -> <<"XBUTTON", 2>>

OnButtonEvent(code) ==
    /\ code \in mix
    /\ heldButtons' = IF code \in heldButtons THEN heldButtons \ {code} ELSE heldButtons \cup {code}
    /\ Send(Mouse(cursor, buttonPacket(code)[2], buttonPacket(code)[1], code \in heldButtons'))
    /\ UNCHANGED <<held, turned, cursor, injectVars>>

Keyboard(vk, up) == [type |-> "Keyboard", vk |-> vk, up |-> up]

\* OnKeyEvent; a code without a virtual key is not sent.
OnKeyEvent(code) ==
    /\ code \in mix
    /\ held' = IF code \in held THEN held \ {code} ELSE held \cup {code}
    /\ IF code \in DOMAIN LinuxToVK THEN Send(Keyboard(LinuxToVK[code], code \in held))
                                    ELSE open /\ wire' = wire
    /\ UNCHANGED <<heldButtons, turned, cursor, injectVars>>

\* Windows, unlike this program, sends a held key again and again.
KeyRepeats(code) ==
    /\ code \in held \cap DOMAIN LinuxToVK
    /\ Send(Keyboard(LinuxToVK[code], FALSE))
    /\ UNCHANGED <<userVars, injectVars>>

PeerSwitches ==
    /\ "switch" \in mix
    /\ Send([type |-> "MachineSwitched"])
    /\ UNCHANGED <<userVars, injectVars>>

-----------------------------------------------------------------------------
\* The injecting machine: receiveLoop handles one packet.

\* What updateButtons makes of a message; xButtonNum is a uint16.
ButtonsOf(msg, wheel) ==
    CASE msg = "LBUTTON" -> {"BTN_LEFT"}
      [] msg = "RBUTTON" -> {"BTN_RIGHT"}
      [] msg = "MBUTTON" -> {"BTN_MIDDLE"}
      [] msg = "XBUTTON" /\ wheel % 65536 = 1 -> {"BTN_SIDE"}
      [] msg = "XBUTTON" /\ wheel % 65536 = 2 -> {"BTN_EXTRA"}
      [] OTHER -> {}

\* Faulty variant of ToScreen: the range 0..65535 is divided by its end.
FullScale(x) == (x * ScreenW) \div 65535

ToScreen(x) == (x * ScreenW) \div 65536

\* Faulty variant of LinuxWheel: the Windows unit goes to the kernel.
RawWheel(wheelDelta) == wheelDelta

\* Go's division rounds towards zero, and a partial notch counts as one.
LinuxWheel(wheelDelta) ==
    IF wheelDelta > 0 THEN IF wheelDelta < 120 THEN 1 ELSE wheelDelta \div 120
    ELSE IF wheelDelta = 0 THEN 0
    ELSE IF wheelDelta > -120 THEN -1 ELSE -((-wheelDelta) \div 120)

\* Faulty variant of Delta: the position itself is sent as a movement.
PositionAsDelta(x) == ToScreen(x)

\* The movement of the relative fallback.
Delta(x) == ToScreen(x) - absX

\* InjectMouse.  Without absolute axes the pointer gets the difference to the
\* position injected last.  Devices that are gone take no events.
InjectMouse(x, wheel, msg, pressed) ==
    /\ absX' = ToScreen(x)
    /\ pointer' = IF ~open THEN pointer
                  ELSE IF absAvailable THEN absX'
                  ELSE clamp(pointer + Delta(x), 0, ScreenW - 1)
    /\ clicked' = IF ~open THEN clicked
                  ELSE IF pressed THEN clicked \cup ButtonsOf(msg, wheel)
                                  ELSE clicked \ ButtonsOf(msg, wheel)
    /\ scrolled' = IF open THEN (scrolled + LinuxWheel(wheel)) % ScrollMod ELSE scrolled
    /\ UNCHANGED <<pressedKeys, down>>

\* Faulty variant of Tracked: a key that goes up stays in pressedKeys.
NeverDeletes(code, up) == IF up THEN pressedKeys ELSE pressedKeys \cup {code}

Tracked(code, up) == IF up THEN pressedKeys \ {code} ELSE pressedKeys \cup {code}

\* InjectKeyboard: an unknown key, or the press of a key that is down, is
\* dropped; the kernel takes no code that the device has no bit for.
InjectKeyboard(vk, up) ==
    /\ IF vk \notin DOMAIN VKToLinux \/ (~up /\ VKToLinux[vk] \in pressedKeys)
         THEN UNCHANGED <<pressedKeys, down>>
         ELSE /\ pressedKeys' = Tracked(VKToLinux[vk], up)
              /\ down' = IF ~open \/ VKToLinux[vk] \notin KeyBits THEN down
                         ELSE IF up THEN down \ {VKToLinux[vk]}
                                    ELSE down \cup {VKToLinux[vk]}
    /\ UNCHANGED <<absX, pointer, clicked, scrolled>>

\* Where MachineSwitched sends the pointer, in 0..65535.
Center == 32768

Receive ==
    /\ wire # <<>>
    /\ wire' = Tail(wire)
    /\ LET pkt == Head(wire) IN
         \/ pkt.type = "Mouse" /\ InjectMouse(pkt.x, pkt.wheel, pkt.msg, pkt.pressed)
         \/ pkt.type = "Keyboard" /\ InjectKeyboard(pkt.vk, pkt.up)
         \/ pkt.type = "MachineSwitched" /\ InjectMouse(Center, 0, "MOVE", FALSE)
    /\ UNCHANGED <<setupVars, userVars, open>>

\* Close: ReleaseAllKeys, then the kernel destroys the devices and with them
\* what they hold down.
Close ==
    /\ open
    /\ open' = FALSE
    /\ pressedKeys' = {}
    /\ down' = {} /\ clicked' = {}
    /\ UNCHANGED <<setupVars, userVars, wire, absX, pointer, scrolled>>

Over == ~open /\ wire = <<>> /\ UNCHANGED vars

Next ==
    \/ Over
    \/ \E dx \in Steps : OnMove(dx)
    \/ \E notch \in Notches : OnWheel(notch)
    \/ \E b \in Buttons : OnButtonEvent(b)
    \/ \E c \in Codes : OnKeyEvent(c) \/ KeyRepeats(c)
    \/ PeerSwitches
    \/ Receive
    \/ Close

Spec == Init /\ [][Next]_vars

-----------------------------------------------------------------------------
Quiet == wire = <<>> /\ open

\* The code that a held key ends up as on the other machine.
Image(c) == VKToLinux[LinuxToVK[c]]

\* Once every packet is handled no key is stuck: a virtual key is down only if
\* the user holds a key that stands for it; and a held key that shares its
\* virtual key with no other is down.  This is so for every reverse table the
\* random map order can build, and under Windows' repeated presses.
KeysAgree ==
    Quiet =>
      LET sent == held \cap DOMAIN LinuxToVK IN
        /\ down \subseteq {Image(c) : c \in sent}
        /\ \A c \in sent :
             (\A d \in DOMAIN LinuxToVK \ {c} : Image(d) # Image(c)) => Image(c) \in down

\* VirtualInput's record of the keys it holds down, which decides what is
\* injected and what ReleaseAllKeys releases, is the kernel's.
RecordIsTrue == open => pressedKeys = down

\* Once every packet is handled the buttons down are the buttons held: no drag
\* goes on by itself, and none ends early.
ButtonsAgree == Quiet => clicked = heldButtons

\* Keys, buttons and the record of them together: nothing sticks on the
\* injecting machine, and nothing is let go that the user holds.
NothingSticks == KeysAgree /\ ButtonsAgree /\ RecordIsTrue

\* Once every packet is handled the pointer is within a pixel of where the
\* user put it, on a screen of another size, after any number of steps.
PointerAccurate ==
    Quiet /\ absAvailable =>
        LET want == (cursor * ScreenW) \div MaxCursor
        IN  pointer - want \in {-1, 0, 1}

Distance(a, b) == IF a < b THEN b - a ELSE a - b

\* With relative axes the pointer is moved by differences from a position that
\* was never read back.  It may start anywhere, but no packet takes it further
\* from where it should be than it was, so that a sweep along the edges, or a
\* MachineSwitched that does not move it to the centre, cannot make it worse.
ErrorNeverGrows ==
    [][open => Distance(pointer', absX') <= Distance(pointer, absX)]_vars

\* Once every packet is handled the wheel has turned as far as the user's,
\* unless side buttons were used too: their number travels in WheelDelta, for
\* which InjectMouse also scrolls.
ScrollAgrees ==
    Quiet /\ mix \cap {"BTN_SIDE", "BTN_EXTRA"} = {} => scrolled = turned

\* Refuted with relative axes (README, "Known deviations"): "Sync OS cursor
\* to center screen", so that after MachineSwitched the pointer is there.
CursorSynced ==
    [][wire # <<>> /\ Head(wire).type = "MachineSwitched" /\ wire' = Tail(wire) /\ open
         => pointer' = ToScreen(Center)]_vars
=============================================================================
