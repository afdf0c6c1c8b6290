--------------------------- MODULE EvdevCapture ---------------------------
(***************************************************************************)
(* The input capture of open-mwb (input/evdev.go): one goroutine per mouse *)
(* handle and one per keyboard handle read the kernel's events, share the  *)
(* EvdevCapture structure under its mutex mu, and forward events to the    *)
(* other machine through the callbacks main.go installs.                   *)
(*                                                                         *)
(* Every section of the code that runs under mu is one step.  The one that *)
(* is not is Grab: it sends the pending key-ups over the network before it *)
(* releases mu, so the model keeps mu held while it does.  What a goroutine*)
(* read under mu and uses after releasing it is in seen and pc.            *)
(***************************************************************************)
EXTENDS Naturals, FiniteSets

CONSTANTS
    Mice,          \* the handles of mouseDevs
    Kbds,          \* the handles of kbdDevs
    nil,           \* no device
    Combo,         \* Combo[k]: the mouse handle with k's device path, or nil
    SamePhys,      \* SamePhys[k]: the mice isSamePhysicalDevice relates to k
    FirstMatch,    \* FirstMatch[k]: the first of SamePhys[k] in mouseDevs
    Keys,          \* the key codes the keyboards have
    WinKeys,       \* 125 and 126, the two Win keys
    SwitchKeys,    \* 59 and 60, F1 and F2
    Pause,         \* 119, the emergency key
    Magnitudes,    \* |value| of the REL_X and REL_Y events
    MinMotion,     \* mouseIntentMinMotionMagnitude
    MayFailGrab,   \* the handles on which EVIOCGRAB may fail
    JigglerOn,     \* cfg.MouseJiggler
    PeerMaySwitch, \* the peer may send MachineSwitched
    PeerMayStall,  \* the peer may stop reading, so that writes block
    SessionMayEnd  \* the connection may drop, so that the capture is closed

Handles == Mice \cup Kbds

ASSUME DeviceAssumption ==
    /\ Mice \cap Kbds = {}
    /\ nil \notin Handles
    /\ Combo \in [Kbds -> Mice \cup {nil}]
    /\ SamePhys \in [Kbds -> SUBSET Mice]
    /\ FirstMatch \in [Kbds -> Mice \cup {nil}]
    /\ \A k \in Kbds : SamePhys[k] # {} => FirstMatch[k] \in SamePhys[k]
    /\ MayFailGrab \subseteq Handles

ASSUME KeyAssumption ==
    /\ WinKeys \subseteq Keys /\ SwitchKeys \subseteq Keys /\ Pause \in Keys
    /\ WinKeys \cap SwitchKeys = {} /\ Pause \notin WinKeys \cup SwitchKeys
    /\ "BTN" \notin Keys

ASSUME MotionAssumption ==
    /\ Magnitudes \subseteq Nat \ {0}
    /\ MinMotion \in Nat \ {0}

ASSUME EnvironmentAssumption ==
    /\ JigglerOn \in BOOLEAN /\ PeerMaySwitch \in BOOLEAN
    /\ PeerMayStall \in BOOLEAN /\ SessionMayEnd \in BOOLEAN

VARIABLES
    mu,           \* the keyboard goroutine inside Grab that holds mu, or nil
    IsRemote,     \* the keyboard and mouse drive the other machine
    activeMouse,  \* activeMouseDev
    activeKbd,    \* activeKbdDev
    grabbed,      \* the handles whose Grabbed flag is set
    pending,      \* pendingMouse, -Hits, -Motion, and now against pendingUntil
    pressedKeys,  \* pressedKeys, keyed by code whatever the keyboard
    pc,           \* where each goroutine is
    seen,         \* a keyboard loop's copies of IsRemote and activeKbdDev while
                  \* it looks for a shortcut; elsewhere pc says what it decided
    inbox,        \* the event waiting in a keyboard's kernel buffer, or nil
    held,         \* the keys that are physically down, per keyboard
    jiggler,      \* the jiggler goroutine: "idle" or about to "tap"
    net,          \* writes to the connection are "flowing" or "stalled"
    life          \* of the capture: "open", "closing", "closed", "exited"

modeVars == <<IsRemote, activeMouse, activeKbd, grabbed, pending>>
loopVars == <<pc, seen>>
userVars == <<inbox, held>>
worldVars == <<jiggler, net, life>>
vars == <<mu, modeVars, pressedKeys, loopVars, userVars, worldVars>>

KeyEvents == [code : Keys \cup {"BTN"}, pressed : BOOLEAN]

ASSUME NoEventAssumption == nil \notin KeyEvents

MouseEvents ==
    [kind : {"move"}, mag : Magnitudes] \cup [kind : {"press", "other"}, mag : {0}]

\* now < pendingUntil, now = pendingUntil, now > pendingUntil
Windows == {"open", "edge", "closed"}
NoPending == [mouse |-> nil, hits |-> 0, motion |-> 0, window |-> "closed"]

NoCopy == [remote |-> FALSE, kbd |-> nil]

MousePcs == {"read", "forward", "done"}
KbdPcs == {"read", "chord", "claim", "send", "sendButton", "grab", "flush",
           "ungrab", "emergency", "done"}

TypeOK ==
    /\ mu \in Kbds \cup {nil}
    /\ IsRemote \in BOOLEAN
    /\ activeMouse \in Mice \cup {nil}
    /\ activeKbd \in Kbds \cup {nil}
    /\ grabbed \subseteq Handles
    /\ pending \in [mouse : Mice \cup {nil}, hits : Nat, motion : Nat, window : Windows]
    /\ pressedKeys \subseteq Keys
    /\ pc \in [Handles -> MousePcs \cup KbdPcs]
    /\ seen \in [Kbds -> [remote : BOOLEAN, kbd : Kbds \cup {nil}]]
    /\ inbox \in [Kbds -> KeyEvents \cup {nil}]
    /\ held \in [Kbds -> SUBSET Keys]
    /\ jiggler \in {"idle", "tap"}
    /\ net \in {"flowing", "stalled"}
    /\ life \in {"open", "closing", "closed", "exited"}

Init ==
    /\ mu = nil
    /\ IsRemote = FALSE
    /\ activeMouse = nil
    /\ activeKbd = nil
    /\ grabbed = {}
    /\ pending = NoPending
    /\ pressedKeys = {}
    /\ pc = [h \in Handles |-> "read"]
    /\ seen = [k \in Kbds |-> NoCopy]
    /\ inbox = [k \in Kbds |-> nil]
    /\ held = [k \in Kbds |-> {}]
    /\ jiggler = "idle"
    /\ net = "flowing"
    /\ life = "open"

-----------------------------------------------------------------------------
(* The mutex, the files and the connection.                                *)

Running == life # "exited"

\* Faulty variant of LockFree: a section that forgot to take mu.
WithoutLock == Running

LockFree == Running /\ mu = nil
CanSend == Running /\ net = "flowing"

\* A goroutine that goes back to Read after Close gets an error and returns.
\* One that was already blocked in Read when Close ran still gets one event:
\* Fd() has put the file in blocking mode, so Close does not wake it.
ToRead == IF life = "closed" THEN "done" ELSE "read"

Goto(h, l) == pc' = [pc EXCEPT ![h] = l]

\* Outcomes of EVIOCGRAB 1 on the handles of S: those that become grabbed.
\* On a closed file the ioctl always fails.
GrabOutcomes(S) ==
    IF life = "closed" THEN {{}} ELSE {S \ f : f \in SUBSET (S \cap MayFailGrab)}

-----------------------------------------------------------------------------
(* Choosing the mouse that drives the remote cursor.                       *)

isIntentionalRemoteMouseEvent(e) == e.kind \in {"move", "press"}

\* Faulty variant of ungrabMouse: a rebind leaves the old mouse grabbed.
KeepsOldGrab == grabbed

\* A rebind releases the active mouse before it grabs the new one.
ungrabMouse == grabbed \ {activeMouse}

\* Faulty variant of resetPendingMouse: the candidate is not forgotten.
ForgetsReset == pending

resetPendingMouse == NoPending

SelectMouse(m) ==
    /\ activeMouse' = m
    /\ \E ok \in GrabOutcomes({m}) : grabbed' = ungrabMouse \cup ok

registerPendingMouse(m, mag) ==
    IF pending.mouse # m \/ pending.window = "closed"
      THEN [mouse |-> m, hits |-> 1, motion |-> mag, window |-> "open"]
      ELSE [mouse |-> m, hits |-> pending.hits + 1,
            motion |-> pending.motion + mag, window |-> "open"]

IntentReached(p) == p.hits >= 2 /\ p.motion >= MinMotion

\* remoteMouseActivationAction: the event comes from a mouse that is not the
\* active one and is of a kind that may select it.
MaySelect(m, e) == isIntentionalRemoteMouseEvent(e) /\ activeMouse # m

decideMouseActivation(m, e) ==
    \/ /\ ~MaySelect(m, e)
       /\ pending' = IF pending.window = "open" THEN pending ELSE resetPendingMouse
       /\ UNCHANGED <<activeMouse, grabbed>>
    \/ /\ MaySelect(m, e)
       /\ e.kind = "press"
       /\ pending' = resetPendingMouse
       /\ SelectMouse(m)
    \/ /\ MaySelect(m, e)
       /\ e.kind = "move"
       /\ LET p == registerPendingMouse(m, e.mag)
          IN  IF IntentReached(p)
                THEN pending' = resetPendingMouse /\ SelectMouse(m)
                ELSE pending' = p /\ UNCHANGED <<activeMouse, grabbed>>

\* runSingleMouseLoop: the section under mu.  An event of the active mouse is
\* forwarded after mu is released.
MouseEvent(m, e) ==
    /\ LockFree
    /\ pc[m] = "read"
    /\ \/ /\ IsRemote
          /\ decideMouseActivation(m, e)
          /\ Goto(m, IF activeMouse' = m THEN "forward" ELSE ToRead)
       \/ /\ ~IsRemote
          /\ Goto(m, ToRead)
          /\ UNCHANGED <<activeMouse, grabbed, pending>>
    /\ UNCHANGED <<mu, IsRemote, activeKbd, pressedKeys, seen, userVars, worldVars>>

\* handleRemoteMouseEvent: OnMouseEvent or OnButtonEvent sends a packet.
MouseForward(m) ==
    /\ CanSend
    /\ pc[m] = "forward"
    /\ Goto(m, ToRead)
    /\ UNCHANGED <<mu, modeVars, pressedKeys, seen, userVars, worldVars>>

\* Time passes: the 150 ms of mouseIntentWindow run out.
WindowPasses ==
    /\ pending.mouse # nil
    /\ \/ pending.window = "open" /\ pending' = [pending EXCEPT !.window = "edge"]
       \/ pending.window # "closed" /\ pending' = [pending EXCEPT !.window = "closed"]
    /\ Running
    /\ UNCHANGED <<mu, IsRemote, activeMouse, activeKbd, grabbed, pressedKeys,
                   loopVars, userVars, worldVars>>

-----------------------------------------------------------------------------
(* Entering and leaving remote mode.                                       *)

isMouseDevicePath(k) == Combo[k] # nil

\* Faulty variant of Ungrab: the active mouse stays active and grabbed.
UngrabKeyboardsOnly ==
    /\ grabbed' = grabbed \ Kbds
    /\ IsRemote' = FALSE
    /\ activeKbd' = nil
    /\ pending' = NoPending
    /\ UNCHANGED activeMouse

Ungrab ==
    /\ grabbed' = {}
    /\ IsRemote' = FALSE
    /\ activeMouse' = nil
    /\ activeKbd' = nil
    /\ pending' = resetPendingMouse

\* Faulty variant of KeyboardsToGrab: the test is the wrong way round.
CombosToGrab == {k \in Kbds : isMouseDevicePath(k)} \ grabbed

\* The keyboards Grab asks the kernel for: a combo device is skipped.
KeyboardsToGrab == {k \in Kbds : ~isMouseDevicePath(k)} \ grabbed

\* Grab(nil) up to the loop that sends the key-ups; mu stays held.
GrabDevices(k) ==
    /\ LockFree
    /\ pc[k] = "grab"
    /\ mu' = k
    /\ pending' = resetPendingMouse
    /\ \E ok \in GrabOutcomes(KeyboardsToGrab) : grabbed' = grabbed \cup ok
    /\ IsRemote' = TRUE
    /\ Goto(k, "flush")
    /\ UNCHANGED <<activeMouse, activeKbd, pressedKeys, seen, userVars, worldVars>>

\* One round of the loop over pressedKeys: a key-up is sent with mu held.
GrabFlushKey(k) ==
    /\ CanSend
    /\ pc[k] = "flush"
    /\ \E c \in pressedKeys : pressedKeys' = pressedKeys \ {c}
    /\ UNCHANGED <<mu, modeVars, loopVars, userVars, worldVars>>

\* The loop is over: Grab returns and OnEdgeHit logs.
GrabReturn(k) ==
    /\ Running
    /\ pc[k] = "flush"
    /\ pressedKeys = {}
    /\ mu' = nil
    /\ Goto(k, ToRead)
    /\ UNCHANGED <<modeVars, pressedKeys, seen, userVars, worldVars>>

UngrabByChord(k) ==
    /\ LockFree
    /\ pc[k] = "ungrab"
    /\ Ungrab
    /\ Goto(k, ToRead)
    /\ UNCHANGED <<mu, pressedKeys, seen, userVars, worldVars>>

-----------------------------------------------------------------------------
(* runSingleKeyboardLoop.                                                  *)

\* What the loop does with a key in remote mode once no shortcut applies,
\* from the copy of activeKbdDev it took: become the active keyboard, forward
\* the key, or drop it.
RemoteRoute(k, kbd, pressed) ==
    IF kbd = nil /\ pressed THEN "claim" ELSE IF kbd = k THEN "send" ELSE ToRead

\* Faulty variant of Tracked: releases are not recorded.
TracksPressesOnly(e) == IF e.pressed THEN pressedKeys \cup {e.code} ELSE pressedKeys

\* pressedKeys after event e.
Tracked(e) ==
    IF e.pressed THEN pressedKeys \cup {e.code} ELSE pressedKeys \ {e.code}

\* Faulty variant of AfterTracking: PAUSE is a shortcut of local mode only.
PauseOnlyLocally(k, e) ==
    IF e.code = Pause /\ e.pressed /\ ~IsRemote THEN "emergency"
    ELSE IF e.code \in SwitchKeys /\ e.pressed THEN "chord"
    ELSE IF IsRemote THEN RemoteRoute(k, activeKbd, e.pressed)
    ELSE ToRead

AfterTracking(k, e) ==
    IF e.code = Pause /\ e.pressed THEN "emergency"
    ELSE IF e.code \in SwitchKeys /\ e.pressed THEN "chord"
    ELSE IF IsRemote THEN RemoteRoute(k, activeKbd, e.pressed)
    ELSE ToRead

\* The key event is read and tracked under mu; IsRemote and activeKbdDev are
\* copied for use after mu is released.
TrackKey(k) ==
    /\ LockFree
    /\ pc[k] = "read"
    /\ inbox[k] # nil
    /\ LET e == inbox[k]
       IN  /\ e.code \in Keys
           /\ pressedKeys' = Tracked(e)
           /\ seen' = IF e.code \in SwitchKeys /\ e.pressed
                        THEN [seen EXCEPT ![k] = [remote |-> IsRemote, kbd |-> activeKbd]]
                        ELSE seen
           /\ Goto(k, AfterTracking(k, e))
    /\ inbox' = [inbox EXCEPT ![k] = nil]
    /\ UNCHANGED <<mu, modeVars, held, worldVars>>

\* F1 or F2 is down: a second section under mu looks for Win in pressedKeys.
CheckChord(k) ==
    /\ LockFree
    /\ pc[k] = "chord"
    /\ Goto(k, IF pressedKeys \cap WinKeys # {}
                 THEN IF seen[k].remote THEN "ungrab" ELSE "grab"
                 ELSE IF seen[k].remote THEN RemoteRoute(k, seen[k].kbd, TRUE)
                                        ELSE ToRead)
    /\ seen' = [seen EXCEPT ![k] = NoCopy]
    /\ UNCHANGED <<mu, modeVars, pressedKeys, userVars, worldVars>>

\* The keyboard becomes the active one.  IsRemote is not looked at again.
ClaimKeyboard(k) ==
    /\ LockFree
    /\ pc[k] = "claim"
    /\ activeKbd' = k
    /\ Goto(k, "send")
    /\ UNCHANGED <<mu, IsRemote, activeMouse, grabbed, pending, pressedKeys,
                   seen, userVars, worldVars>>

\* OnKeyEvent sends a Keyboard packet.
ForwardKey(k) ==
    /\ CanSend
    /\ pc[k] = "send"
    /\ Goto(k, ToRead)
    /\ UNCHANGED <<mu, modeVars, pressedKeys, seen, userVars, worldVars>>

\* Faulty variant of mouseSourceForKeyboardButton: the keyboard itself.
KeyboardAsSource(k) == k

\* A mouse button reported by a keyboard handle counts as a button of the
\* mouse mouseSourceForKeyboardButtonLocked finds.
mouseSourceForKeyboardButton(k) ==
    IF isMouseDevicePath(k) \/ SamePhys[k] = {} THEN nil
    ELSE IF activeMouse \in SamePhys[k] THEN activeMouse
    ELSE FirstMatch[k]

ButtonOnKeyboard(k) ==
    /\ LockFree
    /\ pc[k] = "read"
    /\ inbox[k] # nil
    /\ inbox[k].code = "BTN"
    /\ inbox' = [inbox EXCEPT ![k] = nil]
    /\ LET m == mouseSourceForKeyboardButton(k)
           e == [kind |-> IF inbox[k].pressed THEN "press" ELSE "other", mag |-> 0]
       IN  \/ /\ IsRemote /\ m # nil
              /\ decideMouseActivation(m, e)
              /\ Goto(k, IF activeMouse' = m THEN "sendButton" ELSE ToRead)
           \/ /\ ~IsRemote \/ m = nil
              /\ Goto(k, ToRead)
              /\ UNCHANGED <<activeMouse, grabbed, pending>>
    /\ UNCHANGED <<mu, IsRemote, activeKbd, pressedKeys, seen, held, worldVars>>

\* OnButtonEvent sends a Mouse packet.
ForwardButton(k) ==
    /\ CanSend
    /\ pc[k] = "sendButton"
    /\ Goto(k, ToRead)
    /\ UNCHANGED <<mu, modeVars, pressedKeys, seen, userVars, worldVars>>

\* OnEmergency: Close releases the devices and os.Exit ends the program.
OnEmergency(k) ==
    /\ LockFree
    /\ pc[k] = "emergency"
    /\ Ungrab
    /\ life' = "exited"
    /\ UNCHANGED <<mu, pressedKeys, loopVars, userVars, jiggler, net>>

-----------------------------------------------------------------------------
(* The other goroutines of the session.                                    *)

\* receiveLoop gets MachineSwitched from the peer and calls Ungrab.
PeerSwitches ==
    /\ PeerMaySwitch
    /\ LockFree
    /\ Ungrab
    /\ UNCHANGED <<mu, pressedKeys, loopVars, userVars, worldVars>>

\* Close, called when the session's context ends: Ungrab under mu, then the
\* files are closed without it.
CloseUngrabs ==
    /\ SessionMayEnd
    /\ LockFree
    /\ life = "open"
    /\ Ungrab
    /\ life' = "closing"
    /\ UNCHANGED <<mu, pressedKeys, loopVars, userVars, jiggler, net>>

CloseFiles ==
    /\ life = "closing"
    /\ life' = "closed"
    /\ UNCHANGED <<mu, modeVars, pressedKeys, loopVars, userVars, jiggler, net>>

\* jigglerTick: IsRemoteMode is read under mu, the key tap is sent after.
JigglerChecks ==
    /\ JigglerOn
    /\ LockFree
    /\ life = "open"
    /\ jiggler = "idle"
    /\ ~IsRemote
    /\ jiggler' = "tap"
    /\ UNCHANGED <<mu, modeVars, pressedKeys, loopVars, userVars, net, life>>

JigglerTaps ==
    /\ CanSend
    /\ jiggler = "tap"
    /\ jiggler' = "idle"
    /\ UNCHANGED <<mu, modeVars, pressedKeys, loopVars, userVars, net, life>>

-----------------------------------------------------------------------------
(* The user, the kernel and the peer.                                      *)

\* The kernel hands events of a device only to the handle that grabbed it:
\* a keyboard handle on the path of a grabbed mouse handle gets none.
Silenced(k) == isMouseDevicePath(k) /\ Combo[k] \in grabbed

Arrives(k, e) ==
    /\ Running
    /\ pc[k] # "done"
    /\ inbox[k] = nil
    /\ inbox' = IF Silenced(k) THEN inbox ELSE [inbox EXCEPT ![k] = e]

UserKey(k, c) ==
    /\ Arrives(k, [code |-> c, pressed |-> c \notin held[k]])
    /\ held' = [held EXCEPT ![k] = IF c \in @ THEN @ \ {c} ELSE @ \cup {c}]
    /\ UNCHANGED <<mu, modeVars, pressedKeys, loopVars, worldVars>>

UserButton(k, down) ==
    /\ Arrives(k, [code |-> "BTN", pressed |-> down])
    /\ UNCHANGED <<mu, modeVars, pressedKeys, loopVars, held, worldVars>>

PeerStalls ==
    /\ PeerMayStall
    /\ Running
    /\ net' = IF net = "flowing" THEN "stalled" ELSE "flowing"
    /\ UNCHANGED <<mu, modeVars, pressedKeys, loopVars, userVars, jiggler, life>>

\* The program has ended, or every goroutine of a closed capture has returned.
Ended ==
    /\ \/ life = "exited"
       \/ life = "closed" /\ \A h \in Handles : pc[h] = "done"
    /\ UNCHANGED vars

MouseStep(m) == MouseForward(m) \/ \E e \in MouseEvents : MouseEvent(m, e)

KbdStep(k) ==
    \/ TrackKey(k)
    \/ ButtonOnKeyboard(k)
    \/ CheckChord(k)
    \/ GrabDevices(k)
    \/ GrabFlushKey(k)
    \/ GrabReturn(k)
    \/ UngrabByChord(k)
    \/ ClaimKeyboard(k)
    \/ ForwardKey(k)
    \/ ForwardButton(k)
    \/ OnEmergency(k)

SessionStep ==
    \/ PeerSwitches
    \/ CloseUngrabs
    \/ CloseFiles
    \/ JigglerChecks
    \/ JigglerTaps

EnvStep ==
    \/ WindowPasses
    \/ PeerStalls
    \/ \E k \in Kbds, c \in Keys : UserKey(k, c)
    \/ \E k \in Kbds, down \in BOOLEAN : UserButton(k, down)

Next ==
    \/ \E m \in Mice : MouseStep(m)
    \/ \E k \in Kbds : KbdStep(k)
    \/ SessionStep
    \/ EnvStep
    \/ Ended

Spec == Init /\ [][Next]_vars

(***************************************************************************)
(* Fairness.  A goroutine that can run does (the Go scheduler); one that   *)
(* waits for mu gets it even when others keep taking it, since sync.Mutex  *)
(* hands over in starvation mode, hence SF; a blocked write completes when *)
(* the peer drains the connection again and again.  The user and the peer  *)
(* owe nothing.                                                            *)
(***************************************************************************)
Fairness ==
    /\ \A k \in Kbds : SF_vars(KbdStep(k))
    /\ \A m \in Mice : SF_vars(MouseForward(m))
    /\ WF_vars(CloseFiles)
    /\ SF_vars(JigglerTaps)

FairSpec == Spec /\ Fairness

-----------------------------------------------------------------------------
(* What must hold.                                                         *)

\* In local mode nothing is captured: no handle is grabbed, no mouse is
\* active and no candidate is remembered, whatever goroutines ran Grab,
\* Ungrab, an activation or Close in between.
LocalModeIsReleased ==
    ~IsRemote => grabbed = {} /\ activeMouse = nil /\ pending = NoPending

\* "Other mice remain free for local control": over any series of
\* activations and rebinds, from the mouse loops and from buttons on
\* keyboard handles, at most the active mouse is grabbed.
OtherMiceStayFree == grabbed \cap Mice \subseteq {activeMouse}

\* A candidate mouse is never the active one, and what is remembered of it is
\* always short of what selects it: a noisy packet cannot be added up with
\* motion that has already been used or that belonged to another mouse.
CandidateIsUndecided ==
    /\ pending.mouse # nil => pending.mouse # activeMouse /\ pending.hits >= 1
    /\ pending.mouse = nil => pending = NoPending
    /\ ~IntentReached(pending)
    /\ pending.hits <= pending.motion

\* mu is held across steps only by the one keyboard goroutine inside Grab,
\* and the mode cannot change under it.
GrabExcludesOthers ==
    /\ \A k \in Kbds : pc[k] = "flush" <=> mu = k
    /\ mu # nil => IsRemote

\* "Track pressed keys globally on ALL keyboards": a code in pressedKeys is
\* held on some keyboard, or its release waits to be read.  Win+F1 can then
\* only fire when Win is really down.
PressedKeysAreHeld ==
    \A c \in pressedKeys : \E k \in Kbds :
        c \in held[k] \/ inbox[k] = [code |-> c, pressed |-> FALSE]

\* The capture implements InputFocus, the promise made to the user, whatever
\* the order in which the goroutines take mu.
Focus == INSTANCE InputFocus
           WITH focus <- IF IsRemote THEN "remote" ELSE "local",
                pointer <- activeMouse,
                captured <- grabbed

ImplementsFocus == Focus!FocusSpec

\* While the other machine is driven, a key that is sent to it comes from a
\* keyboard that is captured (or whose capture the kernel refused).
ForwardedKeysAreSuppressed ==
    \A k \in Kbds : pc[k] = "send" /\ IsRemote => k \in grabbed \cup MayFailGrab

\* PAUSE ends the program, on every keyboard and in every mode.
EmergencyWorks ==
    \A k \in Kbds : (Pause \in held[k]) ~> (life = "exited")

\* The half of it that is about mu: once a loop has read PAUSE and calls
\* OnEmergency, no section of another goroutine keeps its Close from mu.
EmergencyIsObeyed ==
    \A k \in Kbds : (pc[k] = "emergency") ~> (life = "exited")

-----------------------------------------------------------------------------
(* What the comments and documents also promise and the code does not keep *)
(* (README, "Known deviations"); no proof rests on these.                  *)

\* "The keyboard that was first used in remote mode": no keyboard is active
\* in local mode, so the first one used after the next switch becomes active.
NoActiveKeyboardInLocalMode == ~IsRemote => activeKbd = nil

\* "In remote mode, only accept events from the active keyboard."
OnlyActiveKeyboardForwards ==
    \A k \in Kbds : pc[k] = "send" /\ IsRemote => activeKbd = k

\* The jiggler taps a key on the other machine only "while in local mode".
JigglerOnlyInLocalMode == jiggler = "tap" => ~IsRemote

\* After Close every device the kernel still reserves for this program
\* belongs to a goroutine that has returned, so that its file is gone.
CloseRevertsFocus ==
    life = "closed" => \A h \in grabbed : pc[h] = "done"
=============================================================================
