# A TLA+ verification of open-mwb

open-mwb is a Linux peer for Mouse Without Borders: one keyboard and mouse drive
two machines, and the clipboard follows. These modules model it from the command
line to the virtual devices and check it with TLC on small instances; the safety
properties the runs check are also proved with TLAPS, for instances of any size.
`PROJECT.json` maps every definition to the lines it models.

## 1. The system

| Part (source) | State | Operations | Runs concurrently with |
|---|---|---|---|
| Input capture (`input/evdev.go`) | devices and their grabs, `IsRemote`, active mouse and keyboard, candidate mouse, `pressedKeys`, all under `mu` | one read loop per device, `Grab`, `Ungrab`, `Close`, mouse selection, shortcuts, emergency key | every other loop, `receiveLoop`, cleanup, jiggler |
| Device discovery (`input/evdev.go`) | the handles opened | `classifyDevice`, `discoverDevices`, `DiscoverAndOpen`, `Open` | udev, the user's plugs |
| Callbacks and injection (`main.go`, `input/uinput.go`, `input/keymap.go`) | local cursor; virtual devices, keys held there | `OnMouseEvent`, `OnButtonEvent`, `OnKeyEvent`; `InjectMouse`, `InjectKeyboard`, `ReleaseAllKeys` | the other machine, over the wire |
| Sender (`session_sender.go`, `Client.Send`) | `nextID` under `mu`, the connection | `Send` | heartbeats, jiggler, clipboard, all input loops |
| Packets and cipher (`protocol/protocol.go`, `crypto/crypto.go`, `readPacket`) | the CBC chain of each direction | `Marshal`, `Unmarshal`, `Encrypt`, `Decrypt` | the peer's reader |
| Handshake (`network/client.go`, `network/server.go`) | remote ID, what has been received | primer blocks, ten Handshake packets, acknowledgements, a deadline | the peer doing the same |
| Listening (`network/server.go`, `main.go`) | the port, the kernel's backlog | `NewServer`, `Accept`, background server | dialers and strangers |
| Process and session (`main.go`) | context, `disconnectCh`, `sigCh` of each session | connect, run, select, tear down, reconnect | signals, the goroutines of this and of the last session |
| Configuration (`config/config.go`) | `Config`; `config.json` on disk, which outlives the process | search, wizard, save, flags, `Validate` | the user's editor, kills |
| Clipboard (`clipboard/clipboard.go`, `main.go`, `util/guid.go`) | `lastContent` under `mu`, `clipboardBuffer` | `Watch`, `SetText`, sending and collecting chunks; the text codec | the user, the peer's clipboard |
| TUI (`tui/tui.go`) | `Screen` under `mu` | `Run`, `receiveLoop`, `heartbeatLoop` | each other, the peer |

How they interact. `main` reads the configuration, connects, and starts a
session: virtual devices, then discovery and capture. The loops of the capture
call the callbacks, which call the sender, which marshals, encrypts and writes;
`receiveLoop` of the other side reads, decrypts and calls the virtual devices, the
clipboard and `Ungrab`. `main` waits for a signal or for `receiveLoop` to see the
end of the stream, and cancels the context, on which a cleanup goroutine closes
capture, clipboard and virtual devices in turn. In client mode a background server
accepts reciprocal connections and throws away what they send.

What is hard here, with the property aimed at it (`PROJECT.json`, "hazards", has
the lines):

- the loops copy state under `mu` and use it after unlocking, and `Grab` writes to
  the network while it holds `mu` (`LocalModeIsReleased`, `ImplementsFocus`,
  `GrabExcludesOthers`, `EmergencyWorks`, `EmergencyIsObeyed`);
- a mouse is selected by motion summed over events, a time window and competing
  mice (`CandidateIsUndecided`, `OtherMiceStayFree`);
- both sides leave the handshake at different times (`NoSessionPacketSwallowed`,
  `FinishedSideOwesNothing`, `TrustIsMutual`, `AcceptedGetsConnected`), both write the
  other's ID several times (`AckNamesThePeer`), and `Accept` serves one caller at a
  time (`OnlySilenceBlocks`);
- goroutines share one numbering, one cipher chain and one connection that may
  fail inside a packet (`WireIDsConsecutive`, `BurstsKeepOrder`, `StreamStaysAligned`,
  `PayloadIntact`, `SendReturns`);
- an old session ends while `main` begins the next one (`OneReceiver`,
  `ReceiverGoesFirst`, `LostSessionEnds`, `Reconnects`);
- keys and buttons must not stick on the other machine, and coordinates are
  rounded twice or summed up (`NothingSticks`, `NoKeyStuck`, `PointerAccurate`, `ErrorNeverGrows`, `ScrollAgrees`);
- the clipboard is polled while it is being set, and texts are cut into packets
  (`WholeTexts`, `ChangeIsNoticed`, `ShowsTheText`);
- a file is half decoded, half written or in the wrong place (`WizardSuffices`,
  `SavedIsReloaded`, `GoodFileSurvives`);
- the TUI's mutex is held during a network write, and keys that pile up behind it
  are read together (`QuitWorks`, `CloseIsShown`).

## 2. Modules

Definitions named "Faulty variant of X" are small mutations of X: with X replaced
by them a property must fail. They take no part in the specifications.

**InputFocus** is the promise of the capture: one machine is driven at a time;
going remote captures keyboards and at most the one mouse that points there;
coming back releases everything at once.

**EvdevCapture** is the capture itself. Each section of the code under `mu` is one
step; `pc` says where a goroutine is between two sections and `seen` holds its
copies of `IsRemote` and `activeKbdDev`. `Grab` is three actions: `GrabDevices`
takes `mu`, `GrabFlushKey` sends one key-up and needs the connection to take it,
`GrabReturn` releases `mu`. A mouse loop blocks in the kernel read, so reading an
event and the section that decides about it are one step; the forwarding that
follows is another. A keyboard has room for one unread event (`inbox`): enough for
a key to change while the loop is busy, and for PAUSE to wait behind it. A mouse
handle that grabs a path silences the keyboard handle on the same path
(`Silenced`), since EVIOCGRAB is per open file. `pendingUntil` is kept as before,
at or after the end of the window, which is all that the code compares. `Close`
releases the grabs under `mu` and closes the files without it; `Fd()` has put those
files in blocking mode, so closing does not wake a reader, and a loop ends when it
next reads.

**PeerKeys** composes the capture with the other machine's keyboard: `peerDown` is
what the packets sent so far leave down there. It adds history variables only.

**SessionSender** is `sessionSender.Send` over `Client.Send`: the connection is
checked without the lock, then lock, number, write, unlock; a write that fails
disconnects. `BurstLen` is how many packets a caller sends in a row. The bound
`MaxID` is below 2^32, so the wrap of `nextID` is not reached.

**Packets** has the packet layout in words of eight bytes: header, body, and what
shares the second half of a long packet (machine name, raw data). **Wire** composes
it with SessionSender, the cipher and the reader of the other side. The stream is a
sequence of half packets (32 bytes, what `readPacket` reads at a time), each
numbered in the order it was encrypted; one that is read out of that order
decrypts with a first block of noise, which the checksum sees in the first half
and nothing sees in the second. `Prepare` is numbering, marshalling and encrypting,
all under the session's mutex. `Room` is what the kernel's buffers hold: a write has
no deadline, so one that does not fit waits with the mutex until the peer reads or
the connection breaks. A break keeps any prefix of what was under way.

**Handshake** has two sides with a channel each way. The primers are read without
a deadline, the packets in the loop with one. Whether the keys match is a variable
chosen at the start; a packet of another key does not decode. `AnonymousAck` says
which sides acknowledge with `Src` 0, as Windows does; in the run it is the dialer. **Listener** puts it inside
`Accept`: the backlog, strangers ahead of or behind the dialer, a dialer that comes
again after a failure or a session, server mode, which closes the port once it has
a client, and client mode, whose background server drains what it accepts. A new
connection takes the place of the old one in Handshake's variables.

**Session** is `main` and, per session, `receiveLoop`, the capture loops, the heartbeats
and the jiggler, the clipboard watcher and the cleanup goroutine, with a connection
that may end, be reset or fall silent, and SIGINT. Sleeps order nothing. A keyboard
loop in `Grab` has the capture's `mu` (`held`) while it writes, for ever if the peer is
silent and nobody closes the connection; the cleanup's `Close` needs `mu`, and so does
`receiveLoop` when `MachineSwitched` makes it call `Ungrab`. The capture loops end only
with the next event of their device after `Close`. A channel gets a
signal only if it is registered; old channels stay registered.

**RemoteInput** takes an event from the callback over the wire to the virtual
device. One axis of the pointer stands for both. Positions count in 1/`Unit`
pixels so that the sensitivity is exact; the rounding of floating point numbers
below that is left out. The wheel counts modulo `ScrollMod`. `LinuxToVK` is any
inverse of `VKToLinux` that Go's random map order can build. The table also maps virtual
keys to mouse buttons (`keymap.go:11-15`), which the virtual keyboard does not have
(`KeyBits`); codes of buttons do not reach `OnKeyEvent`. What the virtual keyboard and the
virtual mouse hold down is `down` and `clicked`. Whether the mouse has absolute axes is
decided at the start, as by `setupAbsoluteAxes`; the desktop's pointer starts in one of
`StartPointers`, in the run in the middle. A session is about one of the `Mixes` of
inputs, which keeps unrelated inputs from multiplying. It ends when the devices are
closed.

**ClipboardCodec** is the text encoding on code points: `TXT`, the text, a separator,
one 16-bit unit per UTF-8 byte of which only a character's first is not zero, and
back. Compression is the identity once undone and not modelled; the separator is
two characters instead of 38. **Clipboard** has two machines that both run this
program, a user on each who copies, and between them `Watch`, `GetText` with its
failures, the chunks, the codec and `SetText`. Chunks that are not those of one text,
and texts the codec changes, make `Garbage`.

**Config** and **Discovery** are operators. A configuration file is good, absent,
not JSON, or of a wrong type somewhere: the decoder then reports an error after it
has stored the rest. `BinaryKnown` says whether `os.Executable` works, which decides
where files are looked for and saved. A device is its capability bits. **Startup** runs them: the
process is started, asks, saves (the file is empty between the two steps of
`os.WriteFile`), applies flags, validates, connects, creates its virtual devices and
opens real ones, and may be killed anywhere; between starts the user edits files.

**Tui** is the debug screen: `Run`, `receiveLoop` and `heartbeatLoop` with the mutex
that the heartbeat holds while it sends. `typed` holds the bytes that wait in the
terminal: `Read` takes up to three and looks at the first, or at all three when they
are an arrow. A shown text is its bytes, each as a character and a place in it, since
`text[:40]` counts bytes. `IsRemote` is never set there, so the branches under it are
left out. `MinFrame` is 18 by 8 in the code and smaller in
the instance, which keeps the cursor's positions few.

`MC*` modules give the constants their values. `*Proofs` modules hold theorems.

## 3. Runs

| Run | Instance | Checks |
|---|---|---|
| EvdevMice | 2 mice, 1 keyboard that also reports mouse buttons, grabs that may fail, a stalling peer, jiggler, a session that may end | `TypeOK`, `LocalModeIsReleased`, `OtherMiceStayFree`, `CandidateIsUndecided`, and that the capture implements `InputFocus` |
| EvdevKeyboards | 2 keyboards, fairness, a peer that switches back | `GrabExcludesOthers`, `PressedKeysAreHeld`, `ForwardedKeysAreSuppressed`, `EmergencyWorks` |
| Listener | both roles, both key cases, the ten packets of the code, a dialer whose acknowledgements have `Src` 0, deadlines, 2 dials, 2 strangers, 1 session packet each way, fairness | `NoSessionPacketSwallowed`, `FinishedSideOwesNothing`, `TrustIsMutual`, `AckNamesThePeer`, `AcceptedGetsConnected`, `OnlySilenceBlocks` |
| Wire | 2 goroutines with bursts of different lengths and contents, 5 packets of both sizes, buffers of 3 half packets, a peer that may stop reading, a connection that may break anywhere, fairness | `TypeOK`, `WireIDsConsecutive`, `BurstsKeepOrder`, `PayloadIntact`, `StreamStaysAligned`, `SendReturns` |
| Session | 2 sessions, 1 interrupt, fairness | `OneReceiver`, `ReceiverGoesFirst`, `LostSessionEnds`, `Reconnects` |
| RemoteInput | 5 key codes (shared, aliased, unmapped), a table with mouse buttons in it, buttons, wheel, 1366 to 2560 pixels at gain 1.5, absolute and relative axes, a wire of 2 | `TypeOK`, `NothingSticks` (keys, buttons and the record of them), `PointerAccurate`, `ErrorNeverGrows`, `ScrollAgrees` |
| Clipboard | 4 contents (one packet; two packets with characters of two and three bytes; spaces; a text that looks like the end mark), 2 copies, failing wl-paste and wl-copy on one machine, fairness | `WholeTexts`, `ChangeIsNoticed` |
| Startup | 2 starts, 2 edits, files of every kind, flags, answers the wizard takes and refuses; a mouse, a touchpad, a device that is mouse and keyboard, and the own devices | `WizardSuffices`, `SavedIsReloaded`, `GoodFileSurvives` |
| Tui | a frame of 2 by 1, a position past both ends of the range, texts of two chunks that are shown whole and cut inside a character (`MaxShown` = 2), the keys q, x and left with up to 4 bytes waiting, a peer that stalls, resets and closes, fairness | `TypeOK` (with the cursor in the frame), `QuitWorks`, `CloseIsShown`, `ShowsTheText` |
| EvdevEmergencyStalled | 2 keyboards, a peer that may stop reading, fairness | refutes `EmergencyIsObeyed` |
| SessionCtrlC | as Session | refutes `CtrlCQuits` |
| PeerKeys | 1 keyboard with Win, F1 and PAUSE, a peer that reads | refutes `NoKeyStuck` |

Why the bounds are enough. Two mice give every rebind there is: the code compares
a mouse with the active one and with one candidate. `Magnitudes` {1, 3} around the
threshold 4 give one, two and three packets to a selection, and a sum that meets
it exactly. Two keyboards are two copies of the same loop on shared state; a third
adds no new pair of steps. F1 and F2 both lead to the same test, as do the two Win
keys, so one of each is kept. Two sessions are an old one ending beside a new one;
an older one has no further relation to `main`. A wire of two packets lets a press
and its release, or a repetition and a release, be under way together; they are
handled one at a time. Two copies make transfers cross and follow each other.
`Burst` is the code's ten. Two dials are a connection after a failed or finished
one; two strangers put one before and one behind the dialer, or both before it.
Two starts are a process that saves and the next one that loads; two edits put a
file that shadows another in place of it. `Room` 3 is a long packet and half of the
next one, so both sizes find the buffers full. `MaxTyped` 4 is one `Read` and the byte
after it: an arrow and a q, or a q that shares a `Read` with the bytes before it.

Deadlock is checked except in Listener, where a listener nobody calls waits, and in
Startup, where a process that waits at the bound on starts, or with a mode nobody
knows, has nothing to do. Where the others may rest (`Ended`, `Exited`, `Over`,
`Exhausted`) an action says when.

Fairness. A goroutine that can run does, which is Go's scheduler: weak fairness
per goroutine. A goroutine that waits for a mutex others keep taking gets it
(strong fairness): `sync.Mutex` hands over to a waiter of more than 1 ms. In the
capture, a write that is blocked again and again and can finish again and again does
finish. In `Wire` nothing makes the peer read; in `Tui` its reading may stop for good; in
`Session` a `Grab` returns unless its write may block, the capture loops need never
end, since that takes an event of the user, and `ConnectSucceeds` is strongly fair: a
peer that is dialled for ever is there some day. In `Listener` the ten-second deadline ends the handshake of a
stranger that has sent its primer; a silent one is under no deadline and need never
leave. In `Clipboard` the ticker of `Watch` fires and `wl-paste` does not fail for
ever. Nothing else of the peer, the user or the network is fair: nobody has to
press a key, dial, go away, answer, stall or read again.

### What the violation runs show

- *EvdevEmergencyStalled.* `Grab` sends key-ups with `mu` held. In the trace the peer
  has stopped reading; the loop of k2 reads PAUSE; before it calls `OnEmergency` the
  loop of k1 enters `Grab` by Win+F1 and blocks in its first write. `OnEmergency`'s
  `Close` waits for `mu`, and the program does not end while the peer does not read.
  `evdev.go:995` says PAUSE works "in both local and remote mode ... even when devices
  are grabbed". A PAUSE pressed later gets no further: on k1 it is not read, since the
  loop is in the write, and on a third keyboard recording it would need `mu`. With one
  keyboard only the unread PAUSE is left, which `EmergencyWorks` shows with that peer.
- *SessionCtrlC.* `sigCh` is made for each session and registered after
  `runSession`; the old ones stay registered. An interrupt after a lost session
  and before the next `Notify` goes to a channel nobody reads, and does not kill the
  process either. `main.go:145` says "Ctrl+C - Quit."
- *PeerKeys.* In remote mode Win is forwarded as pressed. Win+F1 calls `Ungrab`,
  which sends no key-ups (`Grab` does, for the way there), and the release of Win is
  then read in local mode and not forwarded: Win stays down on the other machine.
  `evdev.go:937` and `uinput.go:246` both mean "to prevent stuck keys".

### Known deviations

Met while modelling and seen in TLC traces or in the code, and stated in the
modules where a formula is named, but not among the runs above.

Capture:

- `NoActiveKeyboardInLocalMode`, `OnlyActiveKeyboardForwards` (EvdevKeyboards):
  `activeKbdDev` is claimed (`evdev.go:1049`) from copies taken in an earlier section.
  After an `Ungrab` in between local mode keeps an active keyboard, and the next
  remote session ignores the others; two loops that both saw nil both forward.
- `JigglerOnlyInLocalMode` (EvdevMice): the mode is checked before the tap, not
  with it.
- `CloseRevertsFocus` (EvdevKeyboards with `SessionMayEnd = TRUE`): a shortcut between `Close`'s
  `Ungrab` and the closing of the files grabs again, and the readers, blocked in
  the kernel, keep those files until their next event.
- with `Mice = {m1}` and `Combo <- ComboK1` in EvdevKeyboards (a receiver whose mouse and keyboard are one path)
  `EmergencyWorks`, `ForwardedKeysAreSuppressed` and `PressedKeysAreHeld` fail: the
  mouse handle's grab silences the keyboard handle, which `Grab` skips.
- the capture loops are still blocked in the kernel when a session is over, until an
  event of their device comes: the exception in `LostSessionEnds`.
- the virtual devices exist when the capture looks for devices (`main.go:120`) and
  nothing excludes them: in Startup a session gets ready with them alone.

Connection:

- `client.go:172` takes `RemoteMachineID` from the acknowledgement, which has `Src` 0
  when it comes from Windows (`current_mwb_analysis.md:109`): the ID that the
  Handshake has brought is lost again, and with a Windows peer `Des` is 0 for the whole
  session. `AckNamesThePeer` says which ID is stored. `e2e/handshake_test.go:23` ("Both
  sides must have captured the remote machine ID") tests two peers of this program.
- a write has no deadline (`client.go:238-247`), so a peer that stops reading while the
  connection stands blocks whoever writes, and every other caller of `Send` behind
  `s.mu`: the exception in `SendReturns`.
- `receiveLoop` may wait in `Ungrab` for a keyboard loop whose `Grab` writes to a peer that
  no longer reads. If that peer then closes its side only, the receiver never gets to
  see it and the session stays: the exception `BehindGrab` in `LostSessionEnds`.
- a caller that connects and sends nothing blocks `Accept` for ever, and with it
  server mode (`server.go:64`): the exception in `OnlySilenceBlocks`.
- `SilentPeerIsDropped` (Session): nothing looks at received heartbeats and no read
  has a deadline.

Injection and clipboard:

- a side button's number travels in `WheelDelta`, and `InjectMouse` scrolls for every
  non-zero `wheelDelta` (`uinput.go:283`): the exception in `ScrollAgrees`.
- `CursorSynced` (RemoteInput, relative axes): `MachineSwitched` moves the pointer by
  the difference to the last injected position and not to the centre.
- `ClipboardsAgree` (Clipboard): `Watch` reads the clipboard before it takes `mu`, and
  `SetText` sets it before it records it. Polls that overlap a `SetText` send old texts
  back; after one copy the two machines may rest with different texts.
- the codec cuts a character beyond U+FFFF to 16 bits, and a text that contains the
  separator at the separator.

Start and TUI:

- the wizard runs, and overwrites `config.json` beside the binary, when `--config`
  names a file that is missing or does not parse, although it says "No config.json
  found" (`config.go:186`): the exception in `GoodFileSurvives`. With such a
  `--config` it runs at every start, and before `--version` and `--list-devices`.
- values of a file that was passed over stay: a sensitivity of 0 in a file with a
  type error elsewhere is saved by the wizard and every later start is refused.
  That is the exception in `WizardSuffices`.
- `Validate` takes any mode in a file; `connectClient` then fails for ever, every
  few seconds.
- in the TUI `q` waits for as long as a peer that stops reading keeps the heartbeat's
  write blocked (`tui.go:413`): the exception in `QuitWorks`. A q that is read together
  with another byte before it is dropped (`tui.go:109-118`), which is why `QuitWorks`
  speaks of a q that begins a group of three bytes. `IsRemote` is never set,
  so the F1/F2 of the status line (`tui.go:86`), space, x and c do nothing.
- `text[:40]` may cut a character of several bytes (`tui.go:394`); the model shows its
  first bytes, as `ShowsTheText` says, and `%q` prints them as escapes.

## 4. Proofs

`EvdevCaptureProofs`, from the assumptions of `EvdevCapture` on its constants (the
sets of devices are disjoint, the tables are functions on them, `MinMotion` is
positive), for any number of mice, keyboards and keys:

- `ModeInvariant`: the inductive invariant `ModeInv` is `TypeOK`,
  `LocalModeIsReleased`, `OtherMiceStayFree`, `CandidateIsUndecided` and
  `GrabExcludesOthers` together. None but the first is inductive alone: that local
  mode holds nothing needs that nobody runs under `mu` while a goroutine is inside
  `Grab`; that a selection leaves one mouse grabbed needs that the candidate is not
  the active mouse; that a rebind never happens in local mode needs that no
  candidate is remembered there. There is one lemma for each group of actions
  (`MouseSteps`, `KeyboardSteps`, `SessionSteps`, `EnvironmentSteps`), resting on
  lemmas about the operators of mouse selection (`RegisteredCandidate`,
  `SelectionIsSound`, `DecisionIsSound`).
- `TypeCorrect`, `LocalModeReleased`, `OtherMiceFree`, `CandidateUndecided` and
  `GrabExclusive` are its conjuncts.
- `CaptureImplementsFocus`: every step of the capture is a step of `InputFocus` or
  leaves it alone (`FocusStep`, which needs `ModeInv`).
- `PressedKeysTruthful`: if no device is a combined one (`NoComboDevices`), a key in
  `pressedKeys` is held or its release waits to be read. The strengthening
  `WaitingEventsAreTrue` says that an unread event tells the present state of its
  key. The assumption is needed: see the deviations above.

- `ForwardedAreSuppressed`: under the same assumption, and until the capture is
  closed, the keyboard whose keys are forwarded is grabbed unless the kernel refused.
  `RemoteGrabsKeyboards` says it of every keyboard: one becomes the active one
  without a look at its grab. After `Close` the statement is false, since a loop may
  be past its test of the mode when the grabs go.

`WireProofs`, for any goroutines, burst lengths, contents and number of packets:

- `SenderTypeCorrect` and `WireNumbering` (SessionSender): the i-th packet on the wire
  has the number i. The invariant `SenderInv` adds that the goroutine about to write
  holds the lock (`LockIsHeld`) and that a number taken and not yet written is the
  next one (`NumbersAreWritten`); without them two writers could exchange numbers.
- `BurstOrder`: `BurstsKeepOrder` becomes inductive (`BurstInv`) with `BurstsGoOn`, that a
  goroutine stands at the successor of the packet it wrote last.
- `WireImplementsSender`: every step of Wire is one of SessionSender or leaves its
  variables alone; `WireKeepsOrder` carries the two properties over.
- `Aligned` (`StreamStaysAligned`) and `PayloadArrives` (`PayloadIntact`). Neither says where
  in the stream a packet begins, and packets have one half or two, so `WireInv` says
  that a function `f` of packet starts exists (`InStep`): the halves of the i-th packet
  have the numbers after `f[i]`, the stream holds consecutive halves up to the break,
  and the reader stands at a start, or one half past the start of a long packet. From
  it each half decrypts with the block before it, and lemmas on `Marshal` and
  `Unmarshal` give the fields back. `ContentAssumption` in Wire says what makes a packet
  sendable (`Sendable`): the code's layout, a chunk of at most 48 bytes, a name
  that does not end in padding, which `Unmarshal` trims.

`ListenerProofs`, over `ListenerSpec`, for any burst length, deadline, number of dials,
strangers and session packets: `NothingSwallowed`, `OwesNothing`, `MutualTrust`,
`AckHasLastWord`. The four properties speak of finished sides, and what a side may
finish on was sent much earlier, so `HandshakeInv` describes each channel whole
(`PrimerFirst`, `Link`): first the primer, then handshakes and acknowledgements, session packets
behind them; what was sent is read or still in the channel; what was read is true
(`Truth`). They hold whichever sides acknowledge with `Src` 0; `AckHasLastWord` follows
from the part of `Truth` that ties `RemoteMachineID` to the acknowledgement read.

`SessionProofs`, for any number of sessions and interrupts: `OneReceiverAlways` and
`ReceiverGoesFirstAlways`. `SessionInv` adds that a session `main` has left is lost
(`LeftIsLost`), that a lost one's receiver has returned (`LostHasReturned`), and that
cancellation and cleanup come after one or the other (`CancelledIsOver`, `TidyWasTold`).

`RemoteInputProofs`, for any key table, buttons, screen up to 65536 pixels and length
of the wire (`RemoteAssumption`: the table's codes are keys the virtual keyboard has or
mouse buttons, the user's keys are not buttons; steps, notches and gain are whole
numbers of `Unit`; the tables of `keymap.go` satisfy it): `RemoteTypeCorrect`, `NothingEverSticks`,
`WheelFollows`, `PointerFollows`, `ErrorNeverGrowing`. The properties speak of a wire that
is empty. `RemoteInv` holds at every moment: replaying the packets under way on the
virtual devices (`Replay`, a function from positions of the wire to states) ends in
what the user holds (`Meant`). `PointerFollows` is the double rounding of
`pixelToAbsolute` and `InjectMouse`, proved for every source width and gain with integer
inequalities (`RoundedTwice`). It assumes a target of at most 43690 pixels, above which
the error may be two pixels; a pointer that starts in the middle, as the cursor does;
and no `MachineSwitched` in a session with moves, since it moves the pointer
and not the sender's cursor. The instance of the run satisfies all three.

`StartupProofs`, for any files, flags, answers and devices, and any number of starts,
edits and kills (`StartupAssumption`: the wizard asks for key, ID, address and mode):
`WizardIsEnough`, `SavedComesBack`, `GoodFileStays`. `StartupInv` ties the
disk to the phases: what is saved is on disk as written (`SavedIsOnDisk`), the wizard
runs only without a good file in reach (`WizardHasReason`), the configuration in memory
is the saved one between loading and flags (`ReadsSaved`), answers stay until flags
(`AnswersStay`). `FirstGoodFile` unrolls the recursive function of the file search, whether
or not `os.Executable` fails.

`ClipboardProofs`:

- `TextIsCut` and `TextRoundTrip`: for a text of any length of characters that fit one
  unit (`Portable`: no NUL, no surrogate, below U+10000) the codec returns it up to its
  first separator. These are inductions over the length. The library's induction
  theorems cannot be instantiated here; `SetInduction` derives induction for a *set* of
  numbers from `WFMin` and `NatLessThanWellFounded`, and the statement to be proved is put
  into the set. `FlattenOneMore` and `FlattenTyped` are about `FlattenSeq`.
- `WholeTextsArrive`, for any texts, chunk counts, copies and failures, under `TextsArrive`:
  the texts are portable, differ, and have a separator at their start or not before
  their end. `StreamInv` says of each direction that the buffer, then the packets
  under way, are chunks in order, one text after the other, up to where the other
  side's `Watch` is.

`TuiProofs`, for any terminal sizes, keys, positions, `ChunkLen` and `MaxShown`: `CursorStaysInFrame` and
`TextIsShown`. `ScreenInv` adds that the buffer, the chunk in hand and what the
peer has left make up the encoding of one text (`TransferInOrder`). The hypotheses
`Encodable` and `TextsSurvive` are what `FormatTyped` and `TextRoundTrip` give for portable
texts; they are stated as hypotheses so that the proof does not depend on the codec.

The inductive invariants were checked with TLC on the instances of section 3 before
they were proved.

Only model-checked: liveness under fairness, which the prover does not reach
(`EmergencyWorks`, `AcceptedGetsConnected`, `OnlySilenceBlocks`, `SendReturns`,
`LostSessionEnds`, `Reconnects`, `ChangeIsNoticed`, `QuitWorks`, `CloseIsShown`). The
violation runs are counterexamples and need no proof.

## 5. Not modelled

AES and the key derivation (library; a key matches or does not), the capability and
uinput ioctls one by one, the byte fields inside a packet's words, compression, how
the Wayland socket is found, the configuration fields no decision looks at, all
drawing and logging, the branches of the TUI under `IsRemote`, demo mode (a fixed
series of moves), the Windows stubs, and `cursorX`/`cursorY` of the capture, which
nothing reads.

## 6. Plan

Done: all components but demo mode and the stubs; a theorem for every safety property
of the passing runs. Next, in order:

1. an abstract channel (packets arrive in order, once, or not at all) that Wire
   implements, and the same for the two directions of Clipboard;
2. what the codec makes of characters that are not portable;
3. a bound on the pointer's error for targets wider than 43690 pixels.
