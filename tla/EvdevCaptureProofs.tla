------------------------ MODULE EvdevCaptureProofs ------------------------
(***************************************************************************)
(* Proofs about EvdevCapture, for any number of mice and keyboards, any    *)
(* wiring of combined devices and any failures of the grab ioctl.          *)
(***************************************************************************)
EXTENDS EvdevCapture, TLAPS

ModeInv ==
    /\ TypeOK
    /\ LocalModeIsReleased
    /\ OtherMiceStayFree
    /\ CandidateIsUndecided
    /\ GrabExcludesOthers

PendingRecords == [mouse : Mice \cup {nil}, hits : Nat, motion : Nat, window : Windows]

\* The part of ModeInv about the mouse that drives the remote cursor.
MouseInv ==
    /\ activeMouse \in Mice \cup {nil}
    /\ grabbed \subseteq Handles
    /\ pending \in PendingRecords
    /\ OtherMiceStayFree
    /\ CandidateIsUndecided

-----------------------------------------------------------------------------
(* Lemmas about the operators.                                             *)

\* EVIOCGRAB marks only handles it was asked for (Grab, grabMouseLocked).
LEMMA GrabOutcomesAreSubsets ==
    ASSUME NEW S, NEW ok \in GrabOutcomes(S)
    PROVE  ok \subseteq S
  BY DEF GrabOutcomes

\* A candidate registerPendingMouse returns is well formed, and has at least
\* as much motion as hits because a REL event that counts is not zero.
LEMMA RegisteredCandidate ==
    ASSUME MouseInv, NEW m \in Mice, NEW mag \in Magnitudes
    PROVE  LET p == registerPendingMouse(m, mag)
           IN  /\ p \in PendingRecords
               /\ p.mouse = m /\ p.hits >= 1 /\ p.hits <= p.motion
  <1> mag \in Nat /\ mag >= 1
    BY MotionAssumption
  <1>1. CASE pending.mouse # m \/ pending.window = "closed"
    BY <1>1 DEF registerPendingMouse, Windows, PendingRecords
  <1>2. CASE ~(pending.mouse # m \/ pending.window = "closed")
    BY <1>2 DEF registerPendingMouse, Windows, PendingRecords, MouseInv, CandidateIsUndecided
  <1> QED BY <1>1, <1>2

\* No mouse, no candidate: what resetPendingMouse leaves is undecided.
LEMMA ResetIsUndecided ==
    /\ NoPending \in PendingRecords
    /\ NoPending.mouse = nil /\ NoPending.hits <= NoPending.motion
    /\ ~IntentReached(NoPending)
  BY MotionAssumption DEF NoPending, Windows, IntentReached, PendingRecords

\* grabMouseLocked, after a release of the old mouse if there was one, leaves
\* at most the new active mouse grabbed.
LEMMA SelectionIsSound ==
    ASSUME MouseInv, NEW m \in Mice, SelectMouse(m), pending' = NoPending
    PROVE  MouseInv' /\ activeMouse' = m
  <1>1. PICK ok \in GrabOutcomes({m}) : grabbed' = ungrabMouse \cup ok
    BY DEF SelectMouse
  <1>2. ok \subseteq {m}
    BY <1>1, GrabOutcomesAreSubsets
  <1>3. activeMouse' = m
    BY DEF SelectMouse
  <1>4. grabbed' \subseteq Handles /\ OtherMiceStayFree'
    BY <1>1, <1>2, <1>3 DEF ungrabMouse, MouseInv, Handles, OtherMiceStayFree
  <1>5. CandidateIsUndecided' /\ pending' \in PendingRecords
    BY ResetIsUndecided DEF CandidateIsUndecided
  <1> QED BY <1>3, <1>4, <1>5 DEF MouseInv

\* decideMouseActivationLocked and the grab or rebind that follows it keep the
\* typing, the candidate's bounds and the rule that only the active mouse is
\* grabbed.
LEMMA DecisionIsSound ==
    ASSUME MouseInv, NEW m \in Mice, NEW e \in MouseEvents,
           decideMouseActivation(m, e)
    PROVE  MouseInv'
  <1> nil \notin Mice
    BY DeviceAssumption DEF Handles
  <1>1. CASE /\ ~MaySelect(m, e)
             /\ pending' = IF pending.window = "open" THEN pending ELSE resetPendingMouse
             /\ UNCHANGED <<activeMouse, grabbed>>
    <2>1. pending' = pending \/ pending' = NoPending
      BY <1>1 DEF resetPendingMouse
    <2> QED BY <1>1, <2>1, ResetIsUndecided
      DEF MouseInv, OtherMiceStayFree, CandidateIsUndecided
  <1>2. CASE e.kind = "press" /\ pending' = resetPendingMouse /\ SelectMouse(m)
    BY <1>2, SelectionIsSound DEF resetPendingMouse
  <1>3. CASE MaySelect(m, e) /\ e.kind = "move"
    <2> DEFINE p == registerPendingMouse(m, e.mag)
    <2>1. e.mag \in Magnitudes
      BY <1>3 DEF MouseEvents
    <2>2. p \in PendingRecords /\ p.mouse = m /\ p.hits >= 1 /\ p.hits <= p.motion
      BY <2>1, RegisteredCandidate
    <2>3. activeMouse # m
      BY <1>3 DEF MaySelect
    <2>4. CASE IntentReached(p) /\ pending' = resetPendingMouse /\ SelectMouse(m)
      BY <2>4, SelectionIsSound DEF resetPendingMouse
    <2>5. CASE ~IntentReached(p) /\ pending' = p /\ UNCHANGED <<activeMouse, grabbed>>
      <3> HIDE DEF p
      <3> QED BY <2>2, <2>3, <2>5 DEF MouseInv, OtherMiceStayFree, CandidateIsUndecided
    <2> QED BY <1>3, <2>4, <2>5 DEF decideMouseActivation
  <1> QED BY <1>1, <1>2, <1>3 DEF decideMouseActivation

\* Ungrab leaves nothing grabbed and no mouse active.
LEMMA UngrabReleases ==
    ASSUME Ungrab
    PROVE  MouseInv' /\ LocalModeIsReleased' /\ ~IsRemote' /\ activeKbd' = nil
  BY ResetIsUndecided
  DEF Ungrab, resetPendingMouse, MouseInv, OtherMiceStayFree, CandidateIsUndecided,
      LocalModeIsReleased

\* A goroutine's next position is a position, and only its own changes.
LEMMA GotoMoves ==
    ASSUME TypeOK, NEW h \in Handles, NEW l \in MousePcs \cup KbdPcs, Goto(h, l)
    PROVE  /\ pc' \in [Handles -> MousePcs \cup KbdPcs]
           /\ pc'[h] = l
           /\ \A x \in Handles \ {h} : pc'[x] = pc[x]
  BY DEF Goto, TypeOK

\* The labels the loops compute are positions outside Grab.
LEMMA RoutesAreLabels ==
    ASSUME NEW k \in Kbds, NEW kbd, NEW b \in BOOLEAN
    PROVE  /\ ToRead \in {"read", "done"}
           /\ RemoteRoute(k, kbd, b) \in {"claim", "send", "read", "done"}
  BY DEF ToRead, RemoteRoute

-----------------------------------------------------------------------------
(* The invariant is inductive: one step per action.                        *)

\* A step that a goroutine takes outside Grab, while nobody is inside it,
\* keeps GrabExcludesOthers.
LEMMA OutsideGrab ==
    ASSUME TypeOK, GrabExcludesOthers, NEW h \in Handles,
           NEW l \in (MousePcs \cup KbdPcs) \ {"flush"}, Goto(h, l),
           h \in Kbds => pc[h] # "flush",
           mu' = mu, IsRemote' = IsRemote \/ mu = nil
    PROVE  GrabExcludesOthers'
  <1>1. \A k \in Kbds : pc'[k] = "flush" <=> pc[k] = "flush"
    BY GotoMoves DEF Handles
  <1> QED BY <1>1 DEF GrabExcludesOthers

\* Mouse loops.
LEMMA MouseSteps ==
    ASSUME ModeInv, NEW m \in Mice, MouseStep(m)
    PROVE  ModeInv'
  <1> USE DEF ModeInv
  <1> m \in Handles /\ m \notin Kbds
    BY DeviceAssumption DEF Handles
  <1>0. MouseInv
    BY DEF MouseInv, TypeOK, PendingRecords
  <1> ToRead \in {"read", "done"}
    BY DEF ToRead
  <1>1. CASE MouseForward(m)
    <2>1. Goto(m, ToRead) /\ UNCHANGED <<mu, modeVars, pressedKeys, seen, userVars, worldVars>>
      BY <1>1 DEF MouseForward
    <2>2. GrabExcludesOthers'
      BY <2>1, OutsideGrab DEF MousePcs, KbdPcs, modeVars
    <2>3. TypeOK'
      BY <2>1, GotoMoves DEF TypeOK, MousePcs, KbdPcs, modeVars, userVars, worldVars
    <2> QED BY <2>1, <2>2, <2>3
      DEF modeVars, LocalModeIsReleased, OtherMiceStayFree, CandidateIsUndecided
  <1>2. CASE \E e \in MouseEvents : MouseEvent(m, e)
    <2>1. PICK e \in MouseEvents : MouseEvent(m, e)
      BY <1>2
    <2>2. PICK l \in {"read", "done", "forward"} : Goto(m, l)
      BY <2>1 DEF MouseEvent
    <2>3. UNCHANGED <<mu, IsRemote, activeKbd, pressedKeys, seen, userVars, worldVars>>
      BY <2>1 DEF MouseEvent
    <2>4. GrabExcludesOthers'
      BY <2>2, <2>3, OutsideGrab DEF MousePcs, KbdPcs
    <2>5. MouseInv' /\ LocalModeIsReleased'
      <3>1. CASE IsRemote
        BY <1>0, <2>1, <2>3, <3>1, DecisionIsSound DEF MouseEvent, LocalModeIsReleased
      <3>2. CASE ~IsRemote
        <4>1. UNCHANGED <<activeMouse, grabbed, pending, IsRemote>>
          BY <2>1, <2>3, <3>2 DEF MouseEvent
        <4> QED BY <1>0, <4>1
          DEF MouseInv, OtherMiceStayFree, CandidateIsUndecided, LocalModeIsReleased
      <3> QED BY <3>1, <3>2
    <2>6. TypeOK'
      BY <2>2, <2>3, <2>5, GotoMoves
      DEF TypeOK, MousePcs, KbdPcs, userVars, worldVars, MouseInv, PendingRecords
    <2> QED BY <2>4, <2>5, <2>6 DEF MouseInv
  <1> QED BY <1>1, <1>2 DEF MouseStep

\* A keyboard step that leaves the mode alone and neither enters nor leaves
\* Grab keeps the invariant once its own variables are typed.
LEMMA QuietKeyboardStep ==
    ASSUME ModeInv, NEW k \in Kbds,
           NEW l \in (MousePcs \cup KbdPcs) \ {"flush"}, Goto(k, l),
           pc[k] # "flush",
           UNCHANGED <<mu, modeVars, worldVars>>,
           pressedKeys' \subseteq Keys,
           seen' \in [Kbds -> [remote : BOOLEAN, kbd : Kbds \cup {nil}]],
           inbox' \in [Kbds -> KeyEvents \cup {nil}],
           held' = held
    PROVE  ModeInv'
  <1> USE DEF ModeInv
  <1> k \in Handles
    BY DEF Handles
  <1>1. GrabExcludesOthers'
    BY OutsideGrab DEF modeVars
  <1>2. TypeOK'
    BY GotoMoves DEF TypeOK, modeVars, worldVars
  <1> QED BY <1>1, <1>2
    DEF modeVars, LocalModeIsReleased, OtherMiceStayFree, CandidateIsUndecided

\* Keyboard loops.
LEMMA KeyboardSteps ==
    ASSUME ModeInv, NEW k \in Kbds, KbdStep(k)
    PROVE  ModeInv'
  <1> USE DEF ModeInv
  <1> k \in Handles
    BY DEF Handles
  <1>0. MouseInv
    BY DEF MouseInv, TypeOK, PendingRecords
  <1>r. ToRead \in {"read", "done"}
    BY DEF ToRead
  <1>1. CASE TrackKey(k)
    <2> DEFINE e == inbox[k]
    <2>1. e \in KeyEvents /\ e.code \in Keys
      BY <1>1 DEF TrackKey, TypeOK
    <2>2. AfterTracking(k, e) \in (MousePcs \cup KbdPcs) \ {"flush"}
      <3>1. e.pressed \in BOOLEAN
        BY <2>1 DEF KeyEvents
      <3> QED BY <1>r, <3>1, RoutesAreLabels DEF AfterTracking, MousePcs, KbdPcs
    <2>3. pressedKeys' \subseteq Keys
      BY <1>1, <2>1 DEF TrackKey, Tracked, TypeOK
    <2>4. seen' \in [Kbds -> [remote : BOOLEAN, kbd : Kbds \cup {nil}]]
      BY <1>1 DEF TrackKey, TypeOK
    <2>5. inbox' \in [Kbds -> KeyEvents \cup {nil}]
      BY <1>1 DEF TrackKey, TypeOK
    <2>6. /\ Goto(k, AfterTracking(k, e)) /\ pc[k] # "flush"
          /\ UNCHANGED <<mu, modeVars, held, worldVars>>
      BY <1>1 DEF TrackKey
    <2> QED BY <2>2, <2>3, <2>4, <2>5, <2>6, QuietKeyboardStep
  <1>2. CASE ButtonOnKeyboard(k)
    <2> DEFINE m == mouseSourceForKeyboardButton(k)
               e == [kind |-> IF inbox[k].pressed THEN "press" ELSE "other", mag |-> 0]
    <2>1. e \in MouseEvents
      BY DEF MouseEvents
    <2>2. m \in Mice \cup {nil}
      BY DeviceAssumption DEF mouseSourceForKeyboardButton, TypeOK
    <2>3. /\ UNCHANGED <<mu, IsRemote, activeKbd, pressedKeys, seen, held, worldVars>>
          /\ inbox' = [inbox EXCEPT ![k] = nil]
          /\ pc[k] # "flush"
      BY <1>2 DEF ButtonOnKeyboard
    <2>4. PICK l \in {"read", "done", "sendButton"} : Goto(k, l)
      BY <1>2, <1>r DEF ButtonOnKeyboard
    <2>5. MouseInv' /\ LocalModeIsReleased'
      <3>1. CASE IsRemote /\ m # nil /\ decideMouseActivation(m, e)
        <4> HIDE DEF m, e
        <4> QED BY <1>0, <2>1, <2>2, <2>3, <3>1, DecisionIsSound DEF LocalModeIsReleased
      <3>2. CASE UNCHANGED <<activeMouse, grabbed, pending>>
        BY <1>0, <2>3, <3>2
        DEF MouseInv, OtherMiceStayFree, CandidateIsUndecided, LocalModeIsReleased
      <3> QED BY <1>2, <3>1, <3>2 DEF ButtonOnKeyboard
    <2>6. GrabExcludesOthers'
      BY <2>3, <2>4, OutsideGrab DEF MousePcs, KbdPcs
    <2>7. TypeOK'
      BY <2>3, <2>4, <2>5, GotoMoves
      DEF TypeOK, MousePcs, KbdPcs, worldVars, MouseInv, PendingRecords
    <2> QED BY <2>5, <2>6, <2>7 DEF MouseInv
  <1>3. CASE CheckChord(k)
    <2>1. PICK l \in {"ungrab", "grab", "claim", "send", "read", "done"} : Goto(k, l)
      BY <1>3, <1>r, RoutesAreLabels DEF CheckChord
    <2>2. seen' \in [Kbds -> [remote : BOOLEAN, kbd : Kbds \cup {nil}]]
      BY <1>3 DEF CheckChord, TypeOK, NoCopy
    <2>3. UNCHANGED <<mu, modeVars, pressedKeys, userVars, worldVars>> /\ pc[k] # "flush"
      BY <1>3 DEF CheckChord
    <2> QED BY <2>1, <2>2, <2>3, QuietKeyboardStep DEF userVars, TypeOK, MousePcs, KbdPcs
  <1>4. CASE GrabDevices(k)
    <2>1. PICK ok \in GrabOutcomes(KeyboardsToGrab) : grabbed' = grabbed \cup ok
      BY <1>4 DEF GrabDevices
    <2>2. ok \subseteq Kbds
      BY <2>1, GrabOutcomesAreSubsets DEF KeyboardsToGrab
    <2>3. /\ mu' = k /\ mu = nil /\ pending' = NoPending /\ IsRemote' = TRUE
          /\ Goto(k, "flush")
          /\ UNCHANGED <<activeMouse, activeKbd, pressedKeys, seen, userVars, worldVars>>
      BY <1>4 DEF GrabDevices, LockFree, resetPendingMouse
    <2>4. MouseInv'
      <3>1. grabbed' \subseteq Handles /\ OtherMiceStayFree'
        BY <1>0, <2>1, <2>2, <2>3, DeviceAssumption DEF MouseInv, OtherMiceStayFree, Handles
      <3>2. CandidateIsUndecided' /\ pending' \in PendingRecords
        BY <2>3, ResetIsUndecided DEF CandidateIsUndecided
      <3> QED BY <1>0, <2>3, <3>1, <3>2 DEF MouseInv
    <2>5. pc' \in [Handles -> MousePcs \cup KbdPcs]
      BY <2>3, GotoMoves DEF MousePcs, KbdPcs
    <2>6. GrabExcludesOthers'
      <3>1. pc'[k] = "flush" /\ \A x \in Kbds \ {k} : pc'[x] = pc[x]
        BY <2>3, GotoMoves DEF MousePcs, KbdPcs, Handles
      <3>2. \A x \in Kbds : pc[x] # "flush"
        BY <2>3, DeviceAssumption DEF GrabExcludesOthers, Handles
      <3> QED BY <2>3, <3>1, <3>2 DEF GrabExcludesOthers
    <2>7. TypeOK'
      BY <2>3, <2>4, <2>5 DEF TypeOK, userVars, worldVars, MouseInv, PendingRecords
    <2> QED BY <2>3, <2>4, <2>6, <2>7 DEF MouseInv, LocalModeIsReleased
  <1>5. CASE GrabFlushKey(k)
    <2>1. UNCHANGED <<mu, modeVars, loopVars, userVars, worldVars>> /\ pressedKeys' \subseteq pressedKeys
      BY <1>5 DEF GrabFlushKey
    <2> QED BY <2>1
      DEF TypeOK, modeVars, loopVars, userVars, worldVars, LocalModeIsReleased,
          OtherMiceStayFree, CandidateIsUndecided, GrabExcludesOthers
  <1>6. CASE GrabReturn(k)
    <2>1. /\ pc[k] = "flush" /\ mu' = nil /\ Goto(k, ToRead)
          /\ UNCHANGED <<modeVars, pressedKeys, seen, userVars, worldVars>>
      BY <1>6 DEF GrabReturn
    <2>2. /\ pc' \in [Handles -> MousePcs \cup KbdPcs]
          /\ pc'[k] = ToRead
          /\ \A x \in Handles \ {k} : pc'[x] = pc[x]
      BY <1>r, <2>1, GotoMoves DEF MousePcs, KbdPcs
    <2>3. \A x \in Kbds : pc'[x] # "flush"
      BY <1>r, <2>1, <2>2 DEF GrabExcludesOthers, Handles
    <2>4. GrabExcludesOthers'
      BY <2>1, <2>3, DeviceAssumption DEF GrabExcludesOthers, Handles
    <2>5. TypeOK'
      BY <2>1, <2>2 DEF TypeOK, modeVars, userVars, worldVars
    <2> QED BY <2>1, <2>4, <2>5
      DEF modeVars, LocalModeIsReleased, OtherMiceStayFree, CandidateIsUndecided
  <1>7. CASE UngrabByChord(k)
    <2>1. /\ mu = nil /\ mu' = mu /\ pc[k] # "flush" /\ Ungrab /\ Goto(k, ToRead)
          /\ UNCHANGED <<pressedKeys, seen, userVars, worldVars>>
      BY <1>7 DEF UngrabByChord, LockFree
    <2>2. MouseInv' /\ LocalModeIsReleased' /\ ~IsRemote' /\ activeKbd' = nil
      BY <2>1, UngrabReleases
    <2>3. GrabExcludesOthers'
      BY <1>r, <2>1, OutsideGrab DEF MousePcs, KbdPcs
    <2>4. IsRemote' \in BOOLEAN
      BY <2>1 DEF Ungrab
    <2>5. TypeOK'
      BY <1>r, <2>1, <2>2, <2>4, GotoMoves
      DEF TypeOK, MousePcs, KbdPcs, userVars, worldVars, MouseInv, PendingRecords
    <2> QED BY <2>2, <2>3, <2>5 DEF MouseInv
  <1>8. CASE ClaimKeyboard(k)
    <2>1. /\ activeKbd' = k /\ Goto(k, "send") /\ pc[k] # "flush"
          /\ UNCHANGED <<mu, IsRemote, activeMouse, grabbed, pending, pressedKeys, seen,
                         userVars, worldVars>>
      BY <1>8 DEF ClaimKeyboard
    <2>2. GrabExcludesOthers'
      BY <2>1, OutsideGrab DEF MousePcs, KbdPcs
    <2>3. TypeOK'
      BY <2>1, GotoMoves DEF TypeOK, MousePcs, KbdPcs, userVars, worldVars
    <2> QED BY <2>1, <2>2, <2>3
      DEF LocalModeIsReleased, OtherMiceStayFree, CandidateIsUndecided
  <1>9. CASE ForwardKey(k) \/ ForwardButton(k)
    <2>1. /\ Goto(k, ToRead) /\ pc[k] # "flush"
          /\ UNCHANGED <<mu, modeVars, pressedKeys, seen, userVars, worldVars>>
      BY <1>9 DEF ForwardKey, ForwardButton
    <2> QED BY <1>r, <2>1, QuietKeyboardStep DEF userVars, TypeOK, MousePcs, KbdPcs
  <1>10. CASE OnEmergency(k)
    <2>1. /\ mu = nil /\ mu' = mu /\ Ungrab /\ life' = "exited"
          /\ UNCHANGED <<pressedKeys, loopVars, userVars, jiggler, net>>
      BY <1>10 DEF OnEmergency, LockFree
    <2>2. MouseInv' /\ LocalModeIsReleased' /\ ~IsRemote' /\ activeKbd' = nil
      BY <2>1, UngrabReleases
    <2>3. GrabExcludesOthers'
      BY <2>1 DEF GrabExcludesOthers, loopVars
    <2>4. IsRemote' \in BOOLEAN
      BY <2>1 DEF Ungrab
    <2>5. TypeOK'
      BY <2>1, <2>2, <2>4 DEF TypeOK, loopVars, userVars, MouseInv, PendingRecords
    <2> QED BY <2>2, <2>3, <2>5 DEF MouseInv
  <1> QED BY <1>1, <1>2, <1>3, <1>4, <1>5, <1>6, <1>7, <1>8, <1>9, <1>10 DEF KbdStep

\* The session's other goroutines: MachineSwitched, Close, the jiggler.
LEMMA SessionSteps ==
    ASSUME ModeInv, SessionStep
    PROVE  ModeInv'
  <1> USE DEF ModeInv
  <1>1. CASE PeerSwitches \/ CloseUngrabs
    <2>1. /\ mu = nil /\ mu' = mu /\ Ungrab /\ life' \in {life, "closing"}
          /\ UNCHANGED <<pressedKeys, loopVars, userVars, jiggler, net>>
      BY <1>1 DEF PeerSwitches, CloseUngrabs, LockFree, worldVars
    <2>2. MouseInv' /\ LocalModeIsReleased' /\ ~IsRemote' /\ activeKbd' = nil
      BY <2>1, UngrabReleases
    <2>3. GrabExcludesOthers'
      BY <2>1 DEF GrabExcludesOthers, loopVars
    <2>4. IsRemote' \in BOOLEAN
      BY <2>1 DEF Ungrab
    <2>5. TypeOK'
      BY <2>1, <2>2, <2>4 DEF TypeOK, loopVars, userVars, MouseInv, PendingRecords
    <2> QED BY <2>2, <2>3, <2>5 DEF MouseInv
  <1>2. CASE CloseFiles \/ JigglerChecks \/ JigglerTaps
    <2>1. /\ UNCHANGED <<mu, modeVars, pressedKeys, loopVars, userVars, net>>
          /\ life' \in {life, "closed"} /\ jiggler' \in {"idle", "tap"}
      BY <1>2 DEF CloseFiles, JigglerChecks, JigglerTaps, TypeOK
    <2> QED BY <2>1
      DEF TypeOK, modeVars, loopVars, userVars, LocalModeIsReleased, OtherMiceStayFree,
          CandidateIsUndecided, GrabExcludesOthers
  <1> QED BY <1>1, <1>2 DEF SessionStep

\* The user, the clock and the peer.
LEMMA EnvironmentSteps ==
    ASSUME ModeInv, EnvStep
    PROVE  ModeInv'
  <1> USE DEF ModeInv
  <1>1. CASE WindowPasses
    <2>1. PICK w \in Windows : pending' = [pending EXCEPT !.window = w]
      BY <1>1 DEF WindowPasses, Windows
    <2>2. /\ pending.mouse # nil
          /\ UNCHANGED <<mu, IsRemote, activeMouse, activeKbd, grabbed, pressedKeys,
                         loopVars, userVars, worldVars>>
      BY <1>1 DEF WindowPasses
    <2>3. /\ pending' \in PendingRecords
          /\ pending'.mouse = pending.mouse /\ pending'.hits = pending.hits
          /\ pending'.motion = pending.motion
      BY <2>1 DEF TypeOK, PendingRecords
    <2>4. CandidateIsUndecided' /\ LocalModeIsReleased'
      BY <2>2, <2>3 DEF CandidateIsUndecided, LocalModeIsReleased, IntentReached, NoPending
    <2>5. TypeOK'
      BY <2>2, <2>3 DEF TypeOK, loopVars, userVars, worldVars, PendingRecords
    <2> QED BY <2>2, <2>4, <2>5 DEF OtherMiceStayFree, GrabExcludesOthers, loopVars
  <1>2. CASE PeerStalls
    BY <1>2
    DEF PeerStalls, TypeOK, modeVars, loopVars, userVars, LocalModeIsReleased,
        OtherMiceStayFree, CandidateIsUndecided, GrabExcludesOthers
  <1>3. ASSUME NEW k \in Kbds, NEW e \in KeyEvents, Arrives(k, e),
               held' \in [Kbds -> SUBSET Keys],
               UNCHANGED <<mu, modeVars, pressedKeys, loopVars, worldVars>>
        PROVE  ModeInv'
    <2>1. inbox' \in [Kbds -> KeyEvents \cup {nil}]
      BY <1>3 DEF Arrives, TypeOK
    <2>2. TypeOK'
      BY <1>3, <2>1 DEF TypeOK, modeVars, loopVars, worldVars
    <2> QED BY <1>3, <2>2
      DEF modeVars, loopVars, LocalModeIsReleased, OtherMiceStayFree,
          CandidateIsUndecided, GrabExcludesOthers
  <1>4. CASE \E k \in Kbds, c \in Keys : UserKey(k, c)
    <2>1. PICK k \in Kbds, c \in Keys : UserKey(k, c)
      BY <1>4
    <2>2. [code |-> c, pressed |-> c \notin held[k]] \in KeyEvents
      BY DEF KeyEvents
    <2>3. held' \in [Kbds -> SUBSET Keys]
      BY <2>1 DEF UserKey, TypeOK
    <2> QED BY <1>3, <2>1, <2>2, <2>3 DEF UserKey
  <1>5. CASE \E k \in Kbds, down \in BOOLEAN : UserButton(k, down)
    <2>1. PICK k \in Kbds, down \in BOOLEAN : UserButton(k, down)
      BY <1>5
    <2>2. [code |-> "BTN", pressed |-> down] \in KeyEvents
      BY DEF KeyEvents
    <2> QED BY <1>3, <2>1, <2>2 DEF UserButton, TypeOK
  <1> QED BY <1>1, <1>2, <1>4, <1>5 DEF EnvStep

\* ModeInv is inductive.
LEMMA ModeInductive ==
    ASSUME ModeInv, [Next]_vars
    PROVE  ModeInv'
  <1>1. CASE UNCHANGED vars
    BY <1>1
    DEF ModeInv, TypeOK, vars, modeVars, loopVars, userVars, worldVars,
        LocalModeIsReleased, OtherMiceStayFree, CandidateIsUndecided, GrabExcludesOthers
  <1>2. CASE Next
    BY <1>1, <1>2, MouseSteps, KeyboardSteps, SessionSteps, EnvironmentSteps
    DEF Next, Ended
  <1> QED BY <1>1, <1>2

\* The initial state of NewEvdevCapture satisfies ModeInv.
LEMMA ModeInitially == Init => ModeInv
  <1> SUFFICES ASSUME Init PROVE ModeInv
    OBVIOUS
  <1>1. TypeOK
    BY ResetIsUndecided
    DEF Init, TypeOK, PendingRecords, NoCopy, MousePcs, KbdPcs, Handles
  <1>2. GrabExcludesOthers
    BY DeviceAssumption DEF Init, GrabExcludesOthers, Handles
  <1> QED BY <1>1, <1>2, ResetIsUndecided
    DEF Init, ModeInv, LocalModeIsReleased, OtherMiceStayFree, CandidateIsUndecided

-----------------------------------------------------------------------------
(* The theorems.                                                           *)

\* In every reachable state of the capture, whatever the goroutines of
\* evdev.go interleave, the whole inductive invariant holds.
THEOREM ModeInvariant == Spec => []ModeInv
  BY ModeInitially, ModeInductive, PTL DEF Spec

\* The capture's state is always well typed.
THEOREM TypeCorrect == Spec => []TypeOK
  <1>1. ModeInv => TypeOK
    BY DEF ModeInv
  <1> QED BY <1>1, ModeInvariant, PTL

\* Ungrab always leaves the devices free: local mode captures nothing.
THEOREM LocalModeReleased == Spec => []LocalModeIsReleased
  <1>1. ModeInv => LocalModeIsReleased
    BY DEF ModeInv
  <1> QED BY <1>1, ModeInvariant, PTL

\* At most the active mouse is grabbed, so the other mice stay usable.
THEOREM OtherMiceFree == Spec => []OtherMiceStayFree
  <1>1. ModeInv => OtherMiceStayFree
    BY DEF ModeInv
  <1> QED BY <1>1, ModeInvariant, PTL

\* A candidate mouse is never the active one nor already due for selection.
THEOREM CandidateUndecided == Spec => []CandidateIsUndecided
  <1>1. ModeInv => CandidateIsUndecided
    BY DEF ModeInv
  <1> QED BY <1>1, ModeInvariant, PTL

\* While Grab sends its key-ups no other section under mu runs.
THEOREM GrabExclusive == Spec => []GrabExcludesOthers
  <1>1. ModeInv => GrabExcludesOthers
    BY DEF ModeInv
  <1> QED BY <1>1, ModeInvariant, PTL

-----------------------------------------------------------------------------
(* The capture implements InputFocus.                                      *)

\* Steps that touch neither the mode, nor the active mouse, nor the grabs.
FocusUnchanged == UNCHANGED <<IsRemote, activeMouse, grabbed>>

\* Selecting a mouse that is not active is the abstract Point.
LEMMA DecisionPoints ==
    ASSUME ModeInv, IsRemote, NEW m \in Mice, NEW e \in MouseEvents,
           decideMouseActivation(m, e), IsRemote' = IsRemote
    PROVE  Focus!Point(m) \/ FocusUnchanged
  <1> USE DEF ModeInv
  <1>1. CASE UNCHANGED <<activeMouse, grabbed>>
    BY <1>1 DEF FocusUnchanged
  <1>2. CASE SelectMouse(m) /\ MaySelect(m, e)
    <2>1. PICK ok \in GrabOutcomes({m}) : grabbed' = ungrabMouse \cup ok
      BY <1>2 DEF SelectMouse
    <2>2. ok = {} \/ ok = {m}
      BY <2>1, GrabOutcomesAreSubsets
    <2>3. grabbed \ {activeMouse} = grabbed \ Mice
      BY DeviceAssumption DEF OtherMiceStayFree, TypeOK, Handles
    <2>4. grabbed' \in {grabbed \ Mice, (grabbed \ Mice) \cup {m}}
      BY <2>1, <2>2, <2>3 DEF ungrabMouse
    <2> QED BY <1>2, <2>4 DEF Focus!Point, SelectMouse, MaySelect
  <1> QED BY <1>1, <1>2 DEF decideMouseActivation

\* Ungrab is the abstract Leave, or changes nothing in local mode.
LEMMA UngrabLeaves ==
    ASSUME ModeInv, Ungrab
    PROVE  Focus!Leave \/ FocusUnchanged
  BY DEF ModeInv, TypeOK, LocalModeIsReleased, Ungrab, Focus!Leave, FocusUnchanged

\* Every step of the capture is a step of InputFocus or leaves it alone.
LEMMA FocusStep ==
    ASSUME ModeInv, [Next]_vars
    PROVE  Focus!FocusNext \/ FocusUnchanged
  <1>1. ASSUME NEW m \in Mice, MouseStep(m)
        PROVE  Focus!FocusNext \/ FocusUnchanged
    <2>1. CASE MouseForward(m)
      BY <2>1 DEF MouseForward, FocusUnchanged, modeVars
    <2>2. CASE \E e \in MouseEvents : MouseEvent(m, e)
      <3>1. PICK e \in MouseEvents : MouseEvent(m, e)
        BY <2>2
      <3>2. IsRemote' = IsRemote
        BY <3>1 DEF MouseEvent
      <3>3. CASE IsRemote /\ decideMouseActivation(m, e)
        BY <3>2, <3>3, DecisionPoints DEF Focus!FocusNext
      <3>4. CASE UNCHANGED <<activeMouse, grabbed, pending>>
        BY <3>2, <3>4 DEF FocusUnchanged
      <3> QED BY <3>1, <3>3, <3>4 DEF MouseEvent
    <2> QED BY <1>1, <2>1, <2>2 DEF MouseStep
  <1>2. ASSUME NEW k \in Kbds, KbdStep(k)
        PROVE  Focus!FocusNext \/ FocusUnchanged
    <2>1. CASE TrackKey(k) \/ CheckChord(k) \/ GrabFlushKey(k) \/ GrabReturn(k)
               \/ ForwardKey(k) \/ ForwardButton(k) \/ ClaimKeyboard(k)
      BY <2>1
      DEF TrackKey, CheckChord, GrabFlushKey, GrabReturn, ForwardKey, ForwardButton,
          ClaimKeyboard, FocusUnchanged, modeVars
    <2>2. CASE ButtonOnKeyboard(k)
      <3> DEFINE m == mouseSourceForKeyboardButton(k)
                 e == [kind |-> IF inbox[k].pressed THEN "press" ELSE "other", mag |-> 0]
      <3>1. e \in MouseEvents
        BY DEF MouseEvents
      <3>2. m \in Mice \cup {nil}
        BY DeviceAssumption DEF mouseSourceForKeyboardButton, ModeInv, TypeOK
      <3>3. IsRemote' = IsRemote
        BY <2>2 DEF ButtonOnKeyboard
      <3>4. CASE IsRemote /\ m # nil /\ decideMouseActivation(m, e)
        <4> HIDE DEF m, e
        <4> QED BY <3>1, <3>2, <3>3, <3>4, DecisionPoints DEF Focus!FocusNext
      <3>5. CASE UNCHANGED <<activeMouse, grabbed, pending>>
        BY <3>3, <3>5 DEF FocusUnchanged
      <3> QED BY <2>2, <3>4, <3>5 DEF ButtonOnKeyboard
    <2>3. CASE GrabDevices(k)
      <3>1. PICK ok \in GrabOutcomes(KeyboardsToGrab) : grabbed' = grabbed \cup ok
        BY <2>3 DEF GrabDevices
      <3>2. ok \subseteq Kbds
        BY <3>1, GrabOutcomesAreSubsets DEF KeyboardsToGrab
      <3>3. IsRemote' = TRUE /\ activeMouse' = activeMouse
        BY <2>3 DEF GrabDevices
      <3>4. CASE IsRemote
        BY <3>1, <3>2, <3>3, <3>4 DEF Focus!FocusNext, Focus!Recapture
      <3>5. CASE ~IsRemote
        BY <3>1, <3>2, <3>3, <3>5
        DEF ModeInv, LocalModeIsReleased, Focus!FocusNext, Focus!Enter
      <3> QED BY <3>4, <3>5
    <2>4. CASE UngrabByChord(k) \/ OnEmergency(k)
      BY <2>4, UngrabLeaves DEF UngrabByChord, OnEmergency, Focus!FocusNext
    <2> QED BY <1>2, <2>1, <2>2, <2>3, <2>4 DEF KbdStep
  <1>3. CASE SessionStep
    <2>1. CASE PeerSwitches \/ CloseUngrabs
      BY <2>1, UngrabLeaves DEF PeerSwitches, CloseUngrabs, Focus!FocusNext
    <2>2. CASE CloseFiles \/ JigglerChecks \/ JigglerTaps
      BY <2>2 DEF CloseFiles, JigglerChecks, JigglerTaps, FocusUnchanged, modeVars
    <2> QED BY <1>3, <2>1, <2>2 DEF SessionStep
  <1>4. CASE EnvStep
    BY <1>4
    DEF EnvStep, WindowPasses, PeerStalls, UserKey, UserButton, FocusUnchanged, modeVars
  <1>5. CASE Ended \/ UNCHANGED vars
    BY <1>5 DEF Ended, vars, modeVars, FocusUnchanged
  <1> QED BY <1>1, <1>2, <1>3, <1>4, <1>5 DEF Next

\* The capture of evdev.go keeps the promise of InputFocus: for every number
\* of devices and every interleaving, the user drives one machine at a time
\* and coming back releases everything.
THEOREM CaptureImplementsFocus == Spec => ImplementsFocus
  <1>1. Init => Focus!FocusInit
    BY DEF Init, Focus!FocusInit
  <1>2. ModeInv /\ [Next]_vars => [Focus!FocusNext]_Focus!focusVars
    BY FocusStep DEF FocusUnchanged, Focus!focusVars
  <1> QED BY <1>1, <1>2, ModeInvariant, PTL DEF Spec, ImplementsFocus, Focus!FocusSpec

-----------------------------------------------------------------------------
(* The shortcut keys, when no keyboard shares its path with a mouse.       *)

NoComboDevices == \A k \in Kbds : Combo[k] = nil

\* A key event that waits to be read agrees with the key it is about.
WaitingEventsAreTrue ==
    \A k \in Kbds : inbox[k] # nil /\ inbox[k].code \in Keys =>
        (inbox[k].pressed <=> inbox[k].code \in held[k])

HeldInv == TypeOK /\ WaitingEventsAreTrue /\ PressedKeysAreHeld

\* Reading an event on k and recording it keeps pressedKeys truthful.
LEMMA TrackingIsTruthful ==
    ASSUME HeldInv, NEW k \in Kbds, TrackKey(k)
    PROVE  WaitingEventsAreTrue' /\ PressedKeysAreHeld'
  <1> USE DEF HeldInv
  <1> DEFINE e == inbox[k]
  <1>1. /\ e # nil /\ e.code \in Keys /\ pressedKeys' = Tracked(e)
        /\ inbox' = [inbox EXCEPT ![k] = nil] /\ held' = held
    BY DEF TrackKey
  <1>2. e \in KeyEvents
    BY <1>1 DEF TypeOK
  <1>3. WaitingEventsAreTrue'
    BY <1>1 DEF WaitingEventsAreTrue, TypeOK
  <1>4. ASSUME NEW c \in pressedKeys'
        PROVE  \E x \in Kbds : c \in held'[x] \/ inbox'[x] = [code |-> c, pressed |-> FALSE]
    <2>1. CASE e.pressed /\ c = e.code
      BY <1>1, <2>1 DEF WaitingEventsAreTrue
    <2>2. CASE ~(e.pressed /\ c = e.code)
      <3>1. c \in pressedKeys
        BY <1>1, <1>4, <2>2 DEF Tracked
      <3>2. PICK x \in Kbds : c \in held[x] \/ inbox[x] = [code |-> c, pressed |-> FALSE]
        BY <3>1 DEF PressedKeysAreHeld
      <3>3. ~(x = k /\ inbox[x] = [code |-> c, pressed |-> FALSE])
        BY <1>1, <1>4 DEF Tracked
      <3> QED BY <1>1, <3>2, <3>3 DEF TypeOK
    <2> QED BY <2>1, <2>2
  <1> QED BY <1>3, <1>4 DEF PressedKeysAreHeld

\* The user presses or releases a key of k: a device no mouse handle can
\* silence reports it.
LEMMA KeysAreReported ==
    ASSUME HeldInv, NoComboDevices, NEW k \in Kbds, NEW c \in Keys, UserKey(k, c)
    PROVE  WaitingEventsAreTrue' /\ PressedKeysAreHeld'
  <1> USE DEF HeldInv
  <1> DEFINE e == [code |-> c, pressed |-> c \notin held[k]]
  <1>1. /\ inbox[k] = nil /\ inbox' = [inbox EXCEPT ![k] = e]
        /\ pressedKeys' = pressedKeys
        /\ held' = [held EXCEPT ![k] = IF c \in @ THEN @ \ {c} ELSE @ \cup {c}]
    BY DEF UserKey, Arrives, Silenced, isMouseDevicePath, NoComboDevices
  <1>2. WaitingEventsAreTrue'
    BY <1>1 DEF WaitingEventsAreTrue, TypeOK
  <1>3. ASSUME NEW d \in pressedKeys'
        PROVE  \E x \in Kbds : d \in held'[x] \/ inbox'[x] = [code |-> d, pressed |-> FALSE]
    <2>1. PICK x \in Kbds : d \in held[x] \/ inbox[x] = [code |-> d, pressed |-> FALSE]
      BY <1>1, <1>3 DEF PressedKeysAreHeld
    <2>2. CASE x # k
      BY <1>1, <2>1, <2>2 DEF TypeOK
    <2>3. CASE x = k /\ d # c
      <3>1. [code |-> d, pressed |-> FALSE] \in KeyEvents
        BY <1>1, <1>3 DEF KeyEvents, TypeOK
      <3>2. CASE d \in held[k]
        BY <1>1, <2>3, <3>2 DEF TypeOK
      <3>3. inbox[k] # [code |-> d, pressed |-> FALSE]
        BY <1>1, <3>1, NoEventAssumption
      <3> QED BY <2>1, <2>3, <3>2, <3>3
    <2>4. CASE x = k /\ d = c
      BY <1>1, <2>1, <2>4 DEF TypeOK
    <2> QED BY <2>2, <2>3, <2>4
  <1> QED BY <1>2, <1>3 DEF PressedKeysAreHeld

\* HeldInv is inductive: only reading and typing touch its variables, apart
\* from Grab, which forgets keys.
LEMMA HeldInductive ==
    ASSUME NoComboDevices, HeldInv, TypeOK', [Next]_vars
    PROVE  HeldInv'
  <1> USE DEF HeldInv
  <1>1. ASSUME UNCHANGED <<inbox, held>>, pressedKeys' \subseteq pressedKeys
        PROVE  WaitingEventsAreTrue' /\ PressedKeysAreHeld'
    BY <1>1 DEF WaitingEventsAreTrue, PressedKeysAreHeld
  <1>2. ASSUME NEW m \in Mice, MouseStep(m)
        PROVE  UNCHANGED <<inbox, held, pressedKeys>>
    BY <1>2 DEF MouseStep, MouseForward, MouseEvent, userVars
  <1>3. ASSUME NEW k \in Kbds, KbdStep(k)
        PROVE  WaitingEventsAreTrue' /\ PressedKeysAreHeld'
    <2>1. CASE TrackKey(k)
      BY <2>1, TrackingIsTruthful
    <2>2. CASE ButtonOnKeyboard(k)
      <3>1. /\ inbox[k] # nil /\ inbox[k].code = "BTN"
            /\ inbox' = [inbox EXCEPT ![k] = nil] /\ UNCHANGED <<held, pressedKeys>>
        BY <2>2 DEF ButtonOnKeyboard
      <3>2. WaitingEventsAreTrue'
        BY <3>1 DEF WaitingEventsAreTrue, TypeOK
      <3>3. ASSUME NEW c \in pressedKeys
            PROVE  \E x \in Kbds : c \in held[x] \/ inbox'[x] = [code |-> c, pressed |-> FALSE]
        <4>1. PICK x \in Kbds : c \in held[x] \/ inbox[x] = [code |-> c, pressed |-> FALSE]
          BY DEF PressedKeysAreHeld
        <4>2. c # "BTN"
          BY KeyAssumption DEF TypeOK
        <4>3. CASE c \in held[x]
          BY <4>3
        <4>4. CASE inbox[x] = [code |-> c, pressed |-> FALSE]
          <5>1. inbox[x].code = c
            BY <4>4
          <5>2. x # k
            BY <3>1, <4>2, <5>1
          <5>3. inbox'[x] = inbox[x]
            BY <3>1, <5>2 DEF TypeOK
          <5> QED BY <4>4, <5>3
        <4> QED BY <4>1, <4>3, <4>4
      <3> QED BY <3>1, <3>2, <3>3 DEF PressedKeysAreHeld
    <2>3. CASE GrabDevices(k) \/ GrabFlushKey(k) \/ GrabReturn(k)
      BY <1>1, <2>3 DEF GrabDevices, GrabFlushKey, GrabReturn, userVars
    <2>4. CASE CheckChord(k) \/ UngrabByChord(k) \/ ClaimKeyboard(k) \/ ForwardKey(k)
               \/ ForwardButton(k) \/ OnEmergency(k)
      BY <1>1, <2>4
      DEF CheckChord, UngrabByChord, ClaimKeyboard, ForwardKey, ForwardButton,
          OnEmergency, userVars
    <2> QED BY <1>3, <2>1, <2>2, <2>3, <2>4 DEF KbdStep
  <1>4. CASE SessionStep
    BY <1>1, <1>4
    DEF SessionStep, PeerSwitches, CloseUngrabs, CloseFiles, JigglerChecks, JigglerTaps,
        userVars
  <1>5. CASE EnvStep
    <2>1. CASE WindowPasses \/ PeerStalls
      BY <1>1, <2>1 DEF WindowPasses, PeerStalls, userVars
    <2>2. CASE \E k \in Kbds, c \in Keys : UserKey(k, c)
      BY <2>2, KeysAreReported
    <2>3. CASE \E k \in Kbds, down \in BOOLEAN : UserButton(k, down)
      <3>1. PICK k \in Kbds, down \in BOOLEAN : UserButton(k, down)
        BY <2>3
      <3>2. /\ inbox[k] = nil /\ inbox' = [inbox EXCEPT ![k] = [code |-> "BTN", pressed |-> down]]
            /\ UNCHANGED <<held, pressedKeys>>
        BY <3>1 DEF UserButton, Arrives, Silenced, isMouseDevicePath, NoComboDevices
      <3>3. WaitingEventsAreTrue'
        BY <3>2, KeyAssumption DEF WaitingEventsAreTrue, TypeOK
      <3>4. ASSUME NEW c \in pressedKeys
            PROVE  \E x \in Kbds : c \in held[x] \/ inbox'[x] = [code |-> c, pressed |-> FALSE]
        <4>1. PICK x \in Kbds : c \in held[x] \/ inbox[x] = [code |-> c, pressed |-> FALSE]
          BY DEF PressedKeysAreHeld
        <4>2. [code |-> c, pressed |-> FALSE] \in KeyEvents
          BY DEF KeyEvents, TypeOK
        <4>3. CASE x = k
          BY <3>2, <4>1, <4>2, <4>3, NoEventAssumption
        <4>4. CASE x # k
          BY <3>2, <4>1, <4>4 DEF TypeOK
        <4> QED BY <4>3, <4>4
      <3> QED BY <3>2, <3>3, <3>4 DEF PressedKeysAreHeld
    <2> QED BY <1>5, <2>1, <2>2, <2>3 DEF EnvStep
  <1>6. CASE Ended \/ UNCHANGED vars
    BY <1>1, <1>6 DEF Ended, vars, userVars
  <1> QED BY <1>1, <1>2, <1>3, <1>4, <1>5, <1>6 DEF Next

\* With no keyboard on a mouse's path, Win+F1 and Win+F2 can only fire when a
\* Win key is down: pressedKeys never holds a key that was let go unnoticed.
THEOREM PressedKeysTruthful ==
    ASSUME NoComboDevices
    PROVE  Spec => []PressedKeysAreHeld
  <1>1. Init => HeldInv
    <2>1. Init => TypeOK
      BY ModeInitially DEF ModeInv
    <2> QED BY <2>1 DEF Init, HeldInv, WaitingEventsAreTrue, PressedKeysAreHeld
  <1>2. HeldInv /\ TypeOK' /\ [Next]_vars => HeldInv'
    BY HeldInductive
  <1>3. HeldInv => PressedKeysAreHeld
    BY DEF HeldInv
  <1> QED BY <1>1, <1>2, <1>3, TypeCorrect, PTL DEF Spec
-----------------------------------------------------------------------------
(* The keys that are forwarded, while the device files are open.           *)

\* In remote mode every keyboard is grabbed unless the kernel refused it.
\* This is about all keyboards and not only the one that sends: a keyboard
\* becomes the active one without a look at its grab.
RemoteGrabsKeyboards ==
    IsRemote /\ life # "closed" => Kbds \subseteq grabbed \cup MayFailGrab

\* The rebind of the mouse in grabMouseLocked never releases a keyboard.
LEMMA DecisionKeepsKeyboards ==
    ASSUME TypeOK, NEW m \in Mice, NEW e \in MouseEvents, decideMouseActivation(m, e)
    PROVE  grabbed \cap Kbds \subseteq grabbed'
  <1>1. CASE SelectMouse(m)
    <2>1. PICK ok \in GrabOutcomes({m}) : grabbed' = ungrabMouse \cup ok
      BY <1>1 DEF SelectMouse
    <2>2. activeMouse \notin Kbds
      BY DeviceAssumption DEF TypeOK, Handles
    <2> QED BY <2>1, <2>2 DEF ungrabMouse
  <1> QED BY <1>1 DEF decideMouseActivation

\* Grab asks the kernel for every keyboard that is not grabbed yet.
LEMMA GrabTakesKeyboards ==
    ASSUME NoComboDevices, NEW k \in Kbds, GrabDevices(k), life # "closed"
    PROVE  Kbds \subseteq grabbed' \cup MayFailGrab
  <1>1. PICK ok \in GrabOutcomes(KeyboardsToGrab) : grabbed' = grabbed \cup ok
    BY DEF GrabDevices
  <1>2. KeyboardsToGrab = Kbds \ grabbed
    BY DEF KeyboardsToGrab, isMouseDevicePath, NoComboDevices
  <1>3. KeyboardsToGrab \subseteq ok \cup MayFailGrab
    BY <1>1 DEF GrabOutcomes
  <1> QED BY <1>1, <1>2, <1>3

\* RemoteGrabsKeyboards is inductive: Grab establishes it, the mouse loops
\* keep it, and what releases a keyboard also leaves remote mode.
LEMMA KeyboardsStayGrabbed ==
    ASSUME NoComboDevices, ModeInv, RemoteGrabsKeyboards, [Next]_vars
    PROVE  RemoteGrabsKeyboards'
  <1> USE DEF ModeInv
  <1>1. ASSUME IsRemote' = IsRemote, life' = life \/ life' = "closed",
               grabbed \cap Kbds \subseteq grabbed'
        PROVE  RemoteGrabsKeyboards'
    BY <1>1 DEF RemoteGrabsKeyboards
  <1>2. ASSUME Ungrab
        PROVE  RemoteGrabsKeyboards'
    BY <1>2 DEF Ungrab, RemoteGrabsKeyboards
  <1>3. ASSUME NEW m \in Mice, MouseStep(m)
        PROVE  RemoteGrabsKeyboards'
    <2>1. IsRemote' = IsRemote /\ life' = life
      BY <1>3 DEF MouseStep, MouseForward, MouseEvent, modeVars, worldVars
    <2>2. grabbed \cap Kbds \subseteq grabbed'
      <3>1. CASE MouseForward(m)
        BY <3>1 DEF MouseForward, modeVars
      <3>2. ASSUME NEW e \in MouseEvents, MouseEvent(m, e)
            PROVE  grabbed \cap Kbds \subseteq grabbed'
        BY <3>2, DecisionKeepsKeyboards DEF MouseEvent
      <3> QED BY <1>3, <3>1, <3>2 DEF MouseStep
    <2> QED BY <1>1, <2>1, <2>2
  <1>4. ASSUME NEW k \in Kbds, KbdStep(k)
        PROVE  RemoteGrabsKeyboards'
    <2>1. CASE TrackKey(k) \/ CheckChord(k) \/ GrabFlushKey(k) \/ GrabReturn(k)
               \/ ForwardKey(k) \/ ForwardButton(k) \/ ClaimKeyboard(k)
      <3>1. UNCHANGED <<IsRemote, grabbed, life>>
        BY <2>1
        DEF TrackKey, CheckChord, GrabFlushKey, GrabReturn, ForwardKey, ForwardButton,
            ClaimKeyboard, modeVars, worldVars
      <3> QED BY <1>1, <3>1
    <2>2. CASE ButtonOnKeyboard(k)
      <3> DEFINE m == mouseSourceForKeyboardButton(k)
                 e == [kind |-> IF inbox[k].pressed THEN "press" ELSE "other", mag |-> 0]
      <3>1. e \in MouseEvents
        BY DEF MouseEvents
      <3>2. m \in Mice \cup {nil}
        BY DeviceAssumption DEF mouseSourceForKeyboardButton, TypeOK
      <3>3. IsRemote' = IsRemote /\ life' = life
        BY <2>2 DEF ButtonOnKeyboard, worldVars
      <3>4. CASE IsRemote /\ m # nil /\ decideMouseActivation(m, e)
        <4> HIDE DEF m, e
        <4> QED BY <1>1, <3>1, <3>2, <3>3, <3>4, DecisionKeepsKeyboards
      <3>5. CASE UNCHANGED <<activeMouse, grabbed, pending>>
        BY <1>1, <3>3, <3>5
      <3> QED BY <2>2, <3>4, <3>5 DEF ButtonOnKeyboard
    <2>3. CASE GrabDevices(k)
      <3>1. life' = life
        BY <2>3 DEF GrabDevices, worldVars
      <3> QED BY <2>3, <3>1, GrabTakesKeyboards DEF RemoteGrabsKeyboards
    <2>4. CASE UngrabByChord(k) \/ OnEmergency(k)
      BY <1>2, <2>4 DEF UngrabByChord, OnEmergency
    <2> QED BY <1>4, <2>1, <2>2, <2>3, <2>4 DEF KbdStep
  <1>5. CASE SessionStep
    <2>1. CASE PeerSwitches \/ CloseUngrabs
      BY <1>2, <2>1 DEF PeerSwitches, CloseUngrabs
    <2>2. CASE CloseFiles \/ JigglerChecks \/ JigglerTaps
      BY <1>1, <2>2 DEF CloseFiles, JigglerChecks, JigglerTaps, modeVars
    <2> QED BY <1>5, <2>1, <2>2 DEF SessionStep
  <1>6. CASE EnvStep
    <2>1. UNCHANGED <<IsRemote, grabbed, life>>
      BY <1>6 DEF EnvStep, WindowPasses, PeerStalls, UserKey, UserButton, modeVars, worldVars
    <2> QED BY <1>1, <2>1
  <1>7. CASE Ended \/ UNCHANGED vars
    <2>1. UNCHANGED <<IsRemote, grabbed, life>>
      BY <1>7 DEF Ended, vars, modeVars, worldVars
    <2> QED BY <1>1, <2>1
  <1> QED BY <1>3, <1>4, <1>5, <1>6, <1>7 DEF Next

\* Where no keyboard shares its path with a mouse, a key that is sent to the
\* other machine in remote mode comes from a keyboard the local desktop no
\* longer hears, for any number of keyboards and any interleaving, up to the
\* moment Close has closed the files: a Grab that runs after that marks
\* nothing, and sets IsRemote all the same.
THEOREM ForwardedAreSuppressed ==
    ASSUME NoComboDevices
    PROVE  Spec => [](life # "closed" => ForwardedKeysAreSuppressed)
  <1>1. Init => RemoteGrabsKeyboards
    BY DEF Init, RemoteGrabsKeyboards
  <1>2. ModeInv /\ RemoteGrabsKeyboards /\ [Next]_vars => RemoteGrabsKeyboards'
    BY KeyboardsStayGrabbed
  <1>3. RemoteGrabsKeyboards => (life # "closed" => ForwardedKeysAreSuppressed)
    BY DEF RemoteGrabsKeyboards, ForwardedKeysAreSuppressed
  <1> QED BY <1>1, <1>2, <1>3, ModeInvariant, PTL DEF Spec
=============================================================================
