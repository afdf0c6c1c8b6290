SPECIFICATION Spec
CONSTANTS
  m1 = m1
  m2 = m2
  k1 = k1
  k2 = k2
  nil = nil
  Mice = {m1, m2}
  Kbds = {k1}
  Combo <- NoCombo
  SamePhys <- PhysK1
  FirstMatch <- FirstK1
  Keys = {"LWIN", "F1", "PAUSE"}
  WinKeys = {"LWIN"}
  SwitchKeys = {"F1"}
  Pause = "PAUSE"
  Magnitudes = {1, 3}
  MinMotion = 4
  MayFailGrab = {m1, k1}
  JigglerOn = TRUE
  PeerMaySwitch = TRUE
  PeerMayStall = TRUE
  SessionMayEnd = TRUE
INVARIANTS
  TypeOK
  LocalModeIsReleased
  OtherMiceStayFree
  CandidateIsUndecided
PROPERTIES
  ImplementsFocus
