SPECIFICATION PeerSpec
CONSTANTS
  m1 = m1
  m2 = m2
  k1 = k1
  k2 = k2
  nil = nil
  Mice = {}
  Kbds = {k1}
  Combo <- NoCombo
  SamePhys <- NoPhys
  FirstMatch <- NoFirst
  Keys = {"LWIN", "F1", "PAUSE"}
  WinKeys = {"LWIN"}
  SwitchKeys = {"F1"}
  Pause = "PAUSE"
  Magnitudes = {4}
  MinMotion = 4
  MayFailGrab = {}
  JigglerOn = FALSE
  PeerMaySwitch = FALSE
  PeerMayStall = FALSE
  SessionMayEnd = FALSE
INVARIANTS
  NoKeyStuck
