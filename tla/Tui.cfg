SPECIFICATION FairSpec
CONSTANTS
  MinFrame <- SmallFrame
  Terminals <- SmallTerminals
  Positions <- EdgePositions
  Texts <- TwoTexts
  ChunkLen = 5
  MaxShown = 2
  Keys <- SomeKeys
  MaxTyped = 4
INVARIANTS
  TypeOK
PROPERTIES
  QuitWorks
  CloseIsShown
  ShowsTheText
