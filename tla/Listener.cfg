SPECIFICATION FairListenerSpec
CONSTANTS
  Burst = 10
  AnonymousAck = {"dialer"}
  MaxData = 1
  MaxDials = 2
  MaxStrangers = 2
INVARIANTS
  NoSessionPacketSwallowed
  FinishedSideOwesNothing
  TrustIsMutual
  AckNamesThePeer
PROPERTIES
  AcceptedGetsConnected
  OnlySilenceBlocks
CHECK_DEADLOCK FALSE
