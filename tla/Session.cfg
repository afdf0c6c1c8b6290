CONSTANTS
    MaxSessions = 2
    MaxInterrupts = 1
SPECIFICATION FairSpec
INVARIANTS
    OneReceiver
    ReceiverGoesFirst
PROPERTIES
    LostSessionEnds
    Reconnects
