CONSTANTS
    MaxSessions = 2
    MaxInterrupts = 1
SPECIFICATION FairSpec

PROPERTIES
    CtrlCQuits
