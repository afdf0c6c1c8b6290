CONSTANTS
    Codes = {"KEY_A", "KEY_LEFTSHIFT", "KEY_PRINT", "KEY_SYSRQ", "KEY_FN"}
    KeyBits = {"KEY_A", "KEY_LEFTSHIFT", "KEY_PRINT", "KEY_SYSRQ"}
    VKToLinux <- KeyTable
    PrintAlias <- Aliases
    Buttons = {"BTN_LEFT", "BTN_SIDE", "BTN_EXTRA"}
    Steps <- Strides
    Notches <- UpDown
    Unit = 2
    Gain = 3
    SourceWidth = 1366
    ScreenW = 2560
    StartPointers = {1280}
    Mixes <- Sessions
    MaxWire = 2
SPECIFICATION Spec
INVARIANTS
    TypeOK
    NothingSticks
    PointerAccurate
    ScrollAgrees
PROPERTY ErrorNeverGrows
