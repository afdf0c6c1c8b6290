CONSTANTS
    Texts <- AllTexts
    Trim <- TrimTable
    Blank = "blank"
    Chunks <- ChunkTable
    Chars <- CharTable
    StartText = "short"
    Copied <- CopiedTexts
    MaxCopies = 2
    MayFail = {"b"}
    Garbage = "garbage"
    failed = "failed"
SPECIFICATION FairSpec
PROPERTIES
    WholeTexts
    ChangeIsNoticed
